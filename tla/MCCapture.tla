------------------------------ MODULE MCCapture ------------------------------
(* A small workspace: two uploads that share their parts in opposite orders, *)
(* one of which repeats a part. Each may be sent again.                       *)
EXTENDS Capture

Parts == "upload" :> <<"x", "y", "x">> @@ "again" :> <<"y", "x">>

=============================================================================
