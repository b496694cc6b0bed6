----------------------------- MODULE MCCommunities -----------------------------
(* Two topics, a concept that joins each of them, so that two detections may   *)
(* find the clusters in opposite orders, one that joins both, and a save that  *)
(* brings nothing new but an edge between the two.                             *)
EXTENDS Communities, TLC

All   == {"left", "right", "toleft", "toright", "both", "bridge"}
New   == "left" :> {1} @@ "right" :> {2} @@ "toleft" :> {3} @@ "toright" :> {4}
           @@ "both" :> {5} @@ "bridge" :> {}
Drawn == [r \in All |-> CASE r = "toleft"  -> {<<3, 1>>}
                          [] r = "toright" -> {<<4, 2>>}
                          [] r = "both"    -> {<<5, 1>>, <<5, 2>>}
                          [] r = "bridge"  -> {<<1, 2>>}
                          [] OTHER         -> {}]

=============================================================================
