---------------------------- MODULE MCPageHistory ----------------------------
(* Small instances of PageHistory. Runs and flows are numbers here so that   *)
(* RunOf can be written down: each execution compiles a run of its own.      *)
EXTENDS PageHistory

OneEach == [f \in Flows |-> f]

=============================================================================
