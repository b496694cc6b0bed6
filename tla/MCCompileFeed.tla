---------------------------- MODULE MCCompileFeed ----------------------------
(* A small instance of CompileFeed: a run is named for its workspace, so that *)
(* RunWs can be written down.                                                 *)
EXTENDS CompileFeed

Namesake == [r \in Runs |-> r]

=============================================================================
