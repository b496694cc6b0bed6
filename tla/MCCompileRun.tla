---------------------------- MODULE MCCompileRun ----------------------------
(* CompileRun on small sets of interchangeable runs, slots and executions.   *)
EXTENDS CompileRun, TLC

Perms == Permutations(Runs) \cup Permutations(Slots) \cup Permutations(Flows)

=============================================================================
