------------------------------- MODULE RunLife -------------------------------
(***************************************************************************)
(* What the library may rely on of a compile run (apps/api/app/api/        *)
(* routers/runs.py, RETRYABLE_STATUSES: "re-running a succeeded compile    *)
(* merges the same claims into the page a second time, and re-queueing a   *)
(* running one has two workers compiling one item concurrently"): it is    *)
(* queued, begun from there, and then merged, once and for good, or        *)
(* failed, with nothing written, and queued again if its reader asks.      *)
(* CompileRun implements it as long as it is not parted from its jobs.     *)
(***************************************************************************)
EXTENDS Naturals

CONSTANT Runs

VARIABLES
  status,      \* of each run, "absent" before its document is saved
  merged       \* how often its claims were written to the wiki

Init ==
  /\ status = [r \in Runs |-> "absent"]
  /\ merged = [r \in Runs |-> 0]

Turns(r, from, to) ==
  /\ status[r] \in from
  /\ status' = [status EXCEPT ![r] = to]

Queue(r) == Turns(r, {"absent", "queued", "failed"}, "queued") /\ UNCHANGED merged
Begin(r) == Turns(r, {"queued"}, "running") /\ UNCHANGED merged
Fail(r)  == Turns(r, {"queued", "running"}, "failed") /\ UNCHANGED merged

Merge(r) ==
  /\ Turns(r, {"running"}, "succeeded")
  /\ merged' = [merged EXCEPT ![r] = @ + 1]

Next == \E r \in Runs : Queue(r) \/ Begin(r) \/ Fail(r) \/ Merge(r)

Spec == Init /\ [][Next]_<<status, merged>>

=============================================================================
