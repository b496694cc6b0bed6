------------------------------ MODULE CompileRun ------------------------------
(***************************************************************************)
(* The life of a compile run, from the save that queues it to the commit   *)
(* that merges it (apps/api/app/worker.py, core/queue.py, services/        *)
(* capture.py, api/routers/runs.py and internal.py, and the agent workflow *)
(* apps/agent/src/mastra/workflows/compile-item.ts).                       *)
(*                                                                         *)
(* Five kinds of actor share the run's row:                                *)
(*   - API handlers that save a document or retry a run: they commit the   *)
(*     row as "queued" and only then hand the job to arq;                  *)
(*   - arq (external): one job key per run id, a lock while a worker holds *)
(*     it, and a result key that outlives the job;                         *)
(*   - the slots of the worker (max_jobs), each a coroutine of             *)
(*     compile_item;                                                       *)
(*   - the agent's workflows (external process): started by a slot's POST, *)
(*     they go on whether or not the slot still waits for them;            *)
(*   - the faults named in Faults, each a thing the code has a handler, a  *)
(*     comment or a retry for.                                             *)
(* A run and the item it compiles are created together and one to one, so  *)
(* an item is named by its run.                                            *)
(***************************************************************************)
EXTENDS Naturals

CONSTANTS
  Runs,        \* run ids: each is also the arq job id
  Slots,       \* coroutines the worker runs at once (WorkerSettings.max_jobs)
  Flows,       \* workflow executions alive in the agent at one time (a bound)
  NoRun, NoFlow,
  MaxTries,    \* arq's max_tries: deliveries of one job
  MaxRetries,  \* bound: retry requests a user makes for one run
  Faults       \* which faults may happen

FaultKinds ==
  { "queue_down",    \* enqueue_job raises
    "queue_lost",    \* Redis restarts empty
    "api_crash",     \* the API dies between a commit and its enqueue
    "worker_crash",  \* the worker process dies or is redeployed
    "db_error",      \* a session of compile_item raises
    "agent_down",    \* the agent refuses the connection
    "agent_crash",   \* the agent dies with its workflows
    "slow_agent",    \* a workflow outlives the worker's HTTP timeout
    "lost_answer" }  \* apply-compile commits but its response is lost

ASSUME FaultsAssumption == Faults \subseteq FaultKinds
ASSUME BoundsAssumption == MaxTries \in Nat \ {0} /\ MaxRetries \in Nat
ASSUME NoneAssumption   == NoRun \notin Runs /\ NoFlow \notin Flows

VARIABLES
  runStatus,   \* compile_runs.status
  runError,    \* who wrote compile_runs.error last, "none" when it is null
  itemStatus,  \* raw_items.status of the run's item
  retries,     \* retry requests accepted so far
  handlers,    \* API handlers past their commit, before their enqueue
  job,         \* arq: "none", "waiting" in the queue, "locked" by a worker
  result,      \* arq: the result key of the job id exists
  tries,       \* arq: deliveries of the present job
  holder,      \* the run a slot is executing
  pc,          \* where in compile_item a slot is
  waits,       \* the workflow whose HTTP answer a slot awaits
  subject,     \* the run a workflow execution compiles
  stage,       \* how far a workflow execution is
  applied,     \* history: commits of /internal/apply-compile for the run
  redisLost    \* history: Redis has restarted empty

rowVars   == <<runStatus, runError, itemStatus>>
apiVars   == <<retries, handlers>>
arqVars   == <<job, result, tries>>
slotVars  == <<holder, pc, waits>>
agentVars == <<subject, stage>>
histVars  == <<applied, redisLost>>
vars == <<rowVars, apiVars, arqVars, slotVars, agentVars, histVars>>

RunStatuses  == {"absent", "queued", "running", "succeeded", "failed"}
ItemStatuses == {"absent", "pending", "processing", "compiled", "failed"}
ErrorWriters == {"none", "queue", "agent", "worker"}
Points       == {"idle", "start", "post", "wait", "poll", "fail", "finish"}
Stages       == {"unused", "working", "reported", "naming", "ok", "thrown", "gone"}
Alive        == {"working", "reported", "naming"}

TypeOK ==
  /\ runStatus \in [Runs -> RunStatuses]
  /\ runError \in [Runs -> ErrorWriters]
  /\ itemStatus \in [Runs -> ItemStatuses]
  /\ retries \in [Runs -> 0..MaxRetries]
  /\ handlers \in [Runs -> Nat]
  /\ job \in [Runs -> {"none", "waiting", "locked"}]
  /\ result \in [Runs -> BOOLEAN]
  /\ tries \in [Runs -> 0..MaxTries]
  /\ holder \in [Slots -> Runs \cup {NoRun}]
  /\ pc \in [Slots -> Points]
  /\ waits \in [Slots -> Flows \cup {NoFlow}]
  /\ subject \in [Flows -> Runs \cup {NoRun}]
  /\ stage \in [Flows -> Stages]
  /\ applied \in [Runs -> Nat]
  /\ redisLost \in BOOLEAN

Init ==
  /\ runStatus = [r \in Runs |-> "absent"]
  /\ runError = [r \in Runs |-> "none"]
  /\ itemStatus = [r \in Runs |-> "absent"]
  /\ retries = [r \in Runs |-> 0]
  /\ handlers = [r \in Runs |-> 0]
  /\ job = [r \in Runs |-> "none"]
  /\ result = [r \in Runs |-> FALSE]
  /\ tries = [r \in Runs |-> 0]
  /\ holder = [w \in Slots |-> NoRun]
  /\ pc = [w \in Slots |-> "idle"]
  /\ waits = [w \in Slots |-> NoFlow]
  /\ subject = [f \in Flows |-> NoRun]
  /\ stage = [f \in Flows |-> "unused"]
  /\ applied = [r \in Runs |-> 0]
  /\ redisLost = FALSE

-----------------------------------------------------------------------------
(* The API: save, retry, and the enqueue that follows their commit.          *)

\* services/capture.py save_and_queue: item and run in one commit.
Save(r) ==
  /\ runStatus[r] = "absent"
  /\ runStatus' = [runStatus EXCEPT ![r] = "queued"]
  /\ itemStatus' = [itemStatus EXCEPT ![r] = "pending"]
  /\ handlers' = [handlers EXCEPT ![r] = @ + 1]
  /\ UNCHANGED <<runError, retries, arqVars, slotVars, agentVars, histVars>>

\* Mutant: the guard forgets why a succeeded run is not there.
RetryableOnceMerged == {"failed", "queued", "succeeded"}

Retryable == {"failed", "queued"}

\* routers/runs.py retry_run up to its commit: the row is reset, the item is not.
Retry(r) ==
  /\ runStatus[r] \in Retryable
  /\ retries[r] < MaxRetries
  /\ runStatus' = [runStatus EXCEPT ![r] = "queued"]
  /\ runError' = [runError EXCEPT ![r] = "none"]
  /\ retries' = [retries EXCEPT ![r] = @ + 1]
  /\ handlers' = [handlers EXCEPT ![r] = @ + 1]
  /\ UNCHANGED <<itemStatus, arqVars, slotVars, agentVars, histVars>>

\* Mutant: only a queued job counts as a duplicate, not one that is running.
IdTakenWhileWaiting(r) == job[r] = "waiting" \/ result[r]

\* arq's enqueue_job does nothing, silently, while the id has a job or a result.
IdTaken(r) == job[r] # "none" \/ result[r]

EnqueueJob(r) ==
  /\ handlers[r] > 0
  /\ handlers' = [handlers EXCEPT ![r] = @ - 1]
  /\ job' = IF IdTaken(r) THEN job ELSE [job EXCEPT ![r] = "waiting"]
  /\ UNCHANGED <<rowVars, retries, result, tries, slotVars, agentVars, histVars>>

\* enqueue_compile's except branch: whatever the row says by now, it fails.
EnqueueFails(r) ==
  /\ "queue_down" \in Faults
  /\ handlers[r] > 0
  /\ handlers' = [handlers EXCEPT ![r] = @ - 1]
  /\ runStatus' = [runStatus EXCEPT ![r] = "failed"]
  /\ runError' = [runError EXCEPT ![r] = "queue"]
  /\ UNCHANGED <<itemStatus, retries, arqVars, slotVars, agentVars, histVars>>

ApiCrash ==
  /\ "api_crash" \in Faults
  /\ \E r \in Runs : handlers[r] > 0
  /\ handlers' = [r \in Runs |-> 0]
  /\ UNCHANGED <<rowVars, retries, arqVars, slotVars, agentVars, histVars>>

-----------------------------------------------------------------------------
(* arq, between the API and the worker.                                      *)

\* keep_result is an hour; no API request is still on its way by then.
ResultExpires(r) ==
  /\ result[r]
  /\ handlers[r] = 0
  /\ result' = [result EXCEPT ![r] = FALSE]
  /\ UNCHANGED <<rowVars, apiVars, job, tries, slotVars, agentVars, histVars>>

\* The lock lasts longer than job_timeout, so it expires only on a dead slot.
LockExpires(r) ==
  /\ job[r] = "locked"
  /\ \A w \in Slots : holder[w] # r
  /\ job' = [job EXCEPT ![r] = "waiting"]
  /\ UNCHANGED <<rowVars, apiVars, result, tries, slotVars, agentVars, histVars>>

QueueLost ==
  /\ "queue_lost" \in Faults
  /\ \E r \in Runs : job[r] # "none"
  /\ job' = [r \in Runs |-> "none"]
  /\ result' = [r \in Runs |-> FALSE]
  /\ tries' = [r \in Runs |-> 0]
  /\ redisLost' = TRUE
  /\ UNCHANGED <<rowVars, apiVars, slotVars, agentVars, applied>>

\* The job is over: its key goes, its result stays, whoever asks again is ignored.
JobDone(r) ==
  /\ job' = [job EXCEPT ![r] = "none"]
  /\ result' = [result EXCEPT ![r] = TRUE]
  /\ tries' = [tries EXCEPT ![r] = 0]

GiveUp(r) ==
  /\ job[r] = "waiting"
  /\ tries[r] = MaxTries
  /\ \E w \in Slots : holder[w] = NoRun
  /\ JobDone(r)
  /\ UNCHANGED <<rowVars, apiVars, slotVars, agentVars, histVars>>

\* Mutant: one delivery too many.
DeliverableOnceMore(r) == job[r] = "waiting" /\ tries[r] <= MaxTries

Deliverable(r) == job[r] = "waiting" /\ tries[r] < MaxTries

PickUp(w, r) ==
  /\ holder[w] = NoRun
  /\ Deliverable(r)
  /\ job' = [job EXCEPT ![r] = "locked"]
  /\ tries' = [tries EXCEPT ![r] = @ + 1]
  /\ holder' = [holder EXCEPT ![w] = r]
  /\ pc' = [pc EXCEPT ![w] = "start"]
  /\ UNCHANGED <<rowVars, apiVars, result, waits, agentVars, histVars>>

-----------------------------------------------------------------------------
(* A slot of the worker: compile_item.                                       *)

GoTo(w, from, to) ==
  /\ pc[w] = from
  /\ pc' = [pc EXCEPT ![w] = to]

\* First session of compile_item: no look at the status the row has.
StartRun(w) ==
  /\ GoTo(w, "start", "post")
  /\ runStatus' = [runStatus EXCEPT ![holder[w]] = "running"]
  /\ itemStatus' = [itemStatus EXCEPT ![holder[w]] = "processing"]
  /\ UNCHANGED <<runError, apiVars, arqVars, holder, waits, agentVars, histVars>>

Post(w, f) ==
  /\ GoTo(w, "post", "wait")
  /\ stage[f] = "unused"
  /\ waits' = [waits EXCEPT ![w] = f]
  /\ subject' = [subject EXCEPT ![f] = holder[w]]
  /\ stage' = [stage EXCEPT ![f] = "working"]
  /\ UNCHANGED <<rowVars, apiVars, arqVars, holder, histVars>>

PostRefused(w) ==
  /\ "agent_down" \in Faults
  /\ GoTo(w, "post", "fail")
  /\ UNCHANGED <<rowVars, apiVars, arqVars, holder, waits, agentVars, histVars>>

\* The slot stops waiting; an execution that was over leaves nothing behind.
StopWaiting(w) ==
  /\ waits' = [waits EXCEPT ![w] = NoFlow]
  /\ IF stage[waits[w]] \in Alive
       THEN UNCHANGED agentVars
       ELSE /\ subject' = [subject EXCEPT ![waits[w]] = NoRun]
            /\ stage' = [stage EXCEPT ![waits[w]] = "unused"]

\* A thrown workflow answers 200 with its status or a 5xx: both are handled.
Answered(w) ==
  /\ \/ GoTo(w, "wait", "poll") /\ stage[waits[w]] \in {"ok", "thrown"}
     \/ GoTo(w, "wait", "fail") /\ stage[waits[w]] \in {"thrown", "gone"}
  /\ StopWaiting(w)
  /\ UNCHANGED <<rowVars, apiVars, arqVars, holder, histVars>>

\* Mutant: the HTTP client has no timeout.
WaitForever(w) == FALSE /\ StopWaiting(w) /\ UNCHANGED vars

\* WORKFLOW_TIMEOUT_SECONDS: the workflow itself is not told.
HttpTimeout(w) ==
  /\ "slow_agent" \in Faults
  /\ GoTo(w, "wait", "fail")
  /\ stage[waits[w]] \in Alive
  /\ StopWaiting(w)
  /\ UNCHANGED <<rowVars, apiVars, arqVars, holder, histVars>>

\* Mutant: the poll has no deadline.
PollUntilTerminal(w) ==
  /\ pc[w] = "poll"
  /\ runStatus[holder[w]] \in {"succeeded", "failed"}
  /\ pc' = [pc EXCEPT ![w] =
               IF runStatus[holder[w]] = "succeeded" THEN "finish" ELSE "fail"]
  /\ UNCHANGED <<rowVars, apiVars, arqVars, holder, waits, agentVars, histVars>>

\* _await_terminal_status: anything but "succeeded" by the deadline is a failure.
Poll(w) ==
  /\ pc[w] = "poll"
  /\ pc' = [pc EXCEPT ![w] =
               IF runStatus[holder[w]] = "succeeded" THEN "finish" ELSE "fail"]
  /\ UNCHANGED <<rowVars, apiVars, arqVars, holder, waits, agentVars, histVars>>

\* Mutant: the item is left as it was.
RecordRunFailureOnly(r, who) ==
  /\ runStatus' = [runStatus EXCEPT ![r] = "failed"]
  /\ runError' = [runError EXCEPT ![r] = who]
  /\ UNCHANGED itemStatus

\* What both failure reports write, whatever the row holds.
RecordFailure(r, who) ==
  /\ runStatus' = [runStatus EXCEPT ![r] = "failed"]
  /\ runError' = [runError EXCEPT ![r] = who]
  /\ itemStatus' = [itemStatus EXCEPT ![r] = "failed"]

MarkFailed(w) ==
  /\ GoTo(w, "fail", "finish")
  /\ RecordFailure(holder[w], "worker")
  /\ UNCHANGED <<apiVars, arqVars, holder, waits, agentVars, histVars>>

Finish(w) ==
  /\ GoTo(w, "finish", "idle")
  /\ JobDone(holder[w])
  /\ holder' = [holder EXCEPT ![w] = NoRun]
  /\ UNCHANGED <<rowVars, apiVars, waits, agentVars, histVars>>

\* A session raises: arq logs the exception and keeps it as the job's result.
JobRaises(w) ==
  /\ "db_error" \in Faults
  /\ pc[w] \in {"start", "poll", "fail"}
  /\ pc' = [pc EXCEPT ![w] = "finish"]
  /\ UNCHANGED <<rowVars, apiVars, arqVars, holder, waits, agentVars, histVars>>

\* Jobs stay locked in Redis, workflows stay alive in the agent.
WorkerCrash ==
  /\ "worker_crash" \in Faults
  /\ \E w \in Slots : holder[w] # NoRun
  /\ holder' = [w \in Slots |-> NoRun]
  /\ pc' = [w \in Slots |-> "idle"]
  /\ waits' = [w \in Slots |-> NoFlow]
  /\ stage' = [f \in Flows |-> IF stage[f] \in Alive THEN stage[f] ELSE "unused"]
  /\ subject' = [f \in Flows |-> IF stage[f] \in Alive THEN subject[f] ELSE NoRun]
  /\ UNCHANGED <<rowVars, apiVars, arqVars, histVars>>

-----------------------------------------------------------------------------
(* A workflow execution in the agent.                                        *)

Awaited(f) == \E w \in Slots : waits[w] = f

EndFlow(f, how) ==
  /\ stage' = [stage EXCEPT ![f] = IF Awaited(f) THEN how ELSE "unused"]
  /\ subject' = [subject EXCEPT ![f] = IF Awaited(f) THEN @ ELSE NoRun]

\* generateStructured ran out of attempts: reportFailure, then throw.
FlowReports(f) ==
  /\ stage[f] = "working"
  /\ RecordFailure(subject[f], "agent")
  /\ stage' = [stage EXCEPT ![f] = "reported"]
  /\ UNCHANGED <<apiVars, arqVars, slotVars, subject, histVars>>

\* After a report, or with none: a read, the report or apply-compile failed.
FlowThrows(f) ==
  /\ stage[f] \in {"working", "reported"}
  /\ EndFlow(f, "thrown")
  /\ UNCHANGED <<rowVars, apiVars, arqVars, slotVars, histVars>>

\* /internal/apply-compile: one transaction, whatever the row's status is.
Apply(f) ==
  /\ stage[f] = "working"
  /\ runStatus' = [runStatus EXCEPT ![subject[f]] = "succeeded"]
  /\ itemStatus' = [itemStatus EXCEPT ![subject[f]] = "compiled"]
  /\ applied' = [applied EXCEPT ![subject[f]] = @ + 1]
  /\ stage' = [stage EXCEPT ![f] = "naming"]
  /\ UNCHANGED <<runError, apiVars, arqVars, slotVars, subject, redisLost>>

AnswerLost(f) ==
  /\ "lost_answer" \in Faults
  /\ stage[f] = "naming"
  /\ EndFlow(f, "thrown")
  /\ UNCHANGED <<rowVars, apiVars, arqVars, slotVars, histVars>>

\* Mutant: a cluster that cannot be named fails the run like any other step.
NamingFailureReported(f) ==
  /\ stage[f] = "naming"
  /\ RecordFailure(subject[f], "agent")
  /\ EndFlow(f, "thrown")
  /\ UNCHANGED <<apiVars, arqVars, slotVars, histVars>>

\* nameClusters never fails the run.
FlowCompletes(f) ==
  /\ stage[f] = "naming"
  /\ EndFlow(f, "ok")
  /\ UNCHANGED <<rowVars, apiVars, arqVars, slotVars, histVars>>

AgentCrash ==
  /\ "agent_crash" \in Faults
  /\ \E f \in Flows : stage[f] \in Alive
  /\ stage' = [f \in Flows |-> IF stage[f] \notin Alive THEN stage[f]
                               ELSE IF Awaited(f) THEN "gone" ELSE "unused"]
  /\ subject' = [f \in Flows |-> IF stage[f] \in Alive /\ ~Awaited(f)
                                 THEN NoRun ELSE subject[f]]
  /\ UNCHANGED <<rowVars, apiVars, arqVars, slotVars, histVars>>

-----------------------------------------------------------------------------

Enqueue(r) == EnqueueJob(r) \/ EnqueueFails(r)
ApiNext    == ApiCrash \/ \E r \in Runs : Save(r) \/ Retry(r) \/ Enqueue(r)
ArqNext    == QueueLost \/ \E r \in Runs : ResultExpires(r) \/ LockExpires(r) \/ GiveUp(r)
Deliver(r) == \E w \in Slots : PickUp(w, r)
SendPost(w) == PostRefused(w) \/ \E f \in Flows : Post(w, f)
HearBack(w) == Answered(w) \/ HttpTimeout(w)
SlotStep(w) ==
  StartRun(w) \/ SendPost(w) \/ HearBack(w) \/ Poll(w) \/ MarkFailed(w) \/ Finish(w)
WorkerNext ==
  \/ WorkerCrash
  \/ \E r \in Runs : Deliver(r)
  \/ \E w \in Slots : SlotStep(w) \/ JobRaises(w)
FlowStep(f) ==
  FlowReports(f) \/ FlowThrows(f) \/ Apply(f) \/ AnswerLost(f) \/ FlowCompletes(f)
AgentNext == AgentCrash \/ \E f \in Flows : FlowStep(f)

Next == ApiNext \/ ArqNext \/ WorkerNext \/ AgentNext

Spec == Init /\ [][Next]_vars

\* The API, arq and the worker keep going: an event loop that is up runs what is
\* ready. Nothing is assumed of the agent: its calls to a model may hang.
ServerFairness ==
  /\ \A r \in Runs : WF_vars(Enqueue(r)) /\ WF_vars(Deliver(r))
                     /\ WF_vars(LockExpires(r)) /\ WF_vars(GiveUp(r))
  /\ \A w \in Slots : WF_vars(SlotStep(w))

FairSpec == Spec /\ ServerFairness

-----------------------------------------------------------------------------
(* Safety.                                                                   *)

\* The worker has not begun run r: no slot is past its first session with it, and no
\* execution of the workflow is about it.
NotBegun(r) ==
  /\ \A w \in Slots : holder[w] = r => pc[w] \in {"start", "finish"}
  /\ \A f \in Flows : subject[f] # r

\* The item's status tells the same story as its run's, although five different
\* transactions write the pair and the retry and the enqueue write the run alone: a
\* run that runs is processing, one that succeeded is compiled, one that the worker
\* or the agent failed is failed. Not so one that a failing enqueue failed: enqueue_compile
\* (queue.py:78) overwrites the run, whatever it says, and when it comes late, after
\* another request's job began the run or merged it, the item goes on saying so. It is
\* the item that is right then: it is compiled only if a compile was merged, and still
\* pending only if no worker ever began the run.
ItemFollowsRun ==
  \A r \in Runs :
    /\ runStatus[r] = "absent" => itemStatus[r] = "absent"
    /\ runStatus[r] = "running" => itemStatus[r] = "processing"
    /\ runStatus[r] = "succeeded" => itemStatus[r] = "compiled"
    /\ runStatus[r] = "failed" /\ runError[r] # "queue" => itemStatus[r] = "failed"
    /\ itemStatus[r] = "compiled" => applied[r] > 0
    /\ itemStatus[r] \in {"absent", "pending"} => applied[r] = 0 /\ NotBegun(r)

\* No two slots execute the same run, whatever is retried, redelivered or crashes,
\* as long as Redis keeps the job's key and lock (enqueue_compile's _job_id and
\* arq's lock; runs.py: "two workers compiling one item concurrently").
OneSlotPerRun ==
  ~redisLost => \A v, w \in Slots : holder[v] = holder[w] /\ holder[v] # NoRun => v = w

\* No two executions of the agent's workflow compile the same run at once: the
\* slot that started one waits until it is over.
OneFlowPerRun ==
  \A f, g \in Flows :
    stage[f] \in Alive /\ stage[g] \in Alive /\ subject[f] = subject[g] => f = g

\* A run's claims are merged at most once. Nothing in apply_compile checks it: it
\* rests on the retry guard, the job id, the lock and the worker's wait together.
AppliedAtMostOnce == \A r \in Runs : applied[r] <= 1

\* A run that shows as failed, and so offers a retry, wrote nothing to the wiki
\* (test_runs.py: "the agent was down, nothing was written, try again").
FailedMeansNothingWritten ==
  \A r \in Runs : runStatus[r] = "failed" => applied[r] = 0

\* A run that succeeded stays succeeded (runs.py: a succeeded run has already been
\* merged and is never queued again).
SucceededIsFinal ==
  [][\A r \in Runs : runStatus[r] = "succeeded" => runStatus'[r] = "succeeded"]_vars

\* A run the feed shows as queued has something that will run it: an API handler
\* about to enqueue it, or a job in arq.
QueuedHasJob ==
  \A r \in Runs : runStatus[r] = "queued" => handlers[r] > 0 \/ job[r] # "none"

\* A run's status is the life the API's comments describe: queued, begun, and then
\* merged for good or failed with nothing written, a retry starting it over.
RL == INSTANCE RunLife WITH status <- runStatus, merged <- applied

LifeIsImplemented == RL!Spec

-----------------------------------------------------------------------------
(* Liveness.                                                                 *)

Settled(r) == runStatus[r] \in {"succeeded", "failed"}

\* Every saved document ends as compiled or as visibly failed, even when the agent
\* hangs or is down: the worker's timeout is what guarantees it (worker.py: "a
\* hung model call would occupy a worker slot indefinitely").
EveryRunSettles == \A r \in Runs : runStatus[r] = "queued" ~> Settled(r)

\* A slot that took a job gives it back.
SlotIsFreed == \A w \in Slots : holder[w] # NoRun ~> holder[w] = NoRun

=============================================================================
