-------------------------- MODULE CompileRun_proofs --------------------------
(* What holds of CompileRun for every number of runs, slots and executions.  *)
EXTENDS CompileRun, TLAPS

-----------------------------------------------------------------------------
(* Types.                                                                    *)

LEMMA TypeInit == Init => TypeOK
<1> SUFFICES ASSUME Init PROVE TypeOK
  OBVIOUS
<1>1. result \in [Runs -> BOOLEAN] /\ redisLost \in BOOLEAN
  BY DEF Init
<1>2. 0 \in 0..MaxRetries /\ 0 \in 0..MaxTries
  BY BoundsAssumption
<1> QED BY <1>1, <1>2
        DEF Init, TypeOK, RunStatuses, ItemStatuses, ErrorWriters, Points, Stages

\* The keys arq keeps of a job, after the job is over.
LEMMA JobDoneTypes ==
  ASSUME TypeOK, NEW r, JobDone(r)
  PROVE  /\ job' \in [Runs -> {"none", "waiting", "locked"}]
         /\ result' \in [Runs -> BOOLEAN]
         /\ tries' \in [Runs -> 0..MaxTries]
<1>1. job' \in [Runs -> {"none", "waiting", "locked"}]
  BY DEF TypeOK, JobDone
<1>2. result' \in [Runs -> BOOLEAN]
  <2>1. result \in [Runs -> BOOLEAN] /\ result' = [result EXCEPT ![r] = TRUE]
    BY DEF TypeOK, JobDone
  <2> QED BY <2>1, Zenon
<1>3. tries' \in [Runs -> 0..MaxTries]
  <2>1. tries \in [Runs -> 0..MaxTries] /\ tries' = [tries EXCEPT ![r] = 0]
    BY DEF TypeOK, JobDone
  <2>2. 0 \in 0..MaxTries
    BY BoundsAssumption
  <2> QED BY <2>1, <2>2, Zenon
<1> QED BY <1>1, <1>2, <1>3

\* Every step keeps the variables in their domains: the interesting ones are the
\* two counters that go down and the two that arq and the retry guard bound.
LEMMA TypeStep == TypeOK /\ [Next]_vars => TypeOK'
<1> SUFFICES ASSUME TypeOK, [Next]_vars PROVE TypeOK'
  OBVIOUS
<1> USE BoundsAssumption, NoneAssumption
<1> USE DEF TypeOK, RunStatuses, ItemStatuses, ErrorWriters, Points, Stages, Alive,
            rowVars, apiVars, arqVars, slotVars, agentVars, histVars
<1>1. CASE ApiNext
  <2>1. ASSUME NEW r \in Runs, Save(r) PROVE TypeOK'
    BY <2>1 DEF Save
  <2>2. ASSUME NEW r \in Runs, Retry(r) PROVE TypeOK'
    BY <2>2 DEF Retry
  <2>3. ASSUME NEW r \in Runs, EnqueueJob(r) PROVE TypeOK'
    BY <2>3 DEF EnqueueJob, IdTaken
  <2>4. ASSUME NEW r \in Runs, EnqueueFails(r) PROVE TypeOK'
    BY <2>4 DEF EnqueueFails
  <2>5. CASE ApiCrash
    BY <2>5 DEF ApiCrash
  <2> QED BY <1>1, <2>1, <2>2, <2>3, <2>4, <2>5 DEF ApiNext, Enqueue
<1>2. CASE ArqNext
  <2>1. ASSUME NEW r \in Runs, ResultExpires(r) PROVE TypeOK'
    BY <2>1 DEF ResultExpires
  <2>2. ASSUME NEW r \in Runs, LockExpires(r) PROVE TypeOK'
    BY <2>2 DEF LockExpires
  <2>3. ASSUME NEW r \in Runs, GiveUp(r) PROVE TypeOK'
    BY <2>3, JobDoneTypes DEF GiveUp
  <2>4. CASE QueueLost
    BY <2>4 DEF QueueLost
  <2> QED BY <1>2, <2>1, <2>2, <2>3, <2>4 DEF ArqNext
<1>3. CASE WorkerNext
  <2>1. ASSUME NEW w \in Slots, NEW r \in Runs, PickUp(w, r) PROVE TypeOK'
    BY <2>1 DEF PickUp, Deliverable
  <2>2. ASSUME NEW w \in Slots, StartRun(w) PROVE TypeOK'
    BY <2>2 DEF StartRun, GoTo
  <2>3. ASSUME NEW w \in Slots, NEW f \in Flows, Post(w, f) PROVE TypeOK'
    BY <2>3 DEF Post, GoTo
  <2>4. ASSUME NEW w \in Slots, PostRefused(w) PROVE TypeOK'
    BY <2>4 DEF PostRefused, GoTo
  <2>5. ASSUME NEW w \in Slots, Answered(w) PROVE TypeOK'
    BY <2>5 DEF Answered, StopWaiting, GoTo
  <2>6. ASSUME NEW w \in Slots, HttpTimeout(w) PROVE TypeOK'
    BY <2>6 DEF HttpTimeout, StopWaiting, GoTo
  <2>7. ASSUME NEW w \in Slots, Poll(w) PROVE TypeOK'
    BY <2>7 DEF Poll
  <2>8. ASSUME NEW w \in Slots, MarkFailed(w) PROVE TypeOK'
    BY <2>8 DEF MarkFailed, RecordFailure, GoTo
  <2>9. ASSUME NEW w \in Slots, Finish(w) PROVE TypeOK'
    BY <2>9, JobDoneTypes DEF Finish, GoTo
  <2>10. ASSUME NEW w \in Slots, JobRaises(w) PROVE TypeOK'
    BY <2>10 DEF JobRaises
  <2>11. CASE WorkerCrash
    BY <2>11 DEF WorkerCrash
  <2> QED BY <1>3, <2>1, <2>2, <2>3, <2>4, <2>5, <2>6, <2>7, <2>8, <2>9, <2>10, <2>11
          DEF WorkerNext, Deliver, SlotStep, SendPost, HearBack
<1>4. CASE AgentNext
  <2>1. ASSUME NEW f \in Flows, FlowReports(f) PROVE TypeOK'
    BY <2>1 DEF FlowReports, RecordFailure
  <2>2. ASSUME NEW f \in Flows, FlowThrows(f) PROVE TypeOK'
    BY <2>2 DEF FlowThrows, EndFlow
  <2>3. ASSUME NEW f \in Flows, Apply(f) PROVE TypeOK'
    <3>1. applied' \in [Runs -> Nat]
      <4>1. CASE subject[f] \in Runs
        BY <2>3, <4>1 DEF Apply
      <4>2. CASE subject[f] = NoRun
        <5>1. applied' = applied
          BY <2>3, <4>2 DEF Apply
        <5> QED BY <5>1
      <4> QED BY <4>1, <4>2
    <3> QED BY <2>3, <3>1 DEF Apply
  <2>4. ASSUME NEW f \in Flows, AnswerLost(f) PROVE TypeOK'
    BY <2>4 DEF AnswerLost, EndFlow
  <2>5. ASSUME NEW f \in Flows, FlowCompletes(f) PROVE TypeOK'
    BY <2>5 DEF FlowCompletes, EndFlow
  <2>6. CASE AgentCrash
    BY <2>6 DEF AgentCrash
  <2> QED BY <1>4, <2>1, <2>2, <2>3, <2>4, <2>5, <2>6 DEF AgentNext, FlowStep
<1>5. CASE UNCHANGED vars
  BY <1>5 DEF vars
<1> QED BY <1>1, <1>2, <1>3, <1>4, <1>5 DEF Next

\* Statuses, keys, locks and program points stay in their domains, for any number
\* of runs, slots and concurrent executions and under every fault.
THEOREM TypeCorrect == Spec => []TypeOK
  BY TypeInit, TypeStep, PTL DEF Spec

-----------------------------------------------------------------------------
(* The slots and the locks.                                                  *)

\* A run in a slot is locked in arq: what makes OneSlotPerRun inductive.
LockInv ==
  /\ OneSlotPerRun
  /\ ~redisLost => \A w \in Slots : holder[w] # NoRun => job[holder[w]] = "locked"

\* A slot takes a run only off the queue, and only a run in no slot is requeued:
\* until Redis forgets its locks, no step puts one run in two slots.
LEMMA LockStep == TypeOK /\ LockInv /\ [Next]_vars => LockInv'
<1> SUFFICES ASSUME TypeOK, LockInv, [Next]_vars
             PROVE  LockInv'
  OBVIOUS
<1> USE DEF TypeOK, LockInv, OneSlotPerRun, rowVars, apiVars, arqVars, slotVars, agentVars, histVars
<1> USE NoneAssumption
<1>1. ASSUME NEW r \in Runs, EnqueueJob(r) PROVE LockInv'
  BY <1>1 DEF EnqueueJob, IdTaken
<1>2. ASSUME NEW r \in Runs, LockExpires(r) PROVE LockInv'
  BY <1>2 DEF LockExpires
<1>3. ASSUME NEW r \in Runs, GiveUp(r) PROVE LockInv'
  BY <1>3 DEF GiveUp, JobDone
<1>4. ASSUME NEW w \in Slots, NEW r \in Runs, PickUp(w, r) PROVE LockInv'
  BY <1>4 DEF PickUp, Deliverable
<1>5. ASSUME NEW w \in Slots, Finish(w) PROVE LockInv'
  BY <1>5 DEF Finish, JobDone
<1>6. CASE WorkerCrash
  BY <1>6 DEF WorkerCrash
<1>7. CASE UNCHANGED <<holder, job, redisLost>>
  BY <1>7
<1>8. ASSUME NEW r \in Runs,
             Save(r) \/ Retry(r) \/ EnqueueFails(r) \/ ResultExpires(r)
      PROVE  UNCHANGED <<holder, job, redisLost>>
  BY <1>8 DEF Save, Retry, EnqueueFails, ResultExpires
<1>9. ASSUME NEW w \in Slots,
             \/ StartRun(w) \/ SendPost(w) \/ HearBack(w) \/ Poll(w)
             \/ MarkFailed(w) \/ JobRaises(w)
      PROVE  UNCHANGED <<holder, job, redisLost>>
  BY <1>9 DEF StartRun, SendPost, Post, PostRefused, HearBack, Answered, HttpTimeout,
              StopWaiting, Poll, MarkFailed, JobRaises
<1>10. ASSUME NEW f \in Flows, FlowStep(f) PROVE UNCHANGED <<holder, job, redisLost>>
  BY <1>10 DEF FlowStep, FlowReports, FlowThrows, Apply, AnswerLost, FlowCompletes
<1>11. ASSUME ApiCrash \/ AgentCrash \/ UNCHANGED vars PROVE UNCHANGED <<holder, job, redisLost>>
  BY <1>11 DEF ApiCrash, AgentCrash, vars
<1>12. CASE QueueLost
  BY <1>12 DEF QueueLost
<1>13. CASE ApiNext
  BY <1>13, <1>1, <1>7, <1>8, <1>11 DEF ApiNext, Enqueue
<1>14. CASE ArqNext
  BY <1>14, <1>2, <1>3, <1>7, <1>8, <1>12 DEF ArqNext
<1>15. CASE WorkerNext
  BY <1>15, <1>4, <1>5, <1>6, <1>7, <1>9 DEF WorkerNext, Deliver, SlotStep
<1>16. CASE AgentNext
  BY <1>16, <1>7, <1>10, <1>11 DEF AgentNext
<1> QED BY <1>7, <1>11, <1>13, <1>14, <1>15, <1>16 DEF Next

\* Whatever is retried, redelivered or crashes, no run is ever in two slots of the
\* worker at once, as long as Redis keeps its keys.
THEOREM NoRunInTwoSlots == Spec => []OneSlotPerRun
<1>1. Init => LockInv
  BY DEF Init, LockInv, OneSlotPerRun
<1>2. TypeOK /\ LockInv /\ [Next]_vars => LockInv'
  BY LockStep
<1>3. LockInv => OneSlotPerRun
  BY DEF LockInv
<1> QED BY <1>1, <1>2, <1>3, TypeCorrect, PTL DEF Spec

-----------------------------------------------------------------------------
(* The item and its run.                                                     *)

RowsAgree ==
  \A r \in Runs :
    /\ runStatus[r] = "absent" => itemStatus[r] = "absent"
    /\ runStatus[r] = "running" => itemStatus[r] = "processing"
    /\ runStatus[r] = "succeeded" => itemStatus[r] = "compiled"
    /\ runStatus[r] = "failed" /\ runError[r] # "queue" => itemStatus[r] = "failed"
    /\ itemStatus[r] = "compiled" => applied[r] > 0

PendingIsUntouched ==
  \A r \in Runs :
    itemStatus[r] \in {"absent", "pending"} => applied[r] = 0 /\ NotBegun(r)

LEMMA ItemParts == ItemFollowsRun <=> RowsAgree /\ PendingIsUntouched
<1> QED BY Zenon DEF ItemFollowsRun, RowsAgree, PendingIsUntouched

LEMMA ItemPartsNext == ItemFollowsRun' <=> RowsAgree' /\ PendingIsUntouched'
<1> QED BY Zenon DEF ItemFollowsRun, RowsAgree, PendingIsUntouched

\* The steps of an event loop, of the queue and of the network leave the rows alone.
LEMMA RowsKept ==
  /\ \A r \in Runs :
       EnqueueJob(r) \/ ResultExpires(r) \/ LockExpires(r) \/ GiveUp(r) \/ Deliver(r)
         => UNCHANGED <<rowVars, applied>>
  /\ \A w \in Slots : SendPost(w) \/ HearBack(w) \/ Poll(w) \/ Finish(w) \/ JobRaises(w)
         => UNCHANGED <<rowVars, applied>>
  /\ \A f \in Flows : FlowThrows(f) \/ AnswerLost(f) \/ FlowCompletes(f)
         => UNCHANGED <<rowVars, applied>>
  /\ ApiCrash \/ QueueLost \/ WorkerCrash \/ AgentCrash \/ UNCHANGED vars
         => UNCHANGED <<rowVars, applied>>
<1> USE DEF rowVars, apiVars, arqVars, slotVars, agentVars, histVars
<1>1. ASSUME NEW r \in Runs,
             EnqueueJob(r) \/ ResultExpires(r) \/ LockExpires(r) \/ GiveUp(r) \/ Deliver(r)
      PROVE  UNCHANGED <<rowVars, applied>>
  BY <1>1 DEF EnqueueJob, ResultExpires, LockExpires, GiveUp, Deliver, PickUp, Deliverable
<1>2. ASSUME NEW w \in Slots,
             SendPost(w) \/ HearBack(w) \/ Poll(w) \/ Finish(w) \/ JobRaises(w)
      PROVE  UNCHANGED <<rowVars, applied>>
  BY <1>2 DEF SendPost, Post, PostRefused, HearBack, Answered, HttpTimeout, Poll, Finish,
              JobRaises
<1>3. ASSUME NEW f \in Flows, FlowThrows(f) \/ AnswerLost(f) \/ FlowCompletes(f)
      PROVE  UNCHANGED <<rowVars, applied>>
  BY <1>3 DEF FlowThrows, AnswerLost, FlowCompletes
<1>4. ASSUME ApiCrash \/ QueueLost \/ WorkerCrash \/ AgentCrash \/ UNCHANGED vars
      PROVE  UNCHANGED <<rowVars, applied>>
  BY <1>4 DEF ApiCrash, QueueLost, WorkerCrash, AgentCrash, vars
<1> QED BY <1>1, <1>2, <1>3, <1>4

\* Every transaction that writes one half of the pair keeps the two in agreement.
LEMMA RowsStep == TypeOK /\ RowsAgree /\ [Next]_vars => RowsAgree'
<1> SUFFICES ASSUME TypeOK, RowsAgree, [Next]_vars PROVE RowsAgree'
  OBVIOUS
<1> USE DEF TypeOK, RowsAgree, rowVars, apiVars, arqVars, slotVars, agentVars, histVars
<1>1. ASSUME NEW r \in Runs, Save(r) PROVE RowsAgree'
  BY <1>1 DEF Save
<1>2. ASSUME NEW r \in Runs, Retry(r) PROVE RowsAgree'
  BY <1>2 DEF Retry
<1>3. ASSUME NEW r \in Runs, EnqueueFails(r) PROVE RowsAgree'
  BY <1>3 DEF EnqueueFails
<1>4. ASSUME NEW w \in Slots, StartRun(w) PROVE RowsAgree'
  BY <1>4 DEF StartRun
<1>5. ASSUME NEW w \in Slots, MarkFailed(w) PROVE RowsAgree'
  BY <1>5 DEF MarkFailed, RecordFailure
<1>6. ASSUME NEW f \in Flows, FlowReports(f) PROVE RowsAgree'
  BY <1>6 DEF FlowReports, RecordFailure
<1>7. ASSUME NEW f \in Flows, Apply(f) PROVE RowsAgree'
  BY <1>7 DEF Apply
<1>8. CASE UNCHANGED <<rowVars, applied>>
  BY <1>8
<1>9. CASE ApiNext
  BY <1>9, <1>1, <1>2, <1>3, <1>8, RowsKept DEF ApiNext, Enqueue
<1>10. CASE ArqNext
  BY <1>10, <1>8, RowsKept DEF ArqNext
<1>11. CASE WorkerNext
  BY <1>11, <1>4, <1>5, <1>8, RowsKept DEF WorkerNext, SlotStep
<1>12. CASE AgentNext
  BY <1>12, <1>6, <1>7, <1>8, RowsKept DEF AgentNext, FlowStep
<1> QED BY <1>8, <1>9, <1>10, <1>11, <1>12, RowsKept DEF Next

\* Only the worker begins a run, and what it writes first is that the item is being
\* processed: no execution is about a run whose item is still pending.
LEMMA PendingStep ==
  TypeOK /\ RowsAgree /\ PendingIsUntouched /\ [Next]_vars => PendingIsUntouched'
<1> SUFFICES ASSUME TypeOK, RowsAgree, PendingIsUntouched, [Next]_vars
             PROVE  PendingIsUntouched'
  OBVIOUS
<1> USE NoneAssumption
<1> USE DEF TypeOK, PendingIsUntouched, NotBegun, rowVars, apiVars, arqVars, slotVars,
            agentVars, histVars
<1>1. CASE UNCHANGED <<itemStatus, slotVars, agentVars, applied>>
  BY <1>1
<1>2. ASSUME NEW r \in Runs, Save(r) PROVE PendingIsUntouched'
  BY <1>2 DEF Save, RowsAgree
<1>3. CASE ApiNext
  BY <1>1, <1>2, <1>3 DEF ApiNext, Retry, Enqueue, EnqueueJob, EnqueueFails, ApiCrash
<1>4. CASE ArqNext
  BY <1>1, <1>4 DEF ArqNext, QueueLost, ResultExpires, LockExpires, GiveUp
<1>5. ASSUME NEW w \in Slots, NEW r \in Runs, PickUp(w, r) PROVE PendingIsUntouched'
  BY <1>5 DEF PickUp
<1>6. ASSUME NEW w \in Slots, StartRun(w) PROVE PendingIsUntouched'
  BY <1>6 DEF StartRun, GoTo
<1>7. ASSUME NEW w \in Slots, NEW f \in Flows, Post(w, f) PROVE PendingIsUntouched'
  BY <1>7 DEF Post, GoTo
<1>8. ASSUME NEW w \in Slots, PostRefused(w) \/ Poll(w) \/ JobRaises(w)
      PROVE  PendingIsUntouched'
  BY <1>8 DEF PostRefused, Poll, JobRaises, GoTo
<1>9. ASSUME NEW w \in Slots, HearBack(w) PROVE PendingIsUntouched'
  BY <1>9 DEF HearBack, Answered, HttpTimeout, StopWaiting, GoTo
<1>10. ASSUME NEW w \in Slots, MarkFailed(w) PROVE PendingIsUntouched'
  BY <1>10 DEF MarkFailed, RecordFailure, GoTo
<1>11. ASSUME NEW w \in Slots, Finish(w) PROVE PendingIsUntouched'
  BY <1>11 DEF Finish, GoTo
<1>12. CASE WorkerCrash
  BY <1>12 DEF WorkerCrash
<1>13. CASE WorkerNext
  BY <1>5, <1>6, <1>7, <1>8, <1>9, <1>10, <1>11, <1>12, <1>13
     DEF WorkerNext, Deliver, SlotStep, SendPost
<1>14. ASSUME NEW f \in Flows, FlowReports(f) PROVE PendingIsUntouched'
  BY <1>14 DEF FlowReports, RecordFailure
<1>15. ASSUME NEW f \in Flows, Apply(f) PROVE PendingIsUntouched'
  BY <1>15 DEF Apply
<1>16. ASSUME NEW f \in Flows, FlowThrows(f) \/ AnswerLost(f) \/ FlowCompletes(f)
       PROVE  PendingIsUntouched'
  BY <1>16 DEF FlowThrows, AnswerLost, FlowCompletes, EndFlow
<1>17. CASE AgentCrash
  BY <1>17 DEF AgentCrash
<1>18. CASE AgentNext
  BY <1>14, <1>15, <1>16, <1>17, <1>18 DEF AgentNext, FlowStep
<1>19. CASE UNCHANGED vars
  BY <1>1, <1>19 DEF vars
<1> QED BY <1>3, <1>4, <1>13, <1>18, <1>19 DEF Next

\* Under every fault the item's status agrees with its run's, but for a run that a
\* failing enqueue overwrote, and the item never says of a run what did not happen.
THEOREM ItemAgrees == Spec => []ItemFollowsRun
<1>1. Init => ItemFollowsRun
  <2> SUFFICES ASSUME Init PROVE RowsAgree /\ PendingIsUntouched
    BY ItemParts
  <2>1. \A r \in Runs : NotBegun(r)
    BY NoneAssumption DEF Init, NotBegun
  <2>2. \A r \in Runs : applied[r] = 0 /\ runStatus[r] = "absent" /\ itemStatus[r] = "absent"
    BY DEF Init
  <2> QED BY <2>1, <2>2 DEF RowsAgree, PendingIsUntouched
<1>2. TypeOK /\ ItemFollowsRun /\ [Next]_vars => ItemFollowsRun'
  BY RowsStep, PendingStep, ItemParts, ItemPartsNext
<1> QED BY <1>1, <1>2, TypeCorrect, PTL DEF Spec

-----------------------------------------------------------------------------
(* Whose a run is until it settles.                                          *)

\* A slot that waits for an answer waits for an execution of the run it holds, and for
\* that one alone.
AwaitsItsOwn ==
  \A w \in Slots : waits[w] # NoFlow =>
    /\ subject[waits[w]] = holder[w] /\ stage[waits[w]] # "unused"
    /\ \A v \in Slots : waits[v] = waits[w] => v = w

WaitShape ==
  /\ \A w \in Slots : pc[w] = "wait" <=> waits[w] # NoFlow
  /\ \A w \in Slots : pc[w] = "idle" <=> holder[w] = NoRun
  /\ AwaitsItsOwn

LEMMA WaitStep == TypeOK /\ WaitShape /\ [Next]_vars => WaitShape'
<1> SUFFICES ASSUME TypeOK, WaitShape, [Next]_vars PROVE WaitShape'
  OBVIOUS
<1> USE NoneAssumption
<1> USE DEF TypeOK, WaitShape, AwaitsItsOwn, Awaited, Alive,
            rowVars, apiVars, arqVars, slotVars, agentVars, histVars
<1>1. ASSUME UNCHANGED <<slotVars, agentVars>> PROVE WaitShape'
  BY <1>1
<1>2. CASE ApiNext
  BY <1>1, <1>2 DEF ApiNext, Enqueue, Save, Retry, EnqueueJob, EnqueueFails, ApiCrash
<1>3. CASE ArqNext
  BY <1>1, <1>3 DEF ArqNext, QueueLost, ResultExpires, LockExpires, GiveUp
<1>4. ASSUME NEW w \in Slots, NEW r \in Runs, PickUp(w, r) PROVE WaitShape'
  BY <1>4 DEF PickUp
<1>5. ASSUME NEW w \in Slots, StartRun(w) \/ PostRefused(w) \/ Poll(w) \/ MarkFailed(w) \/ JobRaises(w)
      PROVE  WaitShape'
  BY <1>5 DEF StartRun, PostRefused, Poll, MarkFailed, JobRaises, GoTo
<1>6. ASSUME NEW w \in Slots, NEW f \in Flows, Post(w, f) PROVE WaitShape'
  BY <1>6 DEF Post, GoTo
<1>7. ASSUME NEW w \in Slots, HearBack(w) PROVE WaitShape'
  BY <1>7 DEF HearBack, Answered, HttpTimeout, StopWaiting, GoTo
<1>8. ASSUME NEW w \in Slots, Finish(w) PROVE WaitShape'
  BY <1>8 DEF Finish, GoTo
<1>9. CASE WorkerCrash
  BY <1>9 DEF WorkerCrash
<1>10. CASE WorkerNext
  BY <1>4, <1>5, <1>6, <1>7, <1>8, <1>9, <1>10 DEF WorkerNext, Deliver, SlotStep, SendPost
<1>11. ASSUME NEW f \in Flows, FlowReports(f) \/ Apply(f) PROVE WaitShape'
  BY <1>11 DEF FlowReports, Apply
<1>12. ASSUME NEW f \in Flows, FlowThrows(f) \/ AnswerLost(f) \/ FlowCompletes(f) PROVE WaitShape'
  BY <1>12 DEF FlowThrows, AnswerLost, FlowCompletes, EndFlow
<1>13. CASE AgentCrash
  BY <1>13 DEF AgentCrash
<1>14. CASE AgentNext
  BY <1>11, <1>12, <1>13, <1>14 DEF AgentNext, FlowStep
<1>15. CASE UNCHANGED vars
  BY <1>1, <1>15 DEF vars
<1> QED BY <1>2, <1>3, <1>10, <1>14, <1>15 DEF Next

\* Under every fault: no slot waits for an answer that no one will give it, or for that
\* of another run.
THEOREM SlotsAwaitTheirOwn == Spec => []AwaitsItsOwn
<1>1. Init => WaitShape
  BY NoneAssumption DEF Init, WaitShape, AwaitsItsOwn
<1>2. WaitShape => AwaitsItsOwn
  BY DEF WaitShape
<1> QED BY <1>1, <1>2, WaitStep, TypeCorrect, PTL DEF Spec

\* A run that shows as running is held by a slot, which has its outcome still to record.
RunningIsHeld ==
  \A r \in Runs : runStatus[r] = "running" => \E w \in Slots : holder[w] = r

HeldByASlot ==
  \A r \in Runs : runStatus[r] = "running" =>
    \E w \in Slots : holder[w] = r /\ pc[w] \in {"post", "wait", "poll", "fail"}

LEMMA HeldStep ==
  ASSUME Faults \cap {"db_error", "worker_crash"} = {}, TypeOK, WaitShape, HeldByASlot, [Next]_vars
  PROVE  HeldByASlot'
<1> USE NoneAssumption
<1> USE DEF TypeOK, WaitShape, HeldByASlot, rowVars, apiVars, arqVars, slotVars, agentVars, histVars
<1>1. ASSUME UNCHANGED slotVars, \A r \in Runs : runStatus'[r] = "running" => runStatus[r] = "running"
      PROVE  HeldByASlot'
  BY <1>1
<1>2. CASE ApiNext
  BY <1>1, <1>2 DEF ApiNext, Enqueue, Save, Retry, EnqueueJob, EnqueueFails, ApiCrash
<1>3. CASE ArqNext
  BY <1>1, <1>3 DEF ArqNext, QueueLost, ResultExpires, LockExpires, GiveUp
<1>4. ASSUME NEW w \in Slots, NEW r \in Runs, PickUp(w, r) PROVE HeldByASlot'
  BY <1>4 DEF PickUp
<1>5. ASSUME NEW w \in Slots, StartRun(w) PROVE HeldByASlot'
  BY <1>5 DEF StartRun, GoTo
<1>6. ASSUME NEW w \in Slots, SendPost(w) \/ HearBack(w) PROVE HeldByASlot'
  BY <1>6 DEF SendPost, Post, PostRefused, HearBack, Answered, HttpTimeout, GoTo
<1>7. ASSUME NEW w \in Slots, Poll(w) PROVE HeldByASlot'
  BY <1>7 DEF Poll
<1>8. ASSUME NEW w \in Slots, MarkFailed(w) PROVE HeldByASlot'
  BY <1>8 DEF MarkFailed, RecordFailure, GoTo
<1>9. ASSUME NEW w \in Slots, Finish(w) PROVE HeldByASlot'
  BY <1>9 DEF Finish, GoTo
<1>10. CASE WorkerNext
  <2>1. ~WorkerCrash /\ \A w \in Slots : ~JobRaises(w)
    BY DEF WorkerCrash, JobRaises
  <2> QED BY <1>4, <1>5, <1>6, <1>7, <1>8, <1>9, <1>10, <2>1 DEF WorkerNext, Deliver, SlotStep
<1>11. CASE AgentNext
  BY <1>1, <1>11 DEF AgentNext, AgentCrash, FlowStep, FlowReports, FlowThrows, Apply, AnswerLost,
     FlowCompletes, RecordFailure
<1>12. CASE UNCHANGED vars
  BY <1>1, <1>12 DEF vars
<1> QED BY <1>2, <1>3, <1>10, <1>11, <1>12 DEF Next

\* As long as no worker dies and none of its sessions raises, no run is left running:
\* not by a retry, a queue that loses its data, or an agent that hangs or dies.
THEOREM RunningRunsAreHeld ==
  ASSUME Faults \cap {"db_error", "worker_crash"} = {} PROVE Spec => []RunningIsHeld
<1>1. Init => WaitShape /\ HeldByASlot
  BY NoneAssumption DEF Init, WaitShape, AwaitsItsOwn, HeldByASlot
<1>2. HeldByASlot => RunningIsHeld
  BY DEF HeldByASlot, RunningIsHeld
<1>3. TypeOK /\ WaitShape /\ HeldByASlot /\ [Next]_vars => HeldByASlot'
  BY HeldStep
<1> QED BY <1>1, <1>2, <1>3, WaitStep, TypeCorrect, PTL DEF Spec

\* A run that no reader has asked for again and that shows as queued is with the handler
\* that saved it or with arq.
QueuedIsKept ==
  \A r \in Runs :
    runStatus[r] = "queued" => handlers[r] > 0 \/ job[r] # "none" \/ retries[r] > 0

\* A lock belongs to a slot.
LocksAreHeld ==
  \A r \in Runs : job[r] = "locked" => \E w \in Slots : holder[w] = r

\* Neither arq nor the agent has heard of a run.
Unheard(r) ==
  job[r] = "none" /\ ~result[r] /\ \A f \in Flows : subject[f] # r

\* Its one handler has yet to enqueue it, or its one job is in the queue, or in a slot that
\* has its start still to record.
FirstAttempt ==
  \A r \in Runs : retries[r] = 0 =>
    /\ runStatus[r] = "absent" => handlers[r] = 0 /\ Unheard(r)
    /\ handlers[r] > 0 => handlers[r] = 1 /\ runStatus[r] = "queued" /\ Unheard(r)
    /\ job[r] # "locked" => tries[r] = 0
    /\ runStatus[r] = "queued" =>
         /\ handlers[r] > 0 \/ job[r] # "none"
         /\ \A w \in Slots : holder[w] = r => pc[w] = "start"

KeptInv == ~redisLost /\ LockInv /\ LocksAreHeld /\ WaitShape /\ FirstAttempt

LEMMA KeptStep ==
  ASSUME Faults \cap {"api_crash", "queue_lost", "db_error", "worker_crash"} = {},
         TypeOK, KeptInv, [Next]_vars
  PROVE  KeptInv'
<1> USE NoneAssumption, BoundsAssumption
<1>1. LockInv' /\ WaitShape'
  BY LockStep, WaitStep DEF KeptInv
<1> USE DEF TypeOK, KeptInv, LockInv, OneSlotPerRun, LocksAreHeld, FirstAttempt, Unheard,
            WaitShape, rowVars, apiVars, arqVars, slotVars, agentVars, histVars
<1>2. ASSUME NEW r \in Runs, Save(r) PROVE KeptInv'
  BY <1>1, <1>2 DEF Save
<1>3. ASSUME NEW r \in Runs, Retry(r) PROVE KeptInv'
  BY <1>1, <1>3 DEF Retry
<1>4. ASSUME NEW r \in Runs, Enqueue(r) PROVE KeptInv'
  <2>1. CASE EnqueueJob(r)
    <3>1. ~redisLost' /\ LocksAreHeld'
      BY <2>1 DEF EnqueueJob
    <3>2. ASSUME NEW q \in Runs, q # r PROVE FirstAttempt!(q)'
      BY <2>1, <3>2 DEF EnqueueJob
    <3>3. FirstAttempt!(r)'
      BY <2>1 DEF EnqueueJob, IdTaken
    <3>4. FirstAttempt'
      BY <3>2, <3>3
    <3> QED BY <1>1, <3>1, <3>4
  <2>2. CASE EnqueueFails(r)
    BY <1>1, <2>2 DEF EnqueueFails
  <2> QED BY <1>4, <2>1, <2>2 DEF Enqueue
<1>5. ASSUME NEW r \in Runs, ResultExpires(r) \/ LockExpires(r) PROVE KeptInv'
  BY <1>1, <1>5 DEF ResultExpires, LockExpires
<1>6. ASSUME NEW r \in Runs, GiveUp(r) PROVE KeptInv'
  BY <1>1, <1>6 DEF GiveUp, JobDone
<1>7. ASSUME NEW w \in Slots, NEW r \in Runs, PickUp(w, r) PROVE KeptInv'
  BY <1>1, <1>7 DEF PickUp, Deliverable
<1>8. ASSUME NEW w \in Slots, StartRun(w) PROVE KeptInv'
  BY <1>1, <1>8 DEF StartRun, GoTo
<1>9. ASSUME NEW w \in Slots, SendPost(w) \/ HearBack(w) \/ Poll(w) PROVE KeptInv'
  <2>1. ASSUME NEW f \in Flows, Post(w, f) PROVE KeptInv'
    <3>1. holder[w] \in Runs /\ job[holder[w]] = "locked"
      BY <2>1 DEF Post, GoTo
    <3> QED BY <1>1, <2>1, <3>1 DEF Post, GoTo
  <2>2. CASE HearBack(w)
    BY <1>1, <2>2 DEF HearBack, Answered, HttpTimeout, StopWaiting, GoTo
  <2>3. CASE PostRefused(w) \/ Poll(w)
    BY <1>1, <2>3 DEF PostRefused, Poll, GoTo
  <2> QED BY <1>9, <2>1, <2>2, <2>3 DEF SendPost
<1>10. ASSUME NEW w \in Slots, MarkFailed(w) PROVE KeptInv'
  BY <1>1, <1>10 DEF MarkFailed, RecordFailure, GoTo
<1>11. ASSUME NEW w \in Slots, Finish(w) PROVE KeptInv'
  BY <1>1, <1>11 DEF Finish, JobDone, GoTo
<1>12. ASSUME NEW f \in Flows, FlowReports(f) \/ Apply(f) PROVE KeptInv'
  BY <1>1, <1>12 DEF FlowReports, RecordFailure, Apply
<1>13. ASSUME UNCHANGED <<rowVars, apiVars, arqVars, slotVars, redisLost>>,
              \A f \in Flows : subject'[f] \in {subject[f], NoRun}
       PROVE  KeptInv'
  BY <1>1, <1>13
<1>14. CASE ApiNext
  <2>1. ~ApiCrash
    BY DEF ApiCrash
  <2> QED BY <1>2, <1>3, <1>4, <1>14, <2>1 DEF ApiNext
<1>15. CASE ArqNext
  <2>1. ~QueueLost
    BY DEF QueueLost
  <2> QED BY <1>5, <1>6, <1>15, <2>1 DEF ArqNext
<1>16. CASE WorkerNext
  <2>1. ~WorkerCrash /\ \A w \in Slots : ~JobRaises(w)
    BY DEF WorkerCrash, JobRaises
  <2> QED BY <1>7, <1>8, <1>9, <1>10, <1>11, <1>16, <2>1 DEF WorkerNext, Deliver, SlotStep
<1>17. CASE AgentNext
  BY <1>12, <1>13, <1>17
     DEF AgentNext, AgentCrash, FlowStep, FlowThrows, AnswerLost, FlowCompletes, EndFlow
<1>18. CASE UNCHANGED vars
  BY <1>13, <1>18 DEF vars
<1> QED BY <1>14, <1>15, <1>16, <1>17, <1>18 DEF Next

\* As long as nothing takes its job or its handler away, a run that was saved is not
\* forgotten in the queue. (One that is retried may be: QueuedHasJob.)
THEOREM QueuedRunsAreKept ==
  ASSUME Faults \cap {"api_crash", "queue_lost", "db_error", "worker_crash"} = {}
  PROVE  Spec => []QueuedIsKept
<1>1. Init => KeptInv
  BY NoneAssumption
     DEF Init, KeptInv, LockInv, OneSlotPerRun, LocksAreHeld, WaitShape, AwaitsItsOwn, FirstAttempt,
         Unheard
<1>2. TypeOK /\ KeptInv => QueuedIsKept
  BY DEF TypeOK, KeptInv, FirstAttempt, QueuedIsKept
<1>3. TypeOK /\ KeptInv /\ [Next]_vars => KeptInv'
  BY KeptStep
<1> QED BY <1>1, <1>2, <1>3, TypeCorrect, PTL DEF Spec

-----------------------------------------------------------------------------
(* Without the faults that part a slot from its execution while that runs.   *)

InTouch == Faults \cap {"queue_lost", "worker_crash", "slow_agent"} = {}

\* An idle slot holds nothing, and only a waiting one awaits an execution.
SlotShape ==
  \A w \in Slots : /\ pc[w] = "idle" <=> holder[w] = NoRun
                   /\ pc[w] = "wait" <=> waits[w] # NoFlow

\* A running execution has one slot waiting for it, and compiles its run.
AwaitedShape ==
  /\ \A f \in Flows : stage[f] \in Alive => Awaited(f)
  /\ \A v, w \in Slots : waits[v] = waits[w] /\ waits[v] # NoFlow => v = w
  /\ \A w \in Slots : waits[w] # NoFlow =>
       subject[waits[w]] = holder[w] /\ stage[waits[w]] # "unused"

TouchInv == ~redisLost /\ LockInv /\ SlotShape /\ AwaitedShape

LEMMA TouchInit == Init => TouchInv
  BY NoneAssumption DEF Init, TouchInv, LockInv, OneSlotPerRun, SlotShape, AwaitedShape,
     Awaited, Alive

LEMMA TouchStep ==
  ASSUME InTouch, TypeOK, TouchInv, [Next]_vars
  PROVE  TouchInv'
<1> USE NoneAssumption
<1> USE DEF TypeOK, TouchInv, LockInv, OneSlotPerRun, SlotShape, AwaitedShape, Awaited, Alive,
            rowVars, apiVars, arqVars, slotVars, agentVars, histVars
<1>1. LockInv'
  BY LockStep
<1>2. ASSUME UNCHANGED <<slotVars, agentVars, redisLost>> PROVE TouchInv'
  BY <1>1, <1>2
<1>3. CASE ApiNext
  BY <1>2, <1>3 DEF ApiNext, Enqueue, Save, Retry, EnqueueJob, EnqueueFails, ApiCrash
<1>4. CASE ArqNext
  <2>1. ~QueueLost
    BY DEF InTouch, QueueLost
  <2> QED BY <1>2, <1>4, <2>1 DEF ArqNext, ResultExpires, LockExpires, GiveUp
<1>5. ASSUME NEW w \in Slots, NEW r \in Runs, PickUp(w, r) PROVE TouchInv'
  BY <1>1, <1>5 DEF PickUp
<1>6. ASSUME NEW w \in Slots, StartRun(w) \/ PostRefused(w) \/ Poll(w) \/ MarkFailed(w) \/ JobRaises(w)
      PROVE  TouchInv'
  BY <1>1, <1>6 DEF StartRun, PostRefused, Poll, MarkFailed, JobRaises, GoTo
<1>7. ASSUME NEW w \in Slots, NEW f \in Flows, Post(w, f) PROVE TouchInv'
  BY <1>1, <1>7 DEF Post, GoTo
<1>8. ASSUME NEW w \in Slots, Answered(w) PROVE TouchInv'
  BY <1>1, <1>8 DEF Answered, StopWaiting, GoTo
<1>9. ASSUME NEW w \in Slots, Finish(w) PROVE TouchInv'
  BY <1>1, <1>9 DEF Finish, GoTo
<1>10. CASE WorkerNext
  <2>1. ~WorkerCrash /\ \A w \in Slots : ~HttpTimeout(w)
    BY DEF InTouch, WorkerCrash, HttpTimeout
  <2> QED BY <1>5, <1>6, <1>7, <1>8, <1>9, <1>10, <2>1
          DEF WorkerNext, Deliver, SlotStep, SendPost, HearBack
<1>11. ASSUME NEW f \in Flows, FlowReports(f) \/ Apply(f) PROVE TouchInv'
  BY <1>1, <1>11 DEF FlowReports, Apply
<1>12. ASSUME NEW f \in Flows, FlowThrows(f) \/ AnswerLost(f) \/ FlowCompletes(f) PROVE TouchInv'
  BY <1>1, <1>12 DEF FlowThrows, AnswerLost, FlowCompletes, EndFlow
<1>13. CASE AgentCrash
  BY <1>1, <1>13 DEF AgentCrash
<1>14. CASE AgentNext
  BY <1>11, <1>12, <1>13, <1>14 DEF AgentNext, FlowStep
<1>15. CASE UNCHANGED vars
  BY <1>2, <1>15 DEF vars
<1> QED BY <1>3, <1>4, <1>10, <1>14, <1>15 DEF Next

LEMMA TouchInvariant == ASSUME InTouch PROVE Spec => [](TypeOK /\ TouchInv)
<1>1. TypeOK /\ TouchInv /\ [Next]_vars => TouchInv'
  BY TouchStep
<1> QED BY <1>1, TouchInit, TypeCorrect, PTL DEF Spec

\* As long as no slot leaves an execution that is running, two executions never compile
\* one run side by side: a lost answer, a dead agent or a queue that is down change
\* nothing of it.
THEOREM NoConcurrentExecutions == ASSUME InTouch PROVE Spec => []OneFlowPerRun
<1>1. TypeOK /\ TouchInv => OneFlowPerRun
  <2> SUFFICES ASSUME TypeOK, TouchInv, NEW f \in Flows, NEW g \in Flows,
                      stage[f] \in Alive, stage[g] \in Alive, subject[f] = subject[g]
               PROVE  f = g
    BY DEF OneFlowPerRun
  <2>1. PICK v \in Slots : waits[v] = f
    BY DEF TouchInv, AwaitedShape, Awaited
  <2>2. PICK w \in Slots : waits[w] = g
    BY DEF TouchInv, AwaitedShape, Awaited
  <2>3. holder[v] = holder[w] /\ holder[v] # NoRun
    BY <2>1, <2>2, NoneAssumption DEF TouchInv, AwaitedShape, SlotShape, TypeOK
  <2> QED BY <2>1, <2>2, <2>3 DEF TouchInv, LockInv, OneSlotPerRun
<1> QED BY <1>1, TouchInvariant, PTL

-----------------------------------------------------------------------------
(* Without the faults that part a slot from its execution or its job.        *)

Quiet == Faults \subseteq {"api_crash", "db_error", "agent_down"}

\* Every execution has exactly one slot waiting for it, and compiles its run.
FlowShape ==
  /\ \A f \in Flows : stage[f] # "unused" => Awaited(f)
  /\ \A v, w \in Slots : waits[v] = waits[w] /\ waits[v] # NoFlow => v = w
  /\ \A w \in Slots : waits[w] # NoFlow =>
       /\ subject[waits[w]] = holder[w]
       /\ stage[waits[w]] \notin {"unused", "gone"}

\* Past the point of its commit, as seen from the slot that waits for it.
Committed(w) ==
  \/ pc[w] \in {"poll", "finish"}
  \/ pc[w] = "wait" /\ stage[waits[w]] \in {"naming", "ok"}

\* What a merged run looks like: it succeeded, its slot is past the commit, and
\* nothing is left, nor can be enqueued, that would execute it again.
MergedShape ==
  \A r \in Runs :
    /\ applied[r] = 0 \/ applied[r] = 1
    /\ applied[r] = 1 <=> runStatus[r] = "succeeded"
    /\ applied[r] = 1 =>
         /\ job[r] # "waiting"
         /\ job[r] = "none" /\ handlers[r] > 0 => result[r]
         /\ \A w \in Slots : holder[w] = r => Committed(w)

\* A workflow that got past persist did commit.
NamingShape ==
  \A w \in Slots : pc[w] = "wait" /\ stage[waits[w]] \in {"naming", "ok"}
                     => applied[holder[w]] = 1

QuietInv ==
  ~redisLost /\ LockInv /\ SlotShape /\ FlowShape /\ LocksAreHeld /\ MergedShape /\ NamingShape

LEMMA QuietInit == Init => QuietInv
  BY NoneAssumption DEF Init, QuietInv, LockInv, OneSlotPerRun, SlotShape, FlowShape,
     LocksAreHeld, MergedShape, NamingShape, Awaited

\* The faults that a quiet system does not have.
LEMMA QuietFaults ==
  ASSUME Quiet
  PROVE  /\ \A f \in {"queue_down", "queue_lost", "worker_crash", "agent_crash",
                    "slow_agent", "lost_answer"} : f \notin Faults
         /\ ~QueueLost /\ ~WorkerCrash /\ ~AgentCrash
         /\ \A r \in Runs : ~EnqueueFails(r)
         /\ \A w \in Slots : ~HttpTimeout(w)
         /\ \A f \in Flows : ~AnswerLost(f)
  BY DEF Quiet, QueueLost, WorkerCrash, AgentCrash, EnqueueFails,
         HttpTimeout, AnswerLost

\* A slot's own steps, and the execution it waits for, carry a run from its start
\* to its single commit; no one else can touch a run that was merged.
LEMMA QuietStep ==
  ASSUME Quiet, TypeOK, QuietInv, [Next]_vars
  PROVE  QuietInv'
<1> USE NoneAssumption
<1> USE DEF TypeOK, QuietInv, LockInv, OneSlotPerRun, SlotShape, FlowShape, LocksAreHeld,
            MergedShape, NamingShape, Awaited, Committed,
            rowVars, apiVars, arqVars, slotVars, agentVars, histVars
<1>1. ASSUME NEW r \in Runs, Save(r) PROVE QuietInv'
  BY <1>1 DEF Save
<1>2. ASSUME NEW r \in Runs, Retry(r) PROVE QuietInv'
  BY <1>2 DEF Retry, Retryable
<1>3. ASSUME NEW r \in Runs, EnqueueJob(r) PROVE QuietInv'
  BY <1>3 DEF EnqueueJob, IdTaken
<1>4. CASE ApiCrash
  BY <1>4 DEF ApiCrash
<1>5. ASSUME NEW r \in Runs, ResultExpires(r) PROVE QuietInv'
  BY <1>5 DEF ResultExpires
<1>6. ASSUME NEW r \in Runs, LockExpires(r) PROVE QuietInv'
  BY <1>6 DEF LockExpires
<1>7. ASSUME NEW r \in Runs, GiveUp(r) PROVE QuietInv'
  BY <1>7 DEF GiveUp, JobDone
<1>8. ASSUME NEW w \in Slots, NEW r \in Runs, PickUp(w, r) PROVE QuietInv'
  BY <1>8 DEF PickUp, Deliverable
<1>9. ASSUME NEW w \in Slots, StartRun(w) PROVE QuietInv'
  <2>1. holder[w] \in Runs /\ pc[w] = "start" /\ ~Committed(w)
    BY <1>9 DEF StartRun, GoTo
  <2>2. applied[holder[w]] = 0 /\ runStatus[holder[w]] # "succeeded"
    BY <2>1
  <2>3. MergedShape'
    BY <1>9, <2>1, <2>2 DEF StartRun, GoTo
  <2> QED BY <1>9, <2>1, <2>3 DEF StartRun, GoTo
<1>10. ASSUME NEW w \in Slots, NEW f \in Flows, Post(w, f) PROVE QuietInv'
  BY <1>10 DEF Post, GoTo
<1>25. ASSUME NEW w \in Slots, PostRefused(w) PROVE QuietInv'
  BY <1>25 DEF PostRefused, GoTo
<1>11. ASSUME NEW w \in Slots, Answered(w) PROVE QuietInv'
  BY <1>11 DEF Answered, StopWaiting, GoTo, Alive
<1>12. ASSUME NEW w \in Slots, Poll(w) PROVE QuietInv'
  BY <1>12 DEF Poll
<1>13. ASSUME NEW w \in Slots, MarkFailed(w) PROVE QuietInv'
  BY <1>13 DEF MarkFailed, RecordFailure, GoTo
<1>14. ASSUME NEW w \in Slots, Finish(w) PROVE QuietInv'
  BY <1>14 DEF Finish, JobDone, GoTo
<1>15. ASSUME NEW w \in Slots, JobRaises(w) PROVE QuietInv'
  BY <1>15 DEF JobRaises
<1>16. ASSUME NEW f \in Flows, FlowReports(f) PROVE QuietInv'
  BY <1>16 DEF FlowReports, RecordFailure
<1>17. ASSUME NEW f \in Flows, FlowThrows(f) PROVE QuietInv'
  BY <1>17 DEF FlowThrows, EndFlow
<1>18. ASSUME NEW f \in Flows, Apply(f) PROVE QuietInv'
  <2>1. PICK w \in Slots : waits[w] = f
    BY <1>18 DEF Apply
  <2>2. /\ pc[w] = "wait" /\ holder[w] \in Runs /\ subject[f] = holder[w]
        /\ stage[f] = "working" /\ ~Committed(w)
    BY <1>18, <2>1 DEF Apply
  <2>3. applied[subject[f]] = 0
    BY <2>2
  <2>4. \A v \in Slots : v # w => holder[v] # subject[f] /\ waits[v] # f
    BY <2>1, <2>2
  <2>5. LockInv' /\ SlotShape' /\ LocksAreHeld'
    BY <1>18 DEF Apply
  <2>6. FlowShape'
    BY <1>18, <2>1, <2>2 DEF Apply
  <2>7. applied' = [applied EXCEPT ![holder[w]] = 1]
    BY <1>18, <2>2, <2>3 DEF Apply
  <2>8. MergedShape'
    <3> SUFFICES ASSUME NEW r \in Runs
                 PROVE  MergedShape!(r)'
      OBVIOUS
    <3>1. CASE r = holder[w]
      BY <1>18, <2>1, <2>2, <2>4, <2>7, <3>1 DEF Apply
    <3>2. CASE r # holder[w]
      BY <1>18, <2>1, <2>2, <2>7, <3>2 DEF Apply
    <3> QED BY <3>1, <3>2
  <2>9. NamingShape'
    BY <1>18, <2>1, <2>2, <2>4, <2>7 DEF Apply
  <2>10. ~redisLost'
    BY <1>18 DEF Apply
  <2> QED BY <2>5, <2>6, <2>8, <2>9, <2>10
<1>19. ASSUME NEW f \in Flows, FlowCompletes(f) PROVE QuietInv'
  BY <1>19 DEF FlowCompletes, EndFlow
<1>20. CASE UNCHANGED vars
  BY <1>20 DEF vars
<1>21. CASE ApiNext
  BY <1>21, <1>1, <1>2, <1>3, <1>4, QuietFaults DEF ApiNext, Enqueue
<1>22. CASE ArqNext
  BY <1>22, <1>5, <1>6, <1>7, QuietFaults DEF ArqNext
<1>23. CASE WorkerNext
  BY <1>23, <1>8, <1>9, <1>10, <1>11, <1>25, <1>12, <1>13, <1>14, <1>15,
     QuietFaults
     DEF WorkerNext, Deliver, SlotStep, SendPost, HearBack
<1>24. CASE AgentNext
  BY <1>24, <1>16, <1>17, <1>18, <1>19, QuietFaults DEF AgentNext, FlowStep
<1> QED BY <1>20, <1>21, <1>22, <1>23, <1>24 DEF Next

LEMMA QuietInvariant == ASSUME Quiet PROVE Spec => [](TypeOK /\ QuietInv)
<1>1. TypeOK /\ QuietInv /\ [Next]_vars => QuietInv'
  BY QuietStep
<1> QED BY <1>1, QuietInit, TypeCorrect, PTL DEF Spec

-----------------------------------------------------------------------------
(* The life of a run, as RunLife has it.                                     *)

\* What the step that comes next finds in a run's row: a run on its way to a slot is
\* queued, one whose workflow is due or at work is running.
LifeShape ==
  /\ \A r \in Runs : runStatus[r] = "absent" => handlers[r] = 0 /\ job[r] = "none"
  /\ \A r \in Runs :
       job[r] = "waiting" \/ (job[r] = "none" /\ handlers[r] > 0 /\ ~result[r])
         => runStatus[r] = "queued"
  /\ \A w \in Slots : pc[w] = "start" => runStatus[holder[w]] = "queued"
  /\ \A w \in Slots : pc[w] = "post" \/ (pc[w] = "wait" /\ stage[waits[w]] = "working")
                        => runStatus[holder[w]] = "running"

LEMMA LifeShapeStep ==
  ASSUME Quiet, TypeOK, QuietInv, LifeShape, [Next]_vars
  PROVE  LifeShape'
<1> USE NoneAssumption
<1> USE DEF TypeOK, LifeShape, QuietInv, LockInv, OneSlotPerRun, SlotShape, FlowShape,
            LocksAreHeld, rowVars, apiVars, arqVars, slotVars, agentVars, histVars
<1>1. ASSUME NEW r \in Runs, Save(r) PROVE LifeShape'
  BY <1>1 DEF Save
<1>2. ASSUME NEW r \in Runs, Retry(r) PROVE LifeShape'
  BY <1>2 DEF Retry, Retryable
<1>3. ASSUME NEW r \in Runs, EnqueueJob(r) PROVE LifeShape'
  BY <1>3 DEF EnqueueJob, IdTaken
<1>4. ASSUME NEW r \in Runs, ResultExpires(r) \/ LockExpires(r) PROVE LifeShape'
  BY <1>4 DEF ResultExpires, LockExpires
<1>5. ASSUME NEW r \in Runs, GiveUp(r) PROVE LifeShape'
  BY <1>5 DEF GiveUp, JobDone
<1>6. ASSUME NEW w \in Slots, NEW r \in Runs, PickUp(w, r) PROVE LifeShape'
  BY <1>6 DEF PickUp, Deliverable
<1>7. ASSUME NEW w \in Slots, StartRun(w) PROVE LifeShape'
  BY <1>7 DEF StartRun, GoTo
<1>8. ASSUME NEW w \in Slots, NEW f \in Flows, Post(w, f) PROVE LifeShape'
  BY <1>8 DEF Post, GoTo
<1>9. ASSUME NEW w \in Slots, PostRefused(w) \/ Poll(w) \/ JobRaises(w) PROVE LifeShape'
  BY <1>9 DEF PostRefused, Poll, JobRaises, GoTo
<1>10. ASSUME NEW w \in Slots, Answered(w) PROVE LifeShape'
  BY <1>10 DEF Answered, StopWaiting, GoTo, Alive
<1>11. ASSUME NEW w \in Slots, MarkFailed(w) PROVE LifeShape'
  BY <1>11 DEF MarkFailed, RecordFailure, GoTo
<1>12. ASSUME NEW w \in Slots, Finish(w) PROVE LifeShape'
  BY <1>12 DEF Finish, JobDone, GoTo
<1>13. ASSUME NEW f \in Flows, FlowReports(f) \/ Apply(f) PROVE LifeShape'
  <2>1. PICK w \in Slots : waits[w] = f
    BY <1>13 DEF FlowReports, Apply, Awaited
  <2>2. holder[w] \in Runs /\ subject[f] = holder[w] /\ job[holder[w]] = "locked" /\ pc[w] = "wait"
    BY <2>1
  <2>3. \A v \in Slots : v # w => holder[v] # subject[f] /\ waits[v] # f
    BY <2>1, <2>2
  <2> QED BY <1>13, <2>1, <2>2, <2>3 DEF FlowReports, RecordFailure, Apply
<1>14. ASSUME NEW f \in Flows, FlowThrows(f) \/ FlowCompletes(f) PROVE LifeShape'
  BY <1>14 DEF FlowThrows, FlowCompletes, EndFlow
<1>15. CASE ApiCrash
  BY <1>15 DEF ApiCrash
<1>16. CASE UNCHANGED vars
  BY <1>16 DEF vars
<1>17. CASE ApiNext
  BY <1>1, <1>2, <1>3, <1>15, <1>17, QuietFaults DEF ApiNext, Enqueue
<1>18. CASE ArqNext
  BY <1>4, <1>5, <1>18, QuietFaults DEF ArqNext
<1>19. CASE WorkerNext
  BY <1>6, <1>7, <1>8, <1>9, <1>10, <1>11, <1>12, <1>19, QuietFaults
     DEF WorkerNext, Deliver, SlotStep, SendPost, HearBack
<1>20. CASE AgentNext
  BY <1>13, <1>14, <1>20, QuietFaults DEF AgentNext, FlowStep
<1> QED BY <1>16, <1>17, <1>18, <1>19, <1>20 DEF Next

\* Each step that writes a run's status, or merges it, is a turn of its life; a failure that
\* the agent and then the worker report is one.
LEMMA LifeStep ==
  ASSUME Quiet, TypeOK, QuietInv, LifeShape, [Next]_vars
  PROVE  [RL!Next]_<<runStatus, applied>>
<1> USE NoneAssumption
<1> USE DEF TypeOK, RL!Next, RL!Turns, RL!Queue, RL!Begin, RL!Fail, RL!Merge,
            rowVars, apiVars, arqVars, slotVars, agentVars, histVars
<1>1. ASSUME NEW r \in Runs, Save(r) PROVE RL!Next
  <2>1. RL!Queue(r)
    BY <1>1 DEF Save
  <2> QED BY <2>1
<1>2. ASSUME NEW r \in Runs, Retry(r) PROVE RL!Next
  <2>1. RL!Queue(r)
    BY <1>2 DEF Retry, Retryable
  <2> QED BY <2>1
<1>3. ASSUME NEW w \in Slots, StartRun(w) PROVE RL!Next
  <2>1. holder[w] \in Runs /\ runStatus[holder[w]] = "queued"
    BY <1>3 DEF StartRun, GoTo, LifeShape, QuietInv, SlotShape
  <2>2. RL!Begin(holder[w])
    BY <1>3, <2>1 DEF StartRun
  <2> QED BY <2>1, <2>2
<1>4. ASSUME NEW w \in Slots, MarkFailed(w) PROVE RL!Next \/ UNCHANGED <<runStatus, applied>>
  <2>1. holder[w] \in Runs /\ job[holder[w]] = "locked" /\ ~Committed(w)
    BY <1>4 DEF MarkFailed, GoTo, QuietInv, SlotShape, LockInv, Committed
  <2>2. runStatus[holder[w]] \in {"queued", "running", "failed"}
    BY <2>1 DEF LifeShape, QuietInv, MergedShape, RunStatuses
  <2>3. CASE runStatus[holder[w]] = "failed"
    BY <1>4, <2>1, <2>3 DEF MarkFailed, RecordFailure
  <2>4. CASE runStatus[holder[w]] # "failed"
    <3>1. RL!Fail(holder[w])
      BY <1>4, <2>1, <2>2, <2>4 DEF MarkFailed, RecordFailure
    <3> QED BY <2>1, <3>1
  <2> QED BY <2>3, <2>4
<1>5. ASSUME NEW f \in Flows, FlowReports(f) \/ Apply(f) PROVE RL!Next
  <2>1. PICK w \in Slots : waits[w] = f
    BY <1>5 DEF FlowReports, Apply, QuietInv, FlowShape, Awaited
  <2>2. holder[w] \in Runs /\ subject[f] = holder[w] /\ runStatus[holder[w]] = "running"
    BY <1>5, <2>1 DEF FlowReports, Apply, LifeShape, QuietInv, SlotShape, FlowShape
  <2>3. CASE FlowReports(f)
    <3>1. RL!Fail(holder[w])
      BY <2>2, <2>3 DEF FlowReports, RecordFailure
    <3> QED BY <2>2, <3>1
  <2>4. CASE Apply(f)
    <3>1. RL!Merge(holder[w])
      BY <2>2, <2>4 DEF Apply
    <3> QED BY <2>2, <3>1
  <2> QED BY <1>5, <2>3, <2>4
<1>6. CASE ApiNext
  BY <1>1, <1>2, <1>6, QuietFaults DEF ApiNext, Enqueue, EnqueueJob, ApiCrash
<1>7. CASE ArqNext
  BY <1>7, QuietFaults DEF ArqNext, ResultExpires, LockExpires, GiveUp
<1>8. CASE WorkerNext
  BY <1>3, <1>4, <1>8, QuietFaults
     DEF WorkerNext, Deliver, PickUp, SlotStep, SendPost, Post, PostRefused, HearBack, Answered,
         Poll, Finish, JobRaises
<1>9. CASE AgentNext
  BY <1>5, <1>9, QuietFaults DEF AgentNext, FlowStep, FlowThrows, FlowCompletes
<1>10. CASE UNCHANGED vars
  BY <1>10 DEF vars
<1> QED BY <1>6, <1>7, <1>8, <1>9, <1>10 DEF Next

\* As long as nothing parts a slot from its execution or a job from its lock, every run
\* lives the life the API's comments describe, with any number of runs, slots and
\* executions side by side, and with an API, an agent or a database that fails.
THEOREM LifeIsLed == ASSUME Quiet PROVE Spec => LifeIsImplemented
<1>1. Init => RL!Init /\ LifeShape
  BY DEF Init, RL!Init, LifeShape
<1>2. TypeOK /\ QuietInv /\ LifeShape /\ [Next]_vars
        => LifeShape' /\ [RL!Next]_<<runStatus, applied>>
  BY LifeShapeStep, LifeStep
<1> QED BY <1>1, <1>2, QuietInvariant, PTL DEF Spec, LifeIsImplemented, RL!Spec

\* What such a life comes to: its claims are in the wiki once if it succeeded, and not at
\* all before that, so that a failed run may be queued again and a succeeded one need not be.
THEOREM LifePromises ==
  LifeIsImplemented => [](AppliedAtMostOnce /\ FailedMeansNothingWritten) /\ SucceededIsFinal
<1> DEFINE Told == /\ runStatus \in [Runs -> RunStatuses] /\ applied \in [Runs -> {0, 1}]
                   /\ \A r \in Runs : applied[r] = 1 <=> runStatus[r] = "succeeded"
<1>1. RL!Init => Told
  BY DEF RL!Init, RunStatuses
<1>2. ASSUME Told, [RL!Next]_<<runStatus, applied>> PROVE Told'
  <2>1. ASSUME NEW r \in Runs, RL!Queue(r) \/ RL!Begin(r) \/ RL!Fail(r) PROVE Told'
    BY <1>2, <2>1 DEF RL!Queue, RL!Begin, RL!Fail, RL!Turns, RunStatuses
  <2>2. ASSUME NEW r \in Runs, RL!Merge(r) PROVE Told'
    <3>1. applied[r] = 0
      BY <1>2, <2>2 DEF RL!Merge, RL!Turns
    <3> QED BY <1>2, <2>2, <3>1 DEF RL!Merge, RL!Turns, RunStatuses
  <2> QED BY <1>2, <2>1, <2>2 DEF RL!Next
<1>3. Told => AppliedAtMostOnce /\ FailedMeansNothingWritten
  BY DEF AppliedAtMostOnce, FailedMeansNothingWritten
<1>4. Told /\ [RL!Next]_<<runStatus, applied>>
        => [\A r \in Runs : runStatus[r] = "succeeded" => runStatus'[r] = "succeeded"]_vars
  BY DEF RL!Next, RL!Queue, RL!Begin, RL!Fail, RL!Merge, RL!Turns
<1> QED BY <1>1, <1>2, <1>3, <1>4, PTL DEF LifeIsImplemented, RL!Spec, SucceededIsFinal

\* As long as nothing parts a slot from its execution or a job from its lock, a
\* run's claims reach the wiki at most once, however often it fails and is retried,
\* and also when the API dies between a commit and its enqueue.
THEOREM MergedAtMostOnce == ASSUME Quiet PROVE Spec => []AppliedAtMostOnce
  BY LifeIsLed, LifePromises, PTL

\* Under the same condition a failed run, the kind a user may retry, left nothing
\* in the wiki.
THEOREM FailedRunsWroteNothing == ASSUME Quiet PROVE Spec => []FailedMeansNothingWritten
  BY LifeIsLed, LifePromises, PTL

\* Under the same condition no later step takes a success back.
THEOREM SuccessStands == ASSUME Quiet PROVE Spec => SucceededIsFinal
  BY LifeIsLed, LifePromises

=============================================================================
