------------------------------ MODULE Chat_proofs ------------------------------
(***************************************************************************)
(* The thread a conversation leaves behind, for any number of mounts,      *)
(* questions and faults: it has no holes, repeats a turn only after an     *)
(* answer was lost, is named after the turn that opens it, and nothing     *)
(* waits to be stored unnoticed.                                           *)
(***************************************************************************)
EXTENDS Chat, TLAPS

Has(q) == \E b \in DOMAIN messages : messages[b] = q

\* The one request of a mount, and whether turns of it wait to be stored.
Busy(m)  == Len(requests[m]) > 0
Req(m)   == requests[m][1]
Waits(m) == Len(queue[m]) > 0

\* A mount that is not open yet, or whose tab is gone, keeps nothing.
Empty(m) ==
  asking[m] = 0 /\ Len(queue[m]) = 0 /\ ~flushing[m] /\ unsaved[m] = NoFlags
DeadOK(m) ==
  /\ phase[m] = "closed" => Empty(m) /\ Len(requests[m]) = 0 /\ Len(finished[m]) = 0
  /\ phase[m] = "reloaded" => Empty(m)

\* The loop of one mount: it runs while its one request is in flight, for the head
\* of the queue, and stops only at a head it flagged.
LoopOK(m) ==
  /\ Len(requests[m]) <= 1
  /\ Alive(m) => (flushing[m] <=> Busy(m))
  /\ Alive(m) /\ Busy(m) => Waits(m) /\ Req(m).turn = queue[m][1]
  /\ Waits(m) /\ ~flushing[m] => unsaved[m][queue[m][1]] # "none"
  /\ \A q \in Questions : unsaved[m][q] # "none" => Waits(m) /\ q = queue[m][1]

\* The first k turns a mount finished are stored and settled, the one after them may be
\* stored, the others are not; what is left of the queue is what comes after the first k.
Cut(m, k) ==
  /\ Alive(m) => /\ Len(queue[m]) = Len(finished[m]) - k
                 /\ \A i \in DOMAIN queue[m] : queue[m][i] = finished[m][k + i]
  /\ Busy(m) => k < Len(finished[m]) /\ Req(m).turn = finished[m][k + 1]
  /\ exists => \A i \in 1 .. k : Has(finished[m][i])
  /\ \A j \in DOMAIN finished[m] : Has(finished[m][j]) => j <= k + 1
CutOK(m) == \E k \in 0 .. Len(finished[m]) : Cut(m, k)

\* A turn that is sent, or waits to be sent, and is stored already is one whose answer
\* was lost; one whose answer came is stored.
ResendOK(m) ==
  /\ Busy(m) /\ Req(m).at # "stored" /\ Has(Req(m).turn) => Req(m).turn \in lost
  /\ Busy(m) /\ Req(m).at = "stored" /\ exists => Has(Req(m).turn)
  /\ Alive(m) /\ Waits(m) /\ ~Busy(m) /\ Has(queue[m][1]) => queue[m][1] \in lost

MountOK(m) == DeadOK(m) /\ LoopOK(m) /\ CutOK(m) /\ ResendOK(m)

\* A question is asked once: it waits in the composer or as pending, is being answered
\* by one mount, or was finished by one, and is stored only after that.
Fresh(q) ==
  /\ \A m \in Mounts : \A i \in DOMAIN finished[m] : finished[m][i] # q
  /\ ~Has(q)
Distinct ==
  \A m, n \in Mounts : \A i \in DOMAIN finished[m], j \in DOMAIN finished[n] :
    finished[m][i] = finished[n][j] => m = n /\ i = j
AllClosed == \A m \in Mounts : phase[m] = "closed"
AskedOnce ==
  /\ \A m \in Mounts : asking[m] <= asked /\ (status[m] # "ready" => asking[m] # 0)
  /\ \A m \in Mounts : \A i \in DOMAIN finished[m] : finished[m][i] <= asked
  /\ \A b \in DOMAIN messages : messages[b] <= asked
  /\ \A m \in Mounts : asking[m] # 0 => Fresh(asking[m])
  /\ \A m, n \in Mounts : asking[m] = asking[n] /\ asking[m] # 0 => m = n
  /\ pending <= asked
  /\ pending # 0 => Fresh(pending) /\ \A m \in Mounts : asking[m] # pending
  /\ AllClosed => composer <= asked
  /\ Distinct

\* Before the first page is opened nothing is stored, nor after a deletion.
ServerOK ==
  /\ ~exists => Len(messages) = 0
  /\ AllClosed => Len(messages) = 0 /\ title = NewTitle

\* What a request has loaded still holds, unless it is behind.
Loaded(m) == Busy(m) /\ Req(m).at = "loaded"
TitleOK ==
  exists => \A m \in Mounts \ behind : Loaded(m) => (Req(m).fresh <=> title = NewTitle)

ThreadOK ==
  /\ ServerOK /\ TitleOK
  /\ NoHoleInTheThread /\ StoredTwiceOnlyIfLost /\ TitleIsTheOpeningQuestion

MountsOK == \A m \in Mounts : MountOK(m)

IInv == TypeOK /\ MountsOK /\ AskedOnce /\ ThreadOK

\* TypeOK, in three parts.
ServerTypes ==
  /\ exists \in BOOLEAN /\ session \in Sessions /\ behind \subseteq Mounts
  /\ title \in 0 .. OwnTitle
  /\ messages \in Seq(Questions)
  /\ faults \in 0 .. MaxFaults
  /\ lost \subseteq Questions
PageTypes ==
  /\ composer \in 0 .. MaxQuestions /\ pending \in 0 .. MaxQuestions
  /\ asked \in 0 .. MaxQuestions
  /\ phase \in [Mounts -> {"closed", "open", "left", "reloaded"}]
  /\ status \in [Mounts -> {"ready", "busy", "error"}]
  /\ asking \in [Mounts -> 0 .. MaxQuestions]
LoopTypes ==
  /\ queue \in [Mounts -> Seq(Questions)]
  /\ flushing \in [Mounts -> BOOLEAN]
  /\ unsaved \in [Mounts -> [Questions -> Reasons \cup {"none"}]]
  /\ requests \in [Mounts -> Seq(Request)]
  /\ finished \in [Mounts -> Seq(Questions)]

LEMMA TypeLemma == TypeOK <=> ServerTypes /\ PageTypes /\ LoopTypes
<1> QED BY Zenon DEF TypeOK, ServerTypes, PageTypes, LoopTypes

LEMMA TypeNext == TypeOK' <=> ServerTypes' /\ PageTypes' /\ LoopTypes'
<1> QED BY Zenon DEF TypeOK, ServerTypes, PageTypes, LoopTypes

LEMMA EmptyLemma ==
  ASSUME NEW S, NEW s \in Seq(S)
  PROVE  /\ Len(s) \in Nat /\ DOMAIN s = 1 .. Len(s)
         /\ (s = <<>>) <=> (Len(s) = 0)
<1> QED OBVIOUS

LEMMA OneLemma == ASSUME NEW n \in Nat, n <= 1, NEW i \in 1 .. n PROVE i = 1 /\ n = 1
<1> QED OBVIOUS

\* The only request of a mount leaves an empty list behind it.
LEMMA RemoveLemma ==
  ASSUME NEW S, NEW s \in Seq(S), Len(s) = 1
  PROVE  RemoveAt(s, 1) = <<>>
<1>1. RemoveAt(s, 1) = SubSeq(s, 1, 0) \o SubSeq(s, 2, 1)
  BY DEF RemoveAt
<1>2. SubSeq(s, 1, 0) = <<>> /\ SubSeq(s, 2, 1) = <<>>
  OBVIOUS
<1> QED BY <1>1, <1>2

\* A mount has one request in flight at most.
LEMMA OneRequest ==
  ASSUME LoopTypes, NEW m \in Mounts, LoopOK(m), NEW i \in DOMAIN requests[m]
  PROVE  /\ i = 1 /\ Len(requests[m]) = 1 /\ Busy(m) /\ Req(m) \in Request
         /\ requests[m][i] = Req(m) /\ requests[m] \in Seq(Request)
<1>1. requests[m] \in Seq(Request) /\ Len(requests[m]) <= 1
  BY DEF LoopTypes, LoopOK
<1>2. i \in 1 .. Len(requests[m]) /\ Len(requests[m]) \in Nat
  BY <1>1, EmptyLemma
<1>3. i = 1 /\ Len(requests[m]) = 1
  BY <1>1, <1>2, OneLemma
<1> QED BY <1>1, <1>3 DEF Busy, Req

\* A request that moves stays the only one of its mount.
LEMMA MovesLemma ==
  ASSUME LoopTypes, NEW m \in Mounts, LoopOK(m), NEW i \in DOMAIN requests[m],
         NEW r \in Request, Moves(m, i, r)
  PROVE  /\ i = 1 /\ Busy(m) /\ requests[m][i] = Req(m) /\ Req(m) \in Request
         /\ requests' \in [Mounts -> Seq(Request)]
         /\ Len(requests'[m]) = 1 /\ requests'[m][1] = r
         /\ \A n \in Mounts \ {m} : requests'[n] = requests[n]
<1>1. requests[m] \in Seq(Request)
  BY OneRequest
<1>2. i = 1 /\ Len(requests[m]) = 1 /\ requests[m][1] \in Request
  BY OneRequest DEF Req
<1>3. requests' = [requests EXCEPT ![m] = [requests[m] EXCEPT ![1] = r]]
  BY <1>2 DEF Moves
<1>4. /\ [requests[m] EXCEPT ![1] = r] \in Seq(Request)
      /\ Len([requests[m] EXCEPT ![1] = r]) = 1 /\ [requests[m] EXCEPT ![1] = r][1] = r
  BY <1>1, <1>2
<1> QED BY <1>2, <1>3, <1>4 DEF LoopTypes, Busy, Req

\* What happens elsewhere leaves a mount as it is: its own turns are stored as before, or
\* the thread is deleted.
LEMMA MountKept ==
  ASSUME LoopTypes, PageTypes, NEW n \in Mounts, MountOK(n),
         queue'[n] = queue[n], flushing'[n] = flushing[n], unsaved'[n] = unsaved[n],
         requests'[n] = requests[n], finished'[n] = finished[n],
         Alive(n)' <=> Alive(n),
         ~Alive(n) => phase'[n] = phase[n] /\ asking'[n] = asking[n],
         exists' => exists \/ phase[n] = "closed",
         \A i \in DOMAIN finished[n] : Has(finished[n][i])' => Has(finished[n][i]),
         exists' => \A i \in DOMAIN finished[n] : Has(finished[n][i]) => Has(finished[n][i])',
         lost \subseteq lost'
  PROVE  MountOK(n)'
<1>0. /\ DeadOK(n) /\ LoopOK(n) /\ CutOK(n) /\ ResendOK(n)
      /\ phase[n] \in {"closed", "open", "left", "reloaded"}
      /\ Alive(n) <=> phase[n] \in {"open", "left"}
      /\ Alive(n)' <=> phase'[n] \in {"open", "left"}
  BY DEF MountOK, PageTypes, Alive
<1>b. (Busy(n)' <=> Busy(n)) /\ (Waits(n)' <=> Waits(n)) /\ Req(n)' = Req(n)
  BY DEF Busy, Waits, Req
<1>1. DeadOK(n)'
  BY <1>0 DEF DeadOK, Empty
<1>2. LoopOK(n)'
  BY <1>0, <1>b DEF LoopOK
<1>3. PICK k \in 0 .. Len(finished[n]) : Cut(n, k)
  BY <1>0 DEF CutOK
<1>q. queue[n] \in Seq(Questions) /\ finished[n] \in Seq(Questions)
  BY DEF LoopTypes
<1>4. Cut(n, k)'
  <2>1. exists' => \A i \in 1 .. k : Has(finished[n][i])'
    <3>1. CASE exists
      BY <1>3, <1>q, <3>1 DEF Cut
    <3>2. CASE phase[n] = "closed"
      <4>1. Len(finished[n]) = 0
        BY <1>0, <3>2 DEF DeadOK
      <4> QED BY <1>3, <4>1
    <3> QED BY <3>1, <3>2
  <2>2. \A j \in DOMAIN finished[n] : Has(finished[n][j])' => j <= k + 1
    BY <1>3 DEF Cut
  <2>3. Busy(n) => k < Len(finished[n]) /\ Req(n).turn = finished[n][k + 1]
    BY <1>3 DEF Cut
  <2>4. Alive(n) => /\ Len(queue[n]) = Len(finished[n]) - k
                    /\ \A i \in DOMAIN queue[n] : queue[n][i] = finished[n][k + i]
    BY <1>3 DEF Cut
  <2> QED BY <1>b, <2>1, <2>2, <2>3, <2>4 DEF Cut
<1>5. CutOK(n)'
  BY <1>3, <1>4 DEF CutOK
<1>6. ResendOK(n)'
  <2>1. Busy(n) => k + 1 \in DOMAIN finished[n] /\ Req(n).turn = finished[n][k + 1]
    BY <1>3, <1>q DEF Cut
  <2>2. Alive(n) /\ Waits(n) => k + 1 \in DOMAIN finished[n] /\ queue[n][1] = finished[n][k + 1]
    <3> SUFFICES ASSUME Alive(n), Waits(n)
                 PROVE  k + 1 \in DOMAIN finished[n] /\ queue[n][1] = finished[n][k + 1]
      OBVIOUS
    <3>1. /\ Len(queue[n]) = Len(finished[n]) - k
          /\ \A i \in DOMAIN queue[n] : queue[n][i] = finished[n][k + i]
      BY <1>3 DEF Cut
    <3>2. 1 \in DOMAIN queue[n] /\ k + 1 \in DOMAIN finished[n]
      BY <1>q, <3>1 DEF Waits
    <3> QED BY <3>1, <3>2
  <2>3. Busy(n) => (Has(Req(n).turn)' => Has(Req(n).turn))
    BY <1>b, <2>1 DEF Has
  <2>4. Busy(n) /\ exists' /\ Has(Req(n).turn) => Has(Req(n).turn)'
    BY <1>b, <2>1 DEF Has
  <2>5. Alive(n) /\ Waits(n) => (Has(queue[n][1])' => Has(queue[n][1]))
    BY <2>2 DEF Has
  <2>6. ~Busy(n) \/ exists \/ ~exists'
    BY <1>0 DEF DeadOK, Busy
  <2> QED BY <1>0, <1>b, <2>3, <2>4, <2>5, <2>6 DEF ResendOK
<1> QED BY <1>1, <1>2, <1>5, <1>6 DEF MountOK

\* The same of every mount at once, when only what is behind the pages changes.
LEMMA MountsKept ==
  ASSUME LoopTypes, PageTypes, MountsOK,
         UNCHANGED <<flushVars, requests, finished, messages, exists, lost>>,
         \A n \in Mounts : (Alive(n)' <=> Alive(n))
                           /\ (~Alive(n) => phase'[n] = phase[n] /\ asking'[n] = asking[n])
  PROVE  MountsOK'
<1> SUFFICES ASSUME NEW n \in Mounts PROVE MountOK(n)'
  BY DEF MountsOK
<1>1. MountOK(n)
  BY DEF MountsOK
<1>2. \A q : Has(q)' <=> Has(q)
  BY DEF Has
<1> QED BY <1>1, <1>2, MountKept DEF flushVars

\* No question is asked again by a step that leaves the questions where they are.
LEMMA AskedKept ==
  ASSUME PageTypes, AskedOnce, UNCHANGED <<finished, asking, pending, asked>>,
         \A m \in Mounts : status'[m] # "ready" => asking[m] # 0,
         AllClosed' => AllClosed /\ composer' = composer,
         \A q : Has(q)' => Has(q),
         \A b \in DOMAIN messages' : messages'[b] <= asked
  PROVE  AskedOnce'
<1>1. \A q : Fresh(q) => Fresh(q)'
  BY DEF Fresh
<1>2. Distinct'
  BY DEF AskedOnce, Distinct
<1> QED BY <1>1, <1>2 DEF AskedOnce

\* The thread keeps its properties while nothing is written to it and no other request
\* loads it.
LEMMA ThreadKept ==
  ASSUME ThreadOK, UNCHANGED <<server, finished>>, lost \subseteq lost',
         AllClosed' => AllClosed, behind' = behind,
         \A m \in Mounts : Loaded(m)' => Loaded(m) /\ Req(m)' = Req(m)
  PROVE  ThreadOK'
<1>0. exists' = exists /\ title' = title /\ messages' = messages /\ finished' = finished
  BY DEF server
<1>1. ServerOK'
  BY <1>0 DEF ThreadOK, ServerOK
<1>2. TitleOK'
  BY <1>0 DEF ThreadOK, TitleOK
<1>3. NoHoleInTheThread'
  BY <1>0 DEF ThreadOK, NoHoleInTheThread
<1>4. StoredTwiceOnlyIfLost'
  BY <1>0 DEF ThreadOK, StoredTwiceOnlyIfLost
<1>5. TitleIsTheOpeningQuestion'
  BY <1>0 DEF ThreadOK, TitleIsTheOpeningQuestion
<1> QED BY <1>1, <1>2, <1>3, <1>4, <1>5 DEF ThreadOK

\* The pages and the agent: nothing is written, sent or queued.
LEMMA PageStep ==
  ASSUME IInv,
         UNCHANGED <<server, flushVars, requests, finished, lost, behind>>,
         \A n \in Mounts : (Alive(n)' <=> Alive(n))
                           /\ (~Alive(n) => phase'[n] = phase[n] /\ asking'[n] = asking[n])
  PROVE  MountsOK' /\ ThreadOK'
<1>0. LoopTypes /\ PageTypes /\ MountsOK /\ ThreadOK
  BY TypeLemma DEF IInv
<1>1. MountsOK'
  BY <1>0, MountsKept DEF server
<1>2. AllClosed' => AllClosed
  BY DEF AllClosed, Alive
<1>3. \A m \in Mounts : Loaded(m)' => Loaded(m) /\ Req(m)' = Req(m)
  BY DEF Loaded, Busy, Req
<1>4. ThreadOK'
  BY <1>0, <1>2, <1>3, ThreadKept
<1> QED BY <1>1, <1>4

LEMMA StepSession == IInv /\ SessionChanges => IInv'
<1> SUFFICES ASSUME IInv, SessionChanges PROVE IInv'
  OBVIOUS
<1> USE DEF SessionChanges, server, browser, chatVars, flushVars
<1>0. ServerTypes /\ LoopTypes /\ PageTypes /\ AskedOnce
  BY TypeLemma DEF IInv
<1>1. ServerTypes' /\ LoopTypes' /\ PageTypes'
  BY <1>0, BoundsAssumption DEF ServerTypes, LoopTypes, PageTypes, Sessions
<1>2. MountsOK' /\ ThreadOK'
  BY PageStep DEF Alive
<1>3. AskedOnce'
  BY <1>0, AskedKept DEF AskedOnce, Has, AllClosed
<1> QED BY <1>1, <1>2, <1>3, TypeNext DEF IInv

LEMMA StepLeave == ASSUME IInv, NEW m \in Mounts, Leave(m) \/ StartNew(m) PROVE IInv'
<1> USE DEF Leave, StartNew, server, browser, chatVars, flushVars
<1>0. ServerTypes /\ LoopTypes /\ PageTypes /\ AskedOnce
  BY TypeLemma DEF IInv
<1>p. phase[m] = "open" /\ phase' = [phase EXCEPT ![m] = "left"] /\ phase'[m] = "left"
  BY <1>0 DEF PageTypes
<1>1. ServerTypes' /\ LoopTypes' /\ PageTypes'
  <2>1. ServerTypes' /\ LoopTypes'
    BY <1>0 DEF ServerTypes, LoopTypes
  <2>2. PageTypes'
    <3>1. composer' \in 0 .. MaxQuestions
      BY <1>0, BoundsAssumption DEF PageTypes, Questions
    <3> QED BY <1>0, <1>p, <3>1 DEF PageTypes
  <2> QED BY <2>1, <2>2
<1>2. MountsOK' /\ ThreadOK'
  BY <1>p, <1>0, PageStep DEF Alive, PageTypes
<1>3. AskedOnce'
  BY <1>0, <1>p, AskedKept DEF AskedOnce, Has, AllClosed
<1> QED BY <1>1, <1>2, <1>3, TypeNext DEF IInv

LEMMA StepRegenerate == ASSUME IInv, NEW m \in Mounts, Regenerate(m) PROVE IInv'
<1> USE DEF Regenerate, server, browser, chatVars, flushVars
<1>0. ServerTypes /\ LoopTypes /\ PageTypes /\ AskedOnce
  BY TypeLemma DEF IInv
<1>1. ServerTypes' /\ LoopTypes' /\ PageTypes'
  BY <1>0 DEF ServerTypes, LoopTypes, PageTypes
<1>2. MountsOK' /\ ThreadOK'
  BY PageStep DEF Alive
<1>3. AskedOnce'
  BY <1>0, AskedKept DEF AskedOnce, Has, AllClosed, PageTypes
<1> QED BY <1>1, <1>2, <1>3, TypeNext DEF IInv

LEMMA StepAsk == ASSUME IInv, NEW m \in Mounts, Ask(m) PROVE IInv'
<1> USE DEF Ask, server, browser, chatVars, flushVars
<1>0. ServerTypes /\ LoopTypes /\ PageTypes /\ AskedOnce
  BY TypeLemma DEF IInv
<1>1. ServerTypes' /\ LoopTypes' /\ PageTypes'
  BY <1>0, BoundsAssumption DEF ServerTypes, LoopTypes, PageTypes
<1>2. MountsOK' /\ ThreadOK'
  BY <1>0, PageStep DEF Alive, PageTypes
<1>3. AskedOnce'
  <2>t. /\ asked \in Nat /\ asked' = asked + 1 /\ pending' = pending /\ finished' = finished
        /\ messages' = messages /\ composer' = composer /\ asking \in [Mounts -> Nat]
        /\ pending \in Nat /\ composer \in Nat /\ phase' = phase
        /\ finished \in [Mounts -> Seq(Nat)] /\ messages \in Seq(Nat)
    BY <1>0, BoundsAssumption DEF PageTypes, ServerTypes, LoopTypes, Questions
  <2>a. asking' = [asking EXCEPT ![m] = asked + 1]
    OBVIOUS
  <2>1. \A q : Fresh(q)' <=> Fresh(q)
    BY <2>t DEF Fresh, Has
  <2>2. Fresh(asked + 1)
    <3>1. \A n \in Mounts : \A i \in DOMAIN finished[n] :
            finished[n][i] \in Nat /\ finished[n][i] <= asked
      BY <1>0, <2>t DEF AskedOnce
    <3>2. \A b \in DOMAIN messages : messages[b] \in Nat /\ messages[b] <= asked
      BY <1>0, <2>t DEF AskedOnce
    <3> QED BY <2>t, <3>1, <3>2 DEF Fresh, Has
  <2>3. \A n \in Mounts : asking'[n] <= asked' /\ (status'[n] # "ready" => asking'[n] # 0)
    BY <1>0, <2>t, <2>a DEF AskedOnce, PageTypes
  <2>4. \A n \in Mounts : \A i \in DOMAIN finished[n] : finished'[n][i] <= asked'
    BY <1>0, <2>t DEF AskedOnce
  <2>5. \A b \in DOMAIN messages : messages[b] <= asked'
    BY <1>0, <2>t DEF AskedOnce
  <2>6. \A n \in Mounts : asking'[n] # 0 => Fresh(asking'[n])
    BY <1>0, <2>t, <2>a, <2>2 DEF AskedOnce
  <2>7. \A n, l \in Mounts : asking'[n] = asking'[l] /\ asking'[n] # 0 => n = l
    BY <1>0, <2>t, <2>a DEF AskedOnce
  <2>8. /\ pending <= asked' /\ (AllClosed => composer <= asked')
        /\ pending # 0 => Fresh(pending) /\ \A n \in Mounts : asking'[n] # pending
    BY <1>0, <2>t, <2>a DEF AskedOnce
  <2>9. Distinct'
    BY <1>0, <2>t DEF AskedOnce, Distinct
  <2> QED BY <2>t, <2>1, <2>3, <2>4, <2>5, <2>6, <2>7, <2>8, <2>9 DEF AskedOnce, AllClosed
<1> QED BY <1>1, <1>2, <1>3, TypeNext DEF IInv

LEMMA StepNoAnswer == ASSUME IInv, NEW m \in Mounts, NoAnswer(m) PROVE IInv'
<1> USE DEF NoAnswer, server, browser, chatVars, flushVars
<1>0. ServerTypes /\ LoopTypes /\ PageTypes /\ AskedOnce
  BY TypeLemma DEF IInv
<1>1. ServerTypes' /\ LoopTypes' /\ PageTypes'
  <2>1. ServerTypes' /\ LoopTypes'
    BY <1>0 DEF ServerTypes, LoopTypes
  <2>2. status' \in [Mounts -> {"ready", "busy", "error"}]
    BY <1>0 DEF PageTypes
  <2>3. asking' \in [Mounts -> 0 .. MaxQuestions]
    BY <1>0, BoundsAssumption DEF PageTypes
  <2> QED BY <1>0, <2>1, <2>2, <2>3 DEF PageTypes
<1>2. MountsOK' /\ ThreadOK'
  BY <1>0, PageStep DEF Alive, PageTypes
<1>3. AskedOnce'
  <2>1. \A n \in Mounts : /\ asking'[n] \in {asking[n], 0}
                          /\ status'[n] # "ready" => asking'[n] = asking[n] /\ asking[n] # 0
    BY <1>0 DEF AskedOnce, PageTypes
  <2>2. \A q : Fresh(q)' <=> Fresh(q)
    BY DEF Fresh, Has
  <2>3. Distinct' /\ (AllClosed' <=> AllClosed)
    BY <1>0 DEF AskedOnce, Distinct, AllClosed
  <2>4. asked \in Nat /\ 0 <= asked
    BY <1>0 DEF PageTypes
  <2> QED BY <1>0, <2>1, <2>2, <2>3, <2>4 DEF AskedOnce
<1> QED BY <1>1, <1>2, <1>3, TypeNext DEF IInv

\* Before the first page is opened there is nothing yet.
LEMMA NothingYet ==
  ASSUME IInv, AllClosed
  PROVE  /\ \A n \in Mounts : /\ ~Alive(n) /\ asking[n] = 0 /\ ~flushing[n]
                              /\ Len(finished[n]) = 0 /\ DOMAIN finished[n] = {}
                              /\ ~Busy(n) /\ ~Waits(n)
         /\ Len(messages) = 0 /\ DOMAIN messages = {} /\ title = NewTitle
         /\ \A q : Fresh(q) /\ ~Has(q)
<1>0. LoopTypes /\ MountsOK /\ ThreadOK /\ ServerTypes
  BY TypeLemma DEF IInv
<1>1. \A n \in Mounts : /\ Empty(n) /\ Len(requests[n]) = 0 /\ Len(finished[n]) = 0
                        /\ ~Alive(n)
  BY <1>0 DEF MountsOK, MountOK, DeadOK, AllClosed, Alive
<1>2. Len(messages) = 0 /\ title = NewTitle /\ messages \in Seq(Questions)
  BY <1>0 DEF ThreadOK, ServerOK, ServerTypes
<1>3. \A n \in Mounts : finished[n] \in Seq(Questions)
  BY <1>0 DEF LoopTypes
<1>4. DOMAIN messages = {} /\ \A n \in Mounts : DOMAIN finished[n] = {}
  BY <1>1, <1>2, <1>3
<1> QED BY <1>1, <1>2, <1>4 DEF Empty, Busy, Waits, Fresh, Has

LEMMA StepCreate == IInv /\ Create => IInv'
<1> SUFFICES ASSUME IInv, Create PROVE IInv'
  OBVIOUS
<1> USE DEF Create, server, browser, chatVars, flushVars
<1>0. ServerTypes /\ LoopTypes /\ PageTypes /\ AskedOnce /\ MountsOK /\ ThreadOK /\ AllClosed
  BY TypeLemma DEF IInv, AllClosed
<1>1. ServerTypes' /\ LoopTypes' /\ PageTypes'
  BY <1>0, BoundsAssumption DEF ServerTypes, LoopTypes, PageTypes
<1>2. MountsOK'
  <2> SUFFICES ASSUME NEW n \in Mounts PROVE MountOK(n)'
    BY DEF MountsOK
  <2>1. MountOK(n) /\ phase[n] = "closed"
    BY <1>0 DEF MountsOK, AllClosed
  <2>2. \A q : Has(q)' <=> Has(q)
    BY DEF Has
  <2> QED BY <1>0, <2>1, <2>2, MountKept DEF Alive
<1>3. AskedOnce'
  <2>1. \A q : Fresh(q)'
    BY <1>0, NothingYet DEF Fresh, Has
  <2>2. pending' <= asked' /\ (AllClosed' => composer' <= asked')
    BY <1>0 DEF AskedOnce, PageTypes
  <2>3. Distinct'
    BY <1>0 DEF AskedOnce, Distinct
  <2>4. \A n \in Mounts : asking[n] = 0
    BY <1>0, NothingYet
  <2> QED BY <1>0, <2>1, <2>2, <2>3, <2>4 DEF AskedOnce
<1>4. ThreadOK'
  <2>1. /\ Len(messages') = 0 /\ DOMAIN messages' = {} /\ title' = NewTitle
        /\ \A n \in Mounts : ~Busy(n)'
    BY <1>0, NothingYet DEF Busy
  <2>2. ServerOK' /\ TitleOK'
    BY <2>1 DEF ServerOK, TitleOK, Loaded
  <2>3. NoHoleInTheThread' /\ StoredTwiceOnlyIfLost'
    BY <2>1 DEF NoHoleInTheThread, StoredTwiceOnlyIfLost
  <2>4. messages' = <<>>
    BY <2>1, <1>1, EmptyLemma DEF ServerTypes
  <2>5. TitleIsTheOpeningQuestion'
    BY <2>1, <2>4 DEF TitleIsTheOpeningQuestion
  <2> QED BY <2>2, <2>3, <2>5 DEF ThreadOK
<1> QED BY <1>1, <1>2, <1>3, <1>4, TypeNext DEF IInv

LEMMA StepOpen == ASSUME IInv, NEW m \in Mounts, Open(m) PROVE IInv'
<1> USE DEF Open, server, browser, chatVars, flushVars
<1>0. ServerTypes /\ LoopTypes /\ PageTypes /\ AskedOnce /\ MountsOK /\ ThreadOK
  BY TypeLemma DEF IInv
<1>p. /\ phase[m] = "closed" /\ phase' = [phase EXCEPT ![m] = "open"] /\ phase'[m] = "open"
      /\ \A n \in Mounts \ {m} : phase'[n] = phase[n] /\ asking'[n] = asking[n]
  BY <1>0 DEF PageTypes
<1>1. ServerTypes' /\ LoopTypes' /\ PageTypes'
  <2>1. ServerTypes' /\ LoopTypes'
    BY <1>0 DEF ServerTypes, LoopTypes
  <2>2. asking' \in [Mounts -> 0 .. MaxQuestions] /\ pending' \in 0 .. MaxQuestions
    BY <1>0, BoundsAssumption DEF PageTypes
  <2>3. status' \in [Mounts -> {"ready", "busy", "error"}]
    BY <1>0 DEF PageTypes
  <2> QED BY <1>0, <1>p, <2>1, <2>2, <2>3 DEF PageTypes
<1>b. /\ \A q : Has(q)' <=> Has(q)
      /\ \A n \in Mounts : /\ Busy(n)' <=> Busy(n)
                           /\ Waits(n)' <=> Waits(n)
                           /\ Req(n)' = Req(n)
  BY DEF Has, Busy, Waits, Req
<1>2. ASSUME NEW n \in Mounts PROVE MountOK(n)'
  <2>1. CASE n # m
    <3>1. MountOK(n)
      BY <1>0 DEF MountsOK
    <3> QED BY <1>0, <1>p, <1>b, <2>1, <3>1, MountKept DEF Alive
  <2>2. CASE n = m
    <3>1. MountOK(m) /\ DeadOK(m)
      BY <1>0 DEF MountsOK, MountOK
    <3>2. /\ Len(queue[m]) = 0 /\ ~flushing[m] /\ unsaved[m] = NoFlags
          /\ Len(requests[m]) = 0 /\ Len(finished[m]) = 0
      BY <1>p, <3>1 DEF DeadOK, Empty
    <3>3. DOMAIN queue[m] = {} /\ DOMAIN finished[m] = {} /\ ~Busy(m) /\ ~Waits(m)
      BY <1>0, <3>2 DEF LoopTypes, Busy, Waits
    <3>4. DeadOK(m)'
      BY <1>p DEF DeadOK
    <3>5. LoopOK(m)'
      BY <1>b, <3>2, <3>3 DEF LoopOK, NoFlags
    <3>6. Cut(m, 0)'
      BY <1>b, <3>2, <3>3 DEF Cut
    <3>7. ResendOK(m)'
      BY <1>b, <3>3 DEF ResendOK
    <3>8. CutOK(m)'
      BY <3>2, <3>6 DEF CutOK
    <3> QED BY <2>2, <3>4, <3>5, <3>7, <3>8 DEF MountOK
  <2> QED BY <2>1, <2>2
<1>3. AskedOnce'
  <2>1. \A q : Fresh(q)' <=> Fresh(q)
    BY <1>b DEF Fresh
  <2>2. Distinct' /\ ~AllClosed'
    BY <1>0, <1>p DEF AskedOnce, Distinct, AllClosed
  <2>3. CASE pending # 0 /\ asking' = [asking EXCEPT ![m] = pending] /\ pending' = 0
             /\ status' = [status EXCEPT ![m] = "busy"]
    <3>1. asking'[m] = pending /\ Fresh(pending) /\ pending <= asked /\ asked \in Nat
      BY <1>0, <2>3 DEF AskedOnce, PageTypes
    <3>2. \A n \in Mounts : n # m => asking'[n] = asking[n] /\ asking[n] # pending
      BY <1>0, <1>p, <2>3 DEF AskedOnce
    <3>3. \A n \in Mounts : n # m => status'[n] = status[n]
      BY <1>0, <2>3 DEF PageTypes
    <3> QED BY <1>0, <2>1, <2>2, <2>3, <3>1, <3>2, <3>3 DEF AskedOnce
  <2>4. CASE UNCHANGED <<asking, status, pending>>
    BY <1>0, <2>1, <2>2, <2>4 DEF AskedOnce
  <2> QED BY <2>3, <2>4
<1>4. ThreadOK'
  <2>1. \A n \in Mounts : Loaded(n)' => Loaded(n) /\ Req(n)' = Req(n)
    BY <1>b DEF Loaded
  <2>2. ~AllClosed'
    BY <1>p DEF AllClosed
  <2> QED BY <1>0, <2>1, <2>2, ThreadKept
<1> QED BY <1>1, <1>2, <1>3, <1>4, TypeNext DEF IInv, MountsOK

LEMMA StepReload == ASSUME IInv, NEW m \in Mounts, Reload(m) PROVE IInv'
<1> USE DEF Reload, server, browser, chatVars
<1>0. ServerTypes /\ LoopTypes /\ PageTypes /\ AskedOnce /\ MountsOK /\ ThreadOK
  BY TypeLemma DEF IInv
<1>p. /\ phase'[m] = "reloaded" /\ asking'[m] = 0 /\ queue'[m] = <<>>
      /\ ~flushing'[m] /\ unsaved'[m] = NoFlags
      /\ \A n \in Mounts \ {m} :
           /\ phase'[n] = phase[n] /\ asking'[n] = asking[n] /\ queue'[n] = queue[n]
           /\ flushing'[n] = flushing[n] /\ unsaved'[n] = unsaved[n]
  BY <1>0 DEF PageTypes, LoopTypes
<1>1. ServerTypes' /\ LoopTypes' /\ PageTypes'
  <2>1. ServerTypes'
    BY <1>0 DEF ServerTypes
  <2>2. NoFlags \in [Questions -> Reasons \cup {"none"}] /\ <<>> \in Seq(Questions)
    BY DEF NoFlags
  <2>3. LoopTypes'
    BY <1>0, <2>2 DEF LoopTypes
  <2>4. PageTypes'
    BY <1>0, BoundsAssumption DEF PageTypes
  <2> QED BY <2>1, <2>3, <2>4
<1>b. /\ \A q : Has(q)' <=> Has(q)
      /\ \A n \in Mounts : (Busy(n)' <=> Busy(n)) /\ Req(n)' = Req(n)
  BY DEF Has, Busy, Req
<1>2. ASSUME NEW n \in Mounts PROVE MountOK(n)'
  <2>1. CASE n # m
    <3>1. MountOK(n)
      BY <1>0 DEF MountsOK
    <3> QED BY <1>0, <1>p, <1>b, <2>1, <3>1, MountKept DEF Alive
  <2>2. CASE n = m
    <3>1. LoopOK(m) /\ CutOK(m) /\ ResendOK(m)
      BY <1>0 DEF MountsOK, MountOK
    <3>2. ~Alive(m)' /\ ~Waits(m)' /\ Len(queue'[m]) = 0
      BY <1>p DEF Alive, Waits
    <3>3. DeadOK(m)'
      BY <1>p, <3>2 DEF DeadOK, Empty
    <3>4. LoopOK(m)'
      BY <1>p, <3>1, <3>2 DEF LoopOK, NoFlags
    <3>5. PICK k \in 0 .. Len(finished[m]) : Cut(m, k)
      BY <3>1 DEF CutOK
    <3>6. Cut(m, k)'
      BY <1>b, <3>2, <3>5 DEF Cut
    <3>7. CutOK(m)'
      BY <3>5, <3>6 DEF CutOK
    <3>8. ResendOK(m)'
      BY <1>b, <3>1, <3>2 DEF ResendOK
    <3> QED BY <2>2, <3>3, <3>4, <3>7, <3>8 DEF MountOK
  <2> QED BY <2>1, <2>2
<1>3. AskedOnce'
  <2>1. \A n \in Mounts : /\ asking'[n] \in {asking[n], 0}
                          /\ status'[n] # "ready" => asking'[n] = asking[n] /\ asking[n] # 0
    BY <1>0, <1>p DEF AskedOnce, PageTypes
  <2>2. \A q : Fresh(q)' <=> Fresh(q)
    BY <1>b DEF Fresh
  <2>3. Distinct' /\ ~AllClosed'
    BY <1>0, <1>p DEF AskedOnce, Distinct, AllClosed
  <2>4. asked \in Nat /\ 0 <= asked
    BY <1>0 DEF PageTypes
  <2> QED BY <1>0, <2>1, <2>2, <2>3, <2>4 DEF AskedOnce
<1>4. ThreadOK'
  <2>1. \A n \in Mounts : Loaded(n)' => Loaded(n) /\ Req(n)' = Req(n)
    BY <1>b DEF Loaded
  <2>2. ~AllClosed'
    BY <1>p DEF AllClosed
  <2> QED BY <1>0, <2>1, <2>2, ThreadKept
<1> QED BY <1>1, <1>2, <1>3, <1>4, TypeNext DEF IInv, MountsOK

LEMMA OnlyOneLemma == ASSUME NEW n \in Nat, n <= 1, n > 0 PROVE n = 1
<1> QED OBVIOUS

LEMMA LastLemma ==
  ASSUME NEW l \in Nat, NEW i \in 1 .. l + 1, NEW j \in 1 .. l + 1, i < j, j # l + 1
  PROVE  i \in 1 .. l /\ j \in 1 .. l
<1> QED OBVIOUS

LEMMA PostLemma ==
  ASSUME NEW q \in Questions
  PROVE  /\ Post(q) \in Request /\ Append(<<>>, Post(q)) \in Seq(Request)
         /\ Len(Append(<<>>, Post(q))) = 1 /\ Append(<<>>, Post(q))[1] = Post(q)
         /\ Post(q).turn = q /\ Post(q).at = "sent"
<1>1. Post(q) \in Request /\ Post(q).turn = q /\ Post(q).at = "sent"
  BY DEF Post, Request, Reasons
<1> QED BY <1>1

\* The loop that starts sends the head of the queue, and nothing else is in flight.
LEMMA SendLemma ==
  ASSUME LoopTypes, NEW m \in Mounts, Len(requests[m]) = 0,
         NEW q \in Seq(Questions), Len(q) > 0, SendHead(m, q)
  PROVE  /\ requests' \in [Mounts -> Seq(Request)]
         /\ Len(requests'[m]) = 1
         /\ requests'[m][1].turn = q[1] /\ requests'[m][1].at = "sent"
         /\ \A n \in Mounts \ {m} : requests'[n] = requests[n]
<1>1. requests[m] = <<>>
  BY EmptyLemma DEF LoopTypes
<1>2. Head(q) = q[1] /\ q[1] \in Questions
  OBVIOUS
<1>3. requests' = [requests EXCEPT ![m] = Append(<<>>, Post(q[1]))]
  BY <1>1, <1>2 DEF SendHead
<1> QED BY <1>2, <1>3, PostLemma DEF LoopTypes

LEMMA StepAnswer == ASSUME IInv, NEW m \in Mounts, Answer(m) PROVE IInv'
<1> DEFINE q == asking[m]
<1>u. /\ Alive(m) /\ status[m] = "busy" /\ Flush(m, queue'[m])
      /\ exists' = exists /\ title' = title /\ messages' = messages
      /\ composer' = composer /\ pending' = pending /\ phase' = phase /\ asked' = asked
      /\ unsaved' = unsaved /\ lost' = lost /\ behind' = behind
  BY DEF Answer, server, browser
<1>0. ServerTypes /\ LoopTypes /\ PageTypes /\ AskedOnce /\ MountsOK /\ ThreadOK
  BY TypeLemma DEF IInv
<1>m. /\ DeadOK(m) /\ LoopOK(m) /\ CutOK(m) /\ ResendOK(m)
      /\ Alive(m) /\ Alive(m)'
      /\ phase[m] # "closed" /\ phase[m] # "reloaded"
  BY <1>0, <1>u DEF MountsOK, MountOK, Alive
<1>q. q \in Questions /\ q # 0 /\ Fresh(q) /\ q <= asked
  <2>1. q # 0 /\ Fresh(q) /\ q <= asked
    BY <1>0, <1>u DEF AskedOnce
  <2> QED BY <1>0, <2>1, BoundsAssumption DEF PageTypes, Questions
<1>s. queue[m] \in Seq(Questions) /\ finished[m] \in Seq(Questions)
  BY <1>0 DEF LoopTypes
<1>a. /\ queue'[m] = Append(queue[m], q) /\ finished'[m] = Append(finished[m], q)
      /\ asking'[m] = 0 /\ status'[m] = "ready"
      /\ \A n \in Mounts \ {m} :
           /\ queue'[n] = queue[n] /\ finished'[n] = finished[n]
           /\ asking'[n] = asking[n] /\ status'[n] = status[n]
  BY <1>0 DEF LoopTypes, PageTypes, Answer
<1>l. /\ Len(queue'[m]) = Len(queue[m]) + 1 /\ queue'[m][Len(queue[m]) + 1] = q
      /\ \A i \in 1 .. Len(queue[m]) : queue'[m][i] = queue[m][i]
      /\ Len(finished'[m]) = Len(finished[m]) + 1 /\ finished'[m][Len(finished[m]) + 1] = q
      /\ \A i \in 1 .. Len(finished[m]) : finished'[m][i] = finished[m][i]
  BY <1>a, <1>q, <1>s
<1>t. queue'[m] \in Seq(Questions) /\ finished'[m] \in Seq(Questions)
  BY <1>a, <1>q, <1>s
<1>n. /\ Len(queue[m]) \in Nat /\ DOMAIN queue[m] = 1 .. Len(queue[m])
      /\ Len(finished[m]) \in Nat /\ DOMAIN finished[m] = 1 .. Len(finished[m])
      /\ DOMAIN queue'[m] = 1 .. Len(queue'[m])
      /\ DOMAIN finished'[m] = 1 .. Len(finished'[m])
  BY <1>s, <1>t, EmptyLemma
<1>f. /\ flushing'[m] = TRUE /\ Waits(m)'
      /\ requests' \in [Mounts -> Seq(Request)] /\ Len(requests'[m]) = 1
      /\ \/ Busy(m) /\ Waits(m) /\ requests'[m] = requests[m]
         \/ ~Busy(m) /\ requests'[m][1].turn = queue'[m][1] /\ requests'[m][1].at = "sent"
      /\ flushing' \in [Mounts -> BOOLEAN]
      /\ \A n \in Mounts \ {m} : requests'[n] = requests[n] /\ flushing'[n] = flushing[n]
  <2>1. queue'[m] # <<>> /\ Waits(m)'
    <3>1. Len(queue'[m]) > 0
      BY <1>s, <1>l
    <3> QED BY <1>t, <3>1, EmptyLemma DEF Waits
  <2>2. Len(requests[m]) \in Nat /\ requests[m] \in Seq(Request) /\ flushing[m] \in BOOLEAN
    BY <1>0, EmptyLemma DEF LoopTypes
  <2>3. CASE flushing[m]
    <3>1. UNCHANGED <<flushing, requests>>
      BY <1>u, <2>3 DEF Flush
    <3>2. Busy(m) /\ Waits(m) /\ Len(requests[m]) = 1
      <4>1. Busy(m) /\ Waits(m) /\ Len(requests[m]) <= 1
        BY <1>m, <2>3 DEF LoopOK
      <4>2. Len(requests[m]) = 1
        <5>1. Len(requests[m]) > 0 /\ Len(requests[m]) \in Nat
          BY <2>2, <4>1 DEF Busy
        <5> QED BY <4>1, <5>1, OnlyOneLemma
      <4> QED BY <4>1, <4>2
    <3> QED BY <1>0, <2>1, <2>3, <3>1, <3>2 DEF LoopTypes
  <2>4. CASE ~flushing[m]
    <3>1. flushing' = [flushing EXCEPT ![m] = TRUE] /\ SendHead(m, queue'[m])
      BY <1>u, <2>1, <2>4 DEF Flush
    <3>2. Len(requests[m]) = 0 /\ ~Busy(m)
      BY <1>m, <2>2, <2>4 DEF LoopOK, Busy
    <3>3. Len(queue'[m]) > 0
      BY <2>1 DEF Waits
    <3> QED BY <1>0, <1>t, <2>1, <3>1, <3>2, <3>3, SendLemma DEF LoopTypes
  <2> QED BY <2>3, <2>4
<1>1. ServerTypes' /\ LoopTypes' /\ PageTypes'
  <2>1. ServerTypes'
    BY <1>0 DEF ServerTypes, Answer, server
  <2>2. queue' \in [Mounts -> Seq(Questions)] /\ finished' \in [Mounts -> Seq(Questions)]
    BY <1>0, <1>q, <1>s, <1>t DEF LoopTypes, Answer
  <2>3. LoopTypes'
    BY <1>0, <1>f, <1>u, <2>2 DEF LoopTypes
  <2>4. PageTypes'
    BY <1>0, <1>u, BoundsAssumption DEF PageTypes, Answer
  <2> QED BY <2>1, <2>3, <2>4
<1>b. \A p : Has(p)' <=> Has(p)
  BY <1>u DEF Has
<1>h. Len(queue[m]) > 0 => queue'[m][1] = queue[m][1]
  BY <1>u, <1>n, <1>l
<1>2. ASSUME NEW n \in Mounts PROVE MountOK(n)'
  <2>1. CASE n # m
    <3>1. MountOK(n)
      BY <1>u, <1>0 DEF MountsOK
    <3> QED BY <1>u, <1>0, <1>m, <1>a, <1>b, <1>f, <2>1, <3>1, MountKept DEF Alive
  <2>2. CASE n = m
    <3>1. DeadOK(m)'
      BY <1>u, <1>m DEF DeadOK
    <3>r. Busy(m)' /\ (Busy(m) => Req(m)' = Req(m))
      BY <1>u, <1>f DEF Busy, Req
    <3>s. ~Busy(m) => Req(m).turn' = queue'[m][1] /\ Req(m).at' = "sent"
      BY <1>u, <1>f DEF Req
    <3>2. LoopOK(m)'
      <4>1. Req(m).turn' = queue'[m][1]
        <5>1. CASE Busy(m)
          <6>1. Req(m).turn = queue[m][1] /\ Len(queue[m]) > 0
            BY <1>u, <1>m, <5>1 DEF LoopOK, Waits
          <6> QED BY <1>u, <1>h, <3>r, <5>1, <6>1
        <5> QED BY <1>u, <3>s, <5>1
      <4>2. \A p \in Questions : unsaved[m][p] # "none" => p = queue'[m][1]
        BY <1>u, <1>m, <1>h DEF LoopOK, Waits
      <4> QED BY <1>u, <1>f, <3>r, <4>1, <4>2 DEF LoopOK
    <3>3. PICK k \in 0 .. Len(finished[m]) : Cut(m, k)
      BY <1>u, <1>m DEF CutOK
    <3>c. /\ Len(queue[m]) = Len(finished[m]) - k
          /\ \A i \in 1 .. Len(queue[m]) : queue[m][i] = finished[m][k + i]
          /\ exists => \A i \in 1 .. k : Has(finished[m][i])
          /\ \A j \in 1 .. Len(finished[m]) : Has(finished[m][j]) => j <= k + 1
          /\ Busy(m) => k < Len(finished[m]) /\ Req(m).turn = finished[m][k + 1]
      BY <1>u, <1>m, <1>s, <3>3 DEF Cut
    <3>k. k \in Nat /\ k <= Len(finished[m])
      BY <1>n
    <3>4. Cut(m, k)'
      <4>1. Len(queue'[m]) = Len(finished'[m]) - k
        BY <1>u, <1>n, <1>l, <3>k, <3>c
      <4>2. \A i \in 1 .. Len(queue'[m]) : queue'[m][i] = finished'[m][k + i]
        <5> SUFFICES ASSUME NEW i \in 1 .. Len(queue[m]) + 1
                     PROVE  queue'[m][i] = finished'[m][k + i]
          BY <1>u, <1>l
        <5>1. CASE i = Len(queue[m]) + 1
          BY <1>u, <1>n, <1>l, <3>k, <3>c, <5>1
        <5>2. CASE i \in 1 .. Len(queue[m])
          <6>1. k + i \in 1 .. Len(finished[m])
            BY <1>u, <1>n, <3>k, <3>c, <5>2
          <6> QED BY <1>l, <3>k, <3>c, <5>2, <6>1
        <5>3. i = Len(queue[m]) + 1 \/ i \in 1 .. Len(queue[m])
          BY <1>s
        <5> QED BY <5>1, <5>2, <5>3
      <4>3. k < Len(finished'[m]) /\ Req(m).turn' = finished'[m][k + 1]
        <5>1. CASE Busy(m)
          <6>1. k < Len(finished[m]) /\ k + 1 \in 1 .. Len(finished[m])
            BY <1>n, <3>k, <3>c, <5>1
          <6>2. Req(m).turn' = finished[m][k + 1]
            BY <3>c, <3>r, <5>1
          <6> QED BY <1>n, <1>l, <3>k, <6>1, <6>2
        <5>2. CASE ~Busy(m)
          <6>1. 1 \in 1 .. Len(queue'[m]) /\ k < Len(finished'[m])
            BY <1>n, <1>l, <3>k, <3>c
          <6> QED BY <3>s, <4>2, <5>2, <6>1
        <5> QED BY <5>1, <5>2
      <4>4. exists' => \A i \in 1 .. k : Has(finished'[m][i])
        <5>1. \A i \in 1 .. k : i \in 1 .. Len(finished[m])
          BY <1>n, <3>k
        <5> QED BY <1>u, <1>l, <3>c, <5>1
      <4>5. \A j \in 1 .. Len(finished'[m]) : Has(finished'[m][j]) => j <= k + 1
        <5> SUFFICES ASSUME NEW j \in 1 .. Len(finished[m]) + 1, Has(finished'[m][j])
                     PROVE  j <= k + 1
          BY <1>u, <1>l
        <5>1. j # Len(finished[m]) + 1
          BY <1>l, <1>q DEF Fresh
        <5>2. j \in 1 .. Len(finished[m])
          BY <1>n, <5>1
        <5> QED BY <1>l, <3>c, <5>2
      <4> QED BY <1>u, <1>b, <1>l, <4>1, <4>2, <4>3, <4>4, <4>5, <1>n DEF Cut
    <3>5. CutOK(m)'
      <4>1. k \in 0 .. Len(finished'[m])
        BY <1>u, <1>n, <1>l
      <4> QED BY <1>u, <3>4, <4>1 DEF CutOK
    <3>6. ResendOK(m)'
      <4>1. CASE Busy(m)
        BY <1>u, <1>b, <1>m, <3>r, <4>1 DEF ResendOK
      <4>2. CASE ~Busy(m)
        <5>1. Has(queue'[m][1]) => queue'[m][1] \in lost
          <6>1. CASE Len(queue[m]) > 0
            BY <1>u, <1>h, <1>m, <4>2, <6>1 DEF ResendOK, Waits
          <6>2. CASE Len(queue[m]) = 0
            BY <1>u, <1>l, <1>q, <6>2 DEF Fresh
          <6> QED BY <1>u, <1>n, <6>1, <6>2
        <5> QED BY <1>u, <1>b, <3>r, <3>s, <4>2, <5>1 DEF ResendOK
      <4> QED BY <1>u, <4>1, <4>2
    <3> QED BY <1>u, <2>2, <3>1, <3>2, <3>5, <3>6 DEF MountOK
  <2> QED BY <1>u, <2>1, <2>2
<1>3. AskedOnce'
  <2>1. \A n \in Mounts : \A i \in DOMAIN finished'[n] :
          \/ n = m /\ i = Len(finished[m]) + 1 /\ finished'[n][i] = q
          \/ i \in DOMAIN finished[n] /\ finished'[n][i] = finished[n][i]
    <3> SUFFICES ASSUME NEW n \in Mounts, NEW i \in DOMAIN finished'[n]
                 PROVE  \/ n = m /\ i = Len(finished[m]) + 1 /\ finished'[n][i] = q
                        \/ i \in DOMAIN finished[n] /\ finished'[n][i] = finished[n][i]
      OBVIOUS
    <3>1. CASE n # m
      BY <1>a, <3>1
    <3>2. CASE n = m
      <4>1. i = Len(finished[m]) + 1 \/ i \in 1 .. Len(finished[m])
        BY <1>n, <1>l, <3>2
      <4> QED BY <1>n, <1>l, <3>2, <4>1
    <3> QED BY <3>1, <3>2
  <2>2. \A p : Fresh(p) /\ p # q => Fresh(p)'
    BY <1>u, <1>b, <2>1 DEF Fresh
  <2>3. \A n \in Mounts : asking'[n] # 0 => asking'[n] = asking[n] /\ asking[n] # q
    BY <1>u, <1>0, <1>a DEF AskedOnce
  <2>4. Distinct'
    <3> SUFFICES ASSUME NEW n1 \in Mounts, NEW n2 \in Mounts,
                        NEW i \in DOMAIN finished'[n1], NEW j \in DOMAIN finished'[n2],
                        finished'[n1][i] = finished'[n2][j]
                 PROVE  n1 = n2 /\ i = j
      BY DEF Distinct
    <3> QED BY <1>u, <1>0, <1>q, <2>1 DEF Fresh, AskedOnce, Distinct
  <2>5. asked' = asked /\ pending' = pending /\ composer' = composer /\ messages' = messages
    BY <1>u
  <2>6. \A n \in Mounts : asking'[n] <= asked /\ (status'[n] # "ready" => asking'[n] # 0)
    BY <1>u, <1>0, <1>a DEF AskedOnce, PageTypes
  <2>7. \A n \in Mounts : \A i \in DOMAIN finished'[n] : finished'[n][i] <= asked
    BY <1>u, <1>0, <1>q, <2>1 DEF AskedOnce
  <2>8. /\ \A n \in Mounts : asking'[n] # 0 => Fresh(asking[n])'
        /\ \A n, l \in Mounts : asking'[n] = asking'[l] /\ asking'[n] # 0 => n = l
    <3>1. \A n \in Mounts : asking'[n] # 0 => Fresh(asking[n])
      BY <1>0, <2>3 DEF AskedOnce
    <3>2. \A n \in Mounts : asking'[n] # 0 => Fresh(asking[n])'
      BY <2>2, <2>3, <3>1
    <3> QED BY <1>0, <2>3, <3>2 DEF AskedOnce
  <2>9. pending # 0 => Fresh(pending)' /\ \A n \in Mounts : asking'[n] # pending
    BY <1>u, <1>0, <1>a, <2>2 DEF AskedOnce
  <2>10. ~AllClosed'
    <3>1. phase'[m] # "closed"
      BY <1>u, <1>m
    <3> QED BY <3>1 DEF AllClosed
  <2>11. \A b \in DOMAIN messages' : messages'[b] <= asked'
    BY <1>0, <2>5 DEF AskedOnce
  <2>12. /\ \A n \in Mounts : asking'[n] <= asked' /\ (status'[n] # "ready" => asking'[n] # 0)
         /\ \A n \in Mounts : \A i \in DOMAIN finished'[n] : finished'[n][i] <= asked'
    BY <2>5, <2>6, <2>7
  <2>13. /\ pending' <= asked'
         /\ pending' # 0 => Fresh(pending)' /\ \A n \in Mounts : asking'[n] # pending'
    BY <1>0, <2>5, <2>9 DEF AskedOnce
  <2> QED BY <2>4, <2>8, <2>10, <2>11, <2>12, <2>13 DEF AskedOnce
<1>4. ThreadOK'
  <2>1. \A n \in Mounts : Loaded(n)' => Loaded(n) /\ Req(n)' = Req(n)
    BY <1>u, <1>f DEF Loaded, Req, Busy
  <2>2. TitleOK'
    BY <1>u, <1>0, <2>1 DEF ThreadOK, TitleOK
  <2>3. ServerOK' /\ StoredTwiceOnlyIfLost' /\ TitleIsTheOpeningQuestion'
    BY <1>u, <1>0, <1>m
    DEF ThreadOK, ServerOK, StoredTwiceOnlyIfLost, TitleIsTheOpeningQuestion, AllClosed
  <2>4. NoHoleInTheThread'
    <3> SUFFICES ASSUME exists', NEW n \in Mounts, NEW i \in DOMAIN finished'[n],
                        NEW j \in DOMAIN finished'[n], NEW b \in DOMAIN messages',
                        i < j, messages'[b] = finished'[n][j]
                 PROVE  \E a \in 1 .. b - 1 : messages'[a] = finished'[n][i]
      BY DEF NoHoleInTheThread
    <3>1. CASE n = m /\ j = Len(finished[m]) + 1
      BY <1>u, <1>l, <1>q, <3>1 DEF Fresh, Has
    <3>2. CASE ~(n = m /\ j = Len(finished[m]) + 1)
      <4>1. /\ i \in DOMAIN finished[n] /\ j \in DOMAIN finished[n]
            /\ finished'[n][i] = finished[n][i] /\ finished'[n][j] = finished[n][j]
        <5>1. CASE n = m
          <6>1. /\ i \in 1 .. Len(finished[m]) + 1 /\ j \in 1 .. Len(finished[m]) + 1
                /\ j # Len(finished[m]) + 1
            BY <1>n, <1>l, <3>2, <5>1
          <6>2. i \in 1 .. Len(finished[m]) /\ j \in 1 .. Len(finished[m])
            <7> HIDE DEF q
            <7> QED BY <1>n, <6>1, LastLemma
          <6> QED BY <1>n, <1>l, <5>1, <6>2
        <5> QED BY <1>u, <1>a, <5>1
      <4> QED BY <1>u, <1>0, <4>1 DEF ThreadOK, NoHoleInTheThread
    <3> QED BY <1>u, <3>1, <3>2
  <2> QED BY <1>u, <2>2, <2>3, <2>4 DEF ThreadOK
<1> QED BY <1>u, <1>1, <1>2, <1>3, <1>4, TypeNext DEF IInv, MountsOK

\* The steps of a mount that touch only its queue and its request: what they prove of it
\* is all there is to prove.
LEMMA LoopStep ==
  ASSUME IInv, NEW m \in Mounts, Alive(m), MountOK(m)', LoopTypes',
         UNCHANGED <<server, session, browser, phase, chatVars, faults, lost, behind>>,
         \A n \in Mounts \ {m} :
           /\ queue'[n] = queue[n] /\ flushing'[n] = flushing[n]
           /\ unsaved'[n] = unsaved[n] /\ requests'[n] = requests[n],
         Loaded(m)' => Loaded(m) /\ Req(m)' = Req(m)
  PROVE  IInv'
<1> USE DEF server, browser, chatVars
<1>0. ServerTypes /\ LoopTypes /\ PageTypes /\ AskedOnce /\ MountsOK /\ ThreadOK
  BY TypeLemma DEF IInv
<1>1. ServerTypes' /\ PageTypes'
  BY <1>0 DEF ServerTypes, PageTypes
<1>b. \A p : Has(p)' <=> Has(p)
  BY DEF Has
<1>2. ASSUME NEW n \in Mounts PROVE MountOK(n)'
  <2>1. CASE n # m
    <3>1. MountOK(n)
      BY <1>0 DEF MountsOK
    <3> QED BY <1>0, <1>b, <2>1, <3>1, MountKept DEF Alive
  <2> QED BY <2>1
<1>3. AskedOnce'
  BY <1>0, <1>b, AskedKept DEF AskedOnce, AllClosed
<1>4. ThreadOK'
  <2>1. ASSUME NEW n \in Mounts PROVE Loaded(n)' => Loaded(n) /\ Req(n)' = Req(n)
    BY DEF Loaded, Req, Busy
  <2>2. AllClosed' => AllClosed
    BY DEF AllClosed
  <2> QED BY <1>0, <2>1, <2>2, ThreadKept
<1> QED BY <1>1, <1>2, <1>3, <1>4, TypeNext DEF IInv, MountsOK

LEMMA StepRetrySave == ASSUME IInv, NEW m \in Mounts, RetrySave(m) PROVE IInv'
<1>u. /\ phase[m] = "open" /\ ~flushing[m] /\ Flush(m, queue[m])
      /\ \E q \in Questions : unsaved[m][q] = "network"
      /\ UNCHANGED <<server, session, browser, phase, chatVars, queue, unsaved,
                     faults, lost, behind>>
      /\ finished' = finished /\ exists' = exists /\ messages' = messages
  BY DEF RetrySave, server, chatVars
<1>0. LoopTypes /\ MountOK(m)
  BY TypeLemma DEF IInv, MountsOK
<1>m. DeadOK(m) /\ LoopOK(m) /\ CutOK(m) /\ ResendOK(m) /\ Alive(m) /\ Alive(m)'
  BY <1>0, <1>u DEF MountOK, Alive
<1>s. /\ queue[m] \in Seq(Questions) /\ Len(requests[m]) \in Nat
      /\ (queue[m] = <<>>) <=> (Len(queue[m]) = 0)
  BY <1>0, EmptyLemma DEF LoopTypes
<1>1. Waits(m) /\ ~Busy(m) /\ Len(requests[m]) = 0 /\ queue[m] # <<>>
  <2>1. Waits(m) /\ ~Busy(m)
    BY <1>u, <1>m DEF LoopOK
  <2> QED BY <1>s, <2>1 DEF Waits, Busy
<1>2. flushing' = [flushing EXCEPT ![m] = TRUE] /\ SendHead(m, queue[m])
  BY <1>u, <1>1 DEF Flush
<1>3. /\ requests' \in [Mounts -> Seq(Request)] /\ Len(requests'[m]) = 1
      /\ requests'[m][1].turn = queue[m][1] /\ requests'[m][1].at = "sent"
      /\ \A n \in Mounts \ {m} : requests'[n] = requests[n]
  BY <1>0, <1>s, <1>1, <1>2, SendLemma DEF Waits
<1>4. LoopTypes' /\ flushing'[m] = TRUE
  BY <1>0, <1>u, <1>2, <1>3 DEF LoopTypes
<1>r. Busy(m)' /\ Waits(m)' /\ Req(m).turn' = queue[m][1] /\ Req(m).at' = "sent"
  BY <1>u, <1>1, <1>3 DEF Busy, Waits, Req
<1>b. \A p : Has(p)' <=> Has(p)
  BY <1>u DEF Has
<1>5. MountOK(m)'
  <2>1. DeadOK(m)'
    BY <1>u DEF DeadOK
  <2>2. LoopOK(m)'
    BY <1>u, <1>m, <1>3, <1>4, <1>r DEF LoopOK, Waits
  <2>3. PICK k \in 0 .. Len(finished[m]) : Cut(m, k)
    BY <1>m DEF CutOK
  <2>4. k < Len(finished[m]) /\ queue[m][1] = finished[m][k + 1]
    <3>1. /\ Len(queue[m]) = Len(finished[m]) - k
          /\ \A i \in 1 .. Len(queue[m]) : queue[m][i] = finished[m][k + i]
      BY <1>s, <1>m, <2>3 DEF Cut
    <3>2. Len(finished[m]) \in Nat /\ k \in Nat /\ Len(queue[m]) \in Nat /\ Len(queue[m]) > 0
      BY <1>0, <1>1, <1>s, EmptyLemma DEF LoopTypes, Waits
    <3> QED BY <3>1, <3>2
  <2>5. Cut(m, k)'
    BY <1>u, <1>b, <1>r, <2>3, <2>4, <1>m DEF Cut
  <2>6. CutOK(m)'
    BY <1>u, <2>5 DEF CutOK
  <2>7. ResendOK(m)'
    BY <1>u, <1>m, <1>1, <1>b, <1>r DEF ResendOK
  <2> QED BY <2>1, <2>2, <2>6, <2>7 DEF MountOK
<1>6. /\ \A n \in Mounts \ {m} : /\ queue'[n] = queue[n] /\ flushing'[n] = flushing[n]
                                 /\ unsaved'[n] = unsaved[n] /\ requests'[n] = requests[n]
      /\ ~Loaded(m)'
  BY <1>0, <1>u, <1>2, <1>3, <1>r DEF LoopTypes, Loaded
<1> QED BY <1>u, <1>m, <1>4, <1>5, <1>6, LoopStep

LEMMA StepSettleFailed ==
  ASSUME IInv, NEW m \in Mounts, Settle(m), NEW i \in DOMAIN requests[m], SettleFailed(m, i)
  PROVE  IInv'
<1>u. /\ Alive(m) /\ queue' = queue
      /\ UNCHANGED <<server, session, browser, phase, chatVars, faults, lost, behind>>
      /\ finished' = finished /\ exists' = exists /\ messages' = messages
  BY DEF Settle, SettleFailed, server, chatVars
<1>0. LoopTypes /\ MountOK(m)
  BY TypeLemma DEF IInv, MountsOK
<1>m. DeadOK(m) /\ LoopOK(m) /\ CutOK(m) /\ ResendOK(m) /\ Alive(m)'
  BY <1>0, <1>u DEF MountOK, Alive
<1>s. queue[m] \in Seq(Questions) /\ requests[m] \in Seq(Request)
  BY <1>0 DEF LoopTypes
<1>1. i = 1 /\ Len(requests[m]) = 1 /\ Req(m) \in Request /\ Busy(m) /\ requests[m][i] = Req(m)
  BY <1>m, <1>0, OneRequest
<1>2. Waits(m) /\ Req(m).turn = queue[m][1] /\ queue[m][1] \in Questions
  BY <1>m, <1>u, <1>1, <1>s DEF LoopOK, Waits
<1>3. /\ Req(m).at = "failed"
      /\ unsaved' = [unsaved EXCEPT ![m] =
                       [unsaved[m] EXCEPT ![queue[m][1]] = Req(m).reason]]
      /\ flushing' = [flushing EXCEPT ![m] = FALSE]
      /\ requests' = [requests EXCEPT ![m] = <<>>]
      /\ Req(m).reason \in Reasons
  <2>1. RemoveAt(requests[m], i) = <<>>
    BY <1>1, <1>s, RemoveLemma
  <2>2. Req(m).reason \in Reasons
    BY <1>1 DEF Request
  <2> QED BY <1>1, <1>2, <2>1, <2>2 DEF SettleFailed
<1>4. LoopTypes'
  <2>1. <<>> \in Seq(Request)
    OBVIOUS
  <2>2. requests' \in [Mounts -> Seq(Request)] /\ flushing' \in [Mounts -> BOOLEAN]
    BY <1>0, <1>3, <2>1 DEF LoopTypes
  <2>3. unsaved' \in [Mounts -> [Questions -> Reasons \cup {"none"}]]
    BY <1>0, <1>2, <1>3 DEF LoopTypes
  <2> QED BY <1>0, <1>u, <2>2, <2>3 DEF LoopTypes
<1>5. /\ Len(requests'[m]) = 0 /\ flushing'[m] = FALSE
      /\ unsaved'[m][queue[m][1]] \in Reasons
      /\ \A q \in Questions : q # queue[m][1] => unsaved'[m][q] = unsaved[m][q]
      /\ \A n \in Mounts \ {m} : /\ queue'[n] = queue[n] /\ flushing'[n] = flushing[n]
                                 /\ unsaved'[n] = unsaved[n] /\ requests'[n] = requests[n]
  BY <1>0, <1>2, <1>3, <1>u DEF LoopTypes
<1>b. \A p : Has(p)' <=> Has(p)
  BY <1>u DEF Has
<1>r. ~Busy(m)' /\ Waits(m)'
  BY <1>u, <1>2, <1>5 DEF Busy, Waits
<1>6. MountOK(m)'
  <2>1. DeadOK(m)'
    BY <1>u, <1>m DEF DeadOK, Alive
  <2>2. LoopOK(m)'
    <3>1. unsaved'[m][queue[m][1]] # "none"
      BY <1>5 DEF Reasons
    <3>2. \A q \in Questions : unsaved'[m][q] # "none" => q = queue[m][1]
      BY <1>5, <1>m DEF LoopOK
    <3> QED BY <1>u, <1>5, <1>r, <3>1, <3>2 DEF LoopOK
  <2>3. PICK k \in 0 .. Len(finished[m]) : Cut(m, k)
    BY <1>m DEF CutOK
  <2>5. Cut(m, k)'
    BY <1>u, <1>b, <1>r, <2>3, <1>m DEF Cut
  <2>6. CutOK(m)'
    BY <1>u, <2>5 DEF CutOK
  <2>7. ResendOK(m)'
    <3>1. Has(queue[m][1]) => queue[m][1] \in lost
      BY <1>m, <1>1, <1>2, <1>3 DEF ResendOK
    <3>2. lost' = lost
      BY <1>u
    <3> QED BY <1>u, <1>b, <1>r, <3>1, <3>2 DEF ResendOK
  <2> QED BY <2>1, <2>2, <2>6, <2>7 DEF MountOK
<1>7. ~Loaded(m)'
  BY <1>r DEF Loaded
<1> QED BY <1>u, <1>m, <1>4, <1>5, <1>6, <1>7, LoopStep

LEMMA TailLemma ==
  ASSUME NEW S, NEW s \in Seq(S), Len(s) > 0
  PROVE  /\ Tail(s) \in Seq(S) /\ Len(Tail(s)) \in Nat /\ Len(s) \in Nat
         /\ Len(Tail(s)) = Len(s) - 1
         /\ \A i \in 1 .. Len(Tail(s)) : Tail(s)[i] = s[i + 1]
         /\ Len(Tail(s)) > 0 => Tail(s)[1] = s[2] /\ Tail(s)[1] \in S /\ Head(Tail(s)) = Tail(s)[1]
<1>1. Tail(s) \in Seq(S) /\ Len(s) \in Nat /\ Len(Tail(s)) = Len(s) - 1
  OBVIOUS
<1>2. \A i \in 1 .. Len(Tail(s)) : Tail(s)[i] = s[i + 1]
  BY <1>1
<1>3. Len(Tail(s)) > 0 => Tail(s)[1] \in S /\ Head(Tail(s)) = Tail(s)[1]
  BY <1>1
<1> QED BY <1>1, <1>2, <1>3

LEMMA StepSettleStored ==
  ASSUME IInv, NEW m \in Mounts, Settle(m), NEW i \in DOMAIN requests[m], SettleStored(m, i)
  PROVE  IInv'
<1> DEFINE rest == Tail(queue[m])
<1>u. /\ Alive(m)
      /\ UNCHANGED <<server, session, browser, phase, chatVars, faults, lost, behind>>
      /\ finished' = finished /\ exists' = exists /\ messages' = messages
  BY DEF Settle, server, chatVars
<1>0. LoopTypes /\ MountOK(m)
  BY TypeLemma DEF IInv, MountsOK
<1>m. DeadOK(m) /\ LoopOK(m) /\ CutOK(m) /\ ResendOK(m) /\ Alive(m)'
  BY <1>0, <1>u DEF MountOK, Alive
<1>s. queue[m] \in Seq(Questions) /\ requests[m] \in Seq(Request)
  BY <1>0 DEF LoopTypes
<1>1. i = 1 /\ Len(requests[m]) = 1 /\ Req(m) \in Request /\ Busy(m) /\ requests[m][i] = Req(m)
  BY <1>m, <1>0, OneRequest
<1>2. Waits(m) /\ Len(queue[m]) > 0 /\ Req(m).turn = queue[m][1] /\ queue[m][1] \in Questions
  BY <1>m, <1>u, <1>1, <1>s DEF LoopOK, Waits
<1>t. /\ rest \in Seq(Questions) /\ Len(rest) \in Nat /\ Len(queue[m]) \in Nat
      /\ Len(rest) = Len(queue[m]) - 1
      /\ \A j \in 1 .. Len(rest) : rest[j] = queue[m][j + 1]
      /\ Len(rest) > 0 => rest[1] = queue[m][2] /\ rest[1] \in Questions /\ Head(rest) = rest[1]
      /\ (rest = <<>>) <=> (Len(rest) = 0)
      /\ DOMAIN rest = 1 .. Len(rest)
  BY <1>s, <1>2, TailLemma, EmptyLemma
<1>3. /\ Req(m).at = "stored"
      /\ queue' = [queue EXCEPT ![m] = rest]
      /\ unsaved' = [unsaved EXCEPT ![m] = [unsaved[m] EXCEPT ![queue[m][1]] = "none"]]
      /\ flushing' = [flushing EXCEPT ![m] = rest # <<>>]
      /\ requests' = [requests EXCEPT ![m] = IF rest = <<>> THEN <<>>
                                            ELSE Append(<<>>, Post(Head(rest)))]
  <2>1. RemoveAt(requests[m], i) = <<>>
    BY <1>1, <1>s, RemoveLemma
  <2> QED BY <1>1, <1>2, <2>1 DEF SettleStored
<1>p. rest # <<>> =>
        /\ Append(<<>>, Post(Head(rest))) \in Seq(Request)
        /\ Len(Append(<<>>, Post(Head(rest)))) = 1
        /\ Append(<<>>, Post(Head(rest)))[1].turn = rest[1]
        /\ Append(<<>>, Post(Head(rest)))[1].at = "sent"
  <2> SUFFICES ASSUME rest # <<>>
               PROVE  /\ Append(<<>>, Post(Head(rest))) \in Seq(Request)
                      /\ Len(Append(<<>>, Post(Head(rest)))) = 1
                      /\ Append(<<>>, Post(Head(rest)))[1].turn = rest[1]
                      /\ Append(<<>>, Post(Head(rest)))[1].at = "sent"
    OBVIOUS
  <2>1. Len(rest) > 0
    BY <1>t
  <2>2. Head(rest) = rest[1] /\ Head(rest) \in Questions
    BY <1>t, <2>1
  <2> HIDE DEF rest
  <2> QED BY <2>2, PostLemma
<1> HIDE DEF rest
<1>4. LoopTypes'
  <2>1. <<>> \in Seq(Request)
    OBVIOUS
  <2>2. requests' \in [Mounts -> Seq(Request)] /\ flushing' \in [Mounts -> BOOLEAN]
    BY <1>0, <1>3, <1>p, <2>1 DEF LoopTypes
  <2>3. unsaved' \in [Mounts -> [Questions -> Reasons \cup {"none"}]]
    BY <1>0, <1>2, <1>3 DEF LoopTypes
  <2>4. queue' \in [Mounts -> Seq(Questions)]
    BY <1>0, <1>3, <1>t DEF LoopTypes
  <2> QED BY <1>0, <1>u, <2>2, <2>3, <2>4 DEF LoopTypes
<1>5. /\ queue'[m] = rest
      /\ unsaved'[m][queue[m][1]] = "none"
      /\ \A q \in Questions : q # queue[m][1] => unsaved'[m][q] = unsaved[m][q]
      /\ \A n \in Mounts \ {m} : /\ queue'[n] = queue[n] /\ flushing'[n] = flushing[n]
                                 /\ unsaved'[n] = unsaved[n] /\ requests'[n] = requests[n]
  BY <1>0, <1>2, <1>3, <1>u DEF LoopTypes
<1>n. \A q \in Questions : unsaved'[m][q] = "none"
  BY <1>5, <1>m DEF LoopOK
<1>b. \A p : Has(p)' <=> Has(p)
  BY <1>u DEF Has
<1>f. /\ rest = <<>> => flushing'[m] = FALSE
      /\ rest # <<>> => flushing'[m] = TRUE
  <2>0. flushing \in [Mounts -> BOOLEAN]
    BY <1>0 DEF LoopTypes
  <2>1. CASE rest = <<>>
    <3>1. flushing' = [flushing EXCEPT ![m] = FALSE]
      BY <1>3, <2>1, Zenon
    <3> QED BY <2>0, <2>1, <3>1
  <2>2. CASE rest # <<>>
    <3>1. (rest # <<>>) = TRUE
      BY <2>2, Zenon
    <3>2. flushing' = [flushing EXCEPT ![m] = TRUE]
      BY <1>3, <3>1, Zenon
    <3> QED BY <2>0, <2>2, <3>2
  <2> QED BY <2>1, <2>2
<1>r. /\ rest = <<>> => ~Busy(m)' /\ ~Waits(m)' /\ Len(requests'[m]) = 0 /\ ~flushing'[m]
      /\ rest # <<>> => /\ Busy(m)' /\ Waits(m)' /\ Len(requests'[m]) <= 1 /\ flushing'[m]
                        /\ Req(m).turn' = rest[1] /\ Req(m).at' = "sent"
  <2>1. requests'[m] = IF rest = <<>> THEN <<>> ELSE Append(<<>>, Post(Head(rest)))
    BY <1>0, <1>3 DEF LoopTypes
  <2>2. CASE rest = <<>>
    BY <1>5, <1>f, <2>1, <2>2 DEF Busy, Waits
  <2>3. CASE rest # <<>>
    <3>1. Len(rest) > 0
      BY <1>t, <2>3
    <3>2. requests'[m] = Append(<<>>, Post(Head(rest)))
      BY <2>1, <2>3
    <3> QED BY <1>5, <1>f, <1>p, <2>3, <3>1, <3>2 DEF Busy, Waits, Req
  <2> QED BY <2>2, <2>3
<1>6. MountOK(m)'
  <2>1. DeadOK(m)'
    BY <1>u, <1>m DEF DeadOK, Alive
  <2>2. LoopOK(m)'
    <3>1. CASE rest = <<>>
      BY <1>5, <1>n, <1>r, <3>1 DEF LoopOK
    <3>2. CASE rest # <<>>
      <4>1. Req(m).turn' = queue'[m][1]
        BY <1>5, <1>r, <3>2
      <4>2. Len(requests'[m]) <= 1 /\ flushing'[m] /\ Busy(m)' /\ Waits(m)'
        BY <1>r, <3>2
      <4> QED BY <1>n, <4>1, <4>2 DEF LoopOK
    <3> QED BY <3>1, <3>2
  <2>3. PICK k \in 0 .. Len(finished[m]) : Cut(m, k)
    BY <1>m DEF CutOK
  <2>c. /\ Len(queue[m]) = Len(finished[m]) - k
        /\ \A j \in 1 .. Len(queue[m]) : queue[m][j] = finished[m][k + j]
        /\ exists => \A j \in 1 .. k : Has(finished[m][j])
        /\ \A j \in 1 .. Len(finished[m]) : Has(finished[m][j]) => j <= k + 1
        /\ k < Len(finished[m]) /\ Req(m).turn = finished[m][k + 1]
        /\ k \in Nat /\ Len(finished[m]) \in Nat
        /\ DOMAIN finished[m] = 1 .. Len(finished[m])
    <3>1. DOMAIN finished[m] = 1 .. Len(finished[m]) /\ Len(finished[m]) \in Nat
      BY <1>0, EmptyLemma DEF LoopTypes
    <3>2. DOMAIN queue[m] = 1 .. Len(queue[m])
      BY <1>s, EmptyLemma
    <3>3. k \in Nat
      BY <3>1
    <3>4. /\ Len(queue[m]) = Len(finished[m]) - k
          /\ \A j \in DOMAIN queue[m] : queue[m][j] = finished[m][k + j]
          /\ k < Len(finished[m]) /\ Req(m).turn = finished[m][k + 1]
      BY <1>1, <1>u, <2>3 DEF Cut
    <3>5. /\ exists => \A j \in 1 .. k : Has(finished[m][j])
          /\ \A j \in DOMAIN finished[m] : Has(finished[m][j]) => j <= k + 1
      BY <2>3 DEF Cut
    <3> QED BY <3>1, <3>2, <3>3, <3>4, <3>5
  <2>d. \A j \in 1 .. Len(rest) : rest[j] = finished[m][(k + 1) + j]
    <3> SUFFICES ASSUME NEW j \in 1 .. Len(rest) PROVE rest[j] = finished[m][(k + 1) + j]
      OBVIOUS
    <3>1. j + 1 \in 1 .. Len(queue[m]) /\ k + (j + 1) = (k + 1) + j
      BY <1>t, <2>c
    <3>2. rest[j] = queue[m][j + 1] /\ queue[m][j + 1] = finished[m][k + (j + 1)]
      BY <1>t, <2>c, <3>1
    <3> QED BY <3>1, <3>2
  <2>e. rest # <<>> => k + 1 < Len(finished[m]) /\ rest[1] = finished[m][(k + 1) + 1]
    <3>1. rest # <<>> => 1 \in 1 .. Len(rest) /\ k + 1 < Len(finished[m])
      BY <1>t, <2>c
    <3> QED BY <2>d, <3>1
  <2>5. Cut(m, k + 1)'
    <3>1. Len(rest) = Len(finished[m]) - (k + 1)
      BY <1>t, <2>c
    <3>2. exists => \A j \in 1 .. k + 1 : Has(finished[m][j])
      <4> SUFFICES ASSUME exists, NEW j \in 1 .. k + 1 PROVE Has(finished[m][j])
        OBVIOUS
      <4>1. CASE j = k + 1
        BY <1>m, <1>1, <1>3, <2>c, <4>1 DEF ResendOK
      <4>2. CASE j \in 1 .. k
        BY <2>c, <4>2
      <4>3. j = k + 1 \/ j \in 1 .. k
        BY <2>c
      <4> QED BY <4>1, <4>2, <4>3
    <3>3. \A j \in 1 .. Len(finished[m]) : Has(finished[m][j]) => j <= (k + 1) + 1
      BY <2>c
    <3>4. Busy(m)' => k + 1 < Len(finished[m]) /\ Req(m).turn' = finished[m][(k + 1) + 1]
      BY <1>r, <2>e
    <3> QED BY <1>u, <1>b, <1>t, <1>5, <2>c, <2>d, <3>1, <3>2, <3>3, <3>4 DEF Cut
  <2>6. CutOK(m)'
    <3>1. k + 1 \in 0 .. Len(finished[m])
      BY <2>c
    <3> QED BY <1>u, <2>5, <3>1 DEF CutOK
  <2>7. ResendOK(m)'
    <3>1. rest # <<>> => ~Has(rest[1])
      <4>1. rest # <<>> => (k + 1) + 1 \in 1 .. Len(finished[m]) /\ ~((k + 1) + 1 <= k + 1)
        BY <2>c, <2>e
      <4> QED BY <2>c, <2>e, <4>1
    <3> QED BY <1>b, <1>r, <3>1 DEF ResendOK
  <2> QED BY <2>1, <2>2, <2>6, <2>7 DEF MountOK
<1>7. ~Loaded(m)'
  BY <1>r DEF Loaded
<1> QED BY <1>u, <1>m, <1>4, <1>5, <1>6, <1>7, LoopStep

\* A request that is on its way, or in the server, moves on without being stored.
LEMMA MoveOn ==
  ASSUME IInv, LoopTypes', NEW m \in Mounts, NEW i \in DOMAIN requests[m],
         NEW r \in Request, Moves(m, i, r), r.turn = requests[m][i].turn, r.at # "stored",
         UNCHANGED <<exists, messages, phase, asking, flushVars, finished>>,
         lost \subseteq lost', requests[m][i].at = "stored" => r.turn \in lost'
  PROVE  MountsOK'
<1> USE DEF flushVars
<1>0. LoopTypes /\ PageTypes /\ MountsOK
  BY TypeLemma DEF IInv
<1>m. DeadOK(m) /\ LoopOK(m) /\ CutOK(m) /\ ResendOK(m)
  BY <1>0 DEF MountsOK, MountOK
<1>1. /\ Busy(m) /\ requests[m][i] = Req(m) /\ Len(requests'[m]) = 1 /\ requests'[m][1] = r
      /\ \A n \in Mounts \ {m} : requests'[n] = requests[n]
      /\ i = 1 /\ Len(requests[m]) = 1
  BY <1>0, <1>m, MovesLemma, OneRequest
<1>b. \A p : Has(p)' <=> Has(p)
  BY DEF Has
<1>r. /\ Busy(m)' /\ Req(m)' = r /\ (Waits(m)' <=> Waits(m)) /\ (Alive(m)' <=> Alive(m))
      /\ r.turn = Req(m).turn
  BY <1>1 DEF Busy, Req, Waits, Alive
<1> SUFFICES ASSUME NEW n \in Mounts PROVE MountOK(n)'
  BY DEF MountsOK
<1>2. CASE n # m
  <2>1. MountOK(n)
    BY <1>0 DEF MountsOK
  <2> QED BY <1>0, <1>1, <1>b, <1>2, <2>1, MountKept DEF Alive
<1>3. CASE n = m
  <2>1. DeadOK(m)'
    <3>1. phase[m] # "closed"
      BY <1>m, <1>1 DEF DeadOK, Busy
    <3> QED BY <1>m, <3>1 DEF DeadOK, Empty
  <2>2. LoopOK(m)'
    <3>1. Len(requests'[m]) <= 1
      BY <1>1
    <3> QED BY <1>m, <1>1, <1>r, <3>1 DEF LoopOK
  <2>3. PICK k \in 0 .. Len(finished[m]) : Cut(m, k)
    BY <1>m DEF CutOK
  <2>4. Cut(m, k)'
    BY <1>b, <1>r, <1>1, <2>3 DEF Cut
  <2>5. CutOK(m)'
    BY <2>4 DEF CutOK
  <2>6. ResendOK(m)'
    BY <1>b, <1>r, <1>1, <1>m DEF ResendOK
  <2> QED BY <1>3, <2>1, <2>2, <2>5, <2>6 DEF MountOK
<1> QED BY <1>2, <1>3

LEMMA StepNetworkFails ==
  ASSUME IInv, NEW m \in Mounts, NEW i \in DOMAIN requests[m], NetworkFails(m, i)
  PROVE  IInv'
<1> DEFINE r == requests[m][i]
           f == Fails(r, "network")
<1> USE DEF server, browser, chatVars, flushVars
<1>0. ServerTypes /\ LoopTypes /\ PageTypes /\ AskedOnce /\ MountsOK /\ ThreadOK
  BY TypeLemma DEF IInv
<1>m. LoopOK(m)
  BY <1>0 DEF MountsOK, MountOK
<1>1. /\ Moves(m, i, f) /\ r.at \in {"sent", "stored"}
      /\ lost' = IF r.at = "stored" THEN lost \cup {r.turn} ELSE lost
      /\ UNCHANGED <<server, session, browser, phase, chatVars, flushVars, behind>>
  BY DEF NetworkFails
<1>2. r \in Request /\ r = Req(m)
  BY <1>0, <1>m, OneRequest
<1>3. f \in Request /\ f.turn = r.turn /\ f.at = "failed" /\ r.turn \in Questions
  BY <1>2 DEF Fails, Request, Reasons
<1> HIDE DEF f, r
<1>4. /\ requests' \in [Mounts -> Seq(Request)] /\ requests'[m][1] = f
      /\ \A n \in Mounts \ {m} : requests'[n] = requests[n]
  BY <1>0, <1>m, <1>1, <1>3, MovesLemma
<1>5. ServerTypes' /\ LoopTypes' /\ PageTypes'
  <2>1. lost' \subseteq Questions /\ lost \subseteq lost' /\ (r.at = "stored" => r.turn \in lost')
    BY <1>0, <1>1, <1>3 DEF ServerTypes
  <2>2. faults' \in 0 .. MaxFaults
    BY <1>0, BoundsAssumption DEF ServerTypes, NetworkFails
  <2> QED BY <1>0, <1>1, <1>4, <2>1, <2>2 DEF ServerTypes, LoopTypes, PageTypes
<1>6. lost \subseteq lost' /\ (r.at = "stored" => f.turn \in lost')
  BY <1>1, <1>3
<1>7. MountsOK'
  <2>1. f.at # "stored"
    BY <1>3
  <2> QED BY <1>1, <1>3, <1>5, <1>6, <2>1, MoveOn DEF r
<1>8. AskedOnce'
  <2>1. \A p : Has(p)' => Has(p)
    BY <1>1 DEF Has
  <2> QED BY <1>0, <1>1, <2>1, AskedKept DEF AskedOnce, AllClosed
<1>9. ThreadOK'
  <2>1. ASSUME NEW n \in Mounts PROVE Loaded(n)' => Loaded(n) /\ Req(n)' = Req(n)
    <3>1. CASE n = m
      BY <1>3, <1>4, <3>1 DEF Loaded, Req
    <3>2. CASE n # m
      BY <1>4, <3>2 DEF Loaded, Req, Busy
    <3> QED BY <3>1, <3>2
  <2>2. AllClosed' => AllClosed
    BY <1>1 DEF AllClosed
  <2> QED BY <1>0, <1>1, <1>6, <2>1, <2>2, ThreadKept
<1> QED BY <1>5, <1>7, <1>8, <1>9, TypeNext DEF IInv

LEMMA StepLoad ==
  ASSUME IInv, NEW m \in Mounts, NEW i \in DOMAIN requests[m], Load(m, i)
  PROVE  IInv'
<1> DEFINE r == requests[m][i]
           f == IF session \in {"signed-out", "no-workspace"} THEN Fails(r, session)
                ELSE IF session = "elsewhere" \/ ~exists THEN Fails(r, "gone")
                ELSE [r EXCEPT !.at = "loaded", !.fresh = title = NewTitle]
<1> USE DEF server, browser, chatVars, flushVars
<1>0. ServerTypes /\ LoopTypes /\ PageTypes /\ AskedOnce /\ MountsOK /\ ThreadOK
  BY TypeLemma DEF IInv
<1>m. LoopOK(m)
  BY <1>0 DEF MountsOK, MountOK
<1>1. /\ Moves(m, i, f) /\ r.at = "sent"
      /\ behind' = behind \ {m}
      /\ UNCHANGED <<server, session, browser, phase, chatVars, flushVars, faults, lost>>
  BY DEF Load
<1>2. r \in Request /\ r = Req(m)
  BY <1>0, <1>m, OneRequest
<1>3. /\ f \in Request /\ f.turn = r.turn /\ f.at \in {"failed", "loaded"}
      /\ f.at = "loaded" => exists /\ (f.fresh <=> title = NewTitle)
  <2>1. /\ Fails(r, "signed-out") \in Request /\ Fails(r, "no-workspace") \in Request
        /\ Fails(r, "gone") \in Request
    BY <1>2 DEF Fails, Request, Reasons
  <2>2. CASE session \in {"signed-out", "no-workspace"}
    BY <2>1, <2>2, <1>2 DEF Fails, Request
  <2>3. CASE session \notin {"signed-out", "no-workspace"} /\ (session = "elsewhere" \/ ~exists)
    BY <2>1, <2>3, <1>2 DEF Fails, Request
  <2>4. CASE session \notin {"signed-out", "no-workspace", "elsewhere"} /\ exists
    <3>1. f = [r EXCEPT !.at = "loaded", !.fresh = (title = NewTitle)]
      BY <2>4
    <3>2. (title = NewTitle) \in BOOLEAN
      OBVIOUS
    <3> HIDE DEF f
    <3> QED BY <1>2, <2>4, <3>1, <3>2 DEF Request
  <2> QED BY <2>2, <2>3, <2>4
<1> HIDE DEF f, r
<1>4. /\ requests' \in [Mounts -> Seq(Request)] /\ requests'[m][1] = f
      /\ \A n \in Mounts \ {m} : requests'[n] = requests[n]
  BY <1>0, <1>m, <1>1, <1>3, MovesLemma
<1>5. ServerTypes' /\ LoopTypes' /\ PageTypes'
  <2>1. behind' \subseteq Mounts
    BY <1>0, <1>1 DEF ServerTypes
  <2> QED BY <1>0, <1>1, <1>4, <2>1 DEF ServerTypes, LoopTypes, PageTypes
<1>7. MountsOK'
  <2>1. f.at # "stored" /\ r.at # "stored"
    BY <1>1, <1>3
  <2> QED BY <1>1, <1>3, <1>5, <2>1, MoveOn DEF r
<1>8. AskedOnce'
  <2>1. \A p : Has(p)' => Has(p)
    BY <1>1 DEF Has
  <2> QED BY <1>0, <1>1, <2>1, AskedKept DEF AskedOnce, AllClosed
<1>9. ThreadOK'
  <2>1. ServerOK' /\ NoHoleInTheThread' /\ StoredTwiceOnlyIfLost'
    BY <1>0, <1>1 DEF ThreadOK, ServerOK, NoHoleInTheThread, StoredTwiceOnlyIfLost, AllClosed
  <2>3. TitleIsTheOpeningQuestion'
    BY <1>0, <1>1 DEF ThreadOK, TitleIsTheOpeningQuestion
  <2>4. TitleOK'
    <3> SUFFICES ASSUME exists', NEW n \in Mounts \ behind', Loaded(n)'
                 PROVE  Req(n).fresh' <=> title' = NewTitle
      BY DEF TitleOK
    <3>1. CASE n = m
      BY <1>1, <1>3, <1>4, <3>1 DEF Loaded, Req
    <3>2. CASE n # m
      <4>1. n \in Mounts \ behind /\ Loaded(n) /\ Req(n)' = Req(n)
        BY <1>1, <1>4, <3>2 DEF Loaded, Busy, Req
      <4> QED BY <1>0, <1>1, <4>1 DEF ThreadOK, TitleOK
    <3> QED BY <3>1, <3>2
  <2> QED BY <2>1, <2>3, <2>4 DEF ThreadOK
<1> QED BY <1>5, <1>7, <1>8, <1>9, TypeNext DEF IInv

LEMMA AppendLemma ==
  ASSUME NEW S, NEW s \in Seq(S), NEW e \in S
  PROVE  /\ Append(s, e) \in Seq(S) /\ Len(s) \in Nat
         /\ Len(Append(s, e)) = Len(s) + 1 /\ Append(s, e)[Len(s) + 1] = e
         /\ \A i \in 1 .. Len(s) : Append(s, e)[i] = s[i]
         /\ DOMAIN s = 1 .. Len(s) /\ DOMAIN Append(s, e) = 1 .. Len(s) + 1
<1> QED OBVIOUS

LEMMA StepCommit ==
  ASSUME IInv, NEW m \in Mounts, NEW i \in DOMAIN requests[m], Commit(m, i)
  PROVE  IInv'
<1> DEFINE r == requests[m][i]
           L == Len(messages)
<1>0. ServerTypes /\ LoopTypes /\ PageTypes /\ AskedOnce /\ MountsOK /\ ThreadOK
  BY TypeLemma DEF IInv
<1>m. DeadOK(m) /\ LoopOK(m) /\ CutOK(m) /\ ResendOK(m)
  BY <1>0 DEF MountsOK, MountOK
<1>1. /\ r.at = "loaded"
      /\ UNCHANGED <<exists, session, browser, phase, chatVars, flushVars, faults, lost>>
      /\ finished' = finished /\ asking' = asking /\ pending' = pending /\ asked' = asked
      /\ status' = status /\ composer' = composer
  BY DEF Commit, browser, chatVars
<1>2. r \in Request /\ r = Req(m) /\ Busy(m) /\ i = 1 /\ Len(requests[m]) = 1
  BY <1>0, <1>m, OneRequest
<1>t. r.turn \in Questions /\ r.turn # 0 /\ r.fresh \in BOOLEAN
  BY <1>2, BoundsAssumption DEF Request, Questions
<1>3. ASSUME ~exists \/ m \in behind PROVE IInv'
  <2> DEFINE f == Fails(r, "network")
  <2>1. Moves(m, i, f) /\ title' = title /\ messages' = messages /\ behind' = behind
    BY <1>3 DEF Commit
  <2>2. f \in Request /\ f.turn = r.turn /\ f.at = "failed"
    BY <1>2 DEF Fails, Request, Reasons
  <2> HIDE DEF f, r
  <2>3. /\ requests' \in [Mounts -> Seq(Request)] /\ requests'[m][1] = f
        /\ \A n \in Mounts \ {m} : requests'[n] = requests[n]
    BY <1>0, <1>m, <2>1, <2>2, MovesLemma
  <2>4. ServerTypes' /\ LoopTypes' /\ PageTypes'
    BY <1>0, <1>1, <2>1, <2>3 DEF ServerTypes, LoopTypes, PageTypes, flushVars
  <2>5. MountsOK'
    <3>1. f.at # "stored" /\ r.at # "stored"
      BY <1>1, <2>2
    <3> QED BY <1>1, <2>1, <2>2, <2>4, <3>1, MoveOn DEF r
  <2>6. AskedOnce'
    <3>1. \A p : Has(p)' => Has(p)
      BY <2>1 DEF Has
    <3> QED BY <1>0, <1>1, <2>1, <3>1, AskedKept DEF AskedOnce, AllClosed
  <2>7. ThreadOK'
    <3>1. ASSUME NEW n \in Mounts PROVE Loaded(n)' => Loaded(n) /\ Req(n)' = Req(n)
      <4>1. CASE n = m
        BY <2>2, <2>3, <4>1 DEF Loaded, Req
      <4>2. CASE n # m
        BY <2>3, <4>2 DEF Loaded, Req, Busy
      <4> QED BY <4>1, <4>2
    <3>2. (AllClosed' => AllClosed) /\ UNCHANGED <<server, finished>>
      BY <1>1, <2>1 DEF AllClosed, server
    <3> QED BY <1>0, <1>1, <2>1, <3>1, <3>2, ThreadKept
  <2> QED BY <2>4, <2>5, <2>6, <2>7, TypeNext DEF IInv
<1>4. ASSUME exists, m \notin behind PROVE IInv'
  <2> DEFINE f == [r EXCEPT !.at = "stored"]
  <2>1. /\ Moves(m, i, f) /\ title' = TitleAfter(r) /\ messages' = Append(messages, r.turn)
        /\ behind' = Mounts
    BY <1>4 DEF Commit
  <2>2. f \in Request /\ f.turn = r.turn /\ f.at = "stored"
    BY <1>2 DEF Request
  <2> HIDE DEF f, r
  <2>3. /\ requests' \in [Mounts -> Seq(Request)] /\ requests'[m][1] = f
        /\ \A n \in Mounts \ {m} : requests'[n] = requests[n]
        /\ Len(requests'[m]) = 1
    BY <1>0, <1>m, <2>1, <2>2, MovesLemma
  <2>l. /\ messages' \in Seq(Questions) /\ L \in Nat
        /\ Len(messages') = L + 1 /\ messages'[L + 1] = r.turn
        /\ \A b \in 1 .. L : messages'[b] = messages[b]
        /\ DOMAIN messages = 1 .. L /\ DOMAIN messages' = 1 .. L + 1
    BY <1>0, <1>t, <2>1, AppendLemma DEF ServerTypes
  <2> HIDE DEF L
  <2>4. ServerTypes' /\ LoopTypes' /\ PageTypes'
    <3>1. title' \in 0 .. OwnTitle
      BY <1>0, <1>t, <2>1, BoundsAssumption DEF ServerTypes, TitleAfter, Questions, OwnTitle
    <3> QED BY <1>0, <1>1, <2>1, <2>3, <2>l, <3>1
            DEF ServerTypes, LoopTypes, PageTypes, browser, flushVars
  <2>q. PICK q \in Questions : q = r.turn
    BY <1>t
  <2>h. \A p : Has(p)' <=> Has(p) \/ p = q
    <3>1. ASSUME NEW p PROVE Has(p)' => Has(p) \/ p = q
      <4> SUFFICES ASSUME NEW b \in 1 .. L + 1, messages'[b] = p
                   PROVE  Has(p) \/ p = q
        BY <2>l DEF Has
      <4>1. b \in 1 .. L \/ b = L + 1
        BY <2>l
      <4> QED BY <2>l, <2>q, <4>1 DEF Has
    <3>2. ASSUME NEW p, Has(p) PROVE Has(p)'
      <4>1. PICK b \in 1 .. L : messages[b] = p
        BY <2>l, <3>2 DEF Has
      <4>2. b \in 1 .. L + 1 /\ messages'[b] = p
        BY <2>l, <4>1
      <4> QED BY <2>l, <4>2 DEF Has
    <3>3. Has(q)'
      <4>1. L + 1 \in 1 .. L + 1
        BY <2>l
      <4> QED BY <2>l, <2>q, <4>1 DEF Has
    <3> QED BY <3>1, <3>2, <3>3
  <2>5. PICK k \in 0 .. Len(finished[m]) : Cut(m, k)
    BY <1>m DEF CutOK
  <2>k. /\ k \in Nat /\ DOMAIN finished[m] = 1 .. Len(finished[m]) /\ Len(finished[m]) \in Nat
        /\ k + 1 \in 1 .. Len(finished[m]) /\ r.turn = finished[m][k + 1]
        /\ \A j \in 1 .. k : Has(finished[m][j])
        /\ \A j \in DOMAIN finished[m] : Has(finished[m][j]) => j <= k + 1
    <3>1. DOMAIN finished[m] = 1 .. Len(finished[m]) /\ Len(finished[m]) \in Nat /\ k \in Nat
      BY <1>0, EmptyLemma DEF LoopTypes
    <3>2. /\ k < Len(finished[m]) /\ r.turn = finished[m][k + 1]
          /\ \A j \in 1 .. k : Has(finished[m][j])
          /\ \A j \in DOMAIN finished[m] : Has(finished[m][j]) => j <= k + 1
      BY <1>2, <1>4, <2>5 DEF Cut
    <3> QED BY <3>1, <3>2
  <2>o. \A n \in Mounts : \A j \in DOMAIN finished[n] :
          finished[n][j] = r.turn => n = m /\ j = k + 1
    BY <1>0, <2>k DEF AskedOnce, Distinct
  <2>c. phase[m] # "closed" /\ ~AllClosed /\ ~AllClosed'
    <3>1. phase[m] # "closed"
      BY <1>m, <1>2 DEF DeadOK, Busy
    <3> QED BY <1>1, <3>1 DEF AllClosed
  <2>6. ASSUME NEW n \in Mounts PROVE MountOK(n)'
    <3>1. CASE n # m
      <4>1. MountOK(n)
        BY <1>0 DEF MountsOK
      <4>2. \A j \in DOMAIN finished[n] : Has(finished[n][j])' <=> Has(finished[n][j])
        <5>1. \A j \in DOMAIN finished[n] : finished[n][j] # r.turn
          BY <2>o, <3>1
        <5> QED BY <1>1, <2>h, <2>q, <5>1
      <4>3. /\ queue'[n] = queue[n] /\ flushing'[n] = flushing[n] /\ unsaved'[n] = unsaved[n]
            /\ requests'[n] = requests[n] /\ finished'[n] = finished[n]
            /\ phase'[n] = phase[n] /\ asking'[n] = asking[n] /\ exists' = exists
            /\ lost' = lost
        BY <1>1, <2>3, <3>1 DEF flushVars
      <4>4. Alive(n)' <=> Alive(n)
        BY <4>3 DEF Alive
      <4> QED BY <1>0, <1>4, <4>1, <4>2, <4>3, <4>4, MountKept
    <3>2. CASE n = m
      <4>r. /\ Busy(m)' /\ Req(m)' = f /\ (Waits(m)' <=> Waits(m)) /\ (Alive(m)' <=> Alive(m))
            /\ queue' = queue /\ flushing' = flushing /\ unsaved' = unsaved
        BY <1>1, <2>3 DEF Busy, Req, Waits, Alive, flushVars
      <4>1. DeadOK(m)'
        BY <1>1, <1>m, <2>c, <4>r DEF DeadOK, Empty
      <4>2. LoopOK(m)'
        <5>1. Len(requests'[m]) <= 1
          BY <2>3
        <5> QED BY <1>m, <1>2, <2>2, <4>r, <5>1 DEF LoopOK
      <4>3. Cut(m, k)'
        <5>1. \A j \in DOMAIN finished[m] : Has(finished[m][j])' => j <= k + 1
          <6> SUFFICES ASSUME NEW j \in DOMAIN finished[m],
                              Has(finished[m][j]) \/ finished[m][j] = r.turn
                       PROVE  j <= k + 1
            BY <1>1, <2>h, <2>q
          <6>1. CASE Has(finished[m][j])
            BY <2>k, <6>1
          <6>2. CASE finished[m][j] = r.turn
            <7>1. j = k + 1
              BY <2>o, <6>2
            <7> QED BY <2>k, <7>1
          <6> QED BY <6>1, <6>2
        <5>2. \A j \in 1 .. k : Has(finished[m][j])'
          BY <1>1, <2>h, <2>k
        <5>3. k < Len(finished[m]) /\ f.turn = finished[m][k + 1]
          BY <2>2, <2>k
        <5>4. Alive(m) => /\ Len(queue[m]) = Len(finished[m]) - k
                          /\ \A j \in DOMAIN queue[m] : queue[m][j] = finished[m][k + j]
          BY <2>5 DEF Cut
        <5> QED BY <1>1, <4>r, <5>1, <5>2, <5>3, <5>4 DEF Cut
      <4>4. CutOK(m)'
        BY <1>1, <4>3 DEF CutOK
      <4>5. ResendOK(m)'
        <5>1. Has(q)' /\ Req(m)'.turn = q /\ Req(m)'.at = "stored"
          BY <2>h, <2>2, <2>q, <4>r
        <5>2. Has(Req(m).turn)'
          BY <5>1 DEF Has
        <5> QED BY <4>r, <5>1, <5>2 DEF ResendOK
      <4> QED BY <3>2, <4>1, <4>2, <4>4, <4>5 DEF MountOK
    <3> QED BY <3>1, <3>2
  <2>7. AskedOnce'
    <3>1. \A p : Fresh(p) => Fresh(p)'
      <4> SUFFICES ASSUME NEW p, Fresh(p) PROVE Fresh(p)'
        OBVIOUS
      <4>1. p # r.turn
        BY <2>k DEF Fresh
      <4>2. ~Has(p)'
        BY <2>h, <2>q, <4>1 DEF Fresh
      <4> QED BY <1>1, <4>2 DEF Fresh
    <3>2. Distinct'
      BY <1>0, <1>1 DEF AskedOnce, Distinct
    <3>3. \A b \in DOMAIN messages' : messages'[b] <= asked'
      <4>1. r.turn <= asked
        BY <1>0, <2>k DEF AskedOnce
      <4> SUFFICES ASSUME NEW b \in 1 .. L + 1 PROVE messages'[b] <= asked
        BY <1>1, <2>l
      <4>2. b \in 1 .. L \/ b = L + 1
        BY <2>l
      <4> QED BY <1>0, <2>l, <4>1, <4>2 DEF AskedOnce
    <3> QED BY <1>0, <1>1, <2>c, <3>1, <3>2, <3>3 DEF AskedOnce
  <2>8. ThreadOK'
    <3>l. Loaded(m)
      BY <1>1, <1>2 DEF Loaded
    <3>1. ServerOK'
      BY <1>1, <1>4, <2>c DEF ServerOK
    <3>2. TitleOK'
      BY <2>1 DEF TitleOK
    <3>3. NoHoleInTheThread'
      <4> SUFFICES ASSUME exists', NEW n \in Mounts, NEW x \in DOMAIN finished'[n],
                          NEW y \in DOMAIN finished'[n], NEW b \in DOMAIN messages',
                          x < y, messages'[b] = finished'[n][y]
                   PROVE  \E a \in 1 .. b - 1 : messages'[a] = finished'[n][x]
        BY DEF NoHoleInTheThread
      <4>1. b \in 1 .. L \/ b = L + 1
        BY <2>l
      <4>2. CASE b \in 1 .. L
        <5>1. \E a \in 1 .. b - 1 : messages[a] = finished[n][x]
          BY <1>0, <1>1, <1>4, <2>l, <4>2 DEF ThreadOK, NoHoleInTheThread
        <5>2. \A a \in 1 .. b - 1 : a \in 1 .. L
          BY <2>l, <4>2
        <5> QED BY <1>1, <2>l, <5>1, <5>2
      <4>3. CASE b = L + 1
        <5>1. n = m /\ y = k + 1
          BY <1>1, <2>l, <2>o, <4>3
        <5>2. x \in 1 .. k
          BY <1>1, <2>k, <5>1
        <5>3. PICK a \in 1 .. L : messages[a] = finished[m][x]
          BY <2>k, <2>l, <5>2 DEF Has
        <5>4. a \in 1 .. b - 1
          BY <2>l, <4>3
        <5> QED BY <1>1, <2>l, <5>1, <5>3, <5>4
      <4> QED BY <4>1, <4>2, <4>3
    <3>4. StoredTwiceOnlyIfLost'
      <4>1. Has(r.turn) => r.turn \in lost
        BY <1>m, <1>1, <1>2 DEF ResendOK
      <4> SUFFICES ASSUME NEW x \in DOMAIN messages', NEW y \in DOMAIN messages',
                          x # y, messages'[x] = messages'[y]
                   PROVE  messages'[x] \in lost'
        BY DEF StoredTwiceOnlyIfLost
      <4>2. (x \in 1 .. L \/ x = L + 1) /\ (y \in 1 .. L \/ y = L + 1)
        BY <2>l
      <4>3. CASE x \in 1 .. L /\ y \in 1 .. L
        BY <1>0, <1>1, <2>l, <4>3 DEF ThreadOK, StoredTwiceOnlyIfLost
      <4>4. CASE x = L + 1 \/ y = L + 1
        <5>1. messages'[x] = r.turn /\ Has(r.turn)
          <6>1. messages'[x] = r.turn
            BY <2>l, <4>4
          <6>2. (x \in 1 .. L /\ messages[x] = r.turn) \/ (y \in 1 .. L /\ messages[y] = r.turn)
            BY <2>l, <4>2, <4>4, <6>1
          <6> QED BY <2>l, <6>1, <6>2 DEF Has
        <5> QED BY <1>1, <4>1, <5>1
      <4> QED BY <4>2, <4>3, <4>4
    <3>5. TitleIsTheOpeningQuestion'
      <4> SUFFICES ASSUME exists
                   PROVE  /\ messages' = <<>> => title' = NewTitle
                          /\ messages' # <<>> => title' \in {messages'[1], OwnTitle}
        BY <1>1 DEF TitleIsTheOpeningQuestion
      <4>1. messages' # <<>>
        <5>1. Len(messages') # 0
          BY <2>l
        <5> QED BY <2>l, <5>1, EmptyLemma
      <4>2. /\ messages = <<>> => title = NewTitle
            /\ messages # <<>> => title \in {messages[1], OwnTitle}
            /\ r.fresh <=> title = NewTitle
        BY <1>0, <1>2, <1>4, <3>l DEF ThreadOK, TitleIsTheOpeningQuestion, TitleOK
      <4>3. CASE messages = <<>>
        <5>1. L = 0
          BY <4>3 DEF L
        <5> QED BY <2>1, <2>l, <4>1, <4>2, <4>3, <5>1 DEF TitleAfter
      <4>4. CASE messages # <<>>
        <5>1. 1 \in 1 .. L /\ messages[1] \in Questions
          BY <1>0, <4>4 DEF ServerTypes, L
        <5>2. title # NewTitle
          BY <4>2, <4>4, <5>1, BoundsAssumption DEF Questions, OwnTitle, NewTitle
        <5>3. title' = title /\ messages'[1] = messages[1]
          BY <2>1, <2>l, <4>2, <5>1, <5>2 DEF TitleAfter
        <5> QED BY <4>1, <4>2, <4>4, <5>3
      <4> QED BY <4>3, <4>4
    <3> QED BY <3>1, <3>2, <3>3, <3>4, <3>5 DEF ThreadOK
  <2> QED BY <2>4, <2>6, <2>7, <2>8, TypeNext DEF IInv, MountsOK
<1> QED BY <1>3, <1>4

LEMMA StepRename == IInv /\ Rename => IInv'
<1> SUFFICES ASSUME IInv, Rename PROVE IInv'
  OBVIOUS
<1>0. ServerTypes /\ LoopTypes /\ PageTypes /\ AskedOnce /\ MountsOK /\ ThreadOK
  BY TypeLemma DEF IInv
<1>1. /\ exists' = exists /\ messages' = messages /\ title' = OwnTitle
      /\ messages # <<>> /\ behind' = Mounts
      /\ UNCHANGED <<session, browser, phase, chatVars, flushVars, requests, faults, lost>>
  BY DEF Rename
<1>2. ServerTypes' /\ LoopTypes' /\ PageTypes'
  <2>1. behind' \subseteq Mounts /\ title' \in 0 .. OwnTitle
    BY <1>1, BoundsAssumption DEF OwnTitle
  <2> QED BY <1>0, <1>1, <2>1 DEF ServerTypes, LoopTypes, PageTypes, browser, chatVars, flushVars
<1>3. MountsOK'
  BY <1>0, <1>1, MountsKept DEF Alive, chatVars
<1>4. AskedOnce'
  <2>1. \A p : Has(p)' => Has(p)
    BY <1>1 DEF Has
  <2> QED BY <1>0, <1>1, <2>1, AskedKept DEF AskedOnce, AllClosed, chatVars, browser
<1>5. ThreadOK'
  <2>1. ~AllClosed /\ ~AllClosed'
    <3>1. ~AllClosed
      BY <1>0, <1>1, EmptyLemma DEF ThreadOK, ServerOK, ServerTypes
    <3> QED BY <1>1, <3>1 DEF AllClosed
  <2>2. ServerOK'
    BY <1>0, <1>1, <2>1 DEF ThreadOK, ServerOK
  <2>4. TitleOK'
    BY <1>1 DEF TitleOK
  <2>5. NoHoleInTheThread' /\ StoredTwiceOnlyIfLost'
    BY <1>0, <1>1 DEF ThreadOK, NoHoleInTheThread, StoredTwiceOnlyIfLost, chatVars
  <2>6. TitleIsTheOpeningQuestion'
    BY <1>1 DEF TitleIsTheOpeningQuestion, OwnTitle
  <2> QED BY <2>2, <2>4, <2>5, <2>6 DEF ThreadOK
<1> QED BY <1>2, <1>3, <1>4, <1>5, TypeNext DEF IInv

LEMMA StepDelete == IInv /\ Delete => IInv'
<1> SUFFICES ASSUME IInv, Delete PROVE IInv'
  OBVIOUS
<1>0. ServerTypes /\ LoopTypes /\ PageTypes /\ AskedOnce /\ MountsOK /\ ThreadOK
  BY TypeLemma DEF IInv
<1>1. /\ ~exists' /\ messages' = <<>> /\ title' = title /\ messages # <<>>
      /\ UNCHANGED <<session, browser, phase, chatVars, flushVars, requests, faults, lost,
                     behind>>
  BY DEF Delete
<1>e. DOMAIN messages' = {} /\ Len(messages') = 0
  BY <1>1
<1>b. \A p : ~Has(p)'
  BY <1>e DEF Has
<1>2. ServerTypes' /\ LoopTypes' /\ PageTypes'
  <2>0. <<>> \in Seq(Questions)
    OBVIOUS
  <2>1. exists' \in BOOLEAN /\ messages' \in Seq(Questions)
    BY <1>1, <2>0 DEF Delete
  <2> QED BY <1>0, <1>1, <2>1 DEF ServerTypes, LoopTypes, PageTypes, browser, chatVars, flushVars
<1>3. MountsOK'
  <2> SUFFICES ASSUME NEW n \in Mounts PROVE MountOK(n)'
    BY DEF MountsOK
  <2>1. MountOK(n)
    BY <1>0 DEF MountsOK
  <2>2. /\ queue'[n] = queue[n] /\ flushing'[n] = flushing[n] /\ unsaved'[n] = unsaved[n]
        /\ requests'[n] = requests[n] /\ finished'[n] = finished[n]
        /\ phase'[n] = phase[n] /\ asking'[n] = asking[n] /\ lost' = lost
    BY <1>1 DEF flushVars, chatVars
  <2>3. Alive(n)' <=> Alive(n)
    BY <2>2 DEF Alive
  <2>4. \A j \in DOMAIN finished[n] : ~Has(finished[n][j])'
    BY <1>1, <1>e DEF Has
  <2> QED BY <1>0, <1>1, <2>1, <2>2, <2>3, <2>4, MountKept
<1>4. AskedOnce'
  BY <1>0, <1>1, <1>b, <1>e, AskedKept DEF AskedOnce, AllClosed, chatVars, browser
<1>5. ThreadOK'
  <2>1. ServerOK'
    <3>1. ~AllClosed
      BY <1>0, <1>1, EmptyLemma DEF ThreadOK, ServerOK, ServerTypes
    <3> QED BY <1>1, <1>e, <3>1 DEF ServerOK, AllClosed
  <2>2. TitleOK'
    BY <1>0, <1>1 DEF ThreadOK, TitleOK, Loaded, Busy, Req
  <2>3. NoHoleInTheThread' /\ StoredTwiceOnlyIfLost' /\ TitleIsTheOpeningQuestion'
    BY <1>1, <1>e DEF NoHoleInTheThread, StoredTwiceOnlyIfLost, TitleIsTheOpeningQuestion
  <2> QED BY <2>1, <2>2, <2>3 DEF ThreadOK
<1> QED BY <1>2, <1>3, <1>4, <1>5, TypeNext DEF IInv

LEMMA InitHolds == Init => IInv
<1> SUFFICES ASSUME Init PROVE IInv
  OBVIOUS
<1>i. /\ exists = FALSE /\ title = NewTitle /\ messages = <<>> /\ session = "here"
      /\ composer = 1 /\ asked = 1 /\ pending = 0 /\ MaxQuestions > 0
      /\ \A m \in Mounts : /\ phase[m] = "closed" /\ status[m] = "ready" /\ asking[m] = 0
                           /\ queue[m] = <<>> /\ flushing[m] = FALSE
                           /\ unsaved[m] = NoFlags /\ requests[m] = <<>>
                           /\ finished[m] = <<>>
  BY DEF Init
<1>1. ServerTypes /\ PageTypes /\ LoopTypes
  <2>1. NoFlags \in [Questions -> Reasons \cup {"none"}]
    BY DEF NoFlags
  <2>2. ServerTypes
    <3>1. <<>> \in Seq(Questions)
      OBVIOUS
    <3>2. title \in 0 .. OwnTitle /\ faults \in 0 .. MaxFaults
      BY BoundsAssumption DEF Init, NewTitle, OwnTitle
    <3> QED BY <3>1, <3>2 DEF Init, ServerTypes, Sessions
  <2>3. PageTypes
    BY BoundsAssumption DEF Init, PageTypes
  <2>4. LoopTypes
    BY <2>1 DEF Init, LoopTypes
  <2> QED BY <2>2, <2>3, <2>4
<1>e. /\ \A p : ~Has(p)
      /\ \A m \in Mounts : /\ ~Busy(m) /\ ~Waits(m) /\ ~Alive(m) /\ Len(finished[m]) = 0
                           /\ DOMAIN finished[m] = {} /\ Len(requests[m]) <= 1
                           /\ Len(requests[m]) = 0 /\ Len(queue[m]) = 0
                           /\ DOMAIN queue[m] = {}
      /\ Len(messages) = 0 /\ DOMAIN messages = {}
  BY <1>i DEF Has, Busy, Waits, Alive
<1>2. MountsOK
  <2> SUFFICES ASSUME NEW m \in Mounts PROVE MountOK(m)
    BY DEF MountsOK
  <2>1. DeadOK(m)
    BY <1>i, <1>e DEF DeadOK, Empty
  <2>2. LoopOK(m)
    BY <1>i, <1>e DEF LoopOK, NoFlags
  <2>3. Cut(m, 0)
    BY <1>e DEF Cut
  <2>4. CutOK(m)
    BY <1>e, <2>3 DEF CutOK
  <2>5. ResendOK(m)
    BY <1>e DEF ResendOK
  <2> QED BY <2>1, <2>2, <2>4, <2>5 DEF MountOK
<1>3. AskedOnce
  <2>1. Distinct
    BY <1>e DEF Distinct
  <2> QED BY <1>i, <1>e, <2>1 DEF AskedOnce
<1>4. ThreadOK
  <2>1. ServerOK /\ TitleOK
    BY <1>i, <1>e DEF ServerOK, TitleOK, Loaded
  <2>2. NoHoleInTheThread /\ StoredTwiceOnlyIfLost /\ TitleIsTheOpeningQuestion
    BY <1>i, <1>e DEF NoHoleInTheThread, StoredTwiceOnlyIfLost, TitleIsTheOpeningQuestion
  <2> QED BY <2>1, <2>2 DEF ThreadOK
<1> QED BY <1>1, <1>2, <1>3, <1>4, TypeLemma DEF IInv

LEMMA StutterKeeps == IInv /\ UNCHANGED vars => IInv'
<1> SUFFICES ASSUME IInv, UNCHANGED vars PROVE IInv'
  OBVIOUS
<1> USE DEF vars, server, browser, chatVars, flushVars
<1>0. ServerTypes /\ LoopTypes /\ PageTypes /\ AskedOnce
  BY TypeLemma DEF IInv
<1>1. ServerTypes' /\ LoopTypes' /\ PageTypes'
  BY <1>0 DEF ServerTypes, LoopTypes, PageTypes
<1>2. MountsOK' /\ ThreadOK'
  BY PageStep DEF Alive
<1>3. AskedOnce'
  BY <1>0, AskedKept DEF AskedOnce, Has, AllClosed
<1> QED BY <1>1, <1>2, <1>3, TypeNext DEF IInv

LEMMA StepHolds == IInv /\ [Next]_vars => IInv'
<1> SUFFICES ASSUME IInv, [Next]_vars PROVE IInv'
  OBVIOUS
<1>1. CASE Create \/ Rename \/ Delete \/ SessionChanges
  BY <1>1, StepCreate, StepRename, StepDelete, StepSession
<1>2. ASSUME NEW m \in Mounts,
             Open(m) \/ Ask(m) \/ Regenerate(m) \/ Leave(m) \/ StartNew(m) \/ Reload(m)
      PROVE  IInv'
  BY <1>2, StepOpen, StepAsk, StepRegenerate, StepLeave, StepReload
<1>3. ASSUME NEW m \in Mounts, Answer(m) \/ NoAnswer(m) \/ RetrySave(m)
      PROVE  IInv'
  BY <1>3, StepAnswer, StepNoAnswer, StepRetrySave
<1>4. ASSUME NEW m \in Mounts, Settle(m) PROVE IInv'
  <2>1. PICK i \in DOMAIN requests[m] : SettleStored(m, i) \/ SettleFailed(m, i)
    BY <1>4 DEF Settle
  <2> QED BY <1>4, <2>1, StepSettleStored, StepSettleFailed
<1>5. ASSUME NEW m \in Mounts, Serve(m) PROVE IInv'
  <2>1. PICK i \in DOMAIN requests[m] : Load(m, i) \/ Commit(m, i)
    BY <1>5 DEF Serve
  <2> QED BY <2>1, StepLoad, StepCommit
<1>6. ASSUME NEW m \in Mounts, NEW i \in DOMAIN requests[m], NetworkFails(m, i) PROVE IInv'
  BY <1>6, StepNetworkFails
<1>7. CASE UNCHANGED vars
  BY <1>7, StutterKeeps
<1> QED BY <1>1, <1>2, <1>3, <1>4, <1>5, <1>6, <1>7 DEF Next

LEMMA Invariance == Spec => []IInv
<1> QED BY InitHolds, StepHolds, PTL DEF Spec

\* Every variable stays within its type.
THEOREM ChatTyped == Spec => []TypeOK
<1>1. IInv => TypeOK
  BY DEF IInv
<1> QED BY <1>1, Invariance, PTL

\* However the pages, the requests and the faults interleave, the stored thread has no
\* hole and is in order (use-copilot-chat.ts, the queue and its loop).
THEOREM ThreadHasNoHole == Spec => []NoHoleInTheThread
<1>1. IInv => NoHoleInTheThread
  BY DEF IInv, ThreadOK
<1> QED BY <1>1, Invariance, PTL

\* A turn is stored twice only after the answer to its first append was lost.
THEOREM RepeatsAreLost == Spec => []StoredTwiceOnlyIfLost
<1>1. IInv => StoredTwiceOnlyIfLost
  BY DEF IInv, ThreadOK
<1> QED BY <1>1, Invariance, PTL

\* The thread is named after the turn that opens it, or by its reader, however many
\* requests have loaded the session (chat.py, append_turn).
THEOREM ThreadIsNamed == Spec => []TitleIsTheOpeningQuestion
<1>1. IInv => TitleIsTheOpeningQuestion
  BY DEF IInv, ThreadOK
<1> QED BY <1>1, Invariance, PTL

\* Nothing waits to be stored unnoticed: the loop of a mount runs, or the head of its
\* queue is flagged; and no other turn is.
THEOREM NothingWaitsUnnoticed == Spec => []WaitingTurnsAreFlagged
<1>1. IInv => WaitingTurnsAreFlagged
  <2> SUFFICES ASSUME IInv, NEW m \in Mounts
               PROVE  /\ queue[m] # <<>> /\ ~flushing[m] => unsaved[m][Head(queue[m])] # "none"
                      /\ \A q \in Questions :
                           unsaved[m][q] # "none" => queue[m] # <<>> /\ q = Head(queue[m])
    BY DEF WaitingTurnsAreFlagged
  <2>1. LoopOK(m) /\ queue[m] \in Seq(Questions)
    BY TypeLemma DEF IInv, MountsOK, MountOK, LoopTypes
  <2>2. (queue[m] # <<>> <=> Waits(m)) /\ (Waits(m) => Head(queue[m]) = queue[m][1])
    BY <2>1, EmptyLemma DEF Waits
  <2> QED BY <2>1, <2>2 DEF LoopOK
<1> QED BY <1>1, Invariance, PTL
=============================================================================
