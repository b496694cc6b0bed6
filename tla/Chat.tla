--------------------------------- MODULE Chat ---------------------------------
(***************************************************************************)
(* One copilot conversation. The agent answers in the browser; the client  *)
(* queues each finished turn and posts it to the API, which keeps the      *)
(* thread (features/agent/hooks/use-copilot-chat.ts, routers/chat.py).     *)
(*                                                                         *)
(* A mount is one life of the thread page: left by navigation, its answer  *)
(* and its queue go on unseen; reloaded, they are lost. Another mount is   *)
(* the same page opened again, in another tab or by a colleague. Questions *)
(* are numbered in the order they are asked; a turn is its question.       *)
(***************************************************************************)
EXTENDS Naturals, SequencesExt

CONSTANTS
  Mounts,
  MaxQuestions,  \* bound: questions asked in all
  MaxFaults      \* bound: lost calls and answers, sessions that expire

ASSUME BoundsAssumption == MaxQuestions \in Nat /\ MaxFaults \in Nat

VARIABLES
  exists,     \* chat_sessions has the row
  title,      \* its title: a question, or NewTitle, or OwnTitle after a rename
  messages,   \* its turns, as _TURN_ORDER lists them
  session,    \* what the reader's session yields: a token of the conversation's workspace
              \* ("here") or of another ("elsewhere"), one of none ("no-workspace"), or no
              \* token ("signed-out")
  composer,   \* the question in the composer of /agent, 0 when empty
  pending,    \* sessionStorage "kc:pending-message:<id>", 0 when absent
  phase,      \* per mount: "closed", "open", "left", "reloaded"
  status,     \* useChat's: "ready", "busy" (submitted or streaming), "error"
  asking,     \* the question it is answering, 0 when none
  queue,      \* turns waiting to be stored
  flushing,
  unsaved,    \* the turns flagged, with their reason
  requests,   \* POST /turns in flight
  asked,      \* questions so far
  faults,
  finished,   \* history: the turns a mount queued, in order
  lost,       \* history: the turns whose stored answer never reached the client
  behind      \* the mounts whose session was written since their request loaded it

server    == <<exists, title, messages>>
browser   == <<composer, pending>>
chatVars  == <<status, asking, asked, finished>>
flushVars == <<queue, flushing, unsaved>>
vars == <<server, session, browser, phase, chatVars, flushVars, requests,
          faults, lost, behind>>

Questions == 1 .. MaxQuestions
NewTitle  == 0
OwnTitle  == MaxQuestions + 1
Sessions  == {"here", "elsewhere", "no-workspace", "signed-out"}
Reasons   == {"network", "signed-out", "no-workspace", "gone"}
Request   == [turn : Questions, at : {"sent", "loaded", "stored", "failed"},
              fresh : BOOLEAN, reason : Reasons]
NoFlags   == [q \in Questions |-> "none"]

TypeOK ==
  /\ exists \in BOOLEAN /\ session \in Sessions /\ behind \subseteq Mounts
  /\ title \in 0 .. OwnTitle
  /\ messages \in Seq(Questions)
  /\ composer \in 0 .. MaxQuestions /\ pending \in 0 .. MaxQuestions
  /\ phase \in [Mounts -> {"closed", "open", "left", "reloaded"}]
  /\ status \in [Mounts -> {"ready", "busy", "error"}]
  /\ asking \in [Mounts -> 0 .. MaxQuestions]
  /\ queue \in [Mounts -> Seq(Questions)]
  /\ flushing \in [Mounts -> BOOLEAN]
  /\ unsaved \in [Mounts -> [Questions -> Reasons \cup {"none"}]]
  /\ requests \in [Mounts -> Seq(Request)]
  /\ asked \in 0 .. MaxQuestions /\ faults \in 0 .. MaxFaults
  /\ finished \in [Mounts -> Seq(Questions)]
  /\ lost \subseteq Questions

Init ==
  /\ exists = FALSE /\ title = NewTitle /\ messages = <<>>
  /\ session = "here"
  /\ MaxQuestions > 0 /\ composer = 1 /\ asked = 1 /\ pending = 0
  /\ phase = [m \in Mounts |-> "closed"]
  /\ status = [m \in Mounts |-> "ready"]
  /\ asking = [m \in Mounts |-> 0]
  /\ queue = [m \in Mounts |-> <<>>]
  /\ flushing = [m \in Mounts |-> FALSE]
  /\ unsaved = [m \in Mounts |-> NoFlags]
  /\ requests = [m \in Mounts |-> <<>>]
  /\ finished = [m \in Mounts |-> <<>>]
  /\ faults = 0 /\ lost = {} /\ behind = {}

Alive(m) == phase[m] \in {"open", "left"}

-----------------------------------------------------------------------------
(* The pages: /agent creates the conversation, /agent/[id] shows it.         *)

\* handleSubmit: the row, then the first question for the page that comes next.
Create ==
  /\ composer # 0 /\ ~exists /\ pending = 0 /\ session = "here"
  /\ \A m \in Mounts : phase[m] = "closed"
  /\ exists' = TRUE
  /\ pending' = composer
  /\ composer' = 0
  /\ UNCHANGED <<title, messages, session, phase, chatVars, flushVars, requests,
                 faults, lost, behind>>

\* The tab that created it takes the pending question and asks it; any other
\* fetches the thread.
Open(m) ==
  /\ phase[m] = "closed" /\ exists
  /\ phase' = [phase EXCEPT ![m] = "open"]
  /\ \/ /\ pending # 0
        /\ asking' = [asking EXCEPT ![m] = pending]
        /\ status' = [status EXCEPT ![m] = "busy"]
        /\ pending' = 0
     \/ session = "here" /\ UNCHANGED <<asking, status, pending>>
  /\ UNCHANGED <<server, session, composer, asked, finished, flushVars, requests,
                 faults, lost, behind>>

Ask(m) ==
  /\ phase[m] = "open" /\ status[m] # "busy" /\ asked < MaxQuestions
  /\ asked' = asked + 1
  /\ asking' = [asking EXCEPT ![m] = asked + 1]
  /\ status' = [status EXCEPT ![m] = "busy"]
  /\ UNCHANGED <<server, session, browser, phase, finished, flushVars, requests,
                 faults, lost, behind>>

\* ErrorBubble: ask the model the same question again.
Regenerate(m) ==
  /\ phase[m] = "open" /\ status[m] = "error"
  /\ status' = [status EXCEPT ![m] = "busy"]
  /\ UNCHANGED <<server, session, browser, phase, asking, asked, finished, flushVars,
                 requests, faults, lost, behind>>

Leave(m) ==
  /\ phase[m] = "open"
  /\ phase' = [phase EXCEPT ![m] = "left"]
  /\ UNCHANGED <<server, session, browser, chatVars, flushVars, requests,
                 faults, lost, behind>>

\* UnsavedTurn, "Start a new one": the question goes back to the composer.
StartNew(m) ==
  /\ phase[m] = "open"
  /\ \E q \in Questions : unsaved[m][q] = "gone" /\ composer' = q
  /\ phase' = [phase EXCEPT ![m] = "left"]
  /\ UNCHANGED <<server, session, pending, chatVars, flushVars, requests,
                 faults, lost, behind>>

\* The tab goes: what it had sent is still processed, nothing else of it is left.
Reload(m) ==
  /\ Alive(m)
  /\ phase' = [phase EXCEPT ![m] = "reloaded"]
  /\ status' = [status EXCEPT ![m] = "ready"]
  /\ asking' = [asking EXCEPT ![m] = 0]
  /\ queue' = [queue EXCEPT ![m] = <<>>]
  /\ flushing' = [flushing EXCEPT ![m] = FALSE]
  /\ unsaved' = [unsaved EXCEPT ![m] = NoFlags]
  /\ UNCHANGED <<server, session, browser, asked, finished, requests,
                 faults, lost, behind>>

-----------------------------------------------------------------------------
(* The hook: an answer that finished is queued, and the queue drained in order. *)

Post(q) == [turn |-> q, at |-> "sent", fresh |-> FALSE, reason |-> "network"]
SendHead(m, q) == requests' = [requests EXCEPT ![m] = Append(@, Post(Head(q)))]

\* Mutant: a second loop may run next to the first.
FlushAlways(m, q) == flushing' = [flushing EXCEPT ![m] = TRUE] /\ SendHead(m, q)

\* flush, up to its first await.
Flush(m, q) ==
  IF flushing[m] \/ q = <<>> THEN UNCHANGED <<flushing, requests>>
  ELSE flushing' = [flushing EXCEPT ![m] = TRUE] /\ SendHead(m, q)

\* onFinish of an answer that came through.
Answer(m) ==
  /\ Alive(m) /\ status[m] = "busy"
  /\ queue' = [queue EXCEPT ![m] = Append(@, asking[m])]
  /\ finished' = [finished EXCEPT ![m] = Append(@, asking[m])]
  /\ status' = [status EXCEPT ![m] = "ready"]
  /\ asking' = [asking EXCEPT ![m] = 0]
  /\ Flush(m, queue'[m])
  /\ UNCHANGED <<server, session, browser, phase, asked, unsaved, faults, lost, behind>>

\* onFinish of one that failed, or that relays a refusal of the API: nothing to store.
NoAnswer(m) ==
  /\ Alive(m) /\ status[m] = "busy"
  /\ \/ status' = [status EXCEPT ![m] = "error"] /\ UNCHANGED asking
     \/ status' = [status EXCEPT ![m] = "ready"] /\ asking' = [asking EXCEPT ![m] = 0]
  /\ UNCHANGED <<server, session, browser, phase, asked, finished, flushVars, requests,
                 faults, lost, behind>>

\* The button is there only next to a turn that failed for the network.
RetrySave(m) ==
  /\ phase[m] = "open"
  /\ \E q \in Questions : unsaved[m][q] = "network"
  /\ ~flushing[m]
  /\ Flush(m, queue[m])
  /\ UNCHANGED <<server, session, browser, phase, chatVars, queue, unsaved,
                 faults, lost, behind>>

\* A stored turn leaves the queue and the next one is sent, or the loop ends.
SettleStored(m, i) ==
  LET rest == Tail(queue[m])
      others == RemoveAt(requests[m], i)
  IN  /\ requests[m][i].at = "stored"
      /\ queue' = [queue EXCEPT ![m] = rest]
      /\ unsaved' = [unsaved EXCEPT ![m][requests[m][i].turn] = "none"]
      /\ flushing' = [flushing EXCEPT ![m] = rest # <<>>]
      /\ requests' = [requests EXCEPT ![m] = IF rest = <<>> THEN others
                                            ELSE Append(others, Post(Head(rest)))]

\* Mutants: the head leaves the queue all the same; it is not flagged; flushing
\* stays set when the loop breaks.
FailedIsShifted(m, i) ==
  /\ requests[m][i].at = "failed"
  /\ queue' = [queue EXCEPT ![m] = Tail(@)]
  /\ unsaved' = [unsaved EXCEPT ![m][requests[m][i].turn] = requests[m][i].reason]
  /\ flushing' = [flushing EXCEPT ![m] = FALSE]
  /\ requests' = [requests EXCEPT ![m] = RemoveAt(@, i)]
FailedIsNotFlagged(m, i) ==
  /\ requests[m][i].at = "failed"
  /\ flushing' = [flushing EXCEPT ![m] = FALSE]
  /\ requests' = [requests EXCEPT ![m] = RemoveAt(@, i)]
  /\ UNCHANGED <<queue, unsaved>>

\* A failed one is flagged where it is, and the loop breaks.
SettleFailed(m, i) ==
  /\ requests[m][i].at = "failed"
  /\ unsaved' = [unsaved EXCEPT ![m][requests[m][i].turn] = requests[m][i].reason]
  /\ flushing' = [flushing EXCEPT ![m] = FALSE]
  /\ requests' = [requests EXCEPT ![m] = RemoveAt(@, i)]
  /\ UNCHANGED queue

Settle(m) ==
  /\ Alive(m)
  /\ \E i \in DOMAIN requests[m] : SettleStored(m, i) \/ SettleFailed(m, i)
  /\ UNCHANGED <<server, session, browser, phase, chatVars, faults, lost, behind>>

-----------------------------------------------------------------------------
(* The API: append_turn loads the session, then writes and commits.          *)

Moves(m, i, r) == requests' = [requests EXCEPT ![m][i] = r]
Fails(r, why)  == [r EXCEPT !.at = "failed", !.reason = why]

Load(m, i) ==
  LET r == requests[m][i]
  IN  /\ r.at = "sent"
      /\ Moves(m, i, IF session \in {"signed-out", "no-workspace"} THEN Fails(r, session)
                     ELSE IF session = "elsewhere" \/ ~exists THEN Fails(r, "gone")
                     ELSE [r EXCEPT !.at = "loaded", !.fresh = title = NewTitle])
      /\ behind' = behind \ {m}
      /\ UNCHANGED <<server, session, browser, phase, chatVars, flushVars, faults, lost>>

\* Mutant: every turn names the session.
TitleOfEveryTurn(r) == r.turn

\* Only a session with no title of its own is named.
TitleAfter(r) == IF r.fresh THEN r.turn ELSE title

\* A session deleted since it was loaded takes no messages: the foreign key fails. One
\* that was written since does not either: the database is serializable.
Commit(m, i) ==
  LET r == requests[m][i]
  IN  /\ r.at = "loaded"
      /\ IF exists /\ m \notin behind
         THEN /\ messages' = Append(messages, r.turn)
              /\ title' = TitleAfter(r)
              /\ Moves(m, i, [r EXCEPT !.at = "stored"])
              /\ behind' = Mounts
         ELSE Moves(m, i, Fails(r, "network")) /\ UNCHANGED <<title, messages, behind>>
      /\ UNCHANGED <<exists, session, browser, phase, chatVars, flushVars,
                     faults, lost>>

\* The request never arrives, or the answer to a stored turn is lost on the way.
NetworkFails(m, i) ==
  LET r == requests[m][i]
  IN  /\ faults < MaxFaults
      /\ r.at \in {"sent", "stored"}
      /\ Moves(m, i, Fails(r, "network"))
      /\ lost' = IF r.at = "stored" THEN lost \cup {r.turn} ELSE lost
      /\ faults' = faults + 1
      /\ UNCHANGED <<server, session, browser, phase, chatVars, flushVars, behind>>

\* The menu lists only sessions that have messages.
Rename ==
  /\ exists /\ messages # <<>> /\ session = "here" /\ title # OwnTitle
  /\ title' = OwnTitle
  /\ behind' = Mounts
  /\ UNCHANGED <<exists, messages, session, browser, phase, chatVars, flushVars,
                 requests, faults, lost>>

Delete ==
  /\ exists /\ messages # <<>> /\ session = "here"
  /\ exists' = FALSE /\ messages' = <<>>
  /\ UNCHANGED <<title, session, browser, phase, chatVars, flushVars, requests,
                 faults, lost, behind>>

\* The session expires, its workspace is left or switched in another tab, and all is as it
\* was again: signed in anew, invited again, switched back.
SessionChanges ==
  /\ \/ /\ session = "here" /\ faults < MaxFaults
        /\ session' \in Sessions \ {session} /\ faults' = faults + 1
     \/ session # "here" /\ session' = "here" /\ UNCHANGED faults
  /\ UNCHANGED <<server, browser, phase, chatVars, flushVars, requests, lost, behind>>

Serve(m) == \E i \in DOMAIN requests[m] : Load(m, i) \/ Commit(m, i)

Next ==
  \/ Create \/ Rename \/ Delete \/ SessionChanges
  \/ \E m \in Mounts :
       \/ Open(m) \/ Ask(m) \/ Regenerate(m) \/ Leave(m) \/ StartNew(m) \/ Reload(m)
       \/ Answer(m) \/ NoAnswer(m) \/ RetrySave(m) \/ Settle(m) \/ Serve(m)
       \/ \E i \in DOMAIN requests[m] : NetworkFails(m, i)

\* The API and the browser's event loop make progress; a reader who sees the Retry
\* button presses it in the end, and comes back to the workspace.
Fairness ==
  /\ \A m \in Mounts : WF_vars(Serve(m)) /\ WF_vars(Settle(m)) /\ WF_vars(RetrySave(m))
  /\ WF_vars(session # "here" /\ SessionChanges)

Spec     == Init /\ [][Next]_vars
FairSpec == Spec /\ Fairness

-----------------------------------------------------------------------------
(* Properties.                                                               *)

\* The stored thread has no hole and is in order: wherever a turn of a mount is
\* stored, every turn that mount finished before it is stored earlier
\* (use-copilot-chat.ts, the queue).
NoHoleInTheThread ==
  exists =>
    \A m \in Mounts : \A i, j \in DOMAIN finished[m] : \A b \in DOMAIN messages :
      i < j /\ messages[b] = finished[m][j] =>
        \E a \in 1 .. b - 1 : messages[a] = finished[m][i]

\* A turn is stored a second time only when the answer to the first was lost.
StoredTwiceOnlyIfLost ==
  \A i, j \in DOMAIN messages :
    i # j /\ messages[i] = messages[j] => messages[i] \in lost

\* No lost wake-up: turns that wait while nothing drains them have a failed head,
\* flagged so that the reader can act on it; and nothing else is ever flagged.
WaitingTurnsAreFlagged ==
  \A m \in Mounts :
    /\ queue[m] # <<>> /\ ~flushing[m] => unsaved[m][Head(queue[m])] # "none"
    /\ \A q \in Questions :
         unsaved[m][q] # "none" => queue[m] # <<>> /\ q = Head(queue[m])

\* The thread keeps the name of the question that opened it, or the reader's own
\* (chat.py, append_turn), however many pages ask and rename at once.
TitleIsTheOpeningQuestion ==
  exists =>
    /\ messages = <<>> => title = NewTitle
    /\ messages # <<>> => title \in {messages[1], OwnTitle}


=============================================================================
