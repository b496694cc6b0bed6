------------------------------ MODULE CompileFeed ------------------------------
(***************************************************************************)
(* The activity feed of one tab (hooks/use-compile-feed.ts, compile-feed   *)
(* .tsx): an overlay built from the events of its stream, a Link, and      *)
(* below it the runs fetched from the API. Events are published on Redis   *)
(* after the row they tell of is committed (core/events.py) and reach only *)
(* a connection that is open.                                              *)
(***************************************************************************)
EXTENDS Link, Naturals, Sequences

CONSTANTS
  Runs, RunWs,   \* the compiles, and the workspace of each
  MaxAttempts    \* bound: starts of a run, which is retried only while one is left

ASSUME FeedAssumption ==
  /\ None \notin Workspaces /\ RunWs \in [Runs -> Workspaces]
  /\ MaxAttempts \in Nat

VARIABLES
  run,        \* compile_runs.status
  jobs,       \* runs to be queued, or queued with arq
  attempts,   \* how often each run was started
  worker,     \* per run: "idle", "starting" or "failing" between a commit and its event,
              \* "waiting" for the agent
  agents,     \* per run: the starts whose agent has not reported
  outbox,     \* per run: the ends agents reported and the API is about to publish
  channel,    \* events on their way to the open connection
  live,       \* overlay: runs shown as compiling
  cards,      \* overlay: the runs that completed or failed, once per kind
  fetched,    \* the runs query: the status of each
  query,      \* "idle", "asked", "answered"
  isError,    \* it failed, and the list is the one before
  answer,     \* what the API read for it
  retrying,   \* runs whose retry is committed and not answered yet
  missed      \* history: runs an end of which the page may not come to know on this visit:
              \* an event was lost, or the list was asked for before the page was entered

serverVars  == <<run, jobs, attempts, worker, agents, outbox>>
overlayVars == <<live, cards, retrying>>
queryVars   == <<fetched, query, isError, answer>>
vars == <<linkVars, serverVars, channel, overlayVars, queryVars, missed>>

Ends     == {"succeeded", "failed"}
Statuses == {"queued", "running"} \cup Ends
Kinds    == {"started"} \cup Ends
NoList   == [r \in Runs |-> "unknown"]

FeedTypeOK ==
  /\ page \in BOOLEAN /\ ws \in Workspaces \cup {None} /\ conn \in Workspaces \cup {None}
  /\ run \in [Runs -> Statuses]
  /\ jobs \subseteq Runs /\ attempts \in [Runs -> 0 .. MaxAttempts]
  /\ worker \in [Runs -> {"idle", "starting", "waiting", "failing"}]
  /\ agents \in [Runs -> SUBSET (0 .. MaxAttempts)] /\ outbox \in [Runs -> SUBSET Ends]
  /\ channel \in Seq([run : Runs, kind : Kinds])
  /\ live \subseteq Runs /\ retrying \subseteq Runs /\ missed \subseteq Runs
  /\ cards \in [Ends -> SUBSET Runs]
  /\ fetched \in [Runs -> Statuses \cup {"unknown"}]
  /\ answer \in [Runs -> Statuses \cup {"unknown"}]
  /\ query \in {"idle", "asked", "answered"} /\ isError \in BOOLEAN

Init ==
  /\ LinkInit
  /\ run = [r \in Runs |-> "queued"]
  /\ jobs = Runs /\ attempts = [r \in Runs |-> 0] /\ worker = [r \in Runs |-> "idle"]
  /\ agents = [r \in Runs |-> {}] /\ outbox = [r \in Runs |-> {}] /\ channel = <<>>
  /\ live = {} /\ cards = [k \in Ends |-> {}] /\ retrying = {}
  /\ fetched = NoList /\ answer = NoList /\ query = "idle" /\ isError = FALSE
  /\ missed = {}

-----------------------------------------------------------------------------
(* The server: worker.py and internal.py commit, then publish. CompileRun    *)
(* has the life of a run in full.                                            *)

pageVars == <<linkVars, channel, overlayVars, queryVars>>

Becomes(r, status) == run' = [run EXCEPT ![r] = status]

\* compile_item does not look at the status the run has.
StartRun(r) ==
  /\ r \in jobs /\ worker[r] = "idle"
  /\ attempts[r] < MaxAttempts
  /\ jobs' = jobs \ {r}
  /\ attempts' = [attempts EXCEPT ![r] = @ + 1]
  /\ worker' = [worker EXCEPT ![r] = "starting"]
  /\ Becomes(r, "running")
  /\ UNCHANGED <<agents, outbox, missed, pageVars>>

\* enqueue_compile fails, however late: the run has failed, and no event says so.
EnqueueFails(r) ==
  /\ r \in jobs /\ jobs' = jobs \ {r}
  /\ Becomes(r, "failed")
  /\ missed' = missed \cup {r}
  /\ UNCHANGED <<attempts, worker, agents, outbox, pageVars>>

\* apply or report_failure, of this start or of one the worker has given up on: at most one
\* of the two, whatever the run has become.
AgentReports(r) ==
  /\ \E n \in agents[r], k \in Ends :
       /\ agents' = [agents EXCEPT ![r] = @ \ {n}]
       /\ Becomes(r, k)
       /\ outbox' = [outbox EXCEPT ![r] = @ \cup {k}]
  /\ UNCHANGED <<jobs, attempts, worker, missed, pageVars>>

\* _mark_failed: on a timeout, an error, or a run that has not succeeded when the agent is
\* done with it. A failure the agent reported is marked, and published, a second time.
MarkFailed(r) ==
  /\ worker[r] = "waiting"
  /\ worker' = [worker EXCEPT ![r] = "failing"]
  /\ Becomes(r, "failed")
  /\ UNCHANGED <<jobs, attempts, agents, outbox, missed, pageVars>>

\* The agent has ended, and the run has succeeded. If it ended without a report it was an
\* earlier start that did, and nobody will tell of the end of this one.
FindsSuccess(r) ==
  /\ worker[r] = "waiting" /\ run[r] = "succeeded"
  /\ worker' = [worker EXCEPT ![r] = "idle"]
  /\ agents' = [agents EXCEPT ![r] = @ \ {attempts[r]}]
  /\ missed' = IF attempts[r] \in agents[r] THEN missed \cup {r} ELSE missed
  /\ UNCHANGED <<run, jobs, attempts, outbox, pageVars>>

WorkerEnds(r) == MarkFailed(r) \/ FindsSuccess(r)

\* The worker dies and tells nobody; its job is delivered again, or its tries are used up.
WorkerDies(r) ==
  /\ worker[r] # "idle" /\ worker' = [worker EXCEPT ![r] = "idle"]
  /\ jobs' \in {jobs, jobs \cup {r}}
  /\ missed' = missed \cup {r}
  /\ UNCHANGED <<run, attempts, agents, outbox, pageVars>>

\* publish and the filter of /api/v1/stream: to those who listen. What Redis refuses is lost
\* as well, as if the connection had been down for it.
Send(r, kind) ==
  \/ /\ conn = RunWs[r]
     /\ channel' = Append(channel, [run |-> r, kind |-> kind])
     /\ UNCHANGED missed
  \/ /\ conn # RunWs[r]
     /\ missed' = missed \cup {r} /\ UNCHANGED channel

\* The API publishes what an agent reported; the worker, before it hands the run to the
\* agent and before it is done with it.
Publish(r) ==
  /\ \/ \E k \in outbox[r] :
          /\ Send(r, k)
          /\ outbox' = [outbox EXCEPT ![r] = @ \ {k}]
          /\ UNCHANGED <<worker, agents>>
     \/ /\ worker[r] = "starting" /\ Send(r, "started")
        /\ worker' = [worker EXCEPT ![r] = "waiting"]
        /\ agents' = [agents EXCEPT ![r] = @ \cup {attempts[r]}]
        /\ UNCHANGED outbox
     \/ /\ worker[r] = "failing" /\ Send(r, "failed")
        /\ worker' = [worker EXCEPT ![r] = "idle"]
        /\ UNCHANGED <<agents, outbox>>
  /\ UNCHANGED <<linkVars, run, jobs, attempts, overlayVars, queryVars>>

-----------------------------------------------------------------------------
(* The page.                                                                 *)

Ask == query' = "asked" /\ answer' = NoList /\ UNCHANGED <<fetched, isError>>

\* invalidateQueries: the list is asked for again, and an answer on its way is dropped. The
\* very first one is waited for.
Invalidate ==
  IF fetched = NoList /\ query # "idle" THEN UNCHANGED queryVars ELSE Ask

\* Mutant: the list of the last visit is still fresh.
MountCached == missed' = {} /\ UNCHANGED queryVars

\* What is mounted asks for the list (no staleTime is set), or joins who has.
Mount ==
  IF query = "idle" THEN Ask /\ missed' = {}
  ELSE missed' = Runs /\ UNCHANGED queryVars

Started(r) ==
  /\ live' = live \cup {r}
  /\ UNCHANGED <<cards, retrying, queryVars>>

\* Mutant: a run that ended stays among those that compile.
EndedKeepsLive(r, kind) ==
  /\ cards' = [cards EXCEPT ![kind] = @ \cup {r}]
  /\ Invalidate
  /\ UNCHANGED <<live, retrying>>

Ended(r, kind) ==
  /\ live' = live \ {r}
  /\ cards' = [cards EXCEPT ![kind] = @ \cup {r}]
  /\ Invalidate
  /\ UNCHANGED retrying

\* onEvent drops what is not of the workspace it was subscribed for.
OwnEvent(e) == RunWs[e.run] = ws

OnEvent ==
  /\ channel # <<>>
  /\ channel' = Tail(channel)
  /\ LET e == Head(channel)
     IN  IF ~OwnEvent(e) THEN missed' = missed \cup {e.run} /\ UNCHANGED <<overlayVars, queryVars>>
         ELSE /\ UNCHANGED missed
              /\ IF e.kind = "started" THEN Started(e.run) ELSE Ended(e.run, e.kind)
  /\ UNCHANGED <<linkVars, serverVars>>

\* GET /api/v1/runs reads the rows; its answer is shown. When every try of it has failed
\* the list stays what it was, and an error is shown in its place.
Query ==
  /\ \/ /\ query = "asked" /\ query' = "answered"
        /\ answer' = run /\ UNCHANGED <<fetched, isError>>
     \/ /\ query = "answered" /\ query' = "idle"
        /\ fetched' = answer /\ answer' = NoList /\ isError' = FALSE
     \/ /\ query # "idle" /\ query' = "idle"
        /\ answer' = NoList /\ isError' = TRUE /\ UNCHANGED fetched
  /\ UNCHANGED <<linkVars, serverVars, channel, overlayVars, missed>>

Overlay == live \cup UNION {cards[k] : k \in Ends}
History == {r \in Runs : fetched[r] # "unknown"} \ Overlay

\* retry_run, from a row of this page's history or by somebody else. A run that is queued
\* already stays what it is; arq may ignore the job (CompileRun has when).
Retry(r) ==
  /\ attempts[r] < MaxAttempts
  /\ run[r] \in {"failed", "queued"} /\ Becomes(r, "queued")
  /\ jobs' \in {jobs, jobs \cup {r}}
  /\ \/ /\ page /\ ~isError /\ r \in History /\ fetched[r] \in {"failed", "queued"}
        /\ retrying' = retrying \cup {r}
     \/ UNCHANGED retrying
  /\ UNCHANGED <<linkVars, attempts, worker, agents, outbox, channel, missed, live, cards,
                 queryVars>>

\* The retry's answer: the cards that came in the meantime are dropped as well.
Forget(r) ==
  /\ r \in retrying /\ retrying' = retrying \ {r}
  /\ cards' = [k \in Ends |-> cards[k] \ {r}]
  /\ Invalidate
  /\ UNCHANGED <<linkVars, serverVars, channel, missed, live>>

\* What was on its way to a connection that is gone is lost; a page that is left
\* forgets its overlay and asks again when it comes back.
LinkStep ==
  /\ Enter \/ Leave \/ ReKey \/ Up \/ Down
  /\ channel' = IF conn' = conn THEN channel ELSE <<>>
  /\ IF page' THEN UNCHANGED overlayVars
     ELSE live' = {} /\ cards' = [k \in Ends |-> {}] /\ retrying' = {}
  /\ IF Enter THEN Mount
     ELSE /\ UNCHANGED queryVars
          /\ missed' = IF conn' = conn THEN missed
                       ELSE missed \cup {channel[i].run : i \in DOMAIN channel}
  /\ UNCHANGED serverVars

Next ==
  \/ LinkStep \/ OnEvent \/ Query
  \/ \E r \in Runs : \/ StartRun(r) \/ EnqueueFails(r) \/ AgentReports(r) \/ WorkerEnds(r)
                     \/ WorkerDies(r) \/ Publish(r) \/ Retry(r) \/ Forget(r)

Spec == Init /\ [][Next]_vars

\* The worker ends (its timeouts; SlotIsFreed of CompileRun), Redis and the browser deliver.
\* The agent owes nothing.
FairSpec ==
  /\ Spec /\ WF_vars(OnEvent)
  /\ \A r \in Runs : WF_vars(WorkerEnds(r)) /\ WF_vars(Publish(r))

-----------------------------------------------------------------------------
(* Properties.                                                               *)

\* The end of a run has been told: nobody is at it, and nothing of it is on its way.
Told(r) ==
  /\ run[r] \in Ends /\ worker[r] = "idle" /\ outbox[r] = {}
  /\ \A i \in DOMAIN channel : channel[i].run # r

\* A reader with the list in hand does not see a run compile that has ended, and the page
\* knows the end it came to, by a card or by its row: unless an event was lost on this visit,
\* or the visit found an older request for the list under way. Ends come twice and late, from
\* agents that were given up on; an answer that was overtaken is dropped, and the cards a
\* retry's answer drops come back as rows.
EndIsShown ==
  page /\ query = "idle" /\ ~isError =>
    \A r \in Runs \ missed :
      Told(r) /\ RunWs[r] = ws => /\ r \notin live
                                  /\ r \in cards[run[r]] \/ fetched[r] = run[r]

\* A run shown as compiling leaves the overlay once its worker is done with it, unless an
\* event of it was lost: whatever workspace the page has turned to in between.
LiveRunEnds ==
  \A r \in Runs : r \in live ~> r \notin live \/ r \in missed

=============================================================================
