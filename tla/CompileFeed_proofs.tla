--------------------------- MODULE CompileFeed_proofs ---------------------------
(***************************************************************************)
(* What the activity feed guarantees for any number of runs, workspaces,   *)
(* starts, retries and lost events.                                        *)
(***************************************************************************)
EXTENDS CompileFeed, TLAPS

Events == [run : Runs, kind : Kinds]
IsEnd(e, r)   == e.run = r /\ e.kind # "started"
IsStart(e, r) == e.run = r /\ e.kind = "started"

\* The types, in the groups that change together.
LinkTypes ==
  page \in BOOLEAN /\ ws \in Workspaces \cup {None} /\ conn \in Workspaces \cup {None}
ServerTypes ==
  /\ run \in [Runs -> Statuses]
  /\ jobs \subseteq Runs /\ attempts \in [Runs -> 0 .. MaxAttempts]
  /\ worker \in [Runs -> {"idle", "starting", "waiting", "failing"}]
  /\ agents \in [Runs -> SUBSET (0 .. MaxAttempts)] /\ outbox \in [Runs -> SUBSET Ends]
ChannelTypes == channel \in Seq(Events) /\ missed \subseteq Runs
OverlayTypes == live \subseteq Runs /\ retrying \subseteq Runs /\ cards \in [Ends -> SUBSET Runs]
QueryTypes ==
  /\ fetched \in [Runs -> Statuses \cup {"unknown"}]
  /\ answer \in [Runs -> Statuses \cup {"unknown"}]
  /\ query \in {"idle", "asked", "answered"} /\ isError \in BOOLEAN

\* Nothing is on its way to a page that is not connected, and none is connected that was left.
AwayInv ==
  /\ conn = None => channel = <<>>
  /\ ~page => ws = None /\ conn = None /\ live = {}

\* A retry is offered on a row, so the first list has come; and a list that came has rows.
RetryInv ==
  /\ \A r \in retrying : fetched[r] # "unknown"
  /\ query = "answered" => answer \in [Runs -> Statuses]

\* The end of a run is still to come or about to be published, or an event of it was lost.
EndOwed(r) ==
  \/ worker[r] = "failing"
  \/ worker[r] = "waiting" /\ attempts[r] \in agents[r]
  \/ outbox[r] # {}
  \/ r \in missed

\* Or it is in the channel, behind its first i events.
EndToCome(r, i) ==
  \/ EndOwed(r)
  \/ \E j \in DOMAIN channel : i < j /\ IsEnd(channel[j], r)

\* A run shown as compiling is, or the page will hear that it is not, or an event of it was
\* lost: what is safety in LiveRunEnds.
LiveRunIsCompiling == \A r \in live : EndToCome(r, 0)

StartsEnd == \A r \in Runs : \A i \in DOMAIN channel : IsStart(channel[i], r) => EndToCome(r, i)

\* The list has the end a run came to, or is asked for, or could not be had.
Listed(r) ==
  \/ query = "asked"
  \/ query = "answered" /\ answer[r] = run[r]
  \/ query = "idle" /\ (isError \/ fetched[r] = run[r])

\* The end a run came to is on its way to the page, or has come to it.
EndKnown(r) ==
  \/ run[r] \notin Ends \/ r \in missed
  \/ run[r] \in outbox[r]
  \/ worker[r] = "failing" /\ run[r] = "failed"
  \/ \E j \in DOMAIN channel : channel[j].run = r /\ channel[j].kind = run[r]
  \/ r \in cards[run[r]]
  \/ Listed(r)

EndInv   == LiveRunIsCompiling /\ StartsEnd
ShownInv == page => \A r \in Runs : EndKnown(r)

Types == LinkTypes /\ ServerTypes /\ ChannelTypes /\ OverlayTypes /\ QueryTypes
IInv == Types /\ AwayInv /\ RetryInv /\ EndInv /\ ShownInv

-----------------------------------------------------------------------------
(* Types.                                                                    *)

\* What the first event of a channel is, and what is left when it is taken off.
LEMMA HeadLemma ==
  ASSUME channel \in Seq(Events), channel # <<>>
  PROVE  /\ Head(channel) \in Events /\ Head(channel) = channel[1] /\ 1 \in DOMAIN channel
         /\ Tail(channel) \in Seq(Events) /\ DOMAIN channel = 1 .. Len(channel)
         /\ Len(channel) \in Nat \ {0} /\ DOMAIN Tail(channel) = 1 .. (Len(channel) - 1)
         /\ \A i \in 1 .. (Len(channel) - 1) : Tail(channel)[i] = channel[i + 1]
<1>1. /\ Len(channel) \in Nat \ {0} /\ Head(channel) = channel[1]
      /\ DOMAIN channel = 1 .. Len(channel)
      /\ \A i \in 1 .. Len(channel) : channel[i] \in Events
  OBVIOUS
<1>2. 1 \in DOMAIN channel
  BY <1>1
<1>3. channel[1] \in Events
  BY <1>1, <1>2
<1>4. /\ Tail(channel) \in Seq(Events) /\ DOMAIN Tail(channel) = 1 .. (Len(channel) - 1)
      /\ \A i \in 1 .. (Len(channel) - 1) : Tail(channel)[i] = channel[i + 1]
  OBVIOUS
<1> QED BY <1>1, <1>2, <1>3, <1>4

LEMMA InvalidateTypes ==
  ASSUME QueryTypes, Invalidate
  PROVE  QueryTypes'
<1> QED BY DEF Invalidate, Ask, NoList, QueryTypes, queryVars

LEMMA TypeStep ==
  ASSUME Types, [Next]_vars
  PROVE  Types'
<1>0. LinkTypes /\ ServerTypes /\ ChannelTypes /\ OverlayTypes /\ QueryTypes
  BY DEF Types
<1>a. UNCHANGED <<linkVars, channel, overlayVars, queryVars>> /\ missed' \subseteq Runs
      => LinkTypes' /\ ChannelTypes' /\ OverlayTypes' /\ QueryTypes'
  BY <1>0 DEF linkVars, overlayVars, queryVars, LinkTypes, ChannelTypes, OverlayTypes, QueryTypes
<1>b. UNCHANGED serverVars => ServerTypes'
  BY <1>0 DEF serverVars, ServerTypes
<1>1. ASSUME NEW r \in Runs,
             StartRun(r) \/ EnqueueFails(r) \/ AgentReports(r) \/ WorkerEnds(r) \/ WorkerDies(r)
      PROVE  Types'
  <2>1. UNCHANGED pageVars /\ missed' \in {missed, missed \cup {r}}
    BY <1>1 DEF StartRun, EnqueueFails, AgentReports, WorkerEnds, MarkFailed, FindsSuccess, WorkerDies
  <2>2. ServerTypes'
    <3>1. CASE StartRun(r)
      <4>1. attempts[r] + 1 \in 0 .. MaxAttempts
        BY <1>0, <3>1, FeedAssumption DEF StartRun, ServerTypes
      <4> QED BY <1>0, <3>1, <4>1 DEF StartRun, Becomes, ServerTypes, Statuses
    <3>2. CASE EnqueueFails(r)
      BY <1>0, <3>2 DEF EnqueueFails, Becomes, ServerTypes, Statuses, Ends
    <3>3. CASE AgentReports(r)
      BY <1>0, <3>3 DEF AgentReports, Becomes, ServerTypes, Statuses
    <3>4. CASE MarkFailed(r)
      BY <1>0, <3>4 DEF MarkFailed, Becomes, ServerTypes, Statuses, Ends
    <3>5. CASE FindsSuccess(r)
      BY <1>0, <3>5 DEF FindsSuccess, ServerTypes
    <3>6. CASE WorkerDies(r)
      BY <1>0, <3>6 DEF WorkerDies, ServerTypes
    <3> QED BY <1>1, <3>1, <3>2, <3>3, <3>4, <3>5, <3>6 DEF WorkerEnds
  <2>3. missed' \subseteq Runs
    BY <1>0, <2>1 DEF ChannelTypes
  <2> QED BY <1>a, <2>1, <2>2, <2>3 DEF Types, pageVars
<1>2. ASSUME NEW r \in Runs, Publish(r) PROVE Types'
  <2>1. PICK k \in Kinds : Send(r, k)
    BY <1>0, <1>2 DEF Publish, Kinds, Ends, ServerTypes
  <2>2. ChannelTypes'
    <3>1. [run |-> r, kind |-> k] \in Events
      BY DEF Events
    <3> QED BY <1>0, <2>1, <3>1 DEF Send, ChannelTypes
  <2>3. UNCHANGED <<linkVars, run, jobs, attempts, overlayVars, queryVars>>
    BY <1>2 DEF Publish
  <2>4. ServerTypes'
    BY <1>0, <1>2, <2>3 DEF Publish, ServerTypes
  <2>5. LinkTypes' /\ OverlayTypes' /\ QueryTypes'
    BY <1>0, <2>3 DEF linkVars, overlayVars, queryVars, LinkTypes, OverlayTypes, QueryTypes
  <2> QED BY <2>2, <2>4, <2>5 DEF Types
<1>3. ASSUME NEW r \in Runs, Retry(r) PROVE Types'
  <2>1. UNCHANGED <<linkVars, attempts, worker, agents, outbox, channel, missed, live, cards, queryVars>>
    BY <1>3 DEF Retry
  <2>2. ServerTypes' /\ retrying' \subseteq Runs
    BY <1>0, <1>3 DEF Retry, Becomes, ServerTypes, Statuses, OverlayTypes
  <2> QED BY <1>0, <2>1, <2>2
          DEF Types, linkVars, queryVars, LinkTypes, ChannelTypes, OverlayTypes, QueryTypes
<1>4. ASSUME NEW r \in Runs, Forget(r) PROVE Types'
  <2>1. UNCHANGED <<linkVars, channel, missed, live>> /\ UNCHANGED serverVars
    BY <1>4 DEF Forget
  <2>2. OverlayTypes' /\ QueryTypes'
    BY <1>0, <1>4, <2>1, InvalidateTypes DEF Forget, OverlayTypes
  <2> QED BY <1>0, <1>b, <2>1, <2>2 DEF Types, linkVars, LinkTypes, ChannelTypes
<1>5. CASE OnEvent
  <2> DEFINE e == Head(channel)
  <2>1. /\ channel' = Tail(channel) /\ UNCHANGED <<linkVars, serverVars>>
        /\ \/ missed' = missed \cup {e.run} /\ UNCHANGED <<overlayVars, queryVars>>
           \/ UNCHANGED missed /\ e.kind = "started" /\ Started(e.run)
           \/ UNCHANGED missed /\ e.kind # "started" /\ Ended(e.run, e.kind)
    BY <1>5 DEF OnEvent
  <2>2. e.run \in Runs /\ e.kind \in Kinds /\ Tail(channel) \in Seq(Events)
    <3>1. Head(channel) \in Events /\ Tail(channel) \in Seq(Events)
      BY <1>0, <1>5, HeadLemma DEF OnEvent, ChannelTypes
    <3> QED BY <3>1 DEF Events
  <2> HIDE DEF e
  <2>3. ChannelTypes'
    BY <1>0, <2>1, <2>2 DEF ChannelTypes
  <2>4. OverlayTypes' /\ QueryTypes'
    <3>1. CASE UNCHANGED <<overlayVars, queryVars>>
      BY <1>0, <3>1 DEF overlayVars, queryVars, OverlayTypes, QueryTypes
    <3>2. CASE Started(e.run)
      BY <1>0, <2>2, <3>2 DEF Started, queryVars, OverlayTypes, QueryTypes
    <3>3. CASE e.kind # "started" /\ Ended(e.run, e.kind)
      BY <1>0, <2>2, <3>3, InvalidateTypes DEF Ended, OverlayTypes, Kinds
    <3> QED BY <2>1, <3>1, <3>2, <3>3
  <2> QED BY <1>0, <1>b, <2>1, <2>3, <2>4 DEF Types, linkVars, LinkTypes
<1>6. CASE Query
  <2>1. UNCHANGED <<linkVars, channel, overlayVars, missed>> /\ UNCHANGED serverVars
    BY <1>6 DEF Query
  <2>2. QueryTypes'
    BY <1>0, <1>6 DEF Query, NoList, QueryTypes, ServerTypes
  <2> QED BY <1>0, <1>b, <2>1, <2>2
          DEF Types, linkVars, overlayVars, LinkTypes, ChannelTypes, OverlayTypes
<1>7. CASE LinkStep
  <2>1. UNCHANGED serverVars
    BY <1>7 DEF LinkStep
  <2>2. LinkTypes'
    BY <1>0, <1>7, Zenon DEF LinkStep, Enter, Leave, ReKey, Up, Down, LinkTypes
  <2>3. ChannelTypes'
    <3>1. {channel[i].run : i \in DOMAIN channel} \subseteq Runs
      <4>1. \A i \in DOMAIN channel : channel[i] \in Events
        BY <1>0 DEF ChannelTypes
      <4> QED BY <4>1 DEF Events
    <3>2. missed' \subseteq Runs
      BY <1>0, <1>7, <3>1 DEF LinkStep, Mount, ChannelTypes
    <3>3. channel' = channel \/ channel' = <<>>
      BY <1>7 DEF LinkStep
    <3>4. <<>> \in Seq(Events)
      OBVIOUS
    <3> QED BY <1>0, <3>2, <3>3, <3>4 DEF ChannelTypes
  <2>4. OverlayTypes'
    <3>1. \/ UNCHANGED overlayVars
          \/ live' = {} /\ cards' = [k \in Ends |-> {}] /\ retrying' = {}
      BY <1>7 DEF LinkStep
    <3> QED BY <1>0, <3>1 DEF overlayVars, OverlayTypes
  <2>5. QueryTypes'
    <3>1. UNCHANGED queryVars \/ Ask
      BY <1>7 DEF LinkStep, Mount
    <3> QED BY <1>0, <3>1 DEF Ask, NoList, queryVars, QueryTypes
  <2> QED BY <1>b, <2>1, <2>2, <2>3, <2>4, <2>5 DEF Types
<1>8. CASE UNCHANGED vars
  BY <1>0, <1>a, <1>b, <1>8 DEF vars, ChannelTypes, Types
<1> QED BY <1>1, <1>2, <1>3, <1>4, <1>5, <1>6, <1>7, <1>8 DEF Next

-----------------------------------------------------------------------------
(* A page that is away, and a list that has not come.                        *)

LEMMA AwayStep ==
  ASSUME AwayInv, [Next]_vars
  PROVE  AwayInv'
<1>1. ASSUME NEW r \in Runs,
             \/ StartRun(r) \/ EnqueueFails(r) \/ AgentReports(r) \/ WorkerEnds(r) \/ WorkerDies(r)
             \/ Retry(r) \/ Forget(r)
      PROVE  AwayInv'
  <2>1. UNCHANGED <<page, ws, conn, channel, live>>
    BY <1>1 DEF StartRun, EnqueueFails, AgentReports, WorkerEnds, MarkFailed, FindsSuccess,
                WorkerDies, Retry, Forget, pageVars, linkVars, overlayVars
  <2> QED BY <2>1 DEF AwayInv
<1>2. ASSUME NEW r \in Runs, Publish(r) PROVE AwayInv'
  <2>1. UNCHANGED <<page, ws, conn, live>>
    BY <1>2 DEF Publish, linkVars, overlayVars
  <2>2. UNCHANGED channel \/ conn = RunWs[r]
    BY <1>2 DEF Publish, Send
  <2>3. RunWs[r] # None
    BY FeedAssumption
  <2> QED BY <2>1, <2>2, <2>3 DEF AwayInv
<1>3. CASE OnEvent
  <2>1. channel # <<>> /\ UNCHANGED <<page, ws, conn>>
    BY <1>3 DEF OnEvent, linkVars
  <2> QED BY <2>1 DEF AwayInv
<1>4. CASE Query \/ UNCHANGED vars
  BY <1>4 DEF AwayInv, Query, vars, linkVars, overlayVars
<1>5. CASE LinkStep
  <2>1. /\ Enter \/ Leave \/ ReKey \/ Up \/ Down
        /\ channel' = IF conn' = conn THEN channel ELSE <<>>
        /\ IF page' THEN UNCHANGED live ELSE live' = {}
    BY <1>5 DEF LinkStep, overlayVars
  <2>2. CASE Enter \/ Leave
    BY <2>1, <2>2 DEF AwayInv, Enter, Leave
  <2>3. CASE ReKey
    BY <2>1, <2>3 DEF AwayInv, ReKey
  <2>4. CASE Up \/ Down
    BY <2>1, <2>4, FeedAssumption DEF AwayInv, Up, Down
  <2> QED BY <2>1, <2>2, <2>3, <2>4
<1> QED BY <1>1, <1>2, <1>3, <1>4, <1>5 DEF Next

LEMMA InvalidateRetry ==
  ASSUME RetryInv, Invalidate, retrying' \subseteq retrying
  PROVE  RetryInv'
<1> QED BY DEF Invalidate, Ask, RetryInv, queryVars

LEMMA RetryStep ==
  ASSUME Types, RetryInv, [Next]_vars
  PROVE  RetryInv'
<1>0. QueryTypes /\ ServerTypes
  BY DEF Types
<1>1. ASSUME UNCHANGED queryVars, retrying' \subseteq retrying PROVE RetryInv'
  BY <1>1 DEF RetryInv, queryVars
<1>2. ASSUME NEW r \in Runs,
             \/ StartRun(r) \/ EnqueueFails(r) \/ AgentReports(r) \/ WorkerEnds(r) \/ WorkerDies(r)
             \/ Publish(r)
      PROVE  RetryInv'
  <2>1. UNCHANGED queryVars /\ UNCHANGED overlayVars
    BY <1>2 DEF StartRun, EnqueueFails, AgentReports, WorkerEnds, MarkFailed, FindsSuccess,
                WorkerDies, Publish, pageVars
  <2> QED BY <1>1, <2>1 DEF overlayVars
<1>3. ASSUME NEW r \in Runs, Retry(r) PROVE RetryInv'
  <2>1. UNCHANGED queryVars
    BY <1>3 DEF Retry
  <2>2. \A q \in retrying' : q \in retrying \/ fetched[q] # "unknown"
    BY <1>3 DEF Retry
  <2> QED BY <2>1, <2>2 DEF RetryInv, queryVars
<1>4. ASSUME NEW r \in Runs, Forget(r) PROVE RetryInv'
  BY <1>4, InvalidateRetry DEF Forget
<1>5. CASE OnEvent
  <2> DEFINE e == Head(channel)
  <2>1. \/ UNCHANGED <<overlayVars, queryVars>>
        \/ Started(e.run) \/ Ended(e.run, e.kind)
    BY <1>5 DEF OnEvent
  <2> HIDE DEF e
  <2> QED BY <1>1, <2>1, InvalidateRetry DEF overlayVars, Started, Ended
<1>6. CASE Query
  <2>1. UNCHANGED overlayVars
    BY <1>6 DEF Query
  <2>2. CASE query = "asked" /\ query' = "answered" /\ answer' = run /\ UNCHANGED <<fetched, isError>>
    BY <1>0, <2>1, <2>2 DEF RetryInv, overlayVars, ServerTypes
  <2>3. CASE query = "answered" /\ query' = "idle" /\ fetched' = answer
    <3>1. \A q \in Runs : answer[q] # "unknown"
      BY <2>3 DEF RetryInv, Statuses, Ends
    <3>2. retrying' \subseteq Runs
      BY <2>1 DEF Types, OverlayTypes, overlayVars
    <3> QED BY <2>3, <3>1, <3>2 DEF RetryInv
  <2>4. CASE query # "idle" /\ query' = "idle" /\ UNCHANGED fetched
    BY <2>1, <2>4 DEF RetryInv, overlayVars
  <2> QED BY <1>6, <2>2, <2>3, <2>4 DEF Query
<1>7. CASE LinkStep
  <2>1. retrying' \subseteq retrying
    <3>1. UNCHANGED overlayVars \/ retrying' = {}
      BY <1>7, Zenon DEF LinkStep
    <3> QED BY <3>1 DEF overlayVars
  <2>2. UNCHANGED queryVars \/ Ask
    BY <1>7 DEF LinkStep, Mount
  <2> QED BY <1>1, <2>1, <2>2 DEF Ask, RetryInv
<1>8. CASE UNCHANGED vars
  BY <1>1, <1>8 DEF vars, overlayVars
<1> QED BY <1>2, <1>3, <1>4, <1>5, <1>6, <1>7, <1>8 DEF Next

-----------------------------------------------------------------------------
(* The end of what is shown as compiling.                                    *)

\* What leaves the channel where it was and forgets no end.
LEMMA EndsKept ==
  ASSUME EndInv, UNCHANGED channel, live' \subseteq live, live \subseteq Runs,
         \A r \in Runs : EndOwed(r) => EndOwed(r)'
  PROVE  EndInv'
<1>1. ASSUME NEW r \in Runs, NEW i, EndToCome(r, i) PROVE EndToCome(r, i)'
  BY <1>1 DEF EndToCome, IsEnd
<1> QED BY <1>1 DEF EndInv, LiveRunIsCompiling, StartsEnd, IsStart

LEMMA EndStep ==
  ASSUME Types, AwayInv, EndInv, [Next]_vars
  PROVE  EndInv'
<1>0. /\ ServerTypes /\ OverlayTypes /\ live \subseteq Runs /\ missed \subseteq Runs
      /\ channel \in Seq(Events) /\ DOMAIN channel = 1 .. Len(channel) /\ Len(channel) \in Nat
  BY DEF Types, ChannelTypes, OverlayTypes
<1>1. ASSUME NEW r \in Runs,
             StartRun(r) \/ EnqueueFails(r) \/ AgentReports(r) \/ WorkerEnds(r) \/ WorkerDies(r)
      PROVE  EndInv'
  <2>1. UNCHANGED <<channel, live>> /\ missed \subseteq missed'
    BY <1>1 DEF StartRun, EnqueueFails, AgentReports, WorkerEnds, MarkFailed, FindsSuccess,
                WorkerDies, pageVars, overlayVars
  <2>2. ASSUME NEW q \in Runs, EndOwed(q) PROVE EndOwed(q)'
    <3>1. CASE StartRun(r)
      BY <1>0, <2>2, <3>1 DEF StartRun, EndOwed, ServerTypes
    <3>2. CASE EnqueueFails(r)
      BY <1>0, <2>1, <2>2, <3>2 DEF EnqueueFails, EndOwed
    <3>3. CASE AgentReports(r)
      BY <1>0, <2>2, <3>3 DEF AgentReports, EndOwed, ServerTypes
    <3>4. CASE MarkFailed(r)
      BY <1>0, <2>2, <3>4 DEF MarkFailed, EndOwed, ServerTypes
    <3>5. CASE FindsSuccess(r)
      BY <1>0, <2>1, <2>2, <3>5 DEF FindsSuccess, EndOwed, ServerTypes
    <3>6. CASE WorkerDies(r)
      BY <1>0, <2>1, <2>2, <3>6 DEF WorkerDies, EndOwed, ServerTypes
    <3> QED BY <1>1, <3>1, <3>2, <3>3, <3>4, <3>5, <3>6 DEF WorkerEnds
  <2> QED BY <1>0, <2>1, <2>2, EndsKept
<1>2. ASSUME NEW r \in Runs, Retry(r) \/ Forget(r) PROVE EndInv'
  <2>1. UNCHANGED <<channel, live, missed, worker, attempts, agents, outbox>>
    BY <1>2 DEF Retry, Forget, serverVars
  <2> QED BY <1>0, <2>1, EndsKept DEF EndOwed
<1>3. ASSUME NEW r \in Runs, Publish(r) PROVE EndInv'
  <2>1. PICK k \in Kinds :
          /\ Send(r, k)
          /\ \/ /\ k # "started" /\ outbox' = [outbox EXCEPT ![r] = @ \ {k}]
                /\ UNCHANGED <<worker, agents>>
             \/ /\ k = "started" /\ worker' = [worker EXCEPT ![r] = "waiting"]
                /\ agents' = [agents EXCEPT ![r] = @ \cup {attempts[r]}] /\ UNCHANGED outbox
             \/ /\ k = "failed" /\ worker' = [worker EXCEPT ![r] = "idle"]
                /\ UNCHANGED <<agents, outbox>>
    BY <1>0, <1>3 DEF Publish, Kinds, Ends, ServerTypes
  <2>2. UNCHANGED <<attempts, live>>
    BY <1>3 DEF Publish, overlayVars
  <2> DEFINE e == [run |-> r, kind |-> k]
  <2>3. e \in Events /\ e.run = r /\ e.kind = k
    BY DEF Events
  <2> HIDE DEF e
  \* Of all that is owed only the end of this run is gone, and not if it was a start.
  <2>4. ASSUME NEW q \in Runs, EndOwed(q), ~(q = r /\ k # "started") PROVE EndOwed(q)' \/ missed' # missed
    BY <1>0, <2>1, <2>2, <2>4 DEF EndOwed, Send, ServerTypes
  <2>5. k = "started" /\ missed' = missed => EndOwed(r)'
    BY <1>0, <2>1, <2>2 DEF EndOwed, ServerTypes
  <2>6. CASE missed' = missed \cup {r} /\ UNCHANGED channel
    <3>1. ASSUME NEW q \in Runs, EndOwed(q) PROVE EndOwed(q)'
      BY <1>0, <2>1, <2>2, <2>6, <3>1 DEF EndOwed, ServerTypes
    <3> QED BY <1>0, <2>2, <2>6, <3>1, EndsKept
  <2>7. CASE channel' = Append(channel, e) /\ UNCHANGED missed
    <3>1. /\ DOMAIN channel' = 1 .. Len(channel) + 1 /\ channel'[Len(channel) + 1] = e
          /\ \A i \in DOMAIN channel : channel'[i] = channel[i]
      BY <1>0, <2>3, <2>7
    <3>2. ASSUME NEW q \in Runs, NEW i \in 0 .. Len(channel), EndToCome(q, i) PROVE EndToCome(q, i)'
      <4>1. CASE q = r /\ k # "started"
        <5>1. Len(channel) + 1 \in DOMAIN channel' /\ i < Len(channel) + 1
          BY <1>0, <3>1
        <5> QED BY <2>3, <3>1, <4>1, <5>1 DEF EndToCome, IsEnd
      <4>2. CASE ~(q = r /\ k # "started")
        <5>1. ASSUME NEW j \in DOMAIN channel, i < j, IsEnd(channel[j], q)
              PROVE  j \in DOMAIN channel' /\ IsEnd(channel'[j], q)
          BY <1>0, <3>1, <5>1
        <5> QED BY <2>4, <2>7, <3>2, <4>2, <5>1 DEF EndToCome
      <4> QED BY <4>1, <4>2
    <3>3. ASSUME NEW q \in Runs, NEW i \in DOMAIN channel', IsStart(channel'[i], q)
          PROVE  EndToCome(q, i)'
      <4>1. CASE i \in DOMAIN channel
        BY <1>0, <3>1, <3>2, <3>3, <4>1 DEF EndInv, StartsEnd, IsStart
      <4>2. CASE i = Len(channel) + 1
        BY <2>3, <2>5, <2>7, <3>1, <3>3, <4>2 DEF EndToCome, IsStart
      <4> QED BY <1>0, <3>1, <4>1, <4>2
    <3> QED BY <1>0, <2>2, <3>2, <3>3 DEF EndInv, LiveRunIsCompiling, StartsEnd
  <2> QED BY <2>1, <2>6, <2>7 DEF e, Send
\* The event at the head of the channel is the end that a live run waited for, or a start
\* with its end behind it, or it is lost.
<1>4. CASE OnEvent
  <2> DEFINE e == Head(channel)
  <2>1. /\ channel # <<>> /\ channel' = Tail(channel) /\ UNCHANGED serverVars
        /\ \/ missed' = missed \cup {e.run} /\ UNCHANGED <<overlayVars, queryVars>>
           \/ UNCHANGED missed /\ e.kind = "started" /\ Started(e.run)
           \/ UNCHANGED missed /\ e.kind # "started" /\ Ended(e.run, e.kind)
    BY <1>4 DEF OnEvent
  <2>2. e \in Events /\ e = channel[1] /\ e.run \in Runs
    <3>1. Head(channel) \in Events /\ Head(channel) = channel[1]
      BY <1>0, <2>1, HeadLemma
    <3> QED BY <3>1 DEF Events
  <2>3. /\ Len(channel) \in Nat \ {0} /\ 1 \in DOMAIN channel
        /\ DOMAIN channel' = 1 .. Len(channel) - 1
        /\ \A i \in DOMAIN channel' : channel'[i] = channel[i + 1]
    BY <1>0, <2>1, HeadLemma
  <2> HIDE DEF e
  <2>4. /\ \/ missed' = missed \cup {e.run} /\ UNCHANGED live
           \/ UNCHANGED missed /\ e.kind = "started" /\ live' = live \cup {e.run}
           \/ UNCHANGED missed /\ e.kind # "started" /\ live' = live \ {e.run}
        /\ \A q \in Runs : EndOwed(q) => EndOwed(q)'
    BY <2>1 DEF Started, Ended, overlayVars, serverVars, EndOwed
  <2>5. ASSUME NEW q \in Runs, NEW i \in Nat, EndToCome(q, i + 1) PROVE EndToCome(q, i)'
    <3>1. CASE \E j \in DOMAIN channel : i + 1 < j /\ IsEnd(channel[j], q)
      <4>1. PICK j \in DOMAIN channel : i + 1 < j /\ IsEnd(channel[j], q)
        BY <3>1
      <4>2. j - 1 \in DOMAIN channel' /\ i < j - 1 /\ channel'[j - 1] = channel[j]
        BY <1>0, <2>3, <4>1
      <4> QED BY <4>1, <4>2 DEF EndToCome, IsEnd
    <3>2. CASE EndOwed(q)
      BY <2>4, <3>2 DEF EndToCome
    <3> QED BY <2>5, <3>1, <3>2 DEF EndToCome
  <2>6. ASSUME NEW q \in live' PROVE EndToCome(q, 0)'
    <3>1. q \in Runs
      BY <1>0, <2>2, <2>4
    <3>2. CASE q = e.run /\ missed' = missed \cup {e.run}
      BY <3>2 DEF EndToCome, EndOwed
    <3>3. CASE q = e.run /\ e.kind = "started"
      <4>1. EndToCome(q, 1)
        BY <2>2, <2>3, <3>1, <3>3 DEF EndInv, StartsEnd, IsStart
      <4> QED BY <2>5, <3>1, <4>1
    <3>4. CASE q # e.run
      <4>1. EndToCome(q, 0) /\ ~IsEnd(channel[1], q)
        BY <2>2, <2>4, <3>4 DEF EndInv, LiveRunIsCompiling, IsEnd
      <4>2. \A j \in DOMAIN channel : 0 < j /\ j # 1 => 0 + 1 < j
        BY <1>0
      <4>3. EndToCome(q, 0 + 1)
        BY <4>1, <4>2 DEF EndToCome
      <4> QED BY <2>5, <3>1, <4>3
    <3> QED BY <2>4, <2>6, <3>2, <3>3, <3>4
  <2>7. ASSUME NEW q \in Runs, NEW i \in DOMAIN channel', IsStart(channel'[i], q)
        PROVE  EndToCome(q, i)'
    <3>1. i \in Nat /\ i + 1 \in DOMAIN channel /\ IsStart(channel[i + 1], q)
      BY <1>0, <2>3, <2>7
    <3> QED BY <2>5, <3>1 DEF EndInv, StartsEnd
  <2> QED BY <2>6, <2>7 DEF EndInv, LiveRunIsCompiling, StartsEnd
<1>5. CASE LinkStep
  <2>1. UNCHANGED serverVars
    BY <1>5 DEF LinkStep
  \* Who enters finds neither overlay nor channel.
  <2>2. CASE Enter
    <3>1. live = {} /\ channel = <<>> /\ UNCHANGED live
      BY <1>5, <2>2 DEF LinkStep, Enter, AwayInv, overlayVars
    <3>2. channel' = <<>>
      BY <1>5, <2>2, <3>1 DEF LinkStep
    <3>3. DOMAIN channel' = {}
      BY <3>2
    <3> QED BY <3>1, <3>3 DEF EndInv, LiveRunIsCompiling, StartsEnd
  <2>3. CASE ~Enter
    <3>1. /\ live' \subseteq live
          /\ \/ UNCHANGED <<channel, missed>>
             \/ /\ channel' = <<>>
                /\ missed' = missed \cup {channel[i].run : i \in DOMAIN channel}
      BY <1>5, <2>3 DEF LinkStep, overlayVars
    <3>2. CASE UNCHANGED <<channel, missed>>
      BY <1>0, <2>1, <3>1, <3>2, EndsKept DEF EndOwed, serverVars
    <3>3. CASE /\ channel' = <<>>
               /\ missed' = missed \cup {channel[i].run : i \in DOMAIN channel}
      <4>1. ASSUME NEW q \in Runs, EndToCome(q, 0) PROVE EndToCome(q, 0)'
        BY <2>1, <3>3, <4>1 DEF EndToCome, EndOwed, IsEnd, serverVars
      <4>2. DOMAIN channel' = {}
        BY <3>3
      <4> QED BY <1>0, <3>1, <4>1, <4>2 DEF EndInv, LiveRunIsCompiling, StartsEnd
    <3> QED BY <3>1, <3>2, <3>3
  <2> QED BY <2>2, <2>3
<1>6. CASE Query \/ UNCHANGED vars
  BY <1>0, <1>6, EndsKept DEF Query, vars, serverVars, overlayVars, EndOwed
<1> QED BY <1>1, <1>2, <1>3, <1>4, <1>5, <1>6 DEF Next

-----------------------------------------------------------------------------
(* The end a run came to.                                                    *)

LEMMA InvalidateListed ==
  ASSUME Invalidate, UNCHANGED run, NEW r \in Runs, Listed(r)
  PROVE  Listed(r)'
<1> QED BY DEF Invalidate, Ask, Listed, queryVars

LEMMA ShownStep ==
  ASSUME Types, AwayInv, RetryInv, ShownInv, [Next]_vars
  PROVE  ShownInv'
<1> SUFFICES ASSUME page', NEW q \in Runs PROVE EndKnown(q)'
  BY DEF ShownInv
<1>0. /\ ServerTypes /\ OverlayTypes /\ QueryTypes
      /\ channel \in Seq(Events) /\ DOMAIN channel = 1 .. Len(channel) /\ Len(channel) \in Nat
  BY DEF Types, ChannelTypes
<1>1. ASSUME NEW r \in Runs,
             StartRun(r) \/ EnqueueFails(r) \/ AgentReports(r) \/ WorkerEnds(r) \/ WorkerDies(r)
      PROVE  EndKnown(q)'
  <2>1. UNCHANGED <<channel, cards, fetched, query, isError, answer>> /\ missed \subseteq missed'
    BY <1>1 DEF StartRun, EnqueueFails, AgentReports, WorkerEnds, MarkFailed, FindsSuccess,
                WorkerDies, pageVars, overlayVars, queryVars
  <2>2. page /\ EndKnown(q)
    BY <1>1 DEF StartRun, EnqueueFails, AgentReports, WorkerEnds, MarkFailed, FindsSuccess,
                WorkerDies, pageVars, linkVars, ShownInv
  <2>3. CASE q # r
    <3>1. run'[q] = run[q] /\ outbox'[q] = outbox[q] /\ worker'[q] = worker[q]
      BY <1>0, <1>1, <2>3 DEF StartRun, EnqueueFails, AgentReports, WorkerEnds, MarkFailed,
                              FindsSuccess, WorkerDies, Becomes, ServerTypes
    <3> QED BY <2>1, <2>2, <3>1 DEF EndKnown, Listed
  <2>4. CASE q = r
    <3>1. CASE StartRun(r)
      BY <1>0, <2>4, <3>1 DEF StartRun, Becomes, EndKnown, Ends, ServerTypes
    <3>2. CASE EnqueueFails(r) \/ WorkerDies(r)
      BY <2>4, <3>2 DEF EnqueueFails, WorkerDies, EndKnown
    <3>3. CASE AgentReports(r)
      BY <1>0, <2>4, <3>3 DEF AgentReports, Becomes, EndKnown, ServerTypes
    <3>4. CASE MarkFailed(r)
      BY <1>0, <2>4, <3>4 DEF MarkFailed, Becomes, EndKnown, ServerTypes
    <3>5. CASE FindsSuccess(r)
      <4>1. UNCHANGED <<run, outbox>> /\ run[r] # "failed"
        BY <3>5 DEF FindsSuccess
      <4> QED BY <2>1, <2>2, <2>4, <4>1 DEF EndKnown, Listed
    <3> QED BY <1>1, <3>1, <3>2, <3>3, <3>4, <3>5 DEF WorkerEnds
  <2> QED BY <2>3, <2>4
<1>2. ASSUME NEW r \in Runs, Retry(r) PROVE EndKnown(q)'
  <2>1. /\ UNCHANGED <<page, channel, missed, cards, outbox, worker, fetched, query, isError, answer>>
        /\ run' = [run EXCEPT ![r] = "queued"]
    BY <1>2 DEF Retry, Becomes, linkVars, queryVars
  <2>2. CASE q = r
    BY <1>0, <2>1, <2>2 DEF EndKnown, Ends, ServerTypes
  <2>3. CASE q # r
    <3>1. run'[q] = run[q] /\ EndKnown(q)
      BY <1>0, <2>1, <2>3 DEF ShownInv, ServerTypes
    <3> QED BY <2>1, <3>1 DEF EndKnown, Listed
  <2> QED BY <2>2, <2>3
\* The cards a retry's answer drops are those of a run the list has been fetched for.
<1>3. ASSUME NEW r \in Runs, Forget(r) PROVE EndKnown(q)'
  <2>1. /\ UNCHANGED <<page, channel, missed, run, outbox, worker>> /\ Invalidate /\ r \in retrying
        /\ cards' = [k \in Ends |-> cards[k] \ {r}]
    BY <1>3 DEF Forget, linkVars, serverVars
  <2>2. EndKnown(q)
    BY <2>1 DEF ShownInv
  <2>3. CASE q = r
    <3>1. fetched # NoList
      BY <2>1 DEF RetryInv, NoList
    <3> QED BY <2>1, <3>1 DEF Invalidate, Ask, EndKnown, Listed
  <2>4. CASE q # r
    <3>1. run[q] \in Ends /\ q \in cards[run[q]] => q \in cards'[run[q]]
      BY <2>1, <2>4
    <3> QED BY <2>1, <2>2, <3>1, InvalidateListed DEF EndKnown
  <2> QED BY <2>3, <2>4
<1>4. ASSUME NEW r \in Runs, Publish(r) PROVE EndKnown(q)'
  <2>1. PICK k \in Kinds :
          /\ Send(r, k)
          /\ \/ /\ k # "started" /\ outbox' = [outbox EXCEPT ![r] = @ \ {k}]
                /\ UNCHANGED worker
             \/ /\ k = "started" /\ worker[r] = "starting"
                /\ worker' = [worker EXCEPT ![r] = "waiting"] /\ UNCHANGED outbox
             \/ /\ k = "failed" /\ worker' = [worker EXCEPT ![r] = "idle"] /\ UNCHANGED outbox
    BY <1>0, <1>4 DEF Publish, Kinds, Ends, ServerTypes
  <2>2. UNCHANGED <<page, run, cards, fetched, query, isError, answer>> /\ EndKnown(q)
    BY <1>4 DEF Publish, linkVars, overlayVars, queryVars, ShownInv
  <2> DEFINE e == [run |-> r, kind |-> k]
  <2>3. e.run = r /\ e.kind = k /\ e \in Events
    BY DEF Events
  <2> HIDE DEF e
  <2>4. CASE missed' = missed \cup {r} /\ UNCHANGED channel
    <3>1. CASE q = r
      BY <2>4, <3>1 DEF EndKnown
    <3>2. CASE q # r
      <4>1. outbox'[q] = outbox[q] /\ worker'[q] = worker[q]
        BY <1>0, <2>1, <3>2 DEF ServerTypes
      <4> QED BY <2>2, <2>4, <4>1 DEF EndKnown, Listed
    <3> QED BY <3>1, <3>2
  <2>5. CASE channel' = Append(channel, e) /\ UNCHANGED missed
    <3>1. /\ DOMAIN channel' = 1 .. Len(channel) + 1 /\ channel'[Len(channel) + 1] = e
          /\ \A i \in DOMAIN channel : channel'[i] = channel[i]
          /\ Len(channel) + 1 \in DOMAIN channel' /\ DOMAIN channel \subseteq DOMAIN channel'
      BY <1>0, <2>3, <2>5
    <3>2. CASE q = r /\ k = run[q]
      BY <2>2, <2>3, <3>1, <3>2 DEF EndKnown
    <3>3. CASE ~(q = r /\ k = run[q])
      <4>1. run[q] \in outbox[q] => run[q] \in outbox'[q]
        BY <1>0, <2>1, <3>3 DEF ServerTypes
      <4>2. worker[q] = "failing" /\ run[q] = "failed" => worker'[q] = "failing"
        BY <1>0, <2>1, <3>3 DEF ServerTypes
      <4>3. \A j \in DOMAIN channel : j \in DOMAIN channel' /\ channel'[j] = channel[j]
        BY <3>1
      <4> QED BY <2>2, <2>5, <4>1, <4>2, <4>3 DEF EndKnown, Listed
    <3> QED BY <3>2, <3>3
  <2> QED BY <2>1, <2>4, <2>5 DEF e, Send
<1>5. CASE OnEvent
  <2> DEFINE e == Head(channel)
  <2>1. /\ channel # <<>> /\ channel' = Tail(channel) /\ UNCHANGED serverVars /\ UNCHANGED linkVars
        /\ \/ missed' = missed \cup {e.run} /\ UNCHANGED <<overlayVars, queryVars>>
           \/ UNCHANGED missed /\ e.kind = "started" /\ Started(e.run)
           \/ UNCHANGED missed /\ e.kind # "started" /\ Ended(e.run, e.kind)
    BY <1>5 DEF OnEvent
  <2>2. e \in Events /\ e = channel[1] /\ e.run \in Runs /\ e.kind \in Kinds
    <3>1. Head(channel) \in Events /\ Head(channel) = channel[1]
      BY <1>0, <2>1, HeadLemma
    <3> QED BY <3>1 DEF Events
  <2>3. /\ Len(channel) \in Nat \ {0}
        /\ DOMAIN channel' = 1 .. Len(channel) - 1
        /\ \A i \in DOMAIN channel' : channel'[i] = channel[i + 1]
    BY <1>0, <2>1, HeadLemma
  <2> HIDE DEF e
  <2>4. EndKnown(q) /\ UNCHANGED <<run, outbox, worker>>
    BY <2>1 DEF ShownInv, linkVars, serverVars
  <2>5. CASE q = e.run /\ missed' = missed \cup {e.run}
    BY <2>5 DEF EndKnown
  <2>6. CASE q = e.run /\ e.kind = run[q] /\ e.kind # "started" /\ Ended(e.run, e.kind)
    <3>1. e.kind \in Ends /\ q \in cards'[run[q]]
      BY <1>0, <2>2, <2>6 DEF Ended, Kinds, OverlayTypes
    <3> QED BY <2>4, <3>1 DEF EndKnown
  \* What else leaves the channel is not the end that is awaited.
  <2>7. CASE (UNCHANGED missed /\ ~(q = e.run /\ e.kind = run[q])) \/ q # e.run
    <3>1. ASSUME NEW j \in DOMAIN channel, channel[j].run = q, channel[j].kind = run[q]
          PROVE  j - 1 \in DOMAIN channel' /\ channel'[j - 1] = channel[j]
      <4>1. j # 1
        BY <2>2, <2>7, <3>1
      <4> QED BY <1>0, <2>3, <4>1
    <3>2. q \in missed => q \in missed'
      BY <2>1
    <3>3. run[q] \in Ends /\ q \in cards[run[q]] => q \in cards'[run[q]]
      BY <1>0, <2>1, <2>2 DEF Started, Ended, Kinds, OverlayTypes, overlayVars
    <3>4. Listed(q) => Listed(q)'
      <4>1. UNCHANGED queryVars \/ Invalidate
        BY <2>1 DEF Started, Ended
      <4> QED BY <2>4, <4>1, InvalidateListed DEF Listed, queryVars
    <3> QED BY <2>4, <3>1, <3>2, <3>3, <3>4 DEF EndKnown
  <2>8. CASE q = e.run /\ e.kind = run[q] /\ e.kind = "started"
    BY <2>4, <2>8 DEF EndKnown, Ends
  <2> QED BY <2>1, <2>5, <2>6, <2>7, <2>8
<1>6. CASE Query
  <2>1. UNCHANGED <<page, channel, missed, run, outbox, worker, cards>>
    BY <1>6 DEF Query, linkVars, serverVars, overlayVars
  <2>2. Listed(q) => Listed(q)'
    BY <1>6, <2>1 DEF Query, Listed
  <2>3. EndKnown(q)
    BY <2>1 DEF ShownInv
  <2> QED BY <2>1, <2>2, <2>3 DEF EndKnown
<1>7. CASE LinkStep
  <2>1. UNCHANGED <<run, outbox, worker>>
    BY <1>7 DEF LinkStep, serverVars
  \* Who enters asks for the list, unless it finds that asked for.
  <2>2. CASE Enter
    <3>1. query' = "asked" \/ missed' = Runs
      BY <1>7, <2>2 DEF LinkStep, Mount, Ask
    <3> QED BY <3>1 DEF EndKnown, Listed
  <2>3. CASE ~Enter
    <3>1. page /\ UNCHANGED <<cards, fetched, query, isError, answer>>
      BY <1>7, <2>3 DEF LinkStep, Enter, Leave, ReKey, Up, Down, AwayInv, overlayVars, queryVars
    <3>2. \/ UNCHANGED <<channel, missed>>
          \/ missed' = missed \cup {channel[i].run : i \in DOMAIN channel}
      BY <1>7, <2>3 DEF LinkStep
    <3>3. EndKnown(q)
      BY <3>1 DEF ShownInv
    <3> QED BY <2>1, <3>1, <3>2, <3>3 DEF EndKnown, Listed
  <2> QED BY <2>2, <2>3
<1>8. CASE UNCHANGED vars
  BY <1>8 DEF vars, linkVars, serverVars, overlayVars, queryVars, ShownInv, EndKnown, Listed
<1> QED BY <1>1, <1>2, <1>3, <1>4, <1>5, <1>6, <1>7, <1>8 DEF Next

-----------------------------------------------------------------------------

LEMMA InitHolds == Init => IInv
<1> SUFFICES ASSUME Init PROVE IInv
  OBVIOUS
<1>1. Types
  <2>1. LinkTypes /\ OverlayTypes
    BY DEF Init, LinkInit, LinkTypes, OverlayTypes
  <2>2. ServerTypes
    BY FeedAssumption DEF Init, ServerTypes, Statuses
  <2>3. ChannelTypes
    BY DEF Init, ChannelTypes
  <2>4. QueryTypes
    BY DEF Init, NoList, QueryTypes
  <2> QED BY <2>1, <2>2, <2>3, <2>4 DEF Types
<1>2. AwayInv /\ RetryInv
  BY DEF Init, LinkInit, AwayInv, RetryInv
<1>3. EndInv /\ ShownInv
  BY DEF Init, LinkInit, EndInv, LiveRunIsCompiling, StartsEnd, ShownInv
<1> QED BY <1>1, <1>2, <1>3 DEF IInv

LEMMA Invariant == Spec => []IInv
<1>1. IInv /\ [Next]_vars => IInv'
  BY TypeStep, AwayStep, RetryStep, EndStep, ShownStep DEF IInv
<1> QED BY InitHolds, <1>1, PTL DEF Spec

\* Every variable of the feed, of its stream and of the runs it shows keeps its type.
THEOREM FeedTyped == Spec => []FeedTypeOK
<1>1. IInv => FeedTypeOK
  BY DEF IInv, Types, FeedTypeOK, LinkTypes, ServerTypes, ChannelTypes, OverlayTypes, QueryTypes, Events
<1> QED BY <1>1, Invariant, PTL

\* No run is shown as compiling for good: as long as it is shown, its end is still to come or
\* on the way to the page, or one of its events was lost, whatever is retried, reconnected or
\* turned to another workspace meanwhile (use-compile-feed.ts onEvent).
THEOREM LiveIsCompiling == Spec => []LiveRunIsCompiling
<1>1. IInv => LiveRunIsCompiling
  BY DEF IInv, EndInv
<1> QED BY <1>1, Invariant, PTL

\* A reader with the list in hand sees the end of a run of which all has been told: however
\* often it failed and was retried, whichever of several agents ended it, and whatever became
\* of the requests for the list in between (use-compile-feed.ts, compile-feed.tsx, worker.py,
\* internal.py).
THEOREM EndShown == Spec => []EndIsShown
<1>1. ASSUME IInv, page, query = "idle", ~isError, NEW r \in Runs \ missed, Told(r)
      PROVE  r \notin live /\ (r \in cards[run[r]] \/ fetched[r] = run[r])
  <2>1. ~EndToCome(r, 0)
    BY <1>1 DEF EndToCome, EndOwed, Told, IsEnd
  <2>2. r \notin live
    BY <1>1, <2>1 DEF IInv, EndInv, LiveRunIsCompiling
  <2>3. EndKnown(r)
    BY <1>1 DEF IInv, ShownInv
  <2> QED BY <1>1, <2>2, <2>3 DEF EndKnown, Listed, Told
<1>2. IInv => EndIsShown
  BY <1>1 DEF EndIsShown
<1> QED BY <1>2, Invariant, PTL
=============================================================================
