----------------------------- MODULE TokenStream -----------------------------
(***************************************************************************)
(* One browser tab: the bearer token it caches (features/user/user-token.ts *)
(* ), the switch of workspace that must drop it, and the event stream of   *)
(* the activity page, which is opened with it and re-opened when it closes *)
(* (features/capture/compile-stream.ts).                                   *)
(*                                                                         *)
(* A token is the workspace it names. Every subscription is one life of    *)
(* the effect of useCompileFeed; delays and backoff are left out.          *)
(***************************************************************************)
EXTENDS Naturals, FiniteSets

CONSTANTS
  Workspaces, None,  \* None: signed out, no token, no workspace
  MaxSubs,           \* bound: subscriptions at once, those unsubscribed in an await included
  MaxFaults          \* bound: expiries, dropped connections, failed calls
CONSTANT MaxSwitches \* bound: changes of workspace

ASSUME StreamAssumption ==
  /\ None \notin Workspaces /\ {"free", "asked"} \cap (Workspaces \cup {None}) = {}
  /\ MaxSubs \in Nat /\ MaxFaults \in Nat /\ MaxSwitches \in Nat

VARIABLES
  active,     \* the workspace of the session, at the auth server
  switching,  \* setActive or signOut has answered, clearApiToken is to come
  cached, inFlight,  \* user-token.ts
  fetches,    \* GET /api/auth/token: "free", "asked", or the token it answers
  page,       \* the activity page is mounted
  clientWs,   \* useActiveOrganization
  cur,        \* its subscription, 0 when none
  subs,
  connected,  \* the page shows no warning
  switches, faults,
  raced       \* history: a fetch was in flight when the token was cleared

tokenVars  == <<cached, inFlight, fetches>>
switchVars == <<active, switching, switches, raced>>
pageVars   == <<page, clientWs, cur>>
streamVars == <<switchVars, tokenVars, pageVars, subs, connected, faults>>

Tokens == Workspaces \cup {None}
Subs   == 1 .. MaxSubs
Fetch  == 1 .. 2
Sub    == [ws : Tokens, at : {"unused", "token", "connecting", "open", "timer", "dead"},
           wait : Fetch \cup {0}, token : Tokens, aged : BOOLEAN, cancelled : BOOLEAN]
Unused == [ws |-> None, at |-> "unused", wait |-> 0, token |-> None,
           aged |-> FALSE, cancelled |-> FALSE]

StreamTypeOK ==
  /\ active \in Tokens /\ cached \in Tokens /\ clientWs \in Tokens
  /\ switching \in BOOLEAN /\ page \in BOOLEAN /\ connected \in BOOLEAN /\ raced \in BOOLEAN
  /\ inFlight \in Fetch \cup {0}
  /\ fetches \in [Fetch -> Tokens \cup {"free", "asked"}]
  /\ cur \in Subs \cup {0}
  /\ subs \in [Subs -> Sub]
  /\ switches \in 0 .. MaxSwitches /\ faults \in 0 .. MaxFaults

StreamInit ==
  /\ active \in Workspaces /\ clientWs = active
  /\ switching = FALSE /\ cached = None /\ inFlight = 0
  /\ fetches = [f \in Fetch |-> "free"]
  /\ page = FALSE /\ cur = 0 /\ subs = [s \in Subs |-> Unused]
  /\ connected = TRUE /\ switches = 0 /\ faults = 0 /\ raced = FALSE

Fault == faults < MaxFaults /\ faults' = faults + 1

-----------------------------------------------------------------------------
(* user-token.ts                                                             *)

\* getApiToken for a subscription: the cached token, the fetch in flight, or a new one.
GetToken(s, sub) ==
  \/ /\ cached # None
     /\ subs' = [subs EXCEPT ![s] = [sub EXCEPT !.token = cached, !.wait = 0]]
     /\ UNCHANGED tokenVars
  \/ /\ cached = None /\ inFlight # 0
     /\ subs' = [subs EXCEPT ![s] = [sub EXCEPT !.wait = inFlight]]
     /\ UNCHANGED tokenVars
  \/ /\ cached = None /\ inFlight = 0
     /\ \E f \in Fetch :
          /\ fetches[f] = "free"
          /\ fetches' = [fetches EXCEPT ![f] = "asked"]
          /\ inFlight' = f
          /\ subs' = [subs EXCEPT ![s] = [sub EXCEPT !.wait = f]]
     /\ UNCHANGED cached

\* Any other request of the tab (api-client.ts, send) that finds no token.
Send ==
  /\ cached = None /\ inFlight = 0
  /\ \E f \in Fetch : fetches[f] = "free" /\ fetches' = [fetches EXCEPT ![f] = "asked"] /\ inFlight' = f
  /\ UNCHANGED <<switchVars, cached, pageVars, subs, connected, faults>>

\* The auth server answers for the session as it is now.
Mint(f) ==
  /\ fetches[f] = "asked"
  /\ fetches' = [fetches EXCEPT ![f] = active]
  /\ UNCHANGED <<switchVars, cached, inFlight, pageVars, subs, connected, faults>>

\* fetchToken resolves, for all who wait on it. Its finally forgets whichever fetch
\* is in flight by then.
Resolve(f) ==
  /\ fetches[f] \in Tokens
  /\ cached' = IF fetches[f] # None THEN fetches[f] ELSE cached
  /\ inFlight' = 0
  /\ fetches' = [fetches EXCEPT ![f] = "free"]
  /\ subs' = [s \in Subs |-> IF subs[s].wait = f
                             THEN [subs[s] EXCEPT !.wait = 0, !.token = fetches[f]] ELSE subs[s]]
  /\ UNCHANGED <<switchVars, pageVars, connected, faults>>

\* fetch throws: nothing catches it in open(), whose subscription is never heard of again.
Throw(f) ==
  /\ fetches[f] = "asked" /\ Fault
  /\ inFlight' = 0
  /\ fetches' = [fetches EXCEPT ![f] = "free"]
  /\ subs' = [s \in Subs |-> IF subs[s].wait = f
                             THEN IF subs[s].cancelled THEN Unused
                                  ELSE [subs[s] EXCEPT !.wait = 0, !.at = "dead"]
                             ELSE subs[s]]
  /\ UNCHANGED <<switchVars, cached, pageVars, connected>>

\* The token reaches its refresh margin, and then its end.
Expire ==
  /\ cached # None /\ Fault
  /\ cached' = None
  /\ subs' = [s \in Subs |-> [subs[s] EXCEPT !.aged = subs[s].token # None]]
  /\ UNCHANGED <<switchVars, inFlight, fetches, pageVars, connected>>

-----------------------------------------------------------------------------
(* nav-user.tsx: switching workspace and signing out.                        *)

SetActive ==
  /\ ~switching /\ switches < MaxSwitches
  /\ active' \in Tokens \ {active}
  /\ switching' = TRUE /\ switches' = switches + 1
  /\ UNCHANGED <<tokenVars, pageVars, subs, connected, faults, raced>>

\* Mutant: the cached token is kept.
ClearNothing ==
  /\ switching /\ switching' = FALSE
  /\ inFlight' = 0
  /\ UNCHANGED <<active, cached, fetches, pageVars, subs, connected, switches, faults, raced>>

\* clearApiToken.
Clear ==
  /\ switching /\ switching' = FALSE
  /\ cached' = None /\ inFlight' = 0
  /\ raced' = (raced \/ \E f \in Fetch : fetches[f] # "free")
  /\ UNCHANGED <<active, fetches, pageVars, subs, connected, switches, faults>>

-----------------------------------------------------------------------------
(* use-compile-feed.ts: the effect; compile-stream.ts: the subscription.     *)

\* Unsubscribing closes the source and stops the timer; an open() that awaits its
\* token is left to go on.
Cancelled(sub) ==
  IF sub.at = "token" THEN [Unused EXCEPT !.at = "token", !.wait = sub.wait, !.cancelled = TRUE]
  ELSE Unused

Unsubscribed == IF cur = 0 THEN subs ELSE [subs EXCEPT ![cur] = Cancelled(@)]

\* A new subscription awaits its token; GetToken follows as a step of its own.
Subscribe(ws, rest) ==
  IF ws = None THEN cur' = 0 /\ subs' = rest
  ELSE \E s \in Subs :
         /\ rest[s] = Unused /\ \A t \in Subs : t < s => rest[t] # Unused
         /\ cur' = s
         /\ subs' = [rest EXCEPT ![s] = [Unused EXCEPT !.ws = ws, !.at = "timer"]]

EnterPage ==
  /\ ~page /\ page' = TRUE /\ connected' = TRUE
  /\ Subscribe(clientWs, subs)
  /\ UNCHANGED <<switchVars, tokenVars, clientWs, faults>>

LeavePage ==
  /\ page /\ page' = FALSE /\ connected' = TRUE
  /\ cur' = 0 /\ subs' = Unsubscribed
  /\ UNCHANGED <<switchVars, tokenVars, clientWs, faults>>

\* Mutant: the stream is kept across the change of workspace.
ReKeyInPlace ==
  /\ clientWs # active /\ clientWs' = active
  /\ subs' = IF cur = 0 THEN subs ELSE [subs EXCEPT ![cur].ws = active]
  /\ UNCHANGED <<switchVars, tokenVars, page, cur, connected, faults>>

\* The client hears of the new workspace: the effect is torn down and set up again.
ReKey ==
  /\ clientWs # active /\ clientWs' = active
  /\ IF page THEN Subscribe(active, Unsubscribed) ELSE UNCHANGED <<cur, subs>>
  /\ UNCHANGED <<switchVars, tokenVars, page, connected, faults>>

\* open, up to its await: at once for a new subscription, after the backoff otherwise.
Open(s) ==
  /\ subs[s].at = "timer"
  /\ GetToken(s, [subs[s] EXCEPT !.at = "token", !.aged = FALSE, !.token = None])
  /\ UNCHANGED <<switchVars, pageVars, connected, faults>>

\* Mutant: nobody looks whether the effect was cleaned up.
ConnectAnyway(s) ==
  /\ subs[s].at = "token" /\ subs[s].wait = 0
  /\ subs' = [subs EXCEPT ![s].at = "connecting"]
  /\ UNCHANGED <<switchVars, tokenVars, pageVars, connected, faults>>

\* open, after its await.
Connect(s) ==
  /\ subs[s].at = "token" /\ subs[s].wait = 0
  /\ subs' = [subs EXCEPT ![s] = IF @.cancelled THEN Unused ELSE [@ EXCEPT !.at = "connecting"]]
  /\ UNCHANGED <<switchVars, tokenVars, pageVars, connected, faults>>

\* /api/v1/stream takes a valid token of a workspace.
Accept(s) ==
  /\ subs[s].at = "connecting" /\ subs[s].token # None /\ ~subs[s].aged
  /\ subs' = [subs EXCEPT ![s].at = "open"]
  /\ connected' = TRUE
  /\ UNCHANGED <<switchVars, tokenVars, pageVars, faults>>

\* Mutant: a closed stream is left closed.
ClosedForGood(s) == subs' = [subs EXCEPT ![s] = Unused] /\ connected' = FALSE

\* onerror with CLOSED: the source is dropped and a timer set.
Reopens(s) == subs' = [subs EXCEPT ![s].at = "timer"] /\ connected' = FALSE

\* An answer other than 200 is fatal to an EventSource: no token, an expired one, or
\* a server that is not there.
Refuse(s) ==
  /\ subs[s].at = "connecting"
  /\ \/ (subs[s].token = None \/ subs[s].aged) /\ UNCHANGED faults
     \/ Fault
  /\ Reopens(s)
  /\ UNCHANGED <<switchVars, tokenVars, pageVars>>

\* onerror short of CLOSED: the browser reconnects by itself, with the same token.
Drop(s) ==
  /\ subs[s].at = "open" /\ Fault
  /\ subs' = [subs EXCEPT ![s].at = "connecting"]
  /\ connected' = FALSE
  /\ UNCHANGED <<switchVars, tokenVars, pageVars>>

StreamStep(s) == Open(s) \/ Connect(s) \/ Accept(s) \/ Refuse(s) \/ Drop(s)
TokenStep(f)  == Mint(f) \/ Resolve(f) \/ Throw(f)

StreamNext ==
  \/ Send \/ Expire \/ SetActive \/ Clear \/ EnterPage \/ LeavePage \/ ReKey
  \/ \E s \in Subs : StreamStep(s)
  \/ \E f \in Fetch : TokenStep(f)

StreamSpec == StreamInit /\ [][StreamNext]_streamVars

\* Timers fire, answers arrive, and a server that can answer does.
FairStreamSpec ==
  /\ StreamSpec
  /\ \A f \in Fetch : WF_streamVars(Mint(f)) /\ WF_streamVars(Resolve(f))
  /\ \A s \in Subs :
       /\ WF_streamVars(Open(s)) /\ WF_streamVars(Connect(s))
       /\ WF_streamVars(Accept(s)) /\ WF_streamVars(Refuse(s) /\ UNCHANGED faults)
  /\ WF_streamVars(Clear)

-----------------------------------------------------------------------------
(* Properties.                                                               *)

\* No leaked connection: the tab holds at most one event source, that of the
\* subscription the page has (compile-stream.ts: "A late token resolves after unmount").
NoLeakedConnection ==
  \A s \in Subs : subs[s].at \in {"connecting", "open"} => page /\ s = cur

\* A tab fetches one token at a time, except across a change of workspace.
OneTokenFetch == ~raced => Cardinality({f \in Fetch : fetches[f] # "free"}) <= 1

\* After a switch or a sign-out is done, the cached token is the new workspace's
\* (nav-user.tsx), unless a fetch was under way that began before.
TokenFollowsWorkspace == ~switching /\ ~raced => cached \in {None, active}

\* The stream heals: a mounted feed is connected again in the end, unless the fetch of
\* its token threw or there is nobody signed in (compile-stream.ts: "self-healing").
StreamHeals ==
  \A s \in Subs :
    cur = s ~> cur # s \/ subs[s].at \in {"open", "dead"} \/ active = None

\* The page may rely on what Link promises.
L == INSTANCE Link WITH
       page <- page,
       ws   <- IF cur = 0 THEN None ELSE subs[cur].ws,
       conn <- IF cur # 0 /\ subs[cur].at = "open" THEN subs[cur].token ELSE None

LinkIsImplemented == L!LinkSpec

=============================================================================
