------------------------------- MODULE RateLimit -------------------------------
(***************************************************************************)
(* The hourly allowance of a workspace (apps/api/app/core/ratelimit.py): a *)
(* counter in Redis per window of the clock, incremented before it is      *)
(* judged, open when Redis does not answer. A tick is far longer than a    *)
(* call of Redis, so the clock is read and the counter incremented at one  *)
(* tick. Counters of other names and workspaces have keys of their own:    *)
(* this is one of them.                                                    *)
(***************************************************************************)
EXTENDS Naturals

CONSTANTS
  Callers,      \* requests that ask to pass
  Limit,        \* uses of one window
  Window,       \* ticks of one window (window_seconds)
  MaxNow,       \* bound: the last tick
  RedisFails    \* calls of Redis may raise

ASSUME RateAssumption ==
  /\ Limit \in Nat \ {0} /\ Window \in Nat \ {0} /\ MaxNow \in Nat
  /\ RedisFails \in BOOLEAN

VARIABLES
  now,          \* the clock
  used,         \* per key: its counter, 0 while the key does not exist
  expires,      \* per key: the tick at which Redis drops it, Never without EXPIRE
  ask,          \* per caller: "new", "passed", "refused", "died"
  judged,       \* history, per tick: how many have passed by its end because their use was
                \* within the limit
  unjudged      \* history, per tick: how many uses were counted by its end and never judged

limitVars == <<now, used, expires, ask, judged, unjudged>>

Ticks == 0..MaxNow
Keys  == 0..(MaxNow \div Window)
Never == MaxNow + Window + 1

LimitTypeOK ==
  /\ now \in Ticks
  /\ used \in [Keys -> Nat]
  /\ expires \in [Keys -> 0..Never]
  /\ ask \in [Callers -> {"new", "passed", "refused", "died"}]
  /\ judged \in [Ticks -> Nat] /\ unjudged \in [Ticks -> Nat]

LimitInit ==
  /\ now = 0
  /\ used = [k \in Keys |-> 0]
  /\ expires = [k \in Keys |-> Never]
  /\ ask = [q \in Callers |-> "new"]
  /\ judged = [t \in Ticks |-> 0] /\ unjudged = [t \in Ticks |-> 0]

\* Mutants: a key without the window in it; one use too many.
OneKey(t)       == 0
OverByOne(n)    == n > Limit + 1

KeyOf(t) == t \div Window
Over(n)  == n > Limit

\* EXPIRE only on the first use, so that later ones do not extend the window.
Expiry(k, set) == IF used[k] = 0 /\ set
                  THEN [expires EXCEPT ![k] = now + Window] ELSE expires

\* One more by the end of this tick and of all that follow.
OneMore(count) == [t \in Ticks |-> IF now <= t THEN count[t] + 1 ELSE count[t]]

\* check: INCR, EXPIRE when it was the first, and the comparison.
Check(q) ==
  LET k == KeyOf(now)
  IN  /\ ask[q] = "new"
      /\ used' = [used EXCEPT ![k] = @ + 1]
      /\ expires' = Expiry(k, TRUE)
      /\ \/ Over(used[k] + 1) /\ ask' = [ask EXCEPT ![q] = "refused"] /\ UNCHANGED judged
         \/ ~Over(used[k] + 1) /\ ask' = [ask EXCEPT ![q] = "passed"]
              /\ judged' = OneMore(judged)
      /\ UNCHANGED <<now, unjudged>>

\* INCR raises without having counted: the request passes.
CheckUncounted(q) ==
  /\ RedisFails
  /\ ask[q] = "new"
  /\ ask' = [ask EXCEPT ![q] = "passed"]
  /\ UNCHANGED <<now, used, expires, judged, unjudged>>

\* The answer of INCR is lost, or EXPIRE raises: the request passes, and a key made
\* by it never expires.
CheckUnanswered(q) ==
  LET k == KeyOf(now)
  IN  /\ RedisFails
      /\ ask[q] = "new"
      /\ used' = [used EXCEPT ![k] = @ + 1]
      /\ expires' = Expiry(k, FALSE)
      /\ ask' = [ask EXCEPT ![q] = "passed"]
      /\ unjudged' = OneMore(unjudged)
      /\ UNCHANGED <<now, judged>>

\* The API dies after INCR, before EXPIRE or after it: a use that lets nobody through.
CheckDies(q) ==
  LET k == KeyOf(now)
  IN  /\ ask[q] = "new"
      /\ used' = [used EXCEPT ![k] = @ + 1]
      /\ expires' \in {Expiry(k, TRUE), Expiry(k, FALSE)}
      /\ ask' = [ask EXCEPT ![q] = "died"]
      /\ unjudged' = OneMore(unjudged)
      /\ UNCHANGED <<now, judged>>

\* Time passes, as long as someone still has to ask.
Tick ==
  LET dropped == {k \in Keys : expires[k] = now + 1}
  IN  /\ now < MaxNow
      /\ \E q \in Callers : ask[q] = "new"
      /\ now' = now + 1
      /\ used' = [k \in Keys |-> IF k \in dropped THEN 0 ELSE used[k]]
      /\ expires' = [k \in Keys |-> IF k \in dropped THEN Never ELSE expires[k]]
      /\ UNCHANGED <<ask, judged, unjudged>>

LimitStep(q) == Check(q) \/ CheckUncounted(q) \/ CheckUnanswered(q)

\* How many there were before a tick, and the tick at which the window of one began.
Before(count, t) == IF t = 0 THEN 0 ELSE count[t - 1]
Edge(t)           == Window * (t \div Window)

\* A ceiling a client can count on: whatever stretch of a window's length it looks at,
\* over an edge or not, no more than twice the limit got through a Redis that answers.
SpanBound ==
  \A t \in Ticks : \A u \in Ticks :
    u < t + Window => judged[u] <= Before(judged, t) + 2 * Limit

\* Nobody is refused for what an earlier window used up, also when its key was left
\* without an expiry: by then as many uses as the limit were counted in this one. Those
\* that let nobody through, because the API died with them, are among them.
RefusedOnlyWhenSpent ==
  [][\A q \in Callers :
       ask[q] # "refused" /\ ask'[q] = "refused" =>
         Before(judged, Edge(now)) + Before(unjudged, Edge(now)) + Limit
           <= judged[now] + unjudged[now]]_limitVars

=============================================================================
