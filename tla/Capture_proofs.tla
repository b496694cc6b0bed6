----------------------------- MODULE Capture_proofs -----------------------------
(***************************************************************************)
(* What saving guarantees for any number of requests and contents, however *)
(* their documents share parts, with any of the faults and any allowance.  *)
(***************************************************************************)
EXTENDS Capture, Chunking, FiniteSetTheorems, TLAPS

\* How far a request has come: the parts before the one it is at are stored, by anyone, or
\* inserted by itself, and what is inserted and open is nobody else's.
Behind(q) == IF pc[q] \in {"embed", "commit"} THEN part[q] ELSE part[q] - 1

RequestOK(q) ==
  /\ part[q] \in 1 .. Len(PartsOf[q])
  /\ pc[q] \in Open =>
       \A i \in 1 .. Behind(q) : PartsOf[q][i] \in Stored \cup ToSet(fresh[q])
  /\ pc[q] = "commit" => part[q] = Len(PartsOf[q])
  /\ pc[q] \in Open => ToSet(fresh[q]) \cap Stored = {}
  /\ pc[q] = "hand" => ToSet(fresh[q]) \subseteq Stored
  /\ pc[q] = "done" => fresh[q] = <<>>
  /\ pc[q] \in {"ask", "failed", "gone"} => fresh[q] = <<>> /\ part[q] = 1

RequestsOK == \A q \in Requests : RequestOK(q)

Exclusive ==
  \A q, b \in Requests : q # b /\ pc[q] \in Open /\ pc[b] \in Open =>
     ToSet(fresh[q]) \cap ToSet(fresh[b]) = {}

\* The variables of the handler, without those of the rate limit.
CaptureTypes ==
  /\ owner \in [Contents -> Requests \cup {NoRequest}]
  /\ run \in [Contents -> {"none", "queued", "failed"}]
  /\ jobs \subseteq Contents
  /\ hasWiki \in BOOLEAN
  /\ pc \in [Requests -> Points]
  /\ part \in [Requests -> Nat]
  /\ fresh \in [Requests -> Seq(Contents)]
  /\ madeWiki \in [Requests -> BOOLEAN]
  /\ resends \in 0..MaxResends
  /\ crashed \in BOOLEAN

\* What was counted in the window of now is tied to its counter: whoever passed has been
\* counted, and the history has what was counted, unless that is as many as the limit. A counter
\* outlives its window, and those of later windows are not there yet.
Begun(passed) == Before(passed, Edge(now))

Allowance ==
  /\ \A t, u \in Ticks : t <= u => judged[t] <= judged[u]
  /\ \A u \in Ticks : now <= u => judged[u] = judged[now] /\ unjudged[u] = unjudged[now]
  /\ \A k \in Keys : Window * (k + 1) <= expires[k]
  /\ \A k \in Keys : KeyOf(now) < k => used[k] = 0
  /\ judged[now] <= Begun(judged) + used[KeyOf(now)]
  /\ \/ Begun(judged) + Begun(unjudged) + used[KeyOf(now)] <= judged[now] + unjudged[now]
     \/ Begun(judged) + Begun(unjudged) + Limit <= judged[now] + unjudged[now]
  /\ \A u \in Ticks : judged[u] <= Before(judged, Edge(u)) + Limit

IInv == /\ LimitTypeOK /\ CaptureTypes
        /\ RequestsOK /\ Exclusive
        /\ WholeDocumentOrNone /\ HandedOrMarked /\ JobsHaveRows

-----------------------------------------------------------------------------
(* The allowance.                                                            *)

LEMMA DivMonotone ==
  ASSUME NEW a \in Nat, NEW b \in Nat, NEW w \in Nat \ {0}, a <= b
  PROVE  a \div w \in Nat /\ a \div w <= b \div w
<1> DEFINE p == a \div w
           q == b \div w
<1>1. p \in Nat /\ q \in Nat /\ w * p <= a /\ b < w * (q + 1)
  OBVIOUS
<1>2. ASSUME q < p PROVE FALSE
  <2>1. q + 1 <= p
    BY <1>1, <1>2
  <2>2. w * (q + 1) <= w * p
    BY <1>1, <2>1
  <2> QED BY <1>1, <2>2
<1> QED BY <1>1, <1>2

LEMMA KeyLemma == \A t \in Ticks : KeyOf(t) \in Keys
<1> SUFFICES ASSUME NEW t \in Ticks PROVE t \div Window \in 0 .. (MaxNow \div Window)
  BY DEF KeyOf, Keys
<1>1. t \in Nat /\ MaxNow \in Nat /\ t <= MaxNow /\ Window \in Nat \ {0}
  BY RateAssumption DEF Ticks
<1>2. t \div Window \in Nat /\ t \div Window <= MaxNow \div Window
  BY <1>1, DivMonotone
<1>3. MaxNow \div Window \in Nat
  BY <1>1
<1> QED BY <1>2, <1>3

LEMMA LimitInitLemma == LimitInit => LimitTypeOK
<1> SUFFICES ASSUME LimitInit PROVE LimitTypeOK
  OBVIOUS
<1>1. Never \in 0 .. Never /\ 0 \in Ticks
  BY RateAssumption DEF Never, Ticks
<1> QED BY <1>1 DEF LimitInit, LimitTypeOK

LEMMA LimitLemma ==
  ASSUME LimitTypeOK, NEW q \in Callers, LimitStep(q) \/ CheckDies(q)
  PROVE  LimitTypeOK'
<1>1. KeyOf(now) \in Keys /\ now \in Ticks
  BY KeyLemma DEF LimitTypeOK
<1>2. now + Window \in 0 .. Never
  BY <1>1, RateAssumption DEF Never, Ticks
<1>3. /\ Expiry(KeyOf(now), TRUE) \in [Keys -> 0 .. Never]
      /\ Expiry(KeyOf(now), FALSE) \in [Keys -> 0 .. Never]
  <2>1. expires \in [Keys -> 0 .. Never]
    BY DEF LimitTypeOK
  <2>2. [expires EXCEPT ![KeyOf(now)] = now + Window] \in [Keys -> 0 .. Never]
    BY <1>2, <2>1
  <2> QED BY <2>1, <2>2 DEF Expiry
<1>4. used' \in [Keys -> Nat] /\ expires' \in [Keys -> 0 .. Never]
  <2>0. used \in [Keys -> Nat] /\ expires \in [Keys -> 0 .. Never]
    BY DEF LimitTypeOK
  <2>1. [used EXCEPT ![KeyOf(now)] = @ + 1] \in [Keys -> Nat]
    BY <1>1, <2>0
  <2>2. CASE Check(q)
    <3>1. used' = [used EXCEPT ![KeyOf(now)] = @ + 1] /\ expires' = Expiry(KeyOf(now), TRUE)
      BY <2>2 DEF Check
    <3> QED BY <1>3, <2>1, <3>1
  <2>3. CASE CheckUncounted(q)
    BY <2>0, <2>3 DEF CheckUncounted
  <2>4. CASE CheckUnanswered(q)
    <3>1. used' = [used EXCEPT ![KeyOf(now)] = @ + 1] /\ expires' = Expiry(KeyOf(now), FALSE)
      BY <2>4 DEF CheckUnanswered
    <3> QED BY <1>3, <2>1, <3>1
  <2>5. CASE CheckDies(q)
    BY <1>3, <2>1, <2>5 DEF CheckDies
  <2> QED BY <2>2, <2>3, <2>4, <2>5 DEF LimitStep
<1>5. /\ now' \in Ticks /\ ask' \in [Callers -> {"new", "passed", "refused", "died"}]
      /\ judged' \in [Ticks -> Nat] /\ unjudged' \in [Ticks -> Nat]
  <2>0. /\ now \in Ticks /\ ask \in [Callers -> {"new", "passed", "refused", "died"}]
        /\ judged \in [Ticks -> Nat] /\ unjudged \in [Ticks -> Nat]
    BY DEF LimitTypeOK
  <2>1. OneMore(judged) \in [Ticks -> Nat] /\ OneMore(unjudged) \in [Ticks -> Nat]
    BY <2>0 DEF OneMore
  <2>2. \A a \in {"passed", "refused", "died"} :
          [ask EXCEPT ![q] = a] \in [Callers -> {"new", "passed", "refused", "died"}]
    BY <2>0
  <2> QED BY <2>0, <2>1, <2>2 DEF LimitStep, Check, CheckUncounted, CheckUnanswered, CheckDies
<1> QED BY <1>4, <1>5 DEF LimitTypeOK

LEMMA TickLemma == LimitTypeOK /\ Tick => LimitTypeOK'
<1> SUFFICES ASSUME LimitTypeOK, Tick PROVE LimitTypeOK'
  OBVIOUS
<1>1. now' \in Ticks /\ Never \in 0 .. Never
  BY RateAssumption DEF LimitTypeOK, Tick, Ticks, Never
<1> QED BY <1>1 DEF LimitTypeOK, Tick

LEMMA LimitUnchanged == LimitTypeOK /\ UNCHANGED limitVars => LimitTypeOK'
<1> QED BY DEF LimitTypeOK, limitVars

\* A division by the window's length, and the edge it gives.
LEMMA DivUnique ==
  ASSUME NEW a \in Nat, NEW w \in Nat \ {0}, NEW q \in Nat, w * q <= a, a < w * (q + 1)
  PROVE  a \div w = q
<1> DEFINE p == a \div w
<1>1. p \in Nat /\ w * p <= a /\ a < w * (p + 1)
  OBVIOUS
<1>2. ASSUME p < q PROVE FALSE
  <2>1. p + 1 <= q
    BY <1>1, <1>2
  <2>2. w * (p + 1) <= w * q
    BY <1>1, <2>1
  <2> QED BY <1>1, <2>2
<1>3. ASSUME q < p PROVE FALSE
  <2>1. q + 1 <= p
    BY <1>1, <1>3
  <2>2. w * (q + 1) <= w * p
    BY <1>1, <2>1
  <2> QED BY <1>1, <2>2
<1> QED BY <1>1, <1>2, <1>3

LEMMA EdgeLemma ==
  ASSUME NEW t \in Nat
  PROVE  /\ KeyOf(t) \in Nat /\ Edge(t) \in Nat /\ Edge(t) = Window * KeyOf(t)
         /\ Edge(t) <= t /\ t < Edge(t) + Window
         /\ Edge(t) + Window = Window * (KeyOf(t) + 1)
<1> DEFINE q == t \div Window
<1>1. Window \in Nat \ {0}
  BY RateAssumption
<1>2. q \in Nat /\ Window * q <= t /\ t < Window * (q + 1)
  BY <1>1
<1>3. Window * q \in Nat /\ Window * (q + 1) = Window * q + Window
  BY <1>1, <1>2
<1> QED BY <1>2, <1>3 DEF KeyOf, Edge

\* A tick later it is the same window, or the next one has just begun.
LEMMA EdgeNext ==
  ASSUME NEW t \in Nat
  PROVE  \/ KeyOf(t + 1) = KeyOf(t) /\ Edge(t + 1) = Edge(t) /\ t + 1 < Edge(t) + Window
         \/ KeyOf(t + 1) = KeyOf(t) + 1 /\ Edge(t + 1) = t + 1
<1>0. Window \in Nat \ {0}
  BY RateAssumption
<1>1. /\ KeyOf(t) \in Nat /\ Edge(t) \in Nat /\ Edge(t) = Window * KeyOf(t)
      /\ Edge(t) <= t /\ t < Edge(t) + Window
      /\ Edge(t) + Window = Window * (KeyOf(t) + 1)
  BY EdgeLemma
<1>2. KeyOf(t + 1) = (t + 1) \div Window /\ Edge(t + 1) = Window * KeyOf(t + 1)
  BY DEF KeyOf, Edge
<1>3. CASE t + 1 < Edge(t) + Window
  <2>1. (t + 1) \div Window = KeyOf(t)
    BY <1>0, <1>1, <1>3, DivUnique
  <2> QED BY <1>1, <1>2, <1>3, <2>1
<1>4. CASE t + 1 = Edge(t) + Window
  <2>1. Window * (KeyOf(t) + 1) <= t + 1
    BY <1>1, <1>4
  <2>2. Window * ((KeyOf(t) + 1) + 1) = Window * (KeyOf(t) + 1) + Window
        /\ Window * (KeyOf(t) + 1) \in Nat
    BY <1>0, <1>1
  <2>3. t + 1 < Window * ((KeyOf(t) + 1) + 1)
    BY <1>0, <1>1, <1>4, <2>2
  <2>4. (t + 1) \div Window = KeyOf(t) + 1
    BY <1>0, <1>1, <2>1, <2>3, DivUnique
  <2> QED BY <1>1, <1>2, <1>4, <2>4
<1> QED BY <1>0, <1>1, <1>3, <1>4

\* Counting one more changes nothing of what was before.
LEMMA OneMoreLemma ==
  ASSUME now \in Ticks, NEW passed \in [Ticks -> Nat], NEW t \in Ticks
  PROVE  /\ OneMore(passed) \in [Ticks -> Nat]
         /\ OneMore(passed)[t] = IF now <= t THEN passed[t] + 1 ELSE passed[t]
         /\ Before(passed, t) \in Nat
         /\ Before(OneMore(passed), t) =
              IF t <= now THEN Before(passed, t) ELSE Before(passed, t) + 1
<1>1. now \in Nat /\ t \in Nat /\ (t # 0 => t - 1 \in Ticks) /\ Ticks \subseteq Nat
  BY RateAssumption DEF Ticks
<1>2. t # 0 => (now <= t - 1 <=> ~(t <= now))
  BY <1>1
<1>3. \A u \in Ticks : OneMore(passed)[u] = IF now <= u THEN passed[u] + 1 ELSE passed[u]
  BY DEF OneMore
<1>4. OneMore(passed) \in [Ticks -> Nat] /\ \A u \in Ticks : passed[u] \in Nat
  BY DEF OneMore
<1>5. CASE t = 0
  BY <1>1, <1>3, <1>4, <1>5 DEF Before
<1>6. CASE t # 0
  <2>1. Before(passed, t) = passed[t - 1] /\ Before(OneMore(passed), t) = OneMore(passed)[t - 1]
    BY <1>6 DEF Before
  <2> QED BY <1>1, <1>2, <1>3, <1>4, <1>6, <2>1
<1> QED BY <1>5, <1>6

LEMMA EdgeTick ==
  ASSUME LimitTypeOK, NEW u \in Ticks
  PROVE  u \in Nat /\ Edge(u) \in Ticks /\ Edge(u) <= u
<1>1. u \in Nat /\ MaxNow \in Nat /\ u <= MaxNow
  BY RateAssumption DEF Ticks
<1>2. Edge(u) \in Nat /\ Edge(u) <= u
  BY <1>1, EdgeLemma
<1> QED BY <1>1, <1>2 DEF Ticks

LEMMA AllowanceInit == LimitInit => Allowance
<1> SUFFICES ASSUME LimitInit PROVE Allowance
  OBVIOUS
<1>1. now = 0 /\ 0 \in Ticks /\ LimitTypeOK /\ Ticks \subseteq Nat
  BY LimitInitLemma, RateAssumption DEF LimitInit, Ticks
<1>2. \A t \in Ticks : judged[t] = 0 /\ unjudged[t] = 0
  BY DEF LimitInit
<1>3. \A t \in Ticks : Before(judged, t) = 0 /\ Before(unjudged, t) = 0
  <2>1. \A t \in Ticks : t # 0 => t - 1 \in Ticks
    BY RateAssumption DEF Ticks
  <2> QED BY <1>2, <2>1 DEF Before
<1>4. \A u \in Ticks : Edge(u) \in Ticks
  BY <1>1, EdgeTick
<1>5. KeyOf(now) \in Keys /\ \A k \in Keys : used[k] = 0
  BY <1>1, KeyLemma DEF LimitInit
<1>6. ASSUME NEW k \in Keys PROVE Window * (k + 1) <= expires[k]
  <2>1. k \in Nat /\ k <= MaxNow \div Window /\ Window \in Nat \ {0} /\ MaxNow \in Nat
        /\ MaxNow \div Window \in Nat /\ Window * (MaxNow \div Window) <= MaxNow
    BY RateAssumption DEF Keys
  <2>2. Window * k <= Window * (MaxNow \div Window) /\ Window * (k + 1) = Window * k + Window
        /\ Window * k \in Nat /\ Window * (MaxNow \div Window) \in Nat
    BY <2>1
  <2>3. expires[k] = MaxNow + Window + 1
    BY DEF LimitInit, Never
  <2> QED BY <2>1, <2>2, <2>3
<1>7. Begun(judged) = 0 /\ Begun(unjudged) = 0 /\ Limit \in Nat
  BY <1>1, <1>3, <1>4, RateAssumption DEF Begun
<1>8. \A u \in Ticks : judged[u] <= Before(judged, Edge(u)) + Limit
  BY <1>2, <1>3, <1>4, <1>7
<1>9. judged[now] = 0 /\ unjudged[now] = 0 /\ used[KeyOf(now)] = 0
  BY <1>1, <1>2, <1>5
<1> QED BY <1>1, <1>2, <1>5, <1>6, <1>7, <1>8, <1>9 DEF Allowance

\* A use of the window of now.
LEMMA AllowanceUsed ==
  ASSUME LimitTypeOK, Allowance, NEW q \in Callers,
         Check(q) \/ CheckUnanswered(q) \/ CheckDies(q)
  PROVE  Allowance'
<1> DEFINE k == KeyOf(now)
           e == Edge(now)
<1>1. /\ now \in Ticks /\ now \in Nat /\ Ticks \subseteq Nat /\ k \in Keys /\ k \in Nat
      /\ e \in Ticks /\ e \in Nat /\ e <= now /\ now < e + Window
      /\ e + Window = Window * (k + 1) /\ Limit \in Nat /\ Window \in Nat
  <2>1. now \in Ticks /\ now \in Nat /\ Ticks \subseteq Nat
    BY RateAssumption DEF LimitTypeOK, Ticks
  <2> QED BY <2>1, KeyLemma, EdgeLemma, EdgeTick, RateAssumption
<1>2. /\ judged \in [Ticks -> Nat] /\ unjudged \in [Ticks -> Nat]
      /\ used \in [Keys -> Nat] /\ expires \in [Keys -> 0 .. Never] /\ Keys \subseteq Nat
  BY DEF LimitTypeOK, Keys
<1>3. /\ now' = now /\ used' = [used EXCEPT ![k] = @ + 1]
      /\ \/ expires' = expires \/ expires' = [expires EXCEPT ![k] = now + Window]
      /\ \/ judged' = judged /\ unjudged' = unjudged /\ Limit <= used[k]
         \/ judged' = OneMore(judged) /\ unjudged' = unjudged /\ used[k] + 1 <= Limit
         \/ judged' = judged /\ unjudged' = OneMore(unjudged)
  BY <1>1, <1>2 DEF Check, CheckUnanswered, CheckDies, Over, Expiry
<1>4. /\ \A f \in {judged, unjudged}, t \in Ticks :
           /\ OneMore(f)[t] = IF now <= t THEN f[t] + 1 ELSE f[t]
           /\ Before(f, t) \in Nat
           /\ Before(OneMore(f), t) = IF t <= now THEN Before(f, t) ELSE Before(f, t) + 1
  BY <1>1, <1>2, OneMoreLemma
<1>5. \A u \in Ticks : Edge(u) \in Ticks /\ Edge(u) <= u
  BY EdgeTick
<1> HIDE DEF k, e
<1>6. /\ \A t, u \in Ticks : t <= u => judged[t] <= judged[u]
      /\ \A u \in Ticks : now <= u => judged[u] = judged[now] /\ unjudged[u] = unjudged[now]
      /\ \A i \in Keys : Window * (i + 1) <= expires[i]
      /\ \A i \in Keys : k < i => used[i] = 0
      /\ judged[now] <= Before(judged, e) + used[k]
      /\ \/ Before(judged, e) + Before(unjudged, e) + used[k] <= judged[now] + unjudged[now]
         \/ Before(judged, e) + Before(unjudged, e) + Limit <= judged[now] + unjudged[now]
      /\ \A u \in Ticks : judged[u] <= Before(judged, Edge(u)) + Limit
  BY DEF Allowance, Begun, k, e
<1>7. /\ \A t, u \in Ticks : t <= u => judged'[t] <= judged'[u]
      /\ \A u \in Ticks : now <= u => judged'[u] = judged'[now] /\ unjudged'[u] = unjudged'[now]
  BY <1>1, <1>2, <1>3, <1>4, <1>6
<1>8. \A i \in Keys : Window * (i + 1) <= expires'[i]
  <2>1. Window * (k + 1) <= now + Window
    BY <1>1
  <2> QED BY <1>1, <1>2, <1>3, <1>6, <2>1
<1>9. \A i \in Keys : k < i => used'[i] = 0
  BY <1>1, <1>2, <1>3, <1>6
<1>10. used'[k] = used[k] + 1 /\ used[k] \in Nat /\ judged[now] \in Nat /\ unjudged[now] \in Nat
       /\ Before(judged, e) \in Nat /\ Before(unjudged, e) \in Nat
  BY <1>1, <1>2, <1>3, <1>4
<1>11. Before(judged', e) = Before(judged, e) /\ Before(unjudged', e) = Before(unjudged, e)
  BY <1>1, <1>3, <1>4
<1>12. \/ judged'[now] = judged[now] /\ unjudged'[now] = unjudged[now] /\ Limit <= used[k]
       \/ judged'[now] = judged[now] + 1 /\ unjudged'[now] = unjudged[now]
       \/ judged'[now] = judged[now] /\ unjudged'[now] = unjudged[now] + 1
  BY <1>1, <1>3, <1>4
<1>13. judged'[now] <= Before(judged', e) + used'[k]
  BY <1>1, <1>6, <1>10, <1>11, <1>12
<1>14. \/ Before(judged', e) + Before(unjudged', e) + used'[k] <= judged'[now] + unjudged'[now]
       \/ Before(judged', e) + Before(unjudged', e) + Limit <= judged'[now] + unjudged'[now]
  BY <1>1, <1>6, <1>10, <1>11, <1>12
<1>15. ASSUME NEW u \in Ticks PROVE judged'[u] <= Before(judged', Edge(u)) + Limit
  <2>1. CASE judged' = judged
    BY <1>6, <2>1
  <2>2. CASE judged' = OneMore(judged) /\ used[k] + 1 <= Limit
    <3>0. /\ u \in Nat /\ Edge(u) \in Ticks /\ Edge(u) \in Nat /\ Edge(u) <= u
          /\ judged[u] \in Nat /\ Before(judged, Edge(u)) \in Nat
          /\ judged[u] <= Before(judged, Edge(u)) + Limit
      BY <1>1, <1>2, <1>4, <1>5, <1>6
    <3>1. CASE u < now
      <4>1. judged'[u] = judged[u] /\ Before(judged', Edge(u)) = Before(judged, Edge(u))
        BY <1>1, <1>4, <2>2, <3>0, <3>1
      <4> QED BY <3>0, <4>1
    <3>2. CASE now < Edge(u)
      <4>1. judged'[u] = judged[u] + 1
            /\ Before(judged', Edge(u)) = Before(judged, Edge(u)) + 1
        BY <1>1, <1>4, <2>2, <3>0, <3>2
      <4> QED BY <1>1, <3>0, <4>1
    <3>3. CASE now <= u /\ Edge(u) <= now
      <4>1. KeyOf(u) = k /\ Edge(u) = e
        <5>1. /\ Edge(u) = Window * KeyOf(u) /\ KeyOf(u) \in Nat
              /\ u < Window * (KeyOf(u) + 1) /\ Edge(u) <= now /\ now <= u
          BY <3>0, <3>3, EdgeLemma
        <5>2. now < Window * (KeyOf(u) + 1) /\ Window * KeyOf(u) <= now
          BY <1>1, <3>0, <5>1
        <5>3. now \div Window = KeyOf(u)
          BY <1>1, <5>1, <5>2, DivUnique, RateAssumption
        <5> QED BY <1>1, <5>1, <5>3, EdgeLemma DEF KeyOf, k, e
      <4>2. judged'[u] = judged'[now] /\ judged'[now] = judged[now] + 1
        BY <1>1, <1>4, <1>7, <2>2, <3>3
      <4> QED BY <1>1, <1>6, <1>10, <1>11, <2>2, <4>1, <4>2
    <3> QED BY <1>1, <3>0, <3>1, <3>2, <3>3
  <2> QED BY <1>3, <2>1, <2>2
<1>16. KeyOf(now)' = k /\ Edge(now)' = e
  BY <1>3 DEF KeyOf, Edge, k, e
<1>17. Begun(judged)' = Before(judged', e) /\ Begun(unjudged)' = Before(unjudged', e)
  BY <1>16 DEF Begun, Before
<1>18. \A u \in Ticks : Before(judged, Edge(u))' = Before(judged', Edge(u))
  BY DEF Before, Edge
<1> QED BY <1>3, <1>7, <1>8, <1>9, <1>13, <1>14, <1>15, <1>16, <1>17, <1>18 DEF Allowance

\* Time passes: a new window begins with nothing used and nothing passed.
LEMMA AllowanceTick ==
  ASSUME LimitTypeOK, Allowance, Tick
  PROVE  Allowance'
<1> DEFINE k == KeyOf(now)
           e == Edge(now)
           f == Edge(now + 1)
<1>1. /\ now \in Ticks /\ now \in Nat /\ now + 1 \in Ticks /\ Ticks \subseteq Nat /\ k \in Keys
      /\ k \in Nat /\ e \in Ticks /\ e \in Nat /\ e <= now /\ now < e + Window
      /\ e + Window = Window * (k + 1) /\ Limit \in Nat /\ Window \in Nat
  <2>1. now \in Ticks /\ now \in Nat /\ now + 1 \in Ticks /\ Ticks \subseteq Nat
    BY RateAssumption DEF LimitTypeOK, Ticks, Tick
  <2> QED BY <2>1, KeyLemma, EdgeLemma, EdgeTick, RateAssumption
<1>2. /\ judged \in [Ticks -> Nat] /\ unjudged \in [Ticks -> Nat]
      /\ used \in [Keys -> Nat] /\ expires \in [Keys -> 0 .. Never] /\ Keys \subseteq Nat
  BY DEF LimitTypeOK, Keys
<1>3. /\ now' = now + 1 /\ judged' = judged /\ unjudged' = unjudged
      /\ \A i \in Keys : \/ expires[i] = now + 1 /\ used'[i] = 0 /\ expires'[i] = Never
                         \/ expires[i] # now + 1 /\ used'[i] = used[i] /\ expires'[i] = expires[i]
  BY <1>2 DEF Tick
<1>4. \A i \in Keys : i \in Nat /\ used[i] \in Nat /\ Window * (i + 1) \in Nat
  BY <1>1, <1>2
<1>5. /\ \A t \in Ticks : judged[t] \in Nat /\ unjudged[t] \in Nat
      /\ judged[now + 1] = judged[now] /\ unjudged[now + 1] = unjudged[now]
  BY <1>1, <1>2 DEF Allowance
<1>6. \/ KeyOf(now + 1) = k /\ f = e /\ now + 1 < e + Window
      \/ KeyOf(now + 1) = k + 1 /\ f = now + 1
  BY <1>1, EdgeNext
<1>7. KeyOf(now + 1) \in Keys /\ f \in Ticks
  BY <1>1, KeyLemma, EdgeTick
<1>8. \A g \in {judged, unjudged} :
        Before(g, now + 1) = g[now] /\ Before(g, e) \in Nat /\ Before(g, f) \in Nat
  <2>1. now + 1 # 0 /\ (now + 1) - 1 = now
    BY <1>1
  <2> QED BY <1>1, <1>2, <1>7, <2>1, OneMoreLemma DEF Before
<1> HIDE DEF k, e, f
<1>9. /\ \A t, u \in Ticks : t <= u => judged[t] <= judged[u]
      /\ \A u \in Ticks : now <= u => judged[u] = judged[now] /\ unjudged[u] = unjudged[now]
      /\ \A i \in Keys : Window * (i + 1) <= expires[i]
      /\ \A i \in Keys : k < i => used[i] = 0
      /\ judged[now] <= Before(judged, e) + used[k]
      /\ \/ Before(judged, e) + Before(unjudged, e) + used[k] <= judged[now] + unjudged[now]
         \/ Before(judged, e) + Before(unjudged, e) + Limit <= judged[now] + unjudged[now]
      /\ \A u \in Ticks : judged[u] <= Before(judged, Edge(u)) + Limit
  BY DEF Allowance, Begun, k, e
<1>10. \A u \in Ticks : now + 1 <= u =>
         judged[u] = judged[now + 1] /\ unjudged[u] = unjudged[now + 1]
  BY <1>1, <1>5, <1>9
<1>11. \A i \in Keys : Window * (i + 1) <= expires'[i]
  <2>1. ASSUME NEW i \in Keys PROVE Window * (i + 1) <= Never
    <3>1. i \in Nat /\ i <= MaxNow \div Window /\ Window \in Nat \ {0} /\ MaxNow \in Nat
          /\ MaxNow \div Window \in Nat /\ Window * (MaxNow \div Window) <= MaxNow
      BY RateAssumption DEF Keys
    <3>2. Window * i <= Window * (MaxNow \div Window) /\ Window * (i + 1) = Window * i + Window
          /\ Window * i \in Nat /\ Window * (MaxNow \div Window) \in Nat
      BY <3>1
    <3> QED BY <3>1, <3>2 DEF Never
  <2> QED BY <1>3, <1>9, <2>1
<1>12. \A i \in Keys : KeyOf(now + 1) < i => used'[i] = 0
  <2>1. \A i \in Keys : KeyOf(now + 1) < i => k < i
    BY <1>1, <1>4, <1>6
  <2> QED BY <1>3, <1>9, <2>1
<1>13. /\ judged[now + 1] <= Before(judged, f) + used'[KeyOf(now + 1)]
       /\ \/ Before(judged, f) + Before(unjudged, f) + used'[KeyOf(now + 1)]
               <= judged[now + 1] + unjudged[now + 1]
          \/ Before(judged, f) + Before(unjudged, f) + Limit
               <= judged[now + 1] + unjudged[now + 1]
  <2>1. CASE KeyOf(now + 1) = k /\ f = e /\ now + 1 < e + Window
    <3>1. used'[k] = used[k]
      BY <1>1, <1>2, <1>3, <1>4, <1>9, <2>1
    <3> QED BY <1>5, <1>9, <2>1, <3>1
  <2>2. CASE KeyOf(now + 1) = k + 1 /\ f = now + 1
    <3>1. used'[k + 1] = 0
      BY <1>1, <1>3, <1>7, <1>9, <2>2
    <3>2. /\ Before(judged, f) = judged[now + 1] /\ Before(unjudged, f) = unjudged[now + 1]
          /\ judged[now + 1] \in Nat /\ unjudged[now + 1] \in Nat
      BY <1>1, <1>5, <1>8, <2>2
    <3> QED BY <2>2, <3>1, <3>2
  <2> QED BY <1>6, <2>1, <2>2
<1>14. KeyOf(now)' = KeyOf(now + 1) /\ Edge(now)' = f
  BY <1>3 DEF KeyOf, Edge, f
<1>15. Begun(judged)' = Before(judged, f) /\ Begun(unjudged)' = Before(unjudged, f)
  BY <1>3, <1>14 DEF Begun, Before
<1>16. \A u \in Ticks : Before(judged, Edge(u))' = Before(judged, Edge(u))
  BY <1>3 DEF Before, Edge
<1> QED BY <1>3, <1>9, <1>10, <1>11, <1>12, <1>13, <1>14, <1>15, <1>16 DEF Allowance

LEMMA AllowanceUnchanged ==
  Allowance /\ UNCHANGED <<now, used, expires, judged, unjudged>> => Allowance'
<1> QED BY DEF Allowance, Begun, Before, Edge, KeyOf

LEMMA AllowanceStep ==
  ASSUME LimitTypeOK, Allowance, NEW q \in Callers, LimitStep(q) \/ CheckDies(q)
  PROVE  Allowance'
<1>1. CASE CheckUncounted(q)
  BY <1>1, AllowanceUnchanged DEF CheckUncounted
<1> QED BY <1>1, AllowanceUsed DEF LimitStep

\* Over an edge: what is left of one window, and what has begun of the next.
LEMMA SpanLemma ==
  ASSUME LimitTypeOK, Allowance
  PROVE  SpanBound
<1> SUFFICES ASSUME NEW t \in Ticks, NEW u \in Ticks, u < t + Window
             PROVE  judged[u] <= Before(judged, t) + 2 * Limit
  BY DEF SpanBound
<1>1. /\ t \in Nat /\ u \in Nat /\ Ticks \subseteq Nat /\ Limit \in Nat /\ Window \in Nat
      /\ judged \in [Ticks -> Nat] /\ now \in Ticks
  BY RateAssumption DEF LimitTypeOK, Ticks
<1>2. /\ \A v, w \in Ticks : v <= w => judged[v] <= judged[w]
      /\ \A v \in Ticks : judged[v] <= Before(judged, Edge(v)) + Limit
  BY DEF Allowance
<1>3. \A v \in Ticks : Edge(v) \in Ticks /\ Edge(v) <= v /\ Before(judged, v) \in Nat
  BY <1>1, EdgeTick, OneMoreLemma
<1>4. ASSUME NEW v \in Ticks, NEW w \in Ticks, v <= w
      PROVE  Before(judged, v) <= Before(judged, w)
  <2>1. CASE v = 0
    BY <1>3, <2>1 DEF Before
  <2>2. CASE v # 0
    <3>1. w # 0 /\ v - 1 \in Ticks /\ w - 1 \in Ticks /\ v - 1 <= w - 1
      BY <1>1, <1>4, <2>2, RateAssumption DEF Ticks
    <3> QED BY <1>2, <2>2, <3>1 DEF Before
  <2> QED BY <2>1, <2>2
<1>a. /\ judged[u] \in Nat /\ Before(judged, t) \in Nat /\ Before(judged, Edge(u)) \in Nat
      /\ Edge(u) \in Ticks /\ Edge(u) \in Nat /\ Edge(u) <= u
      /\ judged[u] <= Before(judged, Edge(u)) + Limit
  BY <1>1, <1>2, <1>3
<1>5. CASE Edge(u) <= t
  <2>1. Before(judged, Edge(u)) <= Before(judged, t)
    BY <1>a, <1>4, <1>5
  <2> QED BY <1>1, <1>a, <2>1
<1>6. CASE t < Edge(u)
  <2> DEFINE v == Edge(u) - 1
  <2>1. v \in Ticks /\ v \in Nat /\ Edge(u) # 0 /\ v + 1 = Edge(u) /\ v <= u
    BY <1>1, <1>a, <1>6, RateAssumption DEF Ticks
  <2>2. Before(judged, Edge(u)) = judged[v]
    BY <2>1 DEF Before
  <2> HIDE DEF v
  <2>3. Edge(v) <= t
    <3>1. Edge(v + 1) = v + 1
      <4>1. Edge(u) = Window * KeyOf(u) /\ KeyOf(u) \in Nat
        BY <1>1, EdgeLemma
      <4>2. Window * KeyOf(u) < Window * (KeyOf(u) + 1)
        BY <1>1, <4>1, RateAssumption
      <4>3. (v + 1) \div Window = KeyOf(u)
        BY <1>1, <2>1, <4>1, <4>2, DivUnique, RateAssumption
      <4> QED BY <2>1, <4>1, <4>3 DEF Edge
    <3>2. Edge(v) + Window = v + 1
      <4>1. /\ Edge(v) \in Nat /\ v < Edge(v) + Window
            /\ Edge(v) + Window = Window * (KeyOf(v) + 1) /\ KeyOf(v) \in Nat /\ Edge(v) <= v
        BY <2>1, EdgeLemma
      <4>2. \/ Edge(v + 1) = Edge(v) /\ v + 1 < Edge(v) + Window
            \/ KeyOf(v + 1) = KeyOf(v) + 1 /\ Edge(v + 1) = v + 1
        BY <2>1, EdgeNext
      <4>3. KeyOf(v + 1) = KeyOf(v) + 1
        BY <2>1, <3>1, <4>1, <4>2
      <4>4. Edge(v + 1) = Window * KeyOf(v + 1)
        BY <2>1, EdgeLemma
      <4> QED BY <3>1, <4>1, <4>3, <4>4
    <3>3. Edge(v) \in Nat
      BY <2>1, EdgeLemma
    <3> QED BY <1>1, <2>1, <3>2, <3>3
  <2>4. judged[v] <= Before(judged, Edge(v)) + Limit
    BY <1>2, <2>1
  <2>5. Before(judged, Edge(v)) <= Before(judged, t)
    BY <1>3, <1>4, <2>1, <2>3
  <2>6. judged[u] <= judged[v] + Limit
    BY <1>2, <2>2
  <2>7. judged[v] \in Nat /\ Before(judged, Edge(v)) \in Nat
    BY <1>1, <1>3, <2>1
  <2> QED BY <1>1, <1>a, <2>4, <2>5, <2>6, <2>7
<1> QED BY <1>1, <1>a, <1>5, <1>6

\* Whoever is refused found the counter at the limit.
LEMMA RefusedLemma ==
  ASSUME LimitTypeOK, Allowance, NEW b \in Callers, LimitStep(b),
         NEW q \in Callers, ask[q] # "refused", ask'[q] = "refused"
  PROVE  Before(judged, Edge(now)) + Before(unjudged, Edge(now)) + Limit
           <= judged[now] + unjudged[now]
<1>1. ask \in [Callers -> {"new", "passed", "refused", "died"}]
  BY DEF LimitTypeOK
<1>2. Check(b) /\ Over(used[KeyOf(now)] + 1)
  BY <1>1 DEF LimitStep, Check, CheckUncounted, CheckUnanswered
<1>3. /\ now \in Ticks /\ KeyOf(now) \in Keys /\ Edge(now) \in Ticks /\ Limit \in Nat
      /\ used \in [Keys -> Nat] /\ judged \in [Ticks -> Nat] /\ unjudged \in [Ticks -> Nat]
  BY KeyLemma, EdgeTick, RateAssumption DEF LimitTypeOK
<1>4. Limit <= used[KeyOf(now)]
  BY <1>2, <1>3 DEF Over
<1>5. /\ Before(judged, Edge(now)) \in Nat /\ Before(unjudged, Edge(now)) \in Nat
      /\ judged[now] \in Nat /\ unjudged[now] \in Nat /\ used[KeyOf(now)] \in Nat
  BY <1>3, OneMoreLemma
<1> QED BY <1>3, <1>4, <1>5 DEF Allowance, Begun

-----------------------------------------------------------------------------
(* The requests.                                                             *)

LEMMA ToSetLemma ==
  /\ ToSet(<<>>) = {}
  /\ \A S : \A f \in Seq(S), c \in S : ToSet(Append(f, c)) = ToSet(f) \cup {c}
  /\ \A S : \A f \in Seq(S) : f # <<>> => ToSet(f) = {Head(f)} \cup ToSet(Tail(f))
<1>1. ToSet(<<>>) = {}
  BY DEF ToSet
<1>2. ASSUME NEW S, NEW f \in Seq(S), NEW c \in S PROVE ToSet(Append(f, c)) = ToSet(f) \cup {c}
  <2>1. /\ DOMAIN f = 1 .. Len(f) /\ DOMAIN Append(f, c) = 1 .. (Len(f) + 1)
        /\ \A i \in 1 .. Len(f) : Append(f, c)[i] = f[i]
        /\ Append(f, c)[Len(f) + 1] = c /\ Len(f) \in Nat
    OBVIOUS
  <2>2. 1 .. (Len(f) + 1) = (1 .. Len(f)) \cup {Len(f) + 1}
    BY <2>1
  <2> QED BY <2>1, <2>2 DEF ToSet
<1>3. ASSUME NEW S, NEW f \in Seq(S), f # <<>> PROVE ToSet(f) = {Head(f)} \cup ToSet(Tail(f))
  <2>1. /\ DOMAIN f = 1 .. Len(f) /\ DOMAIN Tail(f) = 1 .. (Len(f) - 1)
        /\ \A i \in 1 .. (Len(f) - 1) : Tail(f)[i] = f[i + 1]
        /\ Head(f) = f[1] /\ Len(f) \in Nat \ {0}
    BY <1>3
  <2>2. \A i \in 1 .. Len(f) : i = 1 \/ i - 1 \in 1 .. (Len(f) - 1)
    BY <2>1
  <2>3. ToSet(f) \subseteq {Head(f)} \cup ToSet(Tail(f))
    <3>1. ASSUME NEW i \in 1 .. Len(f) PROVE f[i] \in {Head(f)} \cup ToSet(Tail(f))
      <4>1. CASE i = 1
        BY <2>1, <4>1
      <4>2. CASE i # 1
        <5>1. i - 1 \in 1 .. (Len(f) - 1) /\ (i - 1) + 1 = i
          BY <2>2, <4>2
        <5> QED BY <2>1, <5>1 DEF ToSet
      <4> QED BY <4>1, <4>2
    <3> QED BY <2>1, <3>1 DEF ToSet
  <2>4. {Head(f)} \cup ToSet(Tail(f)) \subseteq ToSet(f)
    <3>1. ASSUME NEW i \in 1 .. (Len(f) - 1) PROVE Tail(f)[i] \in ToSet(f)
      BY <2>1 DEF ToSet
    <3>2. 1 \in 1 .. Len(f)
      BY <2>1
    <3> QED BY <2>1, <3>1, <3>2 DEF ToSet
  <2> QED BY <2>3, <2>4
<1> QED BY <1>1, <1>2, <1>3

LEMMA InitHolds == Init => IInv
<1> SUFFICES ASSUME Init PROVE IInv
  OBVIOUS
<1>1. LimitTypeOK
  BY LimitInitLemma DEF Init
<1>2. CaptureTypes
  <2>1. hasWiki \in BOOLEAN /\ <<>> \in Seq(Contents) /\ 0 \in 0 .. MaxResends
    BY PartsAssumption DEF Init
  <2> QED BY <2>1 DEF Init, CaptureTypes, Points
<1>3. Stored = {}
  BY DEF Init, Stored
<1>4. ASSUME NEW q \in Requests PROVE RequestOK(q)
  <2>1. 1 \in 1 .. Len(PartsOf[q])
    BY PartsAssumption
  <2> QED BY <2>1, ToSetLemma DEF Init, RequestOK, Open, Ended
<1>5. Exclusive
  BY DEF Init, Exclusive, Open
<1>6. WholeDocumentOrNone /\ HandedOrMarked /\ JobsHaveRows
  BY <1>3, PartsAssumption DEF Init, WholeDocumentOrNone, HandedOrMarked, JobsHaveRows
<1> QED BY <1>1, <1>2, <1>4, <1>5, <1>6 DEF IInv, RequestsOK

\* A request that moves before its commit, or starts again, and leaves the database alone.
LEMMA MoveLemma ==
  ASSUME IInv, NEW q \in Requests, pc[q] \notin {"hand", "done"},
         NEW at \in Open \cup {"ask", "failed", "gone"}, NEW n \in Nat, NEW f \in Seq(Contents),
         pc' = [pc EXCEPT ![q] = at], part' = [part EXCEPT ![q] = n],
         fresh' = [fresh EXCEPT ![q] = f],
         madeWiki' \in [Requests -> BOOLEAN], resends' \in 0 .. MaxResends,
         UNCHANGED <<dbVars, crashed>>,
         RequestOK(q)',
         at \in Open => \A b \in Requests \ {q} :
                          pc[b] \in Open => ToSet(f) \cap ToSet(fresh[b]) = {}
  PROVE  /\ CaptureTypes' /\ RequestsOK' /\ Exclusive'
         /\ WholeDocumentOrNone' /\ HandedOrMarked' /\ JobsHaveRows'
<1>0. CaptureTypes /\ RequestsOK /\ Exclusive /\ WholeDocumentOrNone /\ HandedOrMarked /\ JobsHaveRows
  BY DEF IInv
<1>1. CaptureTypes'
  BY <1>0 DEF CaptureTypes, Points, Open, Ended, dbVars
<1>2. /\ pc'[q] = at /\ fresh'[q] = f
      /\ \A b \in Requests \ {q} : pc'[b] = pc[b] /\ part'[b] = part[b] /\ fresh'[b] = fresh[b]
      /\ Stored' = Stored
  BY <1>0 DEF CaptureTypes, Stored, dbVars
<1>3. RequestsOK'
  <2>1. ASSUME NEW b \in Requests \ {q} PROVE RequestOK(b)'
    BY <1>0, <1>2 DEF RequestsOK, RequestOK, Behind
  <2> QED BY <2>1 DEF RequestsOK
<1>4. Exclusive'
  BY <1>0, <1>2 DEF Exclusive
<1>5. at \notin {"hand", "done"}
  BY DEF Open
<1>6. WholeDocumentOrNone'
  BY <1>0, <1>2, <1>5 DEF WholeDocumentOrNone, dbVars
<1>7. HandedOrMarked'
  BY <1>0, <1>2 DEF HandedOrMarked, dbVars
<1>8. JobsHaveRows'
  BY <1>0, <1>2 DEF JobsHaveRows, dbVars
<1> QED BY <1>1, <1>3, <1>4, <1>6, <1>7, <1>8

\* What has come this far holds for the next part, and for the commit after the last one.
LEMMA NextPartLemma ==
  ASSUME IInv, NEW q \in Requests, pc[q] \in Open, NextPart(q), UNCHANGED <<fresh, owner>>,
         \A i \in 1 .. part[q] : PartsOf[q][i] \in Stored \cup ToSet(fresh[q])
  PROVE  /\ RequestOK(q)'
         /\ \E at \in Open, n \in Nat : /\ pc' = [pc EXCEPT ![q] = at]
                                        /\ part' = [part EXCEPT ![q] = n]
<1>0. RequestOK(q) /\ CaptureTypes
  BY DEF IInv, RequestsOK
<1>1. part[q] \in 1 .. Len(PartsOf[q]) /\ Len(PartsOf[q]) \in Nat
  BY <1>0, PartsAssumption DEF RequestOK
<1>2. Stored' = Stored
  BY DEF Stored
<1>3. CASE part[q] = Len(PartsOf[q])
  <2>1. pc' = [pc EXCEPT ![q] = "commit"] /\ part' = [part EXCEPT ![q] = part[q]]
    BY <1>0, <1>3 DEF NextPart, Goto, CaptureTypes
  <2>2. pc'[q] = "commit" /\ part'[q] = part[q]
    BY <1>0, <2>1 DEF CaptureTypes
  <2>3. RequestOK(q)'
    BY <1>0, <1>1, <1>2, <1>3, <2>2 DEF RequestOK, Behind, Open
  <2>4. "commit" \in Open /\ part[q] \in Nat
    BY <1>1 DEF Open
  <2> QED BY <2>1, <2>3, <2>4
<1>4. CASE part[q] # Len(PartsOf[q])
  <2>1. pc' = [pc EXCEPT ![q] = "look"] /\ part' = [part EXCEPT ![q] = part[q] + 1]
    BY <1>4 DEF NextPart, Goto
  <2>2. pc'[q] = "look" /\ part'[q] = part[q] + 1
    BY <1>0, <2>1 DEF CaptureTypes
  <2>3. /\ part[q] + 1 \in 1 .. Len(PartsOf[q]) /\ (part[q] + 1) - 1 = part[q]
        /\ part[q] + 1 \in Nat
    BY <1>1, <1>4
  <2>4. RequestOK(q)'
    BY <1>0, <1>2, <2>2, <2>3 DEF RequestOK, Behind, Open
  <2>5. "look" \in Open
    BY DEF Open
  <2> QED BY <2>1, <2>3, <2>4, <2>5
<1> QED BY <1>3, <1>4

\* A request that fails, wherever it is, takes everything it wrote with it.
LEMMA FailLemma ==
  ASSUME IInv, NEW q \in Requests, pc[q] \notin {"hand", "done"}, Fail(q),
         UNCHANGED <<limitVars, dbVars, resends, crashed>>
  PROVE  IInv'
<1>0. CaptureTypes /\ LimitTypeOK'
  BY LimitUnchanged DEF IInv
<1>1. /\ pc' = [pc EXCEPT ![q] = "failed"] /\ part' = [part EXCEPT ![q] = 1]
      /\ fresh' = [fresh EXCEPT ![q] = <<>>]
  BY DEF Fail, Goto
<1>2. madeWiki' \in [Requests -> BOOLEAN] /\ resends' \in 0 .. MaxResends
  BY <1>0 DEF Fail, CaptureTypes
<1>3. RequestOK(q)'
  <2>1. pc'[q] = "failed" /\ part'[q] = 1 /\ fresh'[q] = <<>>
    BY <1>0, <1>1 DEF CaptureTypes
  <2>2. 1 \in 1 .. Len(PartsOf[q])
    BY PartsAssumption
  <2> QED BY <2>1, <2>2 DEF RequestOK, Open
<1>4. <<>> \in Seq(Contents) /\ "failed" \notin Open /\ 1 \in Nat
  BY DEF Open
<1>5. UNCHANGED <<dbVars, crashed>>
  OBVIOUS
<1>6. /\ CaptureTypes' /\ RequestsOK' /\ Exclusive'
      /\ WholeDocumentOrNone' /\ HandedOrMarked' /\ JobsHaveRows'
  BY <1>1, <1>2, <1>3, <1>4, <1>5, MoveLemma
<1> QED BY <1>0, <1>6 DEF IInv

LEMMA StepHolds == IInv /\ [Next]_vars => IInv'
<1> SUFFICES ASSUME IInv, [Next]_vars PROVE IInv'
  OBVIOUS
<1>0. /\ CaptureTypes /\ LimitTypeOK /\ \A q \in Requests : RequestOK(q)
      /\ Exclusive /\ WholeDocumentOrNone /\ HandedOrMarked /\ JobsHaveRows
  BY DEF IInv, RequestsOK
<1>a. /\ Open = {"look", "make", "insert", "embed", "commit"}
      /\ Points = {"ask", "hand", "done", "failed", "gone"} \cup Open
  BY DEF Open, Points, Ended
<1>b. ASSUME CaptureTypes', RequestsOK', Exclusive', WholeDocumentOrNone', HandedOrMarked',
             JobsHaveRows', LimitTypeOK'
      PROVE  IInv'
  BY <1>b DEF IInv
\* A request that changes neither what it has inserted nor the part it is at.
<1>c. ASSUME NEW q \in Requests, pc[q] \notin {"hand", "done"},
             NEW at \in Open \cup {"ask", "failed", "gone"},
             pc' = [pc EXCEPT ![q] = at], UNCHANGED <<part, fresh, dbVars, crashed>>,
             at \in Open => pc[q] \in Open \/ fresh[q] = <<>>,
             madeWiki' \in [Requests -> BOOLEAN], resends' \in 0 .. MaxResends,
             RequestOK(q)', LimitTypeOK'
      PROVE  IInv'
  <2>1. /\ part' = [part EXCEPT ![q] = part[q]] /\ fresh' = [fresh EXCEPT ![q] = fresh[q]]
        /\ part[q] \in Nat /\ fresh[q] \in Seq(Contents)
    BY <1>0, <1>c DEF CaptureTypes
  <2>2. at \in Open => \A b \in Requests \ {q} :
                         pc[b] \in Open => ToSet(fresh[q]) \cap ToSet(fresh[b]) = {}
    BY <1>0, <1>c, ToSetLemma DEF Exclusive
  <2>3. /\ CaptureTypes' /\ RequestsOK' /\ Exclusive'
        /\ WholeDocumentOrNone' /\ HandedOrMarked' /\ JobsHaveRows'
    BY <1>c, <2>1, <2>2, MoveLemma
  <2> QED BY <1>b, <1>c, <2>3
<1>1. ASSUME NEW q \in Requests, Ask(q) PROVE IInv'
  <2>1. /\ pc[q] = "ask" /\ fresh[q] = <<>> /\ part[q] = 1 /\ RequestOK(q)
        /\ UNCHANGED <<part, fresh, dbVars, crashed>>
        /\ madeWiki' \in [Requests -> BOOLEAN] /\ resends' \in 0 .. MaxResends
    BY <1>0, <1>1 DEF Ask, RequestOK, CaptureTypes
  <2>2. LimitTypeOK'
    BY <1>0, <1>1, LimitLemma DEF Ask, Requests
  <2>3. PICK at \in {"look", "failed"} : pc' = [pc EXCEPT ![q] = at]
    BY <1>1 DEF Ask, Goto
  <2>4. RequestOK(q)'
    <3>1. pc'[q] = at /\ part'[q] = 1 /\ fresh'[q] = <<>> /\ ToSet(fresh'[q]) = {}
      BY <1>0, <2>1, <2>3, ToSetLemma DEF CaptureTypes
    <3> QED BY <1>a, <2>1, <3>1 DEF RequestOK, Behind
  <2> QED BY <1>a, <1>c, <2>1, <2>2, <2>3, <2>4
<1>2. ASSUME NEW q \in Requests, Look(q) PROVE IInv'
  <2>1. /\ pc[q] = "look" /\ RequestOK(q) /\ LimitTypeOK'
        /\ UNCHANGED <<fresh, dbVars, crashed>> /\ Stored' = Stored
        /\ madeWiki' \in [Requests -> BOOLEAN] /\ resends' \in 0 .. MaxResends
    BY <1>0, <1>2, LimitUnchanged DEF Look, CaptureTypes, Stored, dbVars
  <2>2. CASE Now(q) \in Stored \cup ToSet(fresh[q]) /\ NextPart(q)
    <3>1. \A i \in 1 .. part[q] : PartsOf[q][i] \in Stored \cup ToSet(fresh[q])
      <4>1. part[q] \in Nat /\ \A i \in 1 .. (part[q] - 1) :
                                 PartsOf[q][i] \in Stored \cup ToSet(fresh[q])
        BY <1>0, <1>a, <2>1 DEF RequestOK, Behind, CaptureTypes
      <4>2. PartsOf[q][part[q]] \in Stored \cup ToSet(fresh[q])
        BY <2>2 DEF Now
      <4>3. \A i \in 1 .. part[q] : i \in 1 .. (part[q] - 1) \/ i = part[q]
        BY <4>1
      <4> QED BY <4>1, <4>2, <4>3
    <3>2. pc[q] \in Open /\ UNCHANGED <<fresh, owner>>
      BY <1>a, <2>1 DEF dbVars
    <3>3. /\ RequestOK(q)'
          /\ \E at \in Open, n \in Nat : /\ pc' = [pc EXCEPT ![q] = at]
                                         /\ part' = [part EXCEPT ![q] = n]
      BY <2>2, <3>1, <3>2, NextPartLemma
    <3>4. PICK at \in Open, n \in Nat : /\ pc' = [pc EXCEPT ![q] = at]
                                        /\ part' = [part EXCEPT ![q] = n]
      BY <3>3
    <3>5. fresh' = [fresh EXCEPT ![q] = fresh[q]] /\ fresh[q] \in Seq(Contents)
      BY <1>0, <2>1 DEF CaptureTypes
    <3>6. \A b \in Requests \ {q} : pc[b] \in Open => ToSet(fresh[q]) \cap ToSet(fresh[b]) = {}
      BY <1>0, <3>2 DEF Exclusive
    <3>7. pc[q] \notin {"hand", "done"} /\ at \in Open \cup {"ask", "failed"}
      BY <2>1
    <3>8. /\ CaptureTypes' /\ RequestsOK' /\ Exclusive'
          /\ WholeDocumentOrNone' /\ HandedOrMarked' /\ JobsHaveRows'
      BY <2>1, <3>3, <3>4, <3>5, <3>6, <3>7, MoveLemma
    <3> QED BY <1>b, <2>1, <3>8
  <2>3. CASE UNCHANGED part /\ \E at \in {"insert", "make"} : Goto(q, at)
    <3>1. PICK at \in {"insert", "make"} : pc' = [pc EXCEPT ![q] = at]
      BY <2>3 DEF Goto
    <3>2. RequestOK(q)'
      <4>1. pc'[q] = at /\ part'[q] = part[q] /\ fresh'[q] = fresh[q]
        BY <1>0, <2>1, <2>3, <3>1 DEF CaptureTypes
      <4> QED BY <1>a, <2>1, <4>1 DEF RequestOK, Behind
    <3> QED BY <1>a, <1>c, <2>1, <2>3, <3>1, <3>2
  <2> QED BY <1>2, <2>2, <2>3 DEF Look
<1>3. ASSUME NEW q \in Requests, MakeWiki(q) PROVE IInv'
  <2>1. pc[q] = "make" /\ RequestOK(q) /\ LimitTypeOK'
    BY <1>0, <1>3, LimitUnchanged DEF MakeWiki
  <2>2. CASE Fail(q)
    BY <1>3, <2>1, <2>2, FailLemma DEF MakeWiki
  <2>3. CASE /\ Goto(q, "insert") /\ madeWiki' = [madeWiki EXCEPT ![q] = TRUE]
             /\ UNCHANGED <<part, fresh>>
    <3>1. /\ UNCHANGED <<part, fresh, dbVars, crashed>> /\ Stored' = Stored
          /\ pc' = [pc EXCEPT ![q] = "insert"]
          /\ madeWiki' \in [Requests -> BOOLEAN] /\ resends' \in 0 .. MaxResends
      BY <1>0, <1>3, <2>3 DEF MakeWiki, Goto, CaptureTypes, Stored, dbVars
    <3>2. RequestOK(q)'
      <4>1. pc'[q] = "insert" /\ part'[q] = part[q] /\ fresh'[q] = fresh[q]
        BY <1>0, <3>1 DEF CaptureTypes
      <4> QED BY <1>a, <2>1, <3>1, <4>1 DEF RequestOK, Behind
    <3> QED BY <1>a, <1>c, <2>1, <3>1, <3>2
  <2> QED BY <1>3, <2>2, <2>3 DEF MakeWiki
\* What a request inserts is neither stored nor in the hands of another: it has waited.
<1>4. ASSUME NEW q \in Requests, Insert(q) PROVE IInv'
  <2>1. pc[q] = "insert" /\ RequestOK(q) /\ LimitTypeOK'
    BY <1>0, <1>4, LimitUnchanged DEF Insert
  <2>2. CASE Fail(q)
    BY <1>4, <2>1, <2>2, FailLemma DEF Insert
  <2>3. CASE /\ Now(q) \notin Stored /\ Goto(q, "embed")
             /\ fresh' = [fresh EXCEPT ![q] = Append(@, Now(q))]
             /\ UNCHANGED <<part, madeWiki>>
    <3> DEFINE f == Append(fresh[q], Now(q))
    <3>1. /\ part[q] \in 1 .. Len(PartsOf[q]) /\ Now(q) \in Contents /\ part[q] \in Nat
          /\ fresh[q] \in Seq(Contents)
      BY <1>0, <2>1, PartsAssumption DEF RequestOK, Now, CaptureTypes
    <3>2. /\ UNCHANGED <<part, dbVars, crashed>> /\ Stored' = Stored
          /\ pc' = [pc EXCEPT ![q] = "embed"] /\ part' = [part EXCEPT ![q] = part[q]]
          /\ fresh' = [fresh EXCEPT ![q] = f]
          /\ madeWiki' \in [Requests -> BOOLEAN] /\ resends' \in 0 .. MaxResends
      BY <1>0, <1>4, <2>3 DEF Insert, Goto, CaptureTypes, Stored, dbVars
    <3>3. f \in Seq(Contents) /\ ToSet(f) = ToSet(fresh[q]) \cup {Now(q)}
      BY <3>1, ToSetLemma
    <3>4. RequestOK(q)'
      <4>1. pc'[q] = "embed" /\ part'[q] = part[q] /\ fresh'[q] = f
        BY <1>0, <3>2 DEF CaptureTypes
      <4>2. \A i \in 1 .. part[q] : PartsOf[q][i] \in Stored \cup ToSet(f)
        <5>1. \A i \in 1 .. (part[q] - 1) : PartsOf[q][i] \in Stored \cup ToSet(fresh[q])
          BY <1>a, <2>1 DEF RequestOK, Behind
        <5>2. \A i \in 1 .. part[q] : i \in 1 .. (part[q] - 1) \/ i = part[q]
          BY <3>1
        <5> QED BY <3>3, <5>1, <5>2 DEF Now
      <4>3. ToSet(f) \cap Stored = {}
        BY <1>a, <2>1, <2>3, <3>3 DEF RequestOK
      <4> HIDE DEF f
      <4> QED BY <2>1, <3>1, <3>2, <4>1, <4>2, <4>3 DEF RequestOK, Behind
    <3>5. ASSUME NEW b \in Requests \ {q}, pc[b] \in Open PROVE ToSet(f) \cap ToSet(fresh[b]) = {}
      <4>1. ~WaitsFor(q, b)
        BY <1>4, <3>5 DEF Insert, Waits
      <4>2. Now(q) \notin ToSet(fresh[b])
        BY <1>a, <2>1, <3>5, <4>1 DEF WaitsFor, Locks
      <4>3. ToSet(fresh[q]) \cap ToSet(fresh[b]) = {}
        BY <1>0, <1>a, <2>1, <3>5 DEF Exclusive
      <4> QED BY <3>3, <4>2, <4>3
    <3>6. pc[q] \notin {"hand", "done"} /\ "embed" \in Open \cup {"ask", "failed"}
      BY <1>a, <2>1
    <3> HIDE DEF f
    <3>7. /\ CaptureTypes' /\ RequestsOK' /\ Exclusive'
          /\ WholeDocumentOrNone' /\ HandedOrMarked' /\ JobsHaveRows'
      BY <3>1, <3>2, <3>3, <3>4, <3>5, <3>6, MoveLemma
    <3> QED BY <1>b, <2>1, <3>7
  <2> QED BY <1>4, <2>2, <2>3 DEF Insert
<1>5. ASSUME NEW q \in Requests, Embed(q) PROVE IInv'
  <2>1. /\ pc[q] = "embed" /\ pc[q] \in Open /\ RequestOK(q) /\ LimitTypeOK'
        /\ UNCHANGED <<fresh, dbVars, crashed>> /\ UNCHANGED <<fresh, owner>>
        /\ madeWiki' \in [Requests -> BOOLEAN] /\ resends' \in 0 .. MaxResends
    BY <1>0, <1>5, <1>a, LimitUnchanged DEF Embed, CaptureTypes, dbVars
  <2>2. \A i \in 1 .. part[q] : PartsOf[q][i] \in Stored \cup ToSet(fresh[q])
    BY <2>1 DEF RequestOK, Behind
  <2>3. /\ RequestOK(q)'
        /\ \E at \in Open, n \in Nat : /\ pc' = [pc EXCEPT ![q] = at]
                                       /\ part' = [part EXCEPT ![q] = n]
    BY <1>5, <2>1, <2>2, NextPartLemma DEF Embed
  <2>4. PICK at \in Open, n \in Nat : /\ pc' = [pc EXCEPT ![q] = at]
                                      /\ part' = [part EXCEPT ![q] = n]
    BY <2>3
  <2>5. fresh' = [fresh EXCEPT ![q] = fresh[q]] /\ fresh[q] \in Seq(Contents)
    BY <1>0, <2>1 DEF CaptureTypes
  <2>6. \A b \in Requests \ {q} : pc[b] \in Open => ToSet(fresh[q]) \cap ToSet(fresh[b]) = {}
    BY <1>0, <2>1 DEF Exclusive
  <2>7. pc[q] \notin {"hand", "done"} /\ at \in Open \cup {"ask", "failed"}
    BY <2>1
  <2>8. /\ CaptureTypes' /\ RequestsOK' /\ Exclusive'
        /\ WholeDocumentOrNone' /\ HandedOrMarked' /\ JobsHaveRows'
    BY <2>1, <2>3, <2>4, <2>5, <2>6, <2>7, MoveLemma
  <2> QED BY <1>b, <2>1, <2>8
<1>6. ASSUME NEW q \in Requests, UsageFails(q) \/ Conflict(q) \/ BreakDeadlock(q)
      PROVE  IInv'
  <2>1. pc[q] \notin {"hand", "done"}
    <3>1. CASE UsageFails(q)
      BY <3>1 DEF UsageFails
    <3>3. CASE Conflict(q)
      BY <3>3 DEF Conflict, Open
    <3>2. CASE BreakDeadlock(q)
      <4>1. \E t : WaitsFor(q, t)
        BY <3>2 DEF BreakDeadlock
      <4> QED BY <4>1 DEF WaitsFor
    <3> QED BY <1>6, <3>1, <3>2, <3>3
  <2> QED BY <1>6, <2>1, FailLemma DEF UsageFails, Conflict, BreakDeadlock
\* All parts become visible at once. What the others have open stays theirs.
<1>7. ASSUME NEW q \in Requests, Commit(q) PROVE IInv'
  <2>1. /\ pc[q] = "commit" /\ RequestOK(q) /\ LimitTypeOK' /\ fresh[q] \in Seq(Contents)
        /\ UNCHANGED <<jobs, part, fresh, madeWiki, resends, crashed>>
        /\ pc' = [pc EXCEPT ![q] = "hand"]
        /\ owner' = [c \in Contents |-> IF c \in ToSet(fresh[q]) THEN q ELSE owner[c]]
        /\ run' = [c \in Contents |-> IF c \in ToSet(fresh[q]) THEN "queued" ELSE run[c]]
    BY <1>0, <1>7, LimitUnchanged DEF Commit, Goto, CaptureTypes
  <2>2. /\ pc'[q] = "hand" /\ \A b \in Requests \ {q} : pc'[b] = pc[b]
    BY <1>0, <2>1 DEF CaptureTypes
  <2>3. CaptureTypes'
    BY <1>0, <1>7, <1>a, <2>1 DEF Commit, CaptureTypes
  <2>4. ToSet(fresh[q]) \subseteq Contents
    BY <2>1 DEF ToSet
  <2>5. Stored' = Stored \cup ToSet(fresh[q])
    <3>1. q # NoRequest
      BY PartsAssumption
    <3> QED BY <2>1, <2>4, <3>1 DEF Stored
  <2>6. ToSet(fresh[q]) \cap Stored = {}
    BY <1>a, <2>1 DEF RequestOK
  <2>7. RequestsOK'
    <3>1. RequestOK(q)'
      BY <1>a, <2>1, <2>2, <2>5 DEF RequestOK, Behind
    <3>2. ASSUME NEW b \in Requests \ {q} PROVE RequestOK(b)'
      <4>1. RequestOK(b) /\ pc'[b] = pc[b]
        BY <1>0, <2>2
      <4>2. pc[b] \in Open => ToSet(fresh[b]) \cap ToSet(fresh[q]) = {}
        BY <1>0, <1>a, <2>1 DEF Exclusive
      <4> QED BY <2>1, <2>5, <4>1, <4>2 DEF RequestOK, Behind
    <3> QED BY <3>1, <3>2 DEF RequestsOK
  <2>8. Exclusive'
    BY <1>0, <1>a, <2>1, <2>2 DEF Exclusive
  <2>9. WholeDocumentOrNone'
    <3>1. ToSet(PartsOf[q]) \subseteq Stored'
      <4>1. PartsOf[q] \in Seq(Contents) /\ DOMAIN PartsOf[q] = 1 .. Len(PartsOf[q])
        BY PartsAssumption
      <4>2. \A i \in 1 .. Len(PartsOf[q]) : PartsOf[q][i] \in Stored \cup ToSet(fresh[q])
        BY <1>a, <2>1 DEF RequestOK, Behind
      <4> QED BY <2>5, <4>1, <4>2 DEF ToSet
    <3>2. ASSUME NEW b \in Requests \ {q},
                 pc'[b] \in {"hand", "done"} \/ \E c \in Contents : owner'[c] = b
          PROVE  ToSet(PartsOf[b]) \subseteq Stored'
      <4>1. pc[b] \in {"hand", "done"} \/ \E c \in Contents : owner[c] = b
        BY <2>1, <2>2, <3>2
      <4> QED BY <1>0, <2>5, <4>1 DEF WholeDocumentOrNone
    <3> QED BY <3>1, <3>2 DEF WholeDocumentOrNone
  <2>10. HandedOrMarked'
    <3> SUFFICES ASSUME ~crashed, NEW c \in Contents, c \in Stored'
                 PROVE  \/ c \in jobs \/ run'[c] = "failed"
                        \/ pc'[owner'[c]] = "hand" /\ c \in ToSet(fresh[owner'[c]])
      BY <2>1 DEF HandedOrMarked, Stored
    <3>1. CASE c \in ToSet(fresh[q])
      BY <2>1, <2>2, <3>1
    <3>2. CASE c \notin ToSet(fresh[q])
      <4>1. c \in Stored /\ owner'[c] = owner[c] /\ run'[c] = run[c]
        BY <2>1, <2>5, <3>2
      <4>2. owner[c] \in Requests
        BY <1>0, <4>1 DEF Stored, CaptureTypes
      <4> QED BY <1>0, <2>1, <2>2, <4>1, <4>2 DEF HandedOrMarked
    <3> QED BY <3>1, <3>2
  <2>11. JobsHaveRows'
    BY <1>0, <2>1, <2>5 DEF JobsHaveRows
  <2> QED BY <1>b, <2>1, <2>3, <2>7, <2>8, <2>9, <2>10, <2>11
<1>8. ASSUME NEW q \in Requests, Hand(q) PROVE IInv'
  <2> DEFINE c == Head(fresh[q])
  <2>1. /\ pc[q] = "hand" /\ RequestOK(q) /\ LimitTypeOK' /\ fresh[q] \in Seq(Contents)
        /\ fresh[q] # <<>>
        /\ UNCHANGED <<owner, hasWiki, pc, part, madeWiki, resends, crashed>>
        /\ fresh' = [fresh EXCEPT ![q] = Tail(@)]
    BY <1>0, <1>8, LimitUnchanged DEF Hand, HandOne, CaptureTypes
  <2>2. \/ jobs' = jobs \cup {c} /\ run' = run
        \/ jobs' = jobs /\ run' = [run EXCEPT ![c] = "failed"]
    BY <1>8 DEF Hand
  <2>3. /\ ToSet(fresh[q]) = {c} \cup ToSet(Tail(fresh[q])) /\ Tail(fresh[q]) \in Seq(Contents)
        /\ c \in Contents
    BY <2>1, ToSetLemma
  <2> HIDE DEF c
  <2>4. /\ fresh'[q] = Tail(fresh[q]) /\ \A b \in Requests \ {q} : fresh'[b] = fresh[b]
    BY <1>0, <2>1 DEF CaptureTypes
  <2>5. CaptureTypes'
    BY <1>0, <2>1, <2>2, <2>3 DEF CaptureTypes
  <2>6. Stored' = Stored
    BY <2>1 DEF Stored
  <2>7. RequestsOK'
    <3>1. RequestOK(q)'
      BY <1>a, <2>1, <2>3, <2>4, <2>6 DEF RequestOK, Behind
    <3>2. ASSUME NEW b \in Requests \ {q} PROVE RequestOK(b)'
      BY <1>0, <2>1, <2>4, <2>6 DEF RequestOK, Behind
    <3> QED BY <3>1, <3>2 DEF RequestsOK
  <2>8. Exclusive'
    BY <1>0, <1>a, <2>1, <2>4 DEF Exclusive
  <2>9. WholeDocumentOrNone'
    BY <1>0, <2>1, <2>6 DEF WholeDocumentOrNone
  <2>10. HandedOrMarked'
    <3> SUFFICES ASSUME ~crashed, NEW d \in Contents, d \in Stored
                 PROVE  \/ d \in jobs' \/ run'[d] = "failed"
                        \/ pc[owner[d]] = "hand" /\ d \in ToSet(fresh'[owner[d]])
      BY <2>1, <2>6 DEF HandedOrMarked, Stored
    <3>1. CASE d = c
      BY <1>0, <2>2, <3>1 DEF CaptureTypes
    <3>2. CASE d # c
      <4>1. run'[d] = run[d] /\ (d \in jobs => d \in jobs')
        BY <1>0, <2>2, <3>2 DEF CaptureTypes
      <4>2. owner[d] \in Requests
        BY <1>0 DEF Stored, CaptureTypes
      <4>3. d \in ToSet(fresh[owner[d]]) => d \in ToSet(fresh'[owner[d]])
        BY <2>3, <2>4, <3>2, <4>2
      <4> QED BY <1>0, <4>1, <4>3 DEF HandedOrMarked
    <3> QED BY <3>1, <3>2
  <2>11. JobsHaveRows'
    <3>1. c \in Stored
      BY <2>1, <2>3 DEF RequestOK
    <3> QED BY <1>0, <2>2, <2>6, <3>1 DEF JobsHaveRows
  <2> QED BY <1>b, <2>1, <2>5, <2>7, <2>8, <2>9, <2>10, <2>11
<1>9. ASSUME NEW q \in Requests, Answer(q) PROVE IInv'
  <2>1. /\ pc[q] = "hand" /\ fresh[q] = <<>> /\ RequestOK(q) /\ LimitTypeOK'
        /\ pc' = [pc EXCEPT ![q] = "done"] /\ Stored' = Stored
        /\ UNCHANGED <<dbVars, part, fresh, madeWiki, resends, crashed>>
    BY <1>0, <1>9, LimitUnchanged DEF Answer, Goto, Stored, dbVars
  <2>2. pc'[q] = "done" /\ \A b \in Requests \ {q} : pc'[b] = pc[b]
    BY <1>0, <2>1 DEF CaptureTypes
  <2>3. CaptureTypes'
    BY <1>0, <1>a, <2>1 DEF CaptureTypes, dbVars
  <2>4. RequestsOK'
    <3>1. RequestOK(q)'
      BY <1>a, <2>1, <2>2 DEF RequestOK, Behind
    <3>2. ASSUME NEW b \in Requests \ {q} PROVE RequestOK(b)'
      BY <1>0, <2>1, <2>2 DEF RequestOK, Behind
    <3> QED BY <3>1, <3>2 DEF RequestsOK
  <2>5. Exclusive'
    BY <1>0, <1>a, <2>1, <2>2 DEF Exclusive
  <2>6. WholeDocumentOrNone'
    BY <1>0, <2>1, <2>2 DEF WholeDocumentOrNone, dbVars
  <2>7. HandedOrMarked'
    <3>1. ToSet(fresh[q]) = {}
      BY <2>1, ToSetLemma
    <3>2. \A d \in Stored : owner[d] \in Requests
      BY <1>0 DEF Stored, CaptureTypes
    <3> QED BY <1>0, <2>1, <2>2, <3>1, <3>2 DEF HandedOrMarked, dbVars
  <2>8. JobsHaveRows'
    BY <1>0, <2>1 DEF JobsHaveRows, dbVars
  <2> QED BY <1>b, <2>1, <2>3, <2>4, <2>5, <2>6, <2>7, <2>8
<1>10. ASSUME NEW q \in Requests, Resend(q) PROVE IInv'
  <2>1. /\ pc[q] \in {"failed", "gone"} /\ fresh[q] = <<>> /\ part[q] = 1 /\ RequestOK(q)
        /\ UNCHANGED <<part, fresh, dbVars, crashed>>
        /\ pc' = [pc EXCEPT ![q] = "ask"]
        /\ madeWiki' \in [Requests -> BOOLEAN] /\ resends' \in 0 .. MaxResends
    BY <1>0, <1>10, PartsAssumption DEF Resend, Goto, RequestOK, CaptureTypes
  <2>2. LimitTypeOK'
    BY <1>0, <1>10 DEF Resend, LimitTypeOK, Requests
  <2>3. RequestOK(q)'
    <3>1. pc'[q] = "ask" /\ part'[q] = part[q] /\ fresh'[q] = fresh[q]
      BY <1>0, <2>1 DEF CaptureTypes
    <3> QED BY <1>a, <2>1, <3>1 DEF RequestOK, Behind
  <2> QED BY <1>a, <1>c, <2>1, <2>2, <2>3
<1>15. ASSUME NEW q \in Requests, AskDies(q) PROVE IInv'
  <2>1. /\ pc[q] = "ask" /\ fresh[q] = <<>> /\ part[q] = 1 /\ RequestOK(q)
        /\ UNCHANGED <<part, fresh, dbVars, crashed>>
        /\ pc' = [pc EXCEPT ![q] = "gone"]
        /\ madeWiki' \in [Requests -> BOOLEAN] /\ resends' \in 0 .. MaxResends
    BY <1>0, <1>15 DEF AskDies, Goto, RequestOK, CaptureTypes
  <2>2. LimitTypeOK'
    BY <1>0, <1>15, LimitLemma DEF AskDies, Requests
  <2>3. RequestOK(q)'
    <3>1. pc'[q] = "gone" /\ part'[q] = part[q] /\ fresh'[q] = fresh[q]
      BY <1>0, <2>1 DEF CaptureTypes
    <3> QED BY <1>a, <2>1, <3>1 DEF RequestOK, Behind
  <2> QED BY <1>a, <1>c, <2>1, <2>2, <2>3
<1>11. ASSUME UNCHANGED <<dbVars, requestVars, resends, crashed>>, LimitTypeOK' PROVE IInv'
  <2>1. CaptureTypes' /\ Stored' = Stored
    BY <1>0, <1>11 DEF CaptureTypes, Stored, dbVars, requestVars
  <2>2. RequestsOK' /\ Exclusive'
    BY <1>0, <1>11, <2>1 DEF RequestsOK, RequestOK, Behind, Exclusive, requestVars
  <2>3. WholeDocumentOrNone' /\ HandedOrMarked' /\ JobsHaveRows'
    BY <1>0, <1>11, <2>1 DEF WholeDocumentOrNone, HandedOrMarked, JobsHaveRows, dbVars, requestVars
  <2> QED BY <1>b, <1>11, <2>1, <2>2, <2>3
<1>12. CASE PassTime
  BY <1>0, <1>11, <1>12, TickLemma DEF PassTime
<1>13. CASE Crash
  <2>1. LimitTypeOK' /\ UNCHANGED dbVars /\ crashed' /\ Stored' = Stored
    BY <1>0, <1>13, LimitUnchanged DEF Crash, Stored, dbVars
  <2>2. CaptureTypes'
    <3>1. <<>> \in Seq(Contents)
      OBVIOUS
    <3> QED BY <1>0, <1>13, <1>a, <3>1 DEF Crash, CaptureTypes, dbVars
  <2>3. ASSUME NEW q \in Requests
        PROVE  \/ pc'[q] = "gone" /\ fresh'[q] = <<>> /\ part'[q] = 1
               \/ pc'[q] = pc[q] /\ fresh'[q] = fresh[q] /\ part'[q] = part[q]
    BY <1>0, <1>13 DEF Crash, CaptureTypes
  <2>4. RequestsOK'
    <3>1. ASSUME NEW q \in Requests PROVE RequestOK(q)'
      <4>1. 1 \in 1 .. Len(PartsOf[q])
        BY PartsAssumption
      <4>2. RequestOK(q)
        BY <1>0
      <4>3. CASE pc'[q] = "gone" /\ fresh'[q] = <<>> /\ part'[q] = 1
        BY <1>a, <4>1, <4>3 DEF RequestOK
      <4>4. CASE pc'[q] = pc[q] /\ fresh'[q] = fresh[q] /\ part'[q] = part[q]
        BY <2>1, <4>2, <4>4 DEF RequestOK, Behind
      <4> QED BY <2>3, <4>3, <4>4
    <3> QED BY <3>1 DEF RequestsOK
  <2>5. Exclusive'
    BY <1>0, <1>a, <2>3 DEF Exclusive
  <2>6. WholeDocumentOrNone'
    BY <1>0, <2>1, <2>3 DEF WholeDocumentOrNone, dbVars
  <2>7. HandedOrMarked' /\ JobsHaveRows'
    BY <1>0, <2>1 DEF HandedOrMarked, JobsHaveRows, dbVars
  <2> QED BY <1>b, <2>1, <2>2, <2>4, <2>5, <2>6, <2>7
<1>14. CASE UNCHANGED vars
  BY <1>0, <1>11, <1>14, LimitUnchanged DEF vars, requestVars
<1> QED BY <1>1, <1>2, <1>3, <1>4, <1>5, <1>6, <1>7, <1>8, <1>9, <1>10, <1>12, <1>13, <1>14,
        <1>15 DEF Next, Step

LEMMA Invariant == Spec => []IInv
<1> QED BY InitHolds, StepHolds, PTL DEF Spec

\* A step of Capture is one of the allowance's, or leaves the counters as they are.
LEMMA AllowanceNext ==
  ASSUME LimitTypeOK, [Next]_vars
  PROVE  \/ \E q \in Callers : LimitStep(q) \/ CheckDies(q)
         \/ Tick
         \/ UNCHANGED <<now, used, expires, judged, unjudged>>
<1>1. CASE \E q \in Requests : Ask(q) \/ AskDies(q)
  BY <1>1 DEF Ask, AskDies, Requests
<1>2. CASE PassTime
  BY <1>2 DEF PassTime
<1>3. CASE \E q \in Requests : \/ Look(q) \/ MakeWiki(q) \/ Insert(q) \/ Embed(q) \/ Commit(q)
                               \/ Hand(q) \/ Answer(q) \/ BreakDeadlock(q) \/ Conflict(q)
                               \/ UsageFails(q) \/ Resend(q)
  BY <1>3 DEF Look, MakeWiki, Insert, Embed, Commit, Hand, Answer, BreakDeadlock, Conflict,
              UsageFails, Resend, limitVars
<1>4. CASE Crash \/ UNCHANGED vars
  BY <1>4 DEF Crash, vars, limitVars
<1> QED BY <1>1, <1>2, <1>3, <1>4 DEF Next, Step

LEMMA AllowanceHolds == Spec => [](LimitTypeOK /\ Allowance)
<1>1. Init => Allowance
  BY AllowanceInit DEF Init
<1>2. LimitTypeOK /\ Allowance /\ [Next]_vars => Allowance'
  BY AllowanceNext, AllowanceStep, AllowanceTick, AllowanceUnchanged
<1>3. IInv => LimitTypeOK
  BY DEF IInv
<1> QED BY <1>1, <1>2, <1>3, Invariant, PTL DEF Spec

-----------------------------------------------------------------------------

\* Every variable of the handlers, of the tables and of the allowance keeps its type; a
\* request is always at a part its document has.
THEOREM CaptureTyped == Spec => []TypeOK
<1>1. IInv => TypeOK
  BY DEF IInv, TypeOK, CaptureTypes
<1> QED BY <1>1, Invariant, PTL

\* A document is never half in the library: what a request stored anything of, and what it
\* answered for, is stored whole, whoever stored the other parts (items.py upload_pdf).
THEOREM StoredWhole == Spec => []WholeDocumentOrNone
<1>1. IInv => WholeDocumentOrNone
  BY DEF IInv
<1> QED BY <1>1, Invariant, PTL

\* No compile is lost on the way to the queue: as long as the process lives, every stored item
\* is queued, marked as failed, or about to be handed on (queue.py enqueue_compile).
THEOREM NoCompileIsLost == Spec => []HandedOrMarked
<1>1. IInv => HandedOrMarked
  BY DEF IInv
<1> QED BY <1>1, Invariant, PTL

\* A worker never picks up a job whose row is not committed (items.py: enqueued after the
\* commit).
THEOREM JobsAreVisible == Spec => []JobsHaveRows
<1>1. IInv => JobsHaveRows
  BY DEF IInv
<1> QED BY <1>1, Invariant, PTL

\* Whatever stretch of a window's length a client looks at, no more than twice the limit of
\* requests got through a Redis that answers: for any limit, window and number of requests.
THEOREM NoSpanExceedsTwice == Spec => []SpanBound
<1>1. LimitTypeOK /\ Allowance => SpanBound
  BY SpanLemma
<1> QED BY <1>1, AllowanceHolds, PTL

\* A request is refused only in a window that has counted as many uses as the limit, however
\* the counters of earlier windows were left (ratelimit.py check); the uses of requests
\* whose process died with them count.
THEOREM NoneRefusedInVain == Spec => RefusedOnlyWhenSpent
<1>1. ASSUME LimitTypeOK, [Next]_vars
      PROVE  \/ \E q \in Callers : LimitStep(q)
             \/ \A q \in Callers : ask'[q] = "refused" => ask[q] = "refused"
  <2>1. CASE \E q \in Requests : Ask(q)
    BY <2>1 DEF Ask, Requests
  <2>6. CASE \E q \in Requests : AskDies(q)
    BY <1>1, <2>6 DEF AskDies, CheckDies, LimitTypeOK, Requests
  <2>2. CASE PassTime
    BY <2>2 DEF PassTime, Tick
  <2>3. CASE \E q \in Requests : Resend(q)
    BY <1>1, <2>3 DEF Resend, LimitTypeOK, Requests
  <2>4. CASE \E q \in Requests : \/ Look(q) \/ MakeWiki(q) \/ Insert(q) \/ Embed(q)
                                 \/ Commit(q) \/ Hand(q) \/ Answer(q) \/ BreakDeadlock(q)
                                 \/ Conflict(q) \/ UsageFails(q)
    BY <2>4 DEF Look, MakeWiki, Insert, Embed, Commit, Hand, Answer, BreakDeadlock,
                Conflict, UsageFails, limitVars
  <2>5. CASE Crash \/ UNCHANGED vars
    BY <2>5 DEF Crash, vars, limitVars
  <2> QED BY <1>1, <2>1, <2>2, <2>3, <2>4, <2>5, <2>6 DEF Next, Step
<1>2. LimitTypeOK /\ Allowance /\ [Next]_vars =>
        [\A q \in Callers :
           ask[q] # "refused" /\ ask'[q] = "refused" =>
             Before(judged, Edge(now)) + Before(unjudged, Edge(now)) + Limit
               <= judged[now] + unjudged[now]]_limitVars
  BY <1>1, RefusedLemma
<1> QED BY <1>2, AllowanceHolds, PTL DEF Spec, RefusedOnlyWhenSpent

-----------------------------------------------------------------------------
(***************************************************************************)
(* A document too long for one compile: what upload_pdf saves as its parts *)
(* is what chunk_text returns, for every text, window and overlap.         *)
(***************************************************************************)

\* A chain of bounds starts at 0, grows by at most the window, leaves no gap, and its
\* cuts are far enough from the start to reach back from.
Between(b, o, i) == i \in 1 .. (Len(b) - 1) /\ b[i] <= o /\ o < b[i + 1]

Chain(b) ==
  /\ b \in Seq(Nat) /\ Len(b) >= 1 /\ b[1] = 0
  /\ \A i \in 1 .. Len(b) : b[i] <= b[Len(b)]
  /\ \A i \in 1 .. (Len(b) - 1) : b[i] <= b[i + 1] /\ b[i + 1] - b[i] <= ChunkChars
  /\ \A o \in 0 .. (b[Len(b)] - 1) : \E i \in 1 .. (Len(b) - 1) : Between(b, o, i)
  /\ \A i \in 2 .. (Len(b) - 1) : Overlap <= b[i]

\* The cuts so far reach into the text; the finished bounds end where it ends. What lies
\* behind the last cut but one does not fit the window, or there would be no cut after it.
BoundsInv ==
  /\ Chain(bounds)
  /\ stage = "split" /\ Len(bounds) >= 2 => Len(text) - bounds[Len(bounds) - 1] > ChunkChars
  /\ stage = "fold" /\ Len(bounds) >= 3 => Len(text) - bounds[Len(bounds) - 2] > ChunkChars
  /\ stage = "split" => LastBound <= Len(text) /\ (Len(bounds) >= 2 => Overlap <= LastBound)
  /\ stage # "split" => LastBound = Len(text) /\ Len(bounds) >= 2

Sliced == {p \in {[from |-> Start(i), upto |-> bounds[i + 1]] : i \in 1 .. (Len(bounds) - 1)} :
             ~Blank(p)}

SlicesInv == IF stage = "done" THEN pieces = Sliced ELSE pieces = {}

ChunkInv == ChunkTypeOK /\ BoundsInv

-----------------------------------------------------------------------------
(* The operators.                                                            *)

\* A cut lies in the back half of the window, or at its end.
LEMMA CutLemma ==
  ASSUME ChunkTypeOK, NEW p \in Nat, NEW o \in BestCuts(p)
  PROVE  o \in Nat /\ p + Overlap <= o /\ p < o /\ o <= p + ChunkChars
<1>1. ChunkChars \in Nat /\ Overlap \in Nat /\ Overlap <= ChunkChars \div 2 /\ ChunkChars \div 2 \in Nat
      /\ 1 < ChunkChars /\ ChunkChars \div 2 <= ChunkChars
  BY ChunkAssumption
<1>2. o \in (p + 1) .. (p + ChunkChars)
  BY DEF BestCuts
<1>3. CASE \E k \in 1..4 : o \in Cuts(k, p)
  <2>1. PICK k \in 1..4 : o \in Cuts(k, p)
    BY <1>3
  <2>2. Width(k) \in {1, 2}
    BY DEF Width
  <2>3. o \in (p + (ChunkChars \div 2) + Width(k)) .. (p + ChunkChars)
    BY <2>1 DEF Cuts
  <2> QED BY <1>1, <1>2, <2>2, <2>3
<1>4. CASE o = p + ChunkChars
  BY <1>1, <1>2, <1>4
<1> QED BY <1>3, <1>4 DEF BestCuts

\* Counting the offsets of a stretch that have some property never exceeds its length.
LEMMA CountLemma ==
  ASSUME NEW p \in Nat, NEW q \in Nat, p <= q, NEW S \in SUBSET (p .. (q - 1))
  PROVE  Cardinality(S) \in Nat /\ p + Cardinality(S) <= q
<1>1. IsFiniteSet(p .. (q - 1)) /\ Cardinality(p .. (q - 1)) = q - p
  <2>1. p \in Int /\ q - 1 \in Int
    OBVIOUS
  <2>2. /\ IsFiniteSet(p .. (q - 1))
        /\ Cardinality(p .. (q - 1)) = IF p > q - 1 THEN 0 ELSE (q - 1) - p + 1
    BY <2>1, FS_Interval
  <2>3. (IF p > q - 1 THEN 0 ELSE (q - 1) - p + 1) = q - p
    OBVIOUS
  <2> QED BY <2>2, <2>3
<1>2. IsFiniteSet(S) /\ Cardinality(S) <= q - p
  BY <1>1, FS_Subset
<1>3. Cardinality(S) \in Nat
  BY <1>2, FS_CardinalityType
<1> QED BY <1>2, <1>3

\* Snapping moves forward, by no more than its window, and not past the end.
LEMMA SnapLemma ==
  ASSUME ChunkTypeOK, NEW p \in Nat, p <= Len(text)
  PROVE  SnapForward(p) \in Nat /\ p <= SnapForward(p) /\ SnapForward(p) <= p + Snap
<1> DEFINE q == IF p + Snap <= Len(text) THEN p + Snap ELSE Len(text)
           w == p + Letters(p, q)
<1>1. Snap \in Nat /\ text \in Seq(Chars)
  BY ChunkAssumption DEF ChunkTypeOK
<1>2. q \in Nat /\ p <= q /\ q <= p + Snap
  BY <1>1
<1>3. {o \in p .. (q - 1) : \A u \in p .. o : ~Space(u)} \in SUBSET (p .. (q - 1))
  OBVIOUS
<1> HIDE DEF q
<1>4. Letters(p, q) \in Nat /\ w <= q
  BY <1>2, <1>3, CountLemma DEF Letters
<1>5. w \in Nat /\ p <= w
  BY <1>4
<1> HIDE DEF w
<1>6. {o \in w .. (q - 1) : \A u \in w .. o : Space(u)} \in SUBSET (w .. (q - 1))
  OBVIOUS
<1>7. Spaces(w, q) \in Nat /\ w + Spaces(w, q) <= q
  BY <1>2, <1>4, <1>5, <1>6, CountLemma DEF Spaces
<1>8. SnapForward(p) = w + Spaces(w, q)
  BY DEF SnapForward, q, w
<1> QED BY <1>1, <1>2, <1>5, <1>7, <1>8

\* A chain goes on with a bound at most the window further.
LEMMA AppendLemma ==
  ASSUME NEW b, Chain(b), NEW o \in Nat,
         b[Len(b)] <= o, o <= b[Len(b)] + ChunkChars,
         Len(b) >= 2 => Overlap <= b[Len(b)]
  PROVE  /\ Chain(Append(b, o))
         /\ Len(Append(b, o)) = Len(b) + 1
         /\ Append(b, o)[Len(b) + 1] = o
<1> DEFINE c == Append(b, o)
           n == Len(b)
<1>1. b \in Seq(Nat) /\ n \in Nat /\ n >= 1 /\ b[n] \in Nat /\ ChunkChars \in Nat
  BY ChunkAssumption DEF Chain
<1>2. /\ c \in Seq(Nat) /\ Len(c) = n + 1
      /\ \A i \in 1 .. n : c[i] = b[i] /\ b[i] \in Nat
      /\ c[n + 1] = o
  BY <1>1
<1>3. /\ b[1] = 0
      /\ \A i \in 1 .. n : b[i] <= b[n]
      /\ \A i \in 1 .. (n - 1) : b[i] <= b[i + 1] /\ b[i + 1] - b[i] <= ChunkChars
      /\ \A d \in 0 .. (b[n] - 1) : \E i \in 1 .. (n - 1) : Between(b, d, i)
      /\ \A i \in 2 .. (n - 1) : Overlap <= b[i]
      /\ b[n] <= o /\ o <= b[n] + ChunkChars /\ (n >= 2 => Overlap <= b[n])
  BY DEF Chain
<1> HIDE DEF c, n
<1>4. c[1] = 0
  BY <1>1, <1>2, <1>3
<1>5. ASSUME NEW i \in 1 .. (n + 1) PROVE c[i] <= c[n + 1]
  <2>1. CASE i = n + 1
    BY <1>2, <2>1
  <2>2. CASE i # n + 1
    <3>1. i \in 1 .. n
      BY <1>1, <2>2
    <3> QED BY <1>1, <1>2, <1>3, <3>1
  <2> QED BY <2>1, <2>2
<1>6. ASSUME NEW i \in 1 .. n PROVE c[i] <= c[i + 1] /\ c[i + 1] - c[i] <= ChunkChars
  <2>1. CASE i = n
    BY <1>1, <1>2, <1>3, <2>1
  <2>2. CASE i # n
    <3>1. i \in 1 .. (n - 1) /\ i + 1 \in 1 .. n
      BY <1>1, <2>2
    <3> QED BY <1>2, <1>3, <3>1
  <2> QED BY <2>1, <2>2
<1>7. ASSUME NEW d \in 0 .. (o - 1) PROVE \E i \in 1 .. n : Between(c, d, i)
  <2>1. CASE d \in 0 .. (b[n] - 1)
    <3>1. PICK i \in 1 .. (n - 1) : Between(b, d, i)
      BY <1>3, <2>1
    <3>2. i \in 1 .. n /\ i + 1 \in 1 .. n /\ i \in 1 .. (Len(c) - 1)
      BY <1>1, <1>2
    <3>3. c[i] = b[i] /\ c[i + 1] = b[i + 1]
      BY <1>2, <3>2
    <3>4. Between(c, d, i)
      BY <3>1, <3>2, <3>3 DEF Between
    <3> QED BY <3>2, <3>4
  <2>2. CASE d \notin 0 .. (b[n] - 1)
    <3>1. c[n] <= d /\ d < c[n + 1] /\ n \in 1 .. n
      BY <1>1, <1>2, <1>3, <2>2
    <3>2. n \in 1 .. (Len(c) - 1)
      BY <1>1, <1>2
    <3> QED BY <3>1, <3>2 DEF Between
  <2> QED BY <2>1, <2>2
<1>8. ASSUME NEW i \in 2 .. n PROVE Overlap <= c[i]
  <2>1. i \in 1 .. n /\ n >= 2
    BY <1>1
  <2>2. CASE i = n
    BY <1>2, <1>3, <2>1, <2>2
  <2>3. CASE i # n
    <3>1. i \in 2 .. (n - 1)
      BY <1>1, <2>3
    <3> QED BY <1>2, <1>3, <2>1, <3>1
  <2> QED BY <2>2, <2>3
<1>9. Len(c) - 1 = n /\ Len(c) >= 1
  BY <1>1, <1>2
<1>10. Chain(c)
  BY <1>2, <1>4, <1>5, <1>6, <1>7, <1>8, <1>9 DEF Chain
<1> QED BY <1>2, <1>10 DEF c, n

\* A piece starts no later than its cut, and no more than the overlap before it.
LEMMA StartLemma ==
  ASSUME ChunkInv, stage # "split", NEW i \in 1 .. (Len(bounds) - 1)
  PROVE  Start(i) \in Nat /\ Start(i) <= bounds[i] /\ bounds[i] <= Start(i) + Overlap
<1>1. /\ bounds \in Seq(Nat) /\ bounds[i] \in Nat /\ i \in 1 .. Len(bounds)
      /\ bounds[1] = 0 /\ bounds[i] <= LastBound /\ LastBound = Len(text)
  BY DEF ChunkInv, ChunkTypeOK, BoundsInv, Chain, LastBound
<1>2. Snap \in Nat /\ Overlap \in Nat /\ Snap <= Overlap /\ text \in Seq(Chars)
  BY ChunkAssumption DEF ChunkInv, ChunkTypeOK
<1>3. CASE i = 1
  BY <1>1, <1>2, <1>3 DEF Start
<1>4. CASE i # 1
  <2>1. Overlap <= bounds[i]
    <3>1. i \in 2 .. (Len(bounds) - 1)
      BY <1>1, <1>4
    <3> QED BY <3>1 DEF ChunkInv, BoundsInv, Chain
  <2>2. Reach(i) = bounds[i] - Overlap /\ Reach(i) \in Nat
    BY <1>1, <1>2, <2>1 DEF Reach
  <2>3. Reach(i) <= Len(text)
    BY <1>1, <1>2, <2>2
  <2>4. SnapForward(Reach(i)) \in Nat /\ Reach(i) <= SnapForward(Reach(i))
        /\ SnapForward(Reach(i)) <= Reach(i) + Snap
    BY <2>2, <2>3, SnapLemma DEF ChunkInv
  <2>5. Start(i) = SnapForward(Reach(i))
    BY <1>4 DEF Start
  <2>6. \A s, r, b, o, w \in Nat : r = b - o /\ r <= s /\ s <= r + w /\ w <= o
                                   => s <= b /\ b <= s + o
    OBVIOUS
  <2>7. bounds[i] \in Nat /\ Overlap \in Nat /\ Snap \in Nat /\ Snap <= Overlap
    BY <1>1, <1>2
  <2> QED BY <2>2, <2>4, <2>5, <2>6, <2>7
<1> QED BY <1>3, <1>4

-----------------------------------------------------------------------------
(* The steps.                                                                *)

\* What the slices are depends on the text and the bounds only.
LEMMA SlicedSame ==
  ASSUME text' = text, bounds' = bounds
  PROVE  Sliced' = Sliced
<1>1. \A o : Space(o)' = Space(o)
  BY DEF Space, Char
<1>2. \A p, q : Letters(p, q)' = Letters(p, q) /\ Spaces(p, q)' = Spaces(p, q)
  BY <1>1 DEF Letters, Spaces
<1>3. \A p : SnapForward(p)' = SnapForward(p) /\ Blank(p)' = Blank(p)
  BY <1>1, <1>2 DEF SnapForward, Blank
<1>4. \A i : Start(i)' = Start(i)
  BY <1>3 DEF Start, Reach
<1> QED BY <1>3, <1>4 DEF Sliced

LEMMA ChunkInitHolds == ChunkInit => ChunkInv /\ SlicesInv
<1> SUFFICES ASSUME ChunkInit PROVE ChunkInv /\ SlicesInv
  OBVIOUS
<1>1. bounds = <<0>> /\ text \in Seq(Chars) /\ pieces = {} /\ stage = "split"
  BY ChunkAssumption DEF ChunkInit
<1>2. bounds \in Seq(Nat) /\ Len(bounds) = 1 /\ bounds[1] = 0 /\ Len(text) \in Nat
  BY <1>1
<1>3. Chain(bounds)
  BY <1>2 DEF Chain
<1>4. LastBound = 0
  BY <1>2 DEF LastBound
<1> QED BY <1>1, <1>2, <1>3, <1>4 DEF ChunkInit, ChunkInv, ChunkTypeOK, BoundsInv, SlicesInv

\* The two conditions of a fold exclude each other.
LEMMA NoRunt ==
  ASSUME ChunkInv, stage = "fold"
  PROVE  ~Runt(Len(bounds))
<1>1. /\ Len(bounds) \in Nat /\ \A i \in 1 .. Len(bounds) : bounds[i] \in Nat
      /\ bounds[Len(bounds)] = Len(text) /\ ChunkChars \in Nat
      /\ Len(bounds) >= 3 => Len(text) - bounds[Len(bounds) - 2] > ChunkChars
  BY ChunkAssumption DEF ChunkInv, BoundsInv, ChunkTypeOK, Chain, LastBound
<1>2. Len(bounds) >= 3 => ~(bounds[Len(bounds)] - bounds[Len(bounds) - 2] <= ChunkChars)
  <2>1. Len(bounds) >= 3 => Len(bounds) - 2 \in 1 .. Len(bounds)
    BY <1>1
  <2>2. Len(bounds) >= 3 => bounds[Len(bounds) - 2] \in Nat
    BY <1>1, <2>1
  <2>3. Len(text) \in Nat
    BY ChunkAssumption DEF ChunkInv, ChunkTypeOK
  <2> QED BY <1>1, <2>2, <2>3
<1> QED BY <1>2 DEF Runt

LEMMA ChunkStepHolds ==
  ASSUME ChunkInv, SlicesInv, [ChunkNext]_chunkVars
  PROVE  ChunkInv' /\ SlicesInv'
<1>1. /\ Chain(bounds) /\ bounds \in Seq(Nat) /\ LastBound \in Nat /\ LastBound = bounds[Len(bounds)]
      /\ text \in Seq(Chars) /\ Len(text) \in Nat /\ ChunkChars \in Nat /\ Overlap \in Nat
  BY ChunkAssumption DEF ChunkInv, ChunkTypeOK, BoundsInv, Chain, LastBound
<1>2. CASE Split
  <2>1. PICK o \in BestCuts(LastBound) : bounds' = Append(bounds, o)
    BY <1>2 DEF Split
  <2>2. stage = "split" /\ stage' = "split" /\ text' = text /\ pieces' = pieces
        /\ Len(text) - LastBound > ChunkChars
    BY <1>2 DEF Split
  <2>3. o \in Nat /\ LastBound + Overlap <= o /\ LastBound < o /\ o <= LastBound + ChunkChars
    BY <1>1, CutLemma DEF ChunkInv
  <2>4. Len(bounds) >= 2 => Overlap <= LastBound
    BY <2>2 DEF ChunkInv, BoundsInv
  <2>5. Chain(bounds') /\ Len(bounds') = Len(bounds) + 1 /\ bounds'[Len(bounds) + 1] = o
    BY <1>1, <2>1, <2>3, <2>4, AppendLemma
  <2>6. LastBound' = o
    BY <2>5 DEF LastBound
  <2>7. LastBound' <= Len(text') /\ Overlap <= LastBound'
    BY <1>1, <2>2, <2>3, <2>6
  <2>a. bounds'[Len(bounds)] = LastBound
    BY <1>1, <2>1 DEF Chain, LastBound
  <2>b. Len(bounds') - 1 = Len(bounds)
    BY <1>1, <2>5 DEF Chain
  <2>8. BoundsInv'
    BY <2>2, <2>5, <2>7, <2>a, <2>b DEF BoundsInv
  <2>9. ChunkTypeOK'
    BY <2>2, <2>5 DEF ChunkInv, ChunkTypeOK, Chain
  <2> QED BY <2>2, <2>8, <2>9 DEF ChunkInv, SlicesInv
<1>3. CASE Close
  <2>1. /\ stage = "split" /\ stage' = "fold" /\ text' = text /\ pieces' = pieces
        /\ Len(text) - LastBound <= ChunkChars /\ bounds' = Append(bounds, Len(text))
    BY <1>3 DEF Close
  <2>2. LastBound <= Len(text) /\ (Len(bounds) >= 2 => Overlap <= LastBound)
    BY <2>1 DEF ChunkInv, BoundsInv
  <2>3. PICK o \in Nat : o = Len(text)
    BY <1>1
  <2>4. Chain(bounds') /\ Len(bounds') = Len(bounds) + 1 /\ bounds'[Len(bounds) + 1] = o
    BY <1>1, <2>1, <2>2, <2>3, AppendLemma
  <2>5. LastBound' = Len(text') /\ Len(bounds') >= 2
    BY <1>1, <2>1, <2>3, <2>4 DEF LastBound, Chain
  <2>a. Len(bounds') - 2 = Len(bounds) - 1 /\ (Len(bounds') >= 3 => Len(bounds) >= 2)
        /\ (Len(bounds) >= 2 => bounds'[Len(bounds) - 1] = bounds[Len(bounds) - 1])
    BY <1>1, <2>1, <2>4 DEF Chain
  <2>b. Len(bounds) >= 2 => Len(text) - bounds[Len(bounds) - 1] > ChunkChars
    BY <2>1 DEF ChunkInv, BoundsInv
  <2>6. BoundsInv'
    BY <2>1, <2>4, <2>5, <2>a, <2>b DEF BoundsInv
  <2>7. ChunkTypeOK'
    BY <2>1, <2>4 DEF ChunkInv, ChunkTypeOK, Chain
  <2> QED BY <2>1, <2>6, <2>7 DEF ChunkInv, SlicesInv
<1>4. CASE Fold
  <2>1. stage = "fold" /\ stage' = "slice" /\ text' = text /\ pieces' = pieces
    BY <1>4 DEF Fold
  <2>2. LastBound = Len(text) /\ Len(bounds) >= 2
    BY <2>1 DEF ChunkInv, BoundsInv
  <2>3. bounds' = bounds
    BY <1>4, <2>1, NoRunt DEF Fold
  <2>4. LastBound' = Len(text')
    BY <2>1, <2>2, <2>3 DEF LastBound
  <2>5. BoundsInv'
    BY <1>1, <2>1, <2>2, <2>3, <2>4 DEF BoundsInv
  <2>6. ChunkTypeOK'
    BY <2>1, <2>3 DEF ChunkInv, ChunkTypeOK, Chain
  <2> QED BY <2>1, <2>5, <2>6 DEF ChunkInv, SlicesInv
<1>5. CASE Slice
  <2>1. stage = "slice" /\ stage' = "done" /\ text' = text /\ bounds' = bounds
        /\ pieces' = Sliced
    BY <1>5 DEF Slice, Sliced
  <2>2. LastBound' = LastBound
    BY <2>1 DEF LastBound
  <2>3. BoundsInv'
    BY <2>1, <2>2 DEF ChunkInv, BoundsInv
  <2>4. ASSUME NEW i \in 1 .. (Len(bounds) - 1)
        PROVE  [from |-> Start(i), upto |-> bounds[i + 1]] \in Pieces
    <3>1. bounds[i + 1] \in Nat
      BY <1>1
    <3> QED BY <2>1, <3>1, StartLemma DEF Pieces
  <2>5. ChunkTypeOK'
    BY <2>1, <2>4 DEF ChunkInv, ChunkTypeOK, Sliced
  <2>6. Sliced' = Sliced
    BY <2>1, SlicedSame
  <2> QED BY <2>1, <2>3, <2>5, <2>6 DEF ChunkInv, SlicesInv
<1>6. CASE UNCHANGED chunkVars
  <2>1. text' = text /\ bounds' = bounds /\ pieces' = pieces /\ stage' = stage
    BY <1>6 DEF chunkVars
  <2>2. LastBound' = LastBound
    BY <2>1 DEF LastBound
  <2>3. BoundsInv' /\ ChunkTypeOK'
    BY <2>1, <2>2 DEF ChunkInv, BoundsInv, ChunkTypeOK
  <2>4. Sliced' = Sliced
    BY <2>1, SlicedSame
  <2> QED BY <2>1, <2>3, <2>4 DEF ChunkInv, SlicesInv
<1> QED BY <1>2, <1>3, <1>4, <1>5, <1>6 DEF ChunkNext

-----------------------------------------------------------------------------
(* The theorems.                                                             *)

LEMMA ChunkInvHolds == ChunkSpec => [](ChunkInv /\ SlicesInv)
<1> QED BY ChunkInitHolds, ChunkStepHolds, PTL DEF ChunkSpec

LEMMA NothingDropped ==
  ASSUME ChunkInv, SlicesInv
  PROVE  NoCharacterDropped
<1> SUFFICES ASSUME stage = "done", NEW o \in 0 .. (Len(text) - 1), ~Space(o)
             PROVE  \E p \in pieces : p.from <= o /\ o < p.upto
  BY DEF NoCharacterDropped
<1>1. LastBound = Len(text) /\ Chain(bounds) /\ pieces = Sliced
  BY DEF ChunkInv, BoundsInv, SlicesInv
<1>2. PICK i \in 1 .. (Len(bounds) - 1) : Between(bounds, o, i)
  BY <1>1 DEF Chain, LastBound
<1>3. bounds[i] <= o /\ o < bounds[i + 1] /\ bounds[i] \in Nat /\ bounds[i + 1] \in Nat
  BY <1>1, <1>2 DEF Between, Chain
<1>4. Start(i) \in Nat /\ Start(i) <= bounds[i]
  BY StartLemma
<1> DEFINE p == [from |-> Start(i), upto |-> bounds[i + 1]]
<1>5. p.from <= o /\ o < p.upto /\ p.from \in Nat /\ p.upto \in Nat
  BY <1>3, <1>4
<1>6. o \in p.from .. (p.upto - 1)
  BY <1>5
<1>7. ~Blank(p)
  BY <1>6 DEF Blank
<1>8. p \in Sliced
  BY <1>7 DEF Sliced
<1> QED BY <1>1, <1>5, <1>8

LEMMA AllFit ==
  ASSUME ChunkInv, SlicesInv
  PROVE  PiecesFit
<1> SUFFICES ASSUME NEW p \in pieces
             PROVE  p.upto - p.from <= ChunkChars + Overlap
  BY DEF PiecesFit
<1>1. stage = "done" /\ p \in Sliced /\ Chain(bounds)
  BY DEF ChunkInv, BoundsInv, SlicesInv
<1>2. PICK i \in 1 .. (Len(bounds) - 1) : p = [from |-> Start(i), upto |-> bounds[i + 1]]
  BY <1>1 DEF Sliced
<1>3. Start(i) \in Nat /\ bounds[i] <= Start(i) + Overlap
  BY <1>1, StartLemma
<1>4. bounds[i + 1] - bounds[i] <= ChunkChars /\ bounds[i] \in Nat /\ bounds[i + 1] \in Nat
  BY <1>1 DEF Chain
<1>5. p.from = Start(i) /\ p.upto = bounds[i + 1] /\ ChunkChars \in Nat /\ Overlap \in Nat
  BY <1>2, ChunkAssumption
<1> QED BY <1>3, <1>4, <1>5

\* Nothing a document says is lost between two compiles: for every text, window and
\* overlap, each character that is not a space ends up in some piece.
THEOREM KeepsEveryCharacter == ChunkSpec => []NoCharacterDropped
<1> QED BY ChunkInvHolds, NothingDropped, PTL

\* No piece outgrows the window by more than the overlap.
THEOREM EveryPieceFits == ChunkSpec => []PiecesFit
<1> QED BY ChunkInvHolds, AllFit, PTL

\* The fold of a short tail (chunking.py:103) never happens, for any text, limit, overlap and
\* tail: a cut is only made while the rest does not fit, so the tail never fits the piece
\* before it. The last piece of a document may hold little more than its overlap.
THEOREM NoTailIsFolded == ChunkSpec => [](stage = "fold" => ~Runt(Len(bounds)))
<1> QED BY ChunkInvHolds, NoRunt, PTL

\* The state of the cutting is well typed throughout.
THEOREM ChunkingTyped == ChunkSpec => []ChunkTypeOK
<1>1. ChunkInv => ChunkTypeOK
  BY DEF ChunkInv
<1> QED BY <1>1, ChunkInvHolds, PTL

===============================================================================
