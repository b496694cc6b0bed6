-------------------------- MODULE TokenStream_proofs --------------------------
(***************************************************************************)
(* What a tab guarantees of its token and its stream, for any number of    *)
(* workspaces, subscriptions, faults and switches.                         *)
(***************************************************************************)
EXTENDS TokenStream, FiniteSetTheorems, TLAPS

\* A subscription that was not cancelled is the page's; only one that awaits its token
\* waits for a fetch; one that is open has a token.
SubOK(x, s, pg, c) ==
  /\ x \in Sub
  /\ x.cancelled => x.at = "token"
  /\ x.at # "unused" /\ ~x.cancelled => pg /\ s = c
  /\ x.wait # 0 => x.at = "token"
  /\ x.at = "open" => x.token # None

CurOK ==
  cur # 0 => /\ page
             /\ subs[cur].at # "unused" /\ ~subs[cur].cancelled /\ subs[cur].ws # None

SubsInv ==
  /\ \A s \in Subs : SubOK(subs[s], s, page, cur)
  /\ CurOK

\* The token and its fetches, while no fetch was ever cut off by a change of workspace.
FetchesInv == ~raced => \A f \in Fetch : fetches[f] # "free" => inFlight = f

TokensInv ==
  ~switching /\ ~raced =>
    /\ cached \in {None, active}
    /\ \A f \in Fetch : fetches[f] \in {"free", "asked", active}

IInv == StreamTypeOK /\ SubsInv /\ FetchesInv /\ TokensInv

-----------------------------------------------------------------------------
(* The subscriptions.                                                        *)

LEMMA UnusedLemma ==
  /\ Unused \in Sub
  /\ Unused.ws = None /\ Unused.at = "unused" /\ Unused.wait = 0 /\ Unused.token = None
  /\ ~Unused.cancelled
<1> QED BY DEF Unused, Sub, Tokens

LEMMA NoneLemma == /\ None \notin Workspaces /\ Tokens = Workspaces \cup {None}
                   /\ {"free", "asked"} \cap Tokens = {} /\ 0 \notin Subs /\ 0 \notin Fetch
                   /\ MaxFaults \in Nat /\ MaxSwitches \in Nat /\ MaxSubs \in Nat
<1> QED BY StreamAssumption DEF Tokens, Subs, Fetch

\* Replacing one subscription by a good one, and none that the page points at by a
\* cancelled or unused one, keeps all good.
LEMMA ReplaceOne ==
  ASSUME IInv, NEW s \in Subs, NEW x, subs' = [subs EXCEPT ![s] = x],
         SubOK(x, s, page, cur), page' = page, cur' = cur,
         cur = s => x.at # "unused" /\ ~x.cancelled /\ x.ws # None
  PROVE  SubsInv' /\ subs' \in [Subs -> Sub]
<1>1. subs \in [Subs -> Sub] /\ x \in Sub
  BY DEF IInv, StreamTypeOK, SubOK
<1>2. subs' \in [Subs -> Sub] /\ subs'[s] = x /\ \A t \in Subs : t # s => subs'[t] = subs[t]
  BY <1>1
<1>3. \A t \in Subs : SubOK(subs'[t], t, page', cur')
  BY <1>2 DEF IInv, SubsInv
<1>4. CurOK'
  BY <1>2, NoneLemma DEF IInv, SubsInv, CurOK, StreamTypeOK
<1> QED BY <1>2, <1>3, <1>4 DEF SubsInv

\* Unsubscribing leaves nothing but cancelled and unused subscriptions.
LEMMA UnsubscribedLemma ==
  ASSUME IInv
  PROVE  /\ Unsubscribed \in [Subs -> Sub]
         /\ \A s \in Subs : \A pg, c :
              SubOK(Unsubscribed[s], s, pg, c)
<1>1. subs \in [Subs -> Sub] /\ cur \in Subs \cup {0} /\ 0 \notin Subs
  BY NoneLemma DEF IInv, StreamTypeOK
<1>2. ASSUME NEW s \in Subs
      PROVE  /\ Cancelled(subs[s]) \in Sub
             /\ \A pg, c : SubOK(Cancelled(subs[s]), s, pg, c)
  <2>1. SubOK(subs[s], s, page, cur)
    BY DEF IInv, SubsInv
  <2>2. CASE subs[s].at = "token"
    <3> DEFINE y == [Unused EXCEPT !.at = "token", !.wait = subs[s].wait, !.cancelled = TRUE]
    <3>1. Cancelled(subs[s]) = y
      BY <2>2 DEF Cancelled
    <3>2. y \in Sub /\ y.at = "token" /\ y.cancelled
      BY <1>1 DEF Unused, Sub, Tokens
    <3> QED BY <3>1, <3>2 DEF SubOK
  <2>3. CASE subs[s].at # "token"
    BY <2>3, UnusedLemma DEF Cancelled, SubOK
  <2> QED BY <2>2, <2>3
<1>3. ASSUME NEW s \in Subs, s # cur
      PROVE  \A pg, c : SubOK(subs[s], s, pg, c)
  BY <1>3 DEF IInv, SubsInv, SubOK
<1>4. CASE cur = 0
  BY <1>1, <1>3, <1>4 DEF Unsubscribed
<1>5. CASE cur # 0
  <2>1. Unsubscribed = [subs EXCEPT ![cur] = Cancelled(subs[cur])] /\ cur \in Subs
    BY <1>1, <1>5 DEF Unsubscribed
  <2>2. Unsubscribed \in [Subs -> Sub]
    BY <1>1, <1>2, <2>1
  <2>3. ASSUME NEW s \in Subs PROVE \A pg, c : SubOK(Unsubscribed[s], s, pg, c)
    <3>1. CASE s = cur
      BY <1>1, <1>2, <2>1, <3>1
    <3>2. CASE s # cur
      BY <1>1, <1>3, <2>1, <3>2
    <3> QED BY <3>1, <3>2
  <2> QED BY <2>2, <2>3
<1> QED BY <1>4, <1>5

\* A page that subscribes, with nothing of an earlier subscription left, is alone.
LEMMA SubscribeLemma ==
  ASSUME IInv, page' = TRUE, NEW w \in Tokens, NEW rest \in [Subs -> Sub],
         \A s \in Subs : \A pg, c : SubOK(rest[s], s, pg, c),
         Subscribe(w, rest)
  PROVE  /\ SubsInv' /\ subs' \in [Subs -> Sub] /\ cur' \in Subs \cup {0}
         /\ cur' # 0 => subs'[cur'].at = "timer" /\ subs'[cur'].ws = w
         /\ cur' = 0 => w = None
<1>1. CASE w = None
  <2>1. cur' = 0 /\ subs' = rest
    BY <1>1 DEF Subscribe
  <2> QED BY <1>1, <2>1 DEF SubsInv, CurOK
<1>2. CASE w # None
  <2> DEFINE x == [Unused EXCEPT !.ws = w, !.at = "timer"]
  <2>1. PICK s \in Subs : cur' = s /\ subs' = [rest EXCEPT ![s] = x]
    BY <1>2 DEF Subscribe
  <2>2. /\ x \in Sub /\ x.at = "timer" /\ x.ws = w /\ ~x.cancelled
        /\ x.wait = 0 /\ x.token = None
    BY DEF Unused, Sub, Tokens
  <2>3. subs' \in [Subs -> Sub] /\ subs'[s] = x /\ \A t \in Subs : t # s => subs'[t] = rest[t]
    BY <2>1, <2>2
  <2>4. SubOK(x, s, page', cur')
    BY <2>1, <2>2 DEF SubOK
  <2>5. \A t \in Subs : SubOK(subs'[t], t, page', cur')
    BY <2>3, <2>4
  <2>6. CurOK'
    BY <1>2, <2>1, <2>2, <2>3 DEF CurOK
  <2> QED BY <2>1, <2>2, <2>3, <2>5, <2>6, NoneLemma DEF SubsInv
<1> QED BY <1>1, <1>2

LEMMA SubsSame ==
  ASSUME IInv, page' = page, cur' = cur, subs' = subs
  PROVE  SubsInv' /\ subs' \in [Subs -> Sub] /\ cur' \in Subs \cup {0}
<1> QED BY DEF IInv, SubsInv, CurOK, StreamTypeOK

\* A change to every subscription that keeps each good, and the page's the page's.
LEMMA ReplaceAll ==
  ASSUME IInv, page' = page, cur' = cur, NEW new, subs' = new, new \in [Subs -> Sub],
         \A s \in Subs : /\ SubOK(new[s], s, page, cur)
                         /\ new[s].ws = subs[s].ws \/ subs[s].cancelled
                         /\ ~subs[s].cancelled /\ subs[s].at # "unused" =>
                               new[s].at # "unused" /\ ~new[s].cancelled
  PROVE  SubsInv' /\ subs' \in [Subs -> Sub] /\ cur' \in Subs \cup {0}
<1>1. \A s \in Subs : SubOK(subs'[s], s, page', cur')
  OBVIOUS
<1>2. CurOK'
  BY DEF IInv, SubsInv, CurOK, StreamTypeOK
<1> QED BY <1>1, <1>2 DEF SubsInv, IInv, StreamTypeOK

LEMMA OpenStep ==
  ASSUME IInv, NEW s \in Subs, Open(s)
  PROVE  /\ SubsInv' /\ subs' \in [Subs -> Sub] /\ cur' \in Subs \cup {0}
         /\ subs'[s].at = "token" /\ subs'[s].ws = subs[s].ws
<1> DEFINE x == [subs[s] EXCEPT !.at = "token", !.aged = FALSE, !.token = None]
<1>1. subs[s].at = "timer" /\ page' = page /\ cur' = cur /\ GetToken(s, x)
  BY DEF Open, pageVars
<1>2. SubOK(subs[s], s, page, cur) /\ cur \in Subs \cup {0} /\ cached \in Tokens
      /\ inFlight \in Fetch \cup {0}
  BY DEF IInv, SubsInv, StreamTypeOK
<1>3. PICK y \in {[x EXCEPT !.token = cached, !.wait = 0]}
                 \cup {[x EXCEPT !.wait = f] : f \in Fetch} :
        subs' = [subs EXCEPT ![s] = y]
  BY <1>1, <1>2 DEF GetToken
<1>4. /\ y \in Sub /\ y.at = "token" /\ y.ws = subs[s].ws
      /\ y.cancelled = subs[s].cancelled
  <2>1. subs[s] \in Sub /\ cached \in Tokens /\ None \in Tokens
    BY <1>2, NoneLemma DEF SubOK
  <2>2. x \in Sub /\ x.at = "token" /\ x.ws = subs[s].ws /\ x.cancelled = subs[s].cancelled
    BY <2>1 DEF Sub
  <2> HIDE DEF x
  <2>3. CASE y = [x EXCEPT !.token = cached, !.wait = 0]
    BY <2>1, <2>2, <2>3 DEF Sub
  <2>4. CASE \E f \in Fetch : y = [x EXCEPT !.wait = f]
    BY <2>1, <2>2, <2>4 DEF Sub
  <2> QED BY <2>3, <2>4
<1>5. ~subs[s].cancelled /\ page /\ s = cur
  BY <1>1, <1>2 DEF SubOK
<1>6. SubOK(y, s, page, cur)
  BY <1>4, <1>5 DEF SubOK
<1>7. cur = s => y.at # "unused" /\ ~y.cancelled /\ y.ws # None
  BY <1>4, <1>5, NoneLemma DEF IInv, SubsInv, CurOK
<1>8. SubsInv' /\ subs' \in [Subs -> Sub]
  BY <1>1, <1>3, <1>6, <1>7, ReplaceOne
<1>9. subs'[s] = y
  BY <1>3 DEF IInv, StreamTypeOK
<1> QED BY <1>1, <1>2, <1>4, <1>8, <1>9

\* Every other step of one subscription.
LEMMA OneStep ==
  ASSUME IInv, NEW s \in Subs, Connect(s) \/ Accept(s) \/ Refuse(s) \/ Drop(s)
  PROVE  SubsInv' /\ subs' \in [Subs -> Sub] /\ cur' \in Subs \cup {0}
<1>1. /\ SubOK(subs[s], s, page, cur) /\ cur \in Subs \cup {0} /\ subs[s] \in Sub
      /\ cur = s => subs[s].at # "unused" /\ ~subs[s].cancelled /\ subs[s].ws # None
  BY NoneLemma DEF IInv, SubsInv, CurOK, StreamTypeOK
<1>2. page' = page /\ cur' = cur
  BY DEF Connect, Accept, Refuse, Drop, pageVars
<1>3. ASSUME NEW a \in {"connecting", "open", "timer"}, subs' = [subs EXCEPT ![s].at = a],
             subs[s].at # "unused", ~subs[s].cancelled, subs[s].wait = 0,
             a = "open" => subs[s].token # None
      PROVE  SubsInv' /\ subs' \in [Subs -> Sub]
  <2> DEFINE x == [subs[s] EXCEPT !.at = a]
  <2>1. x \in Sub /\ x.at = a /\ ~x.cancelled /\ x.wait = 0 /\ x.ws = subs[s].ws
        /\ x.token = subs[s].token
    BY <1>1, <1>3 DEF Sub
  <2>2. SubOK(x, s, page, cur)
    BY <1>1, <1>3, <2>1 DEF SubOK
  <2>3. subs' = [subs EXCEPT ![s] = x]
    BY <1>1, <1>3
  <2> HIDE DEF x
  <2> QED BY <1>1, <1>2, <1>3, <2>1, <2>2, <2>3, ReplaceOne
<1>4. CASE Connect(s) /\ ~subs[s].cancelled
  <2>1. subs' = [subs EXCEPT ![s].at = "connecting"] /\ subs[s].at = "token" /\ subs[s].wait = 0
    BY <1>1, <1>4 DEF Connect
  <2> QED BY <1>1, <1>2, <1>3, <1>4, <2>1
<1>5. CASE Connect(s) /\ subs[s].cancelled
  <2>1. subs' = [subs EXCEPT ![s] = Unused]
    BY <1>5 DEF Connect
  <2>2. SubOK(Unused, s, page, cur)
    BY UnusedLemma DEF SubOK
  <2> QED BY <1>1, <1>2, <1>5, <2>1, <2>2, ReplaceOne
<1>6. CASE Accept(s)
  <2>1. subs' = [subs EXCEPT ![s].at = "open"] /\ subs[s].at = "connecting" /\ subs[s].token # None
    BY <1>6 DEF Accept
  <2> QED BY <1>1, <1>2, <1>3, <2>1 DEF SubOK
<1>7. CASE Refuse(s)
  <2>1. subs' = [subs EXCEPT ![s].at = "timer"] /\ subs[s].at = "connecting"
    BY <1>7 DEF Refuse, Reopens
  <2> QED BY <1>1, <1>2, <1>3, <2>1 DEF SubOK
<1>8. CASE Drop(s)
  <2>1. subs' = [subs EXCEPT ![s].at = "connecting"] /\ subs[s].at = "open"
    BY <1>8 DEF Drop
  <2> QED BY <1>1, <1>2, <1>3, <2>1 DEF SubOK
<1> QED BY <1>4, <1>5, <1>6, <1>7, <1>8

LEMMA SubsStep ==
  ASSUME IInv, [StreamNext]_streamVars
  PROVE  SubsInv' /\ subs' \in [Subs -> Sub] /\ cur' \in Subs \cup {0}
<1> DEFINE Goal == SubsInv' /\ subs' \in [Subs -> Sub] /\ cur' \in Subs \cup {0}
<1>0. /\ \A s \in Subs : SubOK(subs[s], s, page, cur) /\ subs[s] \in Sub
      /\ subs \in [Subs -> Sub] /\ cur \in Subs \cup {0} /\ active \in Tokens
      /\ clientWs \in Tokens
  BY DEF IInv, SubsInv, StreamTypeOK
<1>1. CASE Send \/ SetActive \/ Clear \/ (\E f \in Fetch : Mint(f)) \/ UNCHANGED streamVars
  <2>1. page' = page /\ cur' = cur /\ subs' = subs
    BY <1>1 DEF Send, SetActive, Clear, Mint, streamVars, pageVars
  <2> QED BY <2>1, SubsSame
<1>2. CASE Expire
  <2> DEFINE F(s) == [subs[s] EXCEPT !.aged = subs[s].token # None]
  <2>1. page' = page /\ cur' = cur /\ subs' = [s \in Subs |-> F(s)]
    BY <1>2 DEF Expire, pageVars
  <2>2. ASSUME NEW s \in Subs
        PROVE  /\ SubOK(F(s), s, page, cur)
               /\ F(s).ws = subs[s].ws \/ subs[s].cancelled
               /\ ~subs[s].cancelled /\ subs[s].at # "unused" =>
                     F(s).at # "unused" /\ ~F(s).cancelled
    <3>1. F(s) \in Sub /\ F(s).at = subs[s].at /\ F(s).ws = subs[s].ws
          /\ F(s).cancelled = subs[s].cancelled /\ F(s).wait = subs[s].wait
          /\ F(s).token = subs[s].token
      BY <1>0 DEF Sub
    <3> QED BY <1>0, <3>1 DEF SubOK
  <2> HIDE DEF F
  <2>3. [s \in Subs |-> F(s)] \in [Subs -> Sub]
    BY <2>2 DEF SubOK
  <2> QED BY <2>1, <2>2, <2>3, ReplaceAll
<1>3. ASSUME NEW f \in Fetch, Resolve(f) PROVE Goal
  <2> DEFINE F(s) == IF subs[s].wait = f
                     THEN [subs[s] EXCEPT !.wait = 0, !.token = fetches[f]] ELSE subs[s]
  <2>1. page' = page /\ cur' = cur /\ subs' = [s \in Subs |-> F(s)] /\ fetches[f] \in Tokens
    BY <1>3 DEF Resolve, pageVars
  <2>2. ASSUME NEW s \in Subs
        PROVE  /\ SubOK(F(s), s, page, cur)
               /\ F(s).ws = subs[s].ws \/ subs[s].cancelled
               /\ ~subs[s].cancelled /\ subs[s].at # "unused" =>
                     F(s).at # "unused" /\ ~F(s).cancelled
    <3>1. CASE subs[s].wait = f
      <4>1. F(s) \in Sub /\ F(s).at = subs[s].at /\ F(s).ws = subs[s].ws
            /\ F(s).cancelled = subs[s].cancelled /\ F(s).wait = 0
        BY <1>0, <2>1, <3>1 DEF Sub
      <4>2. subs[s].at = "token"
        BY <1>0, <3>1, NoneLemma DEF SubOK
      <4> QED BY <1>0, <4>1, <4>2 DEF SubOK
    <3>2. CASE subs[s].wait # f
      BY <1>0, <3>2
    <3> QED BY <3>1, <3>2
  <2> HIDE DEF F
  <2>3. [s \in Subs |-> F(s)] \in [Subs -> Sub]
    BY <2>2 DEF SubOK
  <2> QED BY <2>1, <2>2, <2>3, ReplaceAll
<1>4. ASSUME NEW f \in Fetch, Throw(f) PROVE Goal
  <2> DEFINE F(s) == IF subs[s].wait = f
                     THEN IF subs[s].cancelled THEN Unused
                          ELSE [subs[s] EXCEPT !.wait = 0, !.at = "dead"]
                     ELSE subs[s]
  <2>1. page' = page /\ cur' = cur /\ subs' = [s \in Subs |-> F(s)]
    BY <1>4 DEF Throw, pageVars
  <2>2. ASSUME NEW s \in Subs
        PROVE  /\ SubOK(F(s), s, page, cur)
               /\ F(s).ws = subs[s].ws \/ subs[s].cancelled
               /\ ~subs[s].cancelled /\ subs[s].at # "unused" =>
                     F(s).at # "unused" /\ ~F(s).cancelled
    <3>1. CASE subs[s].wait = f /\ ~subs[s].cancelled
      <4>1. F(s) \in Sub /\ F(s).at = "dead" /\ F(s).ws = subs[s].ws
            /\ F(s).cancelled = subs[s].cancelled /\ F(s).wait = 0
        BY <1>0, <3>1 DEF Sub
      <4>2. subs[s].at = "token"
        BY <1>0, <3>1, NoneLemma DEF SubOK
      <4> QED BY <1>0, <3>1, <4>1, <4>2 DEF SubOK
    <3>2. CASE subs[s].wait = f /\ subs[s].cancelled
      <4>1. F(s) = Unused
        BY <3>2
      <4>2. SubOK(Unused, s, page, cur)
        BY UnusedLemma DEF SubOK
      <4> QED BY <3>2, <4>1, <4>2
    <3>3. CASE subs[s].wait # f
      BY <1>0, <3>3
    <3> QED BY <3>1, <3>2, <3>3
  <2> HIDE DEF F
  <2>3. [s \in Subs |-> F(s)] \in [Subs -> Sub]
    BY <2>2 DEF SubOK
  <2> QED BY <2>1, <2>2, <2>3, ReplaceAll
<1>5. CASE EnterPage
  <2>1. ~page /\ page' = TRUE /\ Subscribe(clientWs, subs)
    BY <1>5 DEF EnterPage
  <2>2. \A s \in Subs : \A pg, c : SubOK(subs[s], s, pg, c)
    BY <1>0, <2>1 DEF SubOK
  <2> QED BY <1>0, <2>1, <2>2, SubscribeLemma
<1>6. CASE LeavePage
  <2>1. cur' = 0 /\ subs' = Unsubscribed
    BY <1>6 DEF LeavePage
  <2>2. CurOK'
    BY <2>1 DEF CurOK
  <2>3. /\ Unsubscribed \in [Subs -> Sub]
        /\ \A s \in Subs : \A pg, c : SubOK(Unsubscribed[s], s, pg, c)
    BY UnsubscribedLemma
  <2>4. subs' \in [Subs -> Sub] /\ \A s \in Subs : SubOK(subs'[s], s, page', cur')
    BY <2>1, <2>3
  <2> QED BY <2>1, <2>2, <2>4 DEF SubsInv
<1>7. CASE ReKey
  <2>1. CASE page
    <3>1. page' = TRUE /\ Subscribe(active, Unsubscribed)
      BY <1>0, <1>7, <2>1 DEF ReKey, IInv, StreamTypeOK
    <3>2. /\ Unsubscribed \in [Subs -> Sub]
          /\ \A s \in Subs : \A pg, c : SubOK(Unsubscribed[s], s, pg, c)
      BY UnsubscribedLemma
    <3> QED BY <1>0, <3>1, <3>2, SubscribeLemma
  <2>2. CASE ~page
    BY <1>7, <2>2, SubsSame DEF ReKey
  <2> QED BY <2>1, <2>2
<1>8. ASSUME NEW s \in Subs, StreamStep(s) PROVE Goal
  BY <1>8, OpenStep, OneStep DEF StreamStep
<1> QED BY <1>1, <1>2, <1>3, <1>4, <1>5, <1>6, <1>7, <1>8 DEF StreamNext, TokenStep

-----------------------------------------------------------------------------
(* The token and its fetches.                                                *)

\* GetToken touches no token but a fetch that was free, and only if none is in flight.
LEMMA GetTokenLemma ==
  ASSUME IInv, NEW s \in Subs, NEW x, GetToken(s, x)
  PROVE  /\ cached' = cached
         /\ \/ inFlight' = inFlight /\ fetches' = fetches
            \/ /\ inFlight = 0
               /\ \E f \in Fetch : /\ fetches[f] = "free" /\ inFlight' = f
                                   /\ fetches' = [fetches EXCEPT ![f] = "asked"]
<1> QED BY DEF GetToken, tokenVars

\* The steps that leave the token alone but for a fetch they may start.
Quiet ==
  /\ cached' = cached
  /\ \/ inFlight' = inFlight /\ fetches' = fetches
     \/ /\ inFlight = 0
        /\ \E f \in Fetch : /\ fetches[f] = "free" /\ inFlight' = f
                            /\ fetches' = [fetches EXCEPT ![f] = "asked"]

LEMMA QuietSteps ==
  ASSUME IInv,
         \/ Send \/ EnterPage \/ LeavePage \/ ReKey \/ SetActive \/ UNCHANGED streamVars
         \/ \E s \in Subs : StreamStep(s)
  PROVE  Quiet
<1>1. CASE Send
  BY <1>1 DEF Send, Quiet
<1>2. CASE EnterPage \/ LeavePage \/ ReKey \/ SetActive \/ UNCHANGED streamVars
  BY <1>2 DEF EnterPage, LeavePage, ReKey, SetActive, streamVars, tokenVars, Quiet
<1>3. ASSUME NEW s \in Subs, Open(s) PROVE Quiet
  BY <1>3, GetTokenLemma DEF Open, Quiet
<1>4. ASSUME NEW s \in Subs, Connect(s) \/ Accept(s) \/ Refuse(s) \/ Drop(s) PROVE Quiet
  BY <1>4 DEF Connect, Accept, Refuse, Drop, tokenVars, Quiet
<1> QED BY <1>1, <1>2, <1>3, <1>4 DEF StreamStep

LEMMA TokenStepLemma ==
  ASSUME IInv, [StreamNext]_streamVars
  PROVE  /\ FetchesInv' /\ TokensInv'
         /\ cached' \in Tokens /\ inFlight' \in Fetch \cup {0}
         /\ fetches' \in [Fetch -> Tokens \cup {"free", "asked"}]
<1>0. /\ fetches \in [Fetch -> Tokens \cup {"free", "asked"}]
      /\ cached \in Tokens /\ inFlight \in Fetch \cup {0} /\ active \in Tokens
      /\ raced \in BOOLEAN /\ switching \in BOOLEAN /\ None \in Tokens
      /\ FetchesInv /\ TokensInv
  BY NoneLemma DEF IInv, StreamTypeOK
<1>1. ASSUME Quiet, raced' = raced,
             (switching' = switching /\ active' = active) \/ switching' = TRUE
      PROVE  /\ FetchesInv' /\ TokensInv'
             /\ cached' \in Tokens /\ inFlight' \in Fetch \cup {0}
             /\ fetches' \in [Fetch -> Tokens \cup {"free", "asked"}]
  <2>1. CASE inFlight' = inFlight /\ fetches' = fetches
    BY <1>0, <1>1, <2>1 DEF Quiet, FetchesInv, TokensInv
  <2>2. CASE /\ inFlight = 0
             /\ \E f \in Fetch : /\ fetches[f] = "free" /\ inFlight' = f
                                 /\ fetches' = [fetches EXCEPT ![f] = "asked"]
    <3>1. PICK f \in Fetch : /\ fetches[f] = "free" /\ inFlight' = f
                             /\ fetches' = [fetches EXCEPT ![f] = "asked"]
      BY <2>2
    <3>2. fetches' \in [Fetch -> Tokens \cup {"free", "asked"}]
      BY <1>0, <3>1
    <3>3. ~raced => \A g \in Fetch : fetches[g] = "free"
      BY <1>0, <2>2, NoneLemma DEF FetchesInv
    <3>4. FetchesInv'
      BY <1>0, <1>1, <3>1, <3>3 DEF FetchesInv
    <3>5. TokensInv'
      BY <1>0, <1>1, <3>1 DEF TokensInv, Quiet
    <3> QED BY <1>0, <1>1, <3>1, <3>2, <3>4, <3>5 DEF Quiet
  <2> QED BY <1>1, <2>1, <2>2 DEF Quiet
<1>2. CASE \/ Send \/ EnterPage \/ LeavePage \/ ReKey \/ SetActive \/ UNCHANGED streamVars
           \/ \E s \in Subs : StreamStep(s)
  <2>1. Quiet
    BY <1>2, QuietSteps
  <2>2. raced' = raced /\ ((switching' = switching /\ active' = active) \/ switching' = TRUE)
    BY <1>2 DEF Send, EnterPage, LeavePage, ReKey, SetActive, StreamStep, Open, Connect,
                Accept, Refuse, Drop, streamVars, switchVars
  <2> QED BY <1>1, <2>1, <2>2
<1>3. CASE Expire
  BY <1>0, <1>3 DEF Expire, switchVars, FetchesInv, TokensInv
<1>4. CASE Clear
  <2>1. /\ cached' = None /\ inFlight' = 0 /\ fetches' = fetches /\ active' = active
        /\ raced' = (raced \/ \E f \in Fetch : fetches[f] # "free")
    BY <1>4 DEF Clear
  <2>2. ~raced' => \A f \in Fetch : fetches'[f] = "free"
    BY <2>1
  <2> QED BY <1>0, <2>1, <2>2 DEF FetchesInv, TokensInv
<1>5. ASSUME NEW f \in Fetch, Mint(f)
      PROVE  /\ FetchesInv' /\ TokensInv'
             /\ cached' \in Tokens /\ inFlight' \in Fetch \cup {0}
             /\ fetches' \in [Fetch -> Tokens \cup {"free", "asked"}]
  BY <1>0, <1>5 DEF Mint, switchVars, FetchesInv, TokensInv
<1>6. ASSUME NEW f \in Fetch, Resolve(f) \/ Throw(f)
      PROVE  /\ FetchesInv' /\ TokensInv'
             /\ cached' \in Tokens /\ inFlight' \in Fetch \cup {0}
             /\ fetches' \in [Fetch -> Tokens \cup {"free", "asked"}]
  <2>1. /\ inFlight' = 0 /\ fetches' = [fetches EXCEPT ![f] = "free"]
        /\ active' = active /\ switching' = switching /\ raced' = raced
        /\ fetches[f] # "free"
        /\ cached' = cached \/ (cached' = fetches[f] /\ fetches[f] \in Tokens)
    <3>1. CASE Resolve(f)
      <4>1. cached' = cached \/ cached' = fetches[f]
        BY <3>1 DEF Resolve
      <4>2. fetches[f] # "free"
        BY <3>1, NoneLemma DEF Resolve
      <4> QED BY <3>1, <4>1, <4>2 DEF Resolve, switchVars
    <3>2. CASE Throw(f)
      <4>1. fetches[f] # "free"
        BY <3>2 DEF Throw
      <4> QED BY <3>2, <4>1 DEF Throw, switchVars
    <3> QED BY <1>6, <3>1, <3>2
  <2>2. ~raced => \A g \in Fetch : g # f => fetches[g] = "free"
    BY <1>0, <2>1 DEF FetchesInv
  <2>3. FetchesInv'
    BY <1>0, <2>1, <2>2 DEF FetchesInv
  <2>4. fetches' \in [Fetch -> Tokens \cup {"free", "asked"}] /\ cached' \in Tokens
    BY <1>0, <2>1
  <2>5. TokensInv'
    <3>1. SUFFICES ASSUME ~switching, ~raced
                   PROVE  /\ cached' \in {None, active}
                          /\ \A g \in Fetch : fetches'[g] \in {"free", "asked", active}
      BY <2>1 DEF TokensInv
    <3>2. fetches[f] \in Tokens => fetches[f] = active
      BY <1>0, <3>1, NoneLemma DEF TokensInv
    <3> QED BY <1>0, <2>1, <3>1, <3>2 DEF TokensInv
  <2> QED BY <2>1, <2>3, <2>4, <2>5
<1> QED BY <1>2, <1>3, <1>4, <1>5, <1>6 DEF StreamNext, TokenStep

LEMMA TypeStep ==
  ASSUME IInv, [StreamNext]_streamVars
  PROVE  /\ active' \in Tokens /\ clientWs' \in Tokens
         /\ switching' \in BOOLEAN /\ page' \in BOOLEAN /\ connected' \in BOOLEAN
         /\ raced' \in BOOLEAN
         /\ switches' \in 0 .. MaxSwitches /\ faults' \in 0 .. MaxFaults
<1>0. /\ active \in Tokens /\ clientWs \in Tokens
      /\ switching \in BOOLEAN /\ page \in BOOLEAN /\ connected \in BOOLEAN /\ raced \in BOOLEAN
      /\ switches \in 0 .. MaxSwitches /\ faults \in 0 .. MaxFaults
      /\ MaxFaults \in Nat /\ MaxSwitches \in Nat
  BY NoneLemma DEF IInv, StreamTypeOK
<1>1. faults' = faults \/ Fault
  BY DEF StreamNext, Send, Expire, SetActive, Clear, EnterPage, LeavePage, ReKey, StreamStep,
         TokenStep, Open, Connect, Accept, Refuse, Drop, Mint, Resolve, Throw, streamVars
<1>2. faults' \in 0 .. MaxFaults
  BY <1>0, <1>1 DEF Fault
<1>3. CASE SetActive
  <2>1. switches' \in 0 .. MaxSwitches
    BY <1>0, <1>3 DEF SetActive
  <2> QED BY <1>0, <1>2, <1>3, <2>1 DEF SetActive, pageVars
<1>7. CASE Clear
  <2>1. /\ active' = active /\ page' = page /\ clientWs' = clientWs /\ connected' = connected
        /\ switches' = switches /\ switching' = FALSE
    BY <1>7 DEF Clear, pageVars
  <2>2. raced' \in BOOLEAN
    BY <1>7 DEF Clear
  <2> QED BY <1>0, <1>2, <2>1, <2>2
<1>4. CASE Send \/ Expire \/ EnterPage \/ LeavePage \/ ReKey \/ UNCHANGED streamVars
  BY <1>0, <1>2, <1>4 DEF Send, Expire, EnterPage, LeavePage, ReKey, streamVars, switchVars,
                          pageVars
<1>5. ASSUME NEW s \in Subs, StreamStep(s)
      PROVE  /\ UNCHANGED <<active, switching, switches, raced, page, clientWs>>
             /\ connected' \in BOOLEAN
  BY <1>0, <1>5 DEF StreamStep, Open, Connect, Accept, Refuse, Drop, Reopens, switchVars, pageVars
<1>6. ASSUME NEW f \in Fetch, TokenStep(f)
      PROVE  UNCHANGED <<active, switching, switches, raced, page, clientWs, connected>>
  BY <1>6 DEF TokenStep, Mint, Resolve, Throw, switchVars, pageVars
<1> QED BY <1>0, <1>2, <1>3, <1>4, <1>5, <1>6, <1>7 DEF StreamNext, switchVars

-----------------------------------------------------------------------------
(* The theorems.                                                             *)

LEMMA InitLemma == StreamInit => IInv
<1> SUFFICES ASSUME StreamInit PROVE IInv
  OBVIOUS
<1>1. subs \in [Subs -> Sub] /\ \A s \in Subs : subs[s] = Unused
  BY UnusedLemma DEF StreamInit
<1>2. StreamTypeOK
  <2>1. /\ active \in Tokens /\ cached \in Tokens /\ clientWs \in Tokens
        /\ switching \in BOOLEAN /\ page \in BOOLEAN /\ connected \in BOOLEAN
        /\ raced \in BOOLEAN
    BY NoneLemma DEF StreamInit
  <2>2. inFlight \in Fetch \cup {0} /\ fetches \in [Fetch -> Tokens \cup {"free", "asked"}]
    BY DEF StreamInit
  <2>3. switches \in 0 .. MaxSwitches /\ faults \in 0 .. MaxFaults /\ cur \in Subs \cup {0}
    BY NoneLemma DEF StreamInit
  <2> QED BY <1>1, <2>1, <2>2, <2>3 DEF StreamTypeOK
<1>3. SubsInv
  BY <1>1, UnusedLemma DEF StreamInit, SubsInv, SubOK, CurOK
<1>4. FetchesInv /\ TokensInv
  BY DEF StreamInit, FetchesInv, TokensInv
<1> QED BY <1>2, <1>3, <1>4 DEF IInv

LEMMA StepLemma == IInv /\ [StreamNext]_streamVars => IInv'
<1> SUFFICES ASSUME IInv, [StreamNext]_streamVars PROVE IInv'
  OBVIOUS
<1>1. SubsInv' /\ subs' \in [Subs -> Sub] /\ cur' \in Subs \cup {0}
  BY SubsStep
<1>2. /\ FetchesInv' /\ TokensInv'
      /\ cached' \in Tokens /\ inFlight' \in Fetch \cup {0}
      /\ fetches' \in [Fetch -> Tokens \cup {"free", "asked"}]
  BY TokenStepLemma
<1>3. StreamTypeOK'
  BY <1>1, <1>2, TypeStep DEF StreamTypeOK
<1> QED BY <1>1, <1>2, <1>3 DEF IInv

LEMMA InvHolds == StreamSpec => []IInv
<1> QED BY InitLemma, StepLemma, PTL DEF StreamSpec

\* Type correctness.
THEOREM StreamTyped == StreamSpec => []StreamTypeOK
<1>1. IInv => StreamTypeOK
  BY DEF IInv
<1> QED BY <1>1, InvHolds, PTL

\* However often the page is left and entered, tokens expire and workspaces change, at
\* most the subscription the page has holds a connection.
THEOREM NothingLeaks == StreamSpec => []NoLeakedConnection
<1>1. IInv => NoLeakedConnection
  BY DEF IInv, SubsInv, SubOK, NoLeakedConnection
<1> QED BY <1>1, InvHolds, PTL

\* Callers share the one fetch in flight, until a change of workspace cuts one off.
THEOREM FetchIsShared == StreamSpec => []OneTokenFetch
<1>1. IInv => OneTokenFetch
  <2> SUFFICES ASSUME IInv, ~raced
               PROVE  Cardinality({f \in Fetch : fetches[f] # "free"}) <= 1
    BY DEF OneTokenFetch
  <2>1. {f \in Fetch : fetches[f] # "free"} \in SUBSET {inFlight}
    BY DEF IInv, FetchesInv
  <2>2. IsFiniteSet({inFlight}) /\ Cardinality({inFlight}) = 1
    BY FS_Singleton
  <2>3. Cardinality({f \in Fetch : fetches[f] # "free"}) <= Cardinality({inFlight})
    BY <2>1, <2>2, FS_Subset
  <2> QED BY <2>2, <2>3
<1> QED BY <1>1, InvHolds, PTL

\* Once a switch is complete no request goes out with the token of the workspace left
\* behind, unless a fetch was under way.
THEOREM TokenIsCurrent == StreamSpec => []TokenFollowsWorkspace
<1>1. IInv => TokenFollowsWorkspace
  BY DEF IInv, TokensInv, TokenFollowsWorkspace
<1> QED BY <1>1, InvHolds, PTL

-----------------------------------------------------------------------------
(* The stream implements Link.                                               *)

LinkWs   == IF cur = 0 THEN None ELSE subs[cur].ws
LinkConn == IF cur # 0 /\ subs[cur].at = "open" THEN subs[cur].token ELSE None

\* A step of one subscription that keeps its page, seen from the page.
LEMMA LinkStep ==
  ASSUME IInv, IInv', [StreamNext]_streamVars
  PROVE  [L!LinkNext]_(L!linkVars)
<1> USE DEF L!LinkNext, L!linkVars, L!Enter, L!Leave, L!ReKey, L!Up, L!Down
<1>0. /\ cur \in Subs \cup {0} /\ cur' \in Subs \cup {0} /\ 0 \notin Subs
      /\ subs \in [Subs -> Sub] /\ subs' \in [Subs -> Sub] /\ page \in BOOLEAN
      /\ Tokens = Workspaces \cup {None}
      /\ \A s \in Subs : subs[s].ws \in Tokens /\ subs[s].token \in Tokens
      /\ \A s \in Subs : subs'[s].ws \in Tokens /\ subs'[s].token \in Tokens
      /\ cur # 0 => page /\ subs[cur].ws # None
  BY NoneLemma DEF IInv, StreamTypeOK, SubsInv, CurOK, Sub
<1>1. CASE page' = page /\ LinkWs' = LinkWs /\ LinkConn' = LinkConn
  BY <1>1 DEF LinkWs, LinkConn
<1>2. ASSUME page' = page, cur' = cur,
             cur # 0 => subs'[cur].ws = subs[cur].ws
                        /\ (subs'[cur].at = "open" <=> subs[cur].at = "open")
                        /\ (subs[cur].at = "open" => subs'[cur].token = subs[cur].token)
      PROVE  [L!LinkNext]_(L!linkVars)
  BY <1>1, <1>2 DEF LinkWs, LinkConn
<1>3. CASE Send \/ SetActive \/ Clear \/ (\E f \in Fetch : Mint(f)) \/ UNCHANGED streamVars
  <2>1. page' = page /\ cur' = cur /\ subs' = subs
    BY <1>3 DEF Send, SetActive, Clear, Mint, streamVars, pageVars
  <2> QED BY <1>2, <2>1
<1>4. CASE Expire
  <2>1. page' = page /\ cur' = cur
        /\ subs' = [s \in Subs |-> [subs[s] EXCEPT !.aged = subs[s].token # None]]
    BY <1>4 DEF Expire, pageVars
  <2>2. cur # 0 => /\ subs'[cur].ws = subs[cur].ws /\ subs'[cur].at = subs[cur].at
                   /\ subs'[cur].token = subs[cur].token
    BY <1>0, <2>1 DEF Sub
  <2> QED BY <1>2, <2>1, <2>2
<1>5. ASSUME NEW f \in Fetch, Resolve(f) \/ Throw(f)
      PROVE  [L!LinkNext]_(L!linkVars)
  <2>1. page' = page /\ cur' = cur
    BY <1>5 DEF Resolve, Throw, pageVars
  <2>2. CASE cur # 0 /\ subs[cur].wait = f
    <3>1. subs[cur].at = "token" /\ ~subs[cur].cancelled
      BY <1>0, <2>2, NoneLemma DEF IInv, SubsInv, SubOK, CurOK
    <3>2. subs'[cur].ws = subs[cur].ws /\ subs'[cur].at \in {"token", "dead"}
      BY <1>0, <1>5, <2>2, <3>1 DEF Resolve, Throw, Sub
    <3> QED BY <1>2, <2>1, <3>1, <3>2
  <2>3. CASE cur # 0 /\ subs[cur].wait # f
    <3>1. subs'[cur] = subs[cur]
      BY <1>0, <1>5, <2>3 DEF Resolve, Throw
    <3> QED BY <1>2, <2>1, <3>1
  <2>4. CASE cur = 0
    BY <1>2, <2>1, <2>4
  <2> QED BY <2>2, <2>3, <2>4
<1>6. CASE EnterPage
  <2>1. ~page /\ page' = TRUE /\ Subscribe(clientWs, subs) /\ clientWs \in Tokens
    BY <1>6 DEF EnterPage, IInv, StreamTypeOK
  <2>2. \A s \in Subs : \A pg, c : SubOK(subs[s], s, pg, c)
    BY <2>1 DEF SubOK, IInv, SubsInv
  <2>3. cur' # 0 => subs'[cur'].at = "timer"
    BY <1>0, <2>1, <2>2, SubscribeLemma
  <2>4. LinkWs = None /\ LinkConn = None /\ LinkConn' = None /\ LinkWs' \in Tokens
    BY <1>0, <2>1, <2>3, NoneLemma DEF LinkWs, LinkConn
  <2> QED BY <1>0, <2>1, <2>4 DEF LinkWs, LinkConn
<1>7. CASE LeavePage
  <2>1. page /\ page' = FALSE /\ cur' = 0
    BY <1>7 DEF LeavePage
  <2>2. LinkWs' = None /\ LinkConn' = None
    BY <2>1 DEF LinkWs, LinkConn
  <2> QED BY <2>1, <2>2 DEF LinkWs, LinkConn
<1>8. CASE ReKey
  <2>1. CASE page
    <3>1. page' = TRUE /\ Subscribe(active, Unsubscribed) /\ active \in Tokens
      BY <1>0, <1>8, <2>1 DEF ReKey, IInv, StreamTypeOK
    <3>2. /\ Unsubscribed \in [Subs -> Sub]
          /\ \A s \in Subs : \A pg, c : SubOK(Unsubscribed[s], s, pg, c)
      BY UnsubscribedLemma
    <3>3. cur' # 0 => subs'[cur'].at = "timer"
      BY <3>1, <3>2, SubscribeLemma
    <3>4. LinkConn' = None /\ LinkWs' \in Tokens
      BY <1>0, <3>3, NoneLemma DEF LinkWs, LinkConn
    <3> QED BY <1>0, <2>1, <3>1, <3>4 DEF LinkWs, LinkConn
  <2>2. CASE ~page
    <3>1. page' = page /\ cur' = cur /\ subs' = subs
      BY <1>8, <2>2 DEF ReKey
    <3> QED BY <1>2, <3>1
  <2> QED BY <2>1, <2>2
<1>9. ASSUME NEW s \in Subs, StreamStep(s)
      PROVE  [L!LinkNext]_(L!linkVars)
  <2>1. page' = page /\ cur' = cur
    BY <1>9 DEF StreamStep, Open, Connect, Accept, Refuse, Drop, pageVars
  <2>2. PICK x : subs' = [subs EXCEPT ![s] = x]
    BY <1>0, <1>9 DEF StreamStep, Open, Connect, Accept, Refuse, Reopens, Drop, GetToken
  <2>3. CASE s # cur
    BY <1>0, <1>2, <2>1, <2>2, <2>3
  <2>4. CASE s = cur
    <3>0. ~subs[s].cancelled /\ s # 0
      BY <1>0, <2>4 DEF IInv, SubsInv, CurOK
    <3>1. CASE Accept(s)
      <4>1. /\ subs[s].at = "connecting" /\ subs[s].token # None
            /\ subs' = [subs EXCEPT ![s].at = "open"]
        BY <3>1 DEF Accept
      <4>2. subs'[s].at = "open" /\ subs'[s].token = subs[s].token /\ subs'[s].ws = subs[s].ws
        BY <1>0, <4>1 DEF Sub
      <4>3. LinkWs # None /\ LinkWs' = LinkWs /\ LinkConn = None /\ LinkConn' \in Workspaces
        BY <1>0, <2>1, <2>4, <3>0, <4>1, <4>2 DEF LinkWs, LinkConn
      <4> QED BY <2>1, <4>3 DEF LinkWs, LinkConn
    <3>2. CASE Drop(s)
      <4>1. subs[s].at = "open" /\ subs' = [subs EXCEPT ![s].at = "connecting"]
        BY <3>2 DEF Drop
      <4>2. subs'[s].at = "connecting" /\ subs'[s].ws = subs[s].ws
        BY <1>0, <4>1 DEF Sub
      <4>3. subs[s].token # None
        BY <4>1 DEF IInv, SubsInv, SubOK
      <4>4. LinkWs' = LinkWs /\ LinkConn # None /\ LinkConn' = None
        BY <1>0, <2>1, <2>4, <3>0, <4>1, <4>2, <4>3 DEF LinkWs, LinkConn
      <4> QED BY <2>1, <4>4 DEF LinkWs, LinkConn
    <3>3. CASE Open(s)
      <4>1. /\ subs[s].at = "timer"
            /\ GetToken(s, [subs[s] EXCEPT !.at = "token", !.aged = FALSE, !.token = None])
        BY <3>3 DEF Open
      <4>2. subs'[s].at = "token" /\ subs'[s].ws = subs[s].ws
        BY <3>3, OpenStep
      <4> QED BY <1>2, <2>1, <2>4, <4>1, <4>2
    <3>4. CASE Connect(s)
      <4>1. subs[s].at = "token" /\ subs' = [subs EXCEPT ![s].at = "connecting"]
        BY <1>0, <3>0, <3>4 DEF Connect
      <4>2. subs'[s].at = "connecting" /\ subs'[s].ws = subs[s].ws
        BY <1>0, <4>1 DEF Sub
      <4> QED BY <1>2, <2>1, <2>4, <4>1, <4>2
    <3>5. CASE Refuse(s)
      <4>1. subs[s].at = "connecting" /\ subs' = [subs EXCEPT ![s].at = "timer"]
        BY <3>5 DEF Refuse, Reopens
      <4>2. subs'[s].at = "timer" /\ subs'[s].ws = subs[s].ws
        BY <1>0, <4>1 DEF Sub
      <4> QED BY <1>2, <2>1, <2>4, <4>1, <4>2
    <3> QED BY <1>9, <3>1, <3>2, <3>3, <3>4, <3>5 DEF StreamStep
  <2> QED BY <2>3, <2>4
<1> QED BY <1>3, <1>4, <1>5, <1>6, <1>7, <1>8, <1>9 DEF StreamNext, TokenStep

\* Every step of the stream is one Link allows, or one the page does not see: it is
\* never connected while unmounted, nor to two workspaces without a gap between them.
THEOREM StreamImplementsLink == StreamSpec => LinkIsImplemented
<1>1. StreamInit => L!LinkInit
  BY DEF StreamInit, L!LinkInit
<1>2. IInv /\ IInv' /\ [StreamNext]_streamVars => [L!LinkNext]_(L!linkVars)
  BY LinkStep
<1> QED BY <1>1, <1>2, InvHolds, PTL DEF StreamSpec, LinkIsImplemented, L!LinkSpec

-----------------------------------------------------------------------------
(* What a subscription waits for.                                            *)

\* Whoever awaits a token awaits an answer that is still to come: the fetch it was
\* given has not ended, though another change of workspace may have started a second
\* one and the first's finally have forgotten it (user-token.ts, inFlight).
AwaitedFetchIsOut ==
  \A s \in Subs : subs[s].wait # 0 => fetches[subs[s].wait] # "free"

\* So the stream of a mounted page is never left with nothing to wait for, but by a
\* fetch that threw: its timer runs, its fetch is out or answered, or it has a source.
FeedIsUnderWay ==
  cur # 0 => \/ subs[cur].at \in {"timer", "connecting", "open", "dead"}
             \/ subs[cur].at = "token" /\ subs[cur].wait = 0
             \/ subs[cur].at = "token" /\ fetches[subs[cur].wait] # "free"

WaitInv == AwaitedFetchIsOut /\ (inFlight # 0 => fetches[inFlight] # "free")

\* Subscriptions that await what they did, or nothing any more, of fetches as they were.
LEMMA WaitsKept ==
  ASSUME WaitInv, fetches' = fetches, inFlight' \in {0, inFlight},
         \A s \in Subs : subs'[s].wait \in {0, subs[s].wait}
  PROVE  WaitInv'
<1> QED BY DEF WaitInv, AwaitedFetchIsOut

\* The page drops its subscription and may set up another: neither awaits anything new.
LEMMA WaitsDropped ==
  ASSUME IInv
  PROVE  /\ \A s \in Subs : Unsubscribed[s].wait \in {0, subs[s].wait}
         /\ \A w, rest : (/\ rest \in [Subs -> Sub] /\ Subscribe(w, rest)
                          /\ \A s \in Subs : rest[s].wait \in {0, subs[s].wait})
                         => \A s \in Subs : subs'[s].wait \in {0, subs[s].wait}
<1>0. subs \in [Subs -> Sub] /\ cur \in Subs \cup {0}
  BY DEF IInv, StreamTypeOK
<1>1. ASSUME NEW s \in Subs PROVE Unsubscribed[s].wait \in {0, subs[s].wait}
  <2>1. Cancelled(subs[s]).wait \in {0, subs[s].wait}
    BY <1>0 DEF Cancelled, Unused
  <2>2. CASE cur = s
    BY <1>0, <2>1, <2>2, NoneLemma DEF Unsubscribed
  <2>3. CASE cur # s
    BY <1>0, <2>3 DEF Unsubscribed
  <2> QED BY <2>2, <2>3
<1>2. ASSUME NEW w, NEW rest \in [Subs -> Sub], Subscribe(w, rest),
             \A s \in Subs : rest[s].wait \in {0, subs[s].wait}
      PROVE  \A s \in Subs : subs'[s].wait \in {0, subs[s].wait}
  <2> DEFINE x == [Unused EXCEPT !.ws = w, !.at = "timer"]
  <2>1. x.wait = 0
    BY DEF Unused
  <2> HIDE DEF x
  <2>2. subs' = rest \/ \E c \in Subs : subs' = [rest EXCEPT ![c] = x]
    BY <1>2 DEF Subscribe, x
  <2> QED BY <1>2, <2>1, <2>2
<1> QED BY <1>1, <1>2

\* getApiToken hands out a token, the fetch in flight or a fetch it starts.
LEMMA WaitOpen ==
  ASSUME IInv, WaitInv, NEW s \in Subs, Open(s)
  PROVE  WaitInv'
<1> DEFINE x == [subs[s] EXCEPT !.at = "token", !.aged = FALSE, !.token = None]
<1>1. /\ subs \in [Subs -> Sub] /\ fetches \in [Fetch -> Tokens \cup {"free", "asked"}]
      /\ inFlight \in Fetch \cup {0} /\ GetToken(s, x)
  BY DEF IInv, StreamTypeOK, Open
<1>2. x.wait = subs[s].wait /\ DOMAIN x = DOMAIN subs[s] /\ "wait" \in DOMAIN x
  BY <1>1 DEF Sub
<1>3. ASSUME NEW f \in Fetch \cup {0}, subs'[s].wait = f, f # 0 => fetches'[f] # "free",
             \A t \in Subs : t # s => subs'[t] = subs[t],
             \A g \in Fetch : fetches[g] # "free" => fetches'[g] # "free",
             inFlight' = inFlight \/ fetches'[inFlight'] # "free"
      PROVE  WaitInv'
  <2>1. \A t \in Subs : subs[t].wait \in Fetch \cup {0}
    BY <1>1 DEF Sub
  <2> QED BY <1>1, <1>3, <2>1 DEF WaitInv, AwaitedFetchIsOut
<1> HIDE DEF x
<1>4. CASE cached # None
  <2>1. subs' = [subs EXCEPT ![s] = [x EXCEPT !.token = cached, !.wait = 0]]
        /\ fetches' = fetches /\ inFlight' = inFlight
    BY <1>1, <1>4 DEF GetToken, tokenVars
  <2>2. subs'[s].wait = 0
    BY <1>1, <1>2, <2>1
  <2> QED BY <1>1, <1>3, <2>1, <2>2
<1>5. CASE cached = None /\ inFlight # 0
  <2>1. subs' = [subs EXCEPT ![s] = [x EXCEPT !.wait = inFlight]]
        /\ fetches' = fetches /\ inFlight' = inFlight
    BY <1>1, <1>5 DEF GetToken, tokenVars
  <2>2. subs'[s].wait = inFlight
    BY <1>1, <1>2, <2>1
  <2> QED BY <1>1, <1>3, <1>5, <2>1, <2>2 DEF WaitInv
<1>6. CASE cached = None /\ inFlight = 0
  <2>1. PICK f \in Fetch : /\ fetches' = [fetches EXCEPT ![f] = "asked"] /\ inFlight' = f
                           /\ subs' = [subs EXCEPT ![s] = [x EXCEPT !.wait = f]]
    BY <1>1, <1>6 DEF GetToken
  <2>2. subs'[s].wait = f /\ fetches'[f] = "asked"
    BY <1>1, <1>2, <2>1
  <2> QED BY <1>1, <1>3, <2>1, <2>2
<1> QED BY <1>4, <1>5, <1>6

\* A fetch that ends, either way, is awaited by nobody any more.
LEMMA WaitEnds ==
  ASSUME IInv, WaitInv, NEW f \in Fetch, Resolve(f) \/ Throw(f)
  PROVE  WaitInv'
<1>1. /\ subs \in [Subs -> Sub] /\ fetches \in [Fetch -> Tokens \cup {"free", "asked"}]
      /\ inFlight' = 0 /\ fetches' = [fetches EXCEPT ![f] = "free"]
  BY DEF IInv, StreamTypeOK, Resolve, Throw
<1>2. ASSUME NEW s \in Subs
      PROVE  subs'[s].wait \in {0, subs[s].wait} /\ subs'[s].wait # f
  <2>1. subs[s] \in Sub /\ f # 0
    BY <1>1, NoneLemma
  <2>2. CASE subs[s].wait = f
    <3>1. subs'[s] \in {[subs[s] EXCEPT !.wait = 0, !.token = fetches[f]],
                       [subs[s] EXCEPT !.wait = 0, !.at = "dead"], Unused}
      BY <2>2 DEF Resolve, Throw
    <3>2. CASE subs'[s] = [subs[s] EXCEPT !.wait = 0, !.token = fetches[f]]
      BY <2>1, <3>2 DEF Sub
    <3>3. CASE subs'[s] = [subs[s] EXCEPT !.wait = 0, !.at = "dead"]
      BY <2>1, <3>3 DEF Sub
    <3>4. CASE subs'[s] = Unused
      BY <2>1, <3>4, UnusedLemma
    <3> QED BY <2>1, <3>1, <3>2, <3>3, <3>4
  <2>3. CASE subs[s].wait # f
    BY <2>3 DEF Resolve, Throw
  <2> QED BY <2>2, <2>3
<1>3. \A g \in Fetch : g # f => fetches'[g] = fetches[g]
  BY <1>1
<1>4. \A s \in Subs : subs[s].wait \in Fetch \cup {0}
  BY <1>1 DEF Sub
<1> QED BY <1>1, <1>2, <1>3, <1>4 DEF WaitInv, AwaitedFetchIsOut

LEMMA WaitStep ==
  ASSUME IInv, WaitInv, [StreamNext]_streamVars
  PROVE  WaitInv'
<1>0. /\ subs \in [Subs -> Sub] /\ fetches \in [Fetch -> Tokens \cup {"free", "asked"}]
      /\ inFlight \in Fetch \cup {0} /\ \A s \in Subs : subs[s].wait \in Fetch \cup {0}
  BY DEF IInv, StreamTypeOK, Sub
<1>1. CASE SetActive \/ Clear \/ UNCHANGED streamVars
  <2>1. fetches' = fetches /\ inFlight' \in {0, inFlight} /\ subs' = subs
    BY <1>1 DEF SetActive, Clear, streamVars, tokenVars
  <2> QED BY <2>1, WaitsKept
<1>2. CASE Send
  <2>1. PICK f \in Fetch : /\ fetches' = [fetches EXCEPT ![f] = "asked"] /\ inFlight' = f
                           /\ subs' = subs
    BY <1>2 DEF Send
  <2>2. \A g \in Fetch : fetches[g] # "free" => fetches'[g] # "free"
    BY <1>0, <2>1
  <2>3. fetches'[f] # "free"
    BY <1>0, <2>1
  <2> QED BY <1>0, <2>1, <2>2, <2>3 DEF WaitInv, AwaitedFetchIsOut
<1>3. ASSUME NEW f \in Fetch, Mint(f) PROVE WaitInv'
  <2>1. fetches' = [fetches EXCEPT ![f] = active] /\ subs' = subs /\ inFlight' = inFlight
        /\ active \in Tokens
    BY <1>3 DEF Mint, IInv, StreamTypeOK
  <2>2. \A g \in Fetch : fetches[g] # "free" => fetches'[g] # "free"
    BY <1>0, <2>1, NoneLemma
  <2> QED BY <1>0, <2>1, <2>2 DEF WaitInv, AwaitedFetchIsOut
<1>4. CASE Expire
  <2>1. fetches' = fetches /\ inFlight' = inFlight
        /\ subs' = [s \in Subs |-> [subs[s] EXCEPT !.aged = subs[s].token # None]]
    BY <1>4 DEF Expire
  <2>2. \A s \in Subs : subs'[s].wait = subs[s].wait
    BY <1>0, <2>1 DEF Sub
  <2> QED BY <2>1, <2>2, WaitsKept
<1>5. CASE EnterPage \/ LeavePage \/ ReKey
  <2>1. fetches' = fetches /\ inFlight' = inFlight
    BY <1>5 DEF EnterPage, LeavePage, ReKey, tokenVars
  <2>2. Unsubscribed \in [Subs -> Sub]
    BY UnsubscribedLemma
  <2>3. \/ subs' \in {subs, Unsubscribed}
        \/ \E w, rest : rest \in {subs, Unsubscribed} /\ Subscribe(w, rest)
    BY <1>5 DEF EnterPage, LeavePage, ReKey
  <2>4. \A s \in Subs : subs'[s].wait \in {0, subs[s].wait}
    BY <1>0, <2>2, <2>3, WaitsDropped
  <2> QED BY <2>1, <2>4, WaitsKept
<1>6. ASSUME NEW s \in Subs, Connect(s) \/ Accept(s) \/ Refuse(s) \/ Drop(s)
      PROVE  WaitInv'
  <2>1. fetches' = fetches /\ inFlight' = inFlight
    BY <1>6 DEF Connect, Accept, Refuse, Drop, tokenVars
  <2>2. subs[s] \in Sub
    BY <1>0
  <2>3. \/ \E a \in {"connecting", "open", "timer"} : subs' = [subs EXCEPT ![s].at = a]
        \/ subs' = [subs EXCEPT ![s] = Unused]
    BY <1>6 DEF Connect, Accept, Refuse, Reopens, Drop
  <2>4. subs'[s].wait \in {0, subs[s].wait}
    BY <1>0, <2>2, <2>3 DEF Sub, Unused
  <2>5. \A t \in Subs : t # s => subs'[t] = subs[t]
    BY <1>0, <2>3
  <2> QED BY <2>1, <2>4, <2>5, WaitsKept
<1> QED BY <1>1, <1>2, <1>3, <1>4, <1>5, <1>6, WaitOpen, WaitEnds
        DEF StreamNext, StreamStep, TokenStep

LEMMA WaitHolds == StreamSpec => []WaitInv
<1>1. StreamInit => WaitInv
  BY DEF StreamInit, WaitInv, AwaitedFetchIsOut, Unused
<1>2. IInv /\ WaitInv /\ [StreamNext]_streamVars => WaitInv'
  BY WaitStep
<1> QED BY <1>1, <1>2, InvHolds, PTL DEF StreamSpec

\* Neither a switch of workspace that forgets a fetch nor a fetch that ends late leaves
\* anybody awaiting an answer that is not to come.
THEOREM AwaitedIsToCome == StreamSpec => []AwaitedFetchIsOut
<1>1. WaitInv => AwaitedFetchIsOut
  BY DEF WaitInv
<1> QED BY <1>1, WaitHolds, PTL

\* The safety half of StreamHeals: what is left to the scheduler is only to go on.
THEOREM FeedNeverStalls == StreamSpec => []FeedIsUnderWay
<1>1. IInv /\ WaitInv => FeedIsUnderWay
  <2> SUFFICES ASSUME IInv, WaitInv, cur # 0 PROVE FeedIsUnderWay
    BY DEF FeedIsUnderWay
  <2>1. cur \in Subs /\ subs[cur] \in Sub /\ subs[cur].at # "unused"
    BY DEF IInv, StreamTypeOK, SubsInv, CurOK
  <2> QED BY <2>1 DEF WaitInv, AwaitedFetchIsOut, FeedIsUnderWay, Sub
<1> QED BY <1>1, InvHolds, WaitHolds, PTL
==============================================================================
