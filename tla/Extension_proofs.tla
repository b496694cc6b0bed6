---------------------------- MODULE Extension_proofs ----------------------------
(***************************************************************************)
(* What the extension guarantees for any list of environments, any number  *)
(* of menu and popup saves and any number of changes around them.          *)
(***************************************************************************)
EXTENDS Extension, TLAPS

Searching == {"resolve", "probe", "remember"}
Aimed     == {"access", "mint", "diagnose", "post"}
Outcomes  == {"none", "saved", "duplicate"} \cup Failures

\* What a popup asks for is what it resolved as it opened.
PopupOK(s) ==
  /\ pc[s] # "read"
  /\ pc[s] = "idle" => asked[s] = NoEnv
  /\ pc[s] \notin Searching \cup {"idle", "closed"} => asked[s] \in Envs

\* Where a save is says what it knows: the environment it aims at, the one it asks, and
\* whether it has a result.
SaveOK(s) ==
  /\ pc[s] \notin {"probe", "remember"} => probe[s] = 0
  /\ pc[s] \in {"probe", "remember"} => probe[s] < Len(Order)
  /\ pc[s] \in Searching \cup {"idle", "read"} => outcome[s] \in {"none", "signin"}
  /\ pc[s] = "report" => outcome[s] # "none"
  /\ pc[s] \in Aimed => env[s] \in Envs
  /\ s \in Menu /\ pc[s] = "report" /\ outcome[s] = "signin" => env[s] \in Envs
  /\ outcome[s] \in {"saved", "duplicate"} =>
        pc[s] \in {"report", "end", "closed"} /\ env[s] \in holds
  /\ pc[s] \in {"ready", "prompt"} => s \in Popup
  /\ s \in Popup => PopupOK(s)

SavesInv  == \A s \in Saves : SaveOK(s)
StoredInv == holds # {} => \E s \in Saves :
                s \in lost \/ outcome[s] \in {"saved", "duplicate"}

IInv == TypeOK /\ SavesInv /\ StoredInv /\ OnlyResultsFade

\* TypeOK, in three parts.
Points == {"idle", "read", "resolve", "probe", "remember", "ready", "prompt", "access",
           "mint", "diagnose", "post", "report", "end", "closed"}
SaveTypes ==
  /\ pc \in [Saves -> Points]
  /\ asked \in [Saves -> Envs \cup {NoEnv}]
  /\ env \in [Saves -> Envs \cup {NoEnv}]
  /\ probe \in [Saves -> 0 .. Len(Order)]
  /\ outcome \in [Saves -> Outcomes]
WorldTypes ==
  /\ app \in [Envs -> {"down", "out", "in", "refuses"}]
  /\ tabs \subseteq Envs /\ granted \subseteq Envs /\ holds \subseteq Envs
  /\ remembered \in Envs \cup {NoEnv}
  /\ lost \subseteq Saves
  /\ changes \in 0 .. MaxChanges
PageTypes ==
  /\ listening \in BOOLEAN /\ fading \in BOOLEAN
  /\ card \in {"none", "working", "saved", "duplicate", "error"}
  /\ shownBy \in Saves \cup {NoSave}

LEMMA TypeLemma == TypeOK <=> SaveTypes /\ WorldTypes /\ PageTypes
<1> QED BY Zenon DEF TypeOK, SaveTypes, WorldTypes, PageTypes, Points, Outcomes

LEMMA TypeNext == TypeOK' <=> SaveTypes' /\ WorldTypes' /\ PageTypes'
<1> QED BY Zenon DEF TypeOK, SaveTypes, WorldTypes, PageTypes, Points, Outcomes

LEMMA ConstantsLemma ==
  /\ NoEnv \notin Envs /\ Menu \cap Popup = {}
  /\ Saves = Menu \cup Popup /\ MaxChanges \in Nat
  /\ Len(Order) \in Nat \ {0} /\ \A i \in 1 .. Len(Order) : Order[i] \in Envs
<1>1. Order \in Seq(Envs) /\ Order # <<>>
  BY ExtensionAssumption DEF Envs
<1> QED BY <1>1, ExtensionAssumption DEF Saves

LEMMA InitHolds == Init => IInv
<1> SUFFICES ASSUME Init PROVE IInv
  OBVIOUS
<1>0. app \in [Envs -> {"down", "out", "in", "refuses"}]
  BY DEF Init
<1>1. TypeOK
  <2>1. SaveTypes
    BY ConstantsLemma DEF Init, SaveTypes, Points, Outcomes
  <2>2. WorldTypes
    BY <1>0, ConstantsLemma DEF Init, WorldTypes
  <2>3. PageTypes
    BY DEF Init, PageTypes
  <2> QED BY <2>1, <2>2, <2>3, TypeLemma
<1>2. ASSUME NEW s \in Saves PROVE SaveOK(s)
  BY DEF Init, SaveOK, PopupOK, Searching, Aimed
<1> QED BY <1>1, <1>2, ConstantsLemma DEF Init, IInv, SavesInv, StoredInv, OnlyResultsFade

\* Nothing but the saves a step moves has to be looked at again, as long as pages are only
\* stored.
LEMMA OtherSaves ==
  ASSUME IInv, NEW t \in Saves,
         pc'[t] = pc[t], asked'[t] = asked[t], env'[t] = env[t], probe'[t] = probe[t],
         outcome'[t] = outcome[t], holds \subseteq holds'
  PROVE  SaveOK(t)'
<1>1. SaveOK(t)
  BY DEF IInv, SavesInv
<1> QED BY <1>1 DEF SaveOK, PopupOK

\* Where a save goes once an environment is found.
LEMMA ResolvedLemma ==
  ASSUME IInv, NEW s \in Saves, pc[s] \in Searching, NEW e \in Envs, Resolved(s, e),
         UNCHANGED <<outcome, holds>>
  PROVE  SavesInv' /\ SaveTypes'
<1>0. SaveOK(s) /\ SaveTypes
  BY TypeLemma DEF IInv, SavesInv
<1>1. SaveTypes'
  <2>1. probe' \in [Saves -> 0 .. Len(Order)]
    BY <1>0, ConstantsLemma DEF SaveTypes, Resolved
  <2>2. CASE s \in Popup /\ asked[s] = NoEnv
    BY <1>0, <2>1, <2>2 DEF SaveTypes, Points, Resolved, Goto
  <2>3. CASE ~(s \in Popup /\ asked[s] = NoEnv)
    BY <1>0, <2>1, <2>3 DEF SaveTypes, Points, Resolved, Goto
  <2> QED BY <2>2, <2>3
<1>2. SaveOK(s)'
  <2>1. CASE s \in Popup /\ asked[s] = NoEnv
    <3>1. /\ pc'[s] = "ready" /\ asked'[s] = e /\ env' = env /\ probe'[s] = 0
      BY <1>0, <2>1 DEF SaveTypes, Resolved, Goto
    <3> QED BY <1>0, <2>1, <3>1, ConstantsLemma DEF SaveOK, PopupOK, Searching, Aimed
  <2>2. CASE ~(s \in Popup /\ asked[s] = NoEnv)
    <3>1. /\ pc'[s] = IF outcome[s] = "signin" THEN "report" ELSE "access"
          /\ env'[s] = e /\ asked' = asked /\ probe'[s] = 0
      BY <1>0, <2>2 DEF SaveTypes, Resolved, Goto
    <3>2. asked[s] \in Envs \cup {NoEnv}
      BY <1>0 DEF SaveTypes
    <3> QED BY <1>0, <2>2, <3>1, <3>2 DEF SaveOK, PopupOK, Searching, Aimed
  <2> QED BY <2>1, <2>2
<1>3. ASSUME NEW t \in Saves, t # s PROVE SaveOK(t)'
  <2>1. /\ pc'[t] = pc[t] /\ asked'[t] = asked[t] /\ env'[t] = env[t] /\ probe'[t] = probe[t]
    BY <1>0, <1>3 DEF SaveTypes, Resolved, Goto
  <2> QED BY <2>1, OtherSaves
<1> QED BY <1>1, <1>2, <1>3 DEF SavesInv

\* A save that moves on, with or without a result.
LEMMA MoveLemma ==
  ASSUME IInv, NEW s \in Saves, NEW at \in Points, NEW what \in Outcomes,
         NEW e \in Envs \cup {NoEnv},
         pc' = [pc EXCEPT ![s] = at], outcome' = [outcome EXCEPT ![s] = what],
         env' = [env EXCEPT ![s] = e],
         UNCHANGED <<asked, probe>>, holds \subseteq holds',
         SaveOK(s)'
  PROVE  SavesInv' /\ SaveTypes'
<1>0. SaveTypes
  BY TypeLemma DEF IInv
<1>1. SaveTypes'
  BY <1>0 DEF SaveTypes
<1>2. ASSUME NEW t \in Saves, t # s PROVE SaveOK(t)'
  <2>1. pc'[t] = pc[t] /\ outcome'[t] = outcome[t] /\ env'[t] = env[t]
    BY <1>0, <1>2 DEF SaveTypes
  <2> QED BY <2>1, OtherSaves
<1> QED BY <1>1, <1>2 DEF SavesInv

\* The same, of one that keeps its result and its aim.
LEMMA WalkLemma ==
  ASSUME IInv, NEW s \in Saves, NEW at \in Points,
         pc' = [pc EXCEPT ![s] = at], UNCHANGED <<outcome, env, asked, probe>>,
         holds \subseteq holds', SaveOK(s)'
  PROVE  SavesInv' /\ SaveTypes'
<1>0. SaveTypes
  BY TypeLemma DEF IInv
<1>1. /\ outcome' = [outcome EXCEPT ![s] = outcome[s]] /\ outcome[s] \in Outcomes
      /\ env' = [env EXCEPT ![s] = env[s]] /\ env[s] \in Envs \cup {NoEnv}
  BY <1>0 DEF SaveTypes
<1> QED BY <1>1, MoveLemma

LEMMA EndLemma ==
  ASSUME IInv, NEW s \in Saves, NEW what \in Outcomes, EndAs(s, what)
  PROVE  /\ pc' = [pc EXCEPT ![s] = "report"] /\ outcome' = [outcome EXCEPT ![s] = what]
         /\ pc'[s] = "report" /\ outcome'[s] = what
         /\ \E e \in Envs \cup {NoEnv} :
              /\ env' = [env EXCEPT ![s] = e] /\ env'[s] = e
              /\ what \notin Failures => e = env[s]
<1>1. SaveTypes
  BY TypeLemma DEF IInv
<1>2. pc' = [pc EXCEPT ![s] = "report"] /\ outcome' = [outcome EXCEPT ![s] = what]
  BY DEF EndAs, Goto
<1>3. CASE what \in Failures
  <2>1. env' = [env EXCEPT ![s] = NoEnv]
    BY <1>3 DEF EndAs
  <2> QED BY <1>1, <1>2, <1>3, <2>1 DEF SaveTypes
<1>4. CASE what \notin Failures
  <2>1. env' = [env EXCEPT ![s] = env[s]] /\ env'[s] = env[s] /\ env[s] \in Envs \cup {NoEnv}
    BY <1>1, <1>4 DEF EndAs, SaveTypes
  <2> QED BY <1>1, <1>2, <2>1 DEF SaveTypes
<1> QED BY <1>3, <1>4

\* A save that is refused, or cannot go on.
LEMMA FailLemma ==
  ASSUME IInv, NEW s \in Saves, pc[s] \in Aimed \cup {"read"}, EndAs(s, "error"),
         UNCHANGED <<asked, probe>>, holds \subseteq holds'
  PROVE  SavesInv' /\ SaveTypes'
<1>1. SaveOK(s) /\ "error" \in Outcomes /\ "error" \in Failures /\ "report" \in Points
  BY DEF IInv, SavesInv, Outcomes, Failures, Points
<1>2. PICK e \in Envs \cup {NoEnv} : env' = [env EXCEPT ![s] = e]
  BY <1>1, EndLemma
<1>3. /\ pc' = [pc EXCEPT ![s] = "report"] /\ outcome' = [outcome EXCEPT ![s] = "error"]
      /\ pc'[s] = "report" /\ outcome'[s] = "error"
  BY <1>1, EndLemma
<1>4. SaveOK(s)'
  BY <1>1, <1>3 DEF SaveOK, PopupOK, Searching, Aimed
<1> QED BY <1>1, <1>2, <1>3, <1>4, MoveLemma

\* A click starts a save again, where its popup had not succeeded.
LEMMA StartLemma ==
  ASSUME IInv, NEW s \in Saves, pc[s] \in {"ready", "prompt"}, StartSave(s),
         UNCHANGED <<env, asked, probe, holds>>
  PROVE  SavesInv' /\ SaveTypes'
<1>0. SaveTypes /\ SaveOK(s)
  BY TypeLemma DEF IInv, SavesInv
<1>1. pc' = [pc EXCEPT ![s] = "resolve"] /\ outcome' = [outcome EXCEPT ![s] = "none"]
  BY DEF StartSave, Goto
<1>2. pc'[s] = "resolve" /\ outcome'[s] = "none"
  BY <1>0, <1>1 DEF SaveTypes
<1>3. SaveOK(s)'
  BY <1>0, <1>2 DEF SaveOK, PopupOK, Searching, Aimed
<1>4. env' = [env EXCEPT ![s] = env[s]] /\ env[s] \in Envs \cup {NoEnv}
  BY <1>0 DEF SaveTypes
<1>5. "resolve" \in Points /\ "none" \in Outcomes
  BY DEF Points, Outcomes
<1> QED BY <1>1, <1>3, <1>4, <1>5, MoveLemma

\* A script that is gone leaves nothing of its save but what it reported.
LEMMA GoneLemma ==
  ASSUME IInv, NEW S, Gone(S), \A s \in S : s \in Saves => pc[s] # "idle"
  PROVE  SavesInv' /\ SaveTypes'
<1>0. SaveTypes
  BY TypeLemma DEF IInv
<1>1. SaveTypes'
  BY <1>0, ConstantsLemma DEF Gone, SaveTypes, Points
<1>2. ASSUME NEW t \in Saves PROVE SaveOK(t)'
  <2>1. SaveOK(t)
    BY DEF IInv, SavesInv
  <2>2. CASE t \notin S
    BY <1>0, <2>2, OtherSaves DEF Gone
  <2>3. CASE t \in S
    <3>1. /\ pc'[t] = "closed" /\ probe'[t] = 0 /\ UNCHANGED <<outcome, holds>>
          /\ outcome[t] \in {"saved", "duplicate"} => env'[t] = env[t]
      BY <2>3 DEF Gone
    <3> QED BY <2>1, <3>1 DEF SaveOK, PopupOK, Searching, Aimed
  <2> QED BY <2>2, <2>3
<1> QED BY <1>1, <1>2 DEF SavesInv

\* The card.
LEMMA ShowLemma ==
  ASSUME IInv, NEW s \in Saves, NEW phase \in {"working", "saved", "duplicate", "error"},
         listening' \in BOOLEAN, Show(s, phase)
  PROVE  PageTypes' /\ OnlyResultsFade'
<1>0. PageTypes /\ OnlyResultsFade
  BY TypeLemma DEF IInv
<1>1. CASE listening'
  BY <1>1 DEF Show, PageTypes, OnlyResultsFade
<1>2. CASE ~listening'
  BY <1>0, <1>2 DEF Show, PageTypes, OnlyResultsFade
<1> QED BY <1>1, <1>2

LEMMA StartProgressLemma ==
  ASSUME IInv, NEW s \in Saves, StartProgress(s)
  PROVE  PageTypes' /\ OnlyResultsFade'
<1>1. listening' \in BOOLEAN /\ Show(s, "working")
  BY TypeLemma DEF IInv, PageTypes, StartProgress
<1> QED BY <1>1, ShowLemma

\* What is stored was reported, or its answer lost, as long as no result is taken back.
LEMMA StoredLemma ==
  ASSUME IInv, holds' = holds, lost' = lost,
         \A s \in Saves : outcome[s] \in {"saved", "duplicate"} => outcome'[s] = outcome[s]
  PROVE  StoredInv'
<1> QED BY DEF IInv, StoredInv

\* A save that is under way has no result to take back.
LEMMA StoredMove ==
  ASSUME IInv, holds' = holds, lost' = lost, NEW s \in Saves,
         pc[s] \notin {"report", "end", "closed"}, NEW what,
         outcome' = [outcome EXCEPT ![s] = what]
  PROVE  StoredInv'
<1>1. outcome[s] \notin {"saved", "duplicate"} /\ outcome \in [Saves -> Outcomes]
  BY TypeLemma DEF IInv, SavesInv, SaveOK, SaveTypes
<1>2. \A t \in Saves : outcome[t] \in {"saved", "duplicate"} => outcome'[t] = outcome[t]
  BY <1>1
<1> QED BY <1>2, StoredLemma

LEMMA StepHolds == IInv /\ [Next]_vars => IInv'
<1> SUFFICES ASSUME IInv, [Next]_vars PROVE IInv'
  OBVIOUS
<1> USE DEF world, page
<1>0. /\ SaveTypes /\ WorldTypes /\ PageTypes
      /\ \A s \in Saves : SaveOK(s)
      /\ OnlyResultsFade
  BY TypeLemma DEF IInv, SavesInv
<1>a. ASSUME SaveTypes', WorldTypes', PageTypes', SavesInv', StoredInv', OnlyResultsFade'
      PROVE  IInv'
  BY <1>a, TypeNext DEF IInv
<1>b. ASSUME UNCHANGED page PROVE PageTypes' /\ OnlyResultsFade'
  BY <1>0, <1>b DEF PageTypes, OnlyResultsFade
<1>1. ASSUME NEW s \in Saves, MenuClick(s) PROVE IInv'
  <2>1. pc[s] = "idle" /\ SaveOK(s) /\ s \notin Popup
    BY <1>0, <1>1, ConstantsLemma DEF MenuClick
  <2>2. pc' = [pc EXCEPT ![s] = "read"] /\ pc'[s] = "read"
    BY <1>0, <1>1 DEF MenuClick, Goto, SaveTypes
  <2>3. SaveOK(s)'
    BY <1>1, <2>1, <2>2 DEF MenuClick, SaveOK, Searching, Aimed
  <2>4. SavesInv' /\ SaveTypes'
    BY <1>1, <2>2, <2>3, WalkLemma DEF MenuClick, Points
  <2>5. PageTypes' /\ OnlyResultsFade'
    BY <1>1, StartProgressLemma DEF MenuClick
  <2>6. StoredInv' /\ WorldTypes'
    BY <1>0, <1>1, StoredLemma DEF MenuClick, WorldTypes
  <2> QED BY <2>4, <2>5, <2>6, <1>a
<1>2. ASSUME NEW s \in Saves, OpenPopup(s) PROVE IInv'
  <2>1. pc[s] = "idle" /\ SaveOK(s)
    BY <1>0, <1>2 DEF OpenPopup
  <2>2. pc' = [pc EXCEPT ![s] = "resolve"] /\ pc'[s] = "resolve"
    BY <1>0, <1>2 DEF OpenPopup, Goto, SaveTypes
  <2>3. SaveOK(s)'
    BY <1>2, <2>1, <2>2 DEF OpenPopup, SaveOK, PopupOK, Searching, Aimed
  <2>4. SavesInv' /\ SaveTypes'
    BY <1>2, <2>2, <2>3, WalkLemma DEF OpenPopup, Points
  <2>5. StoredInv' /\ WorldTypes'
    BY <1>0, <1>2, StoredLemma DEF OpenPopup, WorldTypes
  <2> QED BY <1>2, <2>4, <2>5, <1>a, <1>b DEF OpenPopup
<1>3. ASSUME NEW s \in Saves, PopupClick(s) \/ AnswerPrompt(s) PROVE IInv'
  <2>1. pc[s] \in {"ready", "prompt"} /\ SaveOK(s) /\ asked[s] \in Envs
    BY <1>0, <1>3 DEF PopupClick, AnswerPrompt, SaveOK, PopupOK, Searching
  <2>2. WorldTypes' /\ UNCHANGED <<env, asked, probe, holds, lost>>
    BY <1>0, <1>3, <2>1 DEF PopupClick, AnswerPrompt, WorldTypes
  <2>3. CASE StartSave(s)
    <3>1. SavesInv' /\ SaveTypes'
      BY <2>1, <2>2, <2>3, StartLemma
    <3>2. PageTypes' /\ OnlyResultsFade'
      BY <2>3, StartProgressLemma DEF StartSave
    <3>3. StoredInv'
      BY <2>1, <2>2, <2>3, StoredMove DEF StartSave
    <3> QED BY <2>2, <3>1, <3>2, <3>3, <1>a
  <2>4. ASSUME NEW at \in {"ready", "prompt"}, Goto(s, at), UNCHANGED <<outcome, page>>
        PROVE  IInv'
    <3>1. pc' = [pc EXCEPT ![s] = at] /\ pc'[s] = at
      BY <1>0, <2>4 DEF Goto, SaveTypes
    <3>2. SaveOK(s)'
      BY <2>1, <2>2, <2>4, <3>1 DEF SaveOK, PopupOK, Searching, Aimed
    <3>3. SavesInv' /\ SaveTypes'
      BY <2>2, <2>4, <3>1, <3>2, WalkLemma DEF Points
    <3>4. StoredInv'
      BY <2>2, <2>4, StoredLemma
    <3> QED BY <2>2, <2>4, <3>3, <3>4, <1>a, <1>b
  <2> QED BY <1>3, <2>3, <2>4 DEF PopupClick, AnswerPrompt
<1>4. ASSUME NEW s \in Saves, BuildPayload(s) PROVE IInv'
  <2>1. pc[s] = "read" /\ SaveOK(s)
    BY <1>0, <1>4 DEF BuildPayload
  <2>2. ASSUME Goto(s, "resolve"), UNCHANGED <<outcome, env>>
        PROVE  SavesInv' /\ SaveTypes' /\ StoredInv'
    <3>1. pc' = [pc EXCEPT ![s] = "resolve"] /\ pc'[s] = "resolve"
      BY <1>0, <2>2 DEF Goto, SaveTypes
    <3>2. SaveOK(s)'
      BY <1>4, <2>1, <2>2, <3>1 DEF BuildPayload, SaveOK, PopupOK, Searching, Aimed
    <3>3. SavesInv' /\ SaveTypes'
      BY <1>4, <2>2, <3>1, <3>2, WalkLemma DEF BuildPayload, Points
    <3>4. StoredInv'
      BY <1>4, <2>2, StoredLemma DEF BuildPayload
    <3> QED BY <3>3, <3>4
  <2>3. ASSUME EndAs(s, "error")
        PROVE  SavesInv' /\ SaveTypes' /\ StoredInv'
    <3>1. SavesInv' /\ SaveTypes'
      BY <1>4, <2>1, <2>3, FailLemma DEF BuildPayload
    <3>2. StoredInv'
      BY <1>4, <2>1, <2>3, StoredMove DEF BuildPayload, EndAs
    <3> QED BY <3>1, <3>2
  <2>4. WorldTypes'
    BY <1>0, <1>4 DEF BuildPayload, WorldTypes
  <2> QED BY <1>4, <2>2, <2>3, <2>4, <1>a, <1>b DEF BuildPayload
<1>5. ASSUME NEW s \in Saves, Resolve(s) PROVE IInv'
  <2>1. pc[s] = "resolve" /\ SaveOK(s)
    BY <1>0, <1>5 DEF Resolve
  <2>2. SavesInv' /\ SaveTypes'
    <3>1. CASE \E e \in InATab : IsFirst(e, InATab) /\ Resolved(s, e)
      <4>1. PICK e \in InATab : Resolved(s, e)
        BY <3>1
      <4>2. e \in Envs
        BY <1>0 DEF InATab, WorldTypes
      <4> QED BY <1>5, <2>1, <4>1, <4>2, ResolvedLemma DEF Resolve, Searching
    <3>2. CASE remembered # NoEnv /\ Resolved(s, remembered)
      <4>1. remembered \in Envs
        BY <1>0, <3>2 DEF WorldTypes
      <4> QED BY <1>5, <2>1, <3>2, <4>1, ResolvedLemma DEF Resolve, Searching
    <3>3. CASE Goto(s, "probe") /\ UNCHANGED <<asked, env, probe>>
      <4>1. pc' = [pc EXCEPT ![s] = "probe"] /\ pc'[s] = "probe"
        BY <1>0, <3>3 DEF Goto, SaveTypes
      <4>2. probe[s] = 0 /\ 0 < Len(Order)
        BY <2>1, ConstantsLemma DEF SaveOK
      <4>3. SaveOK(s)'
        BY <1>5, <2>1, <3>3, <4>1, <4>2 DEF Resolve, SaveOK, PopupOK, Searching, Aimed
      <4> QED BY <1>5, <3>3, <4>1, <4>3, WalkLemma DEF Resolve, Points
    <3> QED BY <1>5, <3>1, <3>2, <3>3 DEF Resolve
  <2>3. StoredInv' /\ WorldTypes'
    BY <1>0, <1>5, StoredLemma DEF Resolve, WorldTypes
  <2> QED BY <1>5, <2>2, <2>3, <1>a, <1>b DEF Resolve
<1>6. ASSUME NEW s \in Saves, Probe(s) PROVE IInv'
  <2>1. /\ pc[s] = "probe" /\ SaveOK(s) /\ probe[s] \in Nat /\ probe[s] < Len(Order)
        /\ Len(Order) \in Nat
    BY <1>0, <1>6, ConstantsLemma DEF Probe, SaveTypes, SaveOK
  <2>2. SavesInv' /\ SaveTypes'
    <3>1. CASE Goto(s, "remember") /\ UNCHANGED <<probe, asked, env>>
      <4>1. pc' = [pc EXCEPT ![s] = "remember"] /\ pc'[s] = "remember"
        BY <1>0, <3>1 DEF Goto, SaveTypes
      <4>2. SaveOK(s)'
        BY <1>6, <2>1, <3>1, <4>1 DEF Probe, SaveOK, PopupOK, Searching, Aimed
      <4> QED BY <1>6, <3>1, <4>1, <4>2, WalkLemma DEF Probe, Points
    <3>2. CASE /\ probe[s] + 1 < Len(Order)
               /\ probe' = [probe EXCEPT ![s] = @ + 1]
               /\ UNCHANGED <<pc, asked, env>>
      <4>1. SaveTypes' /\ probe'[s] = probe[s] + 1
        BY <1>0, <1>6, <2>1, <3>2 DEF Probe, SaveTypes
      <4>2. SaveOK(s)'
        BY <1>6, <2>1, <3>2, <4>1 DEF Probe, SaveOK, PopupOK, Searching, Aimed
      <4>3. ASSUME NEW t \in Saves, t # s PROVE SaveOK(t)'
        <5>1. probe'[t] = probe[t]
          BY <1>0, <3>2, <4>3 DEF SaveTypes
        <5> QED BY <1>6, <3>2, <5>1, OtherSaves DEF Probe
      <4> QED BY <4>1, <4>2, <4>3 DEF SavesInv
    <3>3. CASE Resolved(s, Order[1])
      <4>1. Order[1] \in Envs
        BY <2>1, ConstantsLemma
      <4> QED BY <1>6, <2>1, <3>3, <4>1, ResolvedLemma DEF Probe, Searching
    <3> QED BY <1>6, <3>1, <3>2, <3>3 DEF Probe
  <2>3. StoredInv' /\ WorldTypes'
    BY <1>0, <1>6, StoredLemma DEF Probe, WorldTypes
  <2> QED BY <1>6, <2>2, <2>3, <1>a, <1>b DEF Probe
<1>7. ASSUME NEW s \in Saves, Remember(s) PROVE IInv'
  <2>1. /\ pc[s] = "remember" /\ SaveOK(s) /\ probe[s] \in Nat /\ probe[s] < Len(Order)
        /\ Len(Order) \in Nat
    BY <1>0, <1>7, ConstantsLemma DEF Remember, SaveTypes, SaveOK
  <2>2. Asked(s) \in Envs
    <3>1. probe[s] + 1 \in 1 .. Len(Order)
      BY <2>1
    <3> QED BY <3>1, ConstantsLemma DEF Asked
  <2>3. SavesInv' /\ SaveTypes'
    BY <1>7, <2>1, <2>2, ResolvedLemma DEF Remember, Searching
  <2>4. StoredInv' /\ WorldTypes'
    BY <1>0, <1>7, <2>2, StoredLemma DEF Remember, WorldTypes
  <2> QED BY <1>7, <2>3, <2>4, <1>a, <1>b DEF Remember
<1>8. ASSUME NEW s \in Saves, Access(s) PROVE IInv'
  <2>1. pc[s] = "access" /\ SaveOK(s)
    BY <1>0, <1>8 DEF Access
  <2>2. ASSUME Goto(s, "mint"), UNCHANGED <<outcome, env>>
        PROVE  SavesInv' /\ SaveTypes' /\ StoredInv'
    <3>1. pc' = [pc EXCEPT ![s] = "mint"] /\ pc'[s] = "mint"
      BY <1>0, <2>2 DEF Goto, SaveTypes
    <3>2. SaveOK(s)'
      BY <1>8, <2>1, <2>2, <3>1 DEF Access, SaveOK, PopupOK, Searching, Aimed
    <3>3. SavesInv' /\ SaveTypes'
      BY <1>8, <2>2, <3>1, <3>2, WalkLemma DEF Access, Points
    <3>4. StoredInv'
      BY <1>8, <2>2, StoredLemma DEF Access
    <3> QED BY <3>3, <3>4
  <2>3. ASSUME EndAs(s, "error")
        PROVE  SavesInv' /\ SaveTypes' /\ StoredInv'
    <3>1. SavesInv' /\ SaveTypes'
      BY <1>8, <2>1, <2>3, FailLemma DEF Access, Aimed
    <3>2. StoredInv'
      BY <1>8, <2>1, <2>3, StoredMove DEF Access, EndAs
    <3> QED BY <3>1, <3>2
  <2>4. WorldTypes'
    BY <1>0, <1>8 DEF Access, WorldTypes
  <2> QED BY <1>8, <2>2, <2>3, <2>4, <1>a, <1>b DEF Access
<1>9. ASSUME NEW s \in Saves, Mint(s) PROVE IInv'
  <2>1. pc[s] = "mint" /\ SaveOK(s)
    BY <1>0, <1>9 DEF Mint
  <2>2. ASSUME NEW at \in {"post", "diagnose"}, Goto(s, at), UNCHANGED <<outcome, env>>
        PROVE  SavesInv' /\ SaveTypes' /\ StoredInv'
    <3>1. pc' = [pc EXCEPT ![s] = at] /\ pc'[s] = at
      BY <1>0, <2>2 DEF Goto, SaveTypes
    <3>2. SaveOK(s)'
      BY <1>9, <2>1, <2>2, <3>1 DEF Mint, SaveOK, PopupOK, Searching, Aimed
    <3>3. SavesInv' /\ SaveTypes'
      BY <1>9, <2>2, <3>1, <3>2, WalkLemma DEF Mint, Points
    <3>4. StoredInv'
      BY <1>9, <2>2, StoredLemma DEF Mint
    <3> QED BY <3>3, <3>4
  <2>3. ASSUME outcome' = [outcome EXCEPT ![s] = "signin"],
               env' = [env EXCEPT ![s] = NoEnv],
               Goto(s, IF s \in Menu THEN "resolve" ELSE "report")
        PROVE  SavesInv' /\ SaveTypes' /\ StoredInv'
    <3>1. PICK at \in {"resolve", "report"} :
            /\ pc' = [pc EXCEPT ![s] = at]
            /\ at = "resolve" <=> s \in Menu
      BY <2>3 DEF Goto
    <3>2. pc'[s] = at /\ outcome'[s] = "signin" /\ at \in Points /\ "signin" \in Outcomes
      BY <1>0, <2>3, <3>1 DEF SaveTypes, Points, Outcomes, Failures
    <3>3. s \in Menu => s \notin Popup
      BY ConstantsLemma
    <3>4. SaveOK(s)'
      BY <1>9, <2>1, <3>1, <3>2, <3>3 DEF Mint, SaveOK, PopupOK, Searching, Aimed
    <3>5. SavesInv' /\ SaveTypes'
      BY <1>9, <2>3, <3>1, <3>2, <3>4, MoveLemma DEF Mint
    <3>6. StoredInv'
      BY <1>9, <2>1, <2>3, StoredMove DEF Mint
    <3> QED BY <3>5, <3>6
  <2>4. WorldTypes'
    BY <1>0, <1>9 DEF Mint, WorldTypes
  <2> QED BY <1>9, <2>2, <2>3, <2>4, <1>a, <1>b DEF Mint
<1>10. ASSUME NEW s \in Saves, Diagnose(s) PROVE IInv'
  <2>1. pc[s] = "diagnose" /\ EndAs(s, "error")
    BY <1>10 DEF Diagnose
  <2>2. SavesInv' /\ SaveTypes'
    BY <1>10, <2>1, FailLemma DEF Diagnose, Aimed
  <2>3. StoredInv'
    BY <1>10, <2>1, StoredMove DEF Diagnose, EndAs
  <2>4. WorldTypes'
    BY <1>0, <1>10 DEF Diagnose, WorldTypes
  <2> QED BY <1>10, <2>2, <2>3, <2>4, <1>a, <1>b DEF Diagnose
<1>11. ASSUME NEW s \in Saves, Post(s) \/ PostUnanswered(s) PROVE IInv'
  <2>1. pc[s] = "post" /\ SaveOK(s) /\ env[s] \in Envs
    BY <1>0, <1>11 DEF Post, PostUnanswered, SaveOK, Aimed
  <2>2. PICK what \in {"saved", "duplicate", "error"} :
          /\ EndAs(s, what)
          /\ \/ what # "error" /\ holds' = holds \union {env[s]} /\ lost' = lost
             \/ what = "error" /\ holds' = holds /\ lost' = lost
             \/ what = "error" /\ holds' = holds \union {env[s]} /\ lost' = lost \union {s}
    BY <1>11 DEF Post, PostUnanswered
  <2>3. /\ UNCHANGED <<asked, probe, granted, app, tabs, remembered>>
        /\ UNCHANGED page
        /\ changes' \in 0 .. MaxChanges
    BY <1>0, <1>11, ConstantsLemma DEF Post, PostUnanswered, WorldTypes
  <2>4. what \in Outcomes /\ "report" \in Points /\ (what # "error" => what \notin Failures)
    BY DEF Outcomes, Failures, Points
  <2>5. PICK e \in Envs \cup {NoEnv} :
          /\ env' = [env EXCEPT ![s] = e] /\ env'[s] = e
          /\ what \notin Failures => e = env[s]
    BY <2>2, <2>4, EndLemma
  <2>6. /\ pc' = [pc EXCEPT ![s] = "report"] /\ outcome' = [outcome EXCEPT ![s] = what]
        /\ pc'[s] = "report" /\ outcome'[s] = what
    BY <2>2, <2>4, EndLemma
  <2>7. SaveOK(s)'
    BY <2>1, <2>2, <2>3, <2>4, <2>5, <2>6 DEF SaveOK, PopupOK, Searching, Aimed
  <2>8. SavesInv' /\ SaveTypes'
    <3>1. holds \subseteq holds'
      BY <2>2
    <3> QED BY <2>3, <2>4, <2>5, <2>6, <2>7, <3>1, MoveLemma
  <2>9. StoredInv'
    <3>1. CASE what # "error"
      BY <2>6, <3>1 DEF StoredInv
    <3>2. CASE what = "error" /\ lost' = lost \union {s}
      BY <3>2 DEF StoredInv
    <3>3. CASE holds' = holds /\ lost' = lost
      BY <2>1, <2>6, <3>3, StoredMove
    <3> QED BY <2>2, <3>1, <3>2, <3>3
  <2>10. WorldTypes'
    BY <1>0, <2>1, <2>2, <2>3 DEF WorldTypes
  <2> QED BY <2>3, <2>8, <2>9, <2>10, <1>a, <1>b
<1>12. ASSUME NEW s \in Saves, Report(s) PROVE IInv'
  <2>1. pc[s] = "report" /\ SaveOK(s) /\ outcome[s] # "none"
    BY <1>0, <1>12 DEF Report, SaveOK
  <2>2. PICK at \in {"ready", "end"} :
          /\ pc' = [pc EXCEPT ![s] = at]
          /\ at = "ready" => s \in Popup /\ outcome[s] \notin {"saved", "duplicate"}
    BY <1>12 DEF Report, Goto, Failures
  <2>3. pc'[s] = at /\ UNCHANGED <<outcome, asked, env, probe, holds, lost>>
    BY <1>0, <1>12, <2>2 DEF Report, SaveTypes
  <2>4. SaveOK(s)'
    BY <2>1, <2>2, <2>3 DEF SaveOK, PopupOK, Searching, Aimed
  <2>5. SavesInv' /\ SaveTypes'
    BY <2>2, <2>3, <2>4, WalkLemma DEF Points
  <2>6. PageTypes' /\ OnlyResultsFade'
    <3>1. CardOf(outcome[s]) \in {"saved", "duplicate", "error"}
      BY <1>0, <2>1 DEF CardOf, SaveTypes, Outcomes, Failures
    <3>2. listening' \in BOOLEAN /\ Show(s, CardOf(outcome[s]))
      BY <1>0, <1>12 DEF Report, FinishProgress, PageTypes
    <3> QED BY <3>1, <3>2, ShowLemma
  <2>7. StoredInv'
    BY <2>3, StoredLemma
  <2>8. WorldTypes'
    <3>1. s \in Menu /\ outcome[s] = "signin" => env[s] \in Envs
      BY <2>1 DEF SaveOK
    <3> QED BY <1>0, <1>12, <3>1 DEF Report, WorldTypes
  <2> QED BY <2>5, <2>6, <2>7, <2>8, <1>a
<1>13. ASSUME NEW S, Gone(S), \A s \in S : s \in Saves => pc[s] # "idle" PROVE IInv'
  <2>1. SavesInv' /\ SaveTypes'
    BY <1>13, GoneLemma
  <2>2. StoredInv' /\ WorldTypes'
    BY <1>0, <1>13, StoredLemma DEF Gone, WorldTypes
  <2> QED BY <1>13, <2>1, <2>2, <1>a, <1>b DEF Gone
<1>14. ASSUME StopWorker \/ \E s \in Saves : ClosePopup(s) PROVE IInv'
  BY <1>13, <1>14 DEF StopWorker, ClosePopup, Running
\* What happens around the saves leaves every one of them as it is.
<1>15. ASSUME UNCHANGED <<pc, asked, env, probe, outcome, holds, lost>>
       PROVE  SavesInv' /\ SaveTypes' /\ StoredInv'
  <2>1. SavesInv'
    BY <1>15, OtherSaves DEF SavesInv
  <2>2. SaveTypes'
    BY <1>0, <1>15 DEF SaveTypes
  <2> QED BY <1>15, <2>1, <2>2, StoredLemma
<1>16. CASE Fade
  <2>1. WorldTypes' /\ PageTypes' /\ OnlyResultsFade'
    BY <1>0, <1>16 DEF Fade, WorldTypes, PageTypes, OnlyResultsFade
  <2> QED BY <1>16, <2>1, <1>15, <1>a DEF Fade
<1>17. CASE AppChanges \/ TabChanges \/ AccessWithdrawn
  <2>1. WorldTypes'
    BY <1>0, <1>17, ConstantsLemma
       DEF AppChanges, TabChanges, AccessWithdrawn, Changed, Saving, WorldTypes
  <2> QED BY <1>17, <2>1, <1>15, <1>a, <1>b
          DEF AppChanges, TabChanges, AccessWithdrawn, Saving
<1>18. CASE Navigate
  <2>1. /\ UNCHANGED <<app, tabs, granted, remembered, holds, lost>>
        /\ changes' = changes + 1 /\ changes < MaxChanges
        /\ listening' = FALSE /\ card' = "none" /\ fading' = FALSE /\ shownBy' = NoSave
    BY <1>18 DEF Navigate, Changed, Saving, world
  <2>2. WorldTypes'
    BY <1>0, <2>1, ConstantsLemma DEF WorldTypes
  <2>3. PageTypes' /\ OnlyResultsFade'
    BY <2>1 DEF PageTypes, OnlyResultsFade
  <2> QED BY <1>18, <2>2, <2>3, <1>15, <1>a DEF Navigate, Saving
<1>19. CASE UNCHANGED vars
  <2>1. WorldTypes'
    BY <1>0, <1>19 DEF vars, WorldTypes
  <2> QED BY <1>19, <2>1, <1>15, <1>a, <1>b DEF vars
<1> QED BY <1>1, <1>2, <1>3, <1>4, <1>5, <1>6, <1>7, <1>8, <1>9, <1>10, <1>11, <1>12,
           <1>14, <1>16, <1>17, <1>18, <1>19 DEF Next, Advance

LEMMA Invariant == Spec => []IInv
<1> QED BY InitHolds, StepHolds, PTL DEF Spec

\* Every variable of the extension keeps its type: the environment a save aims at, the one
\* a probe asks and the card in the page are always ones the scripts know.
THEOREM ExtensionTyped == Spec => []TypeOK
<1>1. IInv => TypeOK
  BY DEF IInv
<1> QED BY <1>1, Invariant, PTL

\* The result a save reports is what the API did: a page said to be saved is stored, and a
\* page is stored only by a save that said so or lost the answer (save.js saveItem).
THEOREM ReportIsTrue == Spec => []ReportsTheTruth
<1>1. IInv => ReportsTheTruth
  BY DEF IInv, SavesInv, SaveOK, StoredInv, ReportsTheTruth
<1> QED BY <1>1, Invariant, PTL

\* The timer of an earlier result never takes down the card of a save still running
\* (overlay.js show).
THEOREM FadingIsAResult == Spec => []OnlyResultsFade
<1>1. IInv => OnlyResultsFade
  BY DEF IInv
<1> QED BY <1>1, Invariant, PTL

-----------------------------------------------------------------------------
(* Whose the card is.                                                        *)

\* A popup that resolves its environment as it opens has drawn no card yet, and a save
\* whose result is shown rests.
Resting == {"ready", "prompt", "end", "closed"}
CardInv ==
  /\ ~listening => card = "none"
  /\ card = "working" =>
       /\ shownBy \in Saves
       /\ pc[shownBy] \notin {"idle", "ready", "prompt", "end"}
       /\ shownBy \in Popup /\ pc[shownBy] # "closed" => asked[shownBy] # NoEnv
  /\ card \in {"saved", "duplicate", "error"} =>
       /\ shownBy \in Saves
       /\ pc[shownBy] \in Resting
       /\ card = CardOf(outcome[shownBy])

\* A save that moves and is not resting: what the card shows of it can only be that it
\* compiles, and it goes on doing so short of its end.
LEMMA CardKept ==
  ASSUME IInv, CardInv, UNCHANGED page, NEW s \in Saves, NEW at, pc' = [pc EXCEPT ![s] = at],
         pc[s] \notin Resting,
         at \notin {"idle", "ready", "prompt", "end"} \/ card # "working" \/ shownBy # s,
         \A t \in Saves : asked[t] # NoEnv => asked'[t] # NoEnv,
         \A t \in Saves : t # s => outcome'[t] = outcome[t]
  PROVE  CardInv'
<1>1. SaveTypes /\ PageTypes
  BY TypeLemma DEF IInv
<1>2. ~listening' => card' = "none"
  BY DEF CardInv, page
<1>3. ASSUME card = "working"
      PROVE  /\ shownBy \in Saves
             /\ pc'[shownBy] \notin {"idle", "ready", "prompt", "end"}
             /\ shownBy \in Popup /\ pc'[shownBy] # "closed" => asked'[shownBy] # NoEnv
  BY <1>1, <1>3 DEF CardInv, SaveTypes, Resting
<1>4. ASSUME card \in {"saved", "duplicate", "error"}
      PROVE  /\ shownBy \in Saves /\ pc'[shownBy] \in Resting
             /\ card = CardOf(outcome'[shownBy])
  <2>1. /\ shownBy \in Saves /\ pc[shownBy] \in Resting /\ shownBy # s
        /\ card = CardOf(outcome[shownBy])
    BY <1>4 DEF CardInv
  <2>2. pc'[shownBy] = pc[shownBy] /\ outcome'[shownBy] = outcome[shownBy]
    BY <1>1, <2>1 DEF SaveTypes
  <2> QED BY <2>1, <2>2
<1>5. UNCHANGED <<card, shownBy>>
  BY DEF page
<1> QED BY <1>2, <1>3, <1>4, <1>5 DEF CardInv, CardOf

\* The popup offers its button: one that is opening has drawn no card.
LEMMA CardResolved ==
  ASSUME IInv, CardInv, UNCHANGED <<page, outcome>>, NEW s \in Saves, NEW e \in Envs,
         Resolved(s, e), pc[s] \in Searching
  PROVE  CardInv'
<1>1. SaveTypes /\ NoEnv \notin Envs
  BY TypeLemma, ConstantsLemma DEF IInv
<1>2. pc[s] \notin Resting /\ pc[s] # "closed"
  BY DEF Searching, Resting
<1>3. CASE s \in Popup /\ asked[s] = NoEnv
  <2>1. card # "working" \/ shownBy # s
    BY <1>2, <1>3 DEF CardInv
  <2>2. pc' = [pc EXCEPT ![s] = "ready"] /\ asked' = [asked EXCEPT ![s] = e]
    BY <1>3 DEF Resolved, Goto
  <2>3. \A t \in Saves : asked[t] # NoEnv => asked'[t] # NoEnv
    BY <1>1, <2>2 DEF SaveTypes
  <2> QED BY <1>2, <2>1, <2>2, <2>3, CardKept
<1>4. CASE ~(s \in Popup /\ asked[s] = NoEnv)
  <2>1. PICK at \in {"report", "access"} : pc' = [pc EXCEPT ![s] = at]
    BY <1>4 DEF Resolved, Goto
  <2>2. asked' = asked
    BY <1>4 DEF Resolved
  <2> QED BY <1>2, <2>1, <2>2, CardKept
<1> QED BY <1>3, <1>4

\* A card that is drawn is that of the save that draws it; one that is not there to be
\* drawn shows nothing.
LEMMA CardStarted ==
  ASSUME IInv, CardInv, NEW s \in Saves, StartProgress(s), UNCHANGED asked,
         s \in Popup => asked[s] # NoEnv, NEW at \in {"read", "resolve"},
         pc' = [pc EXCEPT ![s] = at]
  PROVE  CardInv'
<1>1. SaveTypes /\ PageTypes
  BY TypeLemma DEF IInv
<1>2. pc'[s] = at
  BY <1>1 DEF SaveTypes
<1>3. CASE listening'
  BY <1>2, <1>3 DEF StartProgress, Show, CardInv
<1>4. CASE ~listening'
  <2>1. ~listening
    BY <1>4 DEF StartProgress
  <2>2. card' = "none"
    BY <1>4, <2>1 DEF StartProgress, Show, CardInv
  <2> QED BY <2>2 DEF CardInv
<1> QED BY <1>3, <1>4

\* Saves that close, or wait for an answer to Chrome's question, show what they showed.
LEMMA CardRested ==
  ASSUME IInv, CardInv, UNCHANGED <<page, outcome>>,
         \A t \in Saves :
           \/ pc'[t] = pc[t] /\ asked'[t] = asked[t]
           \/ pc'[t] = "closed"
           \/ pc[t] \in {"ready", "prompt"} /\ pc'[t] \in {"ready", "prompt"}
  PROVE  CardInv'
<1>1. ~listening' => card' = "none"
  BY DEF CardInv, page
<1>2. ASSUME card = "working"
      PROVE  /\ shownBy \in Saves
             /\ pc'[shownBy] \notin {"idle", "ready", "prompt", "end"}
             /\ shownBy \in Popup /\ pc'[shownBy] # "closed" => asked'[shownBy] # NoEnv
  BY <1>2 DEF CardInv
<1>3. ASSUME card \in {"saved", "duplicate", "error"}
      PROVE  shownBy \in Saves /\ pc'[shownBy] \in Resting /\ card = CardOf(outcome[shownBy])
  BY <1>3 DEF CardInv, Resting
<1>4. UNCHANGED <<card, shownBy, outcome>>
  BY DEF page
<1> QED BY <1>1, <1>2, <1>3, <1>4 DEF CardInv, CardOf

LEMMA CardStep ==
  ASSUME IInv, CardInv, [Next]_vars
  PROVE  CardInv'
<1>0. SaveTypes /\ PageTypes /\ \A s \in Saves : SaveOK(s)
  BY TypeLemma DEF IInv, SavesInv
<1>1. ASSUME NEW s \in Saves, MenuClick(s) PROVE CardInv'
  <2>1. StartProgress(s) /\ UNCHANGED asked /\ pc' = [pc EXCEPT ![s] = "read"] /\ s \notin Popup
    BY <1>1, ConstantsLemma DEF MenuClick, Goto
  <2> QED BY <2>1, CardStarted
<1>2. ASSUME NEW s \in Saves, OpenPopup(s) PROVE CardInv'
  <2>1. /\ pc[s] = "idle" /\ UNCHANGED <<page, asked, outcome>>
        /\ pc' = [pc EXCEPT ![s] = "resolve"]
    BY <1>2 DEF OpenPopup, Goto, page
  <2> QED BY <2>1, CardKept DEF Resting
<1>3. ASSUME NEW s \in Saves, PopupClick(s) \/ AnswerPrompt(s) PROVE CardInv'
  <2>1. /\ pc[s] \in {"ready", "prompt"} /\ UNCHANGED asked
        /\ asked[s] \in Envs /\ NoEnv \notin Envs
    BY <1>0, <1>3, ConstantsLemma DEF PopupClick, AnswerPrompt, SaveOK, PopupOK, Searching
  <2>2. CASE StartSave(s)
    <3>1. StartProgress(s) /\ pc' = [pc EXCEPT ![s] = "resolve"]
      BY <2>2 DEF StartSave, Goto
    <3> QED BY <2>1, <3>1, CardStarted
  <2>3. ASSUME NEW at \in {"ready", "prompt"}, Goto(s, at), UNCHANGED <<outcome, page>>
        PROVE  CardInv'
    <3>1. \A t \in Saves : pc'[t] = IF t = s THEN at ELSE pc[t]
      BY <1>0, <2>3 DEF Goto, SaveTypes
    <3> QED BY <2>1, <2>3, <3>1, CardRested
  <2> QED BY <1>3, <2>2, <2>3 DEF PopupClick, AnswerPrompt
<1>4. ASSUME NEW s \in Saves, Resolve(s) \/ Probe(s) \/ Remember(s) PROVE CardInv'
  <2>1. UNCHANGED <<page, outcome>> /\ pc[s] \in Searching
    BY <1>4 DEF Resolve, Probe, Remember, Searching, page
  <2>2. ASSUME NEW e \in Envs, Resolved(s, e) PROVE CardInv'
    BY <2>1, <2>2, CardResolved
  <2>3. ASSUME NEW at \in {"probe", "remember"}, Goto(s, at), UNCHANGED asked PROVE CardInv'
    BY <2>1, <2>3, CardKept DEF Goto, Searching, Resting
  <2>4. CASE UNCHANGED <<pc, asked>>
    BY <2>1, <2>4, CardRested
  <2>5. CASE Resolve(s)
    <3>1. \/ \E e \in Envs : Resolved(s, e)
          \/ Goto(s, "probe") /\ UNCHANGED asked
      <4>1. remembered \in Envs \cup {NoEnv} /\ InATab \subseteq Envs
        BY TypeLemma DEF IInv, WorldTypes, InATab
      <4> QED BY <2>5, <4>1 DEF Resolve
    <3> QED BY <2>2, <2>3, <3>1
  <2>6. CASE Probe(s)
    <3>1. Order[1] \in Envs
      BY ConstantsLemma
    <3> QED BY <2>2, <2>3, <2>4, <2>6, <3>1 DEF Probe
  <2>7. CASE Remember(s)
    <3>1. Asked(s) \in Envs
      <4>1. probe[s] \in 0 .. Len(Order) /\ probe[s] < Len(Order)
        BY <1>0, <2>7 DEF Remember, SaveTypes, SaveOK
      <4>2. probe[s] + 1 \in 1 .. Len(Order)
        BY <4>1, ConstantsLemma
      <4> QED BY <4>2, ConstantsLemma DEF Asked
    <3> QED BY <2>2, <2>7, <3>1 DEF Remember
  <2> QED BY <1>4, <2>5, <2>6, <2>7
<1>5. ASSUME NEW s \in Saves,
             \/ BuildPayload(s) \/ Access(s) \/ Mint(s) \/ Diagnose(s) \/ Post(s)
             \/ PostUnanswered(s)
      PROVE  CardInv'
  <2>1. UNCHANGED <<page, asked>> /\ pc[s] \in Aimed \cup {"read"}
    BY <1>5 DEF BuildPayload, Access, Mint, Diagnose, Post, PostUnanswered, page, Aimed
  <2>2. \/ outcome' = outcome
        \/ \E what : outcome' = [outcome EXCEPT ![s] = what]
    BY <1>5 DEF BuildPayload, Access, Mint, Diagnose, Post, PostUnanswered, EndAs
  <2>3. \A t \in Saves : t # s => outcome'[t] = outcome[t]
    BY <1>0, <2>2 DEF SaveTypes
  <2>4. PICK at \in {"resolve", "report", "mint", "post", "diagnose"} :
          pc' = [pc EXCEPT ![s] = at]
    BY <1>5 DEF BuildPayload, Access, Mint, Diagnose, Post, PostUnanswered, EndAs, Goto
  <2> QED BY <2>1, <2>3, <2>4, CardKept DEF Aimed, Resting
\* Its report is a result, and takes the place of whatever the card said.
<1>6. ASSUME NEW s \in Saves, Report(s) PROVE CardInv'
  <2>1. /\ FinishProgress(s, CardOf(outcome[s])) /\ UNCHANGED <<asked, outcome>>
        /\ CardOf(outcome[s]) \in {"saved", "duplicate", "error"}
    BY <1>0, <1>6 DEF Report, SaveOK, CardOf, SaveTypes, Outcomes, Failures
  <2>2. pc'[s] \in Resting
    BY <1>0, <1>6 DEF Report, Goto, SaveTypes, Resting
  <2>3. CASE listening
    <3>1. card' = CardOf(outcome[s]) /\ shownBy' = s /\ listening'
      BY <2>1, <2>3 DEF FinishProgress, Show
    <3>2. CardOf(outcome[s])' = CardOf(outcome[s])
      BY <2>1 DEF CardOf
    <3> QED BY <2>1, <2>2, <3>1, <3>2 DEF CardInv, CardOf
  <2>4. CASE ~listening
    BY <2>1, <2>4 DEF FinishProgress, Show, CardInv
  <2> QED BY <2>3, <2>4
<1>7. ASSUME StopWorker \/ \E s \in Saves : ClosePopup(s) PROVE CardInv'
  <2>1. PICK S : Gone(S)
    BY <1>7 DEF StopWorker, ClosePopup
  <2> QED BY <2>1, CardRested DEF Gone, page
<1>8. CASE Fade \/ Navigate
  BY <1>8 DEF Fade, Navigate, Saving, CardInv
<1>9. CASE AppChanges \/ TabChanges \/ AccessWithdrawn \/ UNCHANGED vars
  <2>1. UNCHANGED <<page, outcome, pc, asked>>
    BY <1>9 DEF AppChanges, TabChanges, AccessWithdrawn, Saving, page, vars
  <2> QED BY <2>1, CardRested
<1> QED BY <1>1, <1>2, <1>3, <1>4, <1>5, <1>6, <1>7, <1>8, <1>9 DEF Next, Advance

\* The card of a page tells of the save that drew it last, whoever else saves the page,
\* leaves it or withdraws an access: none is left saying that it compiles but by a script
\* that is gone, and none shows another result than its save's (progress.js, overlay.js).
THEOREM CardIsOfItsSave == Spec => []CardTellsItsSave
<1>1. Init => CardInv
  BY DEF Init, CardInv
<1>2. CardInv => CardTellsItsSave
  BY DEF CardInv, CardTellsItsSave
<1> QED BY <1>1, <1>2, CardStep, Invariant, PTL DEF Spec

==============================================================================
