------------------------------ MODULE Extension ------------------------------
(***************************************************************************)
(* The browser extension saving one page: which app it aims at (save.js),  *)
(* the context menu (background.js), the popup (popup.js), and the card    *)
(* both draw in the page (progress.js, overlay.js).                        *)
(*                                                                         *)
(* A save is a chain of awaits.  Between two of them the app is started,   *)
(* stopped, signed into, opened in a tab or closed, the page is left, and  *)
(* another save runs; every one of those is an action here.                *)
(***************************************************************************)
EXTENDS Naturals, FiniteSets, SequencesExt

CONSTANTS Order,       \* ENVIRONMENTS, in the order they are tried
          Menu, Popup, \* the saves, by the script that runs them
          NoEnv,
          MaxChanges   \* bound on what the world does meanwhile

Envs  == ToSet(Order)
Saves == Menu \union Popup

ASSUME ExtensionAssumption ==
    /\ Order \in Seq(Envs) /\ Order # <<>> /\ NoEnv \notin Envs
    /\ Menu \intersect Popup = {} /\ MaxChanges \in Nat

VARIABLES app,         \* what answers at an environment's /api/auth/token
          tabs,        \* the environments open in a tab
          granted,     \* the origins Chrome lets the extension reach
          remembered,  \* chrome.storage.sync resolvedApp
          pc,          \* where a save is
          asked,       \* what getBases said when the popup opened
          env,         \* what getBases said to the save
          probe,       \* how many environments a probe has asked
          outcome,     \* what a save came to
          holds,       \* the environments whose API has stored the page
          lost,        \* saves whose stored answer never arrived
          listening,   \* overlay.js is installed in the page
          card, fading,\* what the card shows, and whether it is on its timer
          shownBy,     \* the save that drew the card last
          changes

world == <<app, tabs, granted>>
page  == <<listening, card, fading, shownBy>>
vars  == <<app, tabs, granted, remembered, pc, asked, env, probe, outcome,
           holds, lost, listening, card, fading, shownBy, changes>>

NoSave == "nobody"
Failures == {"error", "signin"}

TypeOK ==
    /\ app \in [Envs -> {"down", "out", "in", "refuses"}]
    /\ tabs \subseteq Envs /\ granted \subseteq Envs /\ holds \subseteq Envs
    /\ remembered \in Envs \union {NoEnv}
    /\ pc \in [Saves -> {"idle", "read", "resolve", "probe", "remember", "ready",
                         "prompt", "access", "mint", "diagnose", "post", "report", "end", "closed"}]
    /\ asked \in [Saves -> Envs \union {NoEnv}]
    /\ env \in [Saves -> Envs \union {NoEnv}]
    /\ probe \in [Saves -> 0 .. Len(Order)]
    /\ outcome \in [Saves -> {"none", "saved", "duplicate"} \union Failures]
    /\ lost \subseteq Saves
    /\ listening \in BOOLEAN /\ fading \in BOOLEAN
    /\ card \in {"none", "working", "saved", "duplicate", "error"}
    /\ shownBy \in Saves \union {NoSave}
    /\ changes \in 0 .. MaxChanges

\* An app that runs at first has a session; to sign out of it is a change. The
\* manifest ships with access to every environment: the reader may withdraw it.
Init ==
    /\ app \in [Envs -> {"down", "in"}]
    /\ tabs = {} /\ granted = Envs
    /\ remembered \in Envs \union {NoEnv}
    /\ pc = [s \in Saves |-> "idle"]
    /\ asked = [s \in Saves |-> NoEnv] /\ env = [s \in Saves |-> NoEnv]
    /\ probe = [s \in Saves |-> 0] /\ outcome = [s \in Saves |-> "none"]
    /\ holds = {} /\ lost = {}
    /\ listening = FALSE /\ card = "none" /\ fading = FALSE /\ shownBy = NoSave
    /\ changes = 0

Goto(s, at) == pc' = [pc EXCEPT ![s] = at]

\* The result a save ends with.  Each `throw` and each answer lands here; a failure
\* forgets where the save aimed.
EndAs(s, what) ==
    /\ outcome' = [outcome EXCEPT ![s] = what]
    /\ env' = IF what \in Failures THEN [env EXCEPT ![s] = NoEnv] ELSE env
    /\ Goto(s, "report")

(***************************************************************************)
(* The card.  Messages to it are swallowed when nobody listens.            *)
(***************************************************************************)
\* Mutant: show leaves the timer of the previous result running.
ShowKeepsTimers(s, phase) ==
    IF listening'
    THEN card' = phase /\ fading' = (fading \/ phase # "working") /\ shownBy' = s
    ELSE UNCHANGED <<card, fading, shownBy>>

\* show: clear both timers, draw the phase, arm the timer of a result.
Show(s, phase) ==
    IF listening'
    THEN /\ card' = phase
         /\ fading' = (phase # "working")
         /\ shownBy' = s
    ELSE UNCHANGED <<card, fading, shownBy>>

\* startProgress: inject overlay.js, which a page may refuse, then send.
StartProgress(s) ==
    /\ listening' \in {listening, TRUE}
    /\ Show(s, "working")

\* finishProgress: send, whether or not anything listens.
FinishProgress(s, phase) ==
    /\ UNCHANGED listening
    /\ Show(s, phase)

\* The card's own timer.
Fade ==
    /\ fading
    /\ card' = "none" /\ fading' = FALSE /\ shownBy' = NoSave
    /\ UNCHANGED <<listening, remembered, pc, asked, env, probe,
                   outcome, holds, lost, changes, world>>

(***************************************************************************)
(* getBases.  Where a save goes once it knows depends on who asked: the    *)
(* popup as it opens, a save, or the menu looking for where to sign in.    *)
(***************************************************************************)
Resolved(s, e) ==
    /\ probe' = [probe EXCEPT ![s] = 0]
    /\ IF s \in Popup /\ asked[s] = NoEnv
       THEN /\ asked' = [asked EXCEPT ![s] = e]
            /\ Goto(s, "ready") /\ UNCHANGED env
       ELSE /\ env' = [env EXCEPT ![s] = e]
            /\ Goto(s, IF outcome[s] = "signin" THEN "report" ELSE "access")
            /\ UNCHANGED asked

\* chrome.tabs.query matches only tabs whose origin the extension may see.
InATab == tabs \intersect granted
IsFirst(e, S) == \E i \in DOMAIN Order : e = Order[i] /\ \A j \in 1 .. i - 1 : Order[j] \notin S

Resolve(s) ==
    /\ pc[s] = "resolve"
    /\ \/ \E e \in InATab : IsFirst(e, InATab) /\ Resolved(s, e)
       \/ InATab = {} /\ remembered # NoEnv /\ Resolved(s, remembered)
       \/ /\ InATab = {} /\ remembered = NoEnv
          /\ Goto(s, "probe") /\ UNCHANGED <<asked, env, probe>>
    /\ UNCHANGED <<remembered, outcome, holds, lost, changes, world, page>>

HasSession(e) == app[e] = "in" /\ e \in granted

\* environmentWithASession: one fetch per environment, in order, until one mints;
\* none leaves the first as the default.  A fetch to an origin that is not granted
\* carries no cookie.
Asked(s) == Order[probe[s] + 1]
Probe(s) ==
    /\ pc[s] = "probe"
    /\ \/ HasSession(Asked(s)) /\ Goto(s, "remember") /\ UNCHANGED <<probe, asked, env>>
       \/ /\ ~HasSession(Asked(s)) /\ probe[s] + 1 < Len(Order)
          /\ probe' = [probe EXCEPT ![s] = @ + 1]
          /\ UNCHANGED <<pc, asked, env>>
       \/ /\ ~HasSession(Asked(s)) /\ probe[s] + 1 = Len(Order)
          /\ Resolved(s, Order[1])
    /\ UNCHANGED <<remembered, outcome, holds, lost, changes, world, page>>

\* Its answer is written an await later; storage that refuses it is ignored.
Remember(s) ==
    /\ pc[s] = "remember"
    /\ remembered' \in {remembered, Asked(s)}
    /\ Resolved(s, Asked(s))
    /\ UNCHANGED <<outcome, holds, lost, changes, world, page>>

(***************************************************************************)
(* saveItem: access, token, post.                                          *)
(***************************************************************************)
\* hasAccess: a permissions API that throws says yes.
Access(s) ==
    /\ pc[s] = "access"
    /\ \/ Goto(s, "mint") /\ UNCHANGED <<outcome, env>>
       \/ env[s] \notin granted /\ EndAs(s, "error")
    /\ UNCHANGED <<remembered, asked, probe, holds, lost, changes, world, page>>

\* mintToken.  A blocked answer and a silent server are the same TypeError; an
\* app asked without its cookie sees nobody signed in.
Mint(s) ==
    /\ pc[s] = "mint"
    /\ \/ HasSession(env[s]) /\ Goto(s, "post") /\ UNCHANGED <<outcome, env>>
       \/ /\ app[env[s]] \in {"in", "out"} /\ ~HasSession(env[s])
          /\ outcome' = [outcome EXCEPT ![s] = "signin"]
          /\ env' = [env EXCEPT ![s] = NoEnv]
          /\ Goto(s, IF s \in Menu THEN "resolve" ELSE "report")
       \/ /\ app[env[s]] \in {"down", "refuses"}
          /\ Goto(s, "diagnose") /\ UNCHANGED <<outcome, env>>
    /\ UNCHANGED <<remembered, asked, probe, holds, lost, changes, world, page>>

\* diagnose: only an app that does not answer at all is forgotten, unless storage
\* refuses that too.
Diagnose(s) ==
    /\ pc[s] = "diagnose"
    /\ EndAs(s, "error")
    /\ remembered' \in IF app[env[s]] = "down" THEN {remembered, NoEnv} ELSE {remembered}
    /\ UNCHANGED <<asked, probe, holds, lost, changes, world, page>>

\* Mutant: without `if (!response.ok)` a refusal reads as a save.
PostUnchecked(s) ==
    /\ pc[s] = "post"
    /\ EndAs(s, IF env[s] \in holds THEN "duplicate" ELSE "saved")
    /\ holds' \in {holds, holds \union {env[s]}}
    /\ UNCHANGED <<remembered, asked, probe, lost, changes, world, page>>

\* The API stores the page, or says it has it; 401, 409, 429 and 5xx refuse.
Post(s) ==
    /\ pc[s] = "post"
    /\ \/ /\ EndAs(s, IF env[s] \in holds THEN "duplicate" ELSE "saved")
          /\ holds' = holds \union {env[s]}
       \/ EndAs(s, "error") /\ UNCHANGED holds
    /\ UNCHANGED <<remembered, asked, probe, lost, changes, world, page>>

\* The answer is lost after the API stored the page.
PostUnanswered(s) ==
    /\ pc[s] = "post" /\ changes < MaxChanges
    /\ changes' = changes + 1
    /\ EndAs(s, "error")
    /\ holds' = holds \union {env[s]} /\ lost' = lost \union {s}
    /\ UNCHANGED <<remembered, asked, probe, world, page>>

(***************************************************************************)
(* The two entry points.                                                   *)
(***************************************************************************)
\* handle: the card first, then the payload.
MenuClick(s) ==
    /\ s \in Menu /\ pc[s] = "idle"
    /\ Goto(s, "read") /\ StartProgress(s)
    /\ UNCHANGED <<remembered, asked, env, probe, outcome, holds, lost,
                   changes, world>>

\* buildPayload: too little text, or a page that is not http, is an error.
BuildPayload(s) ==
    /\ pc[s] = "read"
    /\ \/ Goto(s, "resolve") /\ UNCHANGED <<outcome, env>>
       \/ EndAs(s, "error")
    /\ UNCHANGED <<remembered, asked, probe, holds, lost, changes, world, page>>

\* The popup resolves its environment as it opens, one popup at a time.
OpenPopup(s) ==
    /\ s \in Popup /\ pc[s] = "idle"
    /\ \A t \in Popup : pc[t] \in {"idle", "end", "closed"}
    /\ Goto(s, "resolve")
    /\ UNCHANGED <<remembered, asked, env, probe, outcome, holds, lost,
                   changes, world, page>>

\* save: the button goes, the card says so, and the environment is resolved anew.
StartSave(s) ==
    /\ outcome' = [outcome EXCEPT ![s] = "none"]
    /\ Goto(s, "resolve") /\ StartProgress(s)

\* The click asks Chrome for the origins resolved at opening, before any await. It
\* goes on at once when they are granted, and also when the request throws.
PopupClick(s) ==
    /\ pc[s] = "ready"
    /\ \/ StartSave(s)
       \/ asked[s] \notin granted /\ Goto(s, "prompt") /\ UNCHANGED <<outcome, page>>
    /\ UNCHANGED <<remembered, asked, env, probe, holds, lost, changes, world>>

\* The reader answers Chrome's question: a declined request saves nothing, and the
\* button stays.
AnswerPrompt(s) ==
    /\ pc[s] = "prompt"
    /\ \/ granted' = granted \union {asked[s]} /\ StartSave(s)
       \/ Goto(s, "ready") /\ UNCHANGED <<granted, outcome, page>>
    /\ UNCHANGED <<remembered, asked, env, probe, holds, lost, changes, app, tabs>>

CardOf(what) == IF what \in Failures THEN "error" ELSE what

\* Mutant: the sign-in path returns before it tells the card.
ReportReturnsEarly(s) ==
    /\ pc[s] = "report"
    /\ Goto(s, IF s \in Popup /\ outcome[s] \in Failures THEN "ready" ELSE "end")
    /\ IF outcome[s] = "signin" THEN UNCHANGED page
                                ELSE FinishProgress(s, CardOf(outcome[s]))
    /\ UNCHANGED <<remembered, asked, env, probe, outcome, holds, lost, changes, world>>

\* done and finishProgress; the menu opens the sign-in page itself, and the
\* popup offers its button again after a failure.
Report(s) ==
    /\ pc[s] = "report"
    /\ Goto(s, IF s \in Popup /\ outcome[s] \in Failures THEN "ready" ELSE "end")
    /\ FinishProgress(s, CardOf(outcome[s]))
    /\ tabs' = IF s \in Menu /\ outcome[s] = "signin" THEN tabs \union {env[s]}
                                                      ELSE tabs
    /\ UNCHANGED <<remembered, asked, env, probe, outcome, holds, lost, changes, app,
                   granted>>

(***************************************************************************)
(* What happens around a save.                                             *)
(***************************************************************************)
Running(s) == pc[s] \notin {"idle", "end", "closed"}

\* A script is gone, and with it what its save was about to do and knew; what it had
\* reported stays so.
Gone(S) ==
    /\ pc'    = [s \in Saves |-> IF s \in S THEN "closed" ELSE pc[s]]
    /\ asked' = [s \in Saves |-> IF s \in S THEN NoEnv ELSE asked[s]]
    /\ env'   = [s \in Saves |-> IF s \in S /\ outcome[s] \notin {"saved", "duplicate"}
                                 THEN NoEnv ELSE env[s]]
    /\ probe' = [s \in Saves |-> IF s \in S THEN 0 ELSE probe[s]]
    /\ UNCHANGED <<remembered, outcome, holds, lost, changes, world, page>>

\* The popup loses focus.
ClosePopup(s) == s \in Popup /\ Running(s) /\ Gone({s})

\* Chrome stops the service worker, which nothing keeps alive: handle is not awaited
\* by the listener, and a fetch may take longer than an idle worker may live.
StopWorker ==
    /\ \E s \in Menu : Running(s)
    /\ Gone({s \in Menu : Running(s)})

Changed == changes < MaxChanges /\ changes' = changes + 1
Saving  == <<remembered, pc, asked, env, probe, outcome, holds, lost>>

AppChanges ==
    /\ Changed
    /\ \E e \in Envs, a \in {"down", "out", "in", "refuses"} :
          a # app[e] /\ app' = [app EXCEPT ![e] = a]
    /\ UNCHANGED <<tabs, granted, Saving, page>>

TabChanges ==
    /\ Changed
    /\ \E e \in Envs : tabs' \in {tabs \union {e}, tabs \ {e}} \ {tabs}
    /\ UNCHANGED <<app, granted, Saving, page>>

\* The reader withdraws the access to a site, in the browser's own settings.
AccessWithdrawn ==
    /\ Changed
    /\ \E e \in granted : granted' = granted \ {e}
    /\ UNCHANGED <<app, tabs, Saving, page>>

\* The reader leaves the page: overlay and card go with it.
Navigate ==
    /\ Changed /\ listening
    /\ listening' = FALSE /\ card' = "none" /\ fading' = FALSE /\ shownBy' = NoSave
    /\ UNCHANGED <<world, Saving>>

Advance(s) == BuildPayload(s) \/ Resolve(s) \/ Probe(s) \/ Remember(s) \/ Access(s)
              \/ Mint(s) \/ Diagnose(s) \/ Post(s) \/ Report(s)

Next ==
    \/ \E s \in Saves :
          \/ MenuClick(s) \/ OpenPopup(s) \/ PopupClick(s) \/ AnswerPrompt(s)
          \/ Advance(s) \/ PostUnanswered(s) \/ ClosePopup(s)
    \/ StopWorker \/ Fade \/ AppChanges \/ TabChanges \/ AccessWithdrawn \/ Navigate

Spec == Init /\ [][Next]_vars

\* The card's timer fires, and an await ends or its script does: the fetches of a save
\* have no timeout, but a worker that waits on one is stopped, and a reader who waits
\* in the popup closes it. Nobody has to click, answer, sign in or navigate.
Goes(s) == ClosePopup(s) \/ (s \in Menu /\ StopWorker) \/ Advance(s)
Fairness == WF_vars(Fade) /\ \A s \in Saves : WF_vars(Goes(s))
FairSpec == Spec /\ Fairness

(***************************************************************************)
(* Properties.                                                             *)
(***************************************************************************)
\* A save that said it failed stored nothing, unless the answer itself was
\* lost; and one that said it saved, or had it already, is right.  A second
\* try after a lost answer is told the page is there.
ReportsTheTruth ==
    /\ \A s \in Saves : outcome[s] \in {"saved", "duplicate"} => env[s] \in holds
    /\ holds # {} => \E s \in Saves :
          s \in lost \/ outcome[s] \in {"saved", "duplicate"}

\* A card that a result put on its timer is not the card of a save still
\* running: the timer of an earlier save never takes it down (overlay.js show).
OnlyResultsFade == fading => card \in {"saved", "duplicate", "error"}

\* The one card of a page is drawn by the menu's saves and the popup's, and says of
\* the save that drew it last what is so: a card that says "Compiling" is that of a
\* save with its result still to report, or whose script is gone; one that shows a
\* result shows the result of its save, a failed one's until that save is tried again.
CardTellsItsSave ==
    /\ card = "working" => /\ shownBy \in Saves
                           /\ pc[shownBy] \notin {"idle", "ready", "prompt", "end"}
    /\ card \in {"saved", "duplicate", "error"} =>
          shownBy \in Saves /\ card = CardOf(outcome[shownBy])

\* A card that says "Compiling" stops saying so, unless the script of its save is gone:
\* the popup was closed under it, or the service worker stopped, and nobody else
\* takes the card down.
CardSettles ==
    card = "working" ~>
        (card # "working" \/ \E s \in Saves : shownBy = s /\ pc[s] = "closed")

==============================================================================
