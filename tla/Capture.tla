-------------------------------- MODULE Capture --------------------------------
(***************************************************************************)
(* Saving into a workspace: items.py create_item and upload_pdf, services/ *)
(* capture.py save_and_queue, wikis.py get_default_wiki and queue.py       *)
(* enqueue_compile. A request saves the parts of one document (a link or a *)
(* note has one) in a single transaction and hands each new part's compile *)
(* to arq after the commit.                                                *)
(*                                                                         *)
(* The database, CockroachDB, is external: an insert whose unique key      *)
(* another open transaction has inserted waits for that one to end; a      *)
(* cycle of waits is broken by an error for one of its members; so is a    *)
(* transaction that cannot be serialized with what others have committed.  *)
(* Content stands for its hash, and is unique in the workspace, as is the  *)
(* slug of its default wiki.                                               *)
(***************************************************************************)
EXTENDS RateLimit, SequencesExt

CONSTANTS
  Contents,
  PartsOf,      \* per request: its document, cut into parts
  NoRequest,
  MaxResends,   \* bound: how often a user sends a failed request again
  Faults        \* of "queue_down", "usage_error", "crash"

Requests == Callers

ASSUME PartsAssumption ==
  /\ PartsOf \in [Requests -> Seq(Contents)] /\ \A q \in Requests : PartsOf[q] # <<>>
  /\ NoRequest \notin Requests
  /\ MaxResends \in Nat
  /\ Faults \subseteq {"queue_down", "usage_error", "crash"}

VARIABLES
  owner,        \* raw_items: the request that stored the content, NoRequest while none did
  run,          \* compile_runs of the item: "none", "queued", "failed"
  jobs,         \* arq: contents whose compile is in the queue
  hasWiki,      \* wikis: the default wiki is committed
  pc,           \* where in its handler a request is
  part,         \* the part it is at
  fresh,        \* the parts it has inserted: locked until its transaction ends,
                \* and after the commit those it still has to enqueue
  madeWiki,     \* it has inserted the default wiki
  resends, crashed

dbVars      == <<owner, run, jobs, hasWiki>>
requestVars == <<pc, part, fresh, madeWiki>>
vars == <<limitVars, dbVars, requestVars, resends, crashed>>

Open   == {"look", "make", "insert", "embed", "commit"}
Ended  == {"done", "failed", "gone"}
Points == {"ask"} \cup Open \cup {"hand"} \cup Ended

TypeOK ==
  /\ LimitTypeOK
  /\ owner \in [Contents -> Requests \cup {NoRequest}]
  /\ run \in [Contents -> {"none", "queued", "failed"}]
  /\ jobs \subseteq Contents
  /\ hasWiki \in BOOLEAN
  /\ pc \in [Requests -> Points]
  /\ part \in [Requests -> Nat]
  /\ fresh \in [Requests -> Seq(Contents)]
  /\ madeWiki \in [Requests -> BOOLEAN]
  /\ resends \in 0..MaxResends
  /\ crashed \in BOOLEAN

Init ==
  /\ LimitInit
  /\ owner = [c \in Contents |-> NoRequest]
  /\ run = [c \in Contents |-> "none"]
  /\ jobs = {}
  /\ hasWiki \in BOOLEAN
  /\ pc = [q \in Requests |-> "ask"]
  /\ part = [q \in Requests |-> 1]
  /\ fresh = [q \in Requests |-> <<>>]
  /\ madeWiki = [q \in Requests |-> FALSE]
  /\ resends = 0
  /\ crashed = FALSE

Goto(q, p) == pc' = [pc EXCEPT ![q] = p]
Now(q)     == PartsOf[q][part[q]]
Stored     == {c \in Contents : owner[c] # NoRequest}
Locks(q)   == IF pc[q] \in {"hand", "done"} THEN {} ELSE ToSet(fresh[q])

\* The next part of the document, or the commit after the last.
NextPart(q) ==
  IF part[q] = Len(PartsOf[q])
  THEN Goto(q, "commit") /\ UNCHANGED part
  ELSE Goto(q, "look") /\ part' = [part EXCEPT ![q] = @ + 1]

\* Mutant: an error leaves the session's transaction open.
FailOpen(q) ==
  /\ Goto(q, "failed")
  /\ UNCHANGED <<part, fresh, madeWiki>>

\* The handler raises: get_db rolls back everything the request wrote.
Fail(q) ==
  /\ Goto(q, "failed")
  /\ part' = [part EXCEPT ![q] = 1]
  /\ fresh' = [fresh EXCEPT ![q] = <<>>]
  /\ madeWiki' = [madeWiki EXCEPT ![q] = FALSE]

-----------------------------------------------------------------------------
(* The handler, before its commit.                                           *)

\* check_hourly comes first. A request let through may still be refused for what it
\* carries: content too short, a file too large or not a PDF, a link that cannot be
\* fetched, a wiki of another workspace.
Ask(q) ==
  /\ pc[q] = "ask"
  /\ LimitStep(q)
  /\ IF ask'[q] = "refused" THEN Goto(q, "failed")
     ELSE Goto(q, "look") \/ Goto(q, "failed")
  /\ UNCHANGED <<dbVars, part, fresh, madeWiki, resends, crashed>>

\* The process that serves it dies in the check; Crash takes those behind it.
AskDies(q) ==
  /\ "crash" \in Faults
  /\ pc[q] = "ask"
  /\ CheckDies(q)
  /\ Goto(q, "gone")
  /\ UNCHANGED <<dbVars, part, fresh, madeWiki, resends, crashed>>

\* The duplicate check sees committed items and those flushed by its own transaction.
\* Then the wiki: the one the request names, or the default one, made if there is none.
Look(q) ==
  /\ pc[q] = "look"
  /\ IF Now(q) \in Stored \cup ToSet(fresh[q]) THEN NextPart(q)
     ELSE /\ Goto(q, "insert") \/ (~hasWiki /\ ~madeWiki[q] /\ Goto(q, "make"))
          /\ UNCHANGED part
  /\ UNCHANGED <<limitVars, dbVars, fresh, madeWiki, resends, crashed>>

\* The open transaction that has inserted the key the request is about to insert.
WaitsFor(q, b) ==
  /\ b # q
  /\ \/ pc[q] = "insert" /\ Now(q) \in Locks(b)
     \/ pc[q] = "make" /\ pc[b] \notin {"hand", "done"} /\ madeWiki[b]
Waits(q) == \E b \in Requests : WaitsFor(q, b)

MakeWiki(q) ==
  /\ pc[q] = "make" /\ ~Waits(q)
  /\ IF hasWiki THEN Fail(q)
     ELSE /\ Goto(q, "insert")
          /\ madeWiki' = [madeWiki EXCEPT ![q] = TRUE]
          /\ UNCHANGED <<part, fresh>>
  /\ UNCHANGED <<limitVars, dbVars, resends, crashed>>

Insert(q) ==
  /\ pc[q] = "insert" /\ ~Waits(q)
  /\ IF Now(q) \in Stored THEN Fail(q)
     ELSE /\ Goto(q, "embed")
          /\ fresh' = [fresh EXCEPT ![q] = Append(@, Now(q))]
          /\ UNCHANGED <<part, madeWiki>>
  /\ UNCHANGED <<limitVars, dbVars, resends, crashed>>

\* The embedding, which may fail, its usage record and the flush of the run.
Embed(q) ==
  /\ pc[q] = "embed"
  /\ NextPart(q)
  /\ UNCHANGED <<limitVars, dbVars, fresh, madeWiki, resends, crashed>>

\* usage.record swallows its failed flush, which has ended the session's transaction:
\* the flush of the run raises.
UsageFails(q) ==
  /\ "usage_error" \in Faults
  /\ pc[q] = "embed"
  /\ Fail(q)
  /\ UNCHANGED <<limitVars, dbVars, resends, crashed>>

\* The database finds a cycle of waits and gives one of its members an error.
BreakDeadlock(q) ==
  /\ \E S \in SUBSET Requests :
       /\ q \in S
       /\ \A s \in S : /\ \E t \in S : WaitsFor(s, t)
                       /\ \E t \in S : WaitsFor(t, s)
  /\ Fail(q)
  /\ UNCHANGED <<limitVars, dbVars, resends, crashed>>

\* What the request was about to write was committed by another since it began: the
\* database may raise at any statement, and at the commit.
Conflict(q) ==
  /\ pc[q] \in Open
  /\ ToSet(PartsOf[q]) \cap Stored # {}
  /\ Fail(q)
  /\ UNCHANGED <<limitVars, dbVars, resends, crashed>>

-----------------------------------------------------------------------------
(* The commit and what follows it.                                           *)

\* Mutant: every part has a transaction of its own.
CommitAsItGoes(q) ==
  /\ pc[q] \in {"look", "commit"}
  /\ owner' = [c \in Contents |-> IF c \in ToSet(fresh[q]) /\ owner[c] = NoRequest THEN q ELSE owner[c]]
  /\ run' = [c \in Contents |-> IF c \in ToSet(fresh[q]) /\ owner[c] = NoRequest THEN "queued" ELSE run[c]]
  /\ hasWiki' = (hasWiki \/ madeWiki[q])
  /\ IF pc[q] = "commit" THEN Goto(q, "hand") ELSE UNCHANGED pc
  /\ UNCHANGED <<limitVars, jobs, part, fresh, madeWiki, resends, crashed>>

Commit(q) ==
  /\ pc[q] = "commit"
  /\ owner' = [c \in Contents |-> IF c \in ToSet(fresh[q]) THEN q ELSE owner[c]]
  /\ run' = [c \in Contents |-> IF c \in ToSet(fresh[q]) THEN "queued" ELSE run[c]]
  /\ hasWiki' = (hasWiki \/ madeWiki[q])
  /\ Goto(q, "hand")
  /\ UNCHANGED <<limitVars, jobs, part, fresh, madeWiki, resends, crashed>>

\* Mutant: only the item the response names is queued.
HandFirst(q) == fresh' = [fresh EXCEPT ![q] = <<>>]

HandOne(q) == fresh' = [fresh EXCEPT ![q] = Tail(@)]

\* enqueue_compile, part by part; a queue that is down is written on the run.
Hand(q) ==
  /\ pc[q] = "hand" /\ fresh[q] # <<>>
  /\ LET c == Head(fresh[q])
     IN  \/ jobs' = jobs \cup {c} /\ UNCHANGED run
         \/ /\ "queue_down" \in Faults
            /\ run' = [run EXCEPT ![c] = "failed"] /\ UNCHANGED jobs
  /\ HandOne(q)
  /\ UNCHANGED <<limitVars, owner, hasWiki, pc, part, madeWiki, resends, crashed>>

Answer(q) ==
  /\ pc[q] = "hand" /\ fresh[q] = <<>>
  /\ Goto(q, "done")
  /\ UNCHANGED <<limitVars, dbVars, part, fresh, madeWiki, resends, crashed>>

\* The process dies: open transactions are rolled back, committed runs stay queued.
Crash ==
  /\ "crash" \in Faults /\ ~crashed
  /\ crashed' = TRUE
  /\ LET alive == {q \in Requests : pc[q] \notin {"ask"} \cup Ended}
     IN  /\ pc' = [q \in Requests |-> IF q \in alive THEN "gone" ELSE pc[q]]
         /\ fresh' = [q \in Requests |-> IF q \in alive THEN <<>> ELSE fresh[q]]
         /\ madeWiki' = [q \in Requests |-> IF q \in alive THEN FALSE ELSE madeWiki[q]]
         /\ part' = [q \in Requests |-> IF q \in alive THEN 1 ELSE part[q]]
  /\ UNCHANGED <<limitVars, dbVars, resends>>

\* The user sends the same document again: a use of its own.
Resend(q) ==
  /\ pc[q] \in {"failed", "gone"}
  /\ resends < MaxResends
  /\ resends' = resends + 1
  /\ ask' = [ask EXCEPT ![q] = "new"]
  /\ Goto(q, "ask")
  /\ UNCHANGED <<now, used, expires, judged, unjudged, dbVars, part, fresh, madeWiki, crashed>>

PassTime == Tick /\ UNCHANGED <<dbVars, requestVars, resends, crashed>>

Step(q) ==
  \/ Ask(q) \/ Look(q) \/ MakeWiki(q) \/ Insert(q) \/ Embed(q)
  \/ Commit(q) \/ Hand(q) \/ Answer(q)

Next ==
  \/ \E q \in Requests : Step(q) \/ BreakDeadlock(q) \/ Conflict(q) \/ UsageFails(q)
                      \/ AskDies(q) \/ Resend(q)
  \/ PassTime
  \/ Crash

Spec == Init /\ [][Next]_vars

\* Handlers run on, and the database looks for deadlocks. A handler that has to
\* choose is not owed either outcome.
FairSpec == Spec /\ \A q \in Requests : WF_vars(Step(q)) /\ WF_vars(BreakDeadlock(q))

-----------------------------------------------------------------------------
(* Properties.                                                               *)

\* No half-ingested document (items.py: all parts share one transaction): what a
\* request stored anything of is stored whole, and what was answered is stored.
WholeDocumentOrNone ==
  \A q \in Requests :
    pc[q] \in {"hand", "done"} \/ (\E c \in Contents : owner[c] = q)
      => ToSet(PartsOf[q]) \subseteq Stored

\* A worker cannot pick up a job whose row is not yet visible (items.py:212).
JobsHaveRows == jobs \subseteq Stored

\* Unless the process dies, every stored item's compile is in the queue, marked as
\* failed for the user to retry, or about to be handed on by the request that stored
\* it: also those of a document whose other parts were duplicates.
HandedOrMarked ==
  ~crashed =>
    \A c \in Stored :
      \/ c \in jobs
      \/ run[c] = "failed"
      \/ pc[owner[c]] = "hand" /\ c \in ToSet(fresh[owner[c]])

\* Requests that wait for each other's inserts do not wait for ever: each one that
\* was let through ends, and so do those behind one that failed.
EveryRequestEnds == \A q \in Requests : pc[q] \in Open ~> pc[q] \in Ended \cup {"hand"}

=============================================================================
