------------------------------ MODULE Pipeline ------------------------------
(***************************************************************************)
(* The scraping pool and the catalogue in one process: a worker of         *)
(* Scraping that has fetched the page of its job is the worker of Catalog  *)
(* that upserts it, and goes on as the former when the upsert returns      *)
(* (ExecuteScrapingUseCase.Execute).  Both die together, and a worker told *)
(* to stop goes on with calls that all fail.                               *)
(*                                                                         *)
(* An answer is not a value here: which products it shows is found out one *)
(* listing at a time, and that it shows no more when the upsert returns.   *)
(***************************************************************************)
EXTENDS Catalog

CONSTANTS                                                    \* of Scraping
  Sources, MaxJobs, MaxRetries, MaxPages, Tenant, NoSource, Cancels, Editors,
  MaxManual, MaxClock, MaxRestarts, MaxFaults, NoJob

CONSTANTS
  SourceOf,     \* SourceOf[i]: the source whose id is part of the hash of i
  Shown,        \* what an answer may say of a product
  MaxRepeats,   \* how often one answer may show one product
  Moderated     \* bound: the items that requests block, hide or delete

VARIABLES job, src, clock, proc, wk, sched, can, ed,
          manual, restarts, faults                           \* of Scraping

VARIABLES
  answered,  \* the workers whose fetch has answered, and that upsert
  handled,   \* handled[w]: listings of its answer that w has looked up:
             \* <<i, n>> is the n-th that shows item i
  crossed    \* only to state properties: sources two workers upserted at once

Pool == INSTANCE Scraping

poolVars     == <<job, src, clock, proc, wk, sched, can, ed,
                  manual, restarts, faults>>
jointVars    == <<answered, handled, crossed>>
pipelineVars == <<vars, poolVars, jointVars>>

(* The first five lines are what Scraping assumes.                         *)
ASSUME PipelineAssumption ==
  /\ MaxJobs \in Nat /\ MaxRetries \in Nat
  /\ MaxPages \in [Sources -> Nat] /\ NoSource \notin Sources
  /\ IsFiniteSet(Workers) /\ NoJob \notin 1 .. MaxJobs
  /\ MaxManual \in Nat /\ MaxClock \in Nat
  /\ MaxRestarts \in Nat /\ MaxFaults \in Nat
  /\ SourceOf \in [Items -> Sources]
  /\ Shown \subseteq Listing
  /\ MaxRepeats \in Nat \ {0}
  /\ Faulty = Callers

ASSUME ModerationAssumption == Moderated \subseteq Items

PipelineInit ==
  /\ Init /\ Pool!Init
  /\ answered = {} /\ crossed = {}
  /\ handled = [w \in Workers |-> {}]
-----------------------------------------------------------------------------
(***************************************************************************)
(* Execute, from the fetch to the end of the upsert.                       *)
(***************************************************************************)

(* fetchProducts returns products.                                         *)
Answers(w) ==
  LET s == wk[w].row.source
  IN /\ proc = "up"
     /\ wk[w].pc = "fetching" /\ w \notin answered
     /\ answered' = answered \cup {w}
     /\ crossed' = IF \E v \in answered : wk[v].row.source = s
                   THEN crossed \cup {s} ELSE crossed
     /\ UNCHANGED <<handled, vars, poolVars>>

FetchFails(w) ==
  /\ w \notin answered
  /\ Pool!Fetched(w, FALSE)
  /\ UNCHANGED <<vars, jointVars>>

(* execute turns to the next listing of the answer.  Once the context is   *)
(* cancelled FindByContentHash fails, which counts as not found.           *)
Handles(w, i, n) ==
  /\ w \in answered
  /\ SourceOf[i] = wk[w].row.source
  /\ <<i, n>> \notin handled[w]
  /\ \A m \in 1 .. n - 1 : <<i, m>> \in handled[w]
  /\ \E l \in Shown : \/ proc = "up" /\ LookUpKnown(w, i, l)
                      \/ LookUpNew(w, i, l)
  /\ handled' = [handled EXCEPT ![w] = @ \cup {<<i, n>>}]
  /\ UNCHANGED <<answered, crossed, poolVars>>

(* What becomes of a call under a cancelled context: it has no effect.     *)
CallIsRefused(w) ==
  /\ \/ SaveKnownFails(w) \/ RecordPrice(w) \/ SaveNewFails(w)
     \/ AssignType(w) \/ SyncFails(w) \/ MarkSynced(w)
  /\ UNCHANGED <<tables, pim>>

GoesOn(w) ==
  /\ \/ proc = "up" /\ (WorkerStep(w) \/ SyncStep(w))
     \/ proc = "stopping" /\ CallIsRefused(w)
  /\ UNCHANGED <<poolVars, jointVars>>

(* Mutant of UpsertReturns: the job is completed while a product is still  *)
(* being saved.                                                            *)
UpsertInBackground(w) ==
  /\ w \in answered
  /\ Pool!Fetched(w, TRUE)
  /\ answered' = answered \ {w}
  /\ handled' = [handled EXCEPT ![w] = {}]
  /\ UNCHANGED <<crossed, vars>>

(* The answer shows no more products, and the job is completed.            *)
UpsertReturns(w) ==
  /\ w \in answered /\ mem[w].pc = "idle"
  /\ Pool!Fetched(w, TRUE)
  /\ answered' = answered \ {w}
  /\ handled' = [handled EXCEPT ![w] = {}]
  /\ UNCHANGED <<crossed, vars>>

Execute(w) ==
  \/ Answers(w) \/ FetchFails(w) \/ GoesOn(w) \/ UpsertReturns(w)
  \/ \E i \in Items, n \in 1 .. MaxRepeats : Handles(w, i, n)
-----------------------------------------------------------------------------
(* What the pool does besides: claims and bookkeeping, the scheduler, the  *)
(* requests about jobs and sources, and time.                              *)
PoolOnly ==
  /\ \/ \E w \in Workers :
          \/ \E j \in Pool!Jobs : Pool!LockJob(w, j)
          \/ Pool!CommitClaim(w) \/ Pool!AbortClaim(w) \/ Pool!LoseCommit(w)
          \/ Pool!LoadSource(w) \/ Pool!SourceMissing(w)
          \/ Pool!SaveOutcome(w) \/ Pool!TallyResult(w)
     \/ Pool!SchedStep \/ Pool!HandlerStep
     \/ Pool!Tick \/ Pool!BeginShutdown \/ Pool!Restart
  /\ UNCHANGED <<vars, jointVars>>

(* The requests about products.                                            *)
CatalogOnly ==
  /\ proc # "down"
  /\ \/ \E y \in Syncers : SyncStep(y) \/ StartSync(y) \/ RequestStep(y)
     \/ \E i \in Moderated : Moderate(i)
  /\ UNCHANGED <<poolVars, jointVars>>

Dies ==
  /\ Pool!Die /\ Crash
  /\ answered' = {} /\ handled' = [w \in Workers |-> {}]
  /\ UNCHANGED crossed

PipelineNext == \/ \E w \in Workers : Execute(w)
                \/ PoolOnly \/ CatalogOnly \/ Dies

PipelineSpec == PipelineInit /\ [][PipelineNext]_pipelineVars
-----------------------------------------------------------------------------
PipelineTypeOK ==
  /\ TypeOK /\ Pool!TypeOK
  /\ answered \subseteq Workers
  /\ handled \in [Workers -> SUBSET (Items \X (1 .. MaxRepeats))]
  /\ crossed \subseteq Sources \cup {NoSource}

(* A product is stored, changes its price and has a price recorded only as *)
(* often as jobs of its source left the queue and their answers show it:   *)
(* no crash, restart, lost commit, late cancel or retry makes a job upsert *)
(* its page a second time (ClaimPendingJob, Execute).                      *)
Started(s) == Cardinality(Pool!JobsOf(s) \ Pool!JobsWith("pending"))
Present(i) == IF Stored(i) THEN 1 ELSE 0
UpsertedOncePerJob ==
  \A i \in Items :
    /\ Len(replaced[i]) + Present(i) <= MaxRepeats * Started(SourceOf[i])
    /\ Len(history[i]) + Present(i) <= MaxRepeats * Started(SourceOf[i])

(* A price that is recorded is one the row gave up, and is recorded once   *)
(* for it, as long as no two jobs of its source were upserted at the same  *)
(* time, however many other sources the workers are busy with (execute,    *)
(* GenerateContentHash, ClaimPendingJob).                                  *)
RealUnlessCrossed ==
  \A i \in Items, p \in Prices :
    SourceOf[i] \notin crossed => Times(p, history[i]) <= Times(p, replaced[i])
=============================================================================
