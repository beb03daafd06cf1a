--------------------------- MODULE PipelineProofs ---------------------------
(***************************************************************************)
(* Proofs about Pipeline: its steps are steps of the pool and of the       *)
(* catalogue, so what is proved of either holds here too; and two theorems *)
(* that need both, about what the jobs of a source do to its products.     *)
(***************************************************************************)
EXTENDS Pipeline, CatalogProofs

(* The pool once more, with what is proved of it.                          *)
PP == INSTANCE JobProofs

USE PipelineAssumption, CatalogAssumption, ProductTableAssumption
-----------------------------------------------------------------------------
(***************************************************************************)
(* The two instances of Scraping are one.                                  *)
(***************************************************************************)
LEMMA SameInit == Pool!Init => PP!Init
BY DEF Pool!Init, PP!Init, Pool!Jobs, PP!Jobs, Pool!NoRow, PP!NoRow,
       Pool!NewSource, PP!NewSource, Pool!Idle, PP!Idle, Pool!IdleSched,
       PP!IdleSched, Pool!NoCancel, PP!NoCancel, Pool!NoEdit, PP!NoEdit

LEMMA PoolStarts == Pool!Init => PP!PoolInv
<1>1. PP!IsFiniteSet(Workers)
  BY DEF PP!IsFiniteSet, IsFiniteSet
<1>2. NoJob \notin PP!Jobs
  BY DEF PP!Jobs
<1>3. QED
  BY <1>1, <1>2, SameInit, PP!PoolInit

LEMMA SameFetched ==
  ASSUME NEW w \in Workers, NEW b \in BOOLEAN, Pool!Fetched(w, b)
  PROVE  PP!Next
<1>1. PP!Fetched(w, b)
  BY DEF Pool!Fetched, PP!Fetched, Pool!WorkerFrame, PP!WorkerFrame
<1>2. QED
  BY <1>1, Zenon DEF PP!Next, PP!WorkerStep

LEMMA SameDie == Pool!Die => PP!Next
<1>1. Pool!Die => PP!Die
  BY DEF Pool!Die, PP!Die, Pool!Idle, PP!Idle, Pool!IdleSched, PP!IdleSched,
         Pool!NoCancel, PP!NoCancel, Pool!NoEdit, PP!NoEdit, Pool!tables,
         PP!tables, Pool!NoRow, PP!NoRow, Pool!NewSource, PP!NewSource
<1>2. QED
  BY <1>1 DEF PP!Next

LEMMA SamePool == PoolOnly => PP!Next
<1>1. ASSUME NEW w \in Workers, NEW j \in Pool!Jobs, Pool!LockJob(w, j)
      PROVE  PP!Next
  <2>1. PP!LockJob(w, j) /\ j \in PP!Jobs
    BY <1>1 DEF Pool!LockJob, PP!LockJob, Pool!Claimable, PP!Claimable,
       Pool!JobsWith, PP!JobsWith, Pool!Jobs, PP!Jobs, Pool!Locked, PP!Locked,
       Pool!CallWorks, PP!CallWorks, Pool!WorkerFrame, PP!WorkerFrame
  <2>2. QED
    BY <2>1, Zenon DEF PP!Next, PP!WorkerStep
<1>2. ASSUME NEW w \in Workers,
             \/ Pool!CommitClaim(w) \/ Pool!AbortClaim(w) \/ Pool!LoseCommit(w)
             \/ Pool!LoadSource(w) \/ Pool!SourceMissing(w)
             \/ Pool!SaveOutcome(w) \/ Pool!TallyResult(w)
      PROVE  PP!Next
  <2> USE DEF Pool!CallWorks, PP!CallWorks, Pool!CallFails, PP!CallFails,
              Pool!WorkerFrame, PP!WorkerFrame, Pool!Idle, PP!Idle,
              Pool!NoRow, PP!NoRow, Pool!MarkRunning, PP!MarkRunning
  <2>1. Pool!CommitClaim(w) => PP!CommitClaim(w)
    BY DEF Pool!CommitClaim, PP!CommitClaim
  <2>2. Pool!AbortClaim(w) => PP!AbortClaim(w)
    BY DEF Pool!AbortClaim, PP!AbortClaim
  <2>3. Pool!LoseCommit(w) => PP!LoseCommit(w)
    BY DEF Pool!LoseCommit, PP!LoseCommit
  <2>4. Pool!LoadSource(w) => PP!LoadSource(w)
    BY DEF Pool!LoadSource, PP!LoadSource
  <2>5. Pool!SourceMissing(w) => PP!SourceMissing(w)
    BY DEF Pool!SourceMissing, PP!SourceMissing
  <2>6. Pool!SaveOutcome(w) => PP!SaveOutcome(w)
    BY DEF Pool!SaveOutcome, PP!SaveOutcome, Pool!UpdateJob, PP!UpdateJob,
           Pool!Locked, PP!Locked
  <2>7. Pool!TallyResult(w) => PP!TallyResult(w)
    BY DEF Pool!TallyResult, PP!TallyResult, Pool!RecordJobResult,
           PP!RecordJobResult
  <2> HIDE DEF Pool!CallWorks, PP!CallWorks, Pool!CallFails, PP!CallFails,
               Pool!WorkerFrame, PP!WorkerFrame, Pool!Idle, PP!Idle,
               Pool!NoRow, PP!NoRow, Pool!MarkRunning, PP!MarkRunning
  <2>8. QED
    BY <1>2, <2>1, <2>2, <2>3, <2>4, <2>5, <2>6, <2>7, Zenon
       DEF PP!Next, PP!WorkerStep
<1>3. Pool!SchedStep => PP!SchedStep
  BY Zenon DEF Pool!SchedStep, PP!SchedStep, Pool!SchedTick, PP!SchedTick,
     Pool!SchedNext, PP!SchedNext, Pool!SchedCreate, PP!SchedCreate,
     Pool!SchedAdvance, PP!SchedAdvance, Pool!SchedFrame, PP!SchedFrame,
     Pool!CallWorks, PP!CallWorks, Pool!CallFails, PP!CallFails,
     Pool!IdleSched, PP!IdleSched, Pool!DueSources, PP!DueSources,
     Pool!IsDue, PP!IsDue, Pool!Pages, PP!Pages, Pool!SaveJob, PP!SaveJob,
     Pool!IsFresh, PP!IsFresh, Pool!Jobs, PP!Jobs, Pool!NewScrapingJob,
     PP!NewScrapingJob, Pool!UpdateNextRunAt, PP!UpdateNextRunAt,
     Pool!NextRunFromCron, PP!NextRunFromCron
<1>4. Pool!HandlerStep => PP!HandlerStep
  BY Zenon DEF Pool!HandlerStep, PP!HandlerStep, Pool!HandlerFrame,
     PP!HandlerFrame, Pool!Trigger, PP!Trigger, Pool!Delete, PP!Delete,
     Pool!Retry, PP!Retry, Pool!CancelRead, PP!CancelRead, Pool!CancelWrite,
     PP!CancelWrite, Pool!EditRead, PP!EditRead, Pool!EditWrite, PP!EditWrite,
     Pool!CanRetry, PP!CanRetry, Pool!UpdateJob, PP!UpdateJob, Pool!Locked,
     PP!Locked, Pool!NoCancel, PP!NoCancel, Pool!NoEdit, PP!NoEdit,
     Pool!NoRow, PP!NoRow, Pool!NewSource, PP!NewSource, Pool!UpdateSource,
     PP!UpdateSource, Pool!DeleteSource, PP!DeleteSource, Pool!SaveJob,
     PP!SaveJob, Pool!IsFresh, PP!IsFresh, Pool!Jobs, PP!Jobs,
     Pool!NewScrapingJob, PP!NewScrapingJob
<1>5. Pool!Tick \/ Pool!BeginShutdown \/ Pool!Restart =>
        PP!Tick \/ PP!BeginShutdown \/ PP!Restart
  BY DEF Pool!Tick, PP!Tick, Pool!BeginShutdown, PP!BeginShutdown,
         Pool!Restart, PP!Restart, Pool!tables, PP!tables, Pool!requests,
         PP!requests
<1>6. QED
  BY <1>1, <1>2, <1>3, <1>4, <1>5, Zenon DEF PoolOnly, PP!Next

(* Every step is one of the pool ...                                       *)
LEMMA StepOfPool == [PipelineNext]_pipelineVars => [PP!Next]_(PP!vars)
<1>1. ASSUME NEW w \in Workers, Execute(w)  PROVE PP!Next \/ UNCHANGED poolVars
  BY <1>1, SameFetched
     DEF Execute, Answers, FetchFails, GoesOn, UpsertReturns, Handles
<1>2. CatalogOnly => UNCHANGED poolVars
  BY DEF CatalogOnly
<1>3. Dies => PP!Next
  BY SameDie DEF Dies
<1>4. poolVars' = poolVars <=> PP!vars' = PP!vars
  BY DEF poolVars, PP!vars
<1>5. QED
  BY <1>1, <1>2, <1>3, <1>4, SamePool DEF PipelineNext, pipelineVars

(* ... and one of the catalogue.                                           *)
LEMMA StepOfCatalog == [PipelineNext]_pipelineVars => [Next]_vars
<1>1. ASSUME NEW w \in Workers, Execute(w)  PROVE [Next]_vars
  <2>1. CASE Answers(w) \/ FetchFails(w) \/ UpsertReturns(w)
    BY <2>1 DEF Answers, FetchFails, UpsertReturns
  <2>2. ASSUME WorkerStep(w) \/ SyncStep(w)  PROVE Next
    BY <2>2, Zenon DEF Next, Callers
  <2>3. CASE GoesOn(w)
    <3>1. WorkerStep(w) \/ SyncStep(w)
      BY <2>3 DEF GoesOn, CallIsRefused, WorkerStep, SyncStep
    <3>2. QED
      BY <2>2, <3>1
  <2>4. ASSUME NEW i \in Items, NEW n, Handles(w, i, n)  PROVE Next
    <3>1. Scrape(w)
      <4>1. \A l \in Shown : l \in Listing
        OBVIOUS
      <4>2. QED
        BY <2>4, <4>1, Zenon DEF Handles, Scrape
    <3>2. QED
      BY <3>1, Zenon DEF Next
  <2>5. QED
    BY <1>1, <2>1, <2>3, <2>2, <2>4 DEF Execute, GoesOn, CallIsRefused,
       WorkerStep, SyncStep
<1>2. PoolOnly => UNCHANGED vars
  BY DEF PoolOnly
<1>3. CatalogOnly => Next
  BY ModerationAssumption, Zenon DEF CatalogOnly, Next, Callers
<1>4. Dies => Next
  BY DEF Dies, Next
<1>5. QED
  BY <1>1, <1>2, <1>3, <1>4 DEF PipelineNext, pipelineVars
-----------------------------------------------------------------------------
(***************************************************************************)
(* What a worker has of both: a worker that is upserting is, for the pool, *)
(* still fetching, and works on products of the source of its job.         *)
(***************************************************************************)
JointInv ==
  /\ answered \subseteq Workers
  /\ handled \in [Workers -> SUBSET (Items \X (1 .. MaxRepeats))]
  /\ \A w \in Workers :
       /\ w \in answered => wk[w].pc = "fetching"
       /\ w \notin answered => handled[w] = {}
       /\ mem[w].pc # "idle" => /\ w \in answered
                                /\ SourceOf[mem[w].item] = wk[w].row.source

(* Two workers upsert products of one source only once it is crossed.      *)
OneAnswer ==
  \A v, w \in answered :
    wk[v].row.source = wk[w].row.source /\ wk[v].row.source \notin crossed
    => v = w

PartsInv == TypeInv /\ KnownInv /\ PP!PoolInv
PipelineInv == PartsInv /\ JointInv /\ OneAnswer

LEMMA PartsStart == PipelineInit => PartsInv
<1>1. Init => KnownInv
  BY HistoryInit DEF KnownInv, KnownOK
<1>2. QED
  BY <1>1, InitTyped, PoolStarts DEF PipelineInit, PartsInv

LEMMA PoolFacts ==
  /\ PP!PoolInv /\ [PipelineNext]_pipelineVars => PP!PoolInv' /\ PP!JobsStayOut
  /\ PP!PoolInv => PP!FetchedAlone /\ PP!TypeOK
<1>1. PP!IsFiniteSet(Workers)
  BY DEF PP!IsFiniteSet, IsFiniteSet
<1>2. NoJob \notin PP!Jobs
  BY DEF PP!Jobs
<1>3. PP!PoolInv /\ [PP!Next]_(PP!vars) => PP!PoolInv'
  BY <1>1, <1>2, PP!PoolStep
<1>4. PP!PoolInv /\ [PP!Next]_(PP!vars) => PP!JobsStayOut
  BY <1>1, <1>2, PP!OutForGood
<1>5. PP!PoolInv => PP!FetchedAlone
  BY <1>1, <1>2, PP!FetchingIsAlone
<1>6. PP!PoolInv => PP!TypeOK
  BY DEF PP!PoolInv
<1>7. QED
  BY <1>3, <1>4, <1>5, <1>6, StepOfPool

LEMMA PartsStep ==
  ASSUME PartsInv, [PipelineNext]_pipelineVars
  PROVE  PartsInv'
<1>1. TypeInv /\ [Next]_vars => TypeInv'
  BY StepKinds
<1>2. QED
  BY <1>1, KnownStep, PoolFacts, StepOfCatalog DEF PartsInv

(***************************************************************************)
(* What the steps do to the memory of a worker, on either side.            *)
(***************************************************************************)
LEMMA ItemKept ==
  ASSUME TypeInv, NEW w \in Workers, WorkerStep(w)
  PROVE  mem'[w].pc # "idle" => mem'[w].item = mem[w].item
<1>1. /\ w \in Callers /\ mem \in [Callers -> Memory] /\ mem[w] \in Memory
      /\ Idle.pc = "idle"
  BY DEF TypeInv, TypeOK, Callers, Idle
<1>2. ASSUME NEW m \in Memory, m.item = mem[w].item,
             ToSync(w, m) \/ \E pc : mem' = [mem EXCEPT ![w] = [m EXCEPT !.pc = pc]]
      PROVE  mem'[w].pc # "idle" => mem'[w].item = mem[w].item
  <2>1. \A x : mem' = [mem EXCEPT ![w] = x] => mem'[w] = x
    BY <1>1
  <2>2. CASE ToSync(w, m)
    <3> DEFINE x == [m EXCEPT !.pc = "search", !.old = NoPrice]
    <3>1. x.item = mem[w].item
      BY <1>2 DEF Memory
    <3>2. mem' = [mem EXCEPT ![w] = x] \/ mem' = [mem EXCEPT ![w] = Idle]
      BY <2>2 DEF ToSync
    <3> HIDE DEF x
    <3>3. QED
      BY <1>1, <2>1, <3>1, <3>2
  <2>3. ASSUME NEW pc, mem' = [mem EXCEPT ![w] = [m EXCEPT !.pc = pc]]
        PROVE  mem'[w].item = mem[w].item
    <3> DEFINE x == [m EXCEPT !.pc = pc]
    <3>1. x.item = mem[w].item
      BY <1>2 DEF Memory
    <3>2. mem' = [mem EXCEPT ![w] = x]
      BY <2>3
    <3> HIDE DEF x
    <3>3. QED
      BY <2>1, <3>1, <3>2
  <2>4. QED
    BY <1>2, <2>2, <2>3
<1>3. CASE SaveKnown(w)
  <2>1. \/ mem' = [mem EXCEPT ![w] = [mem[w] EXCEPT !.pc = "record"]]
        \/ ToSync(w, mem[w])
    BY <1>3 DEF SaveKnown
  <2>2. QED
    BY <1>1, <1>2, <2>1
<1>4. CASE SaveKnownFails(w) \/ RecordPrice(w)
  BY <1>1, <1>2, <1>4 DEF SaveKnownFails, RecordPrice
<1>5. CASE SaveNew(w)
  <2> DEFINE m == [mem[w] EXCEPT !.ghost = Stored(mem[w].item)]
  <2>1. m \in Memory /\ m.item = mem[w].item
    BY <1>1 DEF Memory, Stored
  <2>2. mem' = [mem EXCEPT ![w] = [m EXCEPT !.pc = "assign"]] \/ ToSync(w, m)
    BY <1>5 DEF SaveNew
  <2> HIDE DEF m
  <2>3. QED
    BY <1>2, <2>1, <2>2
<1>6. CASE SaveNewFails(w)
  BY <1>1, <1>6 DEF SaveNewFails
<1>7. CASE AssignType(w)
  <2> DEFINE m == [mem[w] EXCEPT !.typed = TRUE]
  <2>1. m \in Memory /\ m.item = mem[w].item
    BY <1>1 DEF Memory
  <2>2. ToSync(w, m)
    BY <1>7 DEF AssignType
  <2> HIDE DEF m
  <2>3. QED
    BY <1>2, <2>1, <2>2
<1>8. QED
  BY <1>3, <1>4, <1>5, <1>6, <1>7 DEF WorkerStep

(* A worker takes up a listing.                                            *)
LEMMA HandlesEffect ==
  ASSUME PartsInv, NEW w \in Workers, NEW i \in Items, NEW n,
         Handles(w, i, n)
  PROVE  /\ Scrape(w) /\ UNCHANGED tables
         /\ mem[w].pc = "idle" /\ mem'[w].item = i /\ mem'[w].pc # "record"
         /\ \A v \in Workers \ {w} : mem'[v] = mem[v]
<1>1. PICK l \in Listing : LookUpKnown(w, i, l) \/ LookUpNew(w, i, l)
  BY DEF Handles
<1>2. Scrape(w)
  BY <1>1, Zenon DEF Scrape
<1>3. w \in Callers /\ mem \in [Callers -> Memory]
  BY DEF PartsInv, TypeInv, TypeOK, Callers
<1>4. \E x : x.item = i /\ mem' = [mem EXCEPT ![w] = x]
  <2>1. CASE LookUpKnown(w, i, l)
    <3> DEFINE c == Refreshed(product[i], l)
               o == IF PriceChanged(product[i], l) THEN product[i].price
                                                   ELSE NoPrice
               x == [Idle EXCEPT !.pc = "saveKnown", !.item = i, !.copy = c,
                                 !.old = o]
    <3>1. mem' = [mem EXCEPT ![w] = x]
      BY <2>1 DEF LookUpKnown
    <3> HIDE DEF c, o
    <3>2. x.item = i
      BY DEF Idle
    <3> HIDE DEF x
    <3>3. QED
      BY <3>1, <3>2
  <2>2. CASE LookUpNew(w, i, l)
    <3> DEFINE c == [NoCopy EXCEPT !.price = l.price, !.fields = l.fields,
                                   !.seen = scrapes + 1]
               x == [Idle EXCEPT !.pc = "saveNew", !.item = i, !.copy = c]
    <3>1. mem' = [mem EXCEPT ![w] = x]
      BY <2>2 DEF LookUpNew
    <3> HIDE DEF c
    <3>2. x.item = i
      BY DEF Idle
    <3> HIDE DEF x
    <3>3. QED
      BY <3>1, <3>2
  <2>3. QED
    BY <1>1, <2>1, <2>2
<1>5. mem'[w].item = i
  BY <1>3, <1>4
<1>6. QED
  BY <1>2, <1>5, ScrapeAndHistory DEF PartsInv

(* It goes on with the product it has taken up.                            *)
LEMMA GoesOnEffect ==
  ASSUME PartsInv, NEW w \in Workers, GoesOn(w)
  PROVE  /\ WorkerStep(w) \/ SyncStep(w)
         /\ mem[w].pc # "idle"
         /\ mem'[w].pc # "idle" => mem'[w].item = mem[w].item
         /\ \A v \in Workers \ {w} : mem'[v] = mem[v]
<1>1. WorkerStep(w) \/ SyncStep(w)
  BY DEF GoesOn, CallIsRefused, WorkerStep, SyncStep
<1>2. CASE WorkerStep(w)
  <2>1. mem[w].pc # "idle"
    BY <1>2 DEF WorkerStep, SaveKnown, SaveKnownFails, RecordPrice, SaveNew,
         SaveNewFails, AssignType
  <2>2. QED
    BY <1>2, <2>1, ItemKept, WorkerWrites DEF PartsInv
<1>3. CASE SyncStep(w)
  <2>1. mem[w].pc # "idle"
    BY <1>3 DEF SyncStep, Search, CreateNew, UpdateExisting, SyncFails,
         MarkSynced
  <2>2. QED
    BY <1>3, <2>1, SyncTypes DEF PartsInv, Callers
<1>4. QED
  BY <1>1, <1>2, <1>3

(* The requests about products leave the workers alone.                    *)
LEMMA CatalogOnlyEffect ==
  ASSUME PartsInv, CatalogOnly
  PROVE  Apart /\ \A w \in Workers : mem'[w] = mem[w]
<1>1. TypeInv /\ mem \in [Callers -> Memory]
  BY DEF PartsInv, TypeInv, TypeOK
<1>2. ASSUME NEW y \in Syncers, SyncStep(y)
      PROVE  Apart /\ \A w \in Workers : mem'[w] = mem[w]
  <2>1. y \in Callers /\ Workers \subseteq Callers \ {y}
    BY DEF Callers
  <2>2. QED
    BY <1>1, <1>2, <2>1, SyncIsApart, SyncTypes
<1>3. ASSUME NEW y \in Syncers, StartSync(y) \/ RequestStep(y)
      PROVE  Apart /\ \A w \in Workers : mem'[w] = mem[w]
  <2>1. UNCHANGED mem \/ \E m : ToSync(y, m)
    BY <1>3 DEF StartSync, RequestStep, FetchPage, EndPage, NextProduct
  <2>2. y \notin Workers
    OBVIOUS
  <2>3. ASSUME NEW m, ToSync(y, m)  PROVE \A w \in Workers : mem'[w] = mem[w]
    <3>1. \E x : mem' = [mem EXCEPT ![y] = x]
      BY <2>3 DEF ToSync
    <3>2. QED
      BY <1>1, <2>2, <3>1
  <2>4. QED
    BY <1>1, <1>3, <2>1, <2>3, RequestIsApart
<1>4. ASSUME NEW i \in Items, Moderate(i)
      PROVE  Apart /\ \A w \in Workers : mem'[w] = mem[w]
  BY <1>1, <1>4, OthersAreApart DEF Moderate
<1>5. QED
  BY <1>2, <1>3, <1>4, ModerationAssumption DEF CatalogOnly

(* What the pool does by itself it does to workers that do not fetch.      *)
LEMMA FetchersStay ==
  ASSUME PP!TypeOK, PoolOnly
  PROVE  \A v \in Workers : wk[v].pc = "fetching" => wk'[v] = wk[v]
<1>1. \E W : wk \in [Workers -> W]
  BY DEF PP!TypeOK
<1>2. ASSUME NEW w \in Workers,
             \/ \E j \in Pool!Jobs : Pool!LockJob(w, j)
             \/ Pool!CommitClaim(w) \/ Pool!AbortClaim(w) \/ Pool!LoseCommit(w)
             \/ Pool!LoadSource(w) \/ Pool!SourceMissing(w)
             \/ Pool!SaveOutcome(w) \/ Pool!TallyResult(w)
      PROVE  /\ wk[w].pc # "fetching"
             /\ \A v \in Workers \ {w} : wk'[v] = wk[v]
  BY <1>1, <1>2 DEF Pool!LockJob, Pool!CommitClaim, Pool!AbortClaim,
     Pool!LoseCommit, Pool!LoadSource, Pool!SourceMissing, Pool!SaveOutcome,
     Pool!TallyResult
<1>3. CASE Pool!SchedStep
  BY <1>3 DEF Pool!SchedStep, Pool!SchedTick, Pool!SchedNext,
     Pool!SchedCreate, Pool!SchedAdvance, Pool!SchedFrame
<1>4. CASE Pool!HandlerStep
  BY <1>4 DEF Pool!HandlerStep, Pool!Trigger, Pool!Delete, Pool!Retry,
     Pool!CancelRead, Pool!CancelWrite, Pool!EditRead, Pool!EditWrite,
     Pool!HandlerFrame
<1>5. CASE Pool!Tick \/ Pool!BeginShutdown \/ Pool!Restart
  BY <1>5 DEF Pool!Tick, Pool!BeginShutdown, Pool!Restart
<1>6. QED
  BY <1>2, <1>3, <1>4, <1>5 DEF PoolOnly

(* The end of a fetch, whatever its outcome.                               *)
LEMMA FetchedEffect ==
  ASSUME PP!TypeOK, NEW w \in Workers, NEW b \in BOOLEAN, Pool!Fetched(w, b)
  PROVE  /\ wk'[w].pc = "saving"
         /\ \A v \in Workers \ {w} : wk'[v] = wk[v]
<1> DEFINE st == IF b THEN "completed" ELSE "failed"
           ta == IF b THEN "ok" ELSE "failed"
           x  == [wk[w] EXCEPT !.pc = "saving", !.tally = ta,
                               !.row = [wk[w].row EXCEPT !.status = st]]
<1>1. wk \in [Workers -> PP!WorkerState]
  BY DEF PP!TypeOK
<1>2. wk' = [wk EXCEPT ![w] = x]
  BY <1>1, ZenonT(60) DEF Pool!Fetched, PP!WorkerState
<1> HIDE DEF st, ta
<1>3. x.pc = "saving"
  BY <1>1 DEF PP!WorkerState
<1> HIDE DEF x
<1>4. QED
  BY <1>1, <1>2, <1>3
-----------------------------------------------------------------------------
(***************************************************************************)
(* The invariants of the two together.                                     *)
(***************************************************************************)

(* A worker that is upserting goes on doing so, and forgets no listing it  *)
(* has looked up, until its job is no longer being fetched.                *)
AnswersKept ==
  /\ crossed \subseteq crossed'
  /\ \A w \in answered :
       \/ w \in answered' /\ handled[w] \subseteq handled'[w] /\ wk'[w] = wk[w]
       \/ w \notin answered' /\ wk'[w].pc \notin {"locked", "claimed", "fetching"}

LEMMA JointInit == PipelineInit => JointInv /\ OneAnswer
BY HistoryInit DEF PipelineInit, JointInv, OneAnswer

LEMMA JointStep ==
  ASSUME PipelineInv, [PipelineNext]_pipelineVars
  PROVE  JointInv' /\ OneAnswer' /\ AnswersKept
<1> USE DEF PipelineInv, JointInv, OneAnswer, AnswersKept
<1>1. PartsInv /\ PP!TypeOK
  BY PoolFacts DEF PartsInv
<1>2. ASSUME NEW w \in Workers, Answers(w)
      PROVE  JointInv' /\ OneAnswer' /\ AnswersKept
  BY <1>2 DEF Answers, vars, poolVars
<1>3. ASSUME NEW w \in Workers, FetchFails(w)
      PROVE  JointInv' /\ OneAnswer' /\ AnswersKept
  <2>1. /\ w \notin answered
        /\ \A v \in Workers \ {w} : wk'[v] = wk[v]
        /\ UNCHANGED <<mem, answered, handled, crossed>>
    BY <1>1, <1>3, FetchedEffect DEF FetchFails, vars, jointVars
  <2>2. QED
    BY <2>1
<1>4. ASSUME NEW w \in Workers, NEW i \in Items, NEW n \in 1 .. MaxRepeats,
             Handles(w, i, n)
      PROVE  JointInv' /\ OneAnswer' /\ AnswersKept
  <2>1. /\ w \in answered /\ SourceOf[i] = wk[w].row.source
        /\ handled' = [handled EXCEPT ![w] = @ \cup {<<i, n>>}]
        /\ UNCHANGED <<wk, answered, crossed>>
    BY <1>4 DEF Handles, poolVars
  <2>2. mem'[w].item = i /\ \A v \in Workers \ {w} : mem'[v] = mem[v]
    BY <1>1, <1>4, HandlesEffect
  <2>3. QED
    BY <2>1, <2>2
<1>5. ASSUME NEW w \in Workers, GoesOn(w)
      PROVE  JointInv' /\ OneAnswer' /\ AnswersKept
  <2>1. UNCHANGED <<wk, answered, handled, crossed>>
    BY <1>5 DEF GoesOn, poolVars, jointVars
  <2>2. QED
    BY <1>1, <1>5, <2>1, GoesOnEffect
<1>6. ASSUME NEW w \in Workers, UpsertReturns(w)
      PROVE  JointInv' /\ OneAnswer' /\ AnswersKept
  <2>1. /\ w \in answered /\ mem[w].pc = "idle"
        /\ answered' = answered \ {w}
        /\ handled' = [handled EXCEPT ![w] = {}]
        /\ UNCHANGED <<crossed, mem>>
    BY <1>6 DEF UpsertReturns, vars
  <2>2. wk'[w].pc = "saving" /\ \A v \in Workers \ {w} : wk'[v] = wk[v]
    BY <1>1, <1>6, FetchedEffect DEF UpsertReturns
  <2>3. QED
    BY <2>1, <2>2
<1>7. CASE PoolOnly
  <2>1. UNCHANGED <<mem, answered, handled, crossed>>
    BY <1>7 DEF PoolOnly, vars, jointVars
  <2>2. QED
    BY <1>1, <1>7, <2>1, FetchersStay
<1>8. CASE CatalogOnly
  <2>1. UNCHANGED <<wk, answered, handled, crossed>>
    BY <1>8 DEF CatalogOnly, poolVars, jointVars
  <2>2. QED
    BY <1>1, <1>8, <2>1, CatalogOnlyEffect
<1>9. CASE Dies
  <2>1. \A w \in Workers : mem'[w].pc = "idle" /\ wk'[w].pc = "idle"
    BY <1>9 DEF Dies, Crash, Idle, Callers, Pool!Die, Pool!Idle
  <2>2. QED
    BY <1>9, <2>1 DEF Dies
<1>10. CASE UNCHANGED pipelineVars
  BY <1>10 DEF pipelineVars, vars, poolVars, jointVars
<1>11. QED
  BY <1>2, <1>3, <1>4, <1>5, <1>6, <1>7, <1>8, <1>9, <1>10, Zenon
     DEF PipelineNext, Execute
-----------------------------------------------------------------------------
(***************************************************************************)
(* A listing can change the row of an item once, and can be handled once   *)
(* per job: each one handled is a slot <<j, n>>, the n-th listing of the   *)
(* item in the answer to job j.  A slot is used when it cannot be filled   *)
(* any more: job j left the queue, and no worker may still turn to it.     *)
(***************************************************************************)
Slots(i) ==
  {x \in PP!Jobs \X (1 .. MaxRepeats) :
     /\ PP!LeftQueue(x[1]) /\ job[x[1]].source = SourceOf[i]
     /\ \A w \in Workers :
          PP!Attends(w, x[1]) => w \in answered /\ <<i, x[2]>> \in handled[w]}

(* Workers that may still store or change the row; all the Busy ones may   *)
(* also record a price of it.                                              *)
Saving(i) == {w \in Busy(i) : mem[w].pc \in {"saveKnown", "saveNew"}}

RowChanges(i) == Len(replaced[i]) + Present(i)
Entries(i)    == Len(history[i]) + Present(i)

SlotInv ==
  \A i \in Items : /\ RowChanges(i) + Cardinality(Saving(i)) <= Cardinality(Slots(i))
                   /\ Entries(i) + Cardinality(Busy(i)) <= Cardinality(Slots(i))

LEMMA SlotsAreFinite ==
  ASSUME NEW i
  PROVE  /\ IsFiniteSet(Workers) /\ IsFiniteSet(PP!Jobs \X (1 .. MaxRepeats))
         /\ IsFiniteSet(Slots(i)) /\ IsFiniteSet(Slots(i)')
         /\ IsFiniteSet(Saving(i)) /\ IsFiniteSet(Busy(i))
<1>1. IsFiniteSet(Workers)
  OBVIOUS
<1>2. IsFiniteSet(PP!Jobs) /\ IsFiniteSet(1 .. MaxRepeats)
  BY FS_Interval DEF PP!Jobs
<1>3. IsFiniteSet(PP!Jobs \X (1 .. MaxRepeats))
  BY <1>2, FS_Product
<1>4. /\ Slots(i) \subseteq PP!Jobs \X (1 .. MaxRepeats)
      /\ Slots(i)' \subseteq PP!Jobs \X (1 .. MaxRepeats)
      /\ Saving(i) \subseteq Workers /\ Busy(i) \subseteq Workers
  BY DEF Slots, Saving, Busy
<1>5. QED
  BY <1>1, <1>3, <1>4, FS_Subset

(* A count c of what happened, the set B of the workers that may still add *)
(* to it, and the set S of the slots: the count goes up by a worker's loss. *)
LEMMA OneForEachSlot ==
  ASSUME NEW c \in Nat, NEW d \in Nat, NEW B, NEW C, NEW S, NEW T,
         IsFiniteSet(B), IsFiniteSet(T), S \subseteq T,
         c + Cardinality(B) <= Cardinality(S),
         \/ d = c /\ C \subseteq B
         \/ d <= c + 1 /\ \E w \in B : C \subseteq B \ {w}
  PROVE  d + Cardinality(C) <= Cardinality(T)
<1>1. IsFiniteSet(S) /\ Cardinality(S) <= Cardinality(T)
  BY FS_Subset
<1>2. /\ Cardinality(B) \in Nat /\ Cardinality(S) \in Nat
      /\ Cardinality(T) \in Nat
  BY <1>1, FS_CardinalityType
<1>3. CASE d = c /\ C \subseteq B
  <2>1. Cardinality(C) <= Cardinality(B) /\ Cardinality(C) \in Nat
    BY <1>3, FS_Subset, FS_CardinalityType
  <2>2. QED
    BY <1>1, <1>2, <1>3, <2>1
<1>4. ASSUME d <= c + 1, NEW w \in B, C \subseteq B \ {w}
      PROVE  d + Cardinality(C) <= Cardinality(T)
  <2>1. IsFiniteSet(B \ {w}) /\ Cardinality(B \ {w}) = Cardinality(B) - 1
    BY FS_RemoveElement
  <2>2. Cardinality(C) <= Cardinality(B) - 1 /\ Cardinality(C) \in Nat
    BY <1>4, <2>1, FS_Subset, FS_CardinalityType
  <2>3. QED
    BY <1>1, <1>2, <1>4, <2>2
<1>5. QED
  BY <1>3, <1>4

(* A slot more leaves room for one more worker.                            *)
LEMMA OneMoreSlot ==
  ASSUME NEW c \in Nat, NEW B, NEW C, NEW S, NEW T, NEW w, NEW x \in T,
         IsFiniteSet(B), IsFiniteSet(T), S \subseteq T, x \notin S,
         c + Cardinality(B) <= Cardinality(S), C \subseteq B \cup {w}
  PROVE  c + Cardinality(C) <= Cardinality(T)
<1>1. /\ Cardinality(B) \in Nat /\ Cardinality(S) \in Nat
      /\ Cardinality(T) \in Nat
  BY FS_Subset, FS_CardinalityType
<1>2. /\ IsFiniteSet(B \cup {w})
      /\ Cardinality(B \cup {w}) <= Cardinality(B) + 1
  <2>1. /\ IsFiniteSet(B \cup {w})
        /\ Cardinality(B \cup {w}) = IF w \in B THEN Cardinality(B)
                                                ELSE Cardinality(B) + 1
    BY FS_AddElement, Zenon
  <2>2. QED
    BY <1>1, <2>1
<1>3. Cardinality(C) <= Cardinality(B) + 1 /\ Cardinality(C) \in Nat
  <2>1. /\ Cardinality(C) <= Cardinality(B \cup {w})
        /\ IsFiniteSet(C)
    BY <1>2, FS_Subset
  <2>2. Cardinality(C) \in Nat /\ Cardinality(B \cup {w}) \in Nat
    BY <1>2, <2>1, FS_CardinalityType
  <2>3. QED
    BY <1>1, <1>2, <2>1, <2>2
<1>4. Cardinality(S) + 1 <= Cardinality(T)
  <2>1. S \subseteq T \ {x}
    OBVIOUS
  <2>2. IsFiniteSet(T \ {x}) /\ Cardinality(T \ {x}) = Cardinality(T) - 1
    BY FS_RemoveElement
  <2>3. Cardinality(S) <= Cardinality(T) - 1
    BY <2>1, <2>2, FS_Subset
  <2>4. QED
    BY <1>1, <2>3
<1>5. QED
  BY <1>1, <1>3, <1>4

LEMMA CountsTyped ==
  ASSUME TypeInv, NEW i \in Items
  PROVE  RowChanges(i) \in Nat /\ Entries(i) \in Nat
<1>1. /\ history[i] \in Seq(Prices) /\ replaced[i] \in Seq(Prices)
      /\ Present(i) \in Nat
  BY DEF TypeInv, TypeOK, Present
<1>2. Len(history[i]) \in Nat /\ Len(replaced[i]) \in Nat
  BY <1>1
<1>3. QED
  BY <1>1, <1>2 DEF RowChanges, Entries

(* A slot that is used stays so.                                           *)
LEMMA SlotsStay ==
  ASSUME PipelineInv, [PipelineNext]_pipelineVars, NEW i
  PROVE  Slots(i) \subseteq Slots(i)'
<1>1. PP!JobsStayOut /\ AnswersKept
  BY PoolFacts, JointStep DEF PipelineInv, PartsInv
<1> SUFFICES ASSUME NEW x \in Slots(i)  PROVE x \in Slots(i)'
  OBVIOUS
<1>2. /\ x \in PP!Jobs \X (1 .. MaxRepeats) /\ x[1] \in PP!Jobs
      /\ PP!LeftQueue(x[1])' /\ job'[x[1]].source = SourceOf[i]
      /\ \A w \in Workers : PP!Attends(w, x[1])' => PP!Attends(w, x[1])
  BY <1>1 DEF Slots, PP!JobsStayOut
<1>3. ASSUME NEW w \in Workers, PP!Attends(w, x[1])'
      PROVE  w \in answered' /\ <<i, x[2]>> \in handled'[w]
  <2>1. w \in answered /\ <<i, x[2]>> \in handled[w]
    BY <1>2, <1>3 DEF Slots
  <2>2. wk'[w].pc \in {"locked", "claimed", "fetching"}
    BY <1>3 DEF PP!Attends
  <2>3. QED
    BY <1>1, <2>1, <2>2 DEF AnswersKept
<1>4. QED
  BY <1>2, <1>3 DEF Slots, PP!Jobs

(* A worker that takes up a listing uses a slot.                           *)
LEMMA HandlesFills ==
  ASSUME PipelineInv, NEW w \in Workers, NEW i \in Items,
         NEW n \in 1 .. MaxRepeats, Handles(w, i, n)
  PROVE  \E x \in Slots(i)' : x \notin Slots(i)
<1> DEFINE j == wk[w].job
           x == <<j, n>>
<1>1. /\ w \in answered /\ wk[w].pc = "fetching"
      /\ SourceOf[i] = wk[w].row.source /\ <<i, n>> \notin handled[w]
      /\ handled' = [handled EXCEPT ![w] = @ \cup {<<i, n>>}]
      /\ UNCHANGED <<job, wk, answered>>
  BY DEF Handles, poolVars, PipelineInv, JointInv
<1>2. /\ j \in PP!Jobs /\ PP!LeftQueue(j) /\ job[j].source = SourceOf[i]
      /\ \A v \in Workers : PP!Attends(v, j) => v = w
  BY <1>1, PoolFacts DEF PipelineInv, PartsInv, PP!FetchedAlone
<1>3. PP!Attends(w, j)
  BY <1>1 DEF PP!Attends
<1>4. x \notin Slots(i)
  BY <1>1, <1>3 DEF Slots
<1>5. /\ PP!LeftQueue(j)'
      /\ \A v \in Workers : PP!Attends(v, j)' => v = w
  BY <1>1, <1>2 DEF PP!LeftQueue, PP!Attends
<1>6. <<i, n>> \in handled'[w]
  BY <1>1 DEF PipelineInv, JointInv
<1>7. x \in Slots(i)'
  BY <1>1, <1>2, <1>5, <1>6 DEF Slots, PP!Jobs
<1>8. QED
  BY <1>4, <1>7

(***************************************************************************)
(* What a step does to the counts of an item.  Either it leaves a count    *)
(* alone, or a worker that could still add to it does so.                  *)
(***************************************************************************)
RowSame(i)    == RowChanges(i)' = RowChanges(i) /\ Saving(i)' \subseteq Saving(i)
RowAdded(i)   == /\ RowChanges(i)' <= RowChanges(i) + 1
                 /\ \E w \in Saving(i) : Saving(i)' \subseteq Saving(i) \ {w}
EntrySame(i)  == Entries(i)' = Entries(i) /\ Busy(i)' \subseteq Busy(i)
EntryAdded(i) == /\ Entries(i)' <= Entries(i) + 1
                 /\ \E w \in Busy(i) : Busy(i)' \subseteq Busy(i) \ {w}
Accounted(i)  == /\ RowSame(i) \/ RowAdded(i)
                 /\ EntrySame(i) \/ EntryAdded(i)

LEMMA ApartIsAccounted ==
  ASSUME Apart, NEW i \in Items
  PROVE  RowSame(i) /\ EntrySame(i)
<1>1. Present(i)' = Present(i)
  BY DEF Apart, KeepsRow, Present, Stored
<1>2. RowChanges(i)' = RowChanges(i) /\ Entries(i)' = Entries(i)
  BY <1>1 DEF Apart, RowChanges, Entries
<1>3. Saving(i)' \subseteq Saving(i) /\ Busy(i)' \subseteq Busy(i)
  BY DEF Apart, Saving, Busy
<1>4. QED
  BY <1>2, <1>3 DEF RowSame, EntrySame

(* An upsert stores the row of an item, or changes its price, or neither.  *)
LEMMA UpsertCounts ==
  ASSUME TypeInv, NEW i \in Items, NEW c \in Product, Upsert(i, c),
         NEW j \in Items
  PROVE  /\ j # i => /\ Present(j)' = Present(j) /\ replaced'[j] = replaced[j]
         /\ Stored(j) => Present(j)' = Present(j)
         /\ ~Stored(j) => replaced'[j] = replaced[j]
         /\ Present(j) \in {0, 1} /\ Present(j)' \in {0, 1}
         /\ Len(replaced'[j]) \in {Len(replaced[j]), Len(replaced[j]) + 1}
<1>1. /\ product \in [Items -> Product \cup {NoProduct}]
      /\ replaced \in [Items -> Seq(Prices)]
  BY DEF TypeInv, TypeOK
<1>2. j # i => product'[j] = product[j] /\ replaced'[j] = replaced[j]
  BY <1>1 DEF Upsert
<1>3. Stored(j) => Present(j)' = Present(j)
  BY UpsertKeepsStored DEF Present, Stored
<1>4. ~Stored(j) => replaced'[j] = replaced[j]
  BY <1>1 DEF Upsert
<1>5. Len(replaced'[j]) \in {Len(replaced[j]), Len(replaced[j]) + 1}
  <2>1. CASE replaced'[j] = replaced[j]
    BY <2>1
  <2>2. CASE replaced'[j] # replaced[j]
    <3>1. /\ j = i /\ Stored(i)
          /\ replaced' = [replaced EXCEPT ![i] = Append(@, product[i].price)]
          /\ product[i].price # NoPrice /\ product[i] \in Product
      BY <1>1, <1>2, <1>4, <2>2 DEF Upsert, Stored
    <3>2. replaced[j] \in Seq(Prices) /\ product[i].price \in Prices
      BY <1>1, <3>1 DEF Product
    <3>3. replaced'[j] = Append(replaced[j], product[i].price)
      BY <1>1, <3>1
    <3>4. QED
      BY <3>2, <3>3
  <2>3. QED
    BY <2>1, <2>2
<1>6. QED
  BY <1>2, <1>3, <1>4, <1>5 DEF Present, Stored

LEMMA WorkerIsAccounted ==
  ASSUME TypeInv, KnownInv, NEW w \in Workers, WorkerStep(w), NEW i \in Items
  PROVE  Accounted(i)
<1> USE DEF Accounted, RowSame, RowAdded, EntrySame, EntryAdded
<1>1. /\ mem'[w].pc \notin {"saveKnown", "saveNew"}
      /\ \A v \in Workers \ {w} : mem'[v] = mem[v]
      /\ WritesNothing(w) \/ WritesRecord(w) \/ WritesRow(w)
  BY WorkerWrites
<1>2. /\ Saving(i)' \subseteq Saving(i) \ {w}
      /\ mem'[w].pc # "record" => Busy(i)' \subseteq Busy(i) \ {w}
  BY <1>1 DEF Saving, Busy
<1>3. /\ mem[w].item \in Items /\ mem[w].copy \in Product
      /\ mem[w].pc = "record" => mem[w].old \in Prices
      /\ history \in [Items -> Seq(Prices)] /\ replaced \in [Items -> Seq(Prices)]
      /\ RowChanges(i) \in Nat /\ Entries(i) \in Nat
  <2>1. mem[w].pc # "idle"
    BY DEF WorkerStep, SaveKnown, SaveKnownFails, RecordPrice, SaveNew,
       SaveNewFails, AssignType
  <2>2. QED
    BY <2>1, CountsTyped DEF TypeInv, TypeOK, MemOK, Memory, Callers
<1>4. CASE WritesNothing(w)
  <2>1. RowChanges(i)' = RowChanges(i) /\ Entries(i)' = Entries(i)
    BY <1>4 DEF WritesNothing, RowChanges, Entries, Present, Stored
  <2>2. QED
    BY <1>2, <1>4, <2>1 DEF WritesNothing
<1>5. CASE WritesRecord(w)
  <2>1. RowChanges(i)' = RowChanges(i) /\ Present(i)' = Present(i)
    BY <1>5 DEF WritesRecord, RowChanges, Present, Stored
  <2>2. CASE mem[w].item = i
    <3>1. Len(history'[i]) = Len(history[i]) + 1
      <4>1. Column(mem[w].old) \in Prices
        BY <1>3, <1>5 DEF WritesRecord, Column
      <4>2. history'[i] = Append(history[i], Column(mem[w].old))
        BY <1>3, <1>5, <2>2 DEF WritesRecord
      <4>3. QED
        BY <1>3, <4>1, <4>2
    <3>2. Entries(i)' <= Entries(i) + 1
      <4>1. Len(history[i]) \in Nat /\ Present(i) \in Nat
        BY <1>3 DEF Present
      <4>2. QED
        BY <2>1, <3>1, <4>1 DEF Entries
    <3>3. w \in Busy(i)
      BY <1>5, <2>2 DEF WritesRecord, Busy
    <3>4. QED
      BY <1>2, <1>5, <2>1, <3>2, <3>3 DEF WritesRecord
  <2>3. CASE mem[w].item # i
    <3>1. Entries(i)' = Entries(i)
      BY <1>3, <1>5, <2>1, <2>3 DEF WritesRecord, Entries
    <3>2. QED
      BY <1>2, <1>5, <2>1, <3>1 DEF WritesRecord
  <2>4. QED
    BY <2>2, <2>3
<1>6. CASE WritesRow(w)
  <2> DEFINE j == mem[w].item
  <2>1. /\ Upsert(j, mem[w].copy) /\ UNCHANGED history
        /\ mem[w].pc \in {"saveKnown", "saveNew"}
        /\ mem'[w].pc = "record" =>
             mem[w].pc = "saveKnown" /\ mem'[w].item = mem[w].item
    BY <1>6 DEF WritesRow
  <2>2. /\ i # j => Present(i)' = Present(i) /\ replaced'[i] = replaced[i]
        /\ Stored(i) => Present(i)' = Present(i)
        /\ ~Stored(i) => replaced'[i] = replaced[i]
        /\ Present(i) \in {0, 1} /\ Present(i)' \in {0, 1}
        /\ Len(replaced'[i]) \in {Len(replaced[i]), Len(replaced[i]) + 1}
    BY <1>3, <2>1, UpsertCounts
  <2>3. /\ Len(replaced[i]) \in Nat /\ Len(history[i]) \in Nat
        /\ Busy(i)' \subseteq Busy(i)
        /\ j = i => w \in Saving(i) /\ w \in Busy(i)
    <3>1. Len(replaced[i]) \in Nat /\ Len(history[i]) \in Nat
      BY <1>3
    <3>2. j = i => w \in Saving(i) /\ w \in Busy(i)
      <4>1. mem[w].pc \in {"saveKnown", "saveNew"}
        BY <2>1
      <4>2. QED
        BY <4>1 DEF Saving, Busy
    <3>3. ASSUME NEW v \in Busy(i)'  PROVE v \in Busy(i)
      <4>1. v = w => w \in Busy(i)
        BY <1>1, <2>1, <3>3 DEF Busy
      <4>2. v # w => v \in Busy(i)
        BY <1>1, <3>3 DEF Busy
      <4>3. QED
        BY <4>1, <4>2
    <3>4. QED
      BY <3>1, <3>2, <3>3
  <2>4. CASE i # j
    BY <1>2, <2>1, <2>2, <2>3, <2>4 DEF RowChanges, Entries
  <2>5. CASE i = j /\ Stored(i)
    BY <1>2, <2>1, <2>2, <2>3, <2>5, SMTT(60) DEF RowChanges, Entries
  <2>6. CASE i = j /\ ~Stored(i)
    <3>1. mem'[w].pc # "record"
      BY <2>1, <2>6 DEF KnownInv, KnownOK
    <3>2. RowChanges(i)' <= RowChanges(i) + 1 /\ Entries(i)' <= Entries(i) + 1
      BY <2>1, <2>2, <2>3, <2>6 DEF RowChanges, Entries
    <3>3. QED
      BY <1>2, <2>3, <2>6, <3>1, <3>2
  <2>7. QED
    BY <2>4, <2>5, <2>6
<1>7. QED
  BY <1>1, <1>4, <1>5, <1>6

LEMMA AccountedFits ==
  ASSUME PipelineInv, [PipelineNext]_pipelineVars, NEW i \in Items,
         Accounted(i),
         RowChanges(i) + Cardinality(Saving(i)) <= Cardinality(Slots(i)),
         Entries(i) + Cardinality(Busy(i)) <= Cardinality(Slots(i))
  PROVE  /\ RowChanges(i)' + Cardinality(Saving(i)') <= Cardinality(Slots(i)')
         /\ Entries(i)' + Cardinality(Busy(i)') <= Cardinality(Slots(i)')
<1>1. /\ RowChanges(i) \in Nat /\ Entries(i) \in Nat
      /\ RowChanges(i)' \in Nat /\ Entries(i)' \in Nat
  <2>1. TypeInv /\ TypeInv'
    BY PartsStep DEF PipelineInv, PartsInv
  <2>2. RowChanges(i) \in Nat /\ Entries(i) \in Nat
    BY <2>1, CountsTyped
  <2>3. /\ history'[i] \in Seq(Prices) /\ replaced'[i] \in Seq(Prices)
        /\ Present(i)' \in Nat
    BY <2>1 DEF TypeInv, TypeOK, Present
  <2>4. Len(history'[i]) \in Nat /\ Len(replaced'[i]) \in Nat
    BY <2>3
  <2>5. QED
    BY <2>2, <2>3, <2>4, SMTT(60) DEF RowChanges, Entries
<1>2. QED
  BY <1>1, SlotsStay, SlotsAreFinite, OneForEachSlot
     DEF Accounted, RowSame, RowAdded, EntrySame, EntryAdded

LEMMA SlotStep ==
  ASSUME PipelineInv, SlotInv, [PipelineNext]_pipelineVars
  PROVE  SlotInv'
<1> SUFFICES ASSUME NEW i \in Items
             PROVE  /\ RowChanges(i)' + Cardinality(Saving(i)') <= Cardinality(Slots(i)')
                    /\ Entries(i)' + Cardinality(Busy(i)') <= Cardinality(Slots(i)')
  BY DEF SlotInv
<1>1. /\ RowChanges(i) + Cardinality(Saving(i)) <= Cardinality(Slots(i))
      /\ Entries(i) + Cardinality(Busy(i)) <= Cardinality(Slots(i))
  BY DEF SlotInv
<1>2. TypeInv /\ KnownInv /\ PartsInv
  BY DEF PipelineInv, PartsInv
<1>3. Apart => Accounted(i)
  BY ApartIsAccounted DEF Accounted
<1>4. UNCHANGED vars => Apart
  BY <1>2, OthersAreApart
<1>5. ASSUME NEW w \in Workers, NEW h \in Items, NEW n \in 1 .. MaxRepeats,
             Handles(w, h, n)
      PROVE  /\ RowChanges(i)' + Cardinality(Saving(i)') <= Cardinality(Slots(i)')
             /\ Entries(i)' + Cardinality(Busy(i)') <= Cardinality(Slots(i)')
  <2>1. /\ UNCHANGED tables /\ mem[w].pc = "idle" /\ mem'[w].pc # "record"
        /\ mem'[w].item = h /\ \A v \in Workers \ {w} : mem'[v] = mem[v]
    BY <1>2, <1>5, HandlesEffect
  <2>2. RowChanges(i)' = RowChanges(i) /\ Entries(i)' = Entries(i)
    BY <2>1 DEF tables, RowChanges, Entries, Present, Stored
  <2>3. CASE h # i
    <3>1. Saving(i)' \subseteq Saving(i) /\ Busy(i)' \subseteq Busy(i)
      BY <2>1, <2>3 DEF Saving, Busy
    <3>2. Accounted(i)
      BY <2>2, <3>1 DEF Accounted, RowSame, EntrySame
    <3>3. QED
      BY <1>1, <3>2, AccountedFits
  <2>4. CASE h = i
    <3>1. /\ Saving(i)' \subseteq Saving(i) \cup {w}
          /\ Busy(i)' \subseteq Busy(i) \cup {w}
      BY <2>1 DEF Saving, Busy
    <3>2. \E x \in Slots(i)' : x \notin Slots(i)
      BY <1>5, <2>4, HandlesFills
    <3>3. RowChanges(i) \in Nat /\ Entries(i) \in Nat
      BY <1>2, CountsTyped
    <3>4. /\ Slots(i) \subseteq Slots(i)' /\ IsFiniteSet(Slots(i)')
          /\ IsFiniteSet(Saving(i)) /\ IsFiniteSet(Busy(i))
      BY SlotsStay, SlotsAreFinite
    <3>5. /\ RowChanges(i)' + Cardinality(Saving(i)') <= Cardinality(Slots(i)')
          /\ Entries(i)' + Cardinality(Busy(i)') <= Cardinality(Slots(i)')
      BY <1>1, <2>2, <3>1, <3>2, <3>3, <3>4, OneMoreSlot
    <3>6. QED
      BY <3>5
  <2>5. QED
    BY <2>3, <2>4
<1>6. ASSUME NEW w \in Workers, GoesOn(w)  PROVE Accounted(i)
  BY <1>2, <1>3, <1>6, GoesOnEffect, SyncIsApart, WorkerIsAccounted DEF Callers
<1>7. ASSUME NEW w \in Workers, Answers(w) \/ FetchFails(w) \/ UpsertReturns(w)
      PROVE  Accounted(i)
  BY <1>3, <1>4, <1>7 DEF Answers, FetchFails, UpsertReturns
<1>8. PoolOnly => Accounted(i)
  BY <1>3, <1>4 DEF PoolOnly
<1>9. CatalogOnly => Accounted(i)
  BY <1>2, <1>3, CatalogOnlyEffect
<1>10. Dies => Accounted(i)
  BY <1>2, <1>3, OthersAreApart DEF Dies
<1>11. UNCHANGED pipelineVars => Accounted(i)
  BY <1>3, <1>4 DEF pipelineVars
<1>12. CASE Accounted(i)
  BY <1>1, <1>12, AccountedFits
<1>13. QED
  BY <1>5, <1>6, <1>7, <1>8, <1>9, <1>10, <1>11, <1>12, Zenon
     DEF PipelineNext, Execute

LEMMA SlotInit == PipelineInit => SlotInv
<1> SUFFICES ASSUME PipelineInit, NEW i \in Items
             PROVE  /\ RowChanges(i) + Cardinality(Saving(i)) <= Cardinality(Slots(i))
                    /\ Entries(i) + Cardinality(Busy(i)) <= Cardinality(Slots(i))
  BY DEF SlotInv
<1>1. Init
  BY DEF PipelineInit
<1>2. RowChanges(i) = 0 /\ Entries(i) = 0
  BY <1>1 DEF Init, TablesInit, RowChanges, Entries, Present, Stored
<1>3. Saving(i) = {} /\ Busy(i) = {}
  BY <1>1, HistoryInit DEF Saving, Busy
<1>4. Cardinality({}) = 0 /\ Cardinality(Slots(i)) \in Nat
  BY SlotsAreFinite, FS_EmptySet, FS_CardinalityType
<1>5. QED
  BY <1>2, <1>3, <1>4

(* The slots of an item are those of the jobs of its source that left the  *)
(* queue.                                                                  *)
LEMMA SlotsAreBounded ==
  ASSUME NEW i \in Items
  PROVE  /\ Cardinality(Slots(i)) <= MaxRepeats * Started(SourceOf[i])
         /\ MaxRepeats * Started(SourceOf[i]) \in Nat
<1> DEFINE J == Pool!JobsOf(SourceOf[i]) \ Pool!JobsWith("pending")
<1>1. Slots(i) \subseteq J \X (1 .. MaxRepeats)
  BY DEF Slots, PP!Jobs, Pool!Jobs, PP!LeftQueue, Pool!JobsOf, Pool!JobsWith
<1>2. /\ IsFiniteSet(J) /\ IsFiniteSet(1 .. MaxRepeats)
      /\ Cardinality(1 .. MaxRepeats) = MaxRepeats
  <2>1. IsFiniteSet(Pool!Jobs) /\ J \subseteq Pool!Jobs
    BY FS_Interval DEF Pool!Jobs, Pool!JobsOf
  <2>2. IsFiniteSet(J)
    BY <2>1, FS_Subset
  <2>3. QED
    BY <2>2, FS_Interval, SMTT(60)
<1> HIDE DEF J
<1>3. /\ IsFiniteSet(J \X (1 .. MaxRepeats))
      /\ Cardinality(J \X (1 .. MaxRepeats)) = Cardinality(J) * MaxRepeats
  BY <1>2, FS_Product
<1>4. /\ Cardinality(Slots(i)) <= Cardinality(J) * MaxRepeats
      /\ Cardinality(J) \in Nat
  BY <1>1, <1>2, <1>3, FS_Subset, FS_CardinalityType
<1>5. Cardinality(J) = Started(SourceOf[i])
  BY DEF J, Started
<1>6. Cardinality(J) * MaxRepeats = MaxRepeats * Cardinality(J)
      /\ MaxRepeats * Cardinality(J) \in Nat
  BY <1>4
<1>7. QED
  BY <1>4, <1>5, <1>6

LEMMA SlotsCount ==
  ASSUME PipelineInv, SlotInv
  PROVE  UpsertedOncePerJob
<1> SUFFICES ASSUME NEW i \in Items
             PROVE  /\ RowChanges(i) <= MaxRepeats * Started(SourceOf[i])
                    /\ Entries(i) <= MaxRepeats * Started(SourceOf[i])
  BY DEF UpsertedOncePerJob, RowChanges, Entries
<1> DEFINE n == MaxRepeats * Started(SourceOf[i])
<1>1. RowChanges(i) \in Nat /\ Entries(i) \in Nat
  BY CountsTyped DEF PipelineInv, PartsInv
<1>2. /\ Cardinality(Saving(i)) \in Nat /\ Cardinality(Busy(i)) \in Nat
      /\ Cardinality(Slots(i)) \in Nat
  BY SlotsAreFinite, FS_CardinalityType
<1>3. Cardinality(Slots(i)) <= n /\ n \in Nat
  BY SlotsAreBounded
<1> HIDE DEF n
<1>4. RowChanges(i) <= n /\ Entries(i) <= n
  BY <1>1, <1>2, <1>3 DEF SlotInv
<1>5. QED
  BY <1>4 DEF n

LEMMA PipelineInvHolds == PipelineSpec => []PipelineInv
<1>1. PipelineInit => PipelineInv
  BY PartsStart, JointInit DEF PipelineInv
<1>2. PipelineInv /\ [PipelineNext]_pipelineVars => PipelineInv'
  BY PartsStep, JointStep DEF PipelineInv
<1>3. QED
  BY <1>1, <1>2, PTL DEF PipelineSpec

(* However often the process ends and starts again, whichever calls fail   *)
(* and whichever jobs are retried or cancelled late, the row of a product  *)
(* is stored, changed and given a price record at most once for each time  *)
(* that the page of a job that left the queue shows it.                    *)
THEOREM JobsUpsertOnce == PipelineSpec => []UpsertedOncePerJob
<1>1. PipelineInit => SlotInv
  BY SlotInit
<1>2. PipelineInv /\ SlotInv /\ [PipelineNext]_pipelineVars => SlotInv'
  BY SlotStep
<1>3. PipelineInv /\ SlotInv => UpsertedOncePerJob
  BY SlotsCount
<1>4. QED
  BY PipelineInvHolds, <1>1, <1>2, <1>3, PTL DEF PipelineSpec
-----------------------------------------------------------------------------
(***************************************************************************)
(* A source that is not crossed has at most one worker on its products, so *)
(* each price given up is recorded at most once.                           *)
(***************************************************************************)
UncrossedInv ==
  \A i \in Items, p \in Prices :
    SourceOf[i] \notin crossed => BoundInv(1, i, p)

LEMMA UncrossedCrowd ==
  ASSUME JointInv', OneAnswer', NEW i \in Items, SourceOf[i] \notin crossed'
  PROVE  Cardinality(Crowd(i)') <= 1
<1>1. \A v, w \in Crowd(i)' : v = w
  BY DEF Crowd, JointInv, OneAnswer
<1>2. CASE Crowd(i)' = {}
  BY <1>2, FS_EmptySet
<1>3. ASSUME NEW w \in Crowd(i)'  PROVE Cardinality(Crowd(i)') <= 1
  <2>1. \A v : v \in Crowd(i)' <=> v \in {w}
    BY <1>1, <1>3
  <2>2. Crowd(i)' = {w}
    BY <2>1, Zenon
  <2>3. Cardinality({w}) = 1
    BY FS_Singleton
  <2>4. QED
    BY <2>2, <2>3
<1>4. QED
  BY <1>2, <1>3

LEMMA UncrossedStep ==
  ASSUME InCents, PipelineInv, UncrossedInv, [PipelineNext]_pipelineVars
  PROVE  UncrossedInv'
<1> SUFFICES ASSUME NEW i \in Items, NEW p \in Prices,
                    SourceOf[i] \notin crossed'
             PROVE  BoundInv(1, i, p)'
  BY DEF UncrossedInv
<1>1. JointInv' /\ OneAnswer' /\ AnswersKept
  BY JointStep
<1>2. BoundInv(1, i, p)
  BY <1>1 DEF UncrossedInv, AnswersKept
<1>3. Cardinality(Crowd(i)') <= 1
  BY <1>1, UncrossedCrowd
<1>4. TypeInv /\ KnownInv /\ [Next]_vars
  BY StepOfCatalog DEF PipelineInv, PartsInv
<1>5. QED
  BY <1>2, <1>3, <1>4, BoundStep

(* Whatever else the workers do at the same time, and whatever ends or     *)
(* restarts the process, a price is recorded at most once for each time    *)
(* the row gave it up, unless two workers upserted products of that source *)
(* at the same time; for prices in cents.                                  *)
THEOREM RealUnlessTwoUpsert ==
  ASSUME InCents
  PROVE  PipelineSpec => []RealUnlessCrossed
<1>1. PipelineInit => UncrossedInv
  BY BoundInit DEF PipelineInit, UncrossedInv
<1>2. PipelineInv /\ UncrossedInv /\ [PipelineNext]_pipelineVars
        => UncrossedInv'
  BY UncrossedStep
<1>3. PipelineInv /\ UncrossedInv => RealUnlessCrossed
  <2> SUFFICES ASSUME PipelineInv, UncrossedInv,
                      NEW i \in Items, NEW p \in Prices,
                      SourceOf[i] \notin crossed
               PROVE  Times(p, history[i]) <= Times(p, replaced[i])
    BY DEF RealUnlessCrossed
  <2>1. Times(p, history[i]) <= 1 * Times(p, replaced[i])
    BY BoundHolds DEF PipelineInv, PartsInv, UncrossedInv
  <2>2. Times(p, replaced[i]) \in Nat
    BY TimesOfAppend DEF PipelineInv, PartsInv, TypeInv, TypeOK
  <2>3. QED
    BY <2>1, <2>2
<1>4. QED
  BY PipelineInvHolds, <1>1, <1>2, <1>3, PTL DEF PipelineSpec
-----------------------------------------------------------------------------
(* Types of both parts, and of what joins them.                            *)
CrossedOK == crossed \subseteq Sources \cup {NoSource}

LEMMA CrossedTyped ==
  ASSUME PipelineInv, CrossedOK, [PipelineNext]_pipelineVars
  PROVE  CrossedOK'
<1> USE DEF CrossedOK
<1>1. ASSUME NEW w \in Workers, Answers(w)  PROVE CrossedOK'
  <2>1. wk[w].row.source \in Sources \cup {NoSource}
    BY PoolFacts DEF PipelineInv, PartsInv, PP!TypeOK, PP!WorkerState,
       PP!JobRow
  <2>2. QED
    BY <1>1, <2>1 DEF Answers
<1>2. ASSUME NEW w \in Workers, ~Answers(w), Execute(w)  PROVE UNCHANGED crossed
  BY <1>2 DEF Execute, FetchFails, Handles, GoesOn, UpsertReturns, jointVars
<1>3. PoolOnly \/ CatalogOnly \/ Dies \/ UNCHANGED pipelineVars
        => UNCHANGED crossed
  BY DEF PoolOnly, CatalogOnly, Dies, pipelineVars, jointVars
<1>4. QED
  BY <1>1, <1>2, <1>3 DEF PipelineNext

(* The types of the pool and of the catalogue hold of the two together.    *)
THEOREM PipelineTyped == PipelineSpec => []PipelineTypeOK
<1>1. PipelineInit => CrossedOK
  BY DEF PipelineInit, CrossedOK
<1>2. PP!TypeOK => Pool!TypeOK
  BY DEF PP!TypeOK, Pool!TypeOK, PP!Jobs, Pool!Jobs, PP!JobRow, Pool!JobRow,
     PP!Statuses, Pool!Statuses, PP!SourceRow, Pool!SourceRow,
     PP!WorkerState, Pool!WorkerState, PP!SchedState, Pool!SchedState,
     PP!CancelState, Pool!CancelState, PP!EditState, Pool!EditState
<1>3. PipelineInv /\ CrossedOK => PipelineTypeOK
  BY <1>2, PoolFacts
     DEF PipelineInv, PartsInv, TypeInv, JointInv, PipelineTypeOK, CrossedOK
<1>4. PipelineInv /\ CrossedOK /\ [PipelineNext]_pipelineVars => CrossedOK'
  BY CrossedTyped
<1>5. QED
  BY PipelineInvHolds, <1>1, <1>3, <1>4, PTL DEF PipelineSpec

(* The two together implement each of them, so that whatever is proved of  *)
(* the pool or of the catalogue alone holds of the process that runs both. *)
THEOREM PipelineImplementsBoth == PipelineSpec => Pool!Spec /\ Spec
<1>1. PipelineInit => Pool!Init /\ Init
  BY DEF PipelineInit
<1>2. [PipelineNext]_pipelineVars => [Pool!Next]_(Pool!vars)
  <2>1. ASSUME NEW w \in Workers, Execute(w)
        PROVE  Pool!Next \/ UNCHANGED poolVars
    <3>1. ASSUME NEW b \in BOOLEAN, Pool!Fetched(w, b)  PROVE Pool!Next
      BY <3>1, Zenon DEF Pool!Next, Pool!WorkerStep
    <3>2. QED
      BY <2>1, <3>1
         DEF Execute, Answers, FetchFails, GoesOn, UpsertReturns, Handles
  <2>2. PoolOnly => Pool!Next
    BY Zenon DEF PoolOnly, Pool!Next, Pool!WorkerStep
  <2>3. Dies => Pool!Next
    BY DEF Dies, Pool!Next
  <2>4. CatalogOnly => UNCHANGED poolVars
    BY DEF CatalogOnly
  <2>5. UNCHANGED poolVars <=> UNCHANGED Pool!vars
    BY DEF poolVars, Pool!vars
  <2>6. QED
    BY <2>1, <2>2, <2>3, <2>4, <2>5 DEF PipelineNext, pipelineVars
<1>3. QED
  BY <1>1, <1>2, StepOfCatalog, PTL DEF PipelineSpec, Spec, Pool!Spec

(* For one: no crash between the steps of an upsert, and no job claimed    *)
(* again, gets PIM more products than workers and requests at the same     *)
(* time (the property DuplicatesBounded of Catalog's runs).                *)
THEOREM PipelineBoundsDuplicates == PipelineSpec => []DuplicatesBounded
BY PipelineImplementsBoth, DuplicatesAreBounded, PTL

(* And in the process as a whole a price history leaves nothing out and    *)
(* puts nothing in, but for items that two workers were busy with at once  *)
(* and calls that went wrong (the property HistoryIsExact of the run).     *)
THEOREM PipelineKeepsHistory ==
  ASSUME InCents
  PROVE  PipelineSpec => []HistoryIsExact
BY PipelineImplementsBoth, HistoryStaysExact, PTL
=============================================================================
