--------------------------- MODULE ScrapingProofs ---------------------------
(***************************************************************************)
(* Proofs about Scraping, for every number of workers, requests, sources,  *)
(* jobs, restarts and failed calls: its types are right, no two workers    *)
(* hold one job, started_at agrees with the status of the row, and it      *)
(* implements the abstract queue of JobLifecycle.                          *)
(***************************************************************************)
EXTENDS Scraping, TLAPS

USE JobTableAssumption, ScrapingAssumption

(* The frames leave alone everything but what their processes may change.  *)
LEMMA TypesOfData ==
  /\ NoRow \in JobRow
  /\ \A b \in BOOLEAN : NewSource(b) \in SourceRow
  /\ Idle \in WorkerState
  /\ IdleSched \in SchedState
  /\ NoCancel \in CancelState
  /\ NoEdit \in EditState
BY DEF NoRow, JobRow, Statuses, NewSource, SourceRow, Idle, WorkerState,
       IdleSched, SchedState, NoCancel, CancelState, NoEdit, EditState

(* What the processes do to a row keeps it a row.                          *)
LEMMA RowUpdate ==
  ASSUME NEW r \in JobRow, NEW st \in Statuses, NEW b \in BOOLEAN
  PROVE  /\ [r EXCEPT !.status = st] \in JobRow
         /\ [r EXCEPT !.status = st, !.started = b] \in JobRow
BY DEF JobRow

LEMMA NewRow ==
  ASSUME NEW s \in Sources, NEW t \in {"scheduled", "manual"},
         NEW p \in Nat, NEW r \in Nat
  PROVE  NewScrapingJob(s, t, p, r) \in JobRow
BY DEF NewScrapingJob, JobRow, Statuses

LEMMA SavedRow ==
  ASSUME job \in [Jobs -> JobRow], NEW r \in JobRow, SaveJob(r)
  PROVE  job' \in [Jobs -> JobRow]
BY DEF SaveJob

LEMMA TypeInit == Init => TypeOK
<1> SUFFICES ASSUME Init  PROVE TypeOK
  OBVIOUS
<1>1. {NewSource(TRUE), NewSource(FALSE)} \subseteq SourceRow
  BY TypesOfData
<1>2. src \in [Sources -> SourceRow]
  BY <1>1 DEF Init
<1>3. QED
  BY <1>2, TypesOfData DEF Init, TypeOK

LEMMA TypeWorker ==
  ASSUME TypeOK, NEW w \in Workers, WorkerStep(w)
  PROVE  TypeOK'
<1> USE DEF WorkerFrame, CallWorks, CallFails
<1>1. ASSUME NEW j \in Jobs, LockJob(w, j)  PROVE TypeOK'
  BY <1>1, TypesOfData DEF LockJob, TypeOK, WorkerState, Idle
<1>m. ASSUME MarkRunning(wk[w].job)  PROVE job' \in [Jobs -> JobRow]
  <2>1. job' = [job EXCEPT ![wk[w].job] =
                  [job[wk[w].job] EXCEPT !.status = "running",
                                         !.started = TRUE]]
    BY <1>m DEF MarkRunning, TypeOK
  <2>2. ASSUME NEW j \in Jobs
        PROVE  [job[j] EXCEPT !.status = "running", !.started = TRUE] \in JobRow
    BY RowUpdate DEF TypeOK, Statuses
  <2>3. QED
    BY <2>1, <2>2 DEF TypeOK
<1>2. CASE CommitClaim(w)
  <2>1. job' \in [Jobs -> JobRow]
    BY <1>2, <1>m DEF CommitClaim
  <2>2. wk' = [wk EXCEPT ![w] = [wk[w] EXCEPT !.pc = "claimed",
                 !.row = [wk[w].row EXCEPT !.status = "running",
                                           !.started = TRUE]]]
    BY <1>2 DEF CommitClaim, TypeOK, WorkerState
  <2>3. [wk[w].row EXCEPT !.status = "running", !.started = TRUE] \in JobRow
    BY RowUpdate DEF TypeOK, WorkerState, Statuses
  <2>4. wk' \in [Workers -> WorkerState]
    BY <2>2, <2>3, ZenonT(60) DEF TypeOK, WorkerState
  <2>5. QED
    BY <1>2, <2>1, <2>4 DEF CommitClaim, TypeOK
<1>3. CASE AbortClaim(w)
  BY <1>3, TypesOfData DEF AbortClaim, TypeOK
<1>4. CASE LoadSource(w)
  BY <1>4 DEF LoadSource, TypeOK, WorkerState
<1>5. CASE SourceMissing(w)
  <2>1. wk' = [wk EXCEPT ![w] = [wk[w] EXCEPT !.pc = "saving",
                 !.row = [wk[w].row EXCEPT !.status = "failed"]]]
    BY <1>5 DEF SourceMissing, TypeOK, WorkerState
  <2>2. [wk[w].row EXCEPT !.status = "failed"] \in JobRow
    BY RowUpdate DEF TypeOK, WorkerState, Statuses
  <2>3. wk' \in [Workers -> WorkerState]
    BY <2>1, <2>2, ZenonT(60) DEF TypeOK, WorkerState
  <2>4. QED
    BY <1>5, <2>3 DEF SourceMissing, TypeOK
<1>6. ASSUME NEW b \in BOOLEAN, Fetched(w, b)  PROVE TypeOK'
  <2> DEFINE st == IF b THEN "completed" ELSE "failed"
             ta == IF b THEN "ok" ELSE "failed"
  <2>1. wk' = [wk EXCEPT ![w] = [wk[w] EXCEPT !.pc = "saving",
                 !.row = [wk[w].row EXCEPT !.status = st], !.tally = ta]]
    BY <1>6 DEF Fetched, TypeOK, WorkerState
  <2>2. st \in Statuses /\ ta \in {"ok", "failed"}
    BY DEF Statuses
  <2> HIDE DEF st, ta
  <2>3. [wk[w].row EXCEPT !.status = st] \in JobRow
    BY <2>2, RowUpdate DEF TypeOK, WorkerState
  <2>4. wk' \in [Workers -> WorkerState]
    BY <2>1, <2>2, <2>3, ZenonT(60) DEF TypeOK, WorkerState
  <2>5. QED
    BY <1>6, <2>4 DEF Fetched, TypeOK
<1>7. CASE SaveOutcome(w)
  BY <1>7, TypesOfData DEF SaveOutcome, UpdateJob, TypeOK, WorkerState
<1>8. CASE TallyResult(w)
  BY <1>8, TypesOfData DEF TallyResult, RecordJobResult, TypeOK, SourceRow
<1>9. CASE LoseCommit(w)
  BY <1>9, <1>m, TypesOfData DEF LoseCommit, TypeOK
<1>10. QED
  BY <1>1, <1>2, <1>3, <1>4, <1>5, <1>6, <1>7, <1>8, <1>9 DEF WorkerStep

LEMMA TypeSched ==
  ASSUME TypeOK, SchedStep
  PROVE  TypeOK'
<1> USE DEF SchedFrame, CallWorks, CallFails
<1>1. CASE SchedTick
  BY <1>1 DEF SchedTick, DueSources, TypeOK, SchedState, IdleSched
<1>2. ASSUME NEW s \in Sources, SchedNext(s)  PROVE TypeOK'
  <2>1. Pages(s) \subseteq Nat
    BY DEF Pages
  <2>2. QED
    BY <1>2, <2>1 DEF SchedNext, TypeOK, SchedState
<1>3. ASSUME NEW p \in sched.left, SchedCreate(p)  PROVE TypeOK'
  <2>1. p \in Nat /\ sched.cur \in Sources \cup {NoSource}
    BY DEF TypeOK, SchedState
  <2>2. NewScrapingJob(sched.cur, "scheduled", p, 0) \in JobRow
    BY <2>1 DEF NewScrapingJob, JobRow, Statuses
  <2>3. job' \in [Jobs -> JobRow]
    BY <1>3, <2>2, SavedRow DEF SchedCreate, TypeOK
  <2>4. sched' \in SchedState
    BY <1>3 DEF SchedCreate, TypeOK, SchedState
  <2>5. QED
    BY <1>3, <2>3, <2>4 DEF SchedCreate, TypeOK
<1>4. CASE SchedAdvance
  BY <1>4 DEF SchedAdvance, UpdateNextRunAt, NextRunFromCron, TypeOK,
              SchedState, SourceRow
<1>5. QED
  BY <1>1, <1>2, <1>3, <1>4 DEF SchedStep

LEMMA TypeHandler ==
  ASSUME TypeOK, HandlerStep
  PROVE  TypeOK'
<1> USE DEF HandlerFrame
<1>1. ASSUME NEW s \in Sources, Trigger(s)  PROVE TypeOK'
  BY <1>1, NewRow, SavedRow DEF Trigger, TypeOK
<1>2. ASSUME NEW s \in Sources, Delete(s)  PROVE TypeOK'
  BY <1>2 DEF Delete, DeleteSource, TypeOK, SourceRow
<1>3. ASSUME NEW j \in Jobs, Retry(j)  PROVE TypeOK'
  BY <1>3 DEF Retry, SaveJob, NewScrapingJob, TypeOK, JobRow, Statuses
<1>4. ASSUME NEW j \in Jobs, NEW c \in Cancels, CancelRead(c, j)  PROVE TypeOK'
  <2>1. [job[j] EXCEPT !.status = "cancelled"] \in JobRow
    BY RowUpdate DEF TypeOK, Statuses
  <2>2. QED
    BY <1>4, <2>1 DEF CancelRead, TypeOK, CancelState
<1>5. ASSUME NEW c \in Cancels, CancelWrite(c)  PROVE TypeOK'
  BY <1>5, TypesOfData DEF CancelWrite, UpdateJob, TypeOK, CancelState
<1>6. ASSUME NEW e \in Editors, NEW s \in Sources, EditRead(e, s)  PROVE TypeOK'
  BY <1>6 DEF EditRead, TypeOK, EditState
<1>7. ASSUME NEW e \in Editors, NEW a \in BOOLEAN, NEW b \in BOOLEAN,
             EditWrite(e, a, b)
      PROVE  TypeOK'
  BY <1>7, TypesOfData, ZenonT(60) DEF EditWrite, UpdateSource, TypeOK, EditState, SourceRow
<1>8. QED
  BY <1>1, <1>2, <1>3, <1>4, <1>5, <1>6, <1>7 DEF HandlerStep

LEMMA TypeStep == TypeOK /\ [Next]_vars => TypeOK'
<1> SUFFICES ASSUME TypeOK, [Next]_vars  PROVE TypeOK'
  OBVIOUS
<1>1. CASE Tick
  BY <1>1 DEF Tick, TypeOK, requests
<1>2. CASE BeginShutdown
  BY <1>2 DEF BeginShutdown, TypeOK, tables, requests
<1>3. CASE Die
  BY <1>3, TypesOfData DEF Die, TypeOK, tables
<1>4. CASE Restart
  BY <1>4 DEF Restart, TypeOK, tables, requests
<1>5. CASE UNCHANGED vars
  BY <1>5 DEF TypeOK, vars
<1>6. QED
  BY <1>1, <1>2, <1>3, <1>4, <1>5, TypeWorker, TypeSched, TypeHandler DEF Next

(* Every variable keeps its type, in every behaviour.                      *)
THEOREM TypeCorrect == Spec => []TypeOK
BY TypeInit, TypeStep, PTL DEF Spec
-----------------------------------------------------------------------------
(***************************************************************************)
(* The claim.  OneWorkerPerJob is not inductive by itself: that a worker   *)
(* can only lock a job nobody holds needs every held job to be locked or   *)
(* no longer pending, and that it stays so needs no copy in memory ever to *)
(* write "pending" back.                                                   *)
(***************************************************************************)
WorkerInv ==
  \A w \in Workers :
    /\ wk[w].pc # "idle" => wk[w].job \in Jobs
    /\ wk[w].pc = "locked" => job[wk[w].job].status = "pending"
    /\ wk[w].pc \notin {"idle", "locked"} =>
         job[wk[w].job].status \notin {"none", "pending"} /\ wk[w].row.started
    /\ wk[w].pc = "saving" => wk[w].row.status \in {"completed", "failed"}

CancelInv ==
  \A c \in Cancels : can[c].pc = "writing" =>
    /\ can[c].job \in Jobs
    /\ job[can[c].job].status # "none"
    /\ can[c].row.status = "cancelled" /\ ~can[c].row.started

ClaimInv == WorkerInv /\ CancelInv /\ OneWorkerPerJob /\ StampedIffClaimed

LEMMA ClaimInit == Init => ClaimInv
BY DEF Init, ClaimInv, WorkerInv, CancelInv, OneWorkerPerJob,
       StampedIffClaimed, Idle, NoCancel, NoRow

(* Steps that touch neither the jobs nor those who hold a copy of one.     *)
LEMMA ClaimFrame ==
  ASSUME ClaimInv, UNCHANGED <<job, wk, can>>
  PROVE  ClaimInv'
BY DEF ClaimInv, WorkerInv, CancelInv, OneWorkerPerJob, StampedIffClaimed

(* A new row disturbs nobody: it takes the place of no existing one.       *)
LEMMA ClaimSave ==
  ASSUME TypeOK, ClaimInv, NEW r \in JobRow, SaveJob(r),
         r.status = "pending", ~r.started, UNCHANGED <<wk, can>>
  PROVE  ClaimInv'
<1>1. PICK j \in Jobs : job[j].status = "none" /\ job' = [job EXCEPT ![j] = r]
  BY DEF SaveJob, IsFresh
<1>2. WorkerInv' /\ CancelInv'
  BY <1>1 DEF ClaimInv, WorkerInv, CancelInv, TypeOK
<1>3. OneWorkerPerJob'
  BY DEF ClaimInv, OneWorkerPerJob
<1>4. StampedIffClaimed'
  BY <1>1 DEF ClaimInv, StampedIffClaimed, TypeOK
<1>5. QED
  BY <1>2, <1>3, <1>4 DEF ClaimInv

LEMMA ClaimWorker ==
  ASSUME TypeOK, ClaimInv, NEW w \in Workers, WorkerStep(w)
  PROVE  ClaimInv'
<1> USE DEF WorkerFrame
<1>1. ASSUME NEW j \in Jobs, LockJob(w, j)  PROVE ClaimInv'
  <2>1. /\ job[j].status = "pending"
        /\ j \notin Locked
        /\ wk' = [wk EXCEPT ![w] = [pc |-> "locked", job |-> j,
                                    row |-> job[j], tally |-> "none"]]
        /\ UNCHANGED <<job, can>>
    BY <1>1 DEF LockJob, Claimable, JobsWith
  <2>2. \A v \in Workers : v # w /\ wk[v].pc # "idle" => wk[v].job # j
    BY <2>1 DEF ClaimInv, WorkerInv, Locked
  <2>3. WorkerInv'
    BY <2>1 DEF ClaimInv, WorkerInv, TypeOK
  <2>4. OneWorkerPerJob'
    BY <2>1, <2>2 DEF ClaimInv, OneWorkerPerJob, TypeOK
  <2>5. CancelInv' /\ StampedIffClaimed'
    BY <2>1 DEF ClaimInv, CancelInv, StampedIffClaimed
  <2>6. QED
    BY <2>3, <2>4, <2>5 DEF ClaimInv
<1>2. CASE CommitClaim(w)
  <2> DEFINE j == wk[w].job
  <2>1. /\ wk[w].pc = "locked" /\ j \in Jobs
        /\ job' = [job EXCEPT ![j] = [job[j] EXCEPT !.status = "running",
                                                    !.started = TRUE]]
        /\ wk' = [wk EXCEPT ![w] = [wk[w] EXCEPT !.pc = "claimed",
                     !.row = [wk[w].row EXCEPT !.status = "running",
                                               !.started = TRUE]]]
        /\ UNCHANGED can
    <3>1. /\ wk[w].pc = "locked" /\ UNCHANGED can
          /\ MarkRunning(j)
          /\ wk' = [wk EXCEPT ![w].pc = "claimed", ![w].row.status = "running",
                                                  ![w].row.started = TRUE]
      BY <1>2 DEF CommitClaim, WorkerFrame
    <3>2. j \in Jobs
      BY <3>1 DEF ClaimInv, WorkerInv
    <3>3. job' = [job EXCEPT ![j] = [job[j] EXCEPT !.status = "running",
                                                  !.started = TRUE]]
      BY <3>1, <3>2 DEF MarkRunning, TypeOK
    <3>4. wk' = [wk EXCEPT ![w] = [wk[w] EXCEPT !.pc = "claimed",
                     !.row = [wk[w].row EXCEPT !.status = "running",
                                               !.started = TRUE]]]
      BY <3>1 DEF TypeOK, WorkerState
    <3>5. QED
      BY <3>1, <3>2, <3>3, <3>4
  <2>2. \A v \in Workers : v # w /\ wk[v].pc # "idle" => wk[v].job # j
    BY <2>1 DEF ClaimInv, OneWorkerPerJob
  <2>3. /\ job'[j].status = "running" /\ job'[j].started
        /\ \A k \in Jobs : k # j => job'[k] = job[k]
    BY <2>1 DEF TypeOK, JobRow
  <2>4. /\ wk'[w].pc = "claimed" /\ wk'[w].job = j /\ wk'[w].row.started
        /\ \A v \in Workers : v # w => wk'[v] = wk[v]
    BY <2>1 DEF TypeOK, WorkerState, JobRow
  <2> HIDE DEF j
  <2>5. WorkerInv'
    BY <2>1, <2>2, <2>3, <2>4 DEF ClaimInv, WorkerInv
  <2>6. OneWorkerPerJob'
    BY <2>1, <2>2, <2>4 DEF ClaimInv, OneWorkerPerJob
  <2>7. CancelInv' /\ StampedIffClaimed'
    BY <2>1, <2>3 DEF ClaimInv, CancelInv, StampedIffClaimed
  <2>8. QED
    BY <2>5, <2>6, <2>7 DEF ClaimInv
<1>3. CASE AbortClaim(w)
  BY <1>3 DEF AbortClaim, ClaimInv, WorkerInv, CancelInv, OneWorkerPerJob,
              StampedIffClaimed, TypeOK, Idle
<1>l. CASE LoseCommit(w)
  <2>1. PICK j \in Jobs :
          /\ wk[w].pc = "locked" /\ wk[w].job = j
          /\ job'[j].status = "running" /\ job'[j].started
          /\ \A k \in Jobs : k # j => job'[k] = job[k]
          /\ UNCHANGED can
    BY <1>l DEF LoseCommit, MarkRunning, ClaimInv, WorkerInv, TypeOK, JobRow
  <2>2. \A v \in Workers : v # w /\ wk[v].pc # "idle" => wk[v].job # j
    BY <2>1 DEF ClaimInv, OneWorkerPerJob
  <2>3. /\ wk'[w].pc = "idle"
        /\ \A v \in Workers : v # w => wk'[v] = wk[v]
    BY <1>l DEF LoseCommit, TypeOK, Idle
  <2>4. WorkerInv' /\ OneWorkerPerJob'
    BY <2>1, <2>2, <2>3 DEF ClaimInv, WorkerInv, OneWorkerPerJob
  <2>5. CancelInv' /\ StampedIffClaimed'
    BY <2>1 DEF ClaimInv, CancelInv, StampedIffClaimed
  <2>6. QED
    BY <2>4, <2>5 DEF ClaimInv
<1>4. CASE LoadSource(w)
  BY <1>4 DEF LoadSource, ClaimInv, WorkerInv, CancelInv, OneWorkerPerJob,
              StampedIffClaimed, TypeOK, WorkerState
<1>5. ASSUME wk[w].pc \in {"claimed", "fetching"},
             NEW st \in {"completed", "failed"}, NEW ta \in {"none", "ok", "failed"},
             wk' = [wk EXCEPT ![w] = [wk[w] EXCEPT !.pc = "saving",
                      !.row = [wk[w].row EXCEPT !.status = st], !.tally = ta]],
             UNCHANGED <<job, can>>
      PROVE  ClaimInv'
  <2>1. /\ wk'[w].pc = "saving" /\ wk'[w].job = wk[w].job
        /\ wk'[w].row.started = wk[w].row.started /\ wk'[w].row.status = st
        /\ \A v \in Workers : v # w => wk'[v] = wk[v]
    BY <1>5 DEF TypeOK, WorkerState, JobRow
  <2>2. QED
    BY <1>5, <2>1 DEF ClaimInv, WorkerInv, CancelInv, OneWorkerPerJob,
                      StampedIffClaimed
<1>6. CASE SourceMissing(w)
  <2>1. wk' = [wk EXCEPT ![w] = [wk[w] EXCEPT !.pc = "saving",
                 !.row = [wk[w].row EXCEPT !.status = "failed"],
                 !.tally = wk[w].tally]]
    BY <1>6 DEF SourceMissing, TypeOK, WorkerState
  <2>2. wk[w].tally \in {"none", "ok", "failed"}
    BY DEF TypeOK, WorkerState
  <2>3. QED
    BY <1>5, <1>6, <2>1, <2>2 DEF SourceMissing
<1>7. ASSUME NEW b \in BOOLEAN, Fetched(w, b)  PROVE ClaimInv'
  <2> DEFINE st == IF b THEN "completed" ELSE "failed"
             ta == IF b THEN "ok" ELSE "failed"
  <2>1. wk' = [wk EXCEPT ![w] = [wk[w] EXCEPT !.pc = "saving",
                 !.row = [wk[w].row EXCEPT !.status = st], !.tally = ta]]
    BY <1>7 DEF Fetched, TypeOK, WorkerState
  <2>2. st \in {"completed", "failed"} /\ ta \in {"none", "ok", "failed"}
    OBVIOUS
  <2> HIDE DEF st, ta
  <2>3. QED
    BY <1>5, <1>7, <2>1, <2>2 DEF Fetched
<1>8. CASE SaveOutcome(w)
  <2> DEFINE j == wk[w].job
  <2>1. /\ wk[w].pc = "saving" /\ j \in Jobs /\ wk[w].row.started
        /\ wk[w].row.status \in {"completed", "failed"}
        /\ job[j].status \notin {"none", "pending"}
        /\ UNCHANGED can
    BY <1>8 DEF SaveOutcome, ClaimInv, WorkerInv
  <2>2. \/ UNCHANGED job
        \/ job' = [job EXCEPT ![j] = wk[w].row]
    BY <1>8 DEF SaveOutcome, UpdateJob
  <2>3. /\ \A k \in Jobs : k # j => job'[k] = job[k]
        /\ job'[j].status \notin {"none", "pending"}
        /\ job'[j].started
              <=> job'[j].status \in {"running", "completed", "failed"}
    BY <2>1, <2>2 DEF TypeOK, ClaimInv, StampedIffClaimed
  <2>4. /\ wk'[w].pc = "idle" \/ /\ wk'[w].pc = "tallying"
                                 /\ wk'[w].job = j /\ wk'[w].row = wk[w].row
        /\ \A v \in Workers : v # w => wk'[v] = wk[v]
    BY <1>8 DEF SaveOutcome, TypeOK, WorkerState, Idle
  <2>5. \A v \in Workers : v # w /\ wk[v].pc # "idle" => wk[v].job # j
    BY <2>1 DEF ClaimInv, OneWorkerPerJob
  <2> HIDE DEF j
  <2>6. WorkerInv'
    BY <2>1, <2>3, <2>4, <2>5 DEF ClaimInv, WorkerInv
  <2>7. OneWorkerPerJob'
    BY <2>4, <2>5 DEF ClaimInv, OneWorkerPerJob
  <2>8. CancelInv' /\ StampedIffClaimed'
    BY <2>1, <2>3 DEF ClaimInv, CancelInv, StampedIffClaimed
  <2>9. QED
    BY <2>6, <2>7, <2>8 DEF ClaimInv
<1>9. CASE TallyResult(w)
  BY <1>9 DEF TallyResult, ClaimInv, WorkerInv, CancelInv, OneWorkerPerJob,
              StampedIffClaimed, TypeOK, Idle
<1>10. QED
  BY <1>1, <1>2, <1>3, <1>4, <1>6, <1>7, <1>8, <1>9, <1>l DEF WorkerStep

LEMMA ClaimSched ==
  ASSUME TypeOK, ClaimInv, SchedStep
  PROVE  ClaimInv'
<1> USE DEF SchedFrame
<1>1. ASSUME NEW p \in sched.left, SchedCreate(p)  PROVE ClaimInv'
  <2> DEFINE r == NewScrapingJob(sched.cur, "scheduled", p, 0)
  <2>1. r \in JobRow /\ r.status = "pending" /\ ~r.started
    BY DEF NewScrapingJob, JobRow, Statuses, TypeOK, SchedState
  <2> HIDE DEF r
  <2>2. CASE SaveJob(r)
    BY <1>1, <2>1, <2>2, ClaimSave DEF SchedCreate
  <2>3. CASE UNCHANGED job
    BY <1>1, <2>3, ClaimFrame DEF SchedCreate
  <2>4. QED
    BY <1>1, <2>2, <2>3 DEF SchedCreate, r
<1>2. QED
  BY <1>1, ClaimFrame DEF SchedStep, SchedTick, SchedNext, SchedAdvance

LEMMA ClaimHandler ==
  ASSUME TypeOK, ClaimInv, HandlerStep
  PROVE  ClaimInv'
<1> USE DEF HandlerFrame
<1>1. ASSUME NEW s \in Sources, Trigger(s)  PROVE ClaimInv'
  <2> DEFINE r == NewScrapingJob(s, "manual", 0, 0)
  <2>1. r \in JobRow /\ r.status = "pending" /\ ~r.started
    BY DEF NewScrapingJob, JobRow, Statuses
  <2>2. SaveJob(r) /\ UNCHANGED <<wk, can>>
    BY <1>1 DEF Trigger
  <2> HIDE DEF r
  <2>3. QED
    BY <2>1, <2>2, ClaimSave
<1>2. ASSUME NEW j \in Jobs, Retry(j)  PROVE ClaimInv'
  <2> DEFINE r == NewScrapingJob(job[j].source, job[j].trigger, 0,
                                 job[j].retry + 1)
  <2>1. r \in JobRow /\ r.status = "pending" /\ ~r.started
    BY DEF NewScrapingJob, JobRow, Statuses, TypeOK
  <2>2. SaveJob(r) /\ UNCHANGED <<wk, can>>
    BY <1>2 DEF Retry
  <2> HIDE DEF r
  <2>3. QED
    BY <2>1, <2>2, ClaimSave
<1>3. ASSUME NEW j \in Jobs, NEW c \in Cancels, CancelRead(c, j)
      PROVE  ClaimInv'
  <2>1. /\ job[j].status = "pending" /\ ~job[j].started
        /\ UNCHANGED <<job, wk>>
    BY <1>3 DEF CancelRead, ClaimInv, StampedIffClaimed
  <2>2. /\ can'[c].job = j /\ can'[c].row.status = "cancelled"
        /\ ~can'[c].row.started
        /\ \A d \in Cancels : d # c => can'[d] = can[d]
    BY <1>3, <2>1 DEF CancelRead, TypeOK, CancelState, JobRow
  <2>3. CancelInv'
    BY <2>1, <2>2 DEF ClaimInv, CancelInv
  <2>4. QED
    BY <2>1, <2>3 DEF ClaimInv, WorkerInv, OneWorkerPerJob, StampedIffClaimed
<1>4. ASSUME NEW c \in Cancels, CancelWrite(c)  PROVE ClaimInv'
  <2> DEFINE j == can[c].job
  <2>1. /\ j \in Jobs /\ j \notin Locked /\ job[j].status # "none"
        /\ job' = [job EXCEPT ![j] = can[c].row]
        /\ can[c].row.status = "cancelled" /\ ~can[c].row.started
        /\ UNCHANGED wk
    BY <1>4 DEF CancelWrite, UpdateJob, ClaimInv, CancelInv
  <2>2. /\ job'[j].status = "cancelled" /\ ~job'[j].started
        /\ \A k \in Jobs : k # j => job'[k] = job[k]
    BY <2>1 DEF TypeOK
  <2>3. /\ can'[c].pc = "idle"
        /\ \A d \in Cancels : d # c => can'[d] = can[d]
    BY <1>4 DEF CancelWrite, TypeOK, NoCancel
  <2>4. \A w \in Workers : wk[w].pc = "locked" => wk[w].job # j
    BY <2>1 DEF Locked
  <2> HIDE DEF j
  <2>5. WorkerInv'
    BY <2>1, <2>2, <2>4 DEF ClaimInv, WorkerInv
  <2>6. CancelInv' /\ StampedIffClaimed'
    BY <2>2, <2>3 DEF ClaimInv, CancelInv, StampedIffClaimed
  <2>7. QED
    BY <2>1, <2>5, <2>6 DEF ClaimInv, OneWorkerPerJob
<1>5. QED
  BY <1>1, <1>2, <1>3, <1>4, ClaimFrame
     DEF HandlerStep, Delete, EditRead, EditWrite

LEMMA ClaimStep == TypeOK /\ ClaimInv /\ [Next]_vars => ClaimInv'
<1> SUFFICES ASSUME TypeOK, ClaimInv, [Next]_vars  PROVE ClaimInv'
  OBVIOUS
<1>1. CASE Die
  BY <1>1 DEF Die, tables, ClaimInv, WorkerInv, CancelInv, OneWorkerPerJob,
              StampedIffClaimed, Idle, NoCancel
<1>2. CASE Tick \/ BeginShutdown \/ Restart
  BY <1>2, ClaimFrame DEF Tick, BeginShutdown, Restart, tables, requests
<1>3. CASE UNCHANGED vars
  BY <1>3, ClaimFrame DEF vars
<1>4. QED
  BY <1>1, <1>2, <1>3, ClaimWorker, ClaimSched, ClaimHandler DEF Next

LEMMA ClaimInvariant == Spec => []ClaimInv
BY ClaimInit, ClaimStep, TypeCorrect, PTL DEF Spec

(* No two workers ever hold the same job.                                  *)
THEOREM ClaimExclusive == Spec => []OneWorkerPerJob
<1>1. ClaimInv => OneWorkerPerJob
  BY DEF ClaimInv
<1>2. QED
  BY <1>1, ClaimInvariant, PTL

(* started_at is set exactly on the rows whose claim was committed and not *)
(* overwritten by a late cancel.                                           *)
THEOREM StampsCorrect == Spec => []StampedIffClaimed
<1>1. ClaimInv => StampedIffClaimed
  BY DEF ClaimInv
<1>2. QED
  BY <1>1, ClaimInvariant, PTL
-----------------------------------------------------------------------------
(***************************************************************************)
(* Scraping implements the queue of JobLifecycle under the mapping Phase:  *)
(* every job is executed at most once and never returns to the queue,      *)
(* whatever the workers, requests and restarts do.                         *)
(***************************************************************************)
PhaseFacts ==
  \A j \in Jobs :
    /\ job[j].status = "none" => Phase[j] = "absent"
    /\ job[j].status = "pending" => Phase[j] = "queued"
    /\ job[j].status \notin {"none", "pending"} =>
         /\ Held(j) => Phase[j] = "executing"
         /\ ~Held(j) => Phase[j] = "retired"

LEMMA PhaseNow == PhaseFacts
BY DEF PhaseFacts, Phase

LEMMA PhaseNext == PhaseFacts'
BY DEF PhaseFacts, Phase

(* A step that moves the jobs of S from one phase to another and leaves    *)
(* the others where they are is a Move of the abstract queue.              *)
LEMMA IsMove ==
  ASSUME NEW S \in SUBSET Jobs, NEW from, NEW to,
         \A j \in S : Phase[j] = from /\ Phase'[j] = to,
         \A j \in Jobs \ S : Phase'[j] = Phase[j]
  PROVE  Queue!Move(S, from, to)
<1>1. Phase' = [j \in Jobs |-> Phase'[j]]
  BY DEF Phase
<1>2. \A j \in Jobs : Phase'[j] = IF j \in S THEN to ELSE Phase[j]
  OBVIOUS
<1>3. QED
  BY <1>1, <1>2, Zenon DEF Queue!Move

(* A step that no job enters or leaves the queue in, and that no worker    *)
(* begins or ends an execution in, stutters.                               *)
LEMMA IsStutter ==
  ASSUME \A j \in Jobs : /\ job'[j].status = "none" <=> job[j].status = "none"
                         /\ job'[j].status = "pending" <=> job[j].status = "pending"
                         /\ Held(j)' <=> Held(j)
  PROVE  Phase' = Phase
<1>1. \A j \in Jobs : Phase'[j] = Phase[j]
  BY PhaseNow, PhaseNext DEF PhaseFacts
<1>2. QED
  BY <1>1 DEF Phase

LEMMA QueueInit == Init => Queue!Init
<1> SUFFICES ASSUME Init  PROVE Queue!Init
  OBVIOUS
<1>1. \A j \in Jobs : job[j].status = "none"
  BY DEF Init, NoRow
<1>2. \A j \in Jobs : Phase[j] = "absent"
  BY <1>1, PhaseNow DEF PhaseFacts
<1>3. QED
  BY <1>2 DEF Queue!Init, Phase

(* Inserting a row enqueues its job.                                       *)
LEMMA QueueSave ==
  ASSUME TypeOK, ClaimInv, NEW r \in JobRow, SaveJob(r),
         r.status = "pending", UNCHANGED wk
  PROVE  Queue!Next
<1>1. PICK j \in Jobs : job[j].status = "none" /\ job' = [job EXCEPT ![j] = r]
  BY DEF SaveJob, IsFresh
<1>2. \A k \in Jobs : Held(k)' <=> Held(k)
  BY DEF Held, Executes
<1>3. /\ job'[j].status = "pending"
      /\ \A k \in Jobs : k # j => job'[k] = job[k]
  BY <1>1 DEF TypeOK
<1>4. \A k \in Jobs \ {j} : Phase'[k] = Phase[k]
  BY <1>2, <1>3, PhaseNow, PhaseNext DEF PhaseFacts
<1>5. Phase[j] = "absent" /\ Phase'[j] = "queued"
  BY <1>1, <1>3, PhaseNow, PhaseNext DEF PhaseFacts
<1>6. Queue!Enqueue(j)
  BY <1>4, <1>5, IsMove DEF Queue!Enqueue
<1>7. QED
  BY <1>6 DEF Queue!Next

(* The last call of a worker retires the job it held.                      *)
LEMMA QueueFinish ==
  ASSUME TypeOK, ClaimInv, NEW w \in Workers,
         wk[w].pc \notin {"idle", "locked"}, wk' = [wk EXCEPT ![w] = Idle],
         \A j \in Jobs : /\ job'[j].status = "none" <=> job[j].status = "none"
                         /\ job'[j].status = "pending" <=> job[j].status = "pending"
  PROVE  Queue!Next
<1>1. PICK j \in Jobs : /\ j = wk[w].job
                        /\ job[j].status \notin {"none", "pending"}
  BY DEF ClaimInv, WorkerInv
<1>2. /\ wk'[w].pc = "idle"
      /\ \A v \in Workers : v # w => wk'[v] = wk[v]
  BY DEF TypeOK, Idle
<1>3. Held(j)
  BY <1>1 DEF Held, Executes
<1>4. ~Held(j)'
  BY <1>1, <1>2 DEF Held, Executes, ClaimInv, OneWorkerPerJob
<1>5. \A k \in Jobs \ {j} : Held(k)' <=> Held(k)
  BY <1>1, <1>2 DEF Held, Executes, Idle
<1>6. Phase[j] = "executing" /\ Phase'[j] = "retired"
  BY <1>1, <1>3, <1>4, PhaseNow, PhaseNext DEF PhaseFacts
<1>7. \A k \in Jobs \ {j} : Phase'[k] = Phase[k]
  BY <1>5, PhaseNow, PhaseNext DEF PhaseFacts
<1>8. Queue!Retire({j})
  BY <1>1, <1>6, <1>7, IsMove DEF Queue!Retire
<1>9. {j} \in SUBSET Jobs
  BY <1>1
<1>10. QED
  BY <1>8, <1>9 DEF Queue!Next

LEMMA QueueWorker ==
  ASSUME TypeOK, ClaimInv, NEW w \in Workers, WorkerStep(w)
  PROVE  Queue!Next \/ Phase' = Phase
<1> USE DEF WorkerFrame
(* Steps inside the claim or inside Execute: the worker's step changes,    *)
(* not what it executes.                                                   *)
<1>1. ASSUME job' = job,
             \A v \in Workers : v # w => wk'[v] = wk[v],
             \/ /\ wk[w].pc \in {"idle", "locked"}
                /\ wk'[w].pc \in {"idle", "locked"}
             \/ /\ wk[w].pc \notin {"idle", "locked"}
                /\ wk'[w].pc \notin {"idle", "locked"}
                /\ wk'[w].job = wk[w].job
      PROVE  Phase' = Phase
  <2>1. \A k \in Jobs : Held(k)' <=> Held(k)
    BY <1>1 DEF Held, Executes
  <2>2. QED
    BY <1>1, <2>1, IsStutter
<1>2. ASSUME NEW j \in Jobs, LockJob(w, j)  PROVE Phase' = Phase
  BY <1>1, <1>2 DEF LockJob, TypeOK
<1>3. CASE CommitClaim(w)
  <2>1. PICK j \in Jobs :
          /\ wk[w].pc = "locked" /\ wk[w].job = j
          /\ job[j].status = "pending" /\ job'[j].status = "running"
          /\ \A k \in Jobs : k # j => job'[k] = job[k]
    BY <1>3 DEF CommitClaim, MarkRunning, ClaimInv, WorkerInv, TypeOK, JobRow
  <2>2. /\ wk'[w].pc = "claimed" /\ wk'[w].job = j
        /\ \A v \in Workers : v # w => wk'[v] = wk[v]
    BY <1>3, <2>1 DEF CommitClaim, TypeOK, WorkerState
  <2>3. Held(j)'
    BY <2>2 DEF Held, Executes
  <2>4. \A k \in Jobs \ {j} : Held(k)' <=> Held(k)
    BY <2>1, <2>2 DEF Held, Executes
  <2>5. Phase[j] = "queued" /\ Phase'[j] = "executing"
    BY <2>1, <2>3, PhaseNow, PhaseNext DEF PhaseFacts
  <2>6. \A k \in Jobs \ {j} : Phase'[k] = Phase[k]
    BY <2>1, <2>4, PhaseNow, PhaseNext DEF PhaseFacts
  <2>7. Queue!Begin(j)
    BY <2>1, <2>5, <2>6, IsMove DEF Queue!Begin
  <2>8. QED
    BY <2>1, <2>7 DEF Queue!Next
<1>4. CASE AbortClaim(w)
  BY <1>1, <1>4 DEF AbortClaim, TypeOK, Idle
<1>5. CASE LoadSource(w)
  BY <1>1, <1>5 DEF LoadSource, TypeOK, WorkerState
<1>6. CASE SourceMissing(w)
  BY <1>1, <1>6 DEF SourceMissing, TypeOK, WorkerState
<1>7. ASSUME NEW b \in BOOLEAN, Fetched(w, b)  PROVE Phase' = Phase
  BY <1>1, <1>7 DEF Fetched, TypeOK, WorkerState
<1>8. CASE SaveOutcome(w)
  <2> DEFINE j == wk[w].job
  <2>1. /\ wk[w].pc = "saving" /\ j \in Jobs
        /\ job[j].status \notin {"none", "pending"}
        /\ wk[w].row.status \in {"completed", "failed"}
    BY <1>8 DEF SaveOutcome, ClaimInv, WorkerInv
  <2>2. \/ UNCHANGED job
        \/ job' = [job EXCEPT ![j] = wk[w].row]
    BY <1>8 DEF SaveOutcome, UpdateJob
  <2>3. \A k \in Jobs :
          /\ job'[k].status = "none" <=> job[k].status = "none"
          /\ job'[k].status = "pending" <=> job[k].status = "pending"
    BY <2>1, <2>2 DEF TypeOK
  <2>4. CASE wk[w].tally = "none"
    BY <1>8, <2>1, <2>3, <2>4, QueueFinish DEF SaveOutcome
  <2>5. CASE wk[w].tally # "none"
    <3>1. /\ wk'[w].pc = "tallying" /\ wk'[w].job = wk[w].job
          /\ \A v \in Workers : v # w => wk'[v] = wk[v]
      BY <1>8, <2>5 DEF SaveOutcome, TypeOK, WorkerState
    <3>2. \A k \in Jobs : Held(k)' <=> Held(k)
      BY <2>1, <3>1 DEF Held, Executes
    <3>3. QED
      BY <2>3, <3>2, IsStutter
  <2>6. QED
    BY <2>4, <2>5
<1>9. CASE TallyResult(w)
  BY <1>9, QueueFinish DEF TallyResult
(* A job whose claim was committed unheard leaves the queue unexecuted.    *)
<1>10. CASE LoseCommit(w)
  <2>1. PICK j \in Jobs :
          /\ wk[w].pc = "locked" /\ wk[w].job = j
          /\ job[j].status = "pending" /\ job'[j].status = "running"
          /\ \A k \in Jobs : k # j => job'[k] = job[k]
    BY <1>10 DEF LoseCommit, MarkRunning, ClaimInv, WorkerInv, TypeOK, JobRow
  <2>2. /\ wk'[w].pc = "idle"
        /\ \A v \in Workers : v # w => wk'[v] = wk[v]
    BY <1>10 DEF LoseCommit, TypeOK, Idle
  <2>3. \A k \in Jobs : Held(k)' <=> Held(k)
    BY <2>1, <2>2 DEF Held, Executes
  <2>4. ~Held(j)
    BY <2>1 DEF Held, Executes, ClaimInv, WorkerInv
  <2>5. Phase[j] = "queued" /\ Phase'[j] = "retired"
    BY <2>1, <2>3, <2>4, PhaseNow, PhaseNext DEF PhaseFacts
  <2>6. \A k \in Jobs \ {j} : Phase'[k] = Phase[k]
    BY <2>1, <2>3, PhaseNow, PhaseNext DEF PhaseFacts
  <2>7. Queue!Withdraw(j)
    BY <2>1, <2>5, <2>6, IsMove DEF Queue!Withdraw
  <2>8. QED
    BY <2>1, <2>7 DEF Queue!Next
<1>11. QED
  BY <1>2, <1>3, <1>4, <1>5, <1>6, <1>7, <1>8, <1>9, <1>10 DEF WorkerStep

(* A step of anyone else that leaves the jobs and the workers alone.       *)
LEMMA QueueFrame ==
  ASSUME UNCHANGED <<job, wk>>
  PROVE  Phase' = Phase
<1>1. \A j \in Jobs : Held(j)' <=> Held(j)
  BY DEF Held, Executes
<1>2. QED
  BY <1>1, IsStutter

LEMMA QueueSched ==
  ASSUME TypeOK, ClaimInv, SchedStep
  PROVE  Queue!Next \/ Phase' = Phase
<1> USE DEF SchedFrame
<1>1. ASSUME NEW p \in sched.left, SchedCreate(p)
      PROVE  Queue!Next \/ Phase' = Phase
  <2> DEFINE r == NewScrapingJob(sched.cur, "scheduled", p, 0)
  <2>1. r \in JobRow /\ r.status = "pending"
    BY DEF NewScrapingJob, JobRow, Statuses, TypeOK, SchedState
  <2> HIDE DEF r
  <2>2. SaveJob(r) \/ UNCHANGED job
    BY <1>1 DEF SchedCreate, r
  <2>3. QED
    BY <1>1, <2>1, <2>2, QueueSave, QueueFrame DEF SchedCreate
<1>2. QED
  BY <1>1, QueueFrame DEF SchedStep, SchedTick, SchedNext, SchedAdvance

LEMMA QueueHandler ==
  ASSUME TypeOK, ClaimInv, HandlerStep
  PROVE  Queue!Next \/ Phase' = Phase
<1> USE DEF HandlerFrame
<1>1. ASSUME NEW s \in Sources, Trigger(s)  PROVE Queue!Next
  <2> DEFINE r == NewScrapingJob(s, "manual", 0, 0)
  <2>1. r \in JobRow /\ r.status = "pending"
    BY DEF NewScrapingJob, JobRow, Statuses
  <2>2. SaveJob(r) /\ UNCHANGED wk
    BY <1>1 DEF Trigger
  <2> HIDE DEF r
  <2>3. QED
    BY <2>1, <2>2, QueueSave
<1>2. ASSUME NEW j \in Jobs, Retry(j)  PROVE Queue!Next
  <2> DEFINE r == NewScrapingJob(job[j].source, job[j].trigger, 0,
                                 job[j].retry + 1)
  <2>1. r \in JobRow /\ r.status = "pending"
    BY DEF NewScrapingJob, JobRow, Statuses, TypeOK
  <2>2. SaveJob(r) /\ UNCHANGED wk
    BY <1>2 DEF Retry
  <2> HIDE DEF r
  <2>3. QED
    BY <2>1, <2>2, QueueSave
<1>3. ASSUME NEW c \in Cancels, CancelWrite(c)
      PROVE  Queue!Next \/ Phase' = Phase
  <2> DEFINE j == can[c].job
  <2>1. /\ j \in Jobs /\ j \notin Locked /\ job[j].status # "none"
        /\ job'[j].status = "cancelled"
        /\ \A k \in Jobs : k # j => job'[k] = job[k]
        /\ UNCHANGED wk
    BY <1>3 DEF CancelWrite, UpdateJob, ClaimInv, CancelInv, TypeOK
  <2>2. \A k \in Jobs : Held(k)' <=> Held(k)
    BY <2>1 DEF Held, Executes
  <2> HIDE DEF j
  <2>3. CASE job[j].status = "pending"
    <3>1. ~Held(j)
      BY <2>1, <2>3 DEF Held, Executes, ClaimInv, WorkerInv
    <3>2. Phase[j] = "queued" /\ Phase'[j] = "retired"
      BY <2>1, <2>2, <2>3, <3>1, PhaseNow, PhaseNext DEF PhaseFacts
    <3>3. \A k \in Jobs \ {j} : Phase'[k] = Phase[k]
      BY <2>1, <2>2, PhaseNow, PhaseNext DEF PhaseFacts
    <3>4. Queue!Withdraw(j)
      BY <2>1, <3>2, <3>3, IsMove DEF Queue!Withdraw
    <3>5. QED
      BY <2>1, <3>4 DEF Queue!Next
  <2>4. CASE job[j].status # "pending"
    <3>1. \A k \in Jobs :
            /\ job'[k].status = "none" <=> job[k].status = "none"
            /\ job'[k].status = "pending" <=> job[k].status = "pending"
      BY <2>1, <2>4
    <3>2. QED
      BY <2>2, <3>1, IsStutter
  <2>5. QED
    BY <2>3, <2>4
<1>4. QED
  BY <1>1, <1>2, <1>3, QueueFrame
     DEF HandlerStep, Delete, CancelRead, EditRead, EditWrite

(* The end of the process retires every job that was being executed.       *)
LEMMA QueueDie ==
  ASSUME TypeOK, ClaimInv, Die
  PROVE  Queue!Next
<1> DEFINE S == {j \in Jobs : Held(j)}
<1>1. \A j \in S : job[j].status \notin {"none", "pending"}
  BY DEF Held, Executes, ClaimInv, WorkerInv
<1>2. job' = job /\ \A j \in Jobs : ~Held(j)'
  BY DEF Die, tables, Held, Executes, Idle
<1>3. \A j \in S : Phase[j] = "executing" /\ Phase'[j] = "retired"
  BY <1>1, <1>2, PhaseNow, PhaseNext DEF PhaseFacts
<1>4. \A j \in Jobs \ S : Phase'[j] = Phase[j]
  BY <1>2, PhaseNow, PhaseNext DEF PhaseFacts
<1>5. S \in SUBSET Jobs
  OBVIOUS
<1> HIDE DEF S
<1>6. Queue!Retire(S)
  BY <1>3, <1>4, <1>5, IsMove DEF Queue!Retire
<1>7. QED
  BY <1>5, <1>6 DEF Queue!Next

LEMMA QueueStep ==
  TypeOK /\ ClaimInv /\ [Next]_vars => [Queue!Next]_Phase
<1> SUFFICES ASSUME TypeOK, ClaimInv, [Next]_vars
             PROVE  Queue!Next \/ Phase' = Phase
  OBVIOUS
<1>1. CASE Tick \/ BeginShutdown \/ Restart
  BY <1>1, QueueFrame DEF Tick, BeginShutdown, Restart, tables
<1>2. CASE UNCHANGED vars
  BY <1>2, QueueFrame DEF vars
<1>3. QED
  BY <1>1, <1>2, QueueWorker, QueueSched, QueueHandler, QueueDie DEF Next

(* The job table and the processes around it implement the abstract queue. *)
THEOREM AtMostOnceHolds == Spec => AtMostOnce
<1>1. Spec => Queue!Init /\ [][Queue!Next]_Phase
  BY QueueInit, QueueStep, TypeCorrect, ClaimInvariant, PTL DEF Spec
<1>2. QED
  BY <1>1 DEF AtMostOnce, Queue!Spec
=============================================================================
