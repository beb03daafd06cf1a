------------------------------ MODULE JobProofs ------------------------------
(***************************************************************************)
(* Proofs about Scraping that relate the rows of jobs and sources to what  *)
(* the processes hold: who may still rewrite a row, and what the counters  *)
(* and the schedule of a source can have come to.                          *)
(***************************************************************************)
EXTENDS ScrapingProofs, FiniteSetTheorems

Claimed(r) == [r EXCEPT !.status = "running", !.started = TRUE]

(* The steps of worker w, in the values they leave behind.                 *)
Locks(w) ==
  /\ wk[w].pc = "idle" /\ UNCHANGED <<job, src>>
  /\ \E j \in Jobs :
       /\ job[j].status = "pending"
       /\ wk'[w] = [pc |-> "locked", job |-> j, row |-> job[j],
                    tally |-> "none"]

Commits(w) ==
  /\ wk[w].pc = "locked" /\ UNCHANGED src
  /\ job' = [job EXCEPT ![wk[w].job] = Claimed(job[wk[w].job])]
  /\ wk'[w] = [wk[w] EXCEPT !.pc = "claimed", !.row = Claimed(wk[w].row)]

Leaves(w) ==
  /\ wk[w].pc = "locked" /\ UNCHANGED src
  /\ ~Calm' /\ wk'[w] = Idle
  /\ \/ UNCHANGED job
     \/ job' = [job EXCEPT ![wk[w].job] = Claimed(job[wk[w].job])]

Loads(w) ==
  /\ wk[w].pc = "claimed" /\ UNCHANGED <<job, src>>
  /\ wk'[w] = [wk[w] EXCEPT !.pc = "fetching"]

Decides(w) ==
  /\ wk[w].pc \in {"claimed", "fetching"} /\ UNCHANGED <<job, src>>
  /\ \E st \in {"completed", "failed"}, ta \in {"none", "ok", "failed"} :
       /\ \/ ta = wk[w].tally /\ st = "failed"
          \/ ta # "none" /\ (ta = "ok" <=> st = "completed")
       /\ wk'[w] = [wk[w] EXCEPT !.pc = "saving", !.tally = ta,
                                 !.row = [wk[w].row EXCEPT !.status = st]]

Saves(w) ==
  /\ wk[w].pc = "saving" /\ UNCHANGED src
  /\ \/ job' = [job EXCEPT ![wk[w].job] = wk[w].row]
     \/ UNCHANGED job /\ ~Calm'
  /\ wk'[w] = IF wk[w].tally = "none" THEN Idle
              ELSE [wk[w] EXCEPT !.pc = "tallying"]

Tallies(w) ==
  /\ wk[w].pc = "tallying" /\ UNCHANGED job
  /\ \/ RecordJobResult(wk[w].row.source, wk[w].tally = "ok")
     \/ UNCHANGED src /\ ~Calm'
  /\ wk'[w] = Idle

WorkerMove(w) ==
  /\ UNCHANGED <<clock, proc, sched, can, ed, restarts>>
  /\ \A v \in Workers : v # w => wk'[v] = wk[v]
  /\ \/ Locks(w) \/ Commits(w) \/ Leaves(w) \/ Loads(w) \/ Decides(w)
     \/ Saves(w) \/ Tallies(w)

(* A call that fails ends the calm.                                        *)
LEMMA FailureEndsCalm ==
  ASSUME TypeOK, CallFails, UNCHANGED proc
  PROVE  ~Calm'
BY DEF CallFails, Calm, TypeOK

(* Once disturbed, a behaviour stays so: no step brings the calm back.     *)
LEMMA CalmWasCalm ==
  ASSUME TypeOK, [Next]_vars, Calm'
  PROVE  Calm
<1>1. ASSUME UNCHANGED <<proc, restarts>>, CallWorks \/ CallFails \/ UNCHANGED faults
      PROVE  Calm
  BY <1>1 DEF Calm, CallWorks, CallFails, TypeOK
<1>2. ASSUME NEW w \in Workers, WorkerStep(w)  PROVE Calm
  BY <1>1, <1>2
     DEF WorkerStep, WorkerFrame, LockJob, CommitClaim, AbortClaim,
         LoseCommit, LoadSource, SourceMissing, Fetched, SaveOutcome,
         TallyResult
<1>3. CASE SchedStep
  BY <1>1, <1>3 DEF SchedStep, SchedFrame, SchedTick, SchedNext, SchedCreate,
                    SchedAdvance
<1>4. CASE HandlerStep
  BY <1>1, <1>4 DEF HandlerStep, HandlerFrame, Trigger, Delete, Retry,
                    CancelRead, CancelWrite, EditRead, EditWrite
<1>5. CASE Tick \/ BeginShutdown \/ Die \/ Restart \/ UNCHANGED vars
  BY <1>5 DEF Tick, BeginShutdown, Die, Restart, vars, Calm, TypeOK
<1>6. QED
  BY <1>2, <1>3, <1>4, <1>5 DEF Next

LEMMA WorkerMoves ==
  ASSUME TypeOK, NEW w \in Workers, WorkerStep(w)
  PROVE  WorkerMove(w)
<1>1. /\ UNCHANGED <<clock, proc, sched, can, ed, restarts>>
      /\ CallFails => ~Calm'
  BY FailureEndsCalm
     DEF WorkerStep, WorkerFrame, LockJob, CommitClaim, AbortClaim,
         LoseCommit, LoadSource, SourceMissing, Fetched, SaveOutcome,
         TallyResult
<1>2. ASSUME NEW m, wk' = [wk EXCEPT ![w] = m]
      PROVE  wk'[w] = m /\ \A v \in Workers : v # w => wk'[v] = wk[v]
  BY <1>2 DEF TypeOK
<1>3. ASSUME MarkRunning(wk[w].job)
      PROVE  job' = [job EXCEPT ![wk[w].job] = Claimed(job[wk[w].job])]
  BY <1>3 DEF MarkRunning, Claimed, TypeOK
<1>4. ASSUME NEW j \in Jobs, LockJob(w, j)  PROVE WorkerMove(w)
  BY <1>1, <1>2, <1>4
     DEF LockJob, Claimable, JobsWith, WorkerMove, Locks
<1>5. CASE CommitClaim(w)
  <2>1. wk' = [wk EXCEPT ![w] = [wk[w] EXCEPT !.pc = "claimed",
                 !.row = Claimed(wk[w].row)]]
    BY <1>5 DEF CommitClaim, Claimed, TypeOK, WorkerState
  <2>2. QED
    BY <1>1, <1>2, <1>3, <1>5, <2>1 DEF CommitClaim, WorkerMove, Commits
<1>6. CASE AbortClaim(w) \/ LoseCommit(w)
  BY <1>1, <1>2, <1>3, <1>6 DEF AbortClaim, LoseCommit, WorkerMove, Leaves
<1>7. CASE LoadSource(w)
  <2>1. wk' = [wk EXCEPT ![w] = [wk[w] EXCEPT !.pc = "fetching"]]
    BY <1>7 DEF LoadSource, TypeOK
  <2>2. QED
    BY <1>1, <1>2, <1>7, <2>1 DEF LoadSource, WorkerMove, Loads
<1>8. CASE SourceMissing(w)
  <2> DEFINE ta == wk[w].tally
  <2>1. wk' = [wk EXCEPT ![w] = [wk[w] EXCEPT !.pc = "saving", !.tally = ta,
                 !.row = [wk[w].row EXCEPT !.status = "failed"]]]
    BY <1>8 DEF SourceMissing, TypeOK, WorkerState
  <2>2. QED
    BY <1>1, <1>2, <1>8, <2>1 DEF SourceMissing, WorkerMove, Decides, TypeOK, WorkerState
<1>9. ASSUME NEW b \in BOOLEAN, Fetched(w, b)  PROVE WorkerMove(w)
  <2> DEFINE st == IF b THEN "completed" ELSE "failed"
             ta == IF b THEN "ok" ELSE "failed"
  <2>1. wk' = [wk EXCEPT ![w] = [wk[w] EXCEPT !.pc = "saving", !.tally = ta,
                 !.row = [wk[w].row EXCEPT !.status = st]]]
    BY <1>9 DEF Fetched, TypeOK, WorkerState
  <2>2. /\ st \in {"completed", "failed"} /\ ta \in {"none", "ok", "failed"}
        /\ ta # "none" /\ (ta = "ok" <=> st = "completed")
    OBVIOUS
  <2> HIDE DEF st, ta
  <2>3. QED
    BY <1>1, <1>2, <1>9, <2>1, <2>2 DEF Fetched, WorkerMove, Decides
<1>10. CASE SaveOutcome(w)
  BY <1>1, <1>2, <1>10 DEF SaveOutcome, UpdateJob, WorkerMove, Saves
<1>11. CASE TallyResult(w)
  BY <1>1, <1>2, <1>11 DEF TallyResult, WorkerMove, Tallies
<1>12. QED
  BY <1>4, <1>5, <1>6, <1>7, <1>8, <1>9, <1>10, <1>11 DEF WorkerStep
-----------------------------------------------------------------------------
(***************************************************************************)
(* What the steps of all processes do to jobs and to the copies of jobs.   *)
(***************************************************************************)
Inserts(j, s, t, n, r) ==
  /\ job[j].status = "none"
  /\ job' = [job EXCEPT ![j] = NewScrapingJob(s, t, n, r)]
  /\ UNCHANGED <<wk, can>>

(* A new row is that of the scheduler or of a request.                     *)
Insertion ==
  \E j \in Jobs, s \in Sources \cup {NoSource}, t \in {"scheduled", "manual"},
     n \in Nat, r \in Nat : Inserts(j, s, t, n, r)

ReadsJob(c) ==
  /\ UNCHANGED <<job, wk>>
  /\ \A d \in Cancels : d # c => can'[d] = can[d]
  /\ \E j \in Jobs : /\ job[j].status = "pending"
                     /\ can'[c].pc = "writing" /\ can'[c].job = j
                     /\ can'[c].row = [job[j] EXCEPT !.status = "cancelled"]

WritesJob(c) ==
  /\ can[c].pc = "writing" /\ can[c].job \notin Locked
  /\ UNCHANGED wk
  /\ job' = [job EXCEPT ![can[c].job] = can[c].row]
  /\ can'[c] = NoCancel
  /\ \A d \in Cancels : d # c => can'[d] = can[d]

Forgets ==
  /\ UNCHANGED job /\ ~Calm'
  /\ \A w \in Workers : wk'[w] = Idle
  /\ \A c \in Cancels : can'[c] = NoCancel

LEMMA Insertions ==
  ASSUME NEW s \in Sources \cup {NoSource}, NEW t \in {"scheduled", "manual"},
         NEW n \in Nat, NEW r \in Nat, SaveJob(NewScrapingJob(s, t, n, r)),
         UNCHANGED <<wk, can>>
  PROVE  Insertion
<1>1. PICK j \in Jobs : Inserts(j, s, t, n, r)
  BY DEF SaveJob, IsFresh, Inserts
<1>2. QED
  BY <1>1, Zenon DEF Insertion

LEMMA JobSteps ==
  ASSUME TypeOK, ClaimInv, [Next]_vars
  PROVE  \/ \E w \in Workers : WorkerStep(w) /\ WorkerMove(w)
         \/ Insertion
         \/ \E c \in Cancels : ReadsJob(c) \/ WritesJob(c)
         \/ Forgets
         \/ UNCHANGED <<job, wk, can>>
<1>1. ASSUME NEW w \in Workers, WorkerStep(w)  PROVE WorkerMove(w)
  BY <1>1, WorkerMoves
<1>2. CASE SchedStep
  <2>1. ASSUME NEW p \in sched.left, SchedCreate(p),
               SaveJob(NewScrapingJob(sched.cur, "scheduled", p, 0))
        PROVE  Insertion
    <3>1. p \in Nat /\ sched.cur \in Sources \cup {NoSource}
      BY DEF TypeOK, SchedState
    <3>2. QED
      BY <2>1, <3>1, Insertions DEF SchedCreate, SchedFrame
  <2>2. QED
    BY <1>2, <2>1 DEF SchedStep, SchedFrame, SchedTick, SchedNext, SchedCreate,
                      SchedAdvance
<1>3. ASSUME NEW s \in Sources, Trigger(s)  PROVE Insertion
  BY <1>3, Insertions DEF Trigger, HandlerFrame
<1>4. ASSUME NEW j \in Jobs, Retry(j)  PROVE Insertion
  <2>1. /\ job[j].source \in Sources \cup {NoSource}
        /\ job[j].trigger \in {"scheduled", "manual"}
        /\ job[j].retry + 1 \in Nat
    BY DEF TypeOK, JobRow
  <2>2. QED
    BY <1>4, <2>1, Insertions DEF Retry, HandlerFrame
<1>5. ASSUME NEW c \in Cancels, NEW j \in Jobs, CancelRead(c, j)
      PROVE  ReadsJob(c)
  BY <1>5 DEF CancelRead, HandlerFrame, ReadsJob, TypeOK
<1>6. ASSUME NEW c \in Cancels, CancelWrite(c)  PROVE WritesJob(c)
  BY <1>6 DEF CancelWrite, HandlerFrame, UpdateJob, WritesJob, TypeOK
<1>7. CASE HandlerStep
  BY <1>3, <1>4, <1>5, <1>6, <1>7
     DEF HandlerStep, HandlerFrame, Delete, EditRead, EditWrite
<1>8. CASE Tick \/ BeginShutdown \/ Die \/ Restart \/ UNCHANGED vars
  BY <1>8 DEF Tick, BeginShutdown, Die, Restart, vars, requests, tables, Forgets, Calm
<1>9. QED
  BY <1>1, <1>2, <1>7, <1>8 DEF Next
-----------------------------------------------------------------------------
(***************************************************************************)
(* The row and the copies of a job agree in what never changes (CopyInv);  *)
(* the row a worker is about to finish is running, or cancelled by a       *)
(* request that came late (SettleInv).                                     *)
(***************************************************************************)
SameOrigin(r, q) == /\ r.source = q.source /\ r.page = q.page
                    /\ r.trigger = q.trigger /\ r.retry = q.retry

CopyInv ==
  /\ \A j \in Jobs : job[j].status = "none" => job[j].source = NoSource
  /\ \A w \in Workers :
       wk[w].pc # "idle" => SameOrigin(wk[w].row, job[wk[w].job])
  /\ \A c \in Cancels :
       can[c].pc = "writing" => SameOrigin(can[c].row, job[can[c].job])

SettleInv ==
  \A w \in Workers :
    /\ wk[w].pc \in {"idle", "locked", "claimed", "fetching"} =>
         wk[w].tally = "none"
    /\ wk[w].pc \in {"claimed", "fetching", "saving"} =>
         job[wk[w].job].status \in {"running", "cancelled"}
    /\ wk[w].pc = "saving" =>
         (wk[w].tally = "ok" <=> wk[w].row.status = "completed")
    /\ Calm /\ wk[w].pc = "tallying" => job[wk[w].job].status # "running"

HoldInv == CopyInv /\ SettleInv /\ RunningIsHeld

LEMMA HoldInit == Init => HoldInv
BY DEF Init, HoldInv, CopyInv, SettleInv, RunningIsHeld, JobsWith, NoRow,
       Idle, NoCancel

(* Claiming and settling a row leave alone where it came from.             *)
LEMMA OriginKept ==
  ASSUME NEW r \in JobRow, NEW st
  PROVE  /\ SameOrigin(Claimed(r), r)
         /\ SameOrigin([r EXCEPT !.status = st], r)
         /\ Claimed(r).status = "running"
         /\ [r EXCEPT !.status = st].status = st
BY DEF SameOrigin, Claimed, JobRow

(* A step that moves worker w only, and at most the row of its job.        *)
LEMMA CopyWorker ==
  ASSUME TypeOK, ClaimInv, HoldInv, NEW w \in Workers, WorkerMove(w)
  PROVE  /\ CopyInv'
         /\ \A j \in Jobs : SameOrigin(job'[j], job[j])
<1>1. /\ wk \in [Workers -> WorkerState] /\ job \in [Jobs -> JobRow]
      /\ UNCHANGED can
      /\ \A v \in Workers : v # w => wk'[v] = wk[v]
      /\ wk[w].row \in JobRow
  BY DEF TypeOK, WorkerState, WorkerMove
<1>2. \A j \in Jobs : /\ SameOrigin(job'[j], job[j])
                      /\ job'[j].status = "none" => job[j].status = "none"
  <2>1. CASE UNCHANGED job
    BY <2>1 DEF SameOrigin
  <2>2. CASE wk[w].pc = "locked" /\
             job' = [job EXCEPT ![wk[w].job] = Claimed(job[wk[w].job])]
    <3>1. wk[w].job \in Jobs
      BY <2>2 DEF ClaimInv, WorkerInv
    <3>2. /\ SameOrigin(Claimed(job[wk[w].job]), job[wk[w].job])
          /\ Claimed(job[wk[w].job]).status = "running"
      BY <1>1, <3>1, OriginKept
    <3>3. QED
      BY <1>1, <2>2, <3>1, <3>2 DEF SameOrigin
  <2>3. CASE wk[w].pc = "saving" /\ job' = [job EXCEPT ![wk[w].job] = wk[w].row]
    BY <1>1, <2>3 DEF ClaimInv, WorkerInv, HoldInv, CopyInv, SameOrigin
  <2>4. QED
    BY <2>1, <2>2, <2>3
       DEF WorkerMove, Locks, Commits, Leaves, Loads, Decides, Saves, Tallies
<1>3. wk'[w].pc # "idle" =>
        \/ /\ wk'[w].job = wk[w].job /\ wk[w].pc # "idle"
           /\ SameOrigin(wk'[w].row, wk[w].row)
        \/ wk'[w].job \in Jobs /\ wk'[w].row = job[wk'[w].job]
  <2>1. CASE Locks(w)
    BY <2>1 DEF Locks
  <2>2. CASE Commits(w)
    <3>1. SameOrigin(Claimed(wk[w].row), wk[w].row)
      BY <1>1, OriginKept
    <3>2. QED
      BY <1>1, <2>2, <3>1 DEF Commits, WorkerState
  <2>3. CASE Decides(w)
    <3>1. PICK st \in {"completed", "failed"},
               ta \in {"none", "ok", "failed"} :
            wk'[w] = [wk[w] EXCEPT !.pc = "saving", !.tally = ta,
                                   !.row = [wk[w].row EXCEPT !.status = st]]
      BY <2>3 DEF Decides
    <3>2. SameOrigin([wk[w].row EXCEPT !.status = st], wk[w].row)
      BY <1>1, OriginKept
    <3>3. wk[w].pc # "idle"
      BY <2>3 DEF Decides
    <3>4. QED
      BY <1>1, <3>1, <3>2, <3>3 DEF WorkerState
  <2>4. CASE Leaves(w) \/ Loads(w) \/ Saves(w) \/ Tallies(w)
    BY <1>1, <2>4 DEF Leaves, Loads, Saves, Tallies, SameOrigin, Idle, WorkerState
  <2>5. QED
    BY <2>1, <2>2, <2>3, <2>4 DEF WorkerMove
<1>4. \A v \in Workers : wk[v].pc # "idle" => wk[v].job \in Jobs
  BY DEF ClaimInv, WorkerInv
<1>5. \A c \in Cancels : can[c].pc = "writing" => can[c].job \in Jobs
  BY DEF ClaimInv, CancelInv
<1>6. ASSUME NEW j \in Jobs, job'[j].status = "none"
      PROVE  job'[j].source = NoSource
  BY <1>2, <1>6 DEF HoldInv, CopyInv, SameOrigin
<1>7. ASSUME NEW v \in Workers, wk'[v].pc # "idle"
      PROVE  SameOrigin(wk'[v].row, job'[wk'[v].job])
  <2>1. CASE v = w
    BY <1>1, <1>2, <1>3, <1>4, <1>7, <2>1 DEF HoldInv, CopyInv, SameOrigin
  <2>2. CASE v # w
    BY <1>1, <1>2, <1>4, <1>7, <2>2 DEF HoldInv, CopyInv, SameOrigin
  <2>3. QED
    BY <2>1, <2>2
<1>8. ASSUME NEW c \in Cancels, can'[c].pc = "writing"
      PROVE  SameOrigin(can'[c].row, job'[can'[c].job])
  BY <1>1, <1>2, <1>5, <1>8 DEF HoldInv, CopyInv, SameOrigin
<1>9. QED
  BY <1>2, <1>6, <1>7, <1>8 DEF CopyInv

(* What a worker's step leaves alone: the other workers and their rows.    *)
LEMMA OthersKept ==
  ASSUME TypeOK, ClaimInv, NEW w \in Workers, WorkerMove(w)
  PROVE  /\ \A v \in Workers : v # w => wk'[v] = wk[v]
         /\ \A j \in Jobs : j # wk[w].job => job'[j] = job[j]
         /\ \A v \in Workers : v # w /\ wk[v].pc # "idle" =>
              /\ wk[v].job \in Jobs
              /\ job'[wk[v].job] = job[wk[v].job]
<1>1. \A j \in Jobs : j # wk[w].job => job'[j] = job[j]
  BY DEF WorkerMove, Locks, Commits, Leaves, Loads, Decides, Saves, Tallies,
         TypeOK
<1>2. ASSUME NEW v \in Workers, v # w, wk[v].pc # "idle"
      PROVE  job'[wk[v].job] = job[wk[v].job]
  <2>1. CASE wk[w].pc = "idle"
    BY <2>1 DEF WorkerMove, Locks, Commits, Leaves, Loads, Decides, Saves,
                Tallies
  <2>2. CASE wk[w].pc # "idle"
    BY <1>1, <1>2, <2>2 DEF ClaimInv, WorkerInv, OneWorkerPerJob
  <2>3. QED
    BY <2>1, <2>2
<1>3. QED
  BY <1>1, <1>2 DEF WorkerMove, ClaimInv, WorkerInv

LEMMA SettleWorker ==
  ASSUME TypeOK, ClaimInv, HoldInv, NEW w \in Workers, WorkerMove(w),
         Calm' => Calm
  PROVE  SettleInv' /\ RunningIsHeld'
<1>1. /\ wk[w] \in WorkerState /\ job \in [Jobs -> JobRow]
      /\ wk[w].row \in JobRow
      /\ wk[w].pc # "idle" => wk[w].job \in Jobs
  BY DEF TypeOK, WorkerState, ClaimInv, WorkerInv
<1>2. ASSUME NEW v \in Workers, v # w
      PROVE  /\ wk'[v] = wk[v]
             /\ wk[v].pc # "idle" => job'[wk[v].job] = job[wk[v].job]
  BY <1>2, OthersKept
<1>3. ASSUME wk[w].pc = "locked",
             job' = [job EXCEPT ![wk[w].job] = Claimed(job[wk[w].job])]
      PROVE  job'[wk[w].job].status = "running"
  BY <1>1, <1>3, OriginKept
<1>4. /\ wk'[w].pc \in {"idle", "locked", "claimed", "fetching"} =>
           wk'[w].tally = "none"
      /\ wk'[w].pc \in {"claimed", "fetching", "saving"} =>
           job'[wk'[w].job].status \in {"running", "cancelled"}
      /\ wk'[w].pc = "saving" =>
           (wk'[w].tally = "ok" <=> wk'[w].row.status = "completed")
      /\ Calm' /\ wk'[w].pc = "tallying" =>
           job'[wk'[w].job].status # "running"
  <2>1. CASE Locks(w)
    BY <2>1 DEF Locks
  <2>2. CASE Commits(w)
    BY <1>1, <1>3, <2>2 DEF Commits, HoldInv, SettleInv, WorkerState
  <2>3. CASE Leaves(w) \/ Tallies(w)
    BY <2>3 DEF Leaves, Tallies, Idle
  <2>4. CASE Loads(w)
    BY <1>1, <2>4 DEF Loads, HoldInv, SettleInv, WorkerState
  <2>5. CASE Decides(w)
    <3>1. PICK st \in {"completed", "failed"},
               ta \in {"none", "ok", "failed"} :
            /\ \/ ta = wk[w].tally /\ st = "failed"
               \/ ta # "none" /\ (ta = "ok" <=> st = "completed")
            /\ wk'[w] = [wk[w] EXCEPT !.pc = "saving", !.tally = ta,
                                     !.row = [wk[w].row EXCEPT !.status = st]]
      BY <2>5 DEF Decides
    <3>2. [wk[w].row EXCEPT !.status = st].status = st
      BY <1>1, OriginKept
    <3>3. /\ wk'[w].pc = "saving" /\ wk'[w].tally = ta
          /\ wk'[w].job = wk[w].job /\ wk'[w].row.status = st
      BY <1>1, <3>1, <3>2 DEF WorkerState
    <3>4. wk[w].tally = "none" /\ wk[w].pc # "idle"
      BY <2>5 DEF Decides, HoldInv, SettleInv
    <3>5. job'[wk[w].job].status \in {"running", "cancelled"}
      BY <2>5 DEF Decides, HoldInv, SettleInv
    <3>6. QED
      BY <3>1, <3>3, <3>4, <3>5
  <2>6. CASE Saves(w)
    <3>1. wk[w].row.status \in {"completed", "failed"} /\ wk[w].job \in Jobs
      BY <2>6 DEF Saves, ClaimInv, WorkerInv
    <3>2. Calm' => job'[wk[w].job].status \in {"completed", "failed"}
      BY <1>1, <2>6, <3>1 DEF Saves
    <3>3. \/ wk'[w] = Idle
          \/ wk'[w].pc = "tallying" /\ wk'[w].job = wk[w].job
      <4>1. CASE wk[w].tally = "none"
        BY <2>6, <4>1 DEF Saves
      <4>2. CASE wk[w].tally # "none"
        BY <1>1, <2>6, <4>2 DEF Saves, WorkerState
      <4>3. QED
        BY <4>1, <4>2
    <3>4. QED
      BY <3>2, <3>3 DEF Idle
  <2>7. QED
    BY <2>1, <2>2, <2>3, <2>4, <2>5, <2>6 DEF WorkerMove
<1>5. SettleInv'
  <2>1. ASSUME NEW v \in Workers, v # w
        PROVE  /\ wk'[v].pc \in {"idle", "locked", "claimed", "fetching"} =>
                    wk'[v].tally = "none"
               /\ wk'[v].pc \in {"claimed", "fetching", "saving"} =>
                    job'[wk'[v].job].status \in {"running", "cancelled"}
               /\ wk'[v].pc = "saving" =>
                    (wk'[v].tally = "ok" <=> wk'[v].row.status = "completed")
               /\ Calm' /\ wk'[v].pc = "tallying" =>
                    job'[wk'[v].job].status # "running"
    BY <1>2, <2>1 DEF HoldInv, SettleInv
  <2>2. QED
    BY <1>4, <2>1 DEF SettleInv
<1>6. ASSUME Calm', NEW j \in Jobs, job'[j].status = "running"
      PROVE  \E v \in Workers : /\ wk'[v].job = j
                                /\ wk'[v].pc \notin {"idle", "locked"}
  <2>1. CASE Commits(w) /\ wk[w].job = j
    BY <1>1, <2>1 DEF Commits, WorkerState
  <2>2. CASE Saves(w) /\ wk[w].job = j
    BY <1>1, <1>6, <2>2 DEF Saves, ClaimInv, WorkerInv
  <2>3. CASE wk[w].job # j \/ ~(Commits(w) \/ Saves(w))
    <3>1. job'[j] = job[j]
      BY <1>6, <2>3, OthersKept DEF WorkerMove, Locks, Leaves, Loads, Decides,
                                    Tallies
    <3>2. PICK v \in Workers : /\ wk[v].job = j
                               /\ wk[v].pc \notin {"idle", "locked"}
      BY <1>6, <3>1 DEF HoldInv, RunningIsHeld, JobsWith, Held, Executes
    <3>3. CASE v = w
      <4>1. ~Tallies(w)
        BY <1>6, <3>1, <3>2, <3>3 DEF Tallies, HoldInv, SettleInv
      <4>2. Loads(w) \/ Decides(w)
        BY <2>3, <3>2, <3>3, <4>1 DEF WorkerMove, Locks, Leaves
      <4>3. wk'[w].job = j /\ wk'[w].pc \in {"fetching", "saving"}
        BY <1>1, <3>2, <3>3, <4>2 DEF Loads, Decides, WorkerState
      <4>4. QED
        BY <4>3
    <3>4. QED
      BY <1>2, <3>2, <3>3
  <2>4. QED
    BY <2>1, <2>2, <2>3
<1>7. RunningIsHeld'
  BY <1>6 DEF RunningIsHeld, JobsWith, Held, Executes
<1>8. QED
  BY <1>5, <1>7

LEMMA HoldStep ==
  ASSUME TypeOK, ClaimInv, HoldInv, [Next]_vars
  PROVE  HoldInv'
<1>1. Calm' => Calm
  BY CalmWasCalm
<1>2. /\ \A w \in Workers : wk[w].pc # "idle" =>
           wk[w].job \in Jobs /\ job[wk[w].job].status # "none"
      /\ \A c \in Cancels : can[c].pc = "writing" =>
           can[c].job \in Jobs /\ job[can[c].job].status # "none"
  BY DEF ClaimInv, WorkerInv, CancelInv
<1>3. ASSUME NEW w \in Workers, WorkerMove(w)  PROVE HoldInv'
  BY <1>1, <1>3, CopyWorker, SettleWorker DEF HoldInv
<1>4. CASE Insertion
  <2>1. PICK j \in Jobs : /\ job[j].status = "none"
                          /\ job'[j].status = "pending"
                          /\ \A k \in Jobs : k # j => job'[k] = job[k]
                          /\ UNCHANGED <<wk, can>>
    BY <1>4 DEF Insertion, Inserts, NewScrapingJob, TypeOK
  <2>2. CopyInv'
    BY <1>2, <2>1 DEF HoldInv, CopyInv
  <2>3. SettleInv'
    BY <1>1, <1>2, <2>1 DEF HoldInv, SettleInv
  <2>4. RunningIsHeld'
    BY <1>1, <2>1 DEF HoldInv, RunningIsHeld, JobsWith, Held, Executes
  <2>5. QED
    BY <2>2, <2>3, <2>4 DEF HoldInv
<1>5. ASSUME NEW c \in Cancels, ReadsJob(c)  PROVE HoldInv'
  <2>1. PICK j \in Jobs :
               /\ can'[c].pc = "writing" /\ can'[c].job = j
               /\ can'[c].row = [job[j] EXCEPT !.status = "cancelled"]
    BY <1>5 DEF ReadsJob
  <2>2. SameOrigin(can'[c].row, job[j])
    BY <2>1, OriginKept DEF TypeOK
  <2>3. CopyInv'
    BY <1>5, <2>1, <2>2 DEF ReadsJob, HoldInv, CopyInv
  <2>4. SettleInv' /\ RunningIsHeld'
    BY <1>1, <1>5 DEF ReadsJob, HoldInv, SettleInv, RunningIsHeld, JobsWith,
                      Held, Executes
  <2>5. QED
    BY <2>3, <2>4 DEF HoldInv
<1>6. ASSUME NEW c \in Cancels, WritesJob(c)  PROVE HoldInv'
  <2> DEFINE j == can[c].job
  <2>1. /\ j \in Jobs /\ job[j].status # "none" /\ UNCHANGED wk
        /\ job'[j].status = "cancelled"
        /\ SameOrigin(job'[j], job[j])
        /\ \A k \in Jobs : k # j => job'[k] = job[k]
        /\ can'[c].pc = "idle"
        /\ \A d \in Cancels : d # c => can'[d] = can[d]
    BY <1>2, <1>6 DEF WritesJob, TypeOK, ClaimInv, CancelInv, HoldInv, CopyInv,
                      NoCancel
  <2> HIDE DEF j
  <2>2. CopyInv'
    BY <1>2, <2>1 DEF HoldInv, CopyInv, SameOrigin
  <2>3. SettleInv'
    BY <1>1, <1>2, <2>1 DEF HoldInv, SettleInv
  <2>4. RunningIsHeld'
    BY <1>1, <2>1 DEF HoldInv, RunningIsHeld, JobsWith, Held, Executes
  <2>5. QED
    BY <2>2, <2>3, <2>4 DEF HoldInv
<1>7. CASE Forgets
  BY <1>7 DEF Forgets, HoldInv, CopyInv, SettleInv, RunningIsHeld, Idle, NoCancel
<1>8. CASE UNCHANGED <<job, wk, can>>
  BY <1>1, <1>8 DEF HoldInv, CopyInv, SettleInv, RunningIsHeld, JobsWith, Held,
                    Executes
<1>9. QED
  BY <1>3, <1>4, <1>5, <1>6, <1>7, <1>8, JobSteps

LEMMA HoldInvariant == Spec => []HoldInv
<1>1. TypeOK /\ ClaimInv /\ HoldInv /\ [Next]_vars => HoldInv'
  BY HoldStep
<1>2. QED
  BY <1>1, HoldInit, TypeCorrect, ClaimInvariant, PTL DEF Spec

(* While no call has failed and the process was not told to stop, a row in *)
(* state running has a worker behind it.                                   *)
THEOREM RunningHeld == Spec => []RunningIsHeld
<1>1. HoldInv => RunningIsHeld
  BY DEF HoldInv
<1>2. QED
  BY <1>1, HoldInvariant, PTL

(* A finished row is only ever rewritten by a late cancel, or by the       *)
(* worker that was executing the job when a late cancel struck.            *)
THEOREM LateCancelOnly == Spec => OnlyLateCancelRewrites
<1> DEFINE Rewrites ==
      \A j \in Jobs :
        job[j].status \in Terminal /\ job'[j] # job[j] =>
          \/ \E c \in Cancels : /\ can[c].job = j
                                /\ can'[c] = NoCancel
                                /\ job'[j].status = "cancelled"
          \/ /\ job[j].status = "cancelled"
             /\ Held(j)
<1>1. ASSUME TypeOK, ClaimInv, HoldInv, [Next]_vars  PROVE Rewrites
  <2> SUFFICES ASSUME NEW j \in Jobs, job[j].status \in Terminal,
                      job'[j] # job[j]
               PROVE  \/ \E c \in Cancels : /\ can[c].job = j
                                            /\ can'[c] = NoCancel
                                            /\ job'[j].status = "cancelled"
                      \/ job[j].status = "cancelled" /\ Held(j)
    OBVIOUS
  <2>1. ASSUME NEW w \in Workers, WorkerMove(w)
        PROVE  job[j].status = "cancelled" /\ Held(j)
    <3>1. j = wk[w].job
      BY <1>1, <2>1, OthersKept
    <3>2. CASE Saves(w)
      BY <1>1, <3>1, <3>2 DEF Saves, HoldInv, SettleInv, Held, Executes, Terminal
    <3>3. CASE wk[w].pc = "locked"
      BY <1>1, <3>1, <3>3 DEF ClaimInv, WorkerInv, Terminal
    <3>4. QED
      BY <2>1, <3>2, <3>3 DEF WorkerMove, Locks, Commits, Leaves, Loads, Decides,
                              Tallies
  <2>2. CASE Insertion
    BY <1>1, <2>2 DEF Insertion, Inserts, Terminal, TypeOK
  <2>3. ASSUME NEW c \in Cancels, WritesJob(c)
        PROVE  /\ can[c].job = j /\ can'[c] = NoCancel
               /\ job'[j].status = "cancelled"
    BY <1>1, <2>3 DEF WritesJob, ClaimInv, CancelInv, TypeOK
  <2>4. CASE UNCHANGED job
    BY <2>4
  <2>5. QED
    BY <1>1, <2>1, <2>2, <2>3, <2>4, JobSteps DEF ReadsJob, Forgets
<1>2. QED
  BY <1>1, TypeCorrect, ClaimInvariant, HoldInvariant, PTL
     DEF Spec, OnlyLateCancelRewrites
-----------------------------------------------------------------------------
(***************************************************************************)
(* The counters of a source.  What bounds them is the number of its jobs   *)
(* that left the queue: each such job is counted at most once, by the      *)
(* worker that executes it.  The room between the two never shrinks but by *)
(* a call that records a result, so it bounds an old copy as well.         *)
(***************************************************************************)
Executing(s) == {w \in Workers : /\ wk[w].pc \notin {"idle", "locked"}
                                 /\ wk[w].row.source = s}
Ran(s) == JobsOf(s) \ JobsWith("pending")

LEMMA FiniteBases == IsFiniteSet(Jobs) /\ IsFiniteSet(Workers)
<1>1. MaxJobs \in Nat /\ IsFiniteSet(Workers)
  BY JobTableAssumption, ScrapingAssumption
     DEF JobTableAssumption, ScrapingAssumption
<1>2. IsFiniteSet(1 .. MaxJobs)
  BY <1>1, FS_Interval
<1>3. QED
  BY <1>1, <1>2 DEF Jobs

LEMMA FiniteCounts ==
  ASSUME NEW s
  PROVE  /\ IsFiniteSet(Executing(s)) /\ IsFiniteSet(Ran(s))
         /\ Cardinality(Executing(s)) \in Nat /\ Cardinality(Ran(s)) \in Nat
<1>1. IsFiniteSet(Jobs) /\ IsFiniteSet(Workers)
  BY FiniteBases
<1>2. Executing(s) \subseteq Workers /\ Ran(s) \subseteq Jobs
  BY DEF Executing, Ran, JobsOf
<1>3. IsFiniteSet(Executing(s)) /\ IsFiniteSet(Ran(s))
  <2>1. IsFiniteSet(Executing(s))
    BY <1>1, <1>2, FS_Subset
  <2>2. IsFiniteSet(Ran(s))
    BY <1>1, <1>2, FS_Subset
  <2>3. QED
    BY <2>1, <2>2
<1>4. QED
  BY <1>3, FS_CardinalityType

LEMMA FiniteCountsNext ==
  ASSUME NEW s
  PROVE  /\ IsFiniteSet(Executing(s)') /\ IsFiniteSet(Ran(s)')
         /\ Cardinality(Executing(s)') \in Nat /\ Cardinality(Ran(s)') \in Nat
<1>1. IsFiniteSet(Jobs) /\ IsFiniteSet(Workers)
  BY FiniteBases
<1>2. Executing(s)' \subseteq Workers /\ Ran(s)' \subseteq Jobs
  BY DEF Executing, Ran, JobsOf
<1>3. IsFiniteSet(Executing(s)') /\ IsFiniteSet(Ran(s)')
  <2>1. IsFiniteSet(Executing(s)')
    BY <1>1, <1>2, FS_Subset
  <2>2. IsFiniteSet(Ran(s)')
    BY <1>1, <1>2, FS_Subset
  <2>3. QED
    BY <2>1, <2>2
<1>4. QED
  BY <1>3, FS_CardinalityType

(* No step brings the jobs that ran closer to the executions counted.      *)
LEMMA RoomKept ==
  ASSUME TypeOK, ClaimInv, HoldInv, [Next]_vars, NEW s \in Sources
  PROVE  Cardinality(Executing(s)') + Cardinality(Ran(s))
           <= Cardinality(Ran(s)') + Cardinality(Executing(s))
<1>1. ASSUME Executing(s)' \subseteq Executing(s), Ran(s) \subseteq Ran(s)'
      PROVE  Cardinality(Executing(s)') + Cardinality(Ran(s))
               <= Cardinality(Ran(s)') + Cardinality(Executing(s))
  <2>1. /\ Cardinality(Executing(s)') <= Cardinality(Executing(s))
        /\ Cardinality(Ran(s)) <= Cardinality(Ran(s)')
    BY <1>1, FiniteCounts, FiniteCountsNext, FS_Subset
  <2>2. QED
    BY <2>1, FiniteCounts, FiniteCountsNext
<1>2. ASSUME \A j \in Jobs : /\ SameOrigin(job'[j], job[j])
                             /\ job'[j].status = "pending" =>
                                  job[j].status = "pending"
      PROVE  Ran(s) \subseteq Ran(s)'
  BY <1>2 DEF Ran, JobsOf, JobsWith, SameOrigin
<1>3. ASSUME NEW w \in Workers, WorkerMove(w)
      PROVE  Cardinality(Executing(s)') + Cardinality(Ran(s))
               <= Cardinality(Ran(s)') + Cardinality(Executing(s))
  <2>1. \A j \in Jobs : SameOrigin(job'[j], job[j])
    BY <1>3, CopyWorker
  <2>2. \A j \in Jobs : job'[j].status = "pending" => job[j].status = "pending"
    <3>1. CASE Saves(w)
      BY <3>1 DEF Saves, ClaimInv, WorkerInv, TypeOK
    <3>2. CASE wk[w].pc = "locked"
      BY <1>3, <3>2, OthersKept DEF ClaimInv, WorkerInv
    <3>3. QED
      BY <1>3, <3>1, <3>2 DEF WorkerMove, Locks, Commits, Leaves, Loads,
                              Decides, Tallies
  <2>3. CASE Commits(w)
    <3> DEFINE j == wk[w].job
    <3>1. /\ j \in Jobs /\ job[j].status = "pending"
          /\ SameOrigin(wk[w].row, job[j])
      BY <2>3 DEF Commits, ClaimInv, WorkerInv, HoldInv, CopyInv
    <3>2. /\ job'[j].status = "running" /\ wk'[w].pc = "claimed"
          /\ wk'[w].row.source = wk[w].row.source
      <4>1. job'[j].status = "running"
        BY <2>3, <3>1 DEF Commits, Claimed, TypeOK, JobRow
      <4>2. wk'[w].pc = "claimed" /\ wk'[w].row = Claimed(wk[w].row)
        BY <2>3 DEF Commits, TypeOK, WorkerState
      <4>3. wk[w].row \in JobRow
        BY DEF TypeOK, WorkerState
      <4>4. QED
        BY <4>1, <4>2, <4>3 DEF Claimed, JobRow
    <3>3. \A v \in Workers : v # w => wk'[v] = wk[v]
      BY <1>3 DEF WorkerMove
    <3>4. \A k \in Jobs : k # j => job'[k] = job[k]
      BY <1>3, OthersKept
    <3> HIDE DEF j
    <3>5. CASE wk[w].row.source = s
      <4>1. /\ Executing(s)' = Executing(s) \cup {w}
            /\ w \notin Executing(s)
        BY <2>3, <3>2, <3>3, <3>5 DEF Commits, Executing
      <4>2. Ran(s)' = Ran(s) \cup {j} /\ j \notin Ran(s)
        BY <2>1, <3>1, <3>2, <3>4, <3>5 DEF Ran, JobsOf, JobsWith, SameOrigin
      <4>3. /\ Cardinality(Executing(s)') = Cardinality(Executing(s)) + 1
            /\ Cardinality(Ran(s)') = Cardinality(Ran(s)) + 1
        BY <4>1, <4>2, FiniteCounts, FS_AddElement
      <4>4. QED
        BY <4>3, FiniteCounts
    <3>6. CASE wk[w].row.source # s
      <4>1. Executing(s)' \subseteq Executing(s)
        BY <3>2, <3>3, <3>6 DEF Executing
      <4>2. QED
        BY <1>1, <1>2, <2>1, <2>2, <4>1
    <3>7. QED
      BY <3>5, <3>6
  <2>4. CASE ~Commits(w)
    <3>1. wk'[w].pc \notin {"idle", "locked"} =>
            /\ wk[w].pc \notin {"idle", "locked"}
            /\ wk'[w].row.source = wk[w].row.source
      <4>1. CASE Decides(w)
        <5>1. PICK st \in {"completed", "failed"},
                   ta \in {"none", "ok", "failed"} :
                wk'[w] = [wk[w] EXCEPT !.pc = "saving", !.tally = ta,
                                     !.row = [wk[w].row EXCEPT !.status = st]]
          BY <4>1 DEF Decides
        <5>2. QED
          BY <4>1, <5>1 DEF Decides, TypeOK, WorkerState, JobRow
      <4>2. CASE Saves(w)
        BY <4>2 DEF Saves, Idle, TypeOK, WorkerState
      <4>3. CASE Loads(w)
        BY <4>3 DEF Loads, TypeOK, WorkerState
      <4>4. CASE Locks(w) \/ Leaves(w) \/ Tallies(w)
        <5>1. wk'[w].pc \in {"idle", "locked"}
          <6>1. CASE Locks(w)
            BY <6>1 DEF Locks
          <6>2. CASE Leaves(w) \/ Tallies(w)
            BY <6>2 DEF Leaves, Tallies, Idle
          <6>3. QED
            BY <4>4, <6>1, <6>2
        <5>2. QED
          BY <5>1
      <4>5. QED
        BY <1>3, <2>4, <4>1, <4>2, <4>3, <4>4 DEF WorkerMove
    <3>2. Executing(s)' \subseteq Executing(s)
      BY <1>3, <3>1 DEF Executing, WorkerMove
    <3>3. QED
      BY <1>1, <1>2, <2>1, <2>2, <3>2
  <2>5. QED
    BY <2>3, <2>4
<1>4. CASE Insertion
  <2>1. PICK j \in Jobs : /\ job[j].status = "none"
                          /\ \A k \in Jobs : k # j => job'[k] = job[k]
                          /\ UNCHANGED wk
    BY <1>4 DEF Insertion, Inserts, TypeOK
  <2>2. j \notin Ran(s)
    BY <2>1, JobTableAssumption
       DEF Ran, JobsOf, HoldInv, CopyInv, JobTableAssumption
  <2>3. Ran(s) \subseteq Ran(s)' /\ Executing(s)' \subseteq Executing(s)
    BY <2>1, <2>2 DEF Ran, JobsOf, JobsWith, Executing
  <2>4. QED
    BY <1>1, <2>3
<1>5. ASSUME NEW c \in Cancels, WritesJob(c)
      PROVE  /\ Executing(s)' \subseteq Executing(s)
             /\ Ran(s) \subseteq Ran(s)'
  <2>1. \A j \in Jobs : /\ SameOrigin(job'[j], job[j])
                        /\ job'[j].status = "pending" =>
                             job[j].status = "pending"
    BY <1>5 DEF WritesJob, TypeOK, ClaimInv, CancelInv, HoldInv, CopyInv,
                SameOrigin
  <2>2. QED
    BY <1>2, <1>5, <2>1 DEF WritesJob, Executing
<1>6. CASE Forgets \/ UNCHANGED <<job, wk>>
  <2>1. /\ Executing(s)' \subseteq Executing(s)
        /\ Ran(s) \subseteq Ran(s)'
    BY <1>6 DEF Forgets, Executing, Ran, JobsOf, JobsWith, Idle
  <2>2. QED
    BY <1>1, <2>1
<1>7. QED
  BY <1>1, <1>3, <1>4, <1>5, <1>6, JobSteps DEF ReadsJob

(***************************************************************************)
(* What others may rely on while a worker fetches: its job is its own, has *)
(* left the queue for good, and keeps its source.                          *)
(***************************************************************************)
PoolInv == TypeOK /\ ClaimInv /\ HoldInv

LeftQueue(j)  == job[j].status \notin {"none", "pending"}
Attends(w, j) == /\ wk[w].pc \in {"locked", "claimed", "fetching"}
                 /\ wk[w].job = j

FetchedAlone ==
  \A w \in Workers : wk[w].pc = "fetching" =>
    /\ wk[w].job \in Jobs /\ LeftQueue(wk[w].job)
    /\ wk[w].row.source = job[wk[w].job].source
    /\ \A v \in Workers : Attends(v, wk[w].job) => v = w

JobsStayOut ==
  \A j \in Jobs : LeftQueue(j) =>
    /\ LeftQueue(j)' /\ job'[j].source = job[j].source
    /\ \A w \in Workers : Attends(w, j)' => Attends(w, j)

LEMMA FetchingIsAlone == PoolInv => FetchedAlone
BY DEF PoolInv, FetchedAlone, LeftQueue, Attends, ClaimInv, WorkerInv,
       OneWorkerPerJob, HoldInv, CopyInv, SameOrigin

LEMMA OutForGood ==
  ASSUME PoolInv, [Next]_vars
  PROVE  JobsStayOut
<1> USE DEF PoolInv
<1> SUFFICES ASSUME NEW j \in Jobs, LeftQueue(j)
             PROVE  /\ LeftQueue(j)' /\ job'[j].source = job[j].source
                    /\ \A w \in Workers : Attends(w, j)' => Attends(w, j)
  BY DEF JobsStayOut
<1>1. ASSUME NEW w \in Workers, WorkerMove(w)
      PROVE  /\ LeftQueue(j)' /\ job'[j].source = job[j].source
             /\ \A v \in Workers : Attends(v, j)' => Attends(v, j)
  <2>1. SameOrigin(job'[j], job[j])
    BY <1>1, CopyWorker
  <2>2. LeftQueue(j)'
    <3>1. CASE j = wk[w].job
      <4>1. wk[w].pc # "locked"
        BY <3>1 DEF LeftQueue, ClaimInv, WorkerInv
      <4>2. CASE Saves(w)
        BY <3>1, <4>2 DEF Saves, LeftQueue, ClaimInv, WorkerInv, TypeOK
      <4>3. CASE ~Saves(w)
        <5>1. UNCHANGED job
          BY <1>1, <4>1, <4>3 DEF WorkerMove, Locks, Commits, Leaves, Loads,
                                  Decides, Tallies
        <5>2. QED
          BY <5>1 DEF LeftQueue
      <4>4. QED
        BY <4>2, <4>3
    <3>2. CASE j # wk[w].job
      BY <1>1, <3>2, OthersKept DEF LeftQueue
    <3>3. QED
      BY <3>1, <3>2
  <2>3. Attends(w, j)' => Attends(w, j)
    <3>1. wk \in [Workers -> WorkerState]
      BY DEF TypeOK
    <3>2. CASE Locks(w)
      BY <3>2 DEF Locks, Attends, LeftQueue
    <3>3. CASE Commits(w) \/ Loads(w)
      BY <3>1, <3>3 DEF Commits, Loads, Attends, WorkerState
    <3>4. CASE Leaves(w) \/ Tallies(w)
      BY <3>4 DEF Leaves, Tallies, Attends, Idle
    <3>5. CASE Decides(w)
      BY <3>1, <3>5 DEF Decides, Attends, WorkerState
    <3>6. CASE Saves(w)
      BY <3>1, <3>6 DEF Saves, Attends, WorkerState, Idle
    <3>7. QED
      BY <1>1, <3>2, <3>3, <3>4, <3>5, <3>6 DEF WorkerMove
  <2>4. \A v \in Workers : v # w => (Attends(v, j)' => Attends(v, j))
    BY <1>1 DEF WorkerMove, Attends
  <2>5. QED
    BY <2>1, <2>2, <2>3, <2>4 DEF SameOrigin
<1>2. CASE Insertion
  BY <1>2 DEF Insertion, Inserts, LeftQueue, Attends, TypeOK
<1>3. ASSUME NEW c \in Cancels, WritesJob(c)
      PROVE  /\ LeftQueue(j)' /\ job'[j].source = job[j].source
             /\ \A w \in Workers : Attends(w, j)' => Attends(w, j)
  BY <1>3 DEF WritesJob, LeftQueue, Attends, TypeOK, ClaimInv, CancelInv,
              HoldInv, CopyInv, SameOrigin
<1>4. CASE Forgets \/ UNCHANGED <<job, wk>>
  BY <1>4 DEF Forgets, LeftQueue, Attends, Idle
<1>5. QED
  BY <1>1, <1>2, <1>3, <1>4, JobSteps DEF ReadsJob

LEMMA PoolInit == Init => PoolInv
BY TypeInit, ClaimInit, HoldInit DEF PoolInv

LEMMA PoolStep == PoolInv /\ [Next]_vars => PoolInv'
BY TypeStep, ClaimStep, HoldStep DEF PoolInv

(***************************************************************************)
(* What the steps do to the rows of sources and to the copies of them.     *)
(***************************************************************************)
Advances(s) ==
  /\ src' = [src EXCEPT ![s] = [src[s] EXCEPT !.nextRun = clock + 1]]
  /\ UNCHANGED ed

Disables(s) ==
  /\ src' = [src EXCEPT ![s] = [src[s] EXCEPT !.active = FALSE]]
  /\ UNCHANGED ed

ReadsSource(e, s) ==
  /\ UNCHANGED src
  /\ ed'[e].source = s /\ ed'[e].row = src[s]
  /\ \A d \in Editors : d # e => ed'[d] = ed[d]

WritesSource(e) ==
  /\ ed[e].pc = "writing"
  /\ \E a, b \in BOOLEAN :
       src' = [src EXCEPT ![ed[e].source] =
                 [ed[e].row EXCEPT !.active = a, !.cron = b]]
  /\ ed'[e] = NoEdit
  /\ \A d \in Editors : d # e => ed'[d] = ed[d]

LEMMA SourceSteps ==
  ASSUME TypeOK, [Next]_vars
  PROVE  \/ \E w \in Workers : WorkerMove(w) /\ Tallies(w)
         \/ \E s \in Sources : Advances(s) \/ Disables(s)
         \/ \E e \in Editors : \/ \E s \in Sources : ReadsSource(e, s)
                               \/ WritesSource(e)
         \/ UNCHANGED src /\ \A e \in Editors : ed'[e] = NoEdit
         \/ UNCHANGED <<src, ed>>
<1>1. ASSUME NEW w \in Workers, WorkerStep(w)
      PROVE  WorkerMove(w) /\ (Tallies(w) \/ UNCHANGED <<src, ed>>)
  BY <1>1, WorkerMoves
     DEF WorkerMove, Locks, Commits, Leaves, Loads, Decides, Saves
<1>2. CASE SchedStep
  <2>1. ASSUME UpdateNextRunAt(sched.cur), UNCHANGED ed,
               sched.cur \in Sources
        PROVE  Advances(sched.cur)
    BY <2>1 DEF UpdateNextRunAt, NextRunFromCron, Advances, TypeOK
  <2>2. sched.cur # NoSource => sched.cur \in Sources
    BY DEF TypeOK, SchedState
  <2>3. QED
    BY <1>2, <2>1, <2>2 DEF SchedStep, SchedFrame, SchedTick, SchedNext,
                            SchedCreate, SchedAdvance
<1>3. ASSUME NEW s \in Sources, Delete(s)  PROVE Disables(s)
  BY <1>3 DEF Delete, DeleteSource, Disables, TypeOK
<1>4. ASSUME NEW e \in Editors, NEW s \in Sources, EditRead(e, s)
      PROVE  ReadsSource(e, s)
  BY <1>4 DEF EditRead, ReadsSource, TypeOK
<1>5. ASSUME NEW e \in Editors, NEW a \in BOOLEAN, NEW b \in BOOLEAN,
             EditWrite(e, a, b)
      PROVE  WritesSource(e)
  BY <1>5 DEF EditWrite, UpdateSource, WritesSource, TypeOK
<1>6. CASE HandlerStep
  BY <1>3, <1>4, <1>5, <1>6
     DEF HandlerStep, HandlerFrame, Trigger, Retry, CancelRead, CancelWrite
<1>7. CASE Tick \/ BeginShutdown \/ Die \/ Restart \/ UNCHANGED vars
  BY <1>7 DEF Tick, BeginShutdown, Die, Restart, vars, requests, tables
<1>8. QED
  BY <1>1, <1>2, <1>6, <1>7 DEF Next

(* r counts no more runs of s than there is room for.                      *)
Bounded(r, s) ==
  /\ r.total = r.ok + r.failed
  /\ r.total + Cardinality(Executing(s)) <= Cardinality(Ran(s))

(* Nor does the copy of a source that an update request has yet to write.  *)
CountInv ==
  /\ \A s \in Sources : Bounded(src[s], s)
  /\ \A e \in Editors, s \in Sources :
       ed[e].source = s => Bounded(ed[e].row, s)

LEMMA CountInit ==
  ASSUME Init
  PROVE  CountInv
<1>1. ASSUME NEW s
      PROVE  Cardinality(Executing(s)) = 0
  <2>1. Executing(s) = {}
    BY DEF Init, Idle, Executing
  <2>2. QED
    BY <2>1, FS_EmptySet
<1>2. ASSUME NEW s \in Sources, NEW b \in BOOLEAN
      PROVE  Bounded(NewSource(b), s)
  BY <1>1, FiniteCounts DEF Bounded, NewSource
<1>3. \A s \in Sources : Bounded(src[s], s)
  BY <1>2 DEF Init
<1>4. \A e \in Editors : ed[e].pc = "idle" /\ ed[e].source \notin Sources
  BY JobTableAssumption DEF Init, NoEdit, JobTableAssumption
<1>5. QED
  BY <1>3, <1>4 DEF CountInv

(* What RecordJobResult adds to the counters of a source.                  *)
LEMMA RunIsCounted ==
  ASSUME NEW s \in Sources, NEW ok \in BOOLEAN,
         src \in [Sources -> SourceRow], RecordJobResult(s, ok)
  PROVE  /\ src'[s].total = src[s].total + 1
         /\ src'[s].ok = IF ok THEN src[s].ok + 1 ELSE src[s].ok
         /\ src'[s].failed = IF ok THEN src[s].failed ELSE src[s].failed + 1
<1> DEFINE n == IF ok THEN src[s].ok + 1 ELSE src[s].ok
           m == IF ok THEN src[s].failed ELSE src[s].failed + 1
<1>1. src' = [src EXCEPT ![s] = [src[s] EXCEPT !.total = src[s].total + 1,
                                               !.ok = n, !.failed = m]]
  BY DEF RecordJobResult, SourceRow
<1>2. src[s] \in SourceRow
  OBVIOUS
<1> HIDE DEF n, m
<1>3. src'[s] = [src[s] EXCEPT !.total = src[s].total + 1,
                               !.ok = n, !.failed = m]
  BY <1>1
<1>4. src'[s].total = src[s].total + 1 /\ src'[s].ok = n /\ src'[s].failed = m
  BY <1>2, <1>3 DEF SourceRow
<1>5. QED
  BY <1>4 DEF n, m

LEMMA CountStep ==
  ASSUME TypeOK, ClaimInv, HoldInv, CountInv, [Next]_vars
  PROVE  CountInv'
<1> DEFINE Fits(q, s) ==
      /\ q.total = q.ok + q.failed
      /\ q.total + Cardinality(Executing(s)') <= Cardinality(Ran(s)')
<1>1. ASSUME NEW r \in SourceRow, NEW s \in Sources, Bounded(r, s),
             NEW q, q.total = r.total, q.ok = r.ok, q.failed = r.failed
      PROVE  Fits(q, s)
  <2>1. Cardinality(Executing(s)') + Cardinality(Ran(s))
          <= Cardinality(Ran(s)') + Cardinality(Executing(s))
    BY RoomKept
  <2>2. r.total \in Nat
    BY DEF SourceRow
  <2>3. r.total + Cardinality(Executing(s)') <= Cardinality(Ran(s)')
    BY <1>1, <2>1, <2>2, FiniteCounts, FiniteCountsNext DEF Bounded
  <2>4. QED
    BY <1>1, <2>3 DEF Bounded
<1> HIDE DEF Fits
<1>2. /\ \A s \in Sources : src[s] \in SourceRow
      /\ \A e \in Editors : ed[e].row \in SourceRow
  BY DEF TypeOK, EditState
<1>3. /\ \A s \in Sources : Fits(src[s], s)
      /\ \A e \in Editors, s \in Sources :
           ed[e].source = s => Fits(ed[e].row, s)
  BY <1>1, <1>2 DEF CountInv
<1>4. SUFFICES
        /\ \A s \in Sources : Fits(src'[s], s)
        /\ \A e \in Editors, s \in Sources :
             ed'[e].source = s => Fits(ed'[e].row, s)
  BY Zenon DEF CountInv, Bounded, Fits
<1>5. ASSUME NEW e \in Editors, ed'[e] = ed[e],
             NEW s \in Sources, ed'[e].source = s
      PROVE  Fits(ed'[e].row, s)
  BY <1>3, <1>5
<1>6. ASSUME NEW e \in Editors, ed'[e] = NoEdit
      PROVE  ed'[e].source \notin Sources
  BY <1>6, JobTableAssumption DEF NoEdit, JobTableAssumption
<1>7. ASSUME NEW w \in Workers, WorkerMove(w), Tallies(w),
             NEW s \in Sources
      PROVE  Fits(src'[s], s)
  <2>1. CASE src'[s] = src[s]
    BY <1>3, <2>1
  <2>2. CASE src'[s] # src[s]
    <3>1. /\ s = wk[w].row.source
          /\ RecordJobResult(s, wk[w].tally = "ok")
      <4>1. RecordJobResult(wk[w].row.source, wk[w].tally = "ok")
        BY <1>7, <2>2 DEF Tallies
      <4>2. src \in [Sources -> SourceRow]
        BY DEF TypeOK
      <4>3. s = wk[w].row.source
        BY <2>2, <4>1, <4>2 DEF RecordJobResult
      <4>4. QED
        BY <4>1, <4>3
    <3>2. /\ src[s].total \in Nat /\ src[s].ok \in Nat /\ src[s].failed \in Nat
          /\ src[s].total = src[s].ok + src[s].failed
          /\ src[s].total + Cardinality(Executing(s)) <= Cardinality(Ran(s))
      BY <1>2 DEF SourceRow, CountInv, Bounded
    <3>3. /\ src'[s].total = src[s].total + 1
          /\ src'[s].ok + src'[s].failed = src[s].ok + src[s].failed + 1
      <4>1. /\ src'[s].total = src[s].total + 1
            /\ \/ /\ src'[s].ok = src[s].ok + 1
                  /\ src'[s].failed = src[s].failed
               \/ /\ src'[s].ok = src[s].ok
                  /\ src'[s].failed = src[s].failed + 1
        <5>1. (wk[w].tally = "ok") \in BOOLEAN /\ src \in [Sources -> SourceRow]
          BY DEF TypeOK
        <5>2. QED
          BY <3>1, <5>1, RunIsCounted
      <4>2. QED
        BY <3>2, <4>1
    <3>4. Executing(s)' = Executing(s) \ {w} /\ w \in Executing(s)
      BY <1>7, <3>1 DEF WorkerMove, Tallies, Idle, Executing
    <3>5. Ran(s)' = Ran(s)
      BY <1>7 DEF Tallies, Ran, JobsOf, JobsWith
    <3>6. Cardinality(Executing(s)') = Cardinality(Executing(s)) - 1
      BY <3>4, FiniteCounts, FS_RemoveElement
    <3>7. QED
      BY <3>2, <3>3, <3>5, <3>6, FiniteCounts DEF Fits
  <2>3. QED
    BY <2>1, <2>2
<1>8. ASSUME NEW s \in Sources, Advances(s) \/ Disables(s), NEW t \in Sources
      PROVE  Fits(src'[t], t)
  <2>1. CASE src'[t] = src[t]
    BY <1>3, <2>1
  <2>2. CASE src'[t] # src[t]
    <3>1. /\ t = s /\ src'[s].total = src[s].total
          /\ src'[s].ok = src[s].ok /\ src'[s].failed = src[s].failed
      BY <1>2, <1>8, <2>2 DEF Advances, Disables, TypeOK, SourceRow
    <3>2. QED
      BY <1>1, <1>2, <3>1 DEF CountInv
  <2>3. QED
    BY <2>1, <2>2
<1>9. ASSUME NEW e \in Editors, WritesSource(e), NEW t \in Sources
      PROVE  Fits(src'[t], t)
  <2>1. CASE src'[t] = src[t]
    BY <1>3, <2>1
  <2>2. CASE src'[t] # src[t]
    <3>1. /\ t = ed[e].source /\ src'[t].total = ed[e].row.total
          /\ src'[t].ok = ed[e].row.ok /\ src'[t].failed = ed[e].row.failed
      BY <1>2, <1>9, <2>2 DEF WritesSource, TypeOK, SourceRow
    <3>2. QED
      BY <1>1, <1>2, <3>1 DEF CountInv
  <2>3. QED
    BY <2>1, <2>2
<1>10. ASSUME NEW e \in Editors, NEW s \in Sources, ReadsSource(e, s)
       PROVE  ed'[e].source = s /\ Fits(ed'[e].row, s)
  BY <1>3, <1>10 DEF ReadsSource
<1>11. QED
  BY <1>3, <1>5, <1>6, <1>7, <1>8, <1>9, <1>10, SourceSteps
     DEF WorkerMove, Advances, Disables, ReadsSource, WritesSource
-----------------------------------------------------------------------------
(* At any time, a source has counted at most one run for each job that     *)
(* left the queue (the property CountersBounded of the runs).              *)
THEOREM CountersStayBounded == Spec => []CountersBounded
<1>1. Init => CountInv
  BY CountInit
<1>2. TypeOK /\ ClaimInv /\ HoldInv /\ CountInv /\ [Next]_vars => CountInv'
  BY CountStep
<1>3. CountInv => CountersBounded
  BY DEF CountInv, Bounded, CountersBounded, Executing, Ran
<1>4. QED
  BY <1>1, <1>2, <1>3, TypeCorrect, ClaimInvariant, HoldInvariant, PTL DEF Spec
-----------------------------------------------------------------------------
(***************************************************************************)
(* next_run_at, in the row and in the copies, is never past the instant    *)
(* after the present one, so a call of the scheduler never sets it back.   *)
(***************************************************************************)
TimeInv ==
  /\ \A s \in Sources : src[s].nextRun <= clock + 1
  /\ \A e \in Editors : ed[e].row.nextRun <= clock + 1

LEMMA ClockAdvances ==
  ASSUME TypeOK, [Next]_vars
  PROVE  clock' = clock \/ clock' = clock + 1
<1>1. ASSUME NEW w \in Workers, WorkerStep(w)  PROVE clock' = clock
  BY <1>1, WorkerMoves DEF WorkerMove
<1>2. CASE SchedStep
  BY <1>2 DEF SchedStep, SchedFrame, SchedTick, SchedNext, SchedCreate,
              SchedAdvance
<1>3. CASE HandlerStep
  BY <1>3 DEF HandlerStep, HandlerFrame, Trigger, Delete, Retry, CancelRead,
              CancelWrite, EditRead, EditWrite
<1>4. CASE Tick \/ BeginShutdown \/ Die \/ Restart \/ UNCHANGED vars
  BY <1>4 DEF Tick, BeginShutdown, Die, Restart, vars, tables
<1>5. QED
  BY <1>1, <1>2, <1>3, <1>4 DEF Next

LEMMA WorkerKeepsNextRun ==
  ASSUME TypeOK, NEW w \in Workers, WorkerMove(w), NEW s \in Sources
  PROVE  src'[s].nextRun = src[s].nextRun
<1>1. CASE UNCHANGED src
  BY <1>1
<1>2. CASE Tallies(w) /\ wk[w].row.source # s
  BY <1>2 DEF Tallies, RecordJobResult, TypeOK
<1>3. CASE Tallies(w) /\ wk[w].row.source = s /\ ~UNCHANGED src
  <2>1. src' = [src EXCEPT ![s].total = @ + 1,
                 ![s].ok     = IF wk[w].tally = "ok" THEN @ + 1 ELSE @,
                 ![s].failed = IF wk[w].tally = "ok" THEN @ ELSE @ + 1]
    BY <1>3 DEF Tallies, RecordJobResult
  <2>2. QED
    BY <2>1 DEF TypeOK, SourceRow
<1>4. QED
  BY <1>1, <1>2, <1>3
     DEF WorkerMove, Locks, Commits, Leaves, Loads, Decides, Saves

(* The next_run_at a step leaves behind.                                   *)
LEMMA NextRuns ==
  ASSUME TypeOK, [Next]_vars, NEW s \in Sources
  PROVE  /\ \/ src'[s].nextRun = src[s].nextRun
            \/ src'[s].nextRun = clock + 1
            \/ \E e \in Editors : /\ ed[e].source = s /\ ed'[e] = NoEdit
                                  /\ src'[s].nextRun = ed[e].row.nextRun
         /\ \A e \in Editors : \/ ed'[e] = ed[e] \/ ed'[e] = NoEdit
                               \/ \E t \in Sources : ed'[e].row = src[t]
<1>1. src[s] \in SourceRow /\ \A e \in Editors : ed[e].row \in SourceRow
  BY DEF TypeOK, EditState
<1>2. ASSUME NEW w \in Workers, WorkerMove(w), Tallies(w)
      PROVE  src'[s].nextRun = src[s].nextRun /\ UNCHANGED ed
  BY <1>2, WorkerKeepsNextRun DEF WorkerMove
<1>3. ASSUME NEW t \in Sources, Advances(t) \/ Disables(t)
      PROVE  src'[s].nextRun \in {src[s].nextRun, clock + 1} /\ UNCHANGED ed
  <2>1. CASE src'[s] = src[s]
    BY <1>3, <2>1 DEF Advances, Disables
  <2>2. CASE src'[s] # src[s]
    BY <1>1, <1>3, <2>2 DEF Advances, Disables, TypeOK, SourceRow
  <2>3. QED
    BY <2>1, <2>2
<1>4. ASSUME NEW e \in Editors, WritesSource(e)
      PROVE  \/ src'[s].nextRun = src[s].nextRun
             \/ ed[e].source = s /\ src'[s].nextRun = ed[e].row.nextRun
  <2>1. CASE src'[s] = src[s]
    BY <2>1
  <2>2. CASE src'[s] # src[s]
    BY <1>1, <1>4, <2>2 DEF WritesSource, TypeOK, SourceRow
  <2>3. QED
    BY <2>1, <2>2
<1>5. QED
  BY <1>2, <1>3, <1>4, SourceSteps DEF ReadsSource, WritesSource

LEMMA TimeStep ==
  ASSUME TypeOK, TimeInv, [Next]_vars
  PROVE  TimeInv'
<1>1. clock \in Nat /\ (clock' = clock \/ clock' = clock + 1)
  BY ClockAdvances DEF TypeOK
<1>2. /\ \A s \in Sources : src[s].nextRun \in Nat
      /\ \A e \in Editors : ed[e].row.nextRun \in Nat
  BY DEF TypeOK, EditState, SourceRow
<1>3. ASSUME NEW s \in Sources  PROVE src'[s].nextRun <= clock' + 1
  BY <1>1, <1>2, NextRuns DEF TimeInv
<1>4. ASSUME NEW e \in Editors  PROVE ed'[e].row.nextRun <= clock' + 1
  <2>1. CASE Sources = {}
    <3>1. ed'[e] = ed[e] \/ ed'[e] = NoEdit
      BY <2>1, SourceSteps DEF WorkerMove, WritesSource
    <3>2. QED
      BY <1>1, <1>2, <3>1 DEF TimeInv, NoEdit, NewSource
  <2>2. CASE Sources # {}
    <3>1. \/ ed'[e] = ed[e] \/ ed'[e] = NoEdit
          \/ \E t \in Sources : ed'[e].row = src[t]
      BY <2>2, NextRuns
    <3>2. QED
      BY <1>1, <1>2, <3>1 DEF TimeInv, NoEdit, NewSource
  <2>3. QED
    BY <2>1, <2>2
<1>5. QED
  BY <1>3, <1>4 DEF TimeInv

LEMMA TimeInit == Init => TimeInv
  BY DEF Init, TimeInv, NewSource, NoEdit

(* Nothing but an update request that read the source earlier sets its     *)
(* next_run_at back, and it sets it to what it read (the property          *)
(* OnlyStaleEditRewinds of the runs).                                      *)
THEOREM StaleEditsOnly == Spec => OnlyStaleEditRewinds
<1> DEFINE Rewinds ==
      \A s \in Sources :
        src'[s].nextRun < src[s].nextRun =>
          \E e \in Editors : /\ ed[e].source = s
                             /\ ed[e].row.nextRun = src'[s].nextRun
                             /\ ed'[e] = NoEdit
<1>1. ASSUME TypeOK, TimeInv, [Next]_vars  PROVE Rewinds
  <2>1. \A s \in Sources : src[s].nextRun \in Nat /\ src[s].nextRun <= clock + 1
    BY <1>1 DEF TypeOK, SourceRow, TimeInv
  <2>2. clock \in Nat
    BY <1>1 DEF TypeOK
  <2>3. QED
    BY <1>1, <2>1, <2>2, NextRuns
<1>2. Init => TimeInv
  BY TimeInit
<1>3. TypeOK /\ TimeInv /\ [Next]_vars => TimeInv'
  BY TimeStep
<1>4. QED
  BY <1>1, <1>2, <1>3, TypeCorrect, PTL DEF Spec, OnlyStaleEditRewinds
-----------------------------------------------------------------------------
(***************************************************************************)
(* successful_runs and the completed jobs move together: in a calm step a  *)
(* worker completes a row and owes the source a success, or pays that      *)
(* debt.  The two only drift apart by the full-row write of a request.     *)
(***************************************************************************)
Owing(s) == {w \in Workers : /\ wk[w].pc = "tallying"
                             /\ wk[w].row.source = s
                             /\ wk[w].tally = "ok"}
Done(s) == JobsOf(s) \cap JobsWith("completed")

LEMMA FiniteDebts ==
  ASSUME NEW s
  PROVE  /\ IsFiniteSet(Owing(s)) /\ IsFiniteSet(Done(s))
         /\ Cardinality(Owing(s)) \in Nat /\ Cardinality(Done(s)) \in Nat
<1>1. IsFiniteSet(Jobs) /\ IsFiniteSet(Workers)
  BY FiniteBases
<1>2. Owing(s) \subseteq Workers /\ Done(s) \subseteq Jobs
  BY DEF Owing, Done, JobsOf
<1>3. IsFiniteSet(Owing(s))
  BY <1>1, <1>2, FS_Subset
<1>4. IsFiniteSet(Done(s))
  BY <1>1, <1>2, FS_Subset
<1>5. QED
  BY <1>3, <1>4, FS_CardinalityType

(* A worker completes a job: it owes its source one success more.          *)
LEMMA DebtsOfSave ==
  ASSUME TypeOK, ClaimInv, HoldInv, NEW w \in Workers, WorkerMove(w),
         Saves(w), Calm', NEW s \in Sources
  PROVE  src'[s].ok + Cardinality(Owing(s)') + Cardinality(Done(s))
           = src[s].ok + Cardinality(Owing(s)) + Cardinality(Done(s)')
<1> DEFINE j == wk[w].job
<1>1. /\ j \in Jobs /\ job[j].status # "completed"
      /\ job[j].source = wk[w].row.source
      /\ job' = [job EXCEPT ![j] = wk[w].row]
      /\ wk[w].tally = "ok" <=> wk[w].row.status = "completed"
      /\ UNCHANGED src
  BY DEF Saves, ClaimInv, WorkerInv, HoldInv, SettleInv, CopyInv, SameOrigin
<1>2. /\ \A k \in Jobs : k # j => job'[k] = job[k]
      /\ job'[j] = wk[w].row
      /\ \A v \in Workers : v # w => wk'[v] = wk[v]
  BY <1>1 DEF TypeOK, WorkerMove
<1> HIDE DEF j
<1>3. CASE wk[w].tally = "ok" /\ wk[w].row.source = s
  <2>1. wk'[w] = [wk[w] EXCEPT !.pc = "tallying"]
    BY <1>3 DEF Saves
  <2>2. wk'[w].pc = "tallying" /\ wk'[w].row = wk[w].row /\ wk'[w].tally = "ok"
    BY <1>3, <2>1 DEF TypeOK, WorkerState
  <2>3. Owing(s)' = Owing(s) \cup {w} /\ w \notin Owing(s)
    BY <1>2, <1>3, <2>2 DEF Owing, Saves
  <2>4. Done(s)' = Done(s) \cup {j} /\ j \notin Done(s)
    BY <1>1, <1>2, <1>3 DEF Done, JobsOf, JobsWith
  <2>5. /\ Cardinality(Owing(s)') = Cardinality(Owing(s)) + 1
        /\ Cardinality(Done(s)') = Cardinality(Done(s)) + 1
    BY <2>3, <2>4, FiniteDebts, FS_AddElement
  <2>6. src[s].ok \in Nat
    BY DEF TypeOK, SourceRow
  <2>7. QED
    BY <1>1, <2>5, <2>6, FiniteDebts
<1>4. CASE ~(wk[w].tally = "ok" /\ wk[w].row.source = s)
  <2>1. Done(s)' = Done(s)
    BY <1>1, <1>2, <1>4 DEF Done, JobsOf, JobsWith
  <2>2. w \notin Owing(s)
    BY DEF Owing, Saves
  <2>3. ~(/\ wk'[w].pc = "tallying" /\ wk'[w].row.source = s
          /\ wk'[w].tally = "ok")
    <3>1. CASE wk[w].tally = "none"
      BY <3>1 DEF Saves, Idle
    <3>2. CASE wk[w].tally # "none"
      <4>1. wk'[w] = [wk[w] EXCEPT !.pc = "tallying"]
        BY <3>2 DEF Saves
      <4>2. wk'[w].row = wk[w].row /\ wk'[w].tally = wk[w].tally
        BY <4>1 DEF TypeOK, WorkerState
      <4>3. QED
        BY <1>4, <4>2
    <3>3. QED
      BY <3>1, <3>2
  <2>4. Owing(s)' = Owing(s)
    BY <1>2, <2>2, <2>3 DEF Owing
  <2>5. QED
    BY <1>1, <2>1, <2>4, FiniteDebts
<1>5. QED
  BY <1>3, <1>4

(* A worker records its result: it pays what it owes, if anything.         *)
LEMMA DebtsOfTally ==
  ASSUME TypeOK, NEW w \in Workers, WorkerMove(w), Tallies(w), Calm',
         NEW s \in Sources
  PROVE  /\ Done(s)' = Done(s)
         /\ src'[s].ok + Cardinality(Owing(s)')
              = src[s].ok + Cardinality(Owing(s))
<1>1. /\ \A v \in Workers : v # w => wk'[v] = wk[v]
      /\ w \notin Owing(s)'
      /\ Done(s)' = Done(s)
  BY DEF WorkerMove, Tallies, Idle, Owing, Done, JobsOf, JobsWith
<1>2. src[s] \in SourceRow /\ src[s].ok \in Nat
  BY DEF TypeOK, SourceRow
<1>3. RecordJobResult(wk[w].row.source, wk[w].tally = "ok")
  BY DEF Tallies
<1>4. CASE w \in Owing(s)
  <2>1. src'[s].ok = src[s].ok + 1
    BY <1>3, <1>4, RunIsCounted DEF Owing, TypeOK
  <2>2. Owing(s)' = Owing(s) \ {w}
    BY <1>1 DEF Owing
  <2>3. Cardinality(Owing(s)') = Cardinality(Owing(s)) - 1
    BY <1>4, <2>2, FiniteDebts, FS_RemoveElement
  <2>4. QED
    BY <1>1, <1>2, <2>1, <2>3, FiniteDebts
<1>5. CASE w \notin Owing(s)
  <2>1. src'[s].ok = src[s].ok
    <3>1. CASE wk[w].row.source # s
      BY <1>3, <3>1 DEF RecordJobResult, TypeOK
    <3>2. CASE wk[w].row.source = s
      <4>1. wk[w].tally # "ok"
        BY <1>5, <3>2 DEF Owing, Tallies
      <4>2. src' = [src EXCEPT ![s].total = @ + 1, ![s].ok = @,
                               ![s].failed = @ + 1]
        BY <1>3, <3>2, <4>1 DEF RecordJobResult
      <4>3. QED
        BY <1>2, <4>2 DEF TypeOK, SourceRow
    <3>3. QED
      BY <3>1, <3>2
  <2>2. Owing(s)' = Owing(s)
    BY <1>1, <1>5 DEF Owing
  <2>3. QED
    BY <1>1, <2>1, <2>2
<1>6. QED
  BY <1>4, <1>5

(* The other steps of a worker leave both alone.                           *)
LEMMA DebtsOfWorker ==
  ASSUME TypeOK, ClaimInv, HoldInv, NEW w \in Workers, WorkerMove(w),
         ~Saves(w), ~Tallies(w), Calm', NEW s \in Sources
  PROVE  /\ Done(s)' = Done(s) /\ Owing(s)' = Owing(s)
         /\ UNCHANGED src
<1>1. \A v \in Workers : v # w => wk'[v] = wk[v]
  BY DEF WorkerMove
<1>2. UNCHANGED src /\ wk[w].pc # "tallying"
  BY DEF WorkerMove, Locks, Commits, Leaves, Loads, Decides
<1>3. wk'[w].pc # "tallying"
  <2>1. CASE Locks(w)
    BY <2>1 DEF Locks
  <2>2. CASE Commits(w) \/ Loads(w)
    BY <2>2 DEF Commits, Loads, TypeOK, WorkerState
  <2>3. CASE Decides(w)
    <3>1. PICK st \in {"completed", "failed"}, ta \in {"none", "ok", "failed"} :
            wk'[w] = [wk[w] EXCEPT !.pc = "saving", !.tally = ta,
                                   !.row = [wk[w].row EXCEPT !.status = st]]
      BY <2>3 DEF Decides
    <3>2. QED
      BY <3>1 DEF TypeOK, WorkerState
  <2>4. QED
    BY <2>1, <2>2, <2>3 DEF WorkerMove, Leaves
<1>4. Owing(s)' = Owing(s)
  BY <1>1, <1>2, <1>3 DEF Owing
<1>5. \A j \in Jobs : /\ job'[j].source = job[j].source
                      /\ job'[j].status = "completed" <=>
                           job[j].status = "completed"
  <2>1. CASE Commits(w)
    <3>1. /\ wk[w].job \in Jobs /\ job[wk[w].job].status = "pending"
          /\ job'[wk[w].job] = Claimed(job[wk[w].job])
          /\ job[wk[w].job] \in JobRow
      BY <2>1 DEF Commits, ClaimInv, WorkerInv, TypeOK
    <3>2. /\ job'[wk[w].job].status = "running"
          /\ job'[wk[w].job].source = job[wk[w].job].source
      BY <3>1, OriginKept DEF SameOrigin
    <3>3. QED
      BY <3>1, <3>2, OthersKept
  <2>2. QED
    BY <2>1 DEF WorkerMove, Locks, Leaves, Loads, Decides
<1>6. Done(s)' = Done(s)
  BY <1>5 DEF Done, JobsOf, JobsWith
<1>7. QED
  BY <1>2, <1>4, <1>6

(* While nothing fails, successes and completed jobs drift apart only by   *)
(* the write of an update or of a cancel request (the property             *)
(* OnlyRequestsLoseSuccesses of the runs).                                 *)
THEOREM RequestsOnly == Spec => OnlyRequestsLoseSuccesses
<1> DEFINE Edited(s) == \E e \in Editors : ed[e].source = s /\ ed'[e] = NoEdit
           Cancelled == \E c \in Cancels : can[c].pc = "writing" /\ can'[c] = NoCancel
           Together(s) ==
             src'[s].ok + Cardinality(Owing(s)') + Cardinality(Done(s))
               = src[s].ok + Cardinality(Owing(s)) + Cardinality(Done(s)')
<1>1. ASSUME TypeOK, ClaimInv, HoldInv, [Next]_vars, Calm',
             NEW s \in Sources
      PROVE  Together(s) \/ Edited(s) \/ Cancelled
  <2>1. src[s] \in SourceRow /\ src[s].ok \in Nat
    BY <1>1 DEF TypeOK, SourceRow
  <2>2. ASSUME NEW w \in Workers, WorkerMove(w)  PROVE Together(s)
    <3>1. CASE Saves(w)
      BY <1>1, <2>2, <3>1, DebtsOfSave
    <3>2. CASE Tallies(w)
      <4>1. /\ Done(s)' = Done(s)
            /\ src'[s].ok + Cardinality(Owing(s)')
                 = src[s].ok + Cardinality(Owing(s))
        BY <1>1, <2>2, <3>2, DebtsOfTally
      <4>2. QED
        BY <4>1
    <3>3. CASE ~Saves(w) /\ ~Tallies(w)
      BY <1>1, <2>2, <3>3, DebtsOfWorker
    <3>4. QED
      BY <3>1, <3>2, <3>3
  <2>3. ASSUME NEW w \in Workers, WorkerMove(w) /\ Tallies(w)
        PROVE  Together(s)
    BY <2>2, <2>3
  <2>4. (\E w \in Workers : WorkerMove(w)) \/ src'[s].ok = src[s].ok \/ Edited(s)
    <3>1. ASSUME NEW t \in Sources, Advances(t) \/ Disables(t)
          PROVE  src'[s].ok = src[s].ok
      BY <1>1, <2>1, <3>1 DEF Advances, Disables, TypeOK, SourceRow
    <3>2. ASSUME NEW e \in Editors, WritesSource(e)
          PROVE  src'[s].ok = src[s].ok \/ Edited(s)
      BY <1>1, <3>2 DEF WritesSource, TypeOK
    <3>3. QED
      BY <1>1, <3>1, <3>2, SourceSteps DEF ReadsSource
  <2>5. \/ \E w \in Workers : WorkerMove(w)
        \/ Cancelled
        \/ Done(s)' = Done(s) /\ Owing(s)' = Owing(s)
    <3>1. ASSUME UNCHANGED wk  PROVE Owing(s)' = Owing(s)
      BY <3>1 DEF Owing
    <3>2. ASSUME UNCHANGED job  PROVE Done(s)' = Done(s)
      BY <3>2 DEF Done, JobsOf, JobsWith
    <3>3. CASE Insertion
      <4>1. PICK j \in Jobs : /\ job[j].status = "none"
                              /\ job'[j].status = "pending"
                              /\ \A k \in Jobs : k # j => job'[k] = job[k]
                              /\ UNCHANGED wk
        <5>1. PICK j \in Jobs, p \in Sources \cup {NoSource},
                   t \in {"scheduled", "manual"}, n \in Nat, q \in Nat :
                Inserts(j, p, t, n, q)
          BY <3>3, Zenon DEF Insertion
        <5>2. job'[j].status = "pending"
          BY <1>1, <5>1 DEF Inserts, NewScrapingJob, TypeOK
        <5>3. QED
          BY <1>1, <5>1, <5>2 DEF Inserts, TypeOK
      <4>2. Done(s)' = Done(s)
        BY <4>1 DEF Done, JobsOf, JobsWith
      <4>3. QED
        BY <3>1, <4>1, <4>2
    <3>4. ASSUME NEW c \in Cancels, WritesJob(c)  PROVE Cancelled
      BY <3>4 DEF WritesJob
    <3>5. ASSUME NEW c \in Cancels, ReadsJob(c)
          PROVE  Done(s)' = Done(s) /\ Owing(s)' = Owing(s)
      BY <3>1, <3>2, <3>5 DEF ReadsJob
    <3>6. ~Forgets
      BY <1>1 DEF Forgets
    <3>7. QED
      BY <1>1, <3>1, <3>2, <3>3, <3>4, <3>5, <3>6, JobSteps
  <2>6. QED
    BY <2>1, <2>2, <2>4, <2>5, FiniteDebts
<1>2. ASSUME NEW s \in Sources, Together(s), TypeOK, TypeOK'
      PROVE  Successes(s)' + Completed(s) = Successes(s) + Completed(s)'
  BY <1>2 DEF Successes, Completed, Owing, Done
<1>3. TypeOK /\ ClaimInv /\ HoldInv /\ [Next]_vars /\ TypeOK' =>
        (Calm' => \A s \in Sources :
           \/ Successes(s)' + Completed(s) = Successes(s) + Completed(s)'
           \/ \E e \in Editors : ed[e].source = s /\ ed'[e] = NoEdit
           \/ \E c \in Cancels : can[c].pc = "writing" /\ can'[c] = NoCancel)
  BY <1>1, <1>2
<1>4. QED
  BY <1>3, TypeCorrect, ClaimInvariant, HoldInvariant, PTL
     DEF Spec, OnlyRequestsLoseSuccesses
-----------------------------------------------------------------------------
(***************************************************************************)
(* The schedule of a source nobody edits.  A page may get one more job     *)
(* when its source is due, or is the one at hand with that page still      *)
(* left; an instant, a restart and a failed call each make room for one.   *)
(***************************************************************************)
ScheduledJobs(s, p) == {j \in JobsOf(s) : /\ job[j].page = p
                                          /\ job[j].trigger = "scheduled"
                                          /\ job[j].retry = 0}
MayGet(s, p) == /\ proc = "up"
                /\ IF sched.cur = s THEN p \in sched.left ELSE IsDue(s)
Room == clock + 1 + restarts + faults

PlanInv ==
  /\ \A s \in sched.todo : IsDue(s) /\ s # sched.cur
  /\ sched.cur = NoSource => sched.left = {}

PaceInv ==
  \A s \in Sources, p \in Nat :
    Cardinality(ScheduledJobs(s, p)) + (IF MayGet(s, p) THEN 1 ELSE 0) <= Room

LEMMA FiniteSchedule ==
  ASSUME NEW s, NEW p
  PROVE  /\ IsFiniteSet(ScheduledJobs(s, p))
         /\ Cardinality(ScheduledJobs(s, p)) \in Nat
<1>1. ScheduledJobs(s, p) \subseteq Jobs
  BY DEF ScheduledJobs, JobsOf
<1>2. IsFiniteSet(ScheduledJobs(s, p))
  BY <1>1, FiniteBases, FS_Subset
<1>3. QED
  BY <1>2, FS_CardinalityType

(* The values that bound the room only grow.                               *)
LEMMA RoomGrows ==
  ASSUME TypeOK, [Next]_vars
  PROVE  Room \in Nat /\ Room' \in Nat /\ Room <= Room'
<1>1. /\ clock \in Nat /\ restarts \in Nat /\ faults \in Nat
      /\ clock' \in Nat /\ restarts' \in Nat /\ faults' \in Nat
  BY TypeStep DEF TypeOK
<1>2. faults' \in {faults, faults + 1} /\ restarts' \in {restarts, restarts + 1}
  <2>1. ASSUME NEW w \in Workers, WorkerStep(w)
        PROVE  UNCHANGED restarts /\ (CallWorks \/ CallFails \/ UNCHANGED faults)
    BY <2>1 DEF WorkerStep, WorkerFrame, LockJob, CommitClaim, AbortClaim,
                LoseCommit, LoadSource, SourceMissing, Fetched, SaveOutcome,
                TallyResult
  <2>2. CASE SchedStep
    BY <2>2 DEF SchedStep, SchedFrame, SchedTick, SchedNext, SchedCreate,
                SchedAdvance, CallWorks, CallFails
  <2>3. CASE HandlerStep
    BY <2>3 DEF HandlerStep, HandlerFrame, Trigger, Delete, Retry, CancelRead,
                CancelWrite, EditRead, EditWrite
  <2>4. CASE Tick \/ BeginShutdown \/ Die \/ Restart \/ UNCHANGED vars
    BY <2>4 DEF Tick, BeginShutdown, Die, Restart, vars
  <2>5. QED
    BY <2>1, <2>2, <2>3, <2>4 DEF Next, CallWorks, CallFails
<1>3. clock' \in {clock, clock + 1}
  BY ClockAdvances
<1>4. clock <= clock' /\ restarts <= restarts' /\ faults <= faults'
  BY <1>1, <1>2, <1>3
<1>5. \A a, b, c, d, e, f \in Nat :
        a <= d /\ b <= e /\ c <= f =>
          /\ a + 1 + b + c \in Nat /\ d + 1 + e + f \in Nat
          /\ a + 1 + b + c <= d + 1 + e + f
  OBVIOUS
<1>6. /\ Room = clock + 1 + restarts + faults
      /\ Room' = clock' + 1 + restarts' + faults'
  BY DEF Room
<1>7. QED
  BY <1>1, <1>4, <1>5, <1>6, Zenon

(* A step that adds no scheduled job keeps the pace, if it makes room for  *)
(* every job it allows.                                                    *)
LEMMA PaceKept ==
  ASSUME TypeOK, PaceInv, [Next]_vars,
         \A s \in Sources, p \in Nat :
           /\ ScheduledJobs(s, p)' = ScheduledJobs(s, p)
           /\ MayGet(s, p)' => MayGet(s, p) \/ Room < Room'
  PROVE  PaceInv'
<1> SUFFICES ASSUME NEW s \in Sources, NEW p \in Nat
             PROVE  Cardinality(ScheduledJobs(s, p)')
                      + (IF MayGet(s, p)' THEN 1 ELSE 0) <= Room'
  BY DEF PaceInv
<1>1. /\ Cardinality(ScheduledJobs(s, p)) \in Nat
      /\ Room \in Nat /\ Room' \in Nat /\ Room <= Room'
      /\ Cardinality(ScheduledJobs(s, p)) + (IF MayGet(s, p) THEN 1 ELSE 0) <= Room
      /\ ScheduledJobs(s, p)' = ScheduledJobs(s, p)
  BY FiniteSchedule, RoomGrows DEF PaceInv
<1>2. CASE MayGet(s, p)
  BY <1>1, <1>2
<1>3. CASE ~MayGet(s, p) /\ MayGet(s, p)'
  BY <1>1, <1>3
<1>4. CASE ~MayGet(s, p) /\ ~MayGet(s, p)'
  BY <1>1, <1>4
<1>5. QED
  BY <1>2, <1>3, <1>4

(* A row that is not scheduled, or not new, adds no scheduled job.         *)
LEMMA SameSchedule ==
  ASSUME NEW s \in Sources, NEW p \in Nat,
         \A j \in Jobs : SameOrigin(job'[j], job[j])
  PROVE  ScheduledJobs(s, p)' = ScheduledJobs(s, p)
BY DEF ScheduledJobs, JobsOf, SameOrigin

LEMMA OtherInserted ==
  ASSUME TypeOK, HoldInv, NEW r \in JobRow, SaveJob(r),
         NEW s \in Sources, NEW p \in Nat,
         ~(r.source = s /\ r.page = p /\ r.trigger = "scheduled" /\ r.retry = 0)
  PROVE  ScheduledJobs(s, p)' = ScheduledJobs(s, p)
<1>1. PICK j \in Jobs : /\ job[j].status = "none"
                        /\ job' = [job EXCEPT ![j] = r]
  BY DEF SaveJob, IsFresh
<1>2. job[j].source # s
  BY <1>1, JobTableAssumption DEF HoldInv, CopyInv, JobTableAssumption
<1>3. job'[j] = r /\ \A k \in Jobs : k # j => job'[k] = job[k]
  BY <1>1 DEF TypeOK
<1>4. QED
  BY <1>2, <1>3 DEF ScheduledJobs, JobsOf

LEMMA OneInserted ==
  ASSUME TypeOK, HoldInv, NEW r \in JobRow, SaveJob(r),
         NEW s \in Sources, NEW p \in Nat
  PROVE  Cardinality(ScheduledJobs(s, p)') <= Cardinality(ScheduledJobs(s, p)) + 1
<1>1. PICK j \in Jobs : job' = [job EXCEPT ![j] = r]
  BY DEF SaveJob
<1>2. \A k \in Jobs : k # j => job'[k] = job[k]
  BY <1>1 DEF TypeOK
<1>3. ScheduledJobs(s, p)' \subseteq ScheduledJobs(s, p) \cup {j}
  BY <1>2 DEF ScheduledJobs, JobsOf
<1>4. /\ IsFiniteSet(ScheduledJobs(s, p) \cup {j})
      /\ Cardinality(ScheduledJobs(s, p) \cup {j})
           <= Cardinality(ScheduledJobs(s, p)) + 1
  <2> DEFINE S == ScheduledJobs(s, p)
  <2>1. IsFiniteSet(S) /\ Cardinality(S) \in Nat
    BY FiniteSchedule
  <2> HIDE DEF S
  <2>2. /\ IsFiniteSet(S \cup {j})
        /\ Cardinality(S \cup {j}) = IF j \in S THEN Cardinality(S)
                                     ELSE Cardinality(S) + 1
    BY <2>1, FS_AddElement
  <2>3. IsFiniteSet(S \cup {j}) /\ Cardinality(S \cup {j}) <= Cardinality(S) + 1
    BY <2>1, <2>2
  <2>4. QED
    BY <2>3 DEF S
<1>5. /\ Cardinality(ScheduledJobs(s, p) \cup {j}) \in Nat
      /\ Cardinality(ScheduledJobs(s, p)') \in Nat
      /\ Cardinality(ScheduledJobs(s, p)') <= Cardinality(ScheduledJobs(s, p) \cup {j})
  <2> DEFINE T == ScheduledJobs(s, p) \cup {j}
             U == ScheduledJobs(s, p)'
  <2>1. IsFiniteSet(T) /\ U \subseteq T
    BY <1>3, <1>4
  <2> HIDE DEF T, U
  <2>2. /\ IsFiniteSet(U) /\ Cardinality(U) <= Cardinality(T)
        /\ Cardinality(T) \in Nat /\ Cardinality(U) \in Nat
    BY <2>1, FS_Subset, FS_CardinalityType
  <2>3. QED
    BY <2>2 DEF T, U
<1>6. QED
  BY <1>4, <1>5, FiniteSchedule

(* The steps that touch the schedule, and what the others leave alone.     *)
LeavesPlan ==
  /\ UNCHANGED <<clock, proc, sched>>
  /\ \A s \in Sources : src'[s].nextRun = src[s].nextRun
  /\ \A s \in Sources, p \in Nat : ScheduledJobs(s, p)' = ScheduledJobs(s, p)

LEMMA ScheduleSteps ==
  ASSUME TypeOK, ClaimInv, HoldInv, Editors = {}, [Next]_vars
  PROVE  \/ LeavesPlan
         \/ SchedStep
         \/ Tick \/ BeginShutdown \/ Die \/ Restart
<1>1. ASSUME NEW w \in Workers, WorkerStep(w)  PROVE LeavesPlan
  <2>1. WorkerMove(w)
    BY <1>1, WorkerMoves
  <2>2. \A j \in Jobs : SameOrigin(job'[j], job[j])
    BY <2>1, CopyWorker
  <2>3. QED
    BY <2>1, <2>2, SameSchedule, WorkerKeepsNextRun DEF LeavesPlan, WorkerMove
<1>2. CASE UNCHANGED vars
  BY <1>2 DEF vars, LeavesPlan, ScheduledJobs, JobsOf
<1>3. ASSUME NEW s \in Sources, Delete(s)  PROVE LeavesPlan
  <2>1. UNCHANGED <<job, clock, proc, sched>>
    BY <1>3 DEF Delete, HandlerFrame
  <2>2. ASSUME NEW t \in Sources  PROVE src'[t].nextRun = src[t].nextRun
    BY <1>3 DEF Delete, DeleteSource, TypeOK, SourceRow
  <2>3. QED
    BY <2>1, <2>2 DEF LeavesPlan, ScheduledJobs, JobsOf
<1>4. ASSUME NEW s \in Sources, Trigger(s)  PROVE LeavesPlan
  <2>1. /\ NewScrapingJob(s, "manual", 0, 0) \in JobRow
        /\ NewScrapingJob(s, "manual", 0, 0).trigger # "scheduled"
    BY NewRow DEF NewScrapingJob
  <2>2. QED
    BY <1>4, <2>1, OtherInserted DEF Trigger, HandlerFrame, LeavesPlan
<1>5. ASSUME NEW j \in Jobs, Retry(j)  PROVE LeavesPlan
  <2> DEFINE r == NewScrapingJob(job[j].source, job[j].trigger, 0,
                                 job[j].retry + 1)
  <2>1. r \in JobRow /\ r.retry # 0
    BY DEF TypeOK, JobRow, NewScrapingJob, Statuses
  <2>2. SaveJob(r) /\ UNCHANGED <<src, clock, proc, sched>>
    BY <1>5 DEF Retry, HandlerFrame
  <2> HIDE DEF r
  <2>3. QED
    BY <2>1, <2>2, OtherInserted DEF LeavesPlan
<1>6. ASSUME NEW c \in Cancels, NEW j \in Jobs, CancelRead(c, j)
      PROVE  LeavesPlan
  BY <1>6 DEF CancelRead, HandlerFrame, LeavesPlan, ScheduledJobs, JobsOf
<1>7. ASSUME NEW c \in Cancels, CancelWrite(c)  PROVE LeavesPlan
  <2>1. \A j \in Jobs : SameOrigin(job'[j], job[j])
    BY <1>7 DEF CancelWrite, UpdateJob, HoldInv, CopyInv, SameOrigin, TypeOK
  <2>2. QED
    BY <1>7, <2>1, SameSchedule DEF CancelWrite, HandlerFrame, LeavesPlan
<1>8. QED
  BY <1>1, <1>2, <1>3, <1>4, <1>5, <1>6, <1>7 DEF Next, HandlerStep

(* advanceNextRunAt touches no other source than the one at hand.          *)
LEMMA AdvanceOne ==
  ASSUME TypeOK, SchedAdvance, NEW s \in Sources, s # sched.cur
  PROVE  src'[s] = src[s]
BY DEF SchedAdvance, UpdateNextRunAt, TypeOK

LEMMA PlanStep ==
  ASSUME TypeOK, ClaimInv, HoldInv, PlanInv, Editors = {}, [Next]_vars
  PROVE  PlanInv'
<1>1. /\ sched \in SchedState /\ clock \in Nat
      /\ \A s \in Sources : src[s].nextRun \in Nat
  BY DEF TypeOK, SourceRow
<1>2. CASE LeavesPlan
  BY <1>1, <1>2 DEF LeavesPlan, PlanInv, IsDue, SchedState
<1>3. CASE SchedTick
  <2>1. /\ sched'.todo = DueSources /\ sched'.cur = NoSource /\ sched'.left = {}
        /\ UNCHANGED <<src, clock>>
    BY <1>3 DEF SchedTick, SchedFrame, IdleSched
  <2>2. QED
    BY <2>1, JobTableAssumption
       DEF PlanInv, DueSources, IsDue, JobTableAssumption
<1>4. ASSUME NEW s \in Sources, SchedNext(s)  PROVE PlanInv'
  <2>1. /\ sched'.todo = sched.todo \ {s} /\ sched'.cur = s
        /\ UNCHANGED <<src, clock>>
    BY <1>4 DEF SchedNext, SchedFrame
  <2>2. QED
    BY <2>1, JobTableAssumption DEF PlanInv, IsDue, JobTableAssumption
<1>5. ASSUME NEW p \in sched.left, SchedCreate(p)  PROVE PlanInv'
  <2>1. /\ sched'.todo = sched.todo /\ sched'.cur = sched.cur
        /\ sched'.left = sched.left \ {p} /\ UNCHANGED <<src, clock>>
    BY <1>1, <1>5 DEF SchedCreate, SchedFrame, SchedState
  <2>2. QED
    BY <2>1 DEF PlanInv, IsDue
<1>6. CASE SchedAdvance
  <2>1. /\ sched'.todo = sched.todo /\ sched'.cur = NoSource
        /\ sched'.left = {} /\ UNCHANGED clock
    BY <1>1, <1>6 DEF SchedAdvance, SchedFrame, SchedState
  <2>2. \A s \in sched.todo : s \in Sources /\ s # sched.cur /\ IsDue(s)
    BY <1>1 DEF PlanInv, SchedState
  <2>3. \A s \in sched.todo : src'[s] = src[s]
    BY <1>6, <2>2, AdvanceOne
  <2>4. QED
    BY <2>1, <2>2, <2>3, JobTableAssumption
       DEF PlanInv, IsDue, JobTableAssumption
<1>7. CASE Tick
  <2>1. UNCHANGED <<sched, src>> /\ clock' = clock + 1
    BY <1>7 DEF Tick
  <2>2. QED
    BY <1>1, <2>1 DEF PlanInv, IsDue, SchedState
<1>8. CASE BeginShutdown \/ Restart
  BY <1>8 DEF BeginShutdown, Restart, tables, PlanInv, IsDue
<1>9. CASE Die
  BY <1>9 DEF Die, IdleSched, PlanInv
<1>10. QED
  BY <1>2, <1>3, <1>4, <1>5, <1>6, <1>7, <1>8, <1>9, ScheduleSteps
     DEF SchedStep

(* createJob: the page takes the place kept for it, or the call fails.     *)
LEMMA PaceCreate ==
  ASSUME TypeOK, HoldInv, PlanInv, PaceInv, [Next]_vars,
         NEW q \in sched.left, SchedCreate(q)
  PROVE  PaceInv'
<1> DEFINE r == NewScrapingJob(sched.cur, "scheduled", q, 0)
<1>1. /\ sched.cur \in Sources /\ q \in Nat /\ r \in JobRow
      /\ r.source = sched.cur /\ r.page = q
  <2>1. sched.cur \in Sources /\ q \in Nat
    BY DEF TypeOK, SchedState, PlanInv
  <2>2. QED
    BY <2>1, NewRow DEF NewScrapingJob
<1>2. /\ UNCHANGED <<clock, proc, src>>
      /\ sched'.cur = sched.cur /\ sched'.left = sched.left \ {q}
  BY DEF SchedCreate, SchedFrame, TypeOK, SchedState
<1>3. (proc = "up" /\ SaveJob(r)) \/ UNCHANGED job
  BY DEF SchedCreate, CallWorks
<1> HIDE DEF r
<1>4. SUFFICES ASSUME NEW s \in Sources, NEW p \in Nat
               PROVE  Cardinality(ScheduledJobs(s, p)')
                        + (IF MayGet(s, p)' THEN 1 ELSE 0) <= Room'
  BY DEF PaceInv
<1>5. /\ Cardinality(ScheduledJobs(s, p)) \in Nat
      /\ Room \in Nat /\ Room' \in Nat /\ Room <= Room'
      /\ Cardinality(ScheduledJobs(s, p)) + (IF MayGet(s, p) THEN 1 ELSE 0) <= Room
  BY FiniteSchedule, RoomGrows DEF PaceInv
<1>6. CASE s = sched.cur /\ p = q
  <2>1. ~MayGet(s, p)'
    BY <1>2, <1>6 DEF MayGet
  <2>2. CASE UNCHANGED job
    <3>1. ScheduledJobs(s, p)' = ScheduledJobs(s, p)
      BY <2>2 DEF ScheduledJobs, JobsOf
    <3>2. QED
      BY <1>5, <2>1, <3>1
  <2>3. CASE proc = "up" /\ SaveJob(r)
    <3>1. MayGet(s, p)
      BY <1>6, <2>3 DEF MayGet
    <3>2. Cardinality(ScheduledJobs(s, p)') <= Cardinality(ScheduledJobs(s, p)) + 1
      BY <1>1, <2>3, OneInserted
    <3>3. ScheduledJobs(s, p)' \subseteq Jobs
      BY DEF ScheduledJobs, JobsOf
    <3>4. Cardinality(ScheduledJobs(s, p)') \in Nat
      BY <3>3, FiniteBases, FS_Subset, FS_CardinalityType
    <3>5. QED
      BY <1>5, <2>1, <3>1, <3>2, <3>4
  <2>4. QED
    BY <1>3, <2>2, <2>3
<1>7. CASE ~(s = sched.cur /\ p = q)
  <2>1. MayGet(s, p)' <=> MayGet(s, p)
    BY <1>2, <1>7 DEF MayGet, IsDue
  <2>2. ScheduledJobs(s, p)' = ScheduledJobs(s, p)
    <3>1. CASE UNCHANGED job
      BY <3>1 DEF ScheduledJobs, JobsOf
    <3>2. CASE SaveJob(r)
      BY <1>1, <1>7, <3>2, OtherInserted
    <3>3. QED
      BY <1>3, <3>1, <3>2
  <2>3. QED
    BY <1>5, <2>1, <2>2
<1>8. QED
  BY <1>6, <1>7

LEMMA PaceStep ==
  ASSUME TypeOK, ClaimInv, HoldInv, PlanInv, PaceInv, Editors = {}, [Next]_vars
  PROVE  PaceInv'
<1>1. /\ clock \in Nat /\ restarts \in Nat /\ faults \in Nat
      /\ \A s \in Sources : src[s].nextRun \in Nat
  BY DEF TypeOK, SourceRow
<1>2. ASSUME UNCHANGED job,
             \A s \in Sources, p \in Nat :
               MayGet(s, p)' => MayGet(s, p) \/ Room < Room'
      PROVE  PaceInv'
  <2>1. \A s \in Sources, p \in Nat : ScheduledJobs(s, p)' = ScheduledJobs(s, p)
    BY <1>2 DEF ScheduledJobs, JobsOf
  <2>2. QED
    BY <1>2, <2>1, PaceKept
<1>3. CASE LeavesPlan
  <2>1. \A s \in Sources, p \in Nat : MayGet(s, p)' <=> MayGet(s, p)
    BY <1>3 DEF LeavesPlan, MayGet, IsDue
  <2>2. QED
    BY <1>3, <2>1, PaceKept DEF LeavesPlan
<1>4. CASE SchedTick
  <2>1. /\ UNCHANGED <<job, src, clock, proc>>
        /\ sched.cur = NoSource /\ sched'.cur = NoSource
    BY <1>4 DEF SchedTick, SchedFrame, IdleSched
  <2>2. \A s \in Sources, p \in Nat : MayGet(s, p)' => MayGet(s, p)
    BY <2>1, JobTableAssumption DEF MayGet, IsDue, JobTableAssumption
  <2>3. QED
    BY <1>2, <2>1, <2>2
<1>5. ASSUME NEW t \in Sources, SchedNext(t)  PROVE PaceInv'
  <2>1. /\ UNCHANGED <<job, src, clock, proc>>
        /\ sched.cur = NoSource /\ sched'.cur = t /\ IsDue(t)
    BY <1>5 DEF SchedNext, SchedFrame, PlanInv
  <2>2. \A s \in Sources, p \in Nat : MayGet(s, p)' => MayGet(s, p)
    BY <2>1, JobTableAssumption DEF MayGet, IsDue, JobTableAssumption
  <2>3. QED
    BY <1>2, <2>1, <2>2
<1>6. CASE SchedAdvance
  <2>1. /\ UNCHANGED <<job, clock, proc, restarts>>
        /\ sched'.cur = NoSource
    BY <1>6 DEF SchedAdvance, SchedFrame, TypeOK, SchedState
  <2>2. ASSUME NEW s \in Sources, NEW p \in Nat, MayGet(s, p)'
        PROVE  MayGet(s, p) \/ Room < Room'
    <3>1. proc = "up" /\ IsDue(s)'
      BY <2>1, <2>2, JobTableAssumption DEF MayGet, JobTableAssumption
    <3>2. CASE s # sched.cur
      BY <1>6, <2>1, <3>1, <3>2, AdvanceOne DEF MayGet, IsDue
    <3>3. CASE s = sched.cur
      <4>1. ~UpdateNextRunAt(sched.cur)
        <5>1. ASSUME UpdateNextRunAt(sched.cur)  PROVE FALSE
          <6>1. src'[s].nextRun = clock + 1
            BY <3>3, <5>1 DEF UpdateNextRunAt, NextRunFromCron, TypeOK, SourceRow
          <6>2. clock + 1 <= clock
            BY <2>1, <3>1, <6>1 DEF IsDue
          <6>3. QED
            BY <1>1, <6>2
        <5>2. QED
          BY <5>1
      <4>2. faults' = faults + 1
        BY <1>6, <3>1, <4>1 DEF SchedAdvance, CallFails
      <4>3. Room' = clock + 1 + restarts + (faults + 1)
        BY <2>1, <4>2 DEF Room
      <4>4. QED
        BY <1>1, <4>3 DEF Room
    <3>4. QED
      BY <3>2, <3>3
  <2>3. QED
    BY <1>2, <2>1, <2>2
<1>7. CASE Tick
  <2>1. Room' = (clock + 1) + 1 + restarts + faults /\ UNCHANGED job
    BY <1>7 DEF Tick, Room
  <2>2. Room < Room'
    BY <1>1, <2>1 DEF Room
  <2>3. QED
    BY <1>2, <2>1, <2>2
<1>8. CASE Restart
  <2>1. Room' = clock + 1 + (restarts + 1) + faults /\ UNCHANGED job
    BY <1>8 DEF Restart, Room, tables
  <2>2. Room < Room'
    BY <1>1, <2>1 DEF Room
  <2>3. QED
    BY <1>2, <2>1, <2>2
<1>9. CASE BeginShutdown \/ Die
  <2>1. UNCHANGED job /\ proc' # "up"
    BY <1>9 DEF BeginShutdown, Die, tables
  <2>2. \A s \in Sources, p \in Nat : ~MayGet(s, p)'
    BY <2>1 DEF MayGet
  <2>3. QED
    BY <1>2, <2>1, <2>2
<1>10. QED
  BY <1>3, <1>4, <1>5, <1>6, <1>7, <1>8, <1>9, PaceCreate, ScheduleSteps
     DEF SchedStep

LEMMA ScheduleInit == Init => PlanInv /\ PaceInv
<1> SUFFICES ASSUME Init  PROVE PlanInv /\ PaceInv
  OBVIOUS
<1>1. PlanInv
  BY DEF Init, IdleSched, PlanInv
<1>2. ASSUME NEW s \in Sources, NEW p \in Nat
      PROVE  Cardinality(ScheduledJobs(s, p)) = 0
  <2>1. ScheduledJobs(s, p) = {}
    BY JobTableAssumption
       DEF Init, NoRow, ScheduledJobs, JobsOf, JobTableAssumption
  <2>2. QED
    BY <2>1, FS_EmptySet
<1>3. Room = 1
  BY DEF Init, Room
<1>4. QED
  BY <1>1, <1>2, <1>3 DEF PaceInv

(* A source nobody edits gets at most one scheduled job for a page in each *)
(* instant, and one more for each restart and each failed call (the        *)
(* property ScheduledOncePerTick of the runs).                             *)
THEOREM OncePerTick ==
  ASSUME Editors = {}
  PROVE  Spec => []ScheduledOncePerTick
<1>1. TypeOK /\ ClaimInv /\ HoldInv /\ PlanInv /\ PaceInv /\ [Next]_vars
        => PlanInv' /\ PaceInv'
  BY PlanStep, PaceStep
<1>2. TypeOK /\ PaceInv => ScheduledOncePerTick
  <2> SUFFICES ASSUME TypeOK, PaceInv, NEW s \in Sources, NEW p \in 0 .. MaxJobs
               PROVE  Cardinality(ScheduledJobs(s, p)) <= Room
    BY DEF ScheduledOncePerTick, ScheduledJobs, Room
  <2>1. p \in Nat
    BY JobTableAssumption DEF JobTableAssumption
  <2>2. Cardinality(ScheduledJobs(s, p)) + (IF MayGet(s, p) THEN 1 ELSE 0) <= Room
    BY <2>1 DEF PaceInv
  <2>3. Room \in Nat
    BY DEF TypeOK, Room
  <2>4. QED
    BY <2>2, <2>3, FiniteSchedule
<1>3. QED
  BY <1>1, <1>2, ScheduleInit, TypeCorrect, ClaimInvariant, HoldInvariant, PTL
     DEF Spec
=============================================================================
