------------------------------ MODULE Scraping ------------------------------
(***************************************************************************)
(* The scraping subsystem: the scheduler goroutine, the worker pool and    *)
(* the HTTP handlers that create, cancel and retry jobs and edit sources,  *)
(* all of them processes over the two tables of JobTable and SourceTable.  *)
(*                                                                         *)
(* A step is one database call or one external call, so every value that   *)
(* is read by one call and used by a later one is kept in the memory of    *)
(* its process meanwhile.  The process that holds them all may be stopped  *)
(* gracefully, may crash, and may be restarted; only the tables survive.   *)
(***************************************************************************)
EXTENDS JobTable, FiniteSets

CONSTANTS
  Workers,       \* the goroutines of the worker pool (3 in main)
  Cancels,       \* concurrent POST /jobs/{id}/cancel requests
  Editors,       \* concurrent PATCH /sources/{id} requests
  MaxManual,     \* bound: jobs created by POST trigger and POST retry
  MaxClock,      \* bound: cron instants that pass
  MaxRestarts,   \* bound: restarts of the process
  MaxFaults,     \* bound: database calls of the goroutines that fail
  NoJob          \* not a job: an idle process holds none

ASSUME ScrapingAssumption ==
  /\ IsFiniteSet(Workers) /\ NoJob \notin Jobs
  /\ MaxManual \in Nat /\ MaxClock \in Nat
  /\ MaxRestarts \in Nat /\ MaxFaults \in Nat

VARIABLES
  proc,      \* the process: up, stopping (its context cancelled) or down
  wk,        \* wk[w]: the worker's step, its copy of the job, its outcome
  sched,     \* the scheduler: sources left, the current one, its pages left
  can,       \* can[c]: the copy of a job a cancel request has read
  ed,        \* ed[e]: the copy of a source an update request has read
  manual, restarts, faults      \* counters that bound the model

tables   == <<job, src, clock>>
requests == <<can, ed, manual>>
vars     == <<job, src, clock, proc, wk, sched, can, ed,
              manual, restarts, faults>>

Idle      == [pc |-> "idle", job |-> NoJob, row |-> NoRow, tally |-> "none"]
IdleSched == [todo |-> {}, cur |-> NoSource, left |-> {}]
NoCancel  == [pc |-> "idle", job |-> NoJob, row |-> NoRow]
NoEdit    == [pc |-> "idle", source |-> NoSource, row |-> NewSource(FALSE)]

Pages(s) == IF MaxPages[s] = 0 THEN {0} ELSE 1 .. MaxPages[s]

(* Rows locked by the SELECT ... FOR UPDATE of a claim not yet committed.  *)
Locked == {wk[w].job : w \in {v \in Workers : wk[v].pc = "locked"}}

(* Worker w executes job j: it has committed the claim and not finished.   *)
Executes(w, j) == /\ wk[w].job = j
                  /\ wk[w].pc \notin {"idle", "locked"}
Held(j) == \E w \in Workers : Executes(w, j)

(* A database call of a goroutine either takes effect or fails.  All fail  *)
(* once the context is cancelled; before that, at most MaxFaults do.  A    *)
(* call that took effect and still answered with an error is no third case *)
(* but for LoseCommit: every other error is dropped by the caller.         *)
CallWorks == proc = "up" /\ UNCHANGED faults
CallFails == \/ proc = "stopping" /\ UNCHANGED faults
             \/ /\ proc = "up"
                /\ faults < MaxFaults
                /\ faults' = faults + 1

WorkerFrame == UNCHANGED <<clock, proc, sched, can, ed, manual, restarts>>

Init ==
  /\ job = [j \in Jobs |-> NoRow]
  /\ src \in [Sources -> {NewSource(TRUE), NewSource(FALSE)}]
  /\ clock = 0
  /\ proc = "up"
  /\ wk = [w \in Workers |-> Idle]
  /\ sched = IdleSched
  /\ can = [c \in Cancels |-> NoCancel]
  /\ ed = [e \in Editors |-> NoEdit]
  /\ manual = 0 /\ restarts = 0 /\ faults = 0
-----------------------------------------------------------------------------
(***************************************************************************)
(* The worker: runWorker, ClaimPendingJob and ExecuteScrapingUseCase.      *)
(***************************************************************************)

(* The SELECT of ClaimPendingJob locks the oldest job of some tenant.      *)
LockJob(w, j) ==
  /\ wk[w].pc = "idle"
  /\ Claimable(j, Locked)
  /\ CallWorks
  /\ wk' = [wk EXCEPT ![w] = [pc |-> "locked", job |-> j, row |-> job[j],
                              tally |-> "none"]]
  /\ UNCHANGED <<job, src>> /\ WorkerFrame

(* Its UPDATE and COMMIT; the copy in memory gets the same two columns.    *)
CommitClaim(w) ==
  /\ wk[w].pc = "locked"
  /\ CallWorks
  /\ MarkRunning(wk[w].job)
  /\ wk' = [wk EXCEPT ![w].pc = "claimed",
                      ![w].row.status = "running", ![w].row.started = TRUE]
  /\ UNCHANGED src /\ WorkerFrame

(* Any error before the commit rolls back: the job stays pending.          *)
AbortClaim(w) ==
  /\ wk[w].pc = "locked"
  /\ CallFails
  /\ wk' = [wk EXCEPT ![w] = Idle]
  /\ UNCHANGED <<job, src>> /\ WorkerFrame

(* The COMMIT took effect but its answer was lost: the worker, which was   *)
(* told of an error, goes on without the job it has just marked.           *)
LoseCommit(w) ==
  /\ wk[w].pc = "locked"
  /\ CallFails
  /\ MarkRunning(wk[w].job)
  /\ wk' = [wk EXCEPT ![w] = Idle]
  /\ UNCHANGED src /\ WorkerFrame

(* Execute finds the source, which must be active.                         *)
LoadSource(w) ==
  /\ wk[w].pc = "claimed"
  /\ CallWorks
  /\ src[wk[w].row.source].active
  /\ wk' = [wk EXCEPT ![w].pc = "fetching"]
  /\ UNCHANGED <<job, src>> /\ WorkerFrame

(* Mutant of SourceMissing: returns the error and saves nothing.           *)
SourceMissingReturns(w) ==
  /\ wk[w].pc = "claimed"
  /\ \/ CallWorks /\ ~src[wk[w].row.source].active
     \/ CallFails
  /\ wk' = [wk EXCEPT ![w] = Idle]
  /\ UNCHANGED <<job, src>> /\ WorkerFrame

(* "source not found": the job fails and the source is told nothing.       *)
SourceMissing(w) ==
  /\ wk[w].pc = "claimed"
  /\ \/ CallWorks /\ ~src[wk[w].row.source].active
     \/ CallFails
  /\ wk' = [wk EXCEPT ![w].pc = "saving", ![w].row.status = "failed"]
  /\ UNCHANGED <<job, src>> /\ WorkerFrame

(* Mutant of Fetched: a failed fetch returns before Fail and Update.       *)
FetchErrorReturns(w, success) ==
  /\ wk[w].pc = "fetching"
  /\ wk' = [wk EXCEPT ![w] =
               IF success THEN [@ EXCEPT !.pc = "saving", !.tally = "ok",
                                         !.row.status = "completed"]
                          ELSE Idle]
  /\ UNCHANGED <<job, src, faults>> /\ WorkerFrame

(* The scraper answers, with an error or with products.  The upsert that   *)
(* follows returns no error whatever happens to the products (module-level *)
(* note in README), so a job whose fetch worked is completed.              *)
Fetched(w, success) ==
  /\ wk[w].pc = "fetching"
  /\ wk' = [wk EXCEPT ![w].pc = "saving",
                      ![w].row.status = IF success THEN "completed"
                                                   ELSE "failed",
                      ![w].tally = IF success THEN "ok" ELSE "failed"]
  /\ UNCHANGED <<job, src, faults>> /\ WorkerFrame

(* jobRepo.Update with the worker's copy; its error is dropped.            *)
SaveOutcome(w) ==
  /\ wk[w].pc = "saving"
  /\ \/ CallWorks /\ UpdateJob(wk[w].job, wk[w].row, Locked)
     \/ CallFails /\ UNCHANGED job
  /\ wk' = [wk EXCEPT ![w] = IF wk[w].tally = "none" THEN Idle
                             ELSE [wk[w] EXCEPT !.pc = "tallying"]]
  /\ UNCHANGED src /\ WorkerFrame

(* Mutant of TallyResult: records a success whatever the outcome.          *)
TallyAsSuccess(w) ==
  /\ wk[w].pc = "tallying"
  /\ \/ CallWorks /\ RecordJobResult(wk[w].row.source, TRUE)
     \/ CallFails /\ UNCHANGED src
  /\ wk' = [wk EXCEPT ![w] = Idle]
  /\ UNCHANGED job /\ WorkerFrame

(* RecordJobResult; its error is dropped too.                              *)
TallyResult(w) ==
  /\ wk[w].pc = "tallying"
  /\ \/ CallWorks /\ RecordJobResult(wk[w].row.source, wk[w].tally = "ok")
     \/ CallFails /\ UNCHANGED src
  /\ wk' = [wk EXCEPT ![w] = Idle]
  /\ UNCHANGED job /\ WorkerFrame

WorkerStep(w) ==
  \/ \E j \in Jobs : LockJob(w, j)
  \/ CommitClaim(w) \/ AbortClaim(w) \/ LoseCommit(w)
  \/ LoadSource(w) \/ SourceMissing(w)
  \/ \E success \in BOOLEAN : Fetched(w, success)
  \/ SaveOutcome(w) \/ TallyResult(w)
-----------------------------------------------------------------------------
(***************************************************************************)
(* The scheduler: scheduleRuns works on the list FindDueForScraping        *)
(* returned, one source after the other.                                   *)
(***************************************************************************)
SchedFrame == UNCHANGED <<clock, proc, wk, can, ed, manual, restarts>>

SchedTick ==
  /\ sched = IdleSched
  /\ CallWorks
  /\ DueSources # {}
  /\ sched' = [IdleSched EXCEPT !.todo = DueSources]
  /\ UNCHANGED <<job, src>> /\ SchedFrame

SchedNext(s) ==
  /\ sched.cur = NoSource
  /\ s \in sched.todo
  /\ sched' = [todo |-> sched.todo \ {s}, cur |-> s, left |-> Pages(s)]
  /\ UNCHANGED <<job, src, faults>> /\ SchedFrame

(* createJob for the lowest page left; a failed insert is only logged.     *)
SchedCreate(p) ==
  /\ p \in sched.left
  /\ \A q \in sched.left : p <= q
  /\ \/ CallWorks /\ SaveJob(NewScrapingJob(sched.cur, "scheduled", p, 0))
     \/ CallFails /\ UNCHANGED job
  /\ sched' = [sched EXCEPT !.left = @ \ {p}]
  /\ UNCHANGED src /\ SchedFrame

(* advanceNextRunAt; a failed update is only logged.                       *)
SchedAdvance ==
  /\ sched.cur # NoSource
  /\ sched.left = {}
  /\ \/ CallWorks /\ UpdateNextRunAt(sched.cur)
     \/ CallFails /\ UNCHANGED src
  /\ sched' = [sched EXCEPT !.cur = NoSource]
  /\ UNCHANGED job /\ SchedFrame

SchedStep == \/ SchedTick
             \/ \E s \in Sources : SchedNext(s)
             \/ \E p \in sched.left : SchedCreate(p)
             \/ SchedAdvance
-----------------------------------------------------------------------------
(***************************************************************************)
(* HTTP handlers.  They run under the request's context, so they go on     *)
(* while the process is stopping.  A handler whose call fails returns with *)
(* no effect, which is a request that never takes its step.                *)
(***************************************************************************)
HandlerFrame == /\ proc # "down"
                /\ UNCHANGED <<clock, proc, wk, sched, restarts, faults>>

(* POST /sources/{id}/trigger: FindByID, then Save.  The source may be     *)
(* deleted in between; as no row of it is used, so it may just after.      *)
Trigger(s) ==
  /\ manual < MaxManual
  /\ src[s].active
  /\ SaveJob(NewScrapingJob(s, "manual", 0, 0))
  /\ manual' = manual + 1
  /\ UNCHANGED <<src, can, ed>> /\ HandlerFrame

(* Mutant of Retry: puts the original back to pending.                     *)
RetryInPlace(j) ==
  /\ manual < MaxManual
  /\ CanRetry(j)
  /\ UpdateJob(j, NewScrapingJob(job[j].source, job[j].trigger, 0,
                                 job[j].retry + 1), Locked)
  /\ manual' = manual + 1
  /\ UNCHANGED <<src, can, ed>> /\ HandlerFrame

(* POST /jobs/{id}/retry: a new job for the same source and trigger, from  *)
(* page 0, whatever the status of the original.  The columns it reads      *)
(* never change, so reading and inserting are one step.                    *)
Retry(j) ==
  /\ manual < MaxManual
  /\ CanRetry(j)
  /\ SaveJob(NewScrapingJob(job[j].source, job[j].trigger, 0,
                            job[j].retry + 1))
  /\ manual' = manual + 1
  /\ UNCHANGED <<src, can, ed>> /\ HandlerFrame

(* POST /jobs/{id}/cancel: FindByID and the check of Cancel ...            *)
CancelRead(c, j) ==
  /\ can[c].pc = "idle"
  /\ job[j].status = "pending"
  /\ can' = [can EXCEPT ![c] = [pc |-> "writing", job |-> j,
                                row |-> [job[j] EXCEPT !.status = "cancelled"]]]
  /\ UNCHANGED <<job, src, ed, manual>> /\ HandlerFrame

(* ... and the Update of the whole row with that copy.                     *)
CancelWrite(c) ==
  /\ can[c].pc = "writing"
  /\ UpdateJob(can[c].job, can[c].row, Locked)
  /\ can' = [can EXCEPT ![c] = NoCancel]
  /\ UNCHANGED <<src, ed, manual>> /\ HandlerFrame

(* PATCH /sources/{id}: FindByID, of an active source only ...               *)
EditRead(e, s) ==
  /\ ed[e].pc = "idle"
  /\ src[s].active
  /\ ed' = [ed EXCEPT ![e] = [pc |-> "writing", source |-> s, row |-> src[s]]]
  /\ UNCHANGED <<job, src, can, manual>> /\ HandlerFrame

(* ... and the Update of the whole row: the request may deactivate the     *)
(* source or set its cron_expression, and leaves every other column of the *)
(* copy as it was read.                                                    *)
EditWrite(e, active, cron) ==
  /\ ed[e].pc = "writing"
  /\ UpdateSource(ed[e].source,
                  [ed[e].row EXCEPT !.active = active, !.cron = cron])
  /\ ed' = [ed EXCEPT ![e] = NoEdit]
  /\ UNCHANGED <<job, can, manual>> /\ HandlerFrame

(* DELETE /sources/{id}                                                    *)
Delete(s) ==
  /\ src[s].active
  /\ DeleteSource(s)
  /\ UNCHANGED <<job, can, ed, manual>> /\ HandlerFrame

HandlerStep ==
  \/ \E s \in Sources : Trigger(s) \/ Delete(s)
  \/ \E j \in Jobs : Retry(j) \/ \E c \in Cancels : CancelRead(c, j)
  \/ \E c \in Cancels : CancelWrite(c)
  \/ \E e \in Editors : \/ \E s \in Sources : EditRead(e, s)
                        \/ \E a, cron \in BOOLEAN : EditWrite(e, a, cron)
-----------------------------------------------------------------------------
(***************************************************************************)
(* Time and the life of the process.                                       *)
(***************************************************************************)
Tick ==
  /\ clock < MaxClock
  /\ clock' = clock + 1
  /\ UNCHANGED <<job, src, proc, wk, sched, requests, restarts, faults>>

(* SIGTERM: main cancels the context of the scheduler and the workers.     *)
BeginShutdown ==
  /\ proc = "up"
  /\ proc' = "stopping"
  /\ UNCHANGED <<tables, wk, sched, requests, restarts, faults>>

(* main returns when the HTTP server has shut down or 10 s have passed; it *)
(* waits for no worker.  A crash does the same at any moment.              *)
Die ==
  /\ proc # "down"
  /\ proc' = "down"
  /\ wk' = [w \in Workers |-> Idle]
  /\ sched' = IdleSched
  /\ can' = [c \in Cancels |-> NoCancel]
  /\ ed' = [e \in Editors |-> NoEdit]
  /\ UNCHANGED <<tables, manual, restarts, faults>>

(* Mutant of Restart: startup puts the running jobs back in the queue.     *)
RestartRequeues ==
  /\ proc = "down"
  /\ restarts < MaxRestarts
  /\ proc' = "up"
  /\ restarts' = restarts + 1
  /\ job' = [j \in Jobs |-> IF job[j].status = "running"
                            THEN [job[j] EXCEPT !.status = "pending"]
                            ELSE job[j]]
  /\ UNCHANGED <<src, clock, wk, sched, requests, faults>>

Restart ==
  /\ proc = "down"
  /\ restarts < MaxRestarts
  /\ proc' = "up"
  /\ restarts' = restarts + 1
  /\ UNCHANGED <<tables, wk, sched, requests, faults>>

Next == \/ \E w \in Workers : WorkerStep(w)
        \/ SchedStep
        \/ HandlerStep
        \/ Tick \/ BeginShutdown \/ Die \/ Restart

Spec == Init /\ [][Next]_vars

(* The goroutines keep taking steps while they can: each is an endless     *)
(* loop over a ticker, and every call inside it has a timeout.  Nobody has *)
(* to send a request, time need not reach the next instant, and nothing    *)
(* obliges the process to stop or to come back.                            *)
FairSpec == /\ Spec
            /\ \A w \in Workers : WF_vars(WorkerStep(w))
            /\ WF_vars(SchedStep)
-----------------------------------------------------------------------------
(***************************************************************************)
(* Properties.                                                             *)
(***************************************************************************)
WorkerState ==
  [pc : {"idle", "locked", "claimed", "fetching", "saving", "tallying"},
   job : Jobs \cup {NoJob}, row : JobRow, tally : {"none", "ok", "failed"}]
SchedState  == [todo : SUBSET Sources, cur : Sources \cup {NoSource},
                left : SUBSET Nat]
CancelState == [pc : {"idle", "writing"}, job : Jobs \cup {NoJob}, row : JobRow]
EditState   == [pc : {"idle", "writing"}, source : Sources \cup {NoSource},
                row : SourceRow]

(* The shape of every table and of every memory.                           *)
TypeOK ==
  /\ job \in [Jobs -> JobRow]
  /\ src \in [Sources -> SourceRow]
  /\ clock \in Nat
  /\ proc \in {"up", "stopping", "down"}
  /\ wk \in [Workers -> WorkerState]
  /\ sched \in SchedState
  /\ can \in [Cancels -> CancelState]
  /\ ed \in [Editors -> EditState]
  /\ manual \in Nat /\ restarts \in Nat /\ faults \in Nat

(* FOR UPDATE SKIP LOCKED at work: two workers never hold the same job,    *)
(* from the SELECT of the claim to the last call of Execute, whatever      *)
(* cancels, retries, failed calls and restarts happen around them.         *)
OneWorkerPerJob ==
  \A v, w \in Workers :
    v # w /\ wk[v].pc # "idle" /\ wk[w].pc # "idle" => wk[v].job # wk[w].job

(* The job table and the workers implement the queue of JobLifecycle: a    *)
(* job is executed at most once, restarts and late cancels included.       *)
Phase ==
  [j \in Jobs |-> IF job[j].status = "none"    THEN "absent"
                 ELSE IF job[j].status = "pending" THEN "queued"
                 ELSE IF Held(j)                THEN "executing"
                                                ELSE "retired"]
Queue == INSTANCE JobLifecycle WITH phase <- Phase
AtMostOnce == Queue!Spec

(* started_at is set exactly on the rows a claim was committed for and no  *)
(* late cancel has overwritten: the worker's copy and the row agree.       *)
StampedIffClaimed ==
  \A j \in Jobs : job[j].started
    <=> job[j].status \in {"running", "completed", "failed"}

(* As long as no call failed and the process was never told to stop, a row *)
(* in state running has a worker behind it.                                *)
Calm == proc = "up" /\ restarts = 0 /\ faults = 0
RunningIsHeld ==
  Calm => \A j \in JobsWith("running") : Held(j)

(* A finished row is only ever rewritten by a cancel that read the job     *)
(* while it was still pending.                                             *)
OnlyLateCancelRewrites ==
  [][\A j \in Jobs :
       job[j].status \in Terminal /\ job'[j] # job[j] =>
         \/ \E c \in Cancels : /\ can[c].job = j
                               /\ can'[c] = NoCancel
                               /\ job'[j].status = "cancelled"
         \/ /\ job[j].status = "cancelled"
            /\ Held(j)]_vars

(* successful_runs keeps pace with the completed jobs, but for the ones     *)
(* whose worker has yet to call RecordJobResult: while nothing failed, the *)
(* two drift apart only when an update request writes its copy back or a   *)
(* late cancel rewrites a completed row.                                   *)
Successes(s) ==
  src[s].ok + Cardinality({w \in Workers : /\ wk[w].pc = "tallying"
                                           /\ wk[w].row.source = s
                                           /\ wk[w].tally = "ok"})
Completed(s) == Cardinality(JobsOf(s) \cap JobsWith("completed"))
OnlyRequestsLoseSuccesses ==
  [][Calm' => \A s \in Sources :
       \/ Successes(s)' + Completed(s) = Successes(s) + Completed(s)'
       \/ \E e \in Editors : ed[e].source = s /\ ed'[e] = NoEdit
       \/ \E c \in Cancels : can[c].pc = "writing" /\ can'[c] = NoCancel]_vars

(* The counters of a source add up, and never count more runs than there   *)
(* are jobs that left the queue: no crash, failed call, stale update or    *)
(* late cancel can inflate them.                                           *)
CountersBounded ==
  \A s \in Sources :
    /\ src[s].total = src[s].ok + src[s].failed
    /\ src[s].total + Cardinality({w \in Workers :
                                     /\ wk[w].pc \notin {"idle", "locked"}
                                     /\ wk[w].row.source = s})
         <= Cardinality(JobsOf(s) \ JobsWith("pending"))

(* next_run_at, and with it a source's place in the schedule, goes back    *)
(* only by an update request that read the source before the scheduler     *)
(* advanced it, and then to the value that the request read.               *)
OnlyStaleEditRewinds ==
  [][\A s \in Sources :
       src'[s].nextRun < src[s].nextRun =>
         \E e \in Editors : /\ ed[e].source = s
                            /\ ed[e].row.nextRun = src'[s].nextRun
                            /\ ed'[e] = NoEdit]_vars

(* advanceNextRunAt keeps a source from being due again before its next    *)
(* cron instant: a page gets at most one scheduled job per instant, and    *)
(* one more for each restart and each failed call.                         *)
ScheduledOncePerTick ==
  \A s \in Sources, p \in 0 .. MaxJobs :
    Cardinality({j \in JobsOf(s) : /\ job[j].page = p
                                   /\ job[j].trigger = "scheduled"
                                   /\ job[j].retry = 0})
      <= clock + 1 + restarts + faults

(* Every job reaches a final state unless the process stops: no pending    *)
(* job of any tenant is starved.                                           *)
EveryJobSettles ==
  \A j \in Jobs : job[j].status = "pending" ~>
                    job[j].status \in Terminal \/ proc # "up"

(* A due source is eventually scheduled, and so no longer due, unless the  *)
(* process stops.                                                          *)
DueIsScheduled ==
  \A s \in Sources : s \in DueSources ~> s \notin DueSources \/ proc # "up"
-----------------------------------------------------------------------------
(***************************************************************************)
(* What the repository says of the program and its code does not do.       *)
(***************************************************************************)

(* "only pending jobs can be cancelled" (Cancel in scraping_job.go): no    *)
(* worker executes a cancelled job.                                        *)
CancelledIsNotRun ==
  \A j \in JobsWith("cancelled") : ~Held(j)
=============================================================================
