------------------------------ MODULE JobTable ------------------------------
(***************************************************************************)
(* The table webdata_scraping_jobs and the statements the service runs on  *)
(* it (PostgresJobRepository).  Each operator below is one SQL statement   *)
(* or one statement of a transaction; the processes that issue them, and   *)
(* the memory they keep between two statements, are in module Scraping.    *)
(***************************************************************************)
EXTENDS SourceTable     \* source_id references webdata_sources

CONSTANTS
  MaxJobs,      \* bound: rows the table can ever hold
  MaxRetries,   \* max_retries of every job (3 in NewScrapingJob)
  MaxPages,     \* MaxPages[s]: crawl_config.max_pages, 0 when not paginated
  Tenant,       \* Tenant[s]: the tenant a source, and so its jobs, belong to
  NoSource      \* not a source: the source_id of a row not yet inserted

ASSUME JobTableAssumption ==
  /\ MaxJobs \in Nat
  /\ MaxRetries \in Nat
  /\ MaxPages \in [Sources -> Nat]
  /\ NoSource \notin Sources

VARIABLE job    \* job[j]: row number j of the table, in order of created_at

Jobs     == 1 .. MaxJobs
Statuses == {"none", "pending", "running", "completed", "failed", "cancelled"}
Terminal == {"completed", "failed", "cancelled"}

(* A row; status "none" stands for a row that does not exist.  started is  *)
(* whether started_at is set.                                              *)
JobRow ==
  [status : Statuses, source : Sources \cup {NoSource}, page : Nat,
   trigger : {"scheduled", "manual"}, retry : Nat, started : BOOLEAN]

NoRow == [status |-> "none", source |-> NoSource, page |-> 0,
          trigger |-> "manual", retry |-> 0, started |-> FALSE]

JobsWith(st) == {j \in Jobs : job[j].status = st}
JobsOf(s)    == {j \in Jobs : job[j].source = s}

(* The row INSERT will create next: rows are never deleted.                *)
IsFresh(j) == /\ job[j].status = "none"
              /\ \A k \in Jobs : k < j => job[k].status # "none"

NewScrapingJob(s, trigger, page, retry) ==
  [status |-> "pending", source |-> s, page |-> page,
   trigger |-> trigger, retry |-> retry, started |-> FALSE]

(* Save: INSERT of a new pending row.                                      *)
SaveJob(row) ==
  \E j \in Jobs : /\ IsFresh(j)
                  /\ job' = [job EXCEPT ![j] = row]

(* Update: UPDATE of every mutable column from the caller's copy, whatever *)
(* the row has become since that copy was read.  It waits for row locks.   *)
UpdateJob(j, row, locked) == /\ j \notin locked
                             /\ job' = [job EXCEPT ![j] = row]

(* Mutant of Claimable: the SELECT without FOR UPDATE SKIP LOCKED.         *)
ClaimableUnlocked(j, locked) ==
  /\ j \in JobsWith("pending")
  /\ \A k \in JobsWith("pending") :
       Tenant[job[k].source] = Tenant[job[j].source] => j <= k

(* The row ClaimPendingJob selects: the oldest pending row of some tenant, *)
(* FOR UPDATE SKIP LOCKED, that is, among the rows nobody has locked.      *)
Claimable(j, locked) ==
  /\ j \in JobsWith("pending") \ locked
  /\ \A k \in JobsWith("pending") \ locked :
       Tenant[job[k].source] = Tenant[job[j].source] => j <= k

MarkRunning(j) ==
  job' = [job EXCEPT ![j].status = "running", ![j].started = TRUE]

CanRetry(j) == /\ job[j].status # "none"
               /\ job[j].retry < MaxRetries
=============================================================================
