---------------------------- MODULE SourceTable ----------------------------
(***************************************************************************)
(* The run-time columns of the table webdata_sources and the statements    *)
(* the service runs on them (PostgresSourceRepository).  Time is counted   *)
(* in cron instants: clock is the last instant that has passed, and a      *)
(* source is due when its next_run_at is not after it.                     *)
(***************************************************************************)
EXTENDS Naturals

CONSTANT Sources

VARIABLES src, clock

(* cron is whether cron_expression is not empty.                           *)
SourceRow == [active : BOOLEAN, cron : BOOLEAN, nextRun : Nat,
              total : Nat, ok : Nat, failed : Nat]

(* A source as NewSource and the INSERT leave it: next_run_at is NULL,     *)
(* which is due at once.                                                   *)
NewSource(cron) == [active |-> TRUE, cron |-> cron, nextRun |-> 0,
                    total |-> 0, ok |-> 0, failed |-> 0]

IsDue(s) == src[s].nextRun <= clock

(* FindDueForScraping                                                      *)
DueSources == {s \in Sources : src[s].active /\ src[s].cron /\ IsDue(s)}

(* Mutant of NextRunFromCron: the instant now, not the one after it.       *)
CurrentInstant == clock

(* nextRunFromCron: the first instant of the schedule strictly after now.  *)
(* An expression that does not parse gives now + 10 min, after now too.    *)
NextRunFromCron == clock + 1

(* Mutant of UpdateNextRunAt: WHERE next_run_at <= NOW(), false for NULL.  *)
AdvanceUnlessNull(s) ==
  src' = IF src[s].nextRun = 0 THEN src
         ELSE [src EXCEPT ![s].nextRun = NextRunFromCron]

UpdateNextRunAt(s) == src' = [src EXCEPT ![s].nextRun = NextRunFromCron]

(* Mutant of RecordJobResult: failed_runs is incremented on every run.     *)
RecordFailedAlways(s, success) ==
  src' = [src EXCEPT ![s].total  = @ + 1,
                     ![s].ok     = IF success THEN @ + 1 ELSE @,
                     ![s].failed = @ + 1]

(* Mutant of RecordJobResult: a failed run is due again at once.           *)
RecordRetriesSoon(s, success) ==
  src' = [src EXCEPT ![s].total   = @ + 1,
                     ![s].ok      = IF success THEN @ + 1 ELSE @,
                     ![s].failed  = IF success THEN @ ELSE @ + 1,
                     ![s].nextRun = IF success THEN @ ELSE 0]

(* RecordJobResult: one atomic UPDATE that increments the counters.        *)
RecordJobResult(s, success) ==
  src' = [src EXCEPT ![s].total  = @ + 1,
                     ![s].ok     = IF success THEN @ + 1 ELSE @,
                     ![s].failed = IF success THEN @ ELSE @ + 1]

(* Delete is a soft delete, and has no other effect.                       *)
DeleteSource(s) == src' = [src EXCEPT ![s].active = FALSE]

(* Update: a full-row UPDATE from the caller's copy, run-time columns      *)
(* included, whatever the row has become since that copy was read.         *)
UpdateSource(s, row) == src' = [src EXCEPT ![s] = row]
=============================================================================
