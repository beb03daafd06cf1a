--------------------------- MODULE FirecrawlFetch ---------------------------
(***************************************************************************)
(* The adapter that has Firecrawl read a page: Extract starts a remote     *)
(* extraction and polls it, ScrapeJSON waits for one in a single request.  *)
(* Every request is tried up to MaxTries times, whatever went wrong, so a  *)
(* request that was carried out and not heard of is carried out again.     *)
(* Time passes in each request, each pause and nowhere else.               *)
(***************************************************************************)
EXTENDS FetchCall

CONSTANTS
  MaxTries,        \* maxRetries (3)
  Backoff,         \* the first pause between two tries (1 s), then doubled
  PollInterval,    \* extractPollInterval (5 s)
  PollTimeout,     \* FIRECRAWL_EXTRACT_TIMEOUT (5 min)
  HTTPTimeout      \* FIRECRAWL_SCRAPE_TIMEOUT, of the client (180 s)

ASSUME FirecrawlAssumption ==
  /\ MaxTries \in Nat \ {0} /\ Backoff \in Nat
  /\ PollInterval \in Nat \ {0} /\ PollTimeout \in Nat /\ HTTPTimeout \in Nat

VARIABLES
  fc,        \* the call: its step, the request it tries (of extraction id, or
             \* of a new one: 0), the tries that failed, the deadline
  remote,    \* remote[x]: the state of the extraction Firecrawl began as
             \* number x; "given" once its products have been sent
  clock,     \* time since the call began
  mishaps    \* history: the requests that failed since one was answered, and
             \* whether an answer could not be used

States == {"processing", "completed", "failed", "given"}
Call   == [pc : {"try", "sent", "pause", "wait"}, tries : Nat,
           id : Nat, deadline : Nat]
Mishap == [row : Nat, spoilt : BOOLEAN]

FirecrawlInit ==
  /\ fc = [pc |-> "try", tries |-> 0, id |-> 0, deadline |-> 0]
  /\ remote = << >>
  /\ clock = 0
  /\ mishaps = [row |-> 0, spoilt |-> FALSE]

(* An extraction that Firecrawl is working on comes to an end.             *)
ExtractionEnds ==
  /\ Pending
  /\ \E x \in DOMAIN remote, st \in {"completed", "failed"} :
       /\ remote[x] = "processing"
       /\ remote' = [remote EXCEPT ![x] = st]
  /\ UNCHANGED <<request, ctx, reply, fc, clock, mishaps>>
-----------------------------------------------------------------------------
(***************************************************************************)
(* doRequest and doRequestWithRetry.  A shutdown may cancel the context at *)
(* any point: before a try, while its request is out, during the pause.    *)
(***************************************************************************)

(* A request takes up to the timeout of the client.                        *)
Passes == \E d \in 0 .. HTTPTimeout : clock' = clock + d

(* The pause after n retries: backoff, doubled after each one.             *)
Pause[n \in Nat] == IF n = 0 THEN Backoff ELSE 2 * Pause[n - 1]

(* Firecrawl begins what a POST asks for; a poll begins nothing.           *)
Begins(st) == remote' = Append(remote, st)
MayBegin == \/ UNCHANGED remote
            \/ fc.id = 0 /\ Begins(IF IsExtract THEN "processing" ELSE "given")

(* Mutant of TryFails: one try more than maxRetries.                       *)
OneMoreTry ==
  /\ mishaps' = [mishaps EXCEPT !.row = @ + 1]
  /\ \/ /\ fc.tries < MaxTries
        /\ fc' = [fc EXCEPT !.pc = "pause"] /\ UNCHANGED reply
     \/ fc.tries = MaxTries /\ Fails /\ UNCHANGED fc

(* A try that failed, for whatever reason, is followed by a pause, unless  *)
(* it was the last.                                                        *)
TryFails ==
  /\ mishaps' = [mishaps EXCEPT !.row = @ + 1]
  /\ \/ /\ fc.tries + 1 < MaxTries
        /\ fc' = [fc EXCEPT !.pc = "pause"] /\ UNCHANGED reply
     \/ fc.tries + 1 = MaxTries /\ Fails /\ UNCHANGED fc

Send == /\ fc.pc = "try" /\ ctx = "live"
        /\ fc' = [fc EXCEPT !.pc = "sent"]
        /\ UNCHANGED <<reply, remote, clock, mishaps>>

(* Cancelled, the client sends nothing: a try that fails.                  *)
NotSent == /\ fc.pc = "try" /\ ctx = "cancelled"
           /\ TryFails
           /\ UNCHANGED <<remote, clock>>

(* A request that is out fails: an error of the network, a status of 400   *)
(* and up, the timeout, a cancellation.  It may have been carried out.     *)
RequestFails == /\ fc.pc = "sent"
                /\ TryFails /\ MayBegin /\ Passes

(* The pause ends: backoff is over, or the context is cancelled.           *)
Elapses == /\ fc.pc = "pause" /\ ctx = "live"
           /\ clock' = clock + Pause[fc.tries]
           /\ fc' = [fc EXCEPT !.pc = "try", !.tries = fc.tries + 1]
           /\ UNCHANGED <<reply, remote, mishaps>>
Interrupted == /\ fc.pc = "pause" /\ ctx = "cancelled"
               /\ Fails
               /\ \E d \in 0 .. Pause[fc.tries] : clock' = clock + d
               /\ UNCHANGED <<fc, remote, mishaps>>

(* The answer is no use: it does not decode, or has no id.  That fails the *)
(* call, with no retry, whatever Firecrawl has done for it.                *)
AnswerSpoilt == /\ fc.pc = "sent"
                /\ Fails /\ MayBegin /\ Passes
                /\ mishaps' = [row |-> 0, spoilt |-> TRUE]
                /\ UNCHANGED fc
-----------------------------------------------------------------------------
(***************************************************************************)
(* Extract, pollExtractJob and ScrapeJSON                                  *)
(***************************************************************************)

(* A request is answered.                                                  *)
Heard == fc.pc = "sent" /\ Passes /\ mishaps' = [mishaps EXCEPT !.row = 0]

(* Without FIRECRAWL_API_KEY nothing is sent.                              *)
NoKey == ~request.key /\ Fails /\ UNCHANGED <<fc, remote, clock, mishaps>>

(* POST /extract is answered with an id, and polling begins.               *)
SubmitExtract ==
  /\ IsExtract /\ fc.id = 0 /\ Heard
  /\ Begins("processing")
  /\ fc' = [pc |-> "wait", tries |-> 0, id |-> Len(remote'),
            deadline |-> clock' + PollTimeout]
  /\ UNCHANGED reply

(* POST /scrape is answered, with products or, when success is false, with *)
(* none: success is not looked at.                                         *)
ScrapeAnswered ==
  /\ IsScrape /\ fc.id = 0 /\ Heard
  /\ \E st \in {"given", "failed"} :
       /\ Begins(st)
       /\ Answers(IF st = "given" THEN <<Len(remote')>> ELSE << >>)
  /\ UNCHANGED fc

(* Mutants of PollWait: no deadline; the tries of the poll before go on    *)
(* being counted.                                                          *)
PollWaitForever ==
  /\ fc.pc = "wait" /\ ctx = "live"
  /\ clock' = clock + PollInterval
  /\ fc' = [fc EXCEPT !.pc = "try", !.tries = 0]
  /\ UNCHANGED <<reply, remote, mishaps>>
PollWaitKeepsTries ==
  /\ fc.pc = "wait" /\ ctx = "live" /\ clock <= fc.deadline
  /\ clock' = clock + PollInterval
  /\ fc' = [fc EXCEPT !.pc = "try"]
  /\ UNCHANGED <<reply, remote, mishaps>>

(* The interval passes and the next poll is tried, its tries counted anew. *)
(* The deadline is looked at before each interval, and only there; the     *)
(* context during the interval.                                            *)
PollWait ==
  /\ fc.pc = "wait" /\ ctx = "live" /\ clock <= fc.deadline
  /\ clock' = clock + PollInterval
  /\ fc' = [fc EXCEPT !.pc = "try", !.tries = 0]
  /\ UNCHANGED <<reply, remote, mishaps>>
PollTimesOut ==
  /\ fc.pc = "wait" /\ clock > fc.deadline
  /\ Fails /\ UNCHANGED <<fc, remote, clock, mishaps>>
PollInterrupted ==
  /\ fc.pc = "wait" /\ ctx = "cancelled" /\ clock <= fc.deadline
  /\ Fails
  /\ \E d \in 0 .. PollInterval : clock' = clock + d
  /\ UNCHANGED <<fc, remote, mishaps>>

(* Only "completed" ends the loop; "failed" is polled like "processing".   *)
PollAnswered ==
  /\ fc.id # 0 /\ Heard
  /\ IF remote[fc.id] = "completed"
     THEN /\ Answers(<<fc.id>>)
          /\ remote' = [remote EXCEPT ![fc.id] = "given"]
          /\ UNCHANGED fc
     ELSE fc' = [fc EXCEPT !.pc = "wait"] /\ UNCHANGED <<reply, remote>>

Trying   == Send \/ NotSent \/ RequestFails \/ Elapses \/ Interrupted
            \/ AnswerSpoilt
Polling  == PollWait \/ PollTimesOut \/ PollInterrupted \/ PollAnswered

FirecrawlStep ==
  /\ IsExtract \/ IsScrape
  /\ Pending
  /\ \/ NoKey
     \/ request.key /\ (Trying \/ SubmitExtract \/ ScrapeAnswered \/ Polling)
  /\ UNCHANGED <<request, ctx>>
=============================================================================
