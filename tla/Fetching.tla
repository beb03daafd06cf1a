------------------------------ MODULE Fetching ------------------------------
(***************************************************************************)
(* Fetching the products of any kind of source: the call of FetchCall, by  *)
(* the adapters of StoreFetch and FirecrawlFetch, while stores change,     *)
(* extractions go on at Firecrawl, and a shutdown cancels the context.     *)
(***************************************************************************)
EXTENDS StoreFetch, FirecrawlFetch

vars == <<request, ctx, reply, shelf, at, drift, fc, remote, clock, mishaps>>
storeVars     == <<shelf, at, drift>>
firecrawlVars == <<fc, remote, clock, mishaps>>

Init == CallInit /\ StoreInit /\ FirecrawlInit

(* "crawl" and unknown methods are refused.                                *)
Refuse == /\ Unsupported /\ Pending
          /\ Fails
          /\ UNCHANGED <<request, ctx>>

FetchStep == \/ Refuse /\ UNCHANGED <<storeVars, firecrawlVars>>
             \/ (VTEXStep \/ CoopStep) /\ UNCHANGED firecrawlVars
             \/ FirecrawlStep /\ UNCHANGED storeVars

Outside == \/ Cancel /\ UNCHANGED <<storeVars, firecrawlVars>>
           \/ StoreChanges /\ UNCHANGED firecrawlVars
           \/ ExtractionEnds /\ UNCHANGED storeVars

Next == FetchStep \/ Outside

(* A goroutine that is not blocked goes on.                                *)
Spec     == Init /\ [][Next]_vars
FairSpec == Spec /\ WF_vars(FetchStep)
-----------------------------------------------------------------------------
(* Every variable keeps its shape.                                         *)
TypeOK ==
  /\ request \in Request
  /\ ctx \in {"live", "cancelled"}
  /\ reply.end \in {"none", "ok", "failed"}
  /\ reply.end # "ok" => reply.products = << >>
  /\ shelf \in Seq(DOMAIN Shown) /\ at \in Loop /\ drift \in Drift
  /\ fc \in Call
  /\ remote \in Seq(States)
  /\ clock \in Nat
  /\ mishaps \in Mishap

Answered == reply.end = "ok"
MapProduct(p) == IF IsVTEX THEN MapVTEXProduct(p) ELSE MapCoopArticulo(p)

(* The answer about a store that nobody changed is its listing, product by *)
(* product and in order, with the prices it shows: all of it, or as far as *)
(* the offset limit and the cap let it go (FetchHTTPJSON of both adapters: *)
(* the stop conditions, and the offset after a short page).                *)
ReadsWhole(length) ==
  IF IsVTEX
  THEN /\ length >= Least(Len(shelf), IF request.cap = 0 THEN MaxOffset
                          ELSE Least(request.cap, MaxOffset))
       /\ request.cap > 0 => length <= request.cap
  ELSE length = Len(shelf)
Undisturbed == drift.gained + drift.lost + drift.glitches = 0
StillStoreIsCopied ==
  Answered /\ IsHTTP /\ Undisturbed =>
    LET n == Len(reply.products) IN
    /\ ReadsWhole(n)
    /\ reply.products = [k \in 1 .. n |-> MapProduct(shelf[k])]

(* While a store changes, products move across the page boundary: each     *)
(* product gained or lost may hide one product that was listed all along,  *)
(* each product gained may repeat one, and a page of Coop that comes back  *)
(* empty hides no more than itself, unless two come back in a row: a page  *)
(* between two others is never lost for more than that (the total read     *)
(* once, pages by position, coopMaxEmptyPages).                            *)
Ids(products) == {products[n].id : n \in DOMAIN products}
Missed  == drift.stayed \ Ids(reply.products)
Repeats == Len(reply.products) - Cardinality(Ids(reply.products))
InReach == Len(shelf) + drift.lost <= MaxOffset /\ request.cap = 0
DriftIsBounded ==
  Answered /\ IsHTTP =>
    /\ Repeats <= drift.gained
    /\ IsCoop /\ drift.glitches < MaxEmptyPages =>
         Cardinality(Missed) <= drift.lost + CoopPageSize * drift.glitches
    /\ IsVTEX /\ InReach =>
         Cardinality(Missed) <= drift.lost + drift.gained

(* A page that is fetched once makes Firecrawl work, and charge, at most   *)
(* MaxTries times, and only the last extraction is listened to             *)
(* (doRequestWithRetry repeats a POST whose answer was lost).              *)
ExtractionsBounded == Len(remote) <= MaxTries

(* A fetch holds its worker for a bounded time: the deadline is checked    *)
(* once per round, so a last pause and the tries of a last poll come on    *)
(* top of it (pollExtractJob, doRequestWithRetry).                         *)
TriesTime == MaxTries * HTTPTimeout + Pause[MaxTries - 1] - Backoff
HoldsWorkerBriefly ==
  clock <= TriesTime + PollTimeout + PollInterval + TriesTime

(* A fetch by Firecrawl fails for a cause: it was not allowed, a shutdown  *)
(* cancelled it, an answer was no use, MaxTries requests in a row failed,  *)
(* or its extraction was not done by the deadline.  Failures that came     *)
(* between answers, in the rounds of a long extraction, never add up to a  *)
(* lost fetch that is paid for (doRequestWithRetry counts for each request *)
(* anew, and pollExtractJob goes on after any answer).                     *)
FailsForCause ==
  reply.end = "failed" /\ (IsExtract \/ IsScrape) =>
    \/ ~request.key
    \/ ctx = "cancelled"
    \/ mishaps.spoilt
    \/ mishaps.row >= MaxTries
    \/ fc.pc = "wait" /\ clock > fc.deadline

(* Every fetch ends: no paging, polling or retrying goes on for ever, if   *)
(* the store stops changing (FetchHTTPJSON, pollExtractJob).               *)
FetchEnds == <>(reply.end # "none")
=============================================================================
