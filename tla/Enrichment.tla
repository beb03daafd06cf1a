----------------------------- MODULE Enrichment -----------------------------
(***************************************************************************)
(* Image enrichment: requests that run a batch (POST /enrichment/run, for  *)
(* the queue or for given products) and requests that reject an image      *)
(* (POST /enrichment/reject), over the resolution table, the object store, *)
(* and the global catalogue, which is another service and keeps the queue  *)
(* of the products without an image.                                       *)
(*                                                                         *)
(* A step is one call to the database or to a service.  Any call may fail, *)
(* and the process may end, as often as MaxFaults allows.                  *)
(***************************************************************************)
EXTENDS ResolutionTable, FiniteSetsExt

CONSTANTS
  Batches, Rejecters,   \* concurrent requests of either kind
  Order,                \* the products of the catalogue, as it lists them
  Key,                  \* Key[s][i]: the object key, from the GTIN or EAN of
                        \* the data, else the EAN or the name of the product
  PageSize,             \* pageSize (100)
  MaxIds,               \* products a request may name (100)
  Limits,               \* the limits a request may set (50 by default)
  NoItem,               \* not an item: an idle caller holds none
  MaxPolls,             \* replicateMaxWait / replicatePollSleep (20)
  MaxRequests,          \* bound: requests to run a batch
  MaxRejections,        \* bound: requests to reject an image
  MaxFaults             \* bound: calls that fail

Callers == Batches \cup Rejecters

ASSUME EnrichmentAssumption ==
  /\ IsFiniteSet(Callers) /\ Batches \cap Rejecters = {}
  /\ IsFiniteSet(Items) /\ NoItem \notin Items
  /\ Order \in Seq(Items) /\ Limits \subseteq Nat
  /\ \A m, n \in DOMAIN Order : Order[m] = Order[n] => m = n
  /\ \A s \in Sources, i \in Items : Key[s][i] # NoImage
  /\ PageSize \in Nat \ {0} /\ MaxPolls \in Nat \ {0}
  /\ MaxIds \in Nat
  /\ MaxRequests \in Nat /\ MaxRejections \in Nat /\ MaxFaults \in Nat

VARIABLES
  mem,        \* mem[c]: the step of caller c and what it has read
  shown,      \* shown[i]: the image_url of product i in the catalogue: the
              \* key of an object, or NoImage
  object,     \* object[k]: the image stored under key k
  count,      \* requests, rejections and faults so far, and the cents spent
  watch,      \* history, of batch b: the products that have been in the
              \* queue since it began, those it has tried, and how many left
  disturbed,  \* history: products that a fault hit, or two callers at once
  raced       \* history: products an image of which was rejected while a
              \* batch that had read the list was at work on them

vars == <<row, mem, shown, object, count, watch, disturbed, raced>>

Keys  == {Key[s][i] : s \in Sources, i \in Items}
Known == {Order[n] : n \in DOMAIN Order}
Queue == {i \in Known : shown[i] = NoImage}

(* Where product i is in the list of the products in set.                  *)
Place(i)     == CHOOSE n \in DOMAIN Order : Order[n] = i
Rank(i, set) == Cardinality({j \in set : Place(j) <= Place(i)})

Steps == {"idle", "list", "byIds", "next", "rejected", "find", "enhance",
          "predict", "poll", "output", "upload", "save", "update",
          "reject", "clear"}
Memory ==
  [pc : Steps, item : Items \cup {NoItem}, page : SUBSET Items, offset : Nat,
   last : BOOLEAN, done : Nat, limit : Nat, force : BOOLEAN,
   rejected : SUBSET URLs, source : Sources, image : URLs, cost : Nat,
   polls : Nat]
Idle == [pc |-> "idle", item |-> NoItem, page |-> {}, offset |-> 0,
         last |-> TRUE, done |-> 0, limit |-> 0, force |-> FALSE,
         rejected |-> {}, source |-> "ml", image |-> NoImage, cost |-> 0,
         polls |-> 0]

NoWatch == [waiting |-> {}, tried |-> {}, left |-> 0]

Init ==
  /\ row = [i \in Items |-> NoRow]
  /\ mem = [c \in Callers |-> Idle]
  /\ shown = [i \in Items |-> NoImage]
  /\ object = [k \in Keys |-> NoImage]
  /\ count = [requests |-> 0, rejections |-> 0, faults |-> 0, spent |-> 0]
  /\ watch = [b \in Batches |-> NoWatch]
  /\ disturbed = {} /\ raced = {}

Keep == UNCHANGED <<row, shown, object>>

(* Caller c goes on with memory m, and this cost money cents.              *)
Goes(c, m)         == mem' = [mem EXCEPT ![c] = m]
GoesTo(c, pc)      == mem' = [mem EXCEPT ![c].pc = pc]
Spends(cents)      == count' = [count EXCEPT !.spent = @ + cents]
CostsNothing       == UNCHANGED count

(* The batch is done with its product and takes the next one.              *)
Released(m) == [m EXCEPT !.pc = "next", !.item = NoItem, !.image = NoImage,
                         !.rejected = {}, !.cost = 0, !.polls = 0,
                         !.source = "ml"]

(* A call fails: in a batch that gives up the product, elsewhere it ends   *)
(* the request.                                                            *)
Fault(c) ==
  /\ count.faults < MaxFaults
  /\ count' = [count EXCEPT !.faults = @ + 1]
  /\ Goes(c, IF mem[c].item = NoItem \/ c \in Rejecters THEN Idle
             ELSE Released(mem[c]))
-----------------------------------------------------------------------------
(***************************************************************************)
(* executeBatch and executeOnDemand                                        *)
(***************************************************************************)
RunBatch(b) ==
  /\ mem[b].pc = "idle" /\ count.requests < MaxRequests
  /\ \E limit \in Limits, force \in BOOLEAN :
       Goes(b, [Idle EXCEPT !.pc = "list", !.limit = limit, !.force = force])
  /\ count' = [count EXCEPT !.requests = @ + 1]
  /\ Keep

RunOnDemand(b) ==
  /\ mem[b].pc = "idle" /\ count.requests < MaxRequests
  /\ \E force \in BOOLEAN :
       Goes(b, [Idle EXCEPT !.pc = "byIds", !.force = force])
  /\ count' = [count EXCEPT !.requests = @ + 1]
  /\ Keep

(* A page of the queue, from an offset; a short one is the last.           *)
ListPage(b) ==
  /\ mem[b].pc = "list"
  /\ LET offset == mem[b].offset
         page == {i \in Queue :
                    Rank(i, Queue) \in offset + 1 .. offset + PageSize} IN
     Goes(b, IF page = {} THEN Idle
             ELSE [mem[b] EXCEPT !.pc = "next", !.page = page,
                                 !.last = Cardinality(page) < PageSize])
  /\ CostsNothing /\ Keep

(* The products asked for, one request each; those that are unknown to the *)
(* catalogue are passed over, and all the others are handled.              *)
GetProductsByIDs(b) ==
  /\ mem[b].pc = "byIds"
  /\ \E ids \in {x \in SUBSET Items : Cardinality(x) \in 1 .. MaxIds} :
       Goes(b, [mem[b] EXCEPT !.pc = "next", !.page = ids \cap Known,
                              !.last = TRUE,
                              !.limit = Cardinality(ids \cap Known)])
  /\ CostsNothing /\ Keep

ListStep(b) ==
  \/ ListPage(b) \/ GetProductsByIDs(b)
  \/ mem[b].pc \in {"list", "byIds"} /\ Fault(b) /\ Keep

(* shouldSkip: one query, unless reprocessing is forced.                   *)
NextItem(b) ==
  /\ mem[b].pc = "next" /\ mem[b].done < mem[b].limit
  /\ \E i \in mem[b].page :
     LET m == [mem[b] EXCEPT !.page = @ \ {i}] IN
     /\ \A j \in mem[b].page : Place(i) <= Place(j)
     /\ \/ /\ ~mem[b].force /\ IsResolved(i)
           /\ Goes(b, m) /\ CostsNothing
        \/ /\ mem[b].force \/ ~IsResolved(i)
           /\ Goes(b, [m EXCEPT !.pc = "rejected", !.item = i])
           /\ CostsNothing
        \/ /\ ~mem[b].force /\ count.faults < MaxFaults
           /\ Goes(b, m)
           /\ count' = [count EXCEPT !.faults = @ + 1]
  /\ Keep

(* Mutant of EndPage: the offset moves on by a page too many.              *)
EndPageTwice(b) ==
  /\ mem[b].pc = "next"
  /\ mem[b].page = {} \/ mem[b].done >= mem[b].limit
  /\ Goes(b, IF mem[b].last \/ mem[b].done >= mem[b].limit THEN Idle
             ELSE [mem[b] EXCEPT !.pc = "list", !.page = {},
                                 !.offset = @ + 2 * PageSize])
  /\ CostsNothing /\ Keep

(* Mutant of EndPage: the same page is listed again.                       *)
EndPageStays(b) ==
  /\ mem[b].pc = "next"
  /\ mem[b].page = {} \/ mem[b].done >= mem[b].limit
  /\ Goes(b, IF mem[b].last \/ mem[b].done >= mem[b].limit THEN Idle
             ELSE [mem[b] EXCEPT !.pc = "list", !.page = {}])
  /\ CostsNothing /\ Keep

(* The end of a page: the request ends, or goes on with the next page.     *)
EndPage(b) ==
  /\ mem[b].pc = "next"
  /\ mem[b].page = {} \/ mem[b].done >= mem[b].limit
  /\ Goes(b, IF mem[b].last \/ mem[b].done >= mem[b].limit THEN Idle
             ELSE [mem[b] EXCEPT !.pc = "list", !.page = {},
                                 !.offset = @ + PageSize])
  /\ CostsNothing /\ Keep
-----------------------------------------------------------------------------
(***************************************************************************)
(* processItem                                                             *)
(***************************************************************************)
ReadRejected(b) ==
  /\ mem[b].pc = "rejected"
  /\ Goes(b, [mem[b] EXCEPT !.pc = "find",
                            !.rejected = GetRejectedURLs(mem[b].item)])
  /\ CostsNothing /\ Keep

(* DALL-E draws, and charges, when the cascade gets to it.                 *)
FindData(b) ==
  /\ mem[b].pc = "find"
  /\ LET i     == mem[b].item
         first == Found(i, mem[b].rejected, FALSE)
         found == Found(i, mem[b].rejected, count.faults < MaxFaults) IN
     \/ /\ found = {}
        /\ Goes(b, Released(mem[b])) /\ CostsNothing
     \/ \E data \in found :
          /\ Goes(b, [mem[b] EXCEPT !.pc = "enhance", !.image = data.image,
                                    !.source = data.source])
          /\ count' = [count EXCEPT
               !.spent  = @ + (IF data.source = "dalle" THEN DalleCost ELSE 0),
               !.faults = @ + (IF data \in first THEN 0 ELSE 1)]
  /\ Keep

(* ClassifyBySource: the images of other sources need their background     *)
(* removed.                                                                *)
IsDirty(s) == s \notin {"ml", "dalle"}

(* ChainEnhancer: Replicate for those; if it is not configured or cannot   *)
(* do it, and for the others, the image is downloaded as it is.            *)
Enhance(b) ==
  /\ mem[b].pc = "enhance"
  /\ IF IsDirty(mem[b].source)
     THEN \E pc \in {"predict", "upload"} : GoesTo(b, pc)
     ELSE Goes(b, [mem[b] EXCEPT !.pc = "upload",
                   !.cost = IF mem[b].source = "dalle" THEN DalleCost ELSE 0])
  /\ CostsNothing /\ Keep

(* createPrediction: from here on Replicate charges for it.                *)
CreatePrediction(b) ==
  /\ mem[b].pc = "predict"
  /\ GoesTo(b, "poll")
  /\ Spends(ReplicateCost) /\ Keep

(* pollUntilDone: not yet, until it is succeeded, failed, or too late.     *)
PollPrediction(b) ==
  /\ mem[b].pc = "poll"
  /\ \/ /\ mem[b].polls + 1 < MaxPolls
        /\ Goes(b, [mem[b] EXCEPT !.polls = @ + 1])
     \/ \E pc \in {"output", "upload"} :
          Goes(b, [mem[b] EXCEPT !.pc = pc, !.polls = 0])
  /\ CostsNothing /\ Keep

(* Mutant of DownloadOutput: its cost is that of a generated image too.    *)
DownloadOverpriced(b) ==
  /\ mem[b].pc = "output"
  /\ Goes(b, [mem[b] EXCEPT !.pc = "upload",
                            !.cost = ReplicateCost + DalleCost])
  /\ CostsNothing /\ Keep

(* The enhanced image is downloaded; or it is not, and the chain falls     *)
(* back to the original one, which costs nothing.                          *)
DownloadOutput(b) ==
  /\ mem[b].pc = "output"
  /\ \E cost \in {ReplicateCost, 0} :
       Goes(b, [mem[b] EXCEPT !.pc = "upload", !.cost = cost])
  /\ CostsNothing /\ Keep

KeyOf(b) == Key[mem[b].source][mem[b].item]

(* Upload: an object of the same key is overwritten.                       *)
Upload(b) ==
  /\ mem[b].pc = "upload"
  /\ object' = [object EXCEPT ![KeyOf(b)] = mem[b].image]
  /\ GoesTo(b, "save")
  /\ CostsNothing /\ UNCHANGED <<row, shown>>

SaveResolution(b) ==
  /\ mem[b].pc = "save"
  /\ Save(mem[b].item, mem[b].image, mem[b].cost)
  /\ GoesTo(b, "update")
  /\ CostsNothing /\ UNCHANGED <<shown, object>>

(* updatePIM: the product gets the URL of its object.                      *)
UpdatePIM(b) ==
  /\ mem[b].pc = "update"
  /\ shown' = [shown EXCEPT ![mem[b].item] = KeyOf(b)]
  /\ Goes(b, [Released(mem[b]) EXCEPT !.done = @ + 1])
  /\ CostsNothing /\ UNCHANGED <<row, object>>

(* A call of processItem fails before it had an effect, or after it.       *)
ItemFails(b) ==
  /\ mem[b].pc \in {"rejected", "find", "enhance", "upload", "save", "update"}
  /\ Fault(b)
  /\ \/ Keep
     \/ /\ mem[b].pc = "upload" /\ UNCHANGED <<row, shown>>
        /\ object' = [object EXCEPT ![KeyOf(b)] = mem[b].image]
     \/ /\ mem[b].pc = "save" /\ UNCHANGED <<shown, object>>
        /\ Save(mem[b].item, mem[b].image, mem[b].cost)
     \/ /\ mem[b].pc = "update" /\ UNCHANGED <<row, object>>
        /\ shown' = [shown EXCEPT ![mem[b].item] = KeyOf(b)]

ProcessItem(b) ==
  \/ ReadRejected(b) \/ FindData(b)
  \/ Enhance(b) \/ CreatePrediction(b) \/ PollPrediction(b)
  \/ DownloadOutput(b) \/ Upload(b) \/ SaveResolution(b) \/ UpdatePIM(b)
  \/ ItemFails(b)
-----------------------------------------------------------------------------
(***************************************************************************)
(* RejectImageUseCase                                                      *)
(***************************************************************************)
ReadCurrent(r) ==
  /\ mem[r].pc = "idle" /\ count.rejections < MaxRejections
  /\ \E i \in Items :
       Goes(r, [Idle EXCEPT !.pc = "reject", !.item = i,
                            !.image = GetCurrentRawURL(i)])
  /\ count' = [count EXCEPT !.rejections = @ + 1]
  /\ Keep

WriteRejection(r) ==
  /\ mem[r].pc = "reject"
  /\ RejectImage(mem[r].item, mem[r].image)
  /\ GoesTo(r, "clear")
  /\ CostsNothing /\ UNCHANGED <<shown, object>>

ClearPIM(r) ==
  /\ mem[r].pc = "clear"
  /\ shown' = [shown EXCEPT ![mem[r].item] = NoImage]
  /\ Goes(r, Idle)
  /\ CostsNothing /\ UNCHANGED <<row, object>>

RejectFails(r) ==
  /\ mem[r].pc \in {"reject", "clear"}
  /\ Fault(r)
  /\ \/ Keep
     \/ /\ mem[r].pc = "reject" /\ UNCHANGED <<shown, object>>
        /\ RejectImage(mem[r].item, mem[r].image)

RejectStep(r) == \/ ReadCurrent(r) \/ WriteRejection(r) \/ ClearPIM(r)
                 \/ RejectFails(r)
-----------------------------------------------------------------------------
(* The process ends, and every request with it.                            *)
Crash == /\ count.faults < MaxFaults
         /\ \E c \in Callers : mem[c].pc # "idle"
         /\ mem' = [c \in Callers |-> Idle]
         /\ count' = [count EXCEPT !.faults = @ + 1]
         /\ Keep

BatchStep(b) == ListStep(b) \/ NextItem(b) \/ EndPage(b) \/ ProcessItem(b)

Step == \/ \E b \in Batches : RunBatch(b) \/ RunOnDemand(b) \/ BatchStep(b)
        \/ \E r \in Rejecters : RejectStep(r)
        \/ Crash

Holders(i) == {c \in Callers : mem[c].item = i}

(* Batches that have read which URLs were rejected for i.                  *)
HasRead(i) == {b \in Batches : mem[b].item = i /\ mem[b].pc # "rejected"}

(* The steps at which a fault may separate the row, the object and the     *)
(* catalogue.                                                              *)
Between(i) == {c \in Holders(i) :
                 mem[c].pc \in {"upload", "save", "update", "reject", "clear"}}

(* What a batch has seen of the queue since it listed its first page.      *)
Seen(b) ==
  IF mem[b].pc = "list" /\ mem[b].offset = 0
  THEN [waiting |-> Queue', tried |-> mem'[b].page, left |-> 0]
  ELSE [waiting |-> watch[b].waiting \cap Queue',
        tried   |-> watch[b].tried \cup mem'[b].page,
        left    |-> watch[b].left + Cardinality(Queue \ Queue')]

Rejects(i) == row'[i].rejected # row[i].rejected

Observe ==
  /\ watch' = [b \in Batches |->
                 IF mem'[b].pc = "idle" THEN NoWatch ELSE Seen(b)]
  /\ disturbed' = disturbed
       \cup {i \in Items : Cardinality(Holders(i)') > 1}
       \cup (IF count'.faults > count.faults
             THEN {i \in Items : Between(i) # Between(i)'} ELSE {})
  /\ raced' = raced \cup {i \in Items : Rejects(i) /\ HasRead(i) # {}}

Next == Step /\ Observe

(* Requests that have begun go on.                                         *)
Spec     == Init /\ [][Next]_vars
FairSpec == Spec /\ \A b \in Batches : WF_vars(BatchStep(b) /\ Observe)
-----------------------------------------------------------------------------
(* Every variable keeps its shape.                                         *)
TypeOK ==
  /\ row \in [Items -> Row]
  /\ mem \in [Callers -> Memory]
  /\ shown \in [Items -> Keys \cup {NoImage}]
  /\ object \in [Keys -> URLs]
  /\ count \in [requests : Nat, rejections : Nat, faults : Nat, spent : Nat]

(* Unless a call about it failed or two requests were at work on it at the *)
(* same time, a product whose row has an image is shown with it in the     *)
(* catalogue, and a product whose image was rejected is shown with none;   *)
(* the object behind the URL is the image of the row, unless another       *)
(* product uses the same key (the order of Upload, Save and UpdateProduct, *)
(* and of RejectImage and UpdateProduct).                                  *)
OwnKey(i) == \A j \in Items \ {i} : \A s, t \in Sources : Key[s][i] # Key[t][j]
RowTellsWhatIsShown ==
  \A i \in Items \ disturbed :
    Holders(i) = {} =>
      /\ row[i].raw # NoImage <=> shown[i] # NoImage
      /\ shown[i] # NoImage /\ OwnKey(i) => object[shown[i]] = row[i].raw

(* The row of a product never carries a URL that was rejected for it,      *)
(* unless a batch was at work on it, past the reading of the list, when it *)
(* was rejected (GetRejectedURLs, isRejectedURL, Save).                    *)
RejectedStaysAway ==
  \A i \in Items \ raced : row[i].raw \notin row[i].rejected \ {NoImage, Drawn}

(* Paging by offset over a queue that shrinks skips products, but never    *)
(* more than have left the queue meanwhile: a batch that comes to the end  *)
(* of the queue has listed all the others (executeBatch).                  *)
ComesToTheEnd(b) ==
  /\ mem[b].pc = "list" \/ (mem[b].pc = "next" /\ mem[b].last)
  /\ mem[b].done < mem[b].limit /\ mem'[b].pc = "idle"
  /\ count'.faults = count.faults
OffsetSkipsNoMoreThanLeft ==
  [][\A b \in Batches : ComesToTheEnd(b) =>
       Cardinality(watch[b].waiting \ watch[b].tried) <= watch[b].left]_vars

(* What the table reports as cost was really charged, whichever enhancer,  *)
(* fallback or retry the images went through (enhance, ChainEnhancer).     *)
RecordedCost == MapThenSumSet(LAMBDA i : row[i].cost, Items)
CostsWereCharged == RecordedCost <= count.spent

(* A batch that has begun ends, however long the queue, whatever fails or  *)
(* is rejected meanwhile (executeBatch, pollUntilDone).                    *)
BatchEnds == \A b \in Batches : (mem[b].pc # "idle") ~> (mem[b].pc = "idle")
=============================================================================
