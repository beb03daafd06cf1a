-------------------------- MODULE EnrichmentProofs --------------------------
(***************************************************************************)
(* Proofs about Enrichment: the shape of its variables, that a rejected    *)
(* image stays away, that the row tells what is shown, that paging by      *)
(* offset skips no more products than have left the queue, and that the    *)
(* costs in the table were charged.                                        *)
(***************************************************************************)
EXTENDS Enrichment, FiniteSetTheorems, WellFoundedInduction, TLAPS

(***************************************************************************)
(* What a caller is doing says which product it holds: a batch holds one   *)
(* from the moment it takes it off its page until it is done with it, and  *)
(* a request to reject an image from its first query to its last call.     *)
(***************************************************************************)
Reading == {"rejected", "find"}
Chosen  == {"enhance", "predict", "poll", "output", "upload", "save", "update"}
Listing == {"idle", "list", "byIds", "next"}

BatchShape(m) ==
  /\ m.pc \in Listing \cup Reading \cup Chosen
  /\ m.pc \in Listing => m.item = NoItem
  /\ m.pc \notin Listing => m.item \in Items
  /\ m.pc \in Chosen => m.image # NoImage

RejecterShape(m) ==
  /\ m.pc \in {"idle", "reject", "clear"}
  /\ m.pc = "idle" => m.item = NoItem
  /\ m.pc # "idle" => m.item \in Items

Shape == /\ \A b \in Batches : BatchShape(mem[b])
         /\ \A r \in Rejecters : RejecterShape(mem[r])

TypeInv == TypeOK /\ Shape

(***************************************************************************)
(* Rejected images: a batch that has read the list of its product goes on  *)
(* with what the row says now, and what it has chosen is not on the list.  *)
(***************************************************************************)
OffList(i, image) == image \notin row[i].rejected \ {NoImage, Drawn}
KeepsToList(m) ==
  m.pc \in {"find"} \cup Chosen /\ m.item \notin raced =>
    /\ m.rejected = row[m.item].rejected
    /\ m.pc \in Chosen => OffList(m.item, m.image)
RejectInv == /\ \A i \in Items \ raced : OffList(i, row[i].raw)
             /\ \A b \in Batches : KeepsToList(mem[b])

(***************************************************************************)
(* What is shown: the catalogue, the row and the object agree but between  *)
(* the steps of the one caller that holds the product.                     *)
(***************************************************************************)
HasOwnKey(i) == shown[i] = NoImage \/ \E s \in Sources : shown[i] = Key[s][i]
Agrees(i) ==
  /\ row[i].raw # NoImage <=> shown[i] # NoImage
  /\ shown[i] # NoImage /\ OwnKey(i) => object[shown[i]] = row[i].raw
HeldOnce(i) == \A c, d \in Holders(i) : c = d
Underway(m) ==
  m.item \in Items \ disturbed =>
    /\ m.pc \in {"save", "update"} /\ OwnKey(m.item) =>
         object[Key[m.source][m.item]] = m.image
    /\ m.pc = "update" => row[m.item].raw = m.image
    /\ m.pc = "clear" => row[m.item].raw = NoImage
ShowInv ==
  /\ \A c \in Callers : Underway(mem[c])
  /\ \A i \in Items :
       /\ HasOwnKey(i)
       /\ i \notin disturbed =>
            /\ HeldOnce(i)
            /\ (\A c \in Holders(i) :
                  mem[c].pc \notin {"save", "update", "clear"}) => Agrees(i)

(***************************************************************************)
(* Paging: of the products that have been waiting since the first page and *)
(* that the batch has not listed, those before its offset are no more than *)
(* have left the queue.                                                    *)
(***************************************************************************)
Missed(b)  == watch[b].waiting \ watch[b].tried
Reached(b) == IF mem[b].pc = "list" THEN mem[b].offset
              ELSE mem[b].offset + PageSize
Skipped(b) == {i \in Missed(b) : Rank(i, Queue) <= Reached(b)}
PageOK(b) ==
  /\ watch[b] \in [waiting : SUBSET Queue, tried : SUBSET Items, left : Nat]
  /\ mem[b].pc \in {"idle", "byIds"} => watch[b].waiting = {}
  /\ Cardinality(Skipped(b)) <= watch[b].left
  /\ mem[b].pc \notin {"idle", "byIds", "list"} /\ mem[b].last =>
       Cardinality(Missed(b)) <= watch[b].left
PageInv == \A b \in Batches : PageOK(b)

(***************************************************************************)
(* Costs: what the table reports and what batches have been charged for    *)
(* and have not recorded yet is no more than what was spent.  F is the     *)
(* table of the sums of g over the sets of D.                              *)
(***************************************************************************)
Some(T) == CHOOSE x \in T : TRUE

(* F is the table of the sums of g over the sets of D.                     *)
Adds(F, g, D) ==
  F = [T \in D |-> IF T = {} THEN 0 ELSE g[Some(T)] + F[T \ {Some(T)}]]
UpTo(n, S) == {T \in SUBSET S : Cardinality(T) <= n}
Total(g, S) == (CHOOSE F : Adds(F, g, SUBSET S))[S]

Pending(m) ==
  IF m.pc = "update" THEN 0
  ELSE m.cost + (IF m.pc = "enhance" /\ m.source = "dalle" THEN DalleCost
                 ELSE IF m.pc \in {"poll", "output"} THEN ReplicateCost ELSE 0)
Costs    == [i \in Items |-> row[i].cost]
Pendings == [b \in Batches |-> Pending(mem[b])]
CostInv  == Total(Costs, Items) + Total(Pendings, Batches) <= count.spent

-----------------------------------------------------------------------------
(***************************************************************************)
(* The constants: what a source answers, and what findProductData ends     *)
(* with: an image that is there and is not on the list.                    *)
(***************************************************************************)
LEMMA SourcesAre == /\ DOMAIN Cascade = 1 .. 5
                    /\ Sources = {"ml", "off", "firecrawl", "perplexity", "dalle"}
<1>1. /\ Cascade[1] = "ml" /\ Cascade[2] = "off" /\ Cascade[3] = "firecrawl"
      /\ Cascade[4] = "perplexity" /\ Cascade[5] = "dalle"
      /\ DOMAIN Cascade = 1 .. 5
  BY DEF Cascade
<1>2. \A n \in 1 .. 5 : n = 1 \/ n = 2 \/ n = 3 \/ n = 4 \/ n = 5
  OBVIOUS
<1>3. 1 \in 1 .. 5 /\ 2 \in 1 .. 5 /\ 3 \in 1 .. 5 /\ 4 \in 1 .. 5 /\ 5 \in 1 .. 5
  OBVIOUS
<1>4. QED
  BY <1>1, <1>2, <1>3 DEF Sources

Titles   == (SUBSET STRING) \cup {{"barcode"}}
Answered == [source : Sources, image : URLs, title : Titles]

LEMMA AnswersAre ==
  ASSUME NEW s \in Sources, NEW i \in Items
  PROVE  Answer(s, i) \in Answered
<1> USE DEF Answered
<1>1. Nothing \in Answered
  BY SourcesAre DEF Nothing, URLs, Titles
<1>2. \A t \in Sources : Offer(t, i) \in Answered
  BY <1>1, ImageSourcesAssumption DEF Offer, URLs, Titles
<1> USE SourcesAre
<1>3. MLAnswer(i) \in Answered /\ OFFAnswer(i) \in Answered
  BY <1>2 DEF MLAnswer, OFFAnswer
<1>4. Name[i] \in Titles
  BY ImageSourcesAssumption DEF Titles
<1>5. \A o \in Answered, t \in Titles : [o EXCEPT !.title = t] \in Answered
  OBVIOUS
<1>6. \A o \in Answered, t \in Sources : [o EXCEPT !.source = t] \in Answered
  OBVIOUS
<1> DEFINE title == IF i \in Barcoded THEN {"barcode"} ELSE Name[i]
<1>11. title \in Titles
  BY <1>4 DEF Titles
<1>12. Offer("firecrawl", i) \in Answered
  BY <1>2
<1>13. FirecrawlAnswer(i) = [Offer("firecrawl", i) EXCEPT !.title = title]
  BY DEF FirecrawlAnswer
<1> HIDE DEF title
<1>7. FirecrawlAnswer(i) \in Answered
  BY <1>5, <1>11, <1>12, <1>13
<1>8. PerplexityAnswer(i) \in Answered
  BY <1>1, <1>2, <1>6 DEF PerplexityAnswer
<1>9. DalleAnswer(i) \in Answered
  BY <1>1, <1>2, <1>4, <1>5 DEF DalleAnswer
<1>10. QED
  BY <1>3, <1>7, <1>8, <1>9 DEF Answer

LEMMA FoundIsAllowed ==
  ASSUME NEW i \in Items, NEW rejected, NEW mayFail,
         NEW data \in Found(i, rejected, mayFail)
  PROVE  /\ data.source \in Sources /\ data.image \in URLs
         /\ data.image # NoImage /\ data.image \notin rejected \ {Drawn}
<1>1. PICK n \in DOMAIN Cascade :
        data = Answer(Cascade[n], i) /\ Accepts(Cascade[n], i, rejected)
  BY Zenon DEF Found
<1>2. Cascade[n] \in Sources
  BY <1>1 DEF Sources
<1>3. data \in Answered
  BY <1>1, <1>2, AnswersAre
<1>4. data.image # NoImage /\ data.image \notin rejected \ {Drawn}
  BY <1>1 DEF Accepts, IsRejectedURL
<1>5. QED
  BY <1>3, <1>4 DEF Answered
-----------------------------------------------------------------------------
(***************************************************************************)
(* Types.                                                                  *)
(***************************************************************************)
LEMMA Literals ==
  /\ Idle \in Memory
  /\ \A m \in Memory : Released(m) \in Memory
  /\ Reading \cup Chosen \cup Listing \cup {"reject", "clear"} = Steps
<1>1. "ml" \in Sources
  BY SourcesAre
<1>2. NoImage \in URLs
  BY DEF URLs
<1>3. QED
  BY <1>1, <1>2 DEF Idle, Memory, Steps, Released, Reading, Chosen, Listing

(* The records that a step leaves a caller with.                           *)
LEMMA Updates ==
  ASSUME NEW m \in Memory
  PROVE  /\ \A pc \in Steps : [m EXCEPT !.pc = pc] \in Memory
         /\ \A pc \in Steps, n \in Nat, f \in BOOLEAN :
              [m EXCEPT !.pc = pc, !.limit = n, !.force = f] \in Memory
         /\ \A pc \in Steps, f \in BOOLEAN :
              [m EXCEPT !.pc = pc, !.force = f] \in Memory
         /\ \A pc \in Steps, page \in SUBSET Items, last \in BOOLEAN :
              [m EXCEPT !.pc = pc, !.page = page, !.last = last] \in Memory
         /\ \A pc \in Steps, page \in SUBSET Items, last \in BOOLEAN, n \in Nat :
              [m EXCEPT !.pc = pc, !.page = page, !.last = last, !.limit = n]
                \in Memory
<1> USE DEF Memory
<1>1. \A pc \in Steps : [m EXCEPT !.pc = pc] \in Memory
  OBVIOUS
<1>2. \A pc \in Steps, n \in Nat, f \in BOOLEAN :
        [m EXCEPT !.pc = pc, !.limit = n, !.force = f] \in Memory
  OBVIOUS
<1>3. \A pc \in Steps, f \in BOOLEAN :
        [m EXCEPT !.pc = pc, !.force = f] \in Memory
  OBVIOUS
<1>4. \A pc \in Steps, page \in SUBSET Items, last \in BOOLEAN :
        [m EXCEPT !.pc = pc, !.page = page, !.last = last] \in Memory
  OBVIOUS
<1>5. \A pc \in Steps, page \in SUBSET Items, last \in BOOLEAN, n \in Nat :
        [m EXCEPT !.pc = pc, !.page = page, !.last = last, !.limit = n]
          \in Memory
  OBVIOUS
<1>6. QED
  BY <1>1, <1>2, <1>3, <1>4, <1>5

-----------------------------------------------------------------------------
(***************************************************************************)
(* What a step does, told by what it does to the memory of its caller,     *)
(* which was mem[c] and becomes m, and to the three stores.                *)
(***************************************************************************)
Fails == count'.faults = count.faults + 1
SamePage(b, m)  == m.offset = mem[b].offset /\ m.last = mem[b].last
SameItem(b, m)  == /\ m.item = mem[b].item /\ m.rejected = mem[b].rejected
                   /\ m.image = mem[b].image /\ m.source = mem[b].source
                   /\ SamePage(b, m)
GivesUp(b, m)   == m.pc = "next" /\ SamePage(b, m) /\ Fails

PageOf(b) == {i \in Queue : Rank(i, Queue) \in
                mem[b].offset + 1 .. mem[b].offset + PageSize}
Ends(b, m)     == /\ m.pc = "idle"
                  /\ mem[b].pc = "list" => Fails \/ PageOf(b) = {}
ListsPage(b, m) == /\ mem[b].pc = "list" /\ m.pc = "next"
                   /\ m.page = PageOf(b) /\ m.offset = mem[b].offset
                   /\ m.last = (Cardinality(PageOf(b)) < PageSize)
PassesOver(b, m) == mem[b].pc = "next" /\ m.pc = "next" /\ SamePage(b, m)
TurnsPage(b, m) == /\ mem[b].pc = "next" /\ m.pc = "list"
                   /\ m.offset = mem[b].offset + PageSize
Turns(b, m) ==
  /\ Keep /\ mem[b].pc \in Listing /\ m.pc \in Listing
  /\ \/ mem[b].pc \in {"idle", "byIds"} \/ Ends(b, m)
     \/ ListsPage(b, m) \/ PassesOver(b, m) \/ TurnsPage(b, m)
Takes(b, m) == Keep /\ mem[b].pc = "next" /\ m.pc = "rejected" /\ SamePage(b, m)
Reads(b, m) ==
  /\ Keep /\ mem[b].pc = "rejected" /\ m.pc = "find"
  /\ m.item = mem[b].item /\ m.rejected = row[mem[b].item].rejected
  /\ SamePage(b, m)
Chooses(b, m) ==
  /\ Keep /\ mem[b].pc = "find" /\ m.pc = "enhance"
  /\ m.item = mem[b].item /\ m.rejected = mem[b].rejected
  /\ m.image \notin mem[b].rejected \ {Drawn}
  /\ SamePage(b, m)
Works(b, m) ==
  /\ Keep
  /\ mem[b].pc \in {"enhance", "predict", "poll", "output"}
  /\ m.pc \in {"predict", "poll", "output", "upload"}
  /\ SameItem(b, m)
Leaves(b, m) ==
  /\ Keep /\ mem[b].pc \in Reading \cup Chosen
  /\ m.pc = "next" /\ SamePage(b, m)
  /\ mem[b].pc \in {"upload", "save", "update"} => Fails
Uploads(b, m) ==
  /\ mem[b].pc = "upload"
  /\ object' = [object EXCEPT ![KeyOf(b)] = mem[b].image]
  /\ row' = row /\ shown' = shown
  /\ (m.pc = "save" /\ SameItem(b, m)) \/ GivesUp(b, m)
Saved(b) == [row[mem[b].item] EXCEPT !.exists = TRUE, !.raw = mem[b].image,
                                     !.cost = mem[b].cost]
Saves(b, m) ==
  /\ mem[b].pc = "save"
  /\ row' = [row EXCEPT ![mem[b].item] = Saved(b)]
  /\ object' = object /\ shown' = shown
  /\ (m.pc = "update" /\ SameItem(b, m)) \/ GivesUp(b, m)
Shows(b, m) ==
  /\ mem[b].pc = "update"
  /\ shown' = [shown EXCEPT ![mem[b].item] = KeyOf(b)]
  /\ row' = row /\ object' = object
  /\ m.pc = "next" /\ SamePage(b, m)
BatchMove(b, m) ==
  \/ Turns(b, m) \/ Takes(b, m) \/ Reads(b, m) \/ Chooses(b, m)
  \/ Works(b, m) \/ Leaves(b, m)
  \/ Uploads(b, m) \/ Saves(b, m) \/ Shows(b, m)

Looks(r, m) == Keep /\ mem[r].pc = "idle" /\ m.pc = "reject"
Struck(r) == [row[mem[r].item] EXCEPT !.exists = TRUE, !.raw = NoImage,
                !.rejected = row[mem[r].item].rejected \cup {mem[r].image}]
Strikes(r, m) ==
  /\ mem[r].pc = "reject"
  /\ row' = [row EXCEPT ![mem[r].item] = Struck(r)]
  /\ object' = object /\ shown' = shown
  /\ (m.pc = "clear" /\ m.item = mem[r].item) \/ (m.pc = "idle" /\ Fails)
Clears(r, m) ==
  /\ mem[r].pc = "clear" /\ m.pc = "idle"
  /\ shown' = [shown EXCEPT ![mem[r].item] = NoImage]
  /\ row' = row /\ object' = object
Stops(r, m) == Keep /\ mem[r].pc \in {"reject", "clear"} /\ m.pc = "idle" /\ Fails
RejecterMove(r, m) == \/ Looks(r, m) \/ Strikes(r, m)
                      \/ Clears(r, m) \/ Stops(r, m)

(* The caller c of a step goes on with m.                                  *)
GoesOn(b) ==
  \E m \in Memory : Goes(b, m) /\ BatchShape(m) /\ BatchMove(b, m)
LooksOn(r) ==
  \E m \in Memory : Goes(r, m) /\ RejecterShape(m) /\ RejecterMove(r, m)
-----------------------------------------------------------------------------
LEMMA BatchesAreCallers ==
  ASSUME TypeInv, NEW b \in Batches
  PROVE  /\ b \in Callers /\ mem[b] \in Memory /\ BatchShape(mem[b])
         /\ b \notin Rejecters
         /\ mem = [c \in Callers |-> mem[c]]
BY EnrichmentAssumption DEF TypeInv, TypeOK, Shape, Callers

(* Changing the step only.                                                 *)
LEMMA GoesToGoes ==
  ASSUME TypeInv, NEW c \in Callers, NEW pc, GoesTo(c, pc)
  PROVE  Goes(c, [mem[c] EXCEPT !.pc = pc])
BY DEF TypeInv, TypeOK, GoesTo, Goes

LEMMA FaultCounts ==
  ASSUME TypeInv, NEW b \in Batches, Fault(b)
  PROVE  /\ Fails
         /\ mem[b].pc \in Listing => Goes(b, Idle)
         /\ mem[b].pc \notin Listing => Goes(b, Released(mem[b]))
<1>1. count'.faults = count.faults + 1
  BY DEF Fault, TypeInv, TypeOK
<1>2. BatchShape(mem[b]) /\ b \notin Rejecters
  BY BatchesAreCallers
<1>3. NoItem \notin Items
  BY EnrichmentAssumption
<1>4. QED
  BY <1>1, <1>2, <1>3 DEF Fault, Fails, BatchShape

LEMMA IdleTurns ==
  ASSUME TypeInv, NEW b \in Batches, Keep, mem[b].pc \in Listing,
         Goes(b, Idle), mem[b].pc = "list" => Fails \/ PageOf(b) = {}
  PROVE  GoesOn(b)
<1>1. Idle \in Memory /\ BatchShape(Idle) /\ Turns(b, Idle)
  BY Literals DEF BatchShape, Idle, Turns, Ends, Listing, Chosen
<1>2. QED
  BY <1>1 DEF GoesOn, BatchMove

LEMMA ReleasedIs ==
  ASSUME NEW m \in Memory
  PROVE  /\ Released(m) \in Memory /\ BatchShape(Released(m))
         /\ Released(m).pc = "next"
         /\ Released(m).offset = m.offset /\ Released(m).last = m.last
<1>1. Released(m) \in Memory
  BY Literals
<1>2. /\ Released(m).pc = "next" /\ Released(m).item = NoItem
      /\ Released(m).offset = m.offset /\ Released(m).last = m.last
  BY DEF Released, Memory
<1>3. QED
  BY <1>1, <1>2 DEF BatchShape, Listing, Chosen

LEMMA RunBatchMoves ==
  ASSUME TypeInv, NEW b \in Batches, RunBatch(b) \/ RunOnDemand(b)
  PROVE  GoesOn(b)
<1>1. Keep /\ mem[b].pc = "idle"
  BY DEF RunBatch, RunOnDemand
<1>2. PICK pc \in {"list", "byIds"}, n \in Nat, f \in BOOLEAN :
        \/ Goes(b, [Idle EXCEPT !.pc = pc, !.limit = n, !.force = f])
        \/ Goes(b, [Idle EXCEPT !.pc = pc, !.force = f])
  BY EnrichmentAssumption DEF RunBatch, RunOnDemand
<1> DEFINE m == [Idle EXCEPT !.pc = pc, !.limit = n, !.force = f]
           k == [Idle EXCEPT !.pc = pc, !.force = f]
<1>3. pc \in Steps /\ Idle \in Memory
  BY Literals DEF Steps
<1>4. m \in Memory /\ k \in Memory
  BY <1>3, Updates
<1>5. m.pc = pc /\ k.pc = pc /\ m.item = NoItem /\ k.item = NoItem
  BY DEF Idle
<1> HIDE DEF m, k
<1>6. /\ BatchShape(m) /\ BatchShape(k) /\ Turns(b, m) /\ Turns(b, k)
  BY <1>1, <1>5 DEF BatchShape, Listing, Chosen, Turns
<1>7. Goes(b, m) \/ Goes(b, k)
  BY <1>2 DEF m, k
<1>8. QED
  BY <1>4, <1>6, <1>7 DEF GoesOn, BatchMove

LEMMA ListPageMoves ==
  ASSUME TypeInv, NEW b \in Batches, ListPage(b)
  PROVE  GoesOn(b)
<1>1. Keep /\ mem[b].pc = "list" /\ mem[b] \in Memory /\ BatchShape(mem[b])
  BY BatchesAreCallers DEF ListPage
<1> DEFINE page == PageOf(b)
           m == [mem[b] EXCEPT !.pc = "next", !.page = page,
                               !.last = Cardinality(page) < PageSize]
<1>2. page \subseteq Items
  BY EnrichmentAssumption DEF Queue, Known, PageOf
<1>3. (Goes(b, Idle) /\ page = {}) \/ Goes(b, m)
  BY DEF ListPage, PageOf
<1>4. "next" \in Steps /\ (Cardinality(page) < PageSize) \in BOOLEAN
  BY DEF Steps
<1> HIDE DEF page
<1>5. m \in Memory
  BY <1>1, <1>2, <1>4, Updates
<1>6. /\ m.pc = "next" /\ m.item = NoItem /\ m.offset = mem[b].offset
      /\ m.page = page /\ m.last = (Cardinality(page) < PageSize)
  BY <1>1 DEF Memory, BatchShape, Listing
<1> HIDE DEF m
<1>7. BatchShape(m) /\ Turns(b, m)
  BY <1>1, <1>6 DEF BatchShape, Listing, Chosen, Turns, ListsPage, page
<1>8. CASE Goes(b, m)
  BY <1>5, <1>7, <1>8 DEF GoesOn, BatchMove
<1>9. CASE Goes(b, Idle) /\ page = {}
  BY <1>1, <1>9, IdleTurns DEF Listing, page
<1>10. QED
  BY <1>3, <1>8, <1>9

LEMMA KnownIsFinite == IsFiniteSet(Known) /\ Known \subseteq Items
<1>1. PICK k \in Nat : DOMAIN Order = 1 .. k
  BY EnrichmentAssumption
<1>2. IsFiniteSet(1 .. k)
  BY <1>1, FS_Interval
<1>3. Order \in Surjection(1 .. k, Known)
  <2>1. Order = [j \in 1 .. k |-> Order[j]]
    BY <1>1, EnrichmentAssumption
  <2>2. Known = {Order[j] : j \in 1 .. k}
    BY <1>1 DEF Known
  <2>3. QED
    BY <2>1, <2>2 DEF Surjection
<1>4. IsFiniteSet(Known)
  BY <1>2, <1>3, FS_Surjection
<1>5. Known \subseteq Items
  BY EnrichmentAssumption DEF Known
<1>6. QED
  BY <1>4, <1>5

LEMMA ByIdsMoves ==
  ASSUME TypeInv, NEW b \in Batches, GetProductsByIDs(b)
  PROVE  GoesOn(b)
<1>1. Keep /\ mem[b].pc = "byIds" /\ mem[b] \in Memory /\ BatchShape(mem[b])
  BY BatchesAreCallers DEF GetProductsByIDs
<1>2. PICK ids \in {x \in SUBSET Items : Cardinality(x) \in 1 .. MaxIds} :
        Goes(b, [mem[b] EXCEPT !.pc = "next", !.page = ids \cap Known,
                               !.last = TRUE,
                               !.limit = Cardinality(ids \cap Known)])
  BY Zenon DEF GetProductsByIDs
<1> DEFINE page == ids \cap Known
           n == Cardinality(page)
           m == [mem[b] EXCEPT !.pc = "next", !.page = page,
                               !.last = TRUE, !.limit = n]
<1>3. page \subseteq Items
  BY <1>2
<1>4. n \in Nat
  BY KnownIsFinite, FS_Subset, FS_CardinalityType
<1>5. "next" \in Steps
  BY DEF Steps
<1> HIDE DEF page, n
<1>6. m \in Memory
  BY <1>1, <1>3, <1>4, <1>5, Updates
<1>7. m.pc = "next" /\ m.item = NoItem
  BY <1>1 DEF Memory, BatchShape, Listing
<1>8. Goes(b, m)
  BY <1>2 DEF page, n
<1> HIDE DEF m
<1>9. BatchShape(m) /\ Turns(b, m)
  BY <1>1, <1>7 DEF BatchShape, Listing, Chosen, Turns
<1>10. QED
  BY <1>6, <1>8, <1>9 DEF GoesOn, BatchMove

LEMMA NextItemMoves ==
  ASSUME TypeInv, NEW b \in Batches, NextItem(b)
  PROVE  GoesOn(b)
<1>1. Keep /\ mem[b].pc = "next" /\ mem[b] \in Memory /\ BatchShape(mem[b])
  BY BatchesAreCallers DEF NextItem
<1>2. PICK i \in mem[b].page :
        \/ Goes(b, [mem[b] EXCEPT !.page = @ \ {i}])
        \/ Goes(b, [[mem[b] EXCEPT !.page = @ \ {i}]
                      EXCEPT !.pc = "rejected", !.item = i])
  BY Zenon DEF NextItem
<1> DEFINE page == mem[b].page \ {i}
           k == [mem[b] EXCEPT !.page = page]
           m == [k EXCEPT !.pc = "rejected", !.item = i]
<1>3. page \in SUBSET Items /\ i \in Items
  BY <1>1, <1>2 DEF Memory
<1>4. Goes(b, k) \/ Goes(b, m)
  BY <1>2
<1> HIDE DEF page
<1>5. k \in Memory /\ k.pc = "next" /\ k.item = NoItem
      /\ k.offset = mem[b].offset /\ k.last = mem[b].last
  BY <1>1, <1>3 DEF Memory, BatchShape, Listing
<1> HIDE DEF k
<1>6. BatchShape(k) /\ Turns(b, k)
  BY <1>1, <1>5 DEF BatchShape, Listing, Chosen, Turns, PassesOver, SamePage
<1>7. m \in Memory
  BY <1>3, <1>5 DEF Memory, Steps
<1>8. m.pc = "rejected" /\ m.item = i /\ m.offset = k.offset /\ m.last = k.last
  BY <1>5 DEF Memory
<1> HIDE DEF m
<1>9. BatchShape(m) /\ Takes(b, m)
  BY <1>1, <1>3, <1>5, <1>8
     DEF BatchShape, Listing, Reading, Chosen, Takes, SamePage
<1>10. QED
  BY <1>4, <1>5, <1>6, <1>7, <1>9 DEF GoesOn, BatchMove

LEMMA EndPageMoves ==
  ASSUME TypeInv, NEW b \in Batches, EndPage(b)
  PROVE  GoesOn(b)
<1>1. Keep /\ mem[b].pc = "next" /\ mem[b] \in Memory /\ BatchShape(mem[b])
  BY BatchesAreCallers DEF EndPage
<1> DEFINE n == mem[b].offset + PageSize
           m == [mem[b] EXCEPT !.pc = "list", !.page = {}, !.offset = n]
<1>2. Goes(b, Idle) \/ Goes(b, m)
  BY DEF EndPage
<1>3. n \in Nat
  BY <1>1, EnrichmentAssumption DEF Memory
<1> HIDE DEF n
<1>4. m \in Memory /\ m.pc = "list" /\ m.item = NoItem /\ m.offset = n
  BY <1>1, <1>3 DEF Memory, Steps, BatchShape, Listing
<1> HIDE DEF m
<1>5. BatchShape(m) /\ Turns(b, m)
  BY <1>1, <1>4 DEF BatchShape, Listing, Chosen, Turns, TurnsPage, n
<1>6. CASE Goes(b, m)
  BY <1>4, <1>5, <1>6 DEF GoesOn, BatchMove
<1>7. CASE Goes(b, Idle)
  BY <1>1, <1>7, IdleTurns DEF Listing
<1>8. QED
  BY <1>2, <1>6, <1>7

LEMMA ListStepMoves ==
  ASSUME TypeInv, NEW b \in Batches, ListStep(b)
  PROVE  GoesOn(b)
<1>1. CASE mem[b].pc \in {"list", "byIds"} /\ Fault(b) /\ Keep
  <2>1. mem[b].pc \in Listing
    BY <1>1 DEF Listing
  <2>2. QED
    BY <1>1, <2>1, FaultCounts, IdleTurns
<1>2. QED
  BY <1>1, ListPageMoves, ByIdsMoves DEF ListStep
-----------------------------------------------------------------------------
LEMMA ReadRejectedMoves ==
  ASSUME TypeInv, NEW b \in Batches, ReadRejected(b)
  PROVE  GoesOn(b)
<1>1. /\ Keep /\ mem[b].pc = "rejected" /\ mem[b] \in Memory
      /\ BatchShape(mem[b])
  BY BatchesAreCallers DEF ReadRejected
<1>2. mem[b].item \in Items
  BY <1>1 DEF BatchShape, Listing
<1> DEFINE list == row[mem[b].item].rejected
           m    == [mem[b] EXCEPT !.pc = "find", !.rejected = list]
<1>3. Goes(b, m)
  BY DEF ReadRejected, GetRejectedURLs
<1>4. list \in SUBSET URLs
  BY <1>2 DEF TypeInv, TypeOK, Row
<1> HIDE DEF list
<1>5. m \in Memory
  BY <1>1, <1>4 DEF Memory, Steps
<1>6. /\ m.pc = "find" /\ m.item = mem[b].item /\ m.rejected = list
      /\ SamePage(b, m)
  BY <1>1 DEF Memory, SamePage
<1> HIDE DEF m
<1>7. BatchShape(m) /\ Reads(b, m)
  BY <1>1, <1>2, <1>6 DEF BatchShape, Listing, Reading, Chosen, Reads, list
<1>8. QED
  BY <1>3, <1>5, <1>7 DEF GoesOn, BatchMove

LEMMA FindDataMoves ==
  ASSUME TypeInv, NEW b \in Batches, FindData(b)
  PROVE  GoesOn(b)
<1>1. /\ Keep /\ mem[b].pc = "find" /\ mem[b] \in Memory
      /\ BatchShape(mem[b])
  BY BatchesAreCallers DEF FindData
<1>2. mem[b].item \in Items
  BY <1>1 DEF BatchShape, Listing
<1>3. CASE Goes(b, Released(mem[b]))
  <2>1. Leaves(b, Released(mem[b]))
    BY <1>1, ReleasedIs DEF Leaves, Reading, Chosen, SamePage
  <2>2. QED
    BY <1>1, <1>3, <2>1, ReleasedIs DEF GoesOn, BatchMove
<1>4. CASE \E data \in Found(mem[b].item, mem[b].rejected,
                             count.faults < MaxFaults) :
             Goes(b, [mem[b] EXCEPT !.pc = "enhance", !.image = data.image,
                                    !.source = data.source])
  <2>1. PICK data \in Found(mem[b].item, mem[b].rejected,
                            count.faults < MaxFaults) :
             Goes(b, [mem[b] EXCEPT !.pc = "enhance", !.image = data.image,
                                    !.source = data.source])
    BY <1>4
  <2>2. /\ data.source \in Sources /\ data.image \in URLs
        /\ data.image # NoImage /\ data.image \notin mem[b].rejected \ {Drawn}
    BY <1>2, FoundIsAllowed
  <2> DEFINE x == data.image
             y == data.source
             m == [mem[b] EXCEPT !.pc = "enhance", !.image = x, !.source = y]
  <2>3. Goes(b, m)
    BY <2>1
  <2>4. x \in URLs /\ y \in Sources
    BY <2>2
  <2>5. x # NoImage /\ x \notin mem[b].rejected \ {Drawn}
    BY <2>2
  <2> HIDE DEF x, y
  <2>6. m \in Memory
    BY <1>1, <2>4 DEF Memory, Steps
  <2>7. /\ m.pc = "enhance" /\ m.item = mem[b].item
        /\ m.rejected = mem[b].rejected /\ m.image = x /\ SamePage(b, m)
    BY <1>1 DEF Memory, SamePage
  <2> HIDE DEF m
  <2>8. BatchShape(m) /\ Chooses(b, m)
    BY <1>1, <1>2, <2>5, <2>7
       DEF BatchShape, Listing, Reading, Chosen, Chooses
  <2>9. QED
    BY <2>3, <2>6, <2>8 DEF GoesOn, BatchMove
<1>5. QED
  BY <1>3, <1>4, Zenon DEF FindData

(* A batch at work on an image that it has chosen goes to the next step.   *)
LEMMA ChosenIs ==
  ASSUME TypeInv, NEW b \in Batches, mem[b].pc \in Chosen
  PROVE  mem[b].item \in Items /\ mem[b].image # NoImage
BY BatchesAreCallers DEF BatchShape, Listing, Chosen

LEMMA SameItemShape ==
  ASSUME TypeInv, NEW b \in Batches, mem[b].pc \in Chosen,
         NEW m, m.pc \in Chosen, SameItem(b, m)
  PROVE  BatchShape(m)
BY ChosenIs DEF BatchShape, SameItem, Listing, Chosen

LEMMA Advances ==
  ASSUME TypeInv, NEW b \in Batches, Keep,
         mem[b].pc \in {"enhance", "predict", "poll", "output"},
         NEW pc \in {"predict", "poll", "output", "upload"},
         NEW n \in Nat, NEW k \in Nat,
         \/ Goes(b, [mem[b] EXCEPT !.pc = pc])
         \/ Goes(b, [mem[b] EXCEPT !.pc = pc, !.cost = n])
         \/ Goes(b, [mem[b] EXCEPT !.pc = pc, !.polls = k])
  PROVE  GoesOn(b)
<1> DEFINE m == [mem[b] EXCEPT !.pc = pc, !.cost = n]
           l == [mem[b] EXCEPT !.pc = pc, !.polls = k]
           o == [mem[b] EXCEPT !.pc = pc]
<1>1. mem[b] \in Memory /\ mem[b].pc \in Chosen /\ pc \in Chosen /\ pc \in Steps
  BY BatchesAreCallers DEF Chosen, Steps
<1>2. m \in Memory /\ l \in Memory /\ o \in Memory
  BY <1>1 DEF Memory
<1>3. /\ m.pc = pc /\ l.pc = pc /\ o.pc = pc
      /\ SameItem(b, m) /\ SameItem(b, l) /\ SameItem(b, o)
  BY <1>1 DEF Memory, SameItem, SamePage
<1>4. Goes(b, m) \/ Goes(b, l) \/ Goes(b, o)
  OBVIOUS
<1> HIDE DEF m, l, o
<1>5. BatchShape(m) /\ BatchShape(l) /\ BatchShape(o)
  BY <1>1, <1>3, SameItemShape
<1>6. Works(b, m) /\ Works(b, l) /\ Works(b, o)
  BY <1>3 DEF Works
<1>7. QED
  BY <1>2, <1>4, <1>5, <1>6 DEF GoesOn, BatchMove

LEMMA EnhanceMoves ==
  ASSUME TypeInv, NEW b \in Batches,
         \/ Enhance(b) \/ CreatePrediction(b) \/ PollPrediction(b)
         \/ DownloadOutput(b)
  PROVE  GoesOn(b)
<1> DEFINE o == mem[b]
<1>1. o \in Memory /\ b \in Callers
  BY BatchesAreCallers
<1>2. CASE Enhance(b)
  <2>1. Keep /\ o.pc = "enhance"
    BY <1>2, SMTT(30) DEF Enhance
  <2>2. CASE IsDirty(o.source)
    <3>1. PICK pc \in {"predict", "upload"} : GoesTo(b, pc)
      BY <1>2, <2>2, Zenon DEF Enhance
    <3>2. Goes(b, [o EXCEPT !.pc = pc])
      BY <1>1, <3>1, GoesToGoes
    <3>3. pc \in {"predict", "poll", "output", "upload"} /\ 0 \in Nat
      BY <3>1, Zenon
    <3>4. QED
      BY <2>1, <3>2, <3>3, Advances
  <2>3. CASE ~IsDirty(o.source)
    <3> DEFINE n == IF o.source = "dalle" THEN DalleCost ELSE 0
    <3>1. Goes(b, [o EXCEPT !.pc = "upload", !.cost = n])
      BY <1>2, <2>3 DEF Enhance
    <3>2. n \in Nat
      BY CostAssumption, SMTT(30)
    <3> HIDE DEF n
    <3>3. QED
      BY <2>1, <3>1, <3>2, Advances
  <2>4. QED
    BY <2>2, <2>3
<1>3. CASE CreatePrediction(b)
  <2>1. Goes(b, [o EXCEPT !.pc = "poll"])
    BY <1>1, <1>3, GoesToGoes DEF CreatePrediction
  <2>2. Keep /\ o.pc = "predict" /\ 0 \in Nat
    BY <1>3 DEF CreatePrediction
  <2>3. QED
    BY <2>1, <2>2, Advances
<1>4. CASE PollPrediction(b)
  <2>1. Keep /\ o.pc = "poll" /\ o.polls \in Nat /\ o.polls + 1 \in Nat
    BY <1>1, <1>4, SMTT(30) DEF PollPrediction, Memory
  <2>2. CASE Goes(b, [o EXCEPT !.polls = @ + 1])
    <3> DEFINE n == o.polls + 1
    <3>1. [o EXCEPT !.polls = n] = [o EXCEPT !.pc = "poll", !.polls = n]
      BY <1>1, <2>1 DEF Memory
    <3>2. Goes(b, [o EXCEPT !.pc = "poll", !.polls = n])
      BY <2>2, <3>1
    <3>3. n \in Nat
      BY <2>1
    <3> HIDE DEF n
    <3>4. QED
      BY <2>1, <3>2, <3>3, Advances
  <2>3. CASE \E pc \in {"output", "upload"} :
               Goes(b, [o EXCEPT !.pc = pc, !.polls = 0])
    <3>1. PICK pc \in {"output", "upload"} :
            Goes(b, [o EXCEPT !.pc = pc, !.polls = 0])
      BY <2>3
    <3>2. pc \in {"predict", "poll", "output", "upload"} /\ 0 \in Nat
      BY <3>1
    <3>3. QED
      BY <2>1, <3>1, <3>2, Advances
  <2>4. QED
    BY <1>4, <2>2, <2>3, Zenon DEF PollPrediction
<1>5. CASE DownloadOutput(b)
  <2>1. PICK n \in {ReplicateCost, 0} :
          Goes(b, [o EXCEPT !.pc = "upload", !.cost = n])
    BY <1>5, Zenon DEF DownloadOutput
  <2>2. Keep /\ o.pc = "output" /\ n \in Nat /\ 0 \in Nat
    BY <1>5, <2>1, CostAssumption DEF DownloadOutput
  <2>3. QED
    BY <2>1, <2>2, Advances
<1>6. QED
  BY <1>2, <1>3, <1>4, <1>5

LEMMA SaveSaves ==
  ASSUME TypeInv, NEW b \in Batches, mem[b].pc = "save",
         Save(mem[b].item, mem[b].image, mem[b].cost)
  PROVE  row' = [row EXCEPT ![mem[b].item] = Saved(b)]
<1>1. mem[b].item \in Items /\ row \in [Items -> Row]
  BY ChosenIs DEF TypeInv, TypeOK, Chosen
<1> DEFINE i == mem[b].item
           x == mem[b].image
           n == mem[b].cost
<1>2. row' = [row EXCEPT ![i].exists = TRUE, ![i].raw = x, ![i].cost = n]
  BY DEF Save
<1> HIDE DEF i, x, n
<1>3. row' = [row EXCEPT ![i] = [row[i] EXCEPT !.exists = TRUE, !.raw = x,
                                               !.cost = n]]
  BY <1>1, <1>2 DEF i
<1>4. QED
  BY <1>3 DEF Saved, i, x, n

LEMMA StoreMoves ==
  ASSUME TypeInv, NEW b \in Batches,
         Upload(b) \/ SaveResolution(b) \/ UpdatePIM(b)
  PROVE  GoesOn(b)
<1>1. mem[b] \in Memory /\ b \in Callers
  BY BatchesAreCallers
<1> DEFINE to(pc) == [mem[b] EXCEPT !.pc = pc]
<1>2. \A pc \in Steps :
        to(pc) \in Memory /\ to(pc).pc = pc /\ SameItem(b, to(pc))
  BY <1>1 DEF Memory, SameItem, SamePage
<1>3. "save" \in Steps \cap Chosen /\ "update" \in Steps \cap Chosen
      /\ "upload" \in Chosen
  BY DEF Steps, Chosen
<1>4. CASE Upload(b)
  <2>1. mem[b].pc = "upload" /\ Goes(b, to("save"))
    BY <1>1, <1>4, GoesToGoes DEF Upload
  <2>2. Uploads(b, to("save"))
    BY <1>2, <1>3, <1>4, <2>1 DEF Upload, Uploads
  <2>3. BatchShape(to("save"))
    BY <1>2, <1>3, <2>1, SameItemShape
  <2>4. QED
    BY <1>2, <1>3, <2>1, <2>2, <2>3 DEF GoesOn, BatchMove
<1>5. CASE SaveResolution(b)
  <2>1. mem[b].pc = "save" /\ Goes(b, to("update"))
    BY <1>1, <1>5, GoesToGoes DEF SaveResolution
  <2>2. row' = [row EXCEPT ![mem[b].item] = Saved(b)]
    BY <1>5, <2>1, SaveSaves DEF SaveResolution
  <2>3. Saves(b, to("update"))
    BY <1>2, <1>3, <1>5, <2>1, <2>2 DEF SaveResolution, Saves
  <2>4. BatchShape(to("update"))
    BY <1>2, <1>3, <2>1, SameItemShape
  <2>5. QED
    BY <1>2, <1>3, <2>1, <2>3, <2>4 DEF GoesOn, BatchMove
<1>6. CASE UpdatePIM(b)
  <2> DEFINE o == Released(mem[b])
             n == o.done + 1
             m == [o EXCEPT !.done = n]
  <2>1. mem[b].pc = "update" /\ Goes(b, m)
    BY <1>6 DEF UpdatePIM
  <2>2. /\ o \in Memory /\ BatchShape(o) /\ o.pc = "next"
        /\ o.offset = mem[b].offset /\ o.last = mem[b].last
    BY <1>1, ReleasedIs
  <2>3. o.done + 1 \in Nat
    BY <2>2 DEF Memory
  <2> HIDE DEF o, n
  <2>4. /\ m \in Memory /\ m.pc = "next" /\ m.item = o.item
        /\ m.image = o.image /\ m.offset = o.offset /\ m.last = o.last
    <3>1. n \in Nat
      BY <2>3 DEF n
    <3>2. QED
      BY <2>2, <3>1 DEF Memory
  <2> HIDE DEF m
  <2>5. BatchShape(m)
    BY <2>2, <2>4 DEF BatchShape
  <2>6. Shows(b, m)
    BY <1>6, <2>1, <2>2, <2>4 DEF UpdatePIM, Shows, SamePage
  <2>7. QED
    BY <2>1, <2>4, <2>5, <2>6 DEF GoesOn, BatchMove
<1>7. QED
  BY <1>4, <1>5, <1>6

LEMMA ItemFailsMoves ==
  ASSUME TypeInv, NEW b \in Batches, ItemFails(b)
  PROVE  GoesOn(b)
<1> DEFINE m == Released(mem[b])
<1>1. mem[b] \in Memory /\ mem[b].pc \in Reading \cup Chosen
  BY BatchesAreCallers DEF ItemFails, Reading, Chosen
<1>2. Fails /\ Goes(b, m)
  <2>1. mem[b].pc \notin Listing
    BY <1>1 DEF Listing, Reading, Chosen
  <2>2. QED
    BY <2>1, FaultCounts DEF ItemFails
<1>3. /\ m \in Memory /\ BatchShape(m) /\ m.pc = "next" /\ SamePage(b, m)
  BY <1>1, ReleasedIs DEF SamePage
<1> HIDE DEF m
<1>4. CASE Keep
  BY <1>1, <1>2, <1>3, <1>4 DEF GoesOn, BatchMove, Leaves
<1>5. CASE /\ mem[b].pc = "upload" /\ UNCHANGED <<row, shown>>
           /\ object' = [object EXCEPT ![KeyOf(b)] = mem[b].image]
  <2>1. Uploads(b, m)
    BY <1>2, <1>3, <1>5 DEF Uploads, GivesUp
  <2>2. QED
    BY <1>2, <1>3, <2>1 DEF GoesOn, BatchMove
<1>6. CASE /\ mem[b].pc = "save" /\ UNCHANGED <<shown, object>>
           /\ Save(mem[b].item, mem[b].image, mem[b].cost)
  <2>1. Saves(b, m)
    BY <1>2, <1>3, <1>6, SaveSaves DEF Saves, GivesUp
  <2>2. QED
    BY <1>2, <1>3, <2>1 DEF GoesOn, BatchMove
<1>7. CASE /\ mem[b].pc = "update" /\ UNCHANGED <<row, object>>
           /\ shown' = [shown EXCEPT ![mem[b].item] = KeyOf(b)]
  <2>1. Shows(b, m)
    BY <1>3, <1>7 DEF Shows
  <2>2. QED
    BY <1>2, <1>3, <2>1 DEF GoesOn, BatchMove
<1>8. QED
  BY <1>4, <1>5, <1>6, <1>7 DEF ItemFails

LEMMA BatchMoves ==
  ASSUME TypeInv, NEW b \in Batches,
         RunBatch(b) \/ RunOnDemand(b) \/ BatchStep(b)
  PROVE  GoesOn(b)
BY RunBatchMoves, ListStepMoves, NextItemMoves, EndPageMoves,
   ReadRejectedMoves, FindDataMoves, EnhanceMoves, StoreMoves, ItemFailsMoves
   DEF BatchStep, ProcessItem
-----------------------------------------------------------------------------
LEMMA RejectersAreCallers ==
  ASSUME TypeInv, NEW r \in Rejecters
  PROVE  /\ r \in Callers /\ mem[r] \in Memory /\ RejecterShape(mem[r])
         /\ r \notin Batches
BY EnrichmentAssumption DEF TypeInv, TypeOK, Shape, Callers

LEMMA StrikeStrikes ==
  ASSUME TypeInv, NEW r \in Rejecters, mem[r].pc = "reject",
         RejectImage(mem[r].item, mem[r].image)
  PROVE  row' = [row EXCEPT ![mem[r].item] = Struck(r)]
<1>1. mem[r].item \in Items /\ row \in [Items -> Row]
  BY RejectersAreCallers DEF TypeInv, TypeOK, RejecterShape
<1> DEFINE i == mem[r].item
           x == mem[r].image
<1>2. row' = [row EXCEPT ![i].exists = TRUE, ![i].raw = NoImage,
                         ![i].rejected = @ \cup {x}]
  BY DEF RejectImage
<1> HIDE DEF i, x
<1>3. row' = [row EXCEPT ![i] = [row[i] EXCEPT !.exists = TRUE,
                   !.raw = NoImage, !.rejected = row[i].rejected \cup {x}]]
  BY <1>1, <1>2 DEF i, Row
<1>4. QED
  BY <1>3 DEF Struck, i, x

LEMMA RejecterMoves ==
  ASSUME TypeInv, NEW r \in Rejecters, RejectStep(r)
  PROVE  LooksOn(r)
<1>1. mem[r] \in Memory /\ r \in Callers /\ RejecterShape(mem[r])
  BY RejectersAreCallers
<1>2. Idle \in Memory /\ RejecterShape(Idle) /\ Idle.pc = "idle"
  BY Literals DEF RejecterShape, Idle
<1>3. CASE ReadCurrent(r)
  <2>1. PICK i \in Items :
          Goes(r, [Idle EXCEPT !.pc = "reject", !.item = i,
                               !.image = GetCurrentRawURL(i)])
    BY <1>3, Zenon DEF ReadCurrent
  <2> DEFINE x == row[i].raw
             m == [Idle EXCEPT !.pc = "reject", !.item = i, !.image = x]
  <2>2. x \in URLs
    BY DEF TypeInv, TypeOK, Row
  <2>3. Goes(r, m)
    BY <2>1 DEF GetCurrentRawURL
  <2> HIDE DEF x
  <2>4. m \in Memory
    BY <1>2, <2>2 DEF Memory, Steps
  <2>5. m.pc = "reject" /\ m.item = i
    BY <1>2 DEF Memory
  <2> HIDE DEF m
  <2>6. RejecterShape(m) /\ Looks(r, m)
    BY <1>3, <2>5 DEF RejecterShape, Looks, ReadCurrent
  <2>7. QED
    BY <2>3, <2>4, <2>6 DEF LooksOn, RejecterMove
<1>4. CASE WriteRejection(r)
  <2> DEFINE m == [mem[r] EXCEPT !.pc = "clear"]
  <2>1. Goes(r, m) /\ mem[r].pc = "reject"
    BY <1>1, <1>4, GoesToGoes DEF WriteRejection
  <2>2. m \in Memory /\ m.pc = "clear" /\ m.item = mem[r].item
    BY <1>1 DEF Memory, Steps
  <2> HIDE DEF m
  <2>3. RejecterShape(m) /\ Strikes(r, m)
    BY <1>1, <1>4, <2>1, <2>2, StrikeStrikes
       DEF RejecterShape, Strikes, WriteRejection
  <2>4. QED
    BY <2>1, <2>2, <2>3 DEF LooksOn, RejecterMove
<1>5. CASE ClearPIM(r)
  <2>1. Clears(r, Idle) /\ Goes(r, Idle)
    BY <1>2, <1>5 DEF ClearPIM, Clears
  <2>2. QED
    BY <1>2, <2>1 DEF LooksOn, RejecterMove
<1>6. CASE RejectFails(r)
  <2>1. Fails /\ Goes(r, Idle)
    BY <1>6 DEF RejectFails, Fault, Fails, TypeInv, TypeOK
  <2>2. CASE Keep
    BY <1>2, <1>6, <2>1, <2>2 DEF RejectFails, Stops, LooksOn, RejecterMove
  <2>3. CASE /\ mem[r].pc = "reject" /\ UNCHANGED <<shown, object>>
             /\ RejectImage(mem[r].item, mem[r].image)
    <3>1. Strikes(r, Idle)
      BY <1>2, <2>1, <2>3, StrikeStrikes DEF Strikes
    <3>2. QED
      BY <1>2, <2>1, <3>1 DEF LooksOn, RejecterMove
  <2>4. QED
    BY <1>6, <2>2, <2>3 DEF RejectFails
<1>7. QED
  BY <1>3, <1>4, <1>5, <1>6 DEF RejectStep
-----------------------------------------------------------------------------
(* A step is one of one caller, or a crash, or leaves everything alone.    *)
LEMMA StepMoves ==
  ASSUME TypeInv, Next
  PROVE  \/ \E b \in Batches : GoesOn(b)
         \/ \E r \in Rejecters : LooksOn(r)
         \/ Crash
<1>1. Step
  BY DEF Next
<1>2. QED
  BY <1>1, BatchMoves, RejecterMoves, Zenon DEF Step

Counts == [requests : Nat, rejections : Nat, faults : Nat, spent : Nat]

LEMMA CountStays ==
  ASSUME TypeInv, Step
  PROVE  count' \in Counts
<1>1. count \in Counts
  BY DEF TypeInv, TypeOK, Counts
<1>2. /\ [count EXCEPT !.requests = @ + 1] \in Counts
      /\ [count EXCEPT !.rejections = @ + 1] \in Counts
      /\ [count EXCEPT !.faults = @ + 1] \in Counts
  BY <1>1 DEF Counts
<1>3. \A n \in Nat : [count EXCEPT !.spent = @ + n] \in Counts
  BY <1>1 DEF Counts
<1>4. ASSUME NEW c \in Callers, Fault(c)  PROVE count' \in Counts
  BY <1>2, <1>4 DEF Fault
<1>5. ASSUME NEW b \in Batches, RunBatch(b) \/ RunOnDemand(b)
      PROVE  count' \in Counts
  BY <1>2, <1>5 DEF RunBatch, RunOnDemand
<1>6. ASSUME NEW b \in Batches, ListStep(b) \/ NextItem(b) \/ EndPage(b)
      PROVE  count' \in Counts
  <2>1. b \in Callers
    BY DEF Callers
  <2>2. CASE count' = count
    BY <1>1, <2>2
  <2>3. CASE Fault(b)
    BY <1>4, <2>1, <2>3
  <2>4. CASE count' = [count EXCEPT !.faults = @ + 1]
    BY <1>2, <2>4
  <2>5. count' = count \/ Fault(b) \/ count' = [count EXCEPT !.faults = @ + 1]
    BY <1>6 DEF ListStep, ListPage, GetProductsByIDs, NextItem, EndPage,
                CostsNothing
  <2>6. QED
    BY <2>2, <2>3, <2>4, <2>5
<1>7. ASSUME NEW b \in Batches, FindData(b)
      PROVE  count' \in Counts
  <2>1. PICK n \in {DalleCost, 0}, k \in {0, 1} :
          \/ count' = count
          \/ count' = [count EXCEPT !.spent = @ + n, !.faults = @ + k]
    BY <1>7, CostAssumption DEF FindData, CostsNothing
  <2>2. count.spent + n \in Nat /\ count.faults + k \in Nat
    BY <1>1, <2>1, CostAssumption DEF Counts
  <2>3. \A x, y \in Nat : [count EXCEPT !.spent = x, !.faults = y] \in Counts
    BY <1>1 DEF Counts
  <2> DEFINE x == count.spent + n
             y == count.faults + k
  <2>4. [count EXCEPT !.spent = @ + n, !.faults = @ + k]
          = [count EXCEPT !.spent = x, !.faults = y]
    BY <1>1 DEF Counts
  <2> HIDE DEF x, y
  <2>5. x \in Nat /\ y \in Nat
    BY <2>2 DEF x, y
  <2>6. QED
    BY <1>1, <2>1, <2>3, <2>4, <2>5
<1>8. ASSUME NEW b \in Batches, ProcessItem(b)
      PROVE  count' \in Counts
  <2>1. b \in Callers
    BY DEF Callers
  <2>2. CASE count' = count
    BY <1>1, <2>2
  <2>3. CASE Fault(b)
    BY <1>4, <2>1, <2>3
  <2>4. CASE Spends(ReplicateCost)
    BY <1>3, <2>4, CostAssumption DEF Spends
  <2>5. CASE FindData(b)
    BY <1>7, <2>5
  <2>6. count' = count \/ Fault(b) \/ Spends(ReplicateCost) \/ FindData(b)
    BY <1>8 DEF ProcessItem, ReadRejected, Enhance, CreatePrediction,
                PollPrediction, DownloadOutput, Upload, SaveResolution,
                UpdatePIM, ItemFails, CostsNothing
  <2>7. QED
    BY <2>2, <2>3, <2>4, <2>5, <2>6
<1>9. ASSUME NEW r \in Rejecters, RejectStep(r)
      PROVE  count' \in Counts
  <2>1. r \in Callers
    BY DEF Callers
  <2>2. CASE Fault(r)
    BY <1>4, <2>1, <2>2
  <2>3. QED
    BY <1>1, <1>2, <1>9, <2>2 DEF RejectStep, ReadCurrent, WriteRejection,
      ClearPIM, RejectFails, CostsNothing
<1>10. CASE Crash
  BY <1>2, <1>10 DEF Crash
<1>11. QED
  BY <1>5, <1>6, <1>8, <1>9, <1>10 DEF Step, BatchStep

LEMMA RowsStay ==
  ASSUME TypeInv
  PROVE  /\ \A b \in Batches : mem[b].pc = "save" => Saved(b) \in Row
         /\ \A r \in Rejecters : mem[r].pc = "reject" => Struck(r) \in Row
<1>1. ASSUME NEW b \in Batches, mem[b].pc = "save"  PROVE Saved(b) \in Row
  <2>1. /\ row[mem[b].item] \in Row /\ mem[b].image \in URLs
        /\ mem[b].cost \in Nat
    BY <1>1, BatchesAreCallers, ChosenIs DEF Chosen, Memory, TypeInv, TypeOK
  <2>2. QED
    BY <2>1 DEF Saved, Row
<1>2. ASSUME NEW r \in Rejecters, mem[r].pc = "reject"  PROVE Struck(r) \in Row
  <2>1. /\ row[mem[r].item] \in Row /\ mem[r].image \in URLs
    BY <1>2, RejectersAreCallers DEF RejecterShape, Memory, TypeInv, TypeOK
  <2>2. NoImage \in URLs
    BY DEF URLs
  <2>3. QED
    BY <2>1, <2>2 DEF Struck, Row
<1>3. QED
  BY <1>1, <1>2

LEMMA KeyOfIsKey ==
  ASSUME TypeInv, NEW b \in Batches, mem[b].pc \in Chosen
  PROVE  KeyOf(b) \in Keys /\ KeyOf(b) # NoImage
<1>1. mem[b].item \in Items /\ mem[b].source \in Sources
  BY ChosenIs, BatchesAreCallers DEF Memory
<1>2. QED
  BY <1>1, EnrichmentAssumption DEF KeyOf, Keys

(* The memory of one caller changes, and keeps its shape.                  *)
LEMMA MemoryStays ==
  ASSUME TypeInv, NEW c \in Callers, NEW m \in Memory, Goes(c, m),
         c \in Batches => BatchShape(m), c \in Rejecters => RejecterShape(m)
  PROVE  mem' \in [Callers -> Memory] /\ Shape'
<1>1. mem \in [Callers -> Memory] /\ Shape
  BY DEF TypeInv, TypeOK
<1>2. mem' = [mem EXCEPT ![c] = m]
  BY DEF Goes
<1>3. /\ mem' \in [Callers -> Memory] /\ mem'[c] = m
      /\ \A d \in Callers \ {c} : mem'[d] = mem[d]
  BY <1>1, <1>2
<1>4. \A b \in Batches : BatchShape(mem'[b])
  BY <1>1, <1>3 DEF Shape, Callers
<1>5. \A r \in Rejecters : RejecterShape(mem'[r])
  BY <1>1, <1>3 DEF Shape, Callers
<1>6. QED
  BY <1>3, <1>4, <1>5 DEF Shape, BatchShape, RejecterShape

Stores == /\ row \in [Items -> Row]
          /\ shown \in [Items -> Keys \cup {NoImage}]
          /\ object \in [Keys -> URLs]

LEMMA BatchStores ==
  ASSUME TypeInv, NEW b \in Batches, NEW m \in Memory, BatchMove(b, m)
  PROVE  Stores'
<1>1. Stores
  BY DEF TypeInv, TypeOK, Stores
<1>2. CASE Keep
  BY <1>1, <1>2 DEF Keep, Stores
<1>3. CASE Uploads(b, m)
  <2>1. KeyOf(b) \in Keys /\ mem[b].image \in URLs
    BY <1>3, KeyOfIsKey, BatchesAreCallers DEF Uploads, Chosen, Memory
  <2>2. QED
    BY <1>1, <1>3, <2>1 DEF Uploads, Stores
<1>4. CASE Saves(b, m)
  <2>1. Saved(b) \in Row
    BY <1>4, RowsStay DEF Saves
  <2>2. QED
    BY <1>1, <1>4, <2>1 DEF Saves, Stores
<1>5. CASE Shows(b, m)
  <2>1. KeyOf(b) \in Keys
    BY <1>5, KeyOfIsKey DEF Shows, Chosen
  <2>2. QED
    BY <1>1, <1>5, <2>1 DEF Shows, Stores
<1>6. QED
  BY <1>2, <1>3, <1>4, <1>5
     DEF BatchMove, Turns, Takes, Reads, Chooses, Works, Leaves

LEMMA RejecterStores ==
  ASSUME TypeInv, NEW r \in Rejecters, NEW m \in Memory, RejecterMove(r, m)
  PROVE  Stores'
<1>1. Stores
  BY DEF TypeInv, TypeOK, Stores
<1>2. CASE Keep
  BY <1>1, <1>2 DEF Keep, Stores
<1>3. CASE Strikes(r, m)
  <2>1. Struck(r) \in Row
    BY <1>3, RowsStay DEF Strikes
  <2>2. QED
    BY <1>1, <1>3, <2>1 DEF Strikes, Stores
<1>4. CASE Clears(r, m)
  BY <1>1, <1>4 DEF Clears, Stores
<1>5. QED
  BY <1>2, <1>3, <1>4 DEF RejecterMove, Looks, Stops

LEMMA TypeStep == TypeInv /\ [Next]_vars => TypeInv'
<1> SUFFICES ASSUME TypeInv, [Next]_vars  PROVE TypeInv'
  OBVIOUS
<1>1. CASE UNCHANGED vars
  BY <1>1 DEF vars, TypeInv, TypeOK, Shape, BatchShape, RejecterShape, Keys
<1>2. CASE Next
  <2>1. count' \in Counts
    BY <1>2, CountStays DEF Next
  <2>2. CASE \E b \in Batches : GoesOn(b)
    <3>1. PICK b \in Batches, m \in Memory :
            Goes(b, m) /\ BatchShape(m) /\ BatchMove(b, m)
      BY <2>2 DEF GoesOn
    <3>2. mem' \in [Callers -> Memory] /\ Shape'
      BY <3>1, BatchesAreCallers, MemoryStays
    <3>3. Stores'
      BY <3>1, BatchStores
    <3>4. QED
      BY <2>1, <3>2, <3>3 DEF TypeInv, TypeOK, Stores, Counts
  <2>3. CASE \E r \in Rejecters : LooksOn(r)
    <3>1. PICK r \in Rejecters, m \in Memory :
            Goes(r, m) /\ RejecterShape(m) /\ RejecterMove(r, m)
      BY <2>3 DEF LooksOn
    <3>2. mem' \in [Callers -> Memory] /\ Shape'
      BY <3>1, RejectersAreCallers, MemoryStays
    <3>3. Stores'
      BY <3>1, RejecterStores
    <3>4. QED
      BY <2>1, <3>2, <3>3 DEF TypeInv, TypeOK, Stores, Counts
  <2>4. CASE Crash
    <3>1. mem' = [c \in Callers |-> Idle]
      BY <2>4 DEF Crash
    <3>2. mem' \in [Callers -> Memory]
      BY <3>1, Literals
    <3>3. BatchShape(Idle) /\ RejecterShape(Idle)
      BY DEF BatchShape, RejecterShape, Idle, Listing, Chosen
    <3>4. Shape'
      BY <3>1, <3>3 DEF Shape, Callers, BatchShape, RejecterShape
    <3>5. QED
      BY <2>1, <2>4, <3>2, <3>4 DEF Crash, Keep, TypeInv, TypeOK, Counts, Keys
  <2>5. QED
    BY <1>2, <2>2, <2>3, <2>4, StepMoves
<1>3. QED
  BY <1>1, <1>2

LEMMA TypeInit == Init => TypeInv
<1> SUFFICES ASSUME Init  PROVE TypeInv
  OBVIOUS
<1>1. NoRow \in Row /\ NoImage \in URLs
  BY DEF NoRow, Row, URLs
<1>2. BatchShape(Idle) /\ RejecterShape(Idle)
  BY DEF BatchShape, RejecterShape, Idle, Listing, Chosen
<1>3. Shape
  BY <1>2 DEF Init, Shape, Callers
<1>4. QED
  BY <1>1, <1>3, Literals DEF Init, TypeInv, TypeOK

(* TypeOK: each variable keeps its shape, whatever the requests do.        *)
THEOREM TypeCorrect == Spec => []TypeOK
<1>1. Spec => []TypeInv
  BY TypeInit, TypeStep, PTL DEF Spec
<1>2. TypeInv => TypeOK
  BY DEF TypeInv
<1>3. QED
  BY <1>1, <1>2, PTL
-----------------------------------------------------------------------------
(***************************************************************************)
(* A rejected image stays away.                                            *)
(***************************************************************************)
LEMMA RacedGrows ==
  ASSUME TypeInv, Next
  PROVE  /\ raced \subseteq raced'
         /\ \A i \in Items \ raced' :
              row'[i].rejected = row[i].rejected \/ HasRead(i) = {}
BY DEF Next, Observe, Rejects

(* The memory that caller c has after the step, and that the others have.  *)
LEMMA MemoryGoes ==
  ASSUME TypeInv, NEW c \in Callers, NEW m \in Memory, Goes(c, m)
  PROVE  /\ mem'[c] = m
         /\ \A d \in Callers : d # c => mem'[d] = mem[d]
BY DEF TypeInv, TypeOK, Goes

(* A batch leaves the lists of rejected images alone.                      *)
LEMMA ListsStay ==
  ASSUME TypeInv, NEW b \in Batches, NEW m \in Memory, BatchMove(b, m)
  PROVE  /\ \A i \in Items : row'[i].rejected = row[i].rejected
         /\ \A i \in Items : \/ row'[i].raw = row[i].raw
                             \/ /\ mem[b].pc = "save" /\ i = mem[b].item
                                /\ row'[i].raw = mem[b].image
<1>1. CASE row' = row
  BY <1>1
<1>2. CASE Saves(b, m)
  <2>1. /\ row \in [Items -> Row] /\ mem[b].item \in Items /\ mem[b].pc = "save"
        /\ row' = [row EXCEPT ![mem[b].item] = Saved(b)]
    BY <1>2, ChosenIs DEF TypeInv, TypeOK, Saves, Chosen
  <2>2. /\ Saved(b).rejected = row[mem[b].item].rejected
        /\ Saved(b).raw = mem[b].image
    <3>1. row[mem[b].item] \in Row
      BY <2>1
    <3>2. QED
      BY <3>1 DEF Saved, Row
  <2>3. QED
    BY <2>1, <2>2
<1>3. QED
  BY <1>1, <1>2 DEF BatchMove, Turns, Takes, Reads, Chooses, Works, Leaves,
                    Uploads, Shows, Keep

LEMMA RejectBatch ==
  ASSUME TypeInv, RejectInv, Next, NEW b \in Batches, NEW m \in Memory,
         Goes(b, m), BatchShape(m), BatchMove(b, m)
  PROVE  RejectInv'
<1>1. raced \subseteq raced'
  BY RacedGrows
<1>2. mem'[b] = m /\ \A d \in Batches : d # b => mem'[d] = mem[d]
  BY BatchesAreCallers, MemoryGoes DEF Callers
<1>3. ASSUME NEW i \in Items \ raced'
      PROVE  row'[i].raw \notin row'[i].rejected \ {NoImage, Drawn}
  <2>1. i \in Items \ raced /\ row'[i].rejected = row[i].rejected
    BY <1>1, ListsStay
  <2>2. CASE row'[i].raw = row[i].raw
    BY <2>1, <2>2 DEF RejectInv, OffList
  <2>3. CASE /\ mem[b].pc = "save" /\ i = mem[b].item
             /\ row'[i].raw = mem[b].image
    BY <2>1, <2>3 DEF RejectInv, KeepsToList, OffList, Chosen
  <2>4. QED
    BY <2>2, <2>3, ListsStay
<1>4. ASSUME NEW d \in Batches, d # b,
             mem'[d].pc \in {"find"} \cup Chosen, mem'[d].item \notin raced'
      PROVE  /\ mem'[d].rejected = row'[mem'[d].item].rejected
             /\ mem'[d].pc \in Chosen =>
                  mem'[d].image \notin row'[mem'[d].item].rejected
                                         \ {NoImage, Drawn}
  <2>1. mem'[d] = mem[d] /\ mem[d].item \notin raced
    BY <1>1, <1>2, <1>4
  <2>2. mem[d].item \in Items
    BY <1>4, <2>1, BatchesAreCallers DEF BatchShape, Listing, Chosen
  <2>3. row'[mem[d].item].rejected = row[mem[d].item].rejected
    BY <2>2, ListsStay
  <2>4. KeepsToList(mem[d])
    BY DEF RejectInv
  <2>5. QED
    BY <1>4, <2>1, <2>3, <2>4 DEF KeepsToList, OffList
<1>5. ASSUME m.pc \in {"find"} \cup Chosen, m.item \notin raced'
      PROVE  /\ m.rejected = row'[m.item].rejected
             /\ m.pc \in Chosen =>
                  m.image \notin row'[m.item].rejected \ {NoImage, Drawn}
  <2>1. m.item \in Items /\ m.item \notin raced
    BY <1>1, <1>5 DEF BatchShape, Listing, Chosen
  <2>2. row'[m.item].rejected = row[m.item].rejected
    BY <2>1, ListsStay
  <2>3. KeepsToList(mem[b])
    BY DEF RejectInv
  <2>4. CASE Reads(b, m)
    BY <2>2, <2>4 DEF Reads, Chosen
  <2>5. CASE Chooses(b, m)
    BY <2>1, <2>2, <2>3, <2>5 DEF Chooses, KeepsToList
  <2>6. CASE SameItem(b, m) /\ mem[b].pc \in Chosen
    BY <2>1, <2>2, <2>3, <2>6 DEF SameItem, KeepsToList, OffList
  <2>7. QED
    BY <1>5, <2>4, <2>5, <2>6 DEF BatchMove, Turns, Takes, Works, Leaves,
      Uploads, Saves, Shows, GivesUp, Listing, Chosen
<1>6. QED
  BY <1>2, <1>3, <1>4, <1>5 DEF RejectInv, KeepsToList, OffList

LEMMA RejectRejecter ==
  ASSUME TypeInv, RejectInv, Next, NEW r \in Rejecters, NEW m \in Memory,
         Goes(r, m), RejecterMove(r, m)
  PROVE  RejectInv'
<1>1. /\ raced \subseteq raced'
      /\ \A i \in Items \ raced' :
           row'[i].rejected = row[i].rejected \/ HasRead(i) = {}
  BY RacedGrows
<1>2. \A d \in Batches : mem'[d] = mem[d]
  BY RejectersAreCallers, MemoryGoes DEF Callers
<1>3. ASSUME NEW i \in Items \ raced'
      PROVE  row'[i].raw \notin row'[i].rejected \ {NoImage, Drawn}
  <2>1. i \in Items \ raced
    BY <1>1
  <2>2. CASE row'[i] = row[i]
    BY <2>1, <2>2 DEF RejectInv, OffList
  <2>3. CASE Strikes(r, m) /\ i = mem[r].item
    <3>1. row' = [row EXCEPT ![mem[r].item] = Struck(r)]
      BY <2>3 DEF Strikes
    <3>2. row'[i] = Struck(r) /\ row[i] \in Row
      BY <2>3, <3>1 DEF TypeInv, TypeOK
    <3>3. row'[i].raw = NoImage
      BY <2>3, <3>2 DEF Struck, Row
    <3>4. QED
      BY <3>3
  <2>4. row'[i] = row[i] \/ (Strikes(r, m) /\ i = mem[r].item)
    BY DEF TypeInv, TypeOK, RejecterMove, Looks, Strikes, Clears, Stops, Keep
  <2>5. QED
    BY <2>2, <2>3, <2>4
<1>4. ASSUME NEW d \in Batches,
             mem'[d].pc \in {"find"} \cup Chosen, mem'[d].item \notin raced'
      PROVE  /\ mem'[d].rejected = row'[mem'[d].item].rejected
             /\ mem'[d].pc \in Chosen =>
                  mem'[d].image \notin row'[mem'[d].item].rejected
                                         \ {NoImage, Drawn}
  <2>1. /\ mem'[d] = mem[d] /\ mem[d].item \notin raced
        /\ mem[d].pc \in {"find"} \cup Chosen
    BY <1>1, <1>2, <1>4
  <2>2. mem[d].item \in Items
    BY <2>1, BatchesAreCallers DEF BatchShape, Listing, Chosen
  <2>3. d \in HasRead(mem[d].item)
    BY <2>1 DEF HasRead, Chosen
  <2>4. row'[mem[d].item].rejected = row[mem[d].item].rejected
    BY <1>1, <1>4, <2>1, <2>2, <2>3
  <2>5. KeepsToList(mem[d])
    BY DEF RejectInv
  <2>6. QED
    BY <2>1, <2>4, <2>5 DEF KeepsToList, OffList
<1>5. QED
  BY <1>3, <1>4 DEF RejectInv, KeepsToList, OffList

LEMMA RejectSteps == TypeInv /\ RejectInv /\ [Next]_vars => RejectInv'
<1> SUFFICES ASSUME TypeInv, RejectInv, [Next]_vars  PROVE RejectInv'
  OBVIOUS
<1>1. CASE UNCHANGED vars
  BY <1>1 DEF vars, RejectInv, KeepsToList, OffList
<1>2. CASE Next
  <2>1. CASE \E b \in Batches : GoesOn(b)
    BY <1>2, <2>1, RejectBatch DEF GoesOn
  <2>2. CASE \E r \in Rejecters : LooksOn(r)
    BY <1>2, <2>2, RejectRejecter DEF LooksOn
  <2>3. CASE Crash
    <3>1. /\ row' = row /\ mem' = [c \in Callers |-> Idle]
          /\ Idle.pc = "idle" /\ raced \subseteq raced'
      BY <1>2, <2>3, RacedGrows DEF Crash, Keep, Idle
    <3>2. \A b \in Batches : mem'[b].pc \notin {"find"} \cup Chosen
      BY <3>1 DEF Callers, Chosen
    <3>3. QED
      BY <3>1, <3>2 DEF RejectInv, KeepsToList, OffList
  <2>4. QED
    BY <1>2, <2>1, <2>2, <2>3, StepMoves
<1>3. QED
  BY <1>1, <1>2

(* RejectedStaysAway: an image that was rejected for a product does not    *)
(* come back to its row, unless it was rejected while a batch that had     *)
(* read the list before was at work on the product.                        *)
THEOREM RejectedStays == Spec => []RejectedStaysAway
<1>1. Init => RejectInv
  <2>1. SUFFICES ASSUME Init  PROVE RejectInv
    OBVIOUS
  <2>2. \A i \in Items : row[i].raw = NoImage
    BY <2>1 DEF Init, NoRow
  <2>3. \A b \in Batches : mem[b].pc = "idle"
    BY <2>1 DEF Init, Idle, Callers
  <2>4. QED
    BY <2>2, <2>3 DEF RejectInv, KeepsToList, OffList, Chosen
<1>2. Spec => [](TypeInv /\ RejectInv)
  BY <1>1, TypeInit, TypeStep, RejectSteps, PTL DEF Spec
<1>3. RejectInv => RejectedStaysAway
  BY DEF RejectInv, RejectedStaysAway, OffList
<1>4. QED
  BY <1>2, <1>3, PTL
-----------------------------------------------------------------------------
(***************************************************************************)
(* The row tells what is shown.                                            *)
(***************************************************************************)
LEMMA TwoAreMore ==
  ASSUME NEW S, IsFiniteSet(S), NEW c \in S, NEW d \in S, c # d
  PROVE  Cardinality(S) > 1
<1>1. IsFiniteSet({c}) /\ Cardinality({c}) = 1
  BY FS_Singleton
<1>2. Cardinality({c}) < Cardinality(S)
  <2>1. {c} \subseteq S /\ {c} # S
    OBVIOUS
  <2>2. Cardinality({c}) <= Cardinality(S) /\ Cardinality({c}) # Cardinality(S)
    BY <2>1, FS_Subset
  <2>3. Cardinality(S) \in Nat
    BY FS_CardinalityType
  <2>4. QED
    BY <1>1, <2>2, <2>3
<1>3. QED
  BY <1>1, <1>2

LEMMA DisturbedGrows ==
  ASSUME TypeInv, Next
  PROVE  /\ disturbed \subseteq disturbed'
         /\ \A i \in Items \ disturbed' :
              /\ HeldOnce(i)'
              /\ Fails => Between(i)' = Between(i)
<1>1. disturbed' = disturbed
       \cup {i \in Items : Cardinality(Holders(i)') > 1}
       \cup (IF count'.faults > count.faults
             THEN {i \in Items : Between(i) # Between(i)'} ELSE {})
  BY DEF Next, Observe
<1>2. Fails => count'.faults > count.faults
  BY DEF Fails, TypeInv, TypeOK
<1>3. ASSUME NEW i \in Items \ disturbed'
      PROVE  HeldOnce(i)'
  <2>1. ~(Cardinality(Holders(i)') > 1)
    BY <1>1
  <2>2. IsFiniteSet(Holders(i)')
    BY EnrichmentAssumption, FS_Subset DEF Holders
  <2>3. \A c, d \in Holders(i)' : c = d
    BY <2>1, <2>2, TwoAreMore
  <2>4. QED
    BY <2>3 DEF HeldOnce
<1>4. ASSUME NEW i \in Items \ disturbed', Fails
      PROVE  Between(i)' = Between(i)
  BY <1>1, <1>2, <1>4
<1>5. QED
  BY <1>1, <1>3, <1>4

(* What caller c does to its own product leaves another product i alone.   *)
Untouched(i) ==
  /\ row'[i] = row[i] /\ shown'[i] = shown[i]
  /\ OwnKey(i) => \A s \in Sources : object'[Key[s][i]] = object[Key[s][i]]

LEMMA Elsewhere ==
  ASSUME TypeInv, ShowInv, Next, NEW c \in Callers,
         \A d \in Callers : d # c => mem'[d] = mem[d],
         NEW i \in Items \ disturbed', mem[c].item # i, Untouched(i)
  PROVE  (\A d \in Holders(i)' : mem'[d].pc \notin {"save", "update", "clear"})
            => Agrees(i)'
<1>1. SUFFICES ASSUME \A d \in Holders(i)' :
                        mem'[d].pc \notin {"save", "update", "clear"}
               PROVE  Agrees(i)'
  OBVIOUS
<1>2. i \notin disturbed
  BY DisturbedGrows
<1>3. ASSUME NEW d \in Holders(i)
      PROVE  mem[d].pc \notin {"save", "update", "clear"}
  <2>1. d \in Callers /\ mem[d].item = i /\ mem'[d] = mem[d]
    BY DEF Holders
  <2>2. d \in Holders(i)'
    BY <2>1 DEF Holders
  <2>3. QED
    BY <1>1, <2>1, <2>2
<1>4. Agrees(i) /\ HasOwnKey(i)
  BY <1>2, <1>3 DEF ShowInv
<1>5. /\ row'[i].raw # NoImage <=> shown'[i] # NoImage
  BY <1>4 DEF Agrees, Untouched
<1>6. ASSUME shown'[i] # NoImage, OwnKey(i)
      PROVE  object'[shown'[i]] = row'[i].raw
  <2>1. shown[i] # NoImage /\ object[shown[i]] = row[i].raw
    BY <1>4, <1>6 DEF Agrees, Untouched
  <2>2. PICK s \in Sources : shown[i] = Key[s][i]
    BY <1>4, <2>1 DEF HasOwnKey
  <2>3. QED
    BY <1>6, <2>1, <2>2 DEF Untouched
<1>7. QED
  BY <1>5, <1>6 DEF Agrees, OwnKey

(* Whoever else is at work on a product of its own finds it untouched.     *)
LEMMA OthersUnderway ==
  ASSUME TypeInv, ShowInv, Next, NEW c \in Callers,
         \A d \in Callers : d # c => mem'[d] = mem[d],
         \A i \in Items \ disturbed : mem[c].item # i => Untouched(i)
  PROVE  \A d \in Callers : d # c => Underway(mem[d])'
<1>1. SUFFICES ASSUME NEW d \in Callers, d # c,
                      mem'[d].item \in Items \ disturbed'
               PROVE  LET i == mem'[d].item IN
                 /\ mem'[d].pc \in {"save", "update"} /\ OwnKey(i) =>
                      object'[Key[mem'[d].source][i]] = mem'[d].image
                 /\ mem'[d].pc = "update" => row'[i].raw = mem'[d].image
                 /\ mem'[d].pc = "clear" => row'[i].raw = NoImage
  BY DEF Underway, OwnKey
<1> DEFINE i == mem[d].item
<1>2. mem'[d] = mem[d] /\ i \in Items \ disturbed
  BY <1>1, DisturbedGrows
<1>3. mem[c].item # i
  BY <1>1, <1>2 DEF ShowInv, HeldOnce, Holders
<1>4. Untouched(i)
  BY <1>2, <1>3
<1>5. Underway(mem[d]) /\ mem[d].source \in Sources
  BY DEF ShowInv, TypeInv, TypeOK, Memory
<1>6. QED
  BY <1>2, <1>4, <1>5 DEF Underway, Untouched

(* A batch leaves the products that it does not hold alone, and gives      *)
(* every product a URL of its own.                                         *)
LEMMA BatchUntouched ==
  ASSUME TypeInv, ShowInv, NEW b \in Batches, NEW m \in Memory, BatchMove(b, m)
  PROVE  \A i \in Items : /\ mem[b].item # i => Untouched(i)
                          /\ HasOwnKey(i)'
<1>1. /\ row \in [Items -> Row] /\ object \in [Keys -> URLs]
      /\ shown \in [Items -> Keys \cup {NoImage}]
      /\ \A i \in Items : HasOwnKey(i)
  BY DEF TypeInv, TypeOK, ShowInv
<1> DEFINE i == mem[b].item
           k == Key[mem[b].source][i]
<1>2. mem[b].pc \in Chosen => i \in Items /\ mem[b].source \in Sources /\ k \in Keys
  BY ChosenIs, BatchesAreCallers, KeyOfIsKey DEF Memory, KeyOf
<1>3. CASE Keep
  BY <1>1, <1>3 DEF Keep, Untouched, HasOwnKey
<1>4. CASE Uploads(b, m)
  <2>1. /\ object' = [object EXCEPT ![k] = mem[b].image]
        /\ row' = row /\ shown' = shown /\ k \in Keys /\ i \in Items
    BY <1>2, <1>4 DEF Uploads, KeyOf, Chosen
  <2>2. ASSUME NEW j \in Items, i # j, OwnKey(j), NEW s \in Sources
        PROVE  object'[Key[s][j]] = object[Key[s][j]]
    <3>1. Key[s][j] # k
      BY <1>2, <1>4, <2>2 DEF OwnKey, Uploads, Chosen
    <3>2. Key[s][j] \in Keys
      BY DEF Keys
    <3>3. QED
      BY <1>1, <2>1, <3>1, <3>2
  <2>3. QED
    BY <1>1, <2>1, <2>2 DEF Untouched, HasOwnKey
<1>5. CASE Saves(b, m)
  BY <1>1, <1>5 DEF Saves, Untouched, HasOwnKey
<1>6. CASE Shows(b, m)
  <2>1. /\ shown' = [shown EXCEPT ![i] = k]
        /\ row' = row /\ object' = object
        /\ mem[b].source \in Sources
    BY <1>2, <1>6 DEF Shows, KeyOf, Chosen
  <2>2. QED
    BY <1>1, <2>1 DEF Untouched, HasOwnKey
<1>7. QED
  BY <1>3, <1>4, <1>5, <1>6
     DEF BatchMove, Turns, Takes, Reads, Chooses, Works, Leaves

(* What the batch knows of its product after the step.                     *)
LEMMA BatchUnderway ==
  ASSUME TypeInv, ShowInv, Next, NEW b \in Batches, NEW m \in Memory,
         Goes(b, m), BatchShape(m), BatchMove(b, m)
  PROVE  Underway(mem[b])'
<1> DEFINE i == mem[b].item
           k == Key[mem[b].source][i]
<1>1. mem'[b] = m
  BY BatchesAreCallers, MemoryGoes
<1>2. SUFFICES ASSUME m.item \in Items \ disturbed'
               PROVE  /\ m.pc \in {"save", "update"} /\ OwnKey(m.item) =>
                           object'[Key[m.source][m.item]] = m.image
                      /\ m.pc = "update" => row'[m.item].raw = m.image
                      /\ m.pc = "clear" => row'[m.item].raw = NoImage
  BY <1>1 DEF Underway, OwnKey
<1>3. m.pc # "clear"
  BY DEF BatchShape, Listing, Reading, Chosen
<1>4. CASE m.pc = "save"
  <2>1. Uploads(b, m) /\ SameItem(b, m)
    BY <1>4 DEF BatchMove, Turns, Takes, Reads, Chooses, Works, Leaves,
                Uploads, Saves, Shows, GivesUp, Listing
  <2>2. k \in Keys /\ object \in [Keys -> URLs]
    BY <2>1, KeyOfIsKey DEF Uploads, Chosen, KeyOf, TypeInv, TypeOK
  <2>3. object'[k] = mem[b].image
    BY <2>1, <2>2 DEF Uploads, KeyOf
  <2>4. QED
    BY <1>4, <2>1, <2>3 DEF SameItem
<1>5. CASE m.pc = "update"
  <2>1. Saves(b, m) /\ SameItem(b, m)
    BY <1>5 DEF BatchMove, Turns, Takes, Reads, Chooses, Works, Leaves,
                Uploads, Saves, Shows, GivesUp, Listing
  <2>2. /\ mem[b].pc = "save" /\ i \in Items /\ row \in [Items -> Row]
        /\ row' = [row EXCEPT ![i] = Saved(b)] /\ object' = object
    BY <2>1, ChosenIs DEF Saves, Chosen, TypeInv, TypeOK
  <2>3. row'[i].raw = mem[b].image
    <3>1. Saved(b).raw = mem[b].image
      BY <2>2 DEF Saved, Row
    <3>2. row'[i] = Saved(b)
      BY <2>2
    <3>3. QED
      BY <3>1, <3>2
  <2>4. i \in Items \ disturbed
    BY <1>2, <2>1, DisturbedGrows DEF SameItem
  <2>5. Underway(mem[b]) /\ b \in Callers
    BY BatchesAreCallers DEF ShowInv
  <2>6. OwnKey(i) => object[k] = mem[b].image
    BY <2>2, <2>4, <2>5 DEF Underway
  <2>7. QED
    BY <1>5, <2>1, <2>2, <2>3, <2>6 DEF SameItem
<1>6. QED
  BY <1>3, <1>4, <1>5

LEMMA BatchAgrees ==
  ASSUME TypeInv, ShowInv, Next, NEW b \in Batches, NEW m \in Memory,
         Goes(b, m), BatchShape(m), BatchMove(b, m),
         NEW i \in Items \ disturbed', mem[b].item = i,
         \A d \in Holders(i)' : mem'[d].pc \notin {"save", "update", "clear"}
  PROVE  Agrees(i)'
<1>1. mem'[b] = m /\ b \in Callers
  BY BatchesAreCallers, MemoryGoes
<1>2. i \notin disturbed /\ (Fails => Between(i)' = Between(i))
  BY DisturbedGrows
<1>3. mem[b].pc \in Reading \cup Chosen /\ Underway(mem[b])
  BY EnrichmentAssumption, BatchesAreCallers DEF BatchShape, ShowInv
<1>4. \A d \in Callers : mem[d].item = i => d = b
  BY <1>1, <1>2 DEF ShowInv, HeldOnce, Holders
<1>5. ~(m.item = i /\ m.pc \in {"save", "update"})
  BY <1>1 DEF Holders
<1>6. ~(m.pc = "next" /\ Fails /\ mem[b].pc \in {"upload", "save", "update"})
  <2>1. SUFFICES ASSUME m.pc = "next", Fails,
                        mem[b].pc \in {"upload", "save", "update"}
                 PROVE  FALSE
    OBVIOUS
  <2>2. b \in Between(i)
    BY <1>1, <2>1 DEF Between, Holders
  <2>3. b \notin Between(i)'
    BY <1>1, <2>1 DEF Between, Holders
  <2>4. QED
    BY <1>2, <2>1, <2>2, <2>3
<1>7. CASE Shows(b, m)
  <2>1. mem[b].pc = "update" /\ KeyOf(b) # NoImage /\ mem[b].image # NoImage
    BY <1>7, KeyOfIsKey, ChosenIs DEF Shows, Chosen
  <2>2. /\ shown'[i] = KeyOf(b) /\ row' = row /\ object' = object
    BY <1>7 DEF Shows, TypeInv, TypeOK
  <2>3. /\ row[i].raw = mem[b].image
        /\ OwnKey(i) => object[KeyOf(b)] = mem[b].image
    BY <1>2, <1>3, <2>1 DEF Underway, KeyOf
  <2>4. QED
    BY <2>1, <2>2, <2>3 DEF Agrees, OwnKey
<1>8. CASE ~Shows(b, m)
  <2>1. mem[b].pc \notin {"upload", "save", "update"}
    BY <1>3, <1>5, <1>6, <1>8 DEF BatchMove, Turns, Takes, Reads, Chooses,
      Works, Leaves, Uploads, Saves, GivesUp, SameItem, Listing, Reading, Chosen
  <2>2. Keep
    BY <1>8, <2>1 DEF BatchMove, Turns, Takes, Reads, Chooses,
      Works, Leaves, Uploads, Saves
  <2>3. \A d \in Holders(i) : mem[d].pc \notin {"save", "update", "clear"}
    BY <1>3, <1>4, <2>1 DEF Holders, Reading, Chosen
  <2>4. Agrees(i)
    BY <1>2, <2>3 DEF ShowInv
  <2>5. QED
    BY <2>2, <2>4 DEF Keep, Agrees, OwnKey
<1>9. QED
  BY <1>7, <1>8

LEMMA ShowBatch ==
  ASSUME TypeInv, ShowInv, Next, NEW b \in Batches, NEW m \in Memory,
         Goes(b, m), BatchShape(m), BatchMove(b, m)
  PROVE  ShowInv'
<1>1. b \in Callers /\ \A d \in Callers : d # b => mem'[d] = mem[d]
  BY BatchesAreCallers, MemoryGoes
<1>2. \A i \in Items : (mem[b].item # i => Untouched(i)) /\ HasOwnKey(i)'
  BY BatchUntouched
<1>3. \A d \in Callers : Underway(mem[d])'
  BY <1>1, <1>2, OthersUnderway, BatchUnderway
<1>4. ASSUME NEW i \in Items \ disturbed'
      PROVE  /\ HeldOnce(i)'
             /\ (\A d \in Holders(i)' :
                   mem'[d].pc \notin {"save", "update", "clear"}) => Agrees(i)'
  BY <1>1, <1>2, DisturbedGrows, Elsewhere, BatchAgrees
<1>5. QED
  BY <1>2, <1>3, <1>4 DEF ShowInv
-----------------------------------------------------------------------------
LEMMA StrikeEmpties ==
  ASSUME TypeInv, NEW r \in Rejecters, NEW m \in Memory, Strikes(r, m)
  PROVE  /\ mem[r].item \in Items /\ row'[mem[r].item].raw = NoImage
         /\ \A i \in Items : i # mem[r].item => row'[i] = row[i]
<1>1. /\ mem[r].item \in Items /\ row \in [Items -> Row]
      /\ row' = [row EXCEPT ![mem[r].item] = Struck(r)]
  BY RejectersAreCallers DEF Strikes, RejecterShape, TypeInv, TypeOK
<1>2. Struck(r).raw = NoImage
  BY <1>1 DEF Struck, Row
<1>3. QED
  BY <1>1, <1>2

LEMMA RejecterAgrees ==
  ASSUME TypeInv, ShowInv, Next, NEW r \in Rejecters, NEW m \in Memory,
         Goes(r, m), RejecterShape(m), RejecterMove(r, m),
         NEW i \in Items \ disturbed', mem[r].item = i,
         \A d \in Holders(i)' : mem'[d].pc \notin {"save", "update", "clear"}
  PROVE  Agrees(i)'
<1>1. mem'[r] = m /\ r \in Callers /\ RejecterShape(mem[r])
  BY RejectersAreCallers, MemoryGoes
<1>2. i \notin disturbed /\ (Fails => Between(i)' = Between(i))
  BY DisturbedGrows
<1>3. mem[r].pc \in {"reject", "clear"}
  BY <1>1, EnrichmentAssumption DEF RejecterShape
<1>4. r \in Between(i)
  BY <1>1, <1>3 DEF Between, Holders
<1>5. ~(Fails /\ m.pc = "idle")
  BY <1>1, <1>2, <1>4 DEF Between
<1>6. ~(m.pc = "clear" /\ m.item = i)
  BY <1>1 DEF Holders
<1>7. Clears(r, m)
  BY <1>3, <1>5, <1>6 DEF RejecterMove, Looks, Strikes, Stops
<1>8. row[i].raw = NoImage
  BY <1>1, <1>2, <1>7 DEF ShowInv, Underway, Clears
<1>9. shown'[i] = NoImage /\ row' = row
  BY <1>7 DEF Clears, TypeInv, TypeOK
<1>10. QED
  BY <1>8, <1>9 DEF Agrees

LEMMA ShowRejecter ==
  ASSUME TypeInv, ShowInv, Next, NEW r \in Rejecters, NEW m \in Memory,
         Goes(r, m), RejecterShape(m), RejecterMove(r, m)
  PROVE  ShowInv'
<1>1. /\ r \in Callers /\ mem'[r] = m
      /\ \A d \in Callers : d # r => mem'[d] = mem[d]
  BY RejectersAreCallers, MemoryGoes
<1>2. /\ shown \in [Items -> Keys \cup {NoImage}]
      /\ \A i \in Items : HasOwnKey(i)
  BY DEF TypeInv, TypeOK, ShowInv
<1>3. \A i \in Items : (mem[r].item # i => Untouched(i)) /\ HasOwnKey(i)'
  <2>1. CASE Keep
    BY <1>2, <2>1 DEF Keep, Untouched, HasOwnKey
  <2>2. CASE Strikes(r, m)
    BY <1>2, <2>2, StrikeEmpties DEF Strikes, Untouched, HasOwnKey
  <2>3. CASE Clears(r, m)
    BY <1>2, <2>3 DEF Clears, Untouched, HasOwnKey
  <2>4. QED
    BY <2>1, <2>2, <2>3 DEF RejecterMove, Looks, Stops
<1>4. Underway(mem[r])'
  <2>1. m.pc \notin {"save", "update"}
    BY DEF RejecterShape
  <2>2. m.pc = "clear" => row'[m.item].raw = NoImage
    BY StrikeEmpties DEF RejecterMove, Looks, Strikes, Clears, Stops
  <2>3. QED
    BY <1>1, <2>1, <2>2 DEF Underway
<1>5. \A d \in Callers : Underway(mem[d])'
  BY <1>1, <1>3, <1>4, OthersUnderway
<1>6. ASSUME NEW i \in Items \ disturbed'
      PROVE  /\ HeldOnce(i)'
             /\ (\A d \in Holders(i)' :
                   mem'[d].pc \notin {"save", "update", "clear"}) => Agrees(i)'
  BY <1>1, <1>3, DisturbedGrows, Elsewhere, RejecterAgrees
<1>7. QED
  BY <1>3, <1>5, <1>6 DEF ShowInv

(* A crash tears no product that nobody was between two steps of.          *)
LEMMA ShowCrash ==
  ASSUME TypeInv, ShowInv, Next, Crash
  PROVE  ShowInv'
<1>1. /\ mem' = [c \in Callers |-> Idle] /\ Keep
      /\ Idle.item = NoItem /\ Idle.pc = "idle" /\ NoItem \notin Items
  BY EnrichmentAssumption DEF Crash, Idle
<1>2. Fails
  BY DEF Crash, Fails, TypeInv, TypeOK
<1>3. \A c \in Callers : Underway(mem[c])'
  BY <1>1 DEF Underway
<1>4. \A i \in Items : HasOwnKey(i)'
  BY <1>1 DEF ShowInv, HasOwnKey, Keep
<1>5. ASSUME NEW i \in Items \ disturbed'
      PROVE  HeldOnce(i)' /\ Agrees(i)'
  <2>1. /\ i \notin disturbed /\ HeldOnce(i)' /\ Between(i)' = Between(i)
    BY <1>2, DisturbedGrows
  <2>2. Between(i)' = {}
    BY <1>1 DEF Between, Holders
  <2>3. \A c \in Holders(i) : mem[c].pc \notin {"save", "update", "clear"}
    BY <2>1, <2>2 DEF Between
  <2>4. Agrees(i)
    BY <2>1, <2>3 DEF ShowInv
  <2>5. QED
    BY <1>1, <2>1, <2>4 DEF Keep, Agrees, OwnKey
<1>6. QED
  BY <1>3, <1>4, <1>5 DEF ShowInv

LEMMA ShowSteps == TypeInv /\ ShowInv /\ [Next]_vars => ShowInv'
<1> SUFFICES ASSUME TypeInv, ShowInv, [Next]_vars  PROVE ShowInv'
  OBVIOUS
<1>1. CASE UNCHANGED vars
  BY <1>1 DEF vars, ShowInv, Underway, HasOwnKey, HeldOnce, Holders, Agrees,
              OwnKey
<1>2. CASE Next
  BY <1>2, StepMoves, ShowBatch, ShowRejecter, ShowCrash DEF GoesOn, LooksOn
<1>3. QED
  BY <1>1, <1>2

(* RowTellsWhatIsShown: a product that no request is at work on is shown   *)
(* with an image exactly when its row has one, and with that one, unless a *)
(* fault hit it between two steps or two requests worked on it at once.    *)
THEOREM RowTells == Spec => []RowTellsWhatIsShown
<1>1. Init => ShowInv
  <2>1. SUFFICES ASSUME Init  PROVE ShowInv
    OBVIOUS
  <2>2. \A c \in Callers : mem[c].item = NoItem /\ NoItem \notin Items
    BY <2>1, EnrichmentAssumption DEF Init, Idle
  <2>3. \A i \in Items : row[i].raw = NoImage /\ shown[i] = NoImage
    BY <2>1 DEF Init, NoRow
  <2>4. QED
    BY <2>2, <2>3 DEF ShowInv, Underway, HasOwnKey, HeldOnce, Holders, Agrees
<1>2. Spec => [](TypeInv /\ ShowInv)
  BY <1>1, TypeInit, TypeStep, ShowSteps, PTL DEF Spec
<1>3. ShowInv => RowTellsWhatIsShown
  <2>1. SUFFICES ASSUME ShowInv, NEW i \in Items \ disturbed, Holders(i) = {}
                 PROVE  Agrees(i)
    BY DEF RowTellsWhatIsShown, Agrees
  <2>2. QED
    BY <2>1 DEF ShowInv
<1>4. QED
  BY <1>2, <1>3, PTL
-----------------------------------------------------------------------------
(***************************************************************************)
(* Ranks: in a set of known products each has a rank of its own, from 1 to *)
(* their number; a product that leaves the set moves the others by one at  *)
(* most, and one that enters it moves none towards the front.              *)
(***************************************************************************)
LEMMA PlacesDiffer ==
  ASSUME NEW i \in Known, NEW j \in Known
  PROVE  Place(i) \in Nat /\ (Place(i) = Place(j) => i = j)
<1>1. \A k \in Known : Place(k) \in DOMAIN Order /\ Order[Place(k)] = k
  BY DEF Known, Place
<1>2. DOMAIN Order \subseteq Nat
  BY EnrichmentAssumption
<1>3. QED
  BY <1>1, <1>2

LEMMA SubsetsAreFinite ==
  ASSUME NEW S \in SUBSET Known, NEW T \in SUBSET S
  PROVE  /\ IsFiniteSet(S) /\ IsFiniteSet(T)
         /\ Cardinality(S) \in Nat /\ Cardinality(T) \in Nat
         /\ Cardinality(T) <= Cardinality(S)
         /\ Cardinality(T) = Cardinality(S) => T = S
BY KnownIsFinite, FS_Subset, FS_CardinalityType

Before(i, S) == {j \in S : Place(j) <= Place(i)}

LEMMA RanksDiffer ==
  ASSUME NEW S \in SUBSET Known, NEW i \in S
  PROVE  /\ Rank(i, S) \in 1 .. Cardinality(S)
         /\ \A j \in S : Rank(i, S) = Rank(j, S) => i = j
<1>1. Rank(i, S) \in Nat /\ Rank(i, S) <= Cardinality(S) /\ Cardinality(S) \in Nat
  BY SubsetsAreFinite DEF Rank
<1>2. Rank(i, S) # 0
  <2>1. i \in Before(i, S)
    BY PlacesDiffer DEF Before
  <2>2. IsFiniteSet(Before(i, S))
    BY SubsetsAreFinite DEF Before
  <2>3. Cardinality(Before(i, S)) # 0
    BY <2>1, <2>2, FS_EmptySet
  <2>4. QED
    BY <2>3 DEF Rank, Before
<1>3. ASSUME NEW j \in S, Place(i) < Place(j)
      PROVE  Rank(i, S) # Rank(j, S)
  <2>1. /\ Place(i) \in Nat /\ Place(j) \in Nat
        /\ \A k \in S : Place(k) \in Nat
    BY PlacesDiffer
  <2>2. Before(i, S) \subseteq Before(j, S)
    BY <1>3, <2>1 DEF Before
  <2>3. j \in Before(j, S) /\ j \notin Before(i, S)
    BY <1>3, <2>1 DEF Before
  <2>4. Before(j, S) \subseteq S
    BY DEF Before
  <2>5. Before(j, S) \in SUBSET Known
    BY <2>4
  <2>6. Cardinality(Before(i, S)) # Cardinality(Before(j, S))
    BY <2>2, <2>3, <2>5, SubsetsAreFinite
  <2>7. QED
    BY <2>6 DEF Rank, Before
<1>4. ASSUME NEW j \in S, Place(j) < Place(i)
      PROVE  Rank(i, S) # Rank(j, S)
  <2>1. /\ Place(i) \in Nat /\ Place(j) \in Nat
        /\ \A k \in S : Place(k) \in Nat
    BY PlacesDiffer
  <2>2. Before(j, S) \subseteq Before(i, S)
    BY <1>4, <2>1 DEF Before
  <2>3. i \in Before(i, S) /\ i \notin Before(j, S)
    BY <1>4, <2>1 DEF Before
  <2>4. Before(i, S) \in SUBSET Known
    BY DEF Before
  <2>5. Cardinality(Before(i, S)) # Cardinality(Before(j, S))
    BY <2>2, <2>3, <2>4, SubsetsAreFinite
  <2>6. QED
    BY <2>5 DEF Rank, Before
<1>5. ASSUME NEW j \in S, Rank(i, S) = Rank(j, S)
      PROVE  i = j
  <2>1. Place(i) \in Nat /\ Place(j) \in Nat
    BY PlacesDiffer
  <2>2. Place(i) = Place(j)
    BY <1>3, <1>4, <1>5, <2>1
  <2>3. QED
    BY <2>2, PlacesDiffer
<1>6. QED
  BY <1>1, <1>2, <1>5

LEMMA EachRankIsTaken ==
  ASSUME NEW S \in SUBSET Known, NEW n \in 1 .. Cardinality(S)
  PROVE  \E i \in S : Rank(i, S) = n
<1> DEFINE f == [i \in S |-> Rank(i, S)]
           T == 1 .. Cardinality(S)
<1>1. f \in Injection(S, T)
  BY RanksDiffer DEF Injection, IsInjective
<1>2. Cardinality(S) \in Nat
  BY SubsetsAreFinite
<1>3. IsFiniteSet(T) /\ Cardinality(T) = Cardinality(S)
  BY <1>2, FS_Interval
<1> HIDE DEF T
<1>4. f \in Surjection(S, T)
  BY <1>1, <1>3, FS_Injection
<1>5. n \in T
  BY DEF T
<1>6. PICK i \in S : f[i] = n
  BY <1>4, <1>5 DEF Surjection
<1>7. QED
  BY <1>6

(* A page that is not full is the end of the set.                          *)
LEMMA ShortPages ==
  ASSUME NEW S \in SUBSET Known, NEW o \in Nat, NEW n \in Nat \ {0},
         NEW page, page = {i \in S : Rank(i, S) \in o + 1 .. o + n}
  PROVE  /\ page = {} => \A i \in S : Rank(i, S) <= o
         /\ Cardinality(page) < n => \A i \in S : Rank(i, S) <= o + n
<1>1. Cardinality(S) \in Nat
  BY SubsetsAreFinite
<1>2. \A i \in S : Rank(i, S) \in Nat /\ Rank(i, S) <= Cardinality(S)
  BY <1>1, RanksDiffer
<1>3. ASSUME page = {}, NEW i \in S, ~(Rank(i, S) <= o)
      PROVE  FALSE
  <2>1. o + 1 \in 1 .. Cardinality(S)
    BY <1>1, <1>2, <1>3
  <2>2. PICK j \in S : Rank(j, S) = o + 1
    BY <2>1, EachRankIsTaken
  <2>3. o + 1 \in o + 1 .. o + n
    OBVIOUS
  <2>4. j \in page
    BY <2>2, <2>3
  <2>5. QED
    BY <1>3, <2>4
<1>4. ASSUME Cardinality(page) < n, NEW i \in S, ~(Rank(i, S) <= o + n)
      PROVE  FALSE
  <2> DEFINE T == o + 1 .. o + n
             f == [j \in page |-> Rank(j, S)]
  <2>1. \A k \in T : k \in 1 .. Cardinality(S)
    BY <1>1, <1>2, <1>4
  <2>2. \A k \in T : \E j \in page : f[j] = k
    BY <2>1, EachRankIsTaken
  <2>3. \A j \in page : f[j] \in T
    OBVIOUS
  <2>4. IsFiniteSet(T) /\ Cardinality(T) = n
    BY FS_Interval
  <2> HIDE DEF T
  <2>5. f \in Surjection(page, T)
    BY <2>2, <2>3 DEF Surjection
  <2>6. page \subseteq S
    OBVIOUS
  <2>7. IsFiniteSet(page) /\ Cardinality(page) \in Nat
    BY <2>6, SubsetsAreFinite
  <2>8. n <= Cardinality(page)
    BY <2>4, <2>5, <2>7, FS_Surjection
  <2>9. QED
    BY <1>4, <2>7, <2>8
<1>5. QED
  BY <1>3, <1>4

LEMMA AddsOne ==
  ASSUME NEW S, IsFiniteSet(S), NEW E, \A i, j \in E : i = j
  PROVE  IsFiniteSet(S \cup E) /\ Cardinality(S \cup E) <= Cardinality(S) + 1
<1>1. Cardinality(S) \in Nat
  BY FS_CardinalityType
<1>2. CASE E = {}
  <2>1. S \cup E = S
    BY <1>2
  <2> HIDE <1>2
  <2>2. QED
    BY <1>1, <2>1
<1>3. CASE E # {}
  <2>1. PICK e : E = {e}
    BY <1>3
  <2>2. /\ IsFiniteSet(S \cup {e})
        /\ Cardinality(S \cup {e}) = Cardinality(S)
             \/ Cardinality(S \cup {e}) = Cardinality(S) + 1
    BY FS_AddElement
  <2>3. QED
    BY <1>1, <2>1, <2>2
<1>4. QED
  BY <1>2, <1>3

LEMMA RemovesOne ==
  ASSUME NEW S, IsFiniteSet(S), NEW x
  PROVE  Cardinality(S) <= Cardinality(S \ {x}) + 1
<1>1. Cardinality(S) \in Nat
  BY FS_CardinalityType
<1>2. \/ Cardinality(S \ {x}) = Cardinality(S)
      \/ Cardinality(S \ {x}) = Cardinality(S) - 1
  BY FS_RemoveElement
<1>3. QED
  BY <1>1, <1>2

(* What is before the offset of the products that wait, when one product   *)
(* leaves the queue or enters it.                                          *)
LEMMA SkippedGrow ==
  ASSUME NEW S \in SUBSET Known, NEW T \in SUBSET Known,
         \/ S \subseteq T
         \/ \E x \in S : T = S \ {x},
         NEW M \in SUBSET S, NEW N \in SUBSET (M \cap T), NEW k \in Nat
  PROVE  Cardinality({i \in N : Rank(i, T) <= k})
           <= Cardinality({i \in M : Rank(i, S) <= k}) + Cardinality(S \ T)
<1> DEFINE A == {i \in M : Rank(i, S) <= k}
           B == {i \in N : Rank(i, T) <= k}
<1>1. /\ A \in SUBSET Known /\ B \in SUBSET Known
      /\ \A i \in N : i \in S /\ i \in T /\ i \in M
      /\ \A i \in N : Rank(i, S) \in Nat /\ Rank(i, T) \in Nat
  <2>1. \A i \in N : i \in S /\ i \in T /\ i \in M
    OBVIOUS
  <2>2. \A i \in N : Rank(i, S) \in Nat /\ Rank(i, T) \in Nat
    BY <2>1, RanksDiffer
  <2>3. QED
    BY <2>1, <2>2
<1>2. /\ Cardinality(A) \in Nat /\ Cardinality(B) \in Nat
      /\ Cardinality(S \ T) \in Nat
  <2>1. S \ T \in SUBSET Known
    OBVIOUS
  <2>2. QED
    BY <1>1, <2>1, SubsetsAreFinite
<1>3. CASE S \subseteq T
  <2>1. ASSUME NEW i \in N  PROVE Rank(i, S) <= Rank(i, T)
    <3>1. Before(i, S) \subseteq Before(i, T) /\ Before(i, T) \in SUBSET Known
      BY <1>3 DEF Before
    <3>2. Cardinality(Before(i, S)) <= Cardinality(Before(i, T))
      BY <3>1, SubsetsAreFinite
    <3>3. QED
      BY <3>2 DEF Rank, Before
  <2>2. B \subseteq A
    BY <1>1, <2>1
  <2>3. Cardinality(B) <= Cardinality(A)
    BY <1>1, <2>2, SubsetsAreFinite
  <2>4. QED
    BY <1>2, <2>3
<1>4. CASE \E x \in S : T = S \ {x}
  <2>1. PICK x \in S : T = S \ {x}
    BY <1>4
  <2>2. Cardinality(S \ T) = 1
    <3>1. S \ T = {x}
      BY <2>1
    <3>2. QED
      BY <3>1, FS_Singleton
  <2>3. ASSUME NEW i \in N  PROVE Rank(i, S) <= Rank(i, T) + 1
    <3>1. Before(i, T) = Before(i, S) \ {x}
      BY <2>1 DEF Before
    <3>2. IsFiniteSet(Before(i, S)) /\ Cardinality(Before(i, S)) \in Nat
      BY SubsetsAreFinite DEF Before
    <3>3. Cardinality(Before(i, S)) <= Cardinality(Before(i, S) \ {x}) + 1
      BY <3>2, RemovesOne
    <3>5. Cardinality(Before(i, S)) <= Cardinality(Before(i, T)) + 1
      BY <3>1, <3>3
    <3>4. QED
      BY <3>5 DEF Rank, Before
  <2> DEFINE E == {i \in N : Rank(i, S) = k + 1}
  <2>4. B \subseteq A \cup E
    BY <1>1, <2>3
  <2>5. \A i, j \in E : i = j
    <3>1. \A i, j \in E : i \in S /\ j \in S /\ Rank(i, S) = Rank(j, S)
      BY <1>1
    <3>2. QED
      BY <3>1, RanksDiffer
  <2>6. IsFiniteSet(A \cup E) /\ Cardinality(A \cup E) <= Cardinality(A) + 1
    <3>1. IsFiniteSet(A)
      BY <1>1, SubsetsAreFinite
    <3> HIDE DEF A, E
    <3>2. QED
      BY <2>5, <3>1, AddsOne
  <2>7. Cardinality(B) <= Cardinality(A \cup E) /\ Cardinality(A \cup E) \in Nat
    BY <2>4, <2>6, FS_Subset, FS_CardinalityType
  <2> HIDE DEF A, B, E
  <2>8. QED
    BY <1>2, <2>2, <2>6, <2>7 DEF A, B
<1>5. QED
  BY <1>3, <1>4
-----------------------------------------------------------------------------
(***************************************************************************)
(* Paging by offset.                                                       *)
(***************************************************************************)
LEMMA QueueMoves ==
  ASSUME TypeInv, Next
  PROVE  /\ Queue \in SUBSET Known /\ Queue' \in SUBSET Known
         /\ Queue \subseteq Queue' \/ \E x \in Queue : Queue' = Queue \ {x}
<1>1. \A x : x \in Queue <=> x \in Known /\ shown[x] = NoImage
  BY DEF Queue
<1>2. \A x : x \in Queue' <=> x \in Known /\ shown'[x] = NoImage
  BY DEF Queue
<1>3. Known \subseteq Items /\ DOMAIN shown = Items
  BY KnownIsFinite DEF TypeInv, TypeOK
<1>4. shown' = shown \/ \E i, v : shown' = [shown EXCEPT ![i] = v]
  <2>1. ASSUME NEW b \in Batches, NEW m \in Memory, BatchMove(b, m)
        PROVE  shown' = shown \/ \E i, v : shown' = [shown EXCEPT ![i] = v]
    BY <2>1 DEF BatchMove, Turns, Takes, Reads, Chooses, Works, Leaves,
                Uploads, Saves, Shows, Keep
  <2>2. ASSUME NEW r \in Rejecters, NEW m \in Memory, RejecterMove(r, m)
        PROVE  shown' = shown \/ \E i, v : shown' = [shown EXCEPT ![i] = v]
    BY <2>2 DEF RejecterMove, Looks, Strikes, Clears, Stops, Keep
  <2>3. QED
    BY <2>1, <2>2, StepMoves DEF GoesOn, LooksOn, Crash, Keep
<1>5. CASE shown' = shown
  BY <1>1, <1>2, <1>5
<1>6. CASE \E i, v : shown' = [shown EXCEPT ![i] = v]
  <2>1. PICK i, v : shown' = [shown EXCEPT ![i] = v]
    BY <1>6
  <2>2. \A x \in Known : x # i => shown'[x] = shown[x]
    BY <1>3, <2>1
  <2>3. CASE i \in Queue /\ i \notin Queue'
    <3>1. Queue' = Queue \ {i}
      BY <1>1, <1>2, <2>2, <2>3
    <3>2. QED
      BY <1>1, <1>2, <2>3, <3>1
  <2>4. CASE ~(i \in Queue /\ i \notin Queue')
    BY <1>1, <1>2, <2>2, <2>4
  <2>5. QED
    BY <2>3, <2>4
<1>7. QED
  BY <1>4, <1>5, <1>6

(* What a step may do to the place of batch b in the queue.                *)
StaysOnPage(b) ==
  /\ mem'[b].offset = mem[b].offset /\ mem'[b].last = mem[b].last
  /\ \/ mem'[b].pc = mem[b].pc
     \/ {mem[b].pc, mem'[b].pc} \cap {"idle", "byIds", "list"} = {}

LEMMA PageMoves ==
  ASSUME TypeInv, Next, NEW b \in Batches, mem'[b].pc # "idle"
  PROVE  \/ StaysOnPage(b)
         \/ mem[b].pc \in {"idle", "byIds"}
         \/ Keep /\ ListsPage(b, mem'[b])
         \/ Keep /\ TurnsPage(b, mem'[b])
<1>1. CASE mem'[b] = mem[b]
  BY <1>1 DEF StaysOnPage
<1>2. CASE GoesOn(b)
  <2>1. PICK m \in Memory : Goes(b, m) /\ BatchShape(m) /\ BatchMove(b, m)
    BY <1>2 DEF GoesOn
  <2>2. mem'[b] = m
    BY <2>1, BatchesAreCallers, MemoryGoes
  <2>3. CASE Turns(b, m)
    BY <2>2, <2>3 DEF Turns, Ends, PassesOver, SamePage, StaysOnPage
  <2>4. CASE ~Turns(b, m)
    <3>1. SamePage(b, m)
      BY <2>1, <2>4 DEF BatchMove, Takes, Reads, Chooses, Works, Leaves,
        Uploads, Saves, Shows, SameItem, GivesUp
    <3>2. {mem[b].pc, m.pc} \cap {"idle", "byIds", "list"} = {}
      BY <2>1, <2>4 DEF BatchMove, Takes, Reads, Chooses, Works, Leaves,
        Uploads, Saves, Shows, SameItem, GivesUp, Reading, Chosen
    <3>3. QED
      BY <2>2, <3>1, <3>2 DEF StaysOnPage, SamePage
  <2>5. QED
    BY <2>3, <2>4
<1>3. ASSUME NEW d \in Batches, d # b, GoesOn(d)
      PROVE  mem'[b] = mem[b]
  BY <1>3, BatchesAreCallers, MemoryGoes DEF GoesOn
<1>4. ASSUME NEW r \in Rejecters, LooksOn(r)
      PROVE  mem'[b] = mem[b]
  BY <1>4, BatchesAreCallers, RejectersAreCallers, MemoryGoes DEF LooksOn
<1>5. ~Crash
  BY BatchesAreCallers DEF Crash, Idle
<1>6. QED
  BY <1>1, <1>2, <1>3, <1>4, <1>5, StepMoves

LEMMA NothingMissed ==
  ASSUME NEW b \in Batches, watch'[b].waiting = {}, watch'[b].left \in Nat,
         watch'[b].tried \in SUBSET Items,
         watch'[b] = [waiting |-> watch'[b].waiting, tried |-> watch'[b].tried,
                      left |-> watch'[b].left]
  PROVE  PageOK(b)'
<1>1. Missed(b)' = {} /\ Skipped(b)' = {}
  BY DEF Missed, Skipped
<1>2. Cardinality(Missed(b)') = 0 /\ Cardinality(Skipped(b)') = 0
  BY <1>1, FS_EmptySet
<1>3. watch'[b] \in [waiting : SUBSET Queue', tried : SUBSET Items, left : Nat]
  OBVIOUS
<1>4. QED
  BY <1>2, <1>3 DEF PageOK

LEMMA WatchMoves ==
  ASSUME TypeInv, PageInv, Next, NEW b \in Batches
  PROVE  /\ mem'[b].pc = "idle" => watch'[b] = NoWatch
         /\ mem'[b].pc # "idle" /\ mem[b].pc = "list" /\ mem[b].offset = 0 =>
              watch'[b] = [waiting |-> Queue', tried |-> mem'[b].page, left |-> 0]
         /\ mem'[b].pc # "idle" /\ ~(mem[b].pc = "list" /\ mem[b].offset = 0) =>
              watch'[b] =
                [waiting |-> watch[b].waiting \cap Queue',
                 tried   |-> watch[b].tried \cup mem'[b].page,
                 left    |-> watch[b].left + Cardinality(Queue \ Queue')]
         /\ mem'[b].page \in SUBSET Items
         /\ watch[b].left + Cardinality(Queue \ Queue') \in Nat
<1>1. watch' = [d \in Batches |-> IF mem'[d].pc = "idle" THEN NoWatch ELSE Seen(d)]
  BY DEF Next, Observe
<1>2. watch'[b] = IF mem'[b].pc = "idle" THEN NoWatch ELSE Seen(b)
  BY <1>1
<1>3. mem'[b].page \in SUBSET Items
  <2>1. TypeInv'
    BY TypeStep
  <2>2. mem'[b] \in Memory
    BY <2>1 DEF TypeInv, TypeOK, Callers
  <2>3. QED
    BY <2>2 DEF Memory
<1>4. watch[b].left + Cardinality(Queue \ Queue') \in Nat
  <2>1. Cardinality(Queue \ Queue') \in Nat
    <3>1. Queue \in SUBSET Known /\ Queue \ Queue' \in SUBSET Queue
      BY QueueMoves
    <3>2. QED
      BY <3>1, SubsetsAreFinite
  <2>2. watch[b].left \in Nat
    BY DEF PageInv, PageOK
  <2>3. QED
    BY <2>1, <2>2
<1>5. QED
  BY <1>2, <1>3, <1>4 DEF Seen

(* The batch stays where it is in the queue, whatever happens to that.     *)
LEMMA PageStays ==
  ASSUME TypeInv, PageInv, Next, NEW b \in Batches, mem'[b].pc # "idle",
         StaysOnPage(b)
  PROVE  PageOK(b)'
<1> DEFINE S == Queue
           T == Queue'
           w == watch[b]
           x == watch'[b]
           k == Reached(b)
<1>1. PageOK(b) /\ mem[b] \in Memory
  BY BatchesAreCallers DEF PageInv
<1>2. S \in SUBSET Known /\ T \in SUBSET Known
      /\ (S \subseteq T \/ \E y \in S : T = S \ {y})
  BY QueueMoves
<1>3. Reached(b)' = k /\ k \in Nat
  <2>1. mem'[b].pc = "list" <=> mem[b].pc = "list"
    BY DEF StaysOnPage
  <2>2. mem[b].offset \in Nat /\ PageSize \in Nat
    BY <1>1, EnrichmentAssumption DEF Memory
  <2>3. k \in Nat
    BY <2>2 DEF Reached
  <2>4. QED
    BY <2>1, <2>3 DEF StaysOnPage, Reached
<1>4. CASE mem[b].pc = "list" /\ mem[b].offset = 0
  <2>1. x = [waiting |-> T, tried |-> mem'[b].page, left |-> 0]
        /\ mem'[b].page \in SUBSET Items
    BY <1>4, WatchMoves
  <2>2. mem'[b].pc = "list" /\ k = 0
    BY <1>4 DEF StaysOnPage, Reached
  <2>3. \A i \in T : ~(Rank(i, T) <= 0)
    BY <1>2, RanksDiffer, SubsetsAreFinite
  <2>4. Skipped(b)' = {}
    BY <1>3, <2>1, <2>2, <2>3 DEF Skipped, Missed
  <2>5. Cardinality(Skipped(b)') = 0
    BY <2>4, FS_EmptySet
  <2>6. QED
    BY <2>1, <2>2, <2>5 DEF PageOK
<1>5. CASE ~(mem[b].pc = "list" /\ mem[b].offset = 0)
  <2> DEFINE n == w.left
             g == Cardinality(S \ T)
  <2>1. /\ x = [waiting |-> w.waiting \cap T, tried |-> w.tried \cup mem'[b].page,
                left |-> n + g]
        /\ mem'[b].page \in SUBSET Items /\ n + g \in Nat
    BY <1>5, WatchMoves
  <2>2. /\ w.waiting \in SUBSET S /\ w.tried \in SUBSET Items /\ n \in Nat
    BY <1>1 DEF PageOK
  <2>3. x \in [waiting : SUBSET T, tried : SUBSET Items, left : Nat]
    BY <2>1, <2>2
  <2>4. Missed(b) \in SUBSET S /\ Missed(b)' \in SUBSET (Missed(b) \cap T)
    BY <2>1, <2>2 DEF Missed
  <2>5. g \in Nat
    BY <1>2, SubsetsAreFinite
  <2>6. Cardinality(Skipped(b)') <= Cardinality(Skipped(b)) + g
    <3>1. Skipped(b)' = {i \in Missed(b)' : Rank(i, T) <= k}
      BY <1>3 DEF Skipped
    <3>2. Skipped(b) = {i \in Missed(b) : Rank(i, S) <= k}
      BY DEF Skipped
    <3> DEFINE M == Missed(b)
               N == Missed(b)'
    <3>3. M \in SUBSET S /\ N \in SUBSET (M \cap T)
      BY <2>4
    <3>6. k \in Nat /\ g = Cardinality(S \ T)
      BY <1>3
    <3> HIDE DEF S, T, M, N, k, g
    <3>7. S \in SUBSET Known /\ T \in SUBSET Known
      BY <1>2
    <3>8. S \subseteq T \/ \E y \in S : T = S \ {y}
      BY <1>2
    <3>9. \A K \in Nat : Cardinality({i \in N : Rank(i, T) <= K})
            <= Cardinality({i \in M : Rank(i, S) <= K}) + Cardinality(S \ T)
      BY <3>3, <3>7, <3>8, SkippedGrow
    <3>4. Cardinality({i \in N : Rank(i, T) <= k})
            <= Cardinality({i \in M : Rank(i, S) <= k}) + g
      BY <3>6, <3>9
    <3>5. QED
      BY <3>1, <3>2, <3>4 DEF M, N
  <2>7. Cardinality(Missed(b)') <= Cardinality(Missed(b))
        /\ Cardinality(Missed(b)') \in Nat /\ Cardinality(Missed(b)) \in Nat
    <3>1. Missed(b) \in SUBSET Known /\ Missed(b)' \in SUBSET Missed(b)
      BY <1>2, <2>4
    <3>2. QED
      BY <3>1, SubsetsAreFinite
  <2>8. Cardinality(Skipped(b)') \in Nat /\ Cardinality(Skipped(b)) \in Nat
    <3>1. Skipped(b) \in SUBSET Known /\ Skipped(b)' \in SUBSET Known
      BY <1>2, <2>4 DEF Skipped
    <3>2. QED
      BY <3>1, SubsetsAreFinite
  <2>9. x.left = n + g /\ x.waiting = w.waiting \cap T
    BY <2>1
  <2>10. mem'[b].pc \in {"idle", "byIds"} => x.waiting = {}
    BY <1>1, <2>9 DEF PageOK, StaysOnPage
  <2> HIDE DEF n, g
  <2>11. Cardinality(Skipped(b)') <= x.left
    BY <1>1, <2>2, <2>5, <2>6, <2>8, <2>9 DEF PageOK, n
  <2>12. mem'[b].pc \notin {"idle", "byIds", "list"} /\ mem'[b].last =>
           Cardinality(Missed(b)') <= x.left
    <3>1. SUFFICES ASSUME mem'[b].pc \notin {"idle", "byIds", "list"},
                          mem'[b].last
                   PROVE  Cardinality(Missed(b)') <= x.left
      OBVIOUS
    <3>2. Cardinality(Missed(b)) <= n
      BY <1>1, <3>1 DEF StaysOnPage, PageOK, n
    <3>3. QED
      BY <2>2, <2>5, <2>7, <2>9, <3>2
  <2>13. QED
    BY <2>3, <2>10, <2>11, <2>12 DEF PageOK
<1>6. QED
  BY <1>4, <1>5

(* The batch lists the page at its offset.                                 *)
LEMMA PageIsListed ==
  ASSUME TypeInv, PageInv, Next, NEW b \in Batches, Keep,
         ListsPage(b, mem'[b])
  PROVE  PageOK(b)'
<1> DEFINE S == Queue
           w == watch[b]
           x == watch'[b]
           o == mem[b].offset
           page == PageOf(b)
<1>1. PageOK(b) /\ o \in Nat /\ PageSize \in Nat \ {0} /\ o + PageSize \in Nat
  BY BatchesAreCallers, EnrichmentAssumption DEF PageInv, Memory
<1>2. S \in SUBSET Known /\ Queue' = S
  BY QueueMoves DEF Queue, Keep
<1>3. /\ mem[b].pc = "list" /\ mem'[b].pc = "next" /\ mem'[b].offset = o
      /\ mem'[b].page = page /\ Reached(b)' = o + PageSize /\ Reached(b) = o
      /\ mem'[b].last = (Cardinality(page) < PageSize)
  BY DEF ListsPage, Reached
<1>4. page = {i \in S : Rank(i, S) \in o + 1 .. o + PageSize}
  BY DEF PageOf
<1>5. Cardinality(page) < PageSize => \A i \in S : Rank(i, S) <= o + PageSize
  BY <1>1, <1>2, <1>4, ShortPages
<1>6. \A i \in S : Rank(i, S) \in Nat /\ Rank(i, S) >= 1
  BY <1>2, RanksDiffer, SubsetsAreFinite
<1>7. \A i \in S \ page : Rank(i, S) <= o + PageSize => Rank(i, S) <= o
  BY <1>1, <1>4, <1>6
<1> HIDE DEF page
<1>8. /\ x \in [waiting : SUBSET S, tried : SUBSET Items, left : Nat]
      /\ Missed(b)' \in SUBSET (S \ page)
      /\ o = 0 => x.left = 0
      /\ o # 0 => x.left = w.left /\ Missed(b)' \in SUBSET Missed(b)
  <2>1. CASE o = 0
    <3>1. x = [waiting |-> S, tried |-> page, left |-> 0] /\ page \in SUBSET Items
      BY <1>2, <1>3, <2>1, WatchMoves
    <3>2. Missed(b)' = S \ page
      BY <3>1 DEF Missed
    <3>3. 0 \in Nat
      OBVIOUS
    <3> HIDE DEF S
    <3>4. QED
      BY <2>1, <3>1, <3>2, <3>3
  <2>2. CASE o # 0
    <3>1. Queue \ Queue' = {} /\ Cardinality(Queue \ Queue') = 0
      BY <1>2, FS_EmptySet
    <3>2. w.left \in Nat /\ w.waiting \in SUBSET S /\ w.tried \in SUBSET Items
      BY <1>1 DEF PageOK
    <3>3. x = [waiting |-> w.waiting \cap S, tried |-> w.tried \cup page,
               left |-> w.left + 0] /\ page \in SUBSET Items
      BY <1>2, <1>3, <2>2, <3>1, WatchMoves
    <3>4. x.left = w.left
      BY <3>2, <3>3
    <3>5. QED
      BY <2>2, <3>2, <3>3, <3>4 DEF Missed
  <2>3. QED
    BY <2>1, <2>2
<1>9. Skipped(b)' \subseteq {i \in Missed(b)' : Rank(i, S) <= o}
  BY <1>2, <1>3, <1>7, <1>8 DEF Skipped
<1>10. Cardinality(Skipped(b)') <= x.left
  <2>1. CASE o = 0
    <3>1. Skipped(b)' = {}
      BY <1>6, <1>8, <1>9, <2>1
    <3>2. QED
      BY <1>8, <2>1, <3>1, FS_EmptySet
  <2>2. CASE o # 0
    <3>1. Skipped(b)' \in SUBSET Skipped(b) /\ Skipped(b) \in SUBSET Known
      BY <1>1, <1>2, <1>3, <1>8, <1>9, <2>2 DEF Skipped, Missed, PageOK
    <3>2. /\ Cardinality(Skipped(b)') <= Cardinality(Skipped(b))
          /\ Cardinality(Skipped(b)') \in Nat /\ Cardinality(Skipped(b)) \in Nat
      BY <3>1, SubsetsAreFinite
    <3>3. Cardinality(Skipped(b)) <= w.left /\ w.left \in Nat
      BY <1>1 DEF PageOK
    <3>4. QED
      BY <1>8, <2>2, <3>2, <3>3
  <2>3. QED
    BY <2>1, <2>2
<1>11. mem'[b].last => Cardinality(Missed(b)') <= x.left
  <2>1. SUFFICES ASSUME mem'[b].last  PROVE Missed(b)' = Skipped(b)'
    BY <1>10
  <2>2. \A i \in S : Rank(i, S) <= o + PageSize
    BY <1>3, <1>5, <2>1
  <2>3. QED
    BY <1>2, <1>3, <1>8, <2>2 DEF Skipped
<1>12. QED
  BY <1>2, <1>3, <1>8, <1>10, <1>11 DEF PageOK

(* The batch is through with a page.                                       *)
LEMMA PageIsTurned ==
  ASSUME TypeInv, PageInv, Next, NEW b \in Batches, Keep,
         TurnsPage(b, mem'[b])
  PROVE  PageOK(b)'
<1> DEFINE w == watch[b]
           x == watch'[b]
<1>1. PageOK(b) /\ mem[b].pc = "next" /\ mem'[b].pc = "list"
  BY DEF PageInv, TurnsPage
<1>2. Queue' = Queue /\ Queue \in SUBSET Known
  BY QueueMoves DEF Queue, Keep
<1>3. Reached(b)' = Reached(b)
  BY DEF TurnsPage, Reached
<1>4. w \in [waiting : SUBSET Queue, tried : SUBSET Items, left : Nat]
  BY <1>1 DEF PageOK
<1>5. Queue \ Queue' = {} /\ Cardinality(Queue \ Queue') = 0
  BY <1>2, FS_EmptySet
<1>6. x = [waiting |-> w.waiting \cap Queue', tried |-> w.tried \cup mem'[b].page,
           left |-> w.left + 0] /\ mem'[b].page \in SUBSET Items
  BY <1>1, <1>5, WatchMoves
<1>7. x.left = w.left /\ w.left \in Nat
  BY <1>4, <1>6
<1>8. Skipped(b)' \in SUBSET Skipped(b) /\ Skipped(b) \in SUBSET Known
  BY <1>2, <1>3, <1>4, <1>6 DEF Skipped, Missed
<1>9. /\ Cardinality(Skipped(b)') <= Cardinality(Skipped(b))
      /\ Cardinality(Skipped(b)') \in Nat /\ Cardinality(Skipped(b)) \in Nat
  BY <1>8, SubsetsAreFinite
<1>10. Cardinality(Skipped(b)') <= x.left
  BY <1>1, <1>7, <1>9 DEF PageOK
<1>11. x \in [waiting : SUBSET Queue', tried : SUBSET Items, left : Nat]
  BY <1>4, <1>6, <1>7
<1>12. QED
  BY <1>1, <1>10, <1>11 DEF PageOK

LEMMA PageSteps == TypeInv /\ PageInv /\ [Next]_vars => PageInv'
<1> SUFFICES ASSUME TypeInv, PageInv, [Next]_vars, NEW b \in Batches
             PROVE  PageOK(b)'
  BY DEF PageInv
<1>1. CASE UNCHANGED vars
  BY <1>1 DEF vars, PageInv, PageOK, Skipped, Missed, Reached, Queue
<1>2. CASE Next
  <2>1. CASE mem'[b].pc = "idle"
    <3>1. watch'[b] = NoWatch
      BY <1>2, <2>1, WatchMoves
    <3>2. QED
      BY <3>1, NothingMissed DEF NoWatch
  <2>2. CASE mem'[b].pc # "idle" /\ mem[b].pc \in {"idle", "byIds"}
    <3>1. PageOK(b)
      BY DEF PageInv
    <3>2. watch[b].waiting = {} /\ watch[b].tried \in SUBSET Items
      BY <2>2, <3>1 DEF PageOK
    <3> DEFINE n == watch[b].left + Cardinality(Queue \ Queue')
               t == watch[b].tried \cup mem'[b].page
    <3>3. /\ watch'[b] = [waiting |-> watch[b].waiting \cap Queue',
                          tried   |-> t, left |-> n]
          /\ n \in Nat /\ t \in SUBSET Items
      BY <1>2, <2>2, <3>2, WatchMoves
    <3> HIDE DEF n, t
    <3>4. watch'[b] = [waiting |-> {}, tried |-> t, left |-> n]
      BY <3>2, <3>3
    <3>5. QED
      BY <3>3, <3>4, NothingMissed
  <2>3. CASE mem'[b].pc # "idle" /\ mem[b].pc \notin {"idle", "byIds"}
    BY <1>2, <2>3, PageMoves, PageStays, PageIsListed, PageIsTurned
  <2>4. QED
    BY <2>1, <2>2, <2>3
<1>3. QED
  BY <1>1, <1>2

LEMMA PageInit == Init => PageInv
<1> SUFFICES ASSUME Init, NEW b \in Batches  PROVE PageOK(b)
  BY DEF PageInv
<1>1. watch[b] = NoWatch /\ mem[b].pc = "idle"
  BY DEF Init, Idle, Callers
<1>2. Missed(b) = {} /\ Skipped(b) = {}
  BY <1>1 DEF Missed, Skipped, NoWatch
<1>3. QED
  BY <1>1, <1>2, FS_EmptySet DEF PageOK, NoWatch

(* A batch that comes to the end of the queue has listed all but as many   *)
(* as left the queue.                                                      *)
LEMMA EndIsReached ==
  ASSUME TypeInv, PageInv, [Next]_vars, NEW b \in Batches, ComesToTheEnd(b)
  PROVE  Cardinality(Missed(b)) <= watch[b].left
<1>1. PageOK(b) /\ mem[b].offset \in Nat
  BY BatchesAreCallers DEF PageInv, Memory
<1>2. CASE mem[b].pc = "next" /\ mem[b].last
  BY <1>1, <1>2 DEF PageOK
<1>3. CASE mem[b].pc = "list"
  <2>1. mem'[b].pc = "idle" /\ ~Fails
    BY DEF ComesToTheEnd, Fails, TypeInv, TypeOK
  <2>2. Next
    BY <1>3, <2>1 DEF vars
  <2>3. ~Crash
    BY <2>1 DEF Crash, Fails, TypeInv, TypeOK
  <2>4. ASSUME NEW d \in Batches, d # b, GoesOn(d)
        PROVE  mem'[b] = mem[b]
    BY <2>4, BatchesAreCallers, MemoryGoes DEF GoesOn
  <2>5. ASSUME NEW r \in Rejecters, LooksOn(r)
        PROVE  mem'[b] = mem[b]
    BY <2>5, BatchesAreCallers, RejectersAreCallers, MemoryGoes DEF LooksOn
  <2>6. GoesOn(b)
    BY <1>3, <2>1, <2>2, <2>3, <2>4, <2>5, StepMoves
  <2>7. PICK m \in Memory : Goes(b, m) /\ BatchMove(b, m)
    BY <2>6 DEF GoesOn
  <2>8. m.pc = "idle"
    BY <2>1, <2>7, BatchesAreCallers, MemoryGoes
  <2>9. PageOf(b) = {}
    BY <1>3, <2>1, <2>7, <2>8 DEF BatchMove, Turns, Ends, ListsPage,
      PassesOver, TurnsPage, Takes, Reads, Chooses, Works, Leaves,
      Uploads, Saves, Shows, GivesUp
  <2>10. Queue \in SUBSET Known
    BY DEF Queue
  <2>11. \A i \in Queue : Rank(i, Queue) <= mem[b].offset
    BY <1>1, <2>9, <2>10, ShortPages, EnrichmentAssumption DEF PageOf
  <2>12. Skipped(b) = Missed(b)
    BY <1>1, <1>3, <2>11 DEF Skipped, Missed, Reached, PageOK
  <2>13. QED
    BY <1>1, <2>12 DEF PageOK
<1>4. QED
  BY <1>2, <1>3 DEF ComesToTheEnd

(* OffsetSkipsNoMoreThanLeft: paging by offset over the shrinking queue    *)
(* skips no more products than have left it meanwhile.                     *)
THEOREM OffsetSkipsFew == Spec => OffsetSkipsNoMoreThanLeft
<1>1. Spec => [](TypeInv /\ PageInv)
  BY TypeInit, TypeStep, PageInit, PageSteps, PTL DEF Spec
<1>2. TypeInv /\ PageInv /\ [Next]_vars =>
        [\A b \in Batches : ComesToTheEnd(b) =>
           Cardinality(watch[b].waiting \ watch[b].tried) <= watch[b].left]_vars
  BY EndIsReached DEF Missed
<1>3. QED
  BY <1>1, <1>2, PTL DEF Spec, OffsetSkipsNoMoreThanLeft
-----------------------------------------------------------------------------
(***************************************************************************)
(* Sums over a finite set.  A set of naturals that holds 0 and the         *)
(* successor of each of its members is all of Nat; so the table of the     *)
(* sums over the subsets of S exists, and a sum changes with one summand.  *)
(***************************************************************************)
LEMMA AllNaturals ==
  ASSUME NEW S \in SUBSET Nat, 0 \in S, \A n \in S : n + 1 \in S
  PROVE  S = Nat
<1> DEFINE R == {p \in Nat \X Nat : p[1] < p[2]}
           T == Nat \ S
<1>1. SUFFICES ASSUME T # {}  PROVE FALSE
  OBVIOUS
<1>2. IsWellFoundedOn(R, Nat)
  <2>1. OpToRel(<, Nat) = R
    BY DEF OpToRel
  <2>2. QED
    BY <2>1, NatLessThanWellFounded
<1> HIDE DEF R
<1>3. PICK x \in T : \A y \in T : ~(<<y, x>> \in R)
  BY <1>1, <1>2, WFMin
<1>4. x # 0 /\ x - 1 \in Nat
  OBVIOUS
<1>5. <<x - 1, x>> \in R
  BY <1>4 DEF R
<1>6. QED
  BY <1>3, <1>4, <1>5


LEMMA TakesSome ==
  ASSUME NEW S, IsFiniteSet(S), NEW T \in SUBSET S, T # {}
  PROVE  /\ Some(T) \in T /\ Some(T) \in S
         /\ IsFiniteSet(T) /\ T \ {Some(T)} \in SUBSET S
         /\ Cardinality(T) \in Nat \ {0}
         /\ Cardinality(T \ {Some(T)}) = Cardinality(T) - 1
<1>1. Some(T) \in T
  BY DEF Some
<1>2. IsFiniteSet(T) /\ Cardinality(T) \in Nat
  BY FS_Subset, FS_CardinalityType
<1>3. Cardinality(T) # 0
  BY <1>2, FS_EmptySet
<1>4. Cardinality(T \ {Some(T)}) = Cardinality(T) - 1
  BY <1>1, <1>2, FS_RemoveElement
<1>5. QED
  BY <1>1, <1>2, <1>3, <1>4

LEMMA NothingUpToZero ==
  ASSUME NEW S, IsFiniteSet(S), NEW T \in UpTo(0, S)
  PROVE  T = {}
<1>1. SUFFICES ASSUME T # {}  PROVE FALSE
  OBVIOUS
<1>2. T \in SUBSET S /\ Cardinality(T) <= 0
  BY DEF UpTo
<1>3. Cardinality(T) \in Nat \ {0}
  BY <1>1, <1>2, TakesSome
<1>4. QED
  BY <1>2, <1>3

LEMMA AllUpToSize ==
  ASSUME NEW S, IsFiniteSet(S)
  PROVE  Cardinality(S) \in Nat /\ UpTo(Cardinality(S), S) = SUBSET S
<1>1. \A T \in SUBSET S : Cardinality(T) <= Cardinality(S)
  BY FS_Subset
<1>2. QED
  BY <1>1, FS_CardinalityType DEF UpTo

LEMMA SumsUpTo ==
  ASSUME NEW S, IsFiniteSet(S), NEW g \in [S -> Nat], NEW n \in Nat
  PROVE  \E F \in [UpTo(n, S) -> Nat] : Adds(F, g, UpTo(n, S))
<1> DEFINE Exist(k) == \E F \in [UpTo(k, S) -> Nat] : Adds(F, g, UpTo(k, S))
           N == {k \in Nat : Exist(k)}
<1>1. Exist(0)
  <2>1. \A T \in UpTo(0, S) : T = {}
    BY NothingUpToZero
  <2> DEFINE F == [T \in UpTo(0, S) |-> 0]
  <2>2. F \in [UpTo(0, S) -> Nat] /\ Adds(F, g, UpTo(0, S))
    BY <2>1 DEF Adds
  <2>3. QED
    BY <2>2
<1>2. ASSUME NEW k \in Nat, Exist(k)  PROVE Exist(k + 1)
  <2>1. PICK F \in [UpTo(k, S) -> Nat] : Adds(F, g, UpTo(k, S))
    BY <1>2
  <2> DEFINE G == [T \in UpTo(k + 1, S) |->
                     IF T = {} THEN 0 ELSE g[Some(T)] + F[T \ {Some(T)}]]
  <2>2. ASSUME NEW T \in UpTo(k + 1, S), T # {}
        PROVE  T \ {Some(T)} \in UpTo(k, S) /\ Some(T) \in S
    <3>1. T \in SUBSET S /\ Cardinality(T) <= k + 1
      BY DEF UpTo
    <3>2. QED
      BY <2>2, <3>1, TakesSome DEF UpTo
  <2>3. G \in [UpTo(k + 1, S) -> Nat]
    <3>1. ASSUME NEW T \in UpTo(k + 1, S)  PROVE G[T] \in Nat
      <4>1. CASE T = {}
        BY <4>1
      <4>2. CASE T # {}
        <5>1. g[Some(T)] \in Nat /\ F[T \ {Some(T)}] \in Nat
          BY <2>1, <2>2, <4>2
        <5>2. G[T] = g[Some(T)] + F[T \ {Some(T)}]
          BY <4>2
        <5> HIDE DEF G
        <5>3. QED
          BY <5>1, <5>2
      <4>3. QED
        BY <4>1, <4>2
    <3>2. QED
      BY <3>1
  <2>4. ASSUME NEW T \in UpTo(k, S)
        PROVE  T \in UpTo(k + 1, S) /\ G[T] = F[T]
    <3>1. T \in UpTo(k + 1, S)
      <4>1. T \in SUBSET S /\ Cardinality(T) <= k /\ IsFiniteSet(T)
        BY FS_Subset DEF UpTo
      <4>2. Cardinality(T) \in Nat
        BY <4>1, FS_CardinalityType
      <4>3. QED
        BY <4>1, <4>2 DEF UpTo
    <3>2. F[T] = IF T = {} THEN 0 ELSE g[Some(T)] + F[T \ {Some(T)}]
      BY <2>1 DEF Adds
    <3>3. QED
      BY <3>1, <3>2
  <2>5. ASSUME NEW T \in UpTo(k + 1, S), T # {}
        PROVE  G[T \ {Some(T)}] = F[T \ {Some(T)}]
    BY <2>2, <2>4, <2>5
  <2>6. Adds(G, g, UpTo(k + 1, S))
    BY <2>5 DEF Adds
  <2>7. QED
    BY <2>3, <2>6
<1> HIDE DEF Exist
<1>5. 0 \in N /\ \A k \in N : k + 1 \in N
  BY <1>1, <1>2
<1>3. N = Nat
  BY <1>5, AllNaturals
<1>4. QED
  BY <1>3 DEF Exist

LEMMA TotalAdds ==
  ASSUME NEW S, IsFiniteSet(S), NEW g \in [S -> Nat]
  PROVE  /\ \E F : Adds(F, g, SUBSET S)
         /\ \A F : Adds(F, g, SUBSET S) => F \in [SUBSET S -> Nat]
<1>1. Cardinality(S) \in Nat
  BY AllUpToSize
<1>2. UpTo(Cardinality(S), S) = SUBSET S
  BY AllUpToSize
<1>3. \E F : Adds(F, g, SUBSET S)
  <2>1. PICK F \in [UpTo(Cardinality(S), S) -> Nat] :
               Adds(F, g, UpTo(Cardinality(S), S))
    BY <1>1, SumsUpTo
  <2>2. Adds(F, g, SUBSET S)
    BY <1>2, <2>1
  <2>3. QED
    BY <2>2
<1>4. ASSUME NEW F, Adds(F, g, SUBSET S)
      PROVE  F \in [SUBSET S -> Nat]
  <2> DEFINE Typed(n) == \A T \in UpTo(n, S) : F[T] \in Nat
             N == {n \in Nat : Typed(n)}
  <2>1. \A T \in SUBSET S :
          F[T] = IF T = {} THEN 0 ELSE g[Some(T)] + F[T \ {Some(T)}]
    BY <1>4 DEF Adds
  <2>9. F[{}] = 0
    <3>1. {} \in SUBSET S
      OBVIOUS
    <3>2. QED
      BY <2>1, <3>1
  <2>11. \A T \in UpTo(0, S) : T = {}
    BY NothingUpToZero
  <2>2. Typed(0)
    BY <2>9, <2>11
  <2>3. ASSUME NEW n \in Nat, Typed(n)  PROVE Typed(n + 1)
    <3>1. ASSUME NEW T \in UpTo(n + 1, S), T # {}  PROVE F[T] \in Nat
      <4>1. T \in SUBSET S /\ Cardinality(T) <= n + 1
        BY DEF UpTo
      <4>2. Some(T) \in S /\ T \ {Some(T)} \in UpTo(n, S)
        BY <3>1, <4>1, TakesSome DEF UpTo
      <4>3. g[Some(T)] \in Nat /\ F[T \ {Some(T)}] \in Nat
        BY <2>3, <4>2
      <4>4. F[T] = g[Some(T)] + F[T \ {Some(T)}]
        BY <2>1, <3>1, <4>1
      <4>5. QED
        BY <4>3, <4>4
    <3>2. QED
      BY <2>9, <3>1
  <2> HIDE DEF Typed
  <2>10. 0 \in N /\ \A n \in N : n + 1 \in N
    BY <2>2, <2>3
  <2>4. N = Nat
    BY <2>10, AllNaturals
  <2>5. Typed(Cardinality(S))
    BY <1>1, <2>4
  <2>6. \A T \in SUBSET S : F[T] \in Nat
    BY <1>2, <2>5 DEF Typed
  <2>7. DOMAIN F = SUBSET S /\ F = [T \in SUBSET S |-> F[T]]
    BY <1>4 DEF Adds
  <2>8. QED
    BY <2>6, <2>7
<1>5. QED
  BY <1>3, <1>4

(* Sums are natural numbers, and the table of them is the one that Total   *)
(* reads.                                                                  *)
LEMMA TotalIs ==
  ASSUME NEW S, IsFiniteSet(S), NEW g \in [S -> Nat]
  PROVE  /\ Total(g, S) \in Nat
         /\ \E F \in [SUBSET S -> Nat] :
              Adds(F, g, SUBSET S) /\ Total(g, S) = F[S]
<1> DEFINE F == CHOOSE X : Adds(X, g, SUBSET S)
<1>1. \E X : Adds(X, g, SUBSET S)
  BY TotalAdds
<1>2. Adds(F, g, SUBSET S)
  BY <1>1, Zenon
<1>3. Total(g, S) = F[S]
  BY Zenon DEF Total
<1> HIDE DEF F
<1>4. F \in [SUBSET S -> Nat]
  BY <1>2, TotalAdds
<1>5. S \in SUBSET S
  OBVIOUS
<1>6. QED
  BY <1>2, <1>3, <1>4, <1>5

LEMMA TotalOfZeros ==
  ASSUME NEW S, IsFiniteSet(S), NEW g \in [S -> Nat], \A j \in S : g[j] = 0
  PROVE  Total(g, S) = 0
<1>1. PICK F \in [SUBSET S -> Nat] :
             Adds(F, g, SUBSET S) /\ Total(g, S) = F[S]
  BY TotalIs
<1>2. \A T \in SUBSET S :
        F[T] = IF T = {} THEN 0 ELSE g[Some(T)] + F[T \ {Some(T)}]
  BY <1>1 DEF Adds
<1> DEFINE Empty(n) == \A T \in UpTo(n, S) : F[T] = 0
           N == {n \in Nat : Empty(n)}
<1>3. F[{}] = 0
  <2>1. {} \in SUBSET S
    OBVIOUS
  <2>2. QED
    BY <1>2, <2>1
<1>4. \A T \in UpTo(0, S) : T = {}
  BY NothingUpToZero
<1>5. Empty(0)
  BY <1>3, <1>4
<1>6. ASSUME NEW n \in Nat, Empty(n)  PROVE Empty(n + 1)
  <2>1. ASSUME NEW T \in UpTo(n + 1, S), T # {}  PROVE F[T] = 0
    <3>1. T \in SUBSET S /\ Cardinality(T) <= n + 1
      BY DEF UpTo
    <3>2. Some(T) \in S /\ T \ {Some(T)} \in UpTo(n, S)
      BY <2>1, <3>1, TakesSome DEF UpTo
    <3>3. g[Some(T)] = 0 /\ F[T \ {Some(T)}] = 0
      BY <1>6, <3>2
    <3>4. F[T] = g[Some(T)] + F[T \ {Some(T)}]
      BY <1>2, <2>1, <3>1
    <3>5. QED
      BY <3>3, <3>4
  <2>2. QED
    BY <1>3, <2>1
<1> HIDE DEF Empty
<1>7. 0 \in N /\ \A n \in N : n + 1 \in N
  BY <1>5, <1>6
<1>8. N = Nat
  BY <1>7, AllNaturals
<1>9. Empty(Cardinality(S)) /\ UpTo(Cardinality(S), S) = SUBSET S
  BY <1>8, AllUpToSize
<1>10. S \in SUBSET S
  OBVIOUS
<1>11. QED
  BY <1>1, <1>9, <1>10 DEF Empty

(* A sum changes by what one of its summands changes.                      *)
LEMMA TotalChanges ==
  ASSUME NEW S, IsFiniteSet(S), NEW g \in [S -> Nat],
         NEW i \in S, NEW v \in Nat
  PROVE  Total([g EXCEPT ![i] = v], S) + g[i] = Total(g, S) + v
<1> DEFINE h == [g EXCEPT ![i] = v]
<1>1. h \in [S -> Nat] /\ h[i] = v /\ \A j \in S \ {i} : h[j] = g[j]
  OBVIOUS
<1> HIDE DEF h
<1>2. PICK F \in [SUBSET S -> Nat] :
             Adds(F, g, SUBSET S) /\ Total(g, S) = F[S]
  BY TotalIs
<1>3. PICK G \in [SUBSET S -> Nat] :
             Adds(G, h, SUBSET S) /\ Total(h, S) = G[S]
  BY <1>1, TotalIs
<1>4. \A T \in SUBSET S :
        F[T] = IF T = {} THEN 0 ELSE g[Some(T)] + F[T \ {Some(T)}]
  BY <1>2 DEF Adds
<1>5. \A T \in SUBSET S :
        G[T] = IF T = {} THEN 0 ELSE h[Some(T)] + G[T \ {Some(T)}]
  BY <1>3 DEF Adds
<1> DEFINE Moved(T) == IF i \in T THEN G[T] + g[i] = F[T] + v ELSE G[T] = F[T]
           AllMoved(n) == \A T \in UpTo(n, S) : Moved(T)
           N == {n \in Nat : AllMoved(n)}
<1>6. Moved({})
  <2>1. {} \in SUBSET S
    OBVIOUS
  <2>2. QED
    BY <1>4, <1>5, <2>1
<1>7. \A T \in UpTo(0, S) : T = {}
  BY NothingUpToZero
<1>8. AllMoved(0)
  BY <1>6, <1>7
<1>9. ASSUME NEW n \in Nat, AllMoved(n)  PROVE AllMoved(n + 1)
  <2>1. ASSUME NEW T \in UpTo(n + 1, S), T # {}  PROVE Moved(T)
    <3> DEFINE x == Some(T)
               R == T \ {x}
    <3>1. T \in SUBSET S /\ Cardinality(T) <= n + 1
      BY DEF UpTo
    <3>2. x \in S /\ x \in T /\ R \in UpTo(n, S) /\ R \in SUBSET S
      BY <2>1, <3>1, TakesSome DEF UpTo
    <3>3. F[T] = g[x] + F[R] /\ G[T] = h[x] + G[R]
      BY <1>4, <1>5, <2>1, <3>1
    <3>4. Moved(R)
      BY <1>9, <3>2
    <3>5. /\ F[R] \in Nat /\ G[R] \in Nat /\ F[T] \in Nat /\ G[T] \in Nat
          /\ g[x] \in Nat /\ h[x] \in Nat /\ g[i] \in Nat
      BY <1>1, <1>2, <1>3, <3>1, <3>2
    <3>6. CASE x = i
      <4>1. i \notin R /\ i \in T
        BY <3>2, <3>6
      <4>2. G[R] = F[R] /\ h[x] = v /\ g[x] = g[i]
        BY <1>1, <3>4, <3>6, <4>1
      <4>3. \A a, b \in Nat : (v + a) + b = (b + a) + v
        OBVIOUS
      <4>4. (v + F[R]) + g[i] = (g[i] + F[R]) + v
        BY <3>5, <4>3
      <4>5. QED
        BY <3>3, <4>1, <4>2, <4>4
    <3>7. CASE x # i /\ i \in T
      <4>1. i \in R /\ h[x] = g[x]
        BY <1>1, <3>2, <3>7
      <4>2. G[R] + g[i] = F[R] + v
        BY <3>4, <4>1
      <4>3. \A a, b, c, d \in Nat : a + b = c + v => (d + a) + b = (d + c) + v
        OBVIOUS
      <4>4. (g[x] + G[R]) + g[i] = (g[x] + F[R]) + v
        BY <3>5, <4>2, <4>3
      <4>5. QED
        BY <3>3, <3>7, <4>1, <4>4
    <3>8. CASE i \notin T
      <4>1. i \notin R /\ h[x] = g[x]
        BY <1>1, <3>2, <3>8
      <4>2. QED
        BY <3>3, <3>4, <3>8, <4>1
    <3>9. QED
      BY <3>6, <3>7, <3>8
  <2>2. QED
    BY <1>6, <2>1
<1> HIDE DEF AllMoved
<1>10. 0 \in N /\ \A n \in N : n + 1 \in N
  BY <1>8, <1>9
<1>11. N = Nat
  BY <1>10, AllNaturals
<1>12. AllMoved(Cardinality(S)) /\ UpTo(Cardinality(S), S) = SUBSET S
  BY <1>11, AllUpToSize
<1>13. S \in SUBSET S
  OBVIOUS
<1>14. Moved(S)
  BY <1>12, <1>13 DEF AllMoved
<1>15. QED
  BY <1>2, <1>3, <1>14 DEF h
-----------------------------------------------------------------------------
(***************************************************************************)
(* The costs in the table were charged.  A step of a batch leaves the      *)
(* costs of the rows alone and adds to what is pending no more than it     *)
(* spends, or it records what is pending.                                  *)
(***************************************************************************)
LEMMA PendingIs ==
  ASSUME NEW m \in Memory
  PROVE  /\ Pending(m) \in Nat
         /\ m.pc = "update" => Pending(m) = 0
         /\ m.pc = "save" => Pending(m) = m.cost
         /\ m.pc # "update" => m.cost <= Pending(m)
         /\ m.pc \notin {"enhance", "poll", "output"} => Pending(m) <= m.cost
         /\ m.pc = "enhance" =>
              Pending(m) = m.cost + (IF m.source = "dalle" THEN DalleCost ELSE 0)
         /\ m.pc \in {"poll", "output"} => Pending(m) = m.cost + ReplicateCost
<1>1. m.cost \in Nat
  BY DEF Memory
<1>2. QED
  BY <1>1, CostAssumption DEF Pending

SameCosts == \A i \in Items : row'[i].cost = row[i].cost
Charges(b, m) ==
  /\ SameCosts
  /\ Pending(m) + count.spent <= Pending(mem[b]) + count'.spent
Records(b, m) ==
  /\ mem[b].pc = "save" /\ row' = [row EXCEPT ![mem[b].item] = Saved(b)]
  /\ Pending(m) = 0 /\ count'.spent = count.spent
Pays(b, m) == Charges(b, m) \/ Records(b, m)

LEMMA GoesIs ==
  ASSUME TypeInv, NEW c \in Callers, NEW m, NEW n, Goes(c, m), Goes(c, n)
  PROVE  m = n
<1>1. mem'[c] = m /\ mem'[c] = n
  BY DEF Goes, TypeInv, TypeOK
<1>2. QED
  BY <1>1

LEMMA KeepIsSameCosts == Keep => SameCosts
BY DEF Keep, SameCosts

LEMMA FaultSpendsNothing ==
  ASSUME TypeInv, NEW c \in Callers, Fault(c)
  PROVE  count'.spent = count.spent
BY DEF Fault, TypeInv, TypeOK

(* A step that leaves no more pending than there was.                      *)
LEMMA NoMorePends ==
  ASSUME TypeInv, NEW b \in Batches, NEW m \in Memory, SameCosts,
         count'.spent = count.spent,
         m.pc \notin {"enhance", "poll", "output"},
         m.cost = 0 \/ (m.cost = mem[b].cost /\ mem[b].pc # "update")
  PROVE  Pays(b, m)
<1>1. mem[b] \in Memory /\ count.spent \in Nat /\ m.cost \in Nat
      /\ mem[b].cost \in Nat
  BY BatchesAreCallers DEF TypeInv, TypeOK, Memory
<1>2. Pending(m) \in Nat /\ Pending(mem[b]) \in Nat
      /\ Pending(m) <= m.cost /\ m.cost <= Pending(mem[b])
  BY <1>1, PendingIs
<1>3. Pending(m) <= Pending(mem[b])
  BY <1>1, <1>2
<1>4. \A x, y, z \in Nat : x <= y => x + z <= y + z
  OBVIOUS
<1>5. Pending(m) + count.spent <= Pending(mem[b]) + count.spent
  BY <1>1, <1>2, <1>3, <1>4
<1>6. QED
  BY <1>5 DEF Pays, Charges

LEMMA ReleasedPays ==
  ASSUME TypeInv, NEW b \in Batches, NEW m \in Memory, Goes(b, m), SameCosts,
         Goes(b, Released(mem[b])), count'.spent = count.spent
  PROVE  Pays(b, m)
<1>1. b \in Callers /\ mem[b] \in Memory
  BY BatchesAreCallers
<1>2. m = Released(mem[b])
  BY <1>1, GoesIs
<1>3. m.pc = "next" /\ m.cost = 0
  BY <1>1, <1>2 DEF Released, Memory
<1>4. QED
  BY <1>3, NoMorePends

LEMMA IdlePays ==
  ASSUME TypeInv, NEW b \in Batches, NEW m \in Memory, Goes(b, m), SameCosts,
         Goes(b, Idle), count'.spent = count.spent
  PROVE  Pays(b, m)
<1>1. b \in Callers
  BY BatchesAreCallers
<1>2. m = Idle
  BY <1>1, GoesIs
<1>3. m.pc = "idle" /\ m.cost = 0
  BY <1>2 DEF Idle
<1>4. QED
  BY <1>3, NoMorePends

LEMMA ListingPays ==
  ASSUME TypeInv, NEW b \in Batches, NEW m \in Memory, Goes(b, m),
         RunBatch(b) \/ RunOnDemand(b) \/ ListStep(b)
         \/ NextItem(b) \/ EndPage(b)
  PROVE  Pays(b, m)
<1>1. b \in Callers /\ mem[b] \in Memory
  BY BatchesAreCallers, SMTT(30)
<1>2. Keep
  BY DEF RunBatch, RunOnDemand, ListStep, ListPage, GetProductsByIDs,
         NextItem, EndPage
<1>3. SameCosts
  BY <1>2, KeepIsSameCosts
<1>4. CASE RunBatch(b) \/ RunOnDemand(b)
  <2>1. ASSUME RunBatch(b)  PROVE m.cost = 0 /\ m.pc = "list"
    <3>1. PICK n, force :
            Goes(b, [Idle EXCEPT !.pc = "list", !.limit = n, !.force = force])
      BY <2>1, Zenon DEF RunBatch
    <3>2. m = [Idle EXCEPT !.pc = "list", !.limit = n, !.force = force]
      BY <1>1, <3>1, GoesIs
    <3>3. QED
      BY <3>2 DEF Idle
  <2>2. ASSUME RunOnDemand(b)  PROVE m.cost = 0 /\ m.pc = "byIds"
    <3>1. PICK force : Goes(b, [Idle EXCEPT !.pc = "byIds", !.force = force])
      BY <2>2, Zenon DEF RunOnDemand
    <3>2. m = [Idle EXCEPT !.pc = "byIds", !.force = force]
      BY <1>1, <3>1, GoesIs
    <3>3. QED
      BY <3>2 DEF Idle
  <2>3. m.cost = 0 /\ m.pc \in {"list", "byIds"}
    BY <1>4, <2>1, <2>2
  <2>4. count'.spent = count.spent
    BY <1>4 DEF RunBatch, RunOnDemand, TypeInv, TypeOK
  <2>5. QED
    BY <1>3, <2>3, <2>4, NoMorePends
<1>5. CASE ListStep(b) /\ Fault(b)
  <2>1. mem[b].pc \in Listing => Goes(b, Idle)
    BY <1>5, FaultCounts
  <2>2. mem[b].pc \notin Listing => Goes(b, Released(mem[b]))
    BY <1>5, FaultCounts
  <2>3. count'.spent = count.spent
    BY <1>1, <1>5, FaultSpendsNothing
  <2>4. QED
    BY <1>3, <2>1, <2>2, <2>3, IdlePays, ReleasedPays
<1>6. CASE ListPage(b)
  <2>1. PICK page, last :
          \/ Goes(b, Idle)
          \/ Goes(b, [mem[b] EXCEPT !.pc = "next", !.page = page,
                                    !.last = last])
    <3> DEFINE page == PageOf(b)
               last == (Cardinality(page) < PageSize)
    <3>1. Goes(b, IF page = {} THEN Idle
                  ELSE [mem[b] EXCEPT !.pc = "next", !.page = page,
                                      !.last = last])
      BY <1>6, Zenon DEF ListPage, PageOf
    <3> HIDE DEF page, last
    <3>2. QED
      BY <3>1, Zenon
  <2>2. count'.spent = count.spent /\ mem[b].pc = "list"
    BY <1>6 DEF ListPage, CostsNothing
  <2>3. CASE Goes(b, Idle)
    BY <1>3, <2>2, <2>3, IdlePays
  <2>4. CASE Goes(b, [mem[b] EXCEPT !.pc = "next", !.page = page,
                                    !.last = last])
    <3>1. m = [mem[b] EXCEPT !.pc = "next", !.page = page, !.last = last]
      BY <1>1, <2>4, GoesIs
    <3>2. m.cost = mem[b].cost /\ m.pc = "next"
      BY <1>1, <3>1 DEF Memory
    <3>3. QED
      BY <1>3, <2>2, <3>2, NoMorePends
  <2>5. QED
    BY <2>1, <2>3, <2>4
<1>7. CASE GetProductsByIDs(b)
  <2>1. PICK page, n :
          Goes(b, [mem[b] EXCEPT !.pc = "next", !.page = page,
                                 !.last = TRUE, !.limit = n])
    BY <1>7, Zenon DEF GetProductsByIDs
  <2>2. m = [mem[b] EXCEPT !.pc = "next", !.page = page, !.last = TRUE,
                           !.limit = n]
    BY <1>1, <2>1, GoesIs
  <2>3. m.cost = mem[b].cost /\ m.pc = "next"
    BY <1>1, <2>2 DEF Memory
  <2>4. count'.spent = count.spent /\ mem[b].pc = "byIds"
    BY <1>7 DEF GetProductsByIDs, CostsNothing
  <2>5. QED
    BY <1>3, <2>3, <2>4, NoMorePends
<1>8. CASE NextItem(b)
  <2>1. PICK page, i :
          \/ Goes(b, [mem[b] EXCEPT !.page = page])
          \/ Goes(b, [[mem[b] EXCEPT !.page = page]
                        EXCEPT !.pc = "rejected", !.item = i])
    BY <1>8, Zenon DEF NextItem
  <2>2. \/ m = [mem[b] EXCEPT !.page = page]
        \/ m = [[mem[b] EXCEPT !.page = page]
                  EXCEPT !.pc = "rejected", !.item = i]
    BY <1>1, <2>1, GoesIs
  <2>3. mem[b].pc = "next"
    BY <1>8 DEF NextItem
  <2>4. m.cost = mem[b].cost /\ m.pc \in {"next", "rejected"}
    BY <1>1, <2>2, <2>3 DEF Memory
  <2>5. count'.spent = count.spent
    BY <1>8 DEF NextItem, CostsNothing, TypeInv, TypeOK
  <2>6. QED
    BY <1>3, <2>3, <2>4, <2>5, NoMorePends
<1>9. CASE EndPage(b)
  <2>1. PICK n :
          \/ Goes(b, Idle)
          \/ Goes(b, [mem[b] EXCEPT !.pc = "list", !.page = {}, !.offset = n])
    BY <1>9, Zenon DEF EndPage
  <2>2. count'.spent = count.spent /\ mem[b].pc = "next"
    BY <1>9 DEF EndPage, CostsNothing
  <2>3. CASE Goes(b, Idle)
    BY <1>3, <2>2, <2>3, IdlePays
  <2>4. CASE Goes(b, [mem[b] EXCEPT !.pc = "list", !.page = {}, !.offset = n])
    <3>1. m = [mem[b] EXCEPT !.pc = "list", !.page = {}, !.offset = n]
      BY <1>1, <2>4, GoesIs
    <3>2. m.cost = mem[b].cost /\ m.pc = "list"
      BY <1>1, <3>1 DEF Memory
    <3>3. QED
      BY <1>3, <2>2, <3>2, NoMorePends
  <2>5. QED
    BY <2>1, <2>3, <2>4
<1>10. QED
  BY <1>4, <1>5, <1>6, <1>7, <1>8, <1>9 DEF ListStep

LEMMA FindDataPays ==
  ASSUME TypeInv, NEW b \in Batches, NEW m \in Memory, Goes(b, m), FindData(b)
  PROVE  Pays(b, m)
<1>1. b \in Callers /\ mem[b] \in Memory /\ mem[b].pc = "find"
  BY BatchesAreCallers DEF FindData
<1>2. SameCosts
  BY KeepIsSameCosts DEF FindData
<1>3. CASE Goes(b, Released(mem[b])) /\ CostsNothing
  BY <1>2, <1>3, ReleasedPays DEF CostsNothing
<1>4. CASE \E data \in Found(mem[b].item, mem[b].rejected,
                             count.faults < MaxFaults), k \in {0, 1} :
             /\ Goes(b, [mem[b] EXCEPT !.pc = "enhance", !.image = data.image,
                                       !.source = data.source])
             /\ count' = [count EXCEPT
                  !.spent  = @ + (IF data.source = "dalle" THEN DalleCost
                                  ELSE 0),
                  !.faults = @ + k]
  <2>11. PICK data \in Found(mem[b].item, mem[b].rejected,
                             count.faults < MaxFaults), k \in {0, 1} :
             /\ Goes(b, [mem[b] EXCEPT !.pc = "enhance", !.image = data.image,
                                       !.source = data.source])
             /\ count' = [count EXCEPT
                  !.spent  = @ + (IF data.source = "dalle" THEN DalleCost
                                  ELSE 0),
                  !.faults = @ + k]
    BY <1>4
  <2> DEFINE x == data.image
             s == data.source
             cost == IF s = "dalle" THEN DalleCost ELSE 0
  <2>1. /\ Goes(b, [mem[b] EXCEPT !.pc = "enhance", !.image = x,
                                  !.source = s])
        /\ count' = [count EXCEPT !.spent = @ + cost, !.faults = @ + k]
    BY <2>11
  <2> HIDE DEF x, s
  <2>2. m = [mem[b] EXCEPT !.pc = "enhance", !.image = x, !.source = s]
    BY <1>1, <2>1, GoesIs
  <2>3. m.pc = "enhance" /\ m.cost = mem[b].cost /\ m.source = s
    BY <1>1, <2>2 DEF Memory
  <2>4. count'.spent = count.spent + cost
    BY <2>1 DEF TypeInv, TypeOK
  <2>5. Pending(m) = mem[b].cost + cost
    BY <2>3, PendingIs
  <2>6. Pending(mem[b]) \in Nat /\ mem[b].cost <= Pending(mem[b])
    BY <1>1, PendingIs
  <2>7. cost \in Nat /\ mem[b].cost \in Nat /\ count.spent \in Nat
    BY <1>1, CostAssumption DEF Memory, TypeInv, TypeOK
  <2> HIDE DEF cost
  <2>8. \A n, p \in Nat : n <= p =>
          (n + cost) + count.spent <= p + (count.spent + cost)
    BY <2>7
  <2>9. (mem[b].cost + cost) + count.spent
          <= Pending(mem[b]) + (count.spent + cost)
    BY <2>6, <2>7, <2>8
  <2>10. QED
    BY <1>2, <2>4, <2>5, <2>9 DEF Pays, Charges
<1>5. ASSUME NEW data \in Found(mem[b].item, mem[b].rejected,
                                count.faults < MaxFaults),
             NEW D,
             Goes(b, [mem[b] EXCEPT !.pc = "enhance", !.image = data.image,
                                    !.source = data.source]),
             count' = [count EXCEPT
               !.spent  = @ + (IF data.source = "dalle" THEN DalleCost ELSE 0),
               !.faults = @ + (IF data \in D THEN 0 ELSE 1)]
      PROVE  Pays(b, m)
  <2>1. PICK k \in {0, 1} : k = IF data \in D THEN 0 ELSE 1
    OBVIOUS
  <2>2. QED
    BY <1>4, <1>5, <2>1
<1>6. QED
  BY <1>3, <1>5, Zenon DEF FindData

LEMMA WorkPays ==
  ASSUME TypeInv, NEW b \in Batches, NEW m \in Memory, Goes(b, m),
         ReadRejected(b) \/ Enhance(b) \/ CreatePrediction(b)
         \/ PollPrediction(b) \/ DownloadOutput(b) \/ Upload(b)
  PROVE  Pays(b, m)
<1>1. b \in Callers /\ mem[b] \in Memory /\ mem[b].cost \in Nat
  BY BatchesAreCallers DEF Memory
<1>2. SameCosts
  BY KeepIsSameCosts DEF ReadRejected, Enhance, CreatePrediction,
     PollPrediction, DownloadOutput, Upload, SameCosts
<1>3. CASE count'.spent = count.spent /\ Pending(m) <= Pending(mem[b])
  <2>1. /\ Pending(m) \in Nat /\ Pending(mem[b]) \in Nat
        /\ count.spent \in Nat
    BY <1>1, PendingIs DEF TypeInv, TypeOK
  <2>2. \A x, y, z \in Nat : x <= y => x + z <= y + z
    OBVIOUS
  <2>3. Pending(m) + count.spent <= Pending(mem[b]) + count.spent
    BY <1>3, <2>1, <2>2
  <2>4. QED
    BY <1>2, <1>3, <2>3 DEF Pays, Charges
<1>4. CASE ReadRejected(b)
  <2>1. PICK x : Goes(b, [mem[b] EXCEPT !.pc = "find", !.rejected = x])
    BY <1>4, Zenon DEF ReadRejected
  <2>2. m = [mem[b] EXCEPT !.pc = "find", !.rejected = x]
    BY <1>1, <2>1, GoesIs
  <2>3. m.pc = "find" /\ m.cost = mem[b].cost
    BY <1>1, <2>2 DEF Memory
  <2>4. mem[b].pc = "rejected" /\ count'.spent = count.spent
    BY <1>4 DEF ReadRejected, CostsNothing
  <2>5. QED
    BY <1>2, <2>3, <2>4, NoMorePends
<1>5. CASE Enhance(b)
  <2>1. mem[b].pc = "enhance" /\ count'.spent = count.spent
    BY <1>5 DEF Enhance, CostsNothing
  <2>2. CASE IsDirty(mem[b].source)
    <3>1. PICK pc \in {"predict", "upload"} : GoesTo(b, pc)
      BY <1>5, <2>2 DEF Enhance
    <3>2. m = [mem[b] EXCEPT !.pc = pc]
      BY <1>1, <3>1, GoesToGoes, GoesIs
    <3>3. m.pc \in {"predict", "upload"} /\ m.cost = mem[b].cost
      BY <1>1, <3>1, <3>2 DEF Memory
    <3>4. QED
      BY <1>2, <2>1, <3>3, NoMorePends
  <2>3. CASE ~IsDirty(mem[b].source)
    <3> DEFINE cost == IF mem[b].source = "dalle" THEN DalleCost ELSE 0
    <3>1. Goes(b, [mem[b] EXCEPT !.pc = "upload", !.cost = cost])
      BY <1>5, <2>3 DEF Enhance
    <3>2. m = [mem[b] EXCEPT !.pc = "upload", !.cost = cost]
      BY <1>1, <3>1, GoesIs
    <3>3. Pending(mem[b]) = mem[b].cost + cost
      BY <1>1, <2>1, PendingIs
    <3>4. cost \in Nat
      BY CostAssumption
    <3> HIDE DEF cost
    <3>5. m.pc = "upload" /\ m.cost = cost
      BY <1>1, <3>2 DEF Memory
    <3>6. Pending(m) <= cost /\ Pending(m) \in Nat
      BY <3>5, PendingIs
    <3>7. Pending(m) <= Pending(mem[b])
      BY <1>1, <3>3, <3>4, <3>6
    <3>8. QED
      BY <1>3, <2>1, <3>7
  <2>4. QED
    BY <2>2, <2>3
<1>6. CASE CreatePrediction(b)
  <2>1. /\ mem[b].pc = "predict" /\ GoesTo(b, "poll")
        /\ Spends(ReplicateCost)
    BY <1>6 DEF CreatePrediction
  <2>2. m = [mem[b] EXCEPT !.pc = "poll"]
    BY <1>1, <2>1, GoesToGoes, GoesIs
  <2>3. m.pc = "poll" /\ m.cost = mem[b].cost
    BY <1>1, <2>2 DEF Memory
  <2>4. Pending(m) = mem[b].cost + ReplicateCost
    BY <2>3, PendingIs
  <2>5. Pending(mem[b]) \in Nat /\ mem[b].cost <= Pending(mem[b])
    BY <1>1, <2>1, PendingIs
  <2>6. count'.spent = count.spent + ReplicateCost /\ count.spent \in Nat
    BY <2>1 DEF Spends, TypeInv, TypeOK
  <2>7. \A n, p, s, r \in Nat : n <= p => (n + r) + s <= p + (s + r)
    OBVIOUS
  <2>8. (mem[b].cost + ReplicateCost) + count.spent
          <= Pending(mem[b]) + (count.spent + ReplicateCost)
    BY <1>1, <2>5, <2>6, <2>7, CostAssumption
  <2>9. QED
    BY <1>2, <2>4, <2>6, <2>8 DEF Pays, Charges
<1>7. CASE PollPrediction(b)
  <2>1. mem[b].pc = "poll" /\ count'.spent = count.spent
    BY <1>7 DEF PollPrediction, CostsNothing
  <2>2. ASSUME Goes(b, [mem[b] EXCEPT !.polls = @ + 1])
        PROVE  m.pc = "poll" /\ m.cost = mem[b].cost
    <3> DEFINE n == mem[b].polls + 1
    <3>1. Goes(b, [mem[b] EXCEPT !.polls = n])
      BY <1>1, <2>2 DEF Memory
    <3> HIDE DEF n
    <3>2. m = [mem[b] EXCEPT !.polls = n]
      BY <1>1, <3>1, GoesIs
    <3>3. m.pc = "poll" /\ m.cost = mem[b].cost
      BY <1>1, <2>1, <3>2 DEF Memory
    <3>4. QED
      BY <3>3
  <2>3. ASSUME \E pc \in {"output", "upload"} :
                 Goes(b, [mem[b] EXCEPT !.pc = pc, !.polls = 0])
        PROVE  m.pc \in {"output", "upload"} /\ m.cost = mem[b].cost
    <3>1. PICK pc \in {"output", "upload"} :
            Goes(b, [mem[b] EXCEPT !.pc = pc, !.polls = 0])
      BY <2>3
    <3>2. m = [mem[b] EXCEPT !.pc = pc, !.polls = 0]
      BY <1>1, <3>1, GoesIs
    <3>3. m.pc = pc /\ m.cost = mem[b].cost
      BY <1>1, <3>2 DEF Memory
    <3>4. QED
      BY <3>1, <3>3
  <2>4. m.pc \in {"poll", "output", "upload"} /\ m.cost = mem[b].cost
    BY <1>7, <2>2, <2>3 DEF PollPrediction
  <2>5. Pending(mem[b]) = mem[b].cost + ReplicateCost
    BY <1>1, <2>1, PendingIs
  <2>6. CASE m.pc \in {"poll", "output"}
    <3>1. Pending(m) = Pending(mem[b]) /\ Pending(m) \in Nat
      BY <2>4, <2>5, <2>6, PendingIs
    <3>2. QED
      BY <1>3, <2>1, <3>1
  <2>7. CASE m.pc = "upload"
    BY <1>2, <2>1, <2>4, <2>7, NoMorePends
  <2>8. QED
    BY <2>4, <2>6, <2>7
<1>8. CASE DownloadOutput(b)
  <2>1. PICK cost \in {ReplicateCost, 0} :
          Goes(b, [mem[b] EXCEPT !.pc = "upload", !.cost = cost])
    BY <1>8 DEF DownloadOutput
  <2>2. mem[b].pc = "output" /\ count'.spent = count.spent
    BY <1>8 DEF DownloadOutput, CostsNothing
  <2>3. m = [mem[b] EXCEPT !.pc = "upload", !.cost = cost]
    BY <1>1, <2>1, GoesIs
  <2>4. m.pc = "upload" /\ m.cost = cost
    BY <1>1, <2>3 DEF Memory
  <2>5. Pending(m) <= cost /\ Pending(m) \in Nat
    BY <2>4, PendingIs
  <2>6. Pending(mem[b]) = mem[b].cost + ReplicateCost
    BY <1>1, <2>2, PendingIs
  <2>7. Pending(m) <= Pending(mem[b])
    BY <1>1, <2>1, <2>5, <2>6, CostAssumption
  <2>8. QED
    BY <1>3, <2>2, <2>7
<1>9. CASE Upload(b)
  <2>1. mem[b].pc = "upload" /\ GoesTo(b, "save") /\ count'.spent = count.spent
    BY <1>9 DEF Upload, CostsNothing
  <2>2. m = [mem[b] EXCEPT !.pc = "save"]
    BY <1>1, <2>1, GoesToGoes, GoesIs
  <2>3. m.pc = "save" /\ m.cost = mem[b].cost
    BY <1>1, <2>2 DEF Memory
  <2>4. QED
    BY <1>2, <2>1, <2>3, NoMorePends
<1>10. QED
  BY <1>4, <1>5, <1>6, <1>7, <1>8, <1>9

LEMMA EndPays ==
  ASSUME TypeInv, NEW b \in Batches, NEW m \in Memory, Goes(b, m),
         SaveResolution(b) \/ UpdatePIM(b) \/ ItemFails(b)
  PROVE  Pays(b, m)
<1>1. b \in Callers /\ mem[b] \in Memory /\ mem[b].cost \in Nat
  BY BatchesAreCallers DEF Memory
<1>2. CASE SaveResolution(b)
  <2>1. /\ mem[b].pc = "save" /\ GoesTo(b, "update")
        /\ count'.spent = count.spent
        /\ row' = [row EXCEPT ![mem[b].item] = Saved(b)]
    BY <1>2, SaveSaves DEF SaveResolution, CostsNothing
  <2>2. m = [mem[b] EXCEPT !.pc = "update"]
    BY <1>1, <2>1, GoesToGoes, GoesIs
  <2>3. m.pc = "update"
    BY <1>1, <2>2 DEF Memory
  <2>4. Pending(m) = 0
    BY <2>3, PendingIs
  <2>5. QED
    BY <2>1, <2>4 DEF Pays, Records
<1>3. CASE UpdatePIM(b)
  <2>1. PICK n : Goes(b, [Released(mem[b]) EXCEPT !.done = n])
    BY <1>3 DEF UpdatePIM
  <2>2. m = [Released(mem[b]) EXCEPT !.done = n]
    BY <1>1, <2>1, GoesIs
  <2>3. m.pc = "next" /\ m.cost = 0
    BY <1>1, <2>2 DEF Released, Memory
  <2>4. SameCosts /\ count'.spent = count.spent
    BY <1>3 DEF UpdatePIM, SameCosts, CostsNothing
  <2>5. QED
    BY <2>3, <2>4, NoMorePends
<1>4. CASE ItemFails(b)
  <2>1. Goes(b, Released(mem[b])) /\ count'.spent = count.spent
    <3>1. mem[b].pc \notin Listing
      BY <1>4 DEF ItemFails, Listing
    <3>2. Fault(b)
      BY <1>4 DEF ItemFails
    <3>3. QED
      BY <1>1, <3>1, <3>2, FaultCounts, FaultSpendsNothing
  <2>2. CASE SameCosts
    BY <2>1, <2>2, ReleasedPays
  <2>3. CASE mem[b].pc = "save"
             /\ Save(mem[b].item, mem[b].image, mem[b].cost)
    <3>1. row' = [row EXCEPT ![mem[b].item] = Saved(b)]
      BY <2>3, SaveSaves
    <3>2. m = Released(mem[b])
      BY <1>1, <2>1, GoesIs
    <3>3. m.pc = "next" /\ m.cost = 0
      BY <1>1, <3>2 DEF Released, Memory
    <3>4. Pending(m) \in Nat /\ Pending(m) <= 0
      BY <3>3, PendingIs
    <3>5. Pending(m) = 0
      BY <3>4
    <3>6. QED
      BY <2>1, <2>3, <3>1, <3>5 DEF Pays, Records
  <2>4. QED
    BY <1>4, <2>2, <2>3 DEF ItemFails, Keep, SameCosts
<1>5. QED
  BY <1>2, <1>3, <1>4

LEMMA BatchPays ==
  ASSUME TypeInv, NEW b \in Batches, NEW m \in Memory, Goes(b, m),
         RunBatch(b) \/ RunOnDemand(b) \/ BatchStep(b)
  PROVE  Pays(b, m)
BY ListingPays, FindDataPays, WorkPays, EndPays DEF BatchStep, ProcessItem

LEMMA RejecterKeepsCosts ==
  ASSUME TypeInv, NEW r \in Rejecters, RejectStep(r)
  PROVE  /\ SameCosts /\ count'.spent = count.spent
         /\ \E m \in Memory : Goes(r, m)
<1>1. PICK m \in Memory : Goes(r, m) /\ RejecterMove(r, m)
  BY RejecterMoves DEF LooksOn
<1>2. SameCosts
  <2>1. CASE row' = row
    BY <2>1 DEF SameCosts
  <2>2. CASE row' = [row EXCEPT ![mem[r].item] = Struck(r)]
    <3>1. row \in [Items -> Row]
      BY DEF TypeInv, TypeOK
    <3>2. Struck(r).cost = row[mem[r].item].cost \/ mem[r].item \notin Items
      BY <3>1 DEF Struck, Row
    <3>3. QED
      BY <2>2, <3>1, <3>2 DEF SameCosts
  <2>3. QED
    BY <1>1, <2>1, <2>2
       DEF RejecterMove, Looks, Strikes, Clears, Stops, Keep
<1>3. count'.spent = count.spent
  <2>1. CASE Fault(r)
    BY <2>1, FaultSpendsNothing DEF Callers
  <2>2. CASE count' = count \/ count' = [count EXCEPT !.rejections = @ + 1]
    BY <2>2 DEF TypeInv, TypeOK
  <2>3. QED
    BY <2>1, <2>2 DEF RejectStep, ReadCurrent, WriteRejection, ClearPIM,
                      RejectFails, CostsNothing
<1>4. QED
  BY <1>1, <1>2, <1>3

LEMMA TablesAreTyped ==
  ASSUME TypeInv
  PROVE  /\ Costs \in [Items -> Nat] /\ IsFiniteSet(Items)
         /\ Pendings \in [Batches -> Nat] /\ IsFiniteSet(Batches)
<1>1. \A i \in Items : row[i].cost \in Nat
  BY DEF TypeInv, TypeOK, Row
<1>2. \A b \in Batches : Pending(mem[b]) \in Nat
  BY BatchesAreCallers, PendingIs
<1>3. IsFiniteSet(Batches)
  <2>1. Batches \in SUBSET Callers /\ IsFiniteSet(Callers)
    BY EnrichmentAssumption DEF Callers
  <2>2. QED
    BY <2>1, FS_Subset
<1>4. QED
  BY <1>1, <1>2, <1>3, EnrichmentAssumption DEF Costs, Pendings

(* The sums after a step, of the tables after it.                          *)
LEMMA SumsLater ==
  /\ Total(Costs, Items)' = Total(Costs', Items)
  /\ Total(Pendings, Batches)' = Total(Pendings', Batches)
BY DEF Total, Adds

LEMMA CostBatch ==
  ASSUME TypeInv, CostInv, NEW b \in Batches, NEW m \in Memory, Goes(b, m),
         Pays(b, m), count'.spent \in Nat
  PROVE  Total(Costs', Items) + Total(Pendings', Batches) <= count'.spent
<1>1. /\ Costs \in [Items -> Nat] /\ IsFiniteSet(Items)
      /\ Pendings \in [Batches -> Nat] /\ IsFiniteSet(Batches)
  BY TablesAreTyped
<1> DEFINE C == Total(Costs, Items)
           P == Total(Pendings, Batches)
           p == Pending(mem[b])
           q == Pending(m)
           s == count.spent
<1>2. C \in Nat /\ P \in Nat
  BY <1>1, TotalIs
<1>3. p \in Nat /\ q \in Nat /\ s \in Nat
  BY BatchesAreCallers, PendingIs DEF TypeInv, TypeOK
<1>4. C + P <= s
  BY DEF CostInv
<1>5. Pendings' = [Pendings EXCEPT ![b] = q]
  BY BatchesAreCallers DEF Pendings, Goes
<1>6. Pendings[b] = p
  BY DEF Pendings
<1>7. Total([Pendings EXCEPT ![b] = q], Batches) + p = P + q
  <2>1. Total([Pendings EXCEPT ![b] = q], Batches) + Pendings[b] = P + q
    BY <1>1, <1>3, TotalChanges
  <2>2. QED
    BY <1>6, <2>1
<1>8. Total([Pendings EXCEPT ![b] = q], Batches) \in Nat
  <2>1. [Pendings EXCEPT ![b] = q] \in [Batches -> Nat]
    BY <1>1, <1>3
  <2>2. QED
    BY <1>1, <2>1, TotalIs
<1> DEFINE Q == Total([Pendings EXCEPT ![b] = q], Batches)
<1>9. CASE Charges(b, m)
  <2>1. Costs' = Costs
    BY <1>9 DEF Charges, SameCosts, Costs
  <2>2. q + s <= p + count'.spent
    BY <1>9 DEF Charges
  <2> HIDE DEF C, P, p, q, s, Q
  <2>3. \A t, u \in Nat : u + p = P + q /\ q + s <= p + t => C + u <= t
    BY <1>2, <1>3, <1>4
  <2>4. C + Q <= count'.spent
    BY <1>7, <1>8, <2>2, <2>3 DEF Q
  <2>5. QED
    BY <1>5, <2>1, <2>4 DEF C, Q
<1>10. CASE Records(b, m)
  <2> DEFINE i == mem[b].item
             n == mem[b].cost
             old == row[i].cost
  <2>1. i \in Items /\ mem[b].pc = "save" /\ n \in Nat /\ p = n
    <3>1. mem[b] \in Memory /\ mem[b].pc = "save"
      BY <1>10, BatchesAreCallers DEF Records
    <3>2. QED
      BY <3>1, ChosenIs, PendingIs DEF Chosen, Memory
  <2>2. row \in [Items -> Row] /\ row' = [row EXCEPT ![i] = Saved(b)]
    BY <1>10 DEF Records, TypeInv, TypeOK
  <2>3. Saved(b).cost = n
    BY <2>1, <2>2 DEF Saved, Row
  <2>4. q = 0 /\ count'.spent = s
    BY <1>10 DEF Records
  <2>5. Costs[i] = old /\ old \in Nat
    BY <2>1, <2>2 DEF Costs, Row
  <2> HIDE DEF i, n, old, C, P, p, q, s, Q
  <2>6. Costs' = [Costs EXCEPT ![i] = n]
    BY <2>1, <2>2, <2>3 DEF Costs
  <2> DEFINE D == Total([Costs EXCEPT ![i] = n], Items)
  <2>7. D + old = C + n
    <3>1. D + Costs[i] = C + n
      BY <1>1, <2>1, TotalChanges DEF C
    <3>2. QED
      BY <2>5, <3>1
  <2>8. D \in Nat
    <3>1. [Costs EXCEPT ![i] = n] \in [Items -> Nat]
      BY <1>1, <2>1
    <3>2. QED
      BY <1>1, <3>1, TotalIs
  <2>9. Q + p = P + q /\ Q \in Nat
    BY <1>7, <1>8 DEF Q
  <2> HIDE DEF D
  <2>10. D + Q <= s
    BY <1>2, <1>3, <1>4, <2>1, <2>4, <2>5, <2>7, <2>8, <2>9
  <2>11. QED
    BY <1>5, <2>4, <2>6, <2>10 DEF D, Q
<1>11. QED
  BY <1>9, <1>10 DEF Pays

(* A request to reject an image, and the end of the process, leave the     *)
(* costs alone and leave no more pending.                                  *)
LEMMA CostElsewhere ==
  ASSUME TypeInv, CostInv, SameCosts, count'.spent = count.spent,
         \/ \E r \in Rejecters, m \in Memory : Goes(r, m)
         \/ mem' = [c \in Callers |-> Idle]
         \/ mem' = mem
  PROVE  Total(Costs', Items) + Total(Pendings', Batches) <= count'.spent
<1>1. Costs' = Costs
  BY DEF SameCosts, Costs
<1>2. /\ Costs \in [Items -> Nat] /\ IsFiniteSet(Items)
      /\ Pendings \in [Batches -> Nat] /\ IsFiniteSet(Batches)
  BY TablesAreTyped
<1>3. Total(Costs, Items) \in Nat /\ Total(Pendings, Batches) \in Nat
      /\ count.spent \in Nat
  BY <1>2, TotalIs DEF TypeInv, TypeOK
<1>4. CASE \A b \in Batches : mem'[b] = mem[b]
  <2>1. Pendings' = Pendings
    BY <1>4 DEF Pendings
  <2>2. QED
    BY <1>1, <2>1 DEF CostInv
<1>5. CASE mem' = [c \in Callers |-> Idle]
  <2>1. \A b \in Batches : Pendings'[b] = 0
    <3>1. Pending(Idle) = 0
      BY DEF Pending, Idle
    <3>2. QED
      BY <1>5, <3>1 DEF Pendings, Callers
  <2>2. Pendings' \in [Batches -> Nat]
    <3>1. Pendings' = [b \in Batches |-> Pendings'[b]]
      BY DEF Pendings
    <3> DEFINE h == Pendings'
    <3>2. h = [b \in Batches |-> h[b]] /\ \A b \in Batches : h[b] = 0
      BY <2>1, <3>1
    <3> HIDE DEF h
    <3>3. h \in [Batches -> Nat]
      BY <3>2
    <3>4. QED
      BY <3>3 DEF h
  <2>3. Total(Pendings', Batches) = 0
    BY <1>2, <2>1, <2>2, TotalOfZeros
  <2>4. QED
    BY <1>1, <1>3, <2>3 DEF CostInv
<1>6. (\E r \in Rejecters, m \in Memory : Goes(r, m))
        => \A b \in Batches : mem'[b] = mem[b]
  BY BatchesAreCallers DEF Goes
<1>7. QED
  BY <1>4, <1>5, <1>6

LEMMA CostSteps == TypeInv /\ CostInv /\ [Next]_vars => CostInv'
<1> SUFFICES ASSUME TypeInv, CostInv, [Next]_vars  PROVE CostInv'
  OBVIOUS
<1>1. SUFFICES Total(Costs', Items) + Total(Pendings', Batches) <= count'.spent
  BY SumsLater DEF CostInv
<1>2. CASE UNCHANGED vars
  BY <1>2, CostElsewhere DEF vars, SameCosts
<1>3. CASE Next
  <2>1. ASSUME NEW b \in Batches, RunBatch(b) \/ RunOnDemand(b) \/ BatchStep(b)
        PROVE  Total(Costs', Items) + Total(Pendings', Batches) <= count'.spent
    <3>1. PICK m \in Memory : Goes(b, m)
      BY <2>1, BatchMoves DEF GoesOn
    <3>2. Pays(b, m)
      BY <2>1, <3>1, BatchPays
    <3>3. count'.spent \in Nat
      BY <1>3, CountStays DEF Next, Counts
    <3>4. QED
      BY <3>1, <3>2, <3>3, CostBatch
  <2>2. ASSUME NEW r \in Rejecters, RejectStep(r)
        PROVE  Total(Costs', Items) + Total(Pendings', Batches) <= count'.spent
    BY <2>2, RejecterKeepsCosts, CostElsewhere
  <2>3. CASE Crash
    <3>1. SameCosts /\ count'.spent = count.spent
      BY <2>3, KeepIsSameCosts DEF Crash, TypeInv, TypeOK
    <3>2. QED
      BY <2>3, <3>1, CostElsewhere DEF Crash
  <2>4. QED
    BY <1>3, <2>1, <2>2, <2>3, Zenon DEF Next, Step
<1>4. QED
  BY <1>2, <1>3

LEMMA CostInit == Init => CostInv
<1>1. SUFFICES ASSUME Init  PROVE CostInv
  OBVIOUS
<1>2. TypeInv
  BY <1>1, TypeInit
<1>3. /\ Costs \in [Items -> Nat] /\ IsFiniteSet(Items)
      /\ Pendings \in [Batches -> Nat] /\ IsFiniteSet(Batches)
  BY <1>2, TablesAreTyped
<1>4. \A i \in Items : Costs[i] = 0
  BY <1>1 DEF Init, NoRow, Costs
<1>5. \A b \in Batches : Pendings[b] = 0
  <2>1. Pending(Idle) = 0
    BY DEF Pending, Idle
  <2>2. QED
    BY <1>1, <2>1 DEF Init, Pendings, Callers
<1>6. Total(Costs, Items) = 0 /\ Total(Pendings, Batches) = 0
  BY <1>3, <1>4, <1>5, TotalOfZeros
<1>7. count.spent = 0
  BY <1>1 DEF Init
<1>8. QED
  BY <1>6, <1>7 DEF CostInv

(* The sum of the community modules is the one above.                      *)
LEMMA RecordedIsTotal == RecordedCost = Total(Costs, Items)
<1> DEFINE f == [i \in Items |-> row[i].cost]
<1>1. RecordedCost =
        (CHOOSE F : F = [T \in SUBSET Items |->
           IF T = {} THEN 0
           ELSE row[Some(T)].cost + F[T \ {Some(T)}]])[Items]
  BY Zenon DEF RecordedCost, MapThenSumSet, MapThenFoldSet, Some
<1>2. \A T \in SUBSET Items : T # {} => Some(T) \in Items
  BY DEF Some
<1>3. \A F : F = [T \in SUBSET Items |->
                    IF T = {} THEN 0
                    ELSE row[Some(T)].cost + F[T \ {Some(T)}]]
             <=> Adds(F, Costs, SUBSET Items)
  BY <1>2 DEF Adds, Costs
<1>4. QED
  BY <1>1, <1>3, Zenon DEF Total

(* CostsWereCharged: what the table reports as cost was really charged.    *)
THEOREM CostsCharged == Spec => []CostsWereCharged
<1>1. Spec => [](TypeInv /\ CostInv)
  BY CostInit, TypeInit, TypeStep, CostSteps, PTL DEF Spec
<1>2. TypeInv /\ CostInv => CostsWereCharged
  <2> SUFFICES ASSUME TypeInv, CostInv  PROVE CostsWereCharged
    OBVIOUS
  <2>2. /\ Costs \in [Items -> Nat] /\ IsFiniteSet(Items)
        /\ Pendings \in [Batches -> Nat] /\ IsFiniteSet(Batches)
    BY TablesAreTyped
  <2> DEFINE C == Total(Costs, Items)
             P == Total(Pendings, Batches)
  <2>3. C \in Nat /\ P \in Nat /\ count.spent \in Nat
    BY <2>2, TotalIs DEF TypeInv, TypeOK
  <2>4. C + P <= count.spent
    BY DEF CostInv
  <2> HIDE DEF C, P
  <2>5. C <= count.spent
    BY <2>3, <2>4
  <2>6. QED
    BY <2>5, RecordedIsTotal DEF C, CostsWereCharged
<1>3. QED
  BY <1>1, <1>2, PTL
=============================================================================
