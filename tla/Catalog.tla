------------------------------ MODULE Catalog ------------------------------
(***************************************************************************)
(* How products enter the catalogue: the workers of the pool, each of them *)
(* inside UpsertProductsUseCase, requests that synchronise every pending   *)
(* product with PIM, and requests that block and hide products, over the   *)
(* tables of ProductTable and over PIM, which is another service.          *)
(*                                                                         *)
(* A step is one database call or one call to PIM.  Between two steps a    *)
(* caller works on its own copy of the product.                            *)
(***************************************************************************)
EXTENDS ProductTable

CONSTANTS
  Workers,        \* goroutines that upsert the products of a page
  Syncers,        \* concurrent POST /products/sync-to-pim requests
  Keys, Key,      \* Key[i]: how PIM identifies the product of item i
  Typed,          \* items whose category resolves to a business type
  PageSize,       \* syncPendingPageSize (200)
  MaxIterations,  \* maxIterations (500)
  Faulty,         \* callers whose calls may fail; of all, the process may end
  MaxScrapes,     \* bound: listings the workers handle
  MaxMisses,      \* bound: searches that do not see a product PIM has
  NoItem          \* not an item: an idle caller holds none

Callers == Workers \cup Syncers

ASSUME CatalogAssumption ==
  /\ IsFiniteSet(Callers) /\ Workers \cap Syncers = {}
  /\ Key \in [Items -> Keys]
  /\ Typed \subseteq Items
  /\ PageSize \in Nat \ {0} /\ MaxIterations \in Nat \ {0}
  /\ Faulty \subseteq Callers
  /\ MaxScrapes \in Nat /\ MaxMisses \in Nat
  /\ NoItem \notin Items

VARIABLES
  mem,       \* mem[c]: the step of caller c and the copy it works on
  loop,      \* loop[y]: SyncPending of request y: its page, its iterations
  pim,       \* pim[k]: how many products PIM has for k, one with a type?
  scrapes,   \* listings handled so far, which serves as the clock
  misses,    \* counter that bounds the model
  met,       \* history: items that two workers were busy with at once
  lost       \* history: items of which a price was given up and, by a call
             \* that failed or the end of the process, is never recorded

notes == <<met, lost>>
vars  == <<product, history, classified, replaced,
           mem, loop, pim, scrapes, misses, met, lost>>

(* What a scraper returns for an item.                                     *)
Listing == [price : Prices \cup {NoPrice}, fields : SUBSET Fields]

NoCopy == [price |-> NoPrice, fields |-> {}, blocked |-> FALSE,
           hidden |-> FALSE, synced |-> FALSE, seen |-> 0]

(* old is the price to record; ghost tells that the copy's id is not that  *)
(* of the row; typed that the copy carries a business type.                *)
Steps == {"idle", "saveKnown", "saveNew", "assign", "record",
          "search", "create", "patch", "mark"}
Memory == [pc : Steps, item : Items \cup {NoItem}, copy : Product,
           old : Prices \cup {NoPrice}, ghost : BOOLEAN, typed : BOOLEAN]
Idle == [pc |-> "idle", item |-> NoItem, copy |-> NoCopy,
         old |-> NoPrice, ghost |-> FALSE, typed |-> FALSE]

(* page holds the copies FindAll returned, as far as they are still to     *)
(* handle; done is batchSynced > 0.                                        *)
NoPage == [i \in Items |-> NoProduct]
Loop   == [pc : {"idle", "fetch", "page"},
           page : [Items -> Product \cup {NoProduct}],
           done : BOOLEAN, iter : Nat]
NoLoop == [pc |-> "idle", page |-> NoPage, done |-> FALSE, iter |-> 0]

Init ==
  /\ TablesInit
  /\ mem = [c \in Callers |-> Idle]
  /\ loop = [y \in Syncers |-> NoLoop]
  /\ pim = [k \in Keys |-> [count |-> 0, typed |-> FALSE]]
  /\ scrapes = 0 /\ misses = 0
  /\ met = {} /\ lost = {}

(* Caller c goes on with memory m: to a search, or to nothing.             *)
ToSync(c, m) ==
  mem' = [mem EXCEPT ![c] = IF NeedsPIMSync(m.copy)
                            THEN [m EXCEPT !.pc = "search", !.old = NoPrice]
                            ELSE Idle]

(* The workers that have looked item i up and not yet stored it and        *)
(* recorded its price, and the notes about it.                             *)
Busy(i)  == {w \in Workers :
               mem[w].item = i /\ mem[w].pc \in {"saveKnown", "saveNew", "record"}}
Recording(i) == {w \in Busy(i) : mem[w].pc = "record"}
Meets(i) == met' = IF Busy(i) = {} THEN met ELSE met \cup {i}
Loses(i) == lost' = lost \cup {i}

WorkerFrame == UNCHANGED <<loop, pim, misses>>
-----------------------------------------------------------------------------
(***************************************************************************)
(* The worker: the body of the loop of UpsertProductsUseCase.execute.      *)
(***************************************************************************)

(* EnrichFields fills what is empty; UpdatePrice takes a price that has    *)
(* changed; both, like TouchLastSeen, set last_seen_at.                    *)
Refreshed(p, l) ==
  [p EXCEPT !.price = IF l.price = NoPrice THEN @ ELSE l.price,
            !.fields = @ \cup l.fields, !.seen = scrapes + 1]

(* Mutant of PriceChanged: any price of a listing counts as a change.      *)
PriceSeen(p, l) == NoPrice \notin {p.price, l.price}

(* HasPriceChanged, of a row and a listing that both have a price.         *)
PriceChanged(p, l) == p.price # l.price /\ NoPrice \notin {p.price, l.price}

(* FindByContentHash finds the row, and the copy is brought up to date.    *)
LookUpKnown(w, i, l) ==
  /\ mem[w].pc = "idle" /\ scrapes < MaxScrapes
  /\ Stored(i)
  /\ mem' = [mem EXCEPT ![w] =
       [Idle EXCEPT !.pc = "saveKnown", !.item = i,
                    !.copy = Refreshed(product[i], l),
                    !.old = IF PriceChanged(product[i], l)
                            THEN product[i].price ELSE NoPrice]]
  /\ scrapes' = scrapes + 1
  /\ Meets(i)
  /\ UNCHANGED <<tables, lost>> /\ WorkerFrame

(* It finds nothing, or fails: the product is taken for a new one.         *)
LookUpNew(w, i, l) ==
  /\ mem[w].pc = "idle" /\ scrapes < MaxScrapes
  /\ Stored(i) => w \in Faulty
  /\ mem' = [mem EXCEPT ![w] =
       [Idle EXCEPT !.pc = "saveNew", !.item = i,
                    !.copy = [NoCopy EXCEPT !.price = l.price,
                                            !.fields = l.fields,
                                            !.seen = scrapes + 1]]]
  /\ scrapes' = scrapes + 1
  /\ Meets(i)
  /\ IF Stored(i) THEN Loses(i) ELSE UNCHANGED lost
  /\ UNCHANGED tables /\ WorkerFrame

(* The price that a changed one replaces is recorded by the next step.     *)
SaveKnown(w) ==
  /\ mem[w].pc = "saveKnown"
  /\ Upsert(mem[w].item, mem[w].copy)
  /\ IF mem[w].old # NoPrice
     THEN mem' = [mem EXCEPT ![w].pc = "record"]
     ELSE ToSync(w, mem[w])
  /\ UNCHANGED <<history, classified, scrapes, notes>> /\ WorkerFrame

(* The statement is rejected, fails, or takes effect unheard.              *)
SaveIsRefused(w) ==
  \/ ~Accepts(mem[w].item) /\ UNCHANGED <<product, replaced, lost>>
  \/ w \in Faulty /\ UNCHANGED <<product, replaced, lost>>
  \/ /\ w \in Faulty
     /\ Upsert(mem[w].item, mem[w].copy)
     /\ IF mem[w].old # NoPrice THEN Loses(mem[w].item) ELSE UNCHANGED lost

(* Mutant of SaveKnownFails: records the price of a row it has not saved.  *)
RecordUnsaved(w) ==
  /\ mem[w].pc = "saveKnown"
  /\ SaveIsRefused(w)
  /\ IF mem[w].old # NoPrice
     THEN mem' = [mem EXCEPT ![w].pc = "record"]
     ELSE ToSync(w, mem[w])
  /\ UNCHANGED <<history, classified, scrapes, met>> /\ WorkerFrame

(* The error is logged and the copy goes to PIM nevertheless.              *)
SaveKnownFails(w) ==
  /\ mem[w].pc = "saveKnown"
  /\ SaveIsRefused(w)
  /\ ToSync(w, mem[w])
  /\ UNCHANGED <<history, classified, scrapes, met>> /\ WorkerFrame

RecordPrice(w) ==
  /\ mem[w].pc = "record"
  /\ \/ SavePriceRecord(mem[w].item, mem[w].old) /\ UNCHANGED lost
     \/ w \in Faulty /\ UNCHANGED history /\ Loses(mem[w].item)
  /\ ToSync(w, mem[w])
  /\ UNCHANGED <<product, classified, replaced, scrapes, met>> /\ WorkerFrame

(* When another caller has stored the item meanwhile, the upsert updates   *)
(* its row, and the id of this copy is never stored.                       *)
SaveNew(w) ==
  LET m == [mem[w] EXCEPT !.ghost = Stored(mem[w].item)]
  IN /\ mem[w].pc = "saveNew"
     /\ Upsert(m.item, m.copy)
     /\ IF m.item \in Typed
        THEN mem' = [mem EXCEPT ![w] = [m EXCEPT !.pc = "assign"]]
        ELSE ToSync(w, m)
     /\ UNCHANGED <<history, classified, scrapes, notes>> /\ WorkerFrame

SaveNewFails(w) ==
  /\ mem[w].pc = "saveNew"
  /\ SaveIsRefused(w)
  /\ mem' = [mem EXCEPT ![w] = Idle]
  /\ UNCHANGED <<history, classified, scrapes, met>> /\ WorkerFrame

(* The assignment of a ghost breaks the foreign key; its copy gets the     *)
(* business type in any case.                                              *)
AssignType(w) ==
  /\ mem[w].pc = "assign"
  /\ \/ ~mem[w].ghost /\ SaveBusinessTypes(mem[w].item)
     \/ (mem[w].ghost \/ w \in Faulty) /\ UNCHANGED classified
  /\ ToSync(w, [mem[w] EXCEPT !.typed = TRUE])
  /\ UNCHANGED <<product, history, replaced, scrapes, notes>> /\ WorkerFrame

Scrape(w) == \E i \in Items, l \in Listing :
               LookUpKnown(w, i, l) \/ LookUpNew(w, i, l)

WorkerStep(w) == \/ SaveKnown(w) \/ SaveKnownFails(w) \/ RecordPrice(w)
                 \/ SaveNew(w) \/ SaveNewFails(w) \/ AssignType(w)
-----------------------------------------------------------------------------
(***************************************************************************)
(* SyncProductToPIMUseCase.Execute, by a worker or for a request.          *)
(***************************************************************************)

SyncFrame == UNCHANGED <<history, classified, replaced, scrapes, notes>>
KeyOf(c)  == Key[mem[c].item]

(* Execute returns, to the worker or to the loop of SyncPending.           *)
Return(c, ok) ==
  /\ mem' = [mem EXCEPT ![c] = Idle]
  /\ loop' = IF c \in Syncers /\ ok THEN [loop EXCEPT ![c].done = TRUE]
             ELSE loop

(* Mutant of Search: a product found by name is not taken for the same.    *)
SearchByEANOnly(c) ==
  /\ mem[c].pc = "search"
  /\ mem' = [mem EXCEPT ![c].pc = "create"]
  /\ UNCHANGED <<product, pim, loop, misses>> /\ SyncFrame

(* findExisting.  PIM answers with the product it has, or with none; a     *)
(* status other than 200 counts as none, and so does a match that the      *)
(* first ten results of the search do not show.                            *)
Search(c) ==
  /\ mem[c].pc = "search"
  /\ \/ /\ pim[KeyOf(c)].count > 0
        /\ mem' = [mem EXCEPT ![c].pc = "patch"]
        /\ UNCHANGED misses
     \/ /\ pim[KeyOf(c)].count = 0
        /\ mem' = [mem EXCEPT ![c].pc = "create"]
        /\ UNCHANGED misses
     \/ /\ pim[KeyOf(c)].count > 0
        /\ misses < MaxMisses /\ misses' = misses + 1
        /\ mem' = [mem EXCEPT ![c].pc = "create"]
  /\ UNCHANGED <<product, pim, loop>> /\ SyncFrame

(* POST and PATCH of catalog-service: one more product, or the type of the *)
(* one it has.                                                             *)
PIMCreates(c) ==
  pim' = [pim EXCEPT ![KeyOf(c)] =
            [count |-> @.count + 1, typed |-> @.typed \/ mem[c].typed]]
PIMPatches(c) ==
  pim' = [pim EXCEPT ![KeyOf(c)].typed = @ \/ mem[c].typed]

CreateNew(c) ==
  /\ mem[c].pc = "create"
  /\ PIMCreates(c)
  /\ mem' = [mem EXCEPT ![c].pc = "mark"]
  /\ UNCHANGED <<product, loop, misses>> /\ SyncFrame

UpdateExisting(c) ==
  /\ mem[c].pc = "patch"
  /\ PIMPatches(c)
  /\ mem' = [mem EXCEPT ![c].pc = "mark"]
  /\ UNCHANGED <<product, loop, misses>> /\ SyncFrame

(* Mutant of SyncFails: the error of the call to PIM is ignored.           *)
MarkInAnyCase(c) ==
  /\ c \in Faulty /\ mem[c].pc \in {"search", "create", "patch"}
  /\ mem' = [mem EXCEPT ![c].pc = "mark"]
  /\ UNCHANGED <<product, pim, loop, misses>> /\ SyncFrame

(* The search, the creation or the update fails, or takes effect unheard.  *)
SyncFails(c) ==
  /\ c \in Faulty /\ mem[c].pc \in {"search", "create", "patch"}
  /\ \/ UNCHANGED pim
     \/ mem[c].pc = "create" /\ PIMCreates(c)
     \/ mem[c].pc = "patch" /\ PIMPatches(c)
  /\ Return(c, FALSE)
  /\ UNCHANGED <<product, misses>> /\ SyncFrame

(* markSynced: an error is logged, and Execute succeeds; a ghost's id is   *)
(* in no row.                                                              *)
MarkSynced(c) ==
  /\ mem[c].pc = "mark"
  /\ \/ ~mem[c].ghost /\ MarkSyncedToPIM(mem[c].item)
     \/ (mem[c].ghost \/ c \in Faulty) /\ UNCHANGED product
  /\ Return(c, TRUE)
  /\ UNCHANGED <<pim, misses>> /\ SyncFrame

SyncStep(c) == \/ Search(c) \/ CreateNew(c) \/ UpdateExisting(c)
               \/ SyncFails(c) \/ MarkSynced(c)
-----------------------------------------------------------------------------
(***************************************************************************)
(* The request: SyncPending.                                               *)
(***************************************************************************)

RequestFrame == /\ UNCHANGED <<pim, scrapes, misses, notes>>
                /\ UNCHANGED tables

StartSync(y) ==
  /\ loop[y].pc = "idle"
  /\ loop' = [loop EXCEPT ![y].pc = "fetch"]
  /\ UNCHANGED mem /\ RequestFrame

(* FindAll; with nothing pending, or with an error, the request ends.      *)
FetchPage(y) ==
  LET P == FirstPage(PageSize)
  IN /\ loop[y].pc = "fetch"
     /\ \/ /\ P # {}
           /\ loop' = [loop EXCEPT ![y].pc = "page", ![y].done = FALSE,
                                   ![y].page = [i \in Items |->
                                     IF i \in P THEN product[i] ELSE NoProduct]]
        \/ /\ P = {} \/ y \in Faulty
           /\ loop' = [loop EXCEPT ![y] = NoLoop]
     /\ UNCHANGED mem /\ RequestFrame

(* The newest product left in the page: skipped, which counts as consumed, *)
(* or handed to Execute.                                                   *)
NextProduct(y, i) ==
  LET page == loop[y].page
  IN /\ loop[y].pc = "page" /\ mem[y].pc = "idle"
     /\ page[i] # NoProduct
     /\ \A j \in Items \ {i} :
          page[j] # NoProduct => page[j].seen < page[i].seen
     /\ loop' = [loop EXCEPT ![y].page[i] = NoProduct,
                             ![y].done = @ \/ ~NeedsPIMSync(page[i])]
     /\ ToSync(y, [Idle EXCEPT !.item = i, !.copy = page[i]])
     /\ RequestFrame

(* Mutant of EndPage: nothing limits the iterations.                       *)
EndPageUncapped(y) ==
  /\ loop[y].pc = "page" /\ mem[y].pc = "idle"
  /\ loop[y].page = NoPage
  /\ loop' = [loop EXCEPT ![y] = IF loop[y].done
                                 THEN [NoLoop EXCEPT !.pc = "fetch"]
                                 ELSE NoLoop]
  /\ UNCHANGED mem /\ RequestFrame

(* Page 1 is read again, unless nothing of this one was done, at most      *)
(* MaxIterations times.                                                    *)
EndPage(y) ==
  /\ loop[y].pc = "page" /\ mem[y].pc = "idle"
  /\ loop[y].page = NoPage
  /\ loop' = [loop EXCEPT ![y] =
       IF loop[y].done /\ loop[y].iter + 1 < MaxIterations
       THEN [NoLoop EXCEPT !.pc = "fetch", !.iter = loop[y].iter + 1]
       ELSE NoLoop]
  /\ UNCHANGED mem /\ RequestFrame

RequestStep(y) == \/ FetchPage(y) \/ EndPage(y)
                  \/ \E i \in Items : NextProduct(y, i)
-----------------------------------------------------------------------------
(* PATCH and DELETE of a product, and POST bulk-delete.                    *)
Moderate(i) ==
  /\ SoftDelete(i) \/ \E b \in BOOLEAN : UpdateBlocked(i, b)
  /\ UNCHANGED <<history, classified, replaced, scrapes, mem, notes>>
  /\ WorkerFrame

(* The process ends, and with it every call in progress; it starts again.  *)
Crash ==
  /\ Faulty = Callers
  /\ mem' = [c \in Callers |-> Idle]
  /\ loop' = [y \in Syncers |-> NoLoop]
  /\ lost' = lost \cup {i \in Items : Recording(i) # {}}
  /\ UNCHANGED <<pim, scrapes, misses, met>> /\ UNCHANGED tables

Next == \/ \E w \in Workers : Scrape(w) \/ WorkerStep(w)
        \/ \E c \in Callers : SyncStep(c)
        \/ \E y \in Syncers : StartSync(y) \/ RequestStep(y)
        \/ \E i \in Items : Moderate(i)
        \/ Crash

Spec == Init /\ [][Next]_vars

(* A request that has begun goes on: every call it makes has a timeout.    *)
FairSpec ==
  Spec /\ \A y \in Syncers : WF_vars(RequestStep(y) \/ SyncStep(y))
-----------------------------------------------------------------------------
(* The tables, the memory of every caller and PIM keep their shape.        *)
TypeOK ==
  /\ product \in [Items -> Product \cup {NoProduct}]
  /\ history \in [Items -> Seq(Prices)]
  /\ replaced \in [Items -> Seq(Prices)]
  /\ classified \subseteq Items
  /\ mem \in [Callers -> Memory]
  /\ \A c \in Callers : mem[c].pc # "idle" => mem[c].item \in Items
  /\ loop \in [Syncers -> Loop]
  /\ pim \in [Keys -> [count : Nat, typed : BOOLEAN]]
  /\ scrapes \in Nat /\ misses \in Nat
  /\ met \subseteq Items /\ lost \subseteq Items

(* However often a sync fails, is retried, or dies with the process between *)
(* its steps, PIM gets at most one product per caller at work at the same  *)
(* time, and one more per search that overlooked one: a retry of what was  *)
(* already done creates nothing (findExisting, createNew).                 *)
DuplicatesBounded ==
  \A k \in Keys : pim[k].count <= Cardinality(Callers) + misses

(* The tables and PIM implement Publication: synced_to_pim_at is set only  *)
(* once PIM has the product, whichever of search, create, update and mark  *)
(* failed or was repeated, and it is never lost (Execute, markSynced).     *)
PublishedKeys == {k \in Keys : pim[k].count > 0}
MarkedItems   == {i \in Items : Stored(i) /\ product[i].synced}
Abstract == INSTANCE Publication WITH published <- PublishedKeys,
                                      marked <- MarkedItems
MarkFollowsPublication == Abstract!Spec

(* A worker that read a product before it was blocked or hidden does not   *)
(* bring the row up to date afterwards, nor make it visible (Upsert).      *)
FrozenIsUntouched ==
  [][\A i \in Items :
       Stored(i) /\ (product[i].blocked \/ product[i].hidden)
       => /\ product'[i].price = product[i].price
          /\ product'[i].fields = product[i].fields
          /\ product'[i].seen = product[i].seen
          /\ product[i].hidden => product'[i].hidden]_vars

(* The price history holds exactly the prices the row no longer has, in    *)
(* order, but for the one a worker is about to record: any number of       *)
(* workers, blocked rows, calls that fail and a process that ends leave no *)
(* price out and put none in, unless two workers were busy with the item   *)
(* at once, or the very call that stores or records a price went wrong     *)
(* (execute; the error of SavePriceRecord is dropped).                     *)
HistoryIsExact ==
  \A i \in Items \ (met \cup lost) :
    \/ history[i] = replaced[i]
    \/ \E w \in Recording(i) : Append(history[i], mem[w].old) = replaced[i]

Times(p, prices) == Cardinality({n \in DOMAIN prices : prices[n] = p})

(* When several workers scrape a source at the same time, each compares    *)
(* with the copy it has read, and one change may be recorded twice; but a  *)
(* worker records a price at most once for each time the row gives it up,  *)
(* and never one that the row kept (execute, HasPriceChanged).             *)
HistoryIsBounded ==
  \A i \in Items, p \in Prices :
    Times(p, history[i]) <= Cardinality(Workers) * Times(p, replaced[i])

(* A request to synchronise ends, whatever workers and requests do to the  *)
(* pending products meanwhile (SyncPending).                               *)
SyncRequestEnds ==
  \A y \in Syncers : (loop[y].pc # "idle") ~> (loop[y].pc = "idle")
=============================================================================
