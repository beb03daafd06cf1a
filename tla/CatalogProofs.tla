--------------------------- MODULE CatalogProofs ---------------------------
(***************************************************************************)
(* Proofs about Catalog, for any sets of workers, requests, items and      *)
(* prices, with or without failures: its types are right, a product is     *)
(* marked as synchronised only once PIM has it, and the products PIM gets  *)
(* for one key are bounded by the callers at work at the same time.        *)
(***************************************************************************)
EXTENDS Catalog, FiniteSetTheorems, TLAPS

USE ProductTableAssumption, CatalogAssumption

MemOK(m) == /\ m \in Memory
            /\ m.pc # "idle" => m.item \in Items
            /\ m.pc = "record" => m.old \in Prices

(* A price that is about to be recorded is a price.                        *)
TypeInv == /\ TypeOK
           /\ \A c \in Callers : MemOK(mem[c])

(* Caller c goes on with memory m, and nobody else does anything.          *)
Turn(c, m) == MemOK(m) /\ mem' = [mem EXCEPT ![c] = m]

LEMMA TypesOfData ==
  /\ NoCopy \in Product /\ MemOK(Idle) /\ NoLoop \in Loop
  /\ NoPage \in [Items -> Product \cup {NoProduct}]
BY DEF NoCopy, Product, Idle, Memory, MemOK, Steps, NoLoop, Loop, NoPage

LEMMA TurnTyped ==
  ASSUME TypeInv, NEW c \in Callers, NEW m, Turn(c, m)
  PROVE  /\ mem' \in [Callers -> Memory]
         /\ \A d \in Callers : MemOK(mem'[d])
         /\ \A d \in Callers : mem'[d] = IF d = c THEN m ELSE mem[d]
BY DEF TypeInv, TypeOK, Turn, MemOK

LEMMA ToSyncTurns ==
  ASSUME NEW c \in Callers, NEW m \in Memory, m.item \in Items, ToSync(c, m)
  PROVE  \E x : Turn(c, x) /\ x.pc \in {"idle", "search"}
<1> DEFINE x == [m EXCEPT !.pc = "search", !.old = NoPrice]
<1>1. MemOK(x) /\ x.pc = "search"
  BY DEF MemOK, Memory, Steps
<1>2. MemOK(Idle) /\ Idle.pc = "idle"
  BY TypesOfData DEF Idle
<1>3. CASE NeedsPIMSync(m.copy)
  BY <1>1, <1>3 DEF ToSync, Turn
<1>4. CASE ~NeedsPIMSync(m.copy)
  BY <1>2, <1>4 DEF ToSync, Turn
<1>5. QED
  BY <1>3, <1>4

LEMMA UpsertTyped ==
  ASSUME TypeInv, NEW i \in Items, NEW c \in Product, Upsert(i, c)
  PROVE  /\ product' \in [Items -> Product \cup {NoProduct}]
         /\ replaced' \in [Items -> Seq(Prices)]
         /\ MarkedItems' = MarkedItems
<1> DEFINE row == product[i]
           price == Column(c.price)
<1>1. price \in Prices \cup {NoPrice}
  BY DEF Column, Product
<1>2. /\ product \in [Items -> Product \cup {NoProduct}]
      /\ replaced \in [Items -> Seq(Prices)]
  BY DEF TypeInv, TypeOK
<1>3. CASE Stored(i)
  <2>1. row \in Product
    BY <1>2, <1>3 DEF Stored
  <2> DEFINE new == [row EXCEPT !.price = price, !.fields = c.fields,
                                !.seen = c.seen]
  <2>2. new \in Product /\ new.synced = row.synced
    BY <2>1, <1>1 DEF Product
  <2>3. product' = [product EXCEPT ![i] = new]
    BY <1>3 DEF Upsert
  <2>4. replaced' \in [Items -> Seq(Prices)]
    <3>1. CASE row.price \notin {NoPrice, price}
      <4>1. row.price \in Prices
        BY <2>1, <3>1 DEF Product
      <4>2. Append(replaced[i], row.price) \in Seq(Prices)
        BY <4>1, <1>2
      <4>3. replaced' = [replaced EXCEPT ![i] = Append(replaced[i], row.price)]
        BY <3>1, <1>3 DEF Upsert
      <4>4. QED
        BY <4>2, <4>3, <1>2
    <3>2. CASE row.price \in {NoPrice, price}
      BY <3>2, <1>2 DEF Upsert
    <3>3. QED
      BY <3>1, <3>2
  <2>5. QED
    BY <2>2, <2>3, <2>4, <1>2, <1>3 DEF MarkedItems, Stored
<1>4. CASE ~Stored(i)
  <2> DEFINE new == [c EXCEPT !.price = price, !.synced = FALSE]
  <2>1. new \in Product /\ new.synced = FALSE
    BY <1>1 DEF Product
  <2>2. product' = [product EXCEPT ![i] = new] /\ replaced' = replaced
    BY <1>4 DEF Upsert
  <2>3. QED
    BY <2>1, <2>2, <1>2, <1>4 DEF MarkedItems, Stored
<1>5. QED
  BY <1>3, <1>4

LEMMA RefreshedTyped ==
  ASSUME NEW p \in Product, NEW l \in Listing, scrapes \in Nat
  PROVE  Refreshed(p, l) \in Product
<1> DEFINE price == IF l.price = NoPrice THEN p.price ELSE l.price
           fields == p.fields \cup l.fields
<1>1. price \in Prices \cup {NoPrice} /\ fields \in SUBSET Fields
  BY DEF Product, Listing
<1>2. scrapes + 1 \in Nat
  OBVIOUS
<1>3. Refreshed(p, l) = [p EXCEPT !.price = price, !.fields = fields,
                                  !.seen = scrapes + 1]
  BY DEF Refreshed, Product
<1> HIDE DEF price, fields
<1>4. QED
  BY <1>1, <1>2, <1>3 DEF Product

(* What a caller does to memories and tables when PIM is not concerned: it *)
(* marks no product, and no caller comes nearer to creating, updating or   *)
(* marking one.                                                            *)
Quiet ==
  /\ UNCHANGED <<pim, misses>> /\ MarkedItems' = MarkedItems
  /\ \A c \in Callers : mem'[c].pc \in {"create", "patch", "mark"}
       => mem'[c].pc = mem[c].pc /\ mem'[c].item = mem[c].item

LEMMA TurnQuiet ==
  ASSUME TypeInv, NEW c \in Callers, NEW m, Turn(c, m),
         m.pc \notin {"create", "patch", "mark"},
         UNCHANGED <<pim, misses>>, MarkedItems' = MarkedItems
  PROVE  Quiet
BY TurnTyped DEF Quiet

LEMMA SameMarks ==
  ASSUME UNCHANGED product  PROVE MarkedItems' = MarkedItems
BY DEF MarkedItems, Stored

(* The steps of a worker before it synchronises.                           *)
LEMMA ScrapeSteps ==
  ASSUME TypeInv, NEW w \in Workers, Scrape(w)
  PROVE  TypeInv' /\ Quiet
<1>1. PICK i \in Items, l \in Listing :
        LookUpKnown(w, i, l) \/ LookUpNew(w, i, l)
  BY DEF Scrape
<1>2. w \in Callers /\ scrapes \in Nat /\ scrapes' = scrapes + 1
  BY <1>1 DEF Callers, LookUpKnown, LookUpNew, TypeInv, TypeOK
<1>3. \E m : Turn(w, m) /\ m.pc \in {"saveKnown", "saveNew"}
  <2>1. CASE LookUpKnown(w, i, l)
    <3> DEFINE old == IF PriceChanged(product[i], l) THEN product[i].price
                                                     ELSE NoPrice
               m == [Idle EXCEPT !.pc = "saveKnown", !.item = i,
                       !.copy = Refreshed(product[i], l), !.old = old]
    <3>1. product[i] \in Product
      BY <2>1 DEF LookUpKnown, Stored, TypeInv, TypeOK
    <3>2. Refreshed(product[i], l) \in Product
      BY <3>1, <1>2, RefreshedTyped
    <3>3. old \in Prices \cup {NoPrice}
      BY <3>1 DEF Product
    <3> HIDE DEF old
    <3>4. MemOK(m) /\ m.pc = "saveKnown"
      BY <3>2, <3>3 DEF MemOK, Memory, Idle, Steps
    <3>5. mem' = [mem EXCEPT ![w] = m]
      BY <2>1 DEF LookUpKnown, old
    <3>6. QED
      BY <3>4, <3>5 DEF Turn
  <2>2. CASE LookUpNew(w, i, l)
    <3> DEFINE copy == [NoCopy EXCEPT !.price = l.price, !.fields = l.fields,
                                      !.seen = scrapes + 1]
               m == [Idle EXCEPT !.pc = "saveNew", !.item = i, !.copy = copy]
    <3>0. scrapes + 1 \in Nat /\ l.price \in Prices \cup {NoPrice}
          /\ l.fields \in SUBSET Fields
      BY <1>2 DEF Listing
    <3>1. copy \in Product
      BY <3>0 DEF NoCopy, Product
    <3> HIDE DEF copy
    <3>2. MemOK(m) /\ m.pc = "saveNew"
      BY <3>1 DEF MemOK, Memory, Idle, Steps
    <3>3. mem' = [mem EXCEPT ![w] = m]
      BY <2>2 DEF LookUpNew, copy
    <3>4. QED
      BY <3>2, <3>3 DEF Turn
  <2>3. QED
    BY <1>1, <2>1, <2>2
<1>4. UNCHANGED tables /\ WorkerFrame
  BY <1>1 DEF LookUpKnown, LookUpNew
<1>5. PICK m : Turn(w, m) /\ m.pc \in {"saveKnown", "saveNew"}
  BY <1>3
<1>5a. met' \subseteq Items /\ lost' \subseteq Items
  <2>1. /\ met' = met \/ met' = met \cup {i}
        /\ lost' = lost \/ lost' = lost \cup {i}
    BY <1>1 DEF LookUpKnown, LookUpNew, Meets, Loses
  <2>2. QED
    BY <2>1 DEF TypeInv, TypeOK
<1>6. TypeInv'
  BY <1>2, <1>4, <1>5, <1>5a, TurnTyped DEF TypeInv, TypeOK, MemOK, tables, WorkerFrame
<1>7. Quiet
  BY <1>2, <1>4, <1>5, TurnQuiet, SameMarks DEF tables, WorkerFrame
<1>8. QED
  BY <1>6, <1>7

LEMMA WorkerSteps ==
  ASSUME TypeInv, NEW w \in Workers, WorkerStep(w)
  PROVE  TypeInv' /\ Quiet
<1> DEFINE i == mem[w].item
           Ends == {"idle", "search", "record", "assign"}
<1>1. w \in Callers /\ mem[w] \in Memory /\ mem[w].pc # "idle" /\ i \in Items /\ i # NoItem
  BY DEF TypeInv, TypeOK, Callers, WorkerStep, SaveKnown, SaveKnownFails,
         RecordPrice, SaveNew, SaveNewFails, AssignType
<1>2. mem[w].copy \in Product
  BY <1>1 DEF Memory
<1>3. ASSUME Upsert(i, mem[w].copy) \/ UNCHANGED <<product, replaced>>
      PROVE  /\ product' \in [Items -> Product \cup {NoProduct}]
             /\ replaced' \in [Items -> Seq(Prices)]
             /\ MarkedItems' = MarkedItems
  BY <1>1, <1>2, <1>3, UpsertTyped, SameMarks DEF TypeInv, TypeOK
<1>4. ASSUME ToSync(w, mem[w])  PROVE \E m : Turn(w, m) /\ m.pc \in Ends
  BY <1>1, <1>4, ToSyncTurns
<1>5. ASSUME mem[w].old # NoPrice, mem' = [mem EXCEPT ![w].pc = "record"]
      PROVE  \E m : Turn(w, m) /\ m.pc \in Ends
  <2> DEFINE m == [mem[w] EXCEPT !.pc = "record"]
  <2>1. MemOK(m) /\ m.pc = "record"
    BY <1>1, <1>5 DEF MemOK, Memory, Steps
  <2>2. mem' = [mem EXCEPT ![w] = m]
    BY <1>5
  <2>3. QED
    BY <2>1, <2>2 DEF Turn
<1>6. \E m : Turn(w, m) /\ m.pc \in Ends
  <2>1. CASE SaveKnown(w) \/ SaveKnownFails(w) \/ RecordPrice(w)
    BY <2>1, <1>4, <1>5 DEF SaveKnown, SaveKnownFails, RecordPrice
  <2>2. CASE SaveNewFails(w)
    <3>1. Idle.pc = "idle"
      BY DEF Idle
    <3>2. QED
      BY <2>2, <3>1, TypesOfData DEF SaveNewFails, Turn
  <2>3. CASE SaveNew(w)
    <3> DEFINE m == [mem[w] EXCEPT !.ghost = Stored(mem[w].item)]
               a == [m EXCEPT !.pc = "assign"]
    <3>1. m \in Memory /\ m.item = i
      BY <1>1 DEF Memory, Stored
    <3>2. MemOK(a) /\ a.pc = "assign"
      BY <3>1, <1>1 DEF MemOK, Memory, Steps
    <3>3. mem' = [mem EXCEPT ![w] = a] \/ ToSync(w, m)
      BY <2>3 DEF SaveNew
    <3> HIDE DEF m
    <3>4. QED
      BY <3>1, <3>2, <3>3, <1>1, ToSyncTurns DEF Turn
  <2>4. CASE AssignType(w)
    <3> DEFINE m == [mem[w] EXCEPT !.typed = TRUE]
    <3>1. m \in Memory /\ m.item = i
      BY <1>1 DEF Memory
    <3>2. ToSync(w, m)
      BY <2>4 DEF AssignType
    <3>3. QED
      BY <3>1, <3>2, <1>1, ToSyncTurns
  <2>5. QED
    BY <2>1, <2>2, <2>3, <2>4 DEF WorkerStep
<1>7. PICK m : Turn(w, m) /\ m.pc \in Ends
  BY <1>6
<1>8. /\ Upsert(i, mem[w].copy) \/ UNCHANGED <<product, replaced>>
      /\ WorkerFrame /\ UNCHANGED scrapes
  BY DEF WorkerStep, SaveKnown, SaveKnownFails, SaveIsRefused, RecordPrice,
         SaveNew, SaveNewFails, AssignType
<1>9. history' \in [Items -> Seq(Prices)] /\ classified' \subseteq Items
  <2>1. CASE UNCHANGED <<history, classified>>
    BY <2>1 DEF TypeInv, TypeOK
  <2>2. CASE RecordPrice(w)
    <3>1. mem[w].old \in Prices /\ Column(mem[w].old) \in Prices
      BY <2>2, <1>1 DEF RecordPrice, TypeInv, MemOK, Column
    <3>2. \/ history' = [history EXCEPT ![i] = Append(@, Column(mem[w].old))]
          \/ history' = history
      BY <2>2 DEF RecordPrice, SavePriceRecord
    <3>3. history \in [Items -> Seq(Prices)]
      BY DEF TypeInv, TypeOK
    <3>4. Append(history[i], Column(mem[w].old)) \in Seq(Prices)
      BY <3>1, <3>3, <1>1
    <3>5. history' \in [Items -> Seq(Prices)]
      BY <3>2, <3>3, <3>4
    <3>6. QED
      BY <2>2, <3>5 DEF RecordPrice, TypeInv, TypeOK
  <2>3. CASE AssignType(w)
    BY <2>3, <1>1 DEF AssignType, SaveBusinessTypes, TypeInv, TypeOK
  <2>4. QED
    BY <2>1, <2>2, <2>3 DEF WorkerStep, SaveKnown, SaveKnownFails, SaveNew,
                            SaveNewFails
<1>9a. met' \subseteq Items /\ lost' \subseteq Items
  <2>1. /\ UNCHANGED met
        /\ lost' = lost \/ lost' = lost \cup {i}
    BY DEF WorkerStep, SaveKnown, SaveKnownFails, SaveIsRefused, RecordPrice,
           SaveNew, SaveNewFails, AssignType, Loses, notes
  <2>2. QED
    BY <1>1, <2>1 DEF TypeInv, TypeOK
<1>10. TypeInv'
  BY <1>1, <1>3, <1>7, <1>8, <1>9, <1>9a, TurnTyped
  DEF TypeInv, TypeOK, MemOK, WorkerFrame
<1>11. Quiet
  BY <1>1, <1>3, <1>7, <1>8, TurnQuiet DEF WorkerFrame
<1>12. QED
  BY <1>10, <1>11

(* The steps of a request outside Execute.                                 *)
LEMMA RequestSteps ==
  ASSUME TypeInv, NEW y \in Syncers, StartSync(y) \/ RequestStep(y)
  PROVE  TypeInv' /\ Quiet
<1>1. y \in Callers /\ mem \in [Callers -> Memory] /\ loop \in [Syncers -> Loop]
  BY DEF TypeInv, TypeOK, Callers
<1>2. UNCHANGED <<pim, scrapes, misses, met, lost>> /\ UNCHANGED tables
  BY DEF StartSync, RequestStep, FetchPage, EndPage, NextProduct, RequestFrame,
         notes
<1>3. loop' \in [Syncers -> Loop]
  <2>1. loop[y] \in Loop
    BY <1>1
  <2>2. CASE StartSync(y)
    BY <2>1, <2>2, <1>1 DEF StartSync, Loop
  <2>3. CASE FetchPage(y)
    <3> DEFINE P == FirstPage(PageSize)
               page == [i \in Items |-> IF i \in P THEN product[i] ELSE NoProduct]
    <3>1. page \in [Items -> Product \cup {NoProduct}]
      BY DEF TypeInv, TypeOK
    <3>2. \/ loop' = [loop EXCEPT ![y].pc = "page", ![y].done = FALSE,
                                  ![y].page = page]
          \/ loop' = [loop EXCEPT ![y] = NoLoop]
      BY <2>3 DEF FetchPage
    <3> HIDE DEF page
    <3>3. CASE loop' = [loop EXCEPT ![y] = NoLoop]
      BY <3>3, <1>1, TypesOfData
    <3>4. CASE loop' = [loop EXCEPT ![y].pc = "page", ![y].done = FALSE,
                                    ![y].page = page]
      BY <3>1, <3>4, <2>1, <1>1 DEF Loop
    <3>5. QED
      BY <3>2, <3>3, <3>4
  <2>4. CASE EndPage(y)
    <3> DEFINE next == [NoLoop EXCEPT !.pc = "fetch", !.iter = loop[y].iter + 1]
    <3>1. loop[y].iter + 1 \in Nat
      BY <2>1 DEF Loop
    <3>2. next \in Loop
      BY <3>1, TypesOfData DEF Loop, NoLoop
    <3>3. loop' = [loop EXCEPT ![y] = next] \/ loop' = [loop EXCEPT ![y] = NoLoop]
      BY <2>4 DEF EndPage
    <3> HIDE DEF next
    <3>4. QED
      BY <3>2, <3>3, <1>1, TypesOfData
  <2>5. ASSUME NEW i \in Items, NextProduct(y, i)
        PROVE  loop' \in [Syncers -> Loop]
    <3> DEFINE page == [loop[y].page EXCEPT ![i] = NoProduct]
               done == loop[y].done \/ ~NeedsPIMSync(loop[y].page[i])
    <3>1. page \in [Items -> Product \cup {NoProduct}] /\ done \in BOOLEAN
      BY <2>1 DEF Loop
    <3>2. loop' = [loop EXCEPT ![y] = [loop[y] EXCEPT !.page = page,
                                                      !.done = done]]
      BY <2>1, <2>5, <1>1 DEF NextProduct, Loop
    <3> HIDE DEF page, done
    <3>3. QED
      BY <3>1, <3>2, <2>1, <1>1 DEF Loop
  <2>6. QED
    BY <2>2, <2>3, <2>4, <2>5 DEF RequestStep
<1>4. ASSUME NEW i \in Items, NextProduct(y, i)
      PROVE  \E m : Turn(y, m) /\ m.pc \in {"idle", "search"}
  <2> DEFINE m == [Idle EXCEPT !.item = i, !.copy = loop[y].page[i]]
  <2>1. loop[y].page[i] \in Product
    BY <1>1, <1>4 DEF NextProduct, Loop
  <2>2. m \in Memory /\ m.item = i
    BY <2>1 DEF Idle, Memory, Steps
  <2>3. ToSync(y, m)
    BY <1>4 DEF NextProduct
  <2> HIDE DEF m
  <2>4. QED
    BY <2>2, <2>3, <1>1, ToSyncTurns
<1>5. UNCHANGED mem \/ \E m : Turn(y, m) /\ m.pc \in {"idle", "search"}
  BY <1>4 DEF StartSync, RequestStep, FetchPage, EndPage
<1>6. CASE UNCHANGED mem
  <2>1. TypeInv'
    BY <1>2, <1>3, <1>6 DEF TypeInv, TypeOK, MemOK, tables
  <2>2. Quiet
    BY <1>2, <1>6, SameMarks DEF Quiet, tables
  <2>3. QED
    BY <2>1, <2>2
<1>7. CASE \E m : Turn(y, m) /\ m.pc \in {"idle", "search"}
  <2>1. PICK m : Turn(y, m) /\ m.pc \in {"idle", "search"}
    BY <1>7
  <2>2. TypeInv'
    BY <1>1, <1>2, <1>3, <2>1, TurnTyped DEF TypeInv, TypeOK, MemOK, tables
  <2>3. Quiet
    BY <1>1, <1>2, <2>1, TurnQuiet, SameMarks DEF tables
  <2>4. QED
    BY <2>2, <2>3
<1>8. QED
  BY <1>5, <1>6, <1>7

(* Moderation and the end of the process.                                  *)
LEMMA OtherSteps ==
  ASSUME TypeInv, (\E i \in Items : Moderate(i)) \/ Crash \/ UNCHANGED vars
  PROVE  TypeInv' /\ Quiet
<1>1. ASSUME NEW i \in Items, Moderate(i)  PROVE TypeInv' /\ Quiet
  <2>1. product[i] \in Product
    BY <1>1 DEF Moderate, SoftDelete, UpdateBlocked, Stored, TypeInv, TypeOK
  <2>2. PICK r \in Product : /\ product' = [product EXCEPT ![i] = r]
                             /\ r.synced = product[i].synced
    <3>1. CASE SoftDelete(i)
      <4> DEFINE r == [product[i] EXCEPT !.hidden = TRUE]
      <4>1. r \in Product /\ r.synced = product[i].synced
        BY <2>1 DEF Product
      <4>2. product' = [product EXCEPT ![i] = r]
        BY <3>1 DEF SoftDelete
      <4>3. QED
        BY <4>1, <4>2
    <3>2. ASSUME NEW b \in BOOLEAN, UpdateBlocked(i, b)
          PROVE  \E r \in Product : /\ product' = [product EXCEPT ![i] = r]
                                    /\ r.synced = product[i].synced
      <4> DEFINE r == [product[i] EXCEPT !.blocked = b]
      <4>1. r \in Product /\ r.synced = product[i].synced
        BY <2>1 DEF Product
      <4>2. product' = [product EXCEPT ![i] = r]
        BY <3>2 DEF UpdateBlocked
      <4>3. QED
        BY <4>1, <4>2
    <3>3. QED
      BY <1>1, <3>1, <3>2 DEF Moderate
  <2>3. UNCHANGED <<history, classified, replaced, scrapes, mem, loop, pim,
                    misses, met, lost>>
    BY <1>1 DEF Moderate, WorkerFrame, notes
  <2>4. product \in [Items -> Product \cup {NoProduct}]
    BY DEF TypeInv, TypeOK
  <2>5. product' \in [Items -> Product \cup {NoProduct}]
    BY <2>2, <2>4
  <2>6. MarkedItems' = MarkedItems
    BY <2>1, <2>2, <2>4 DEF MarkedItems, Stored
  <2>7. TypeInv'
    BY <2>3, <2>5 DEF TypeInv, TypeOK, MemOK
  <2>8. QED
    BY <2>3, <2>6, <2>7 DEF Quiet
<1>2. CASE Crash
  <2>1. /\ mem' = [c \in Callers |-> Idle] /\ loop' = [y \in Syncers |-> NoLoop]
        /\ UNCHANGED <<product, history, classified, replaced, pim, scrapes, misses>>
    BY <1>2 DEF Crash, tables
  <2>2. Idle \in Memory /\ MemOK(Idle) /\ NoLoop \in Loop
    BY TypesOfData DEF MemOK
  <2>3. \A c \in Callers : mem'[c] = Idle
    BY <2>1
  <2>4. Idle.pc = "idle"
    BY DEF Idle
  <2>4a. met' \subseteq Items /\ lost' \subseteq Items
    <3>1. met' = met /\ lost' = lost \cup {i \in Items : Recording(i) # {}}
      BY <1>2 DEF Crash
    <3>2. QED
      BY <3>1 DEF TypeInv, TypeOK
  <2>5. TypeInv'
    BY <2>1, <2>2, <2>3, <2>4a DEF TypeInv, TypeOK, MemOK
  <2>6. Quiet
    BY <2>1, <2>3, <2>4, SameMarks DEF Quiet
  <2>7. QED
    BY <2>5, <2>6
<1>3. CASE UNCHANGED vars
  BY <1>3, SameMarks DEF vars, TypeInv, TypeOK, MemOK, Quiet
<1>4. QED
  BY <1>1, <1>2, <1>3

(* What each step of Execute changes.  An error changes PIM only if the    *)
(* call took effect unheard.                                               *)
LEMMA SyncTypes ==
  ASSUME TypeInv, NEW c \in Callers, SyncStep(c)
  PROVE  /\ TypeInv' /\ KeyOf(c) \in Keys
         /\ \A d \in Callers \ {c} : mem'[d] = mem[d]
         /\ mem'[c].pc # "idle" => mem'[c].item = mem[c].item
<1>1. /\ mem \in [Callers -> Memory] /\ mem[c] \in Memory /\ mem[c].item \in Items
      /\ mem[c].pc # "record" /\ pim \in [Keys -> [count : Nat, typed : BOOLEAN]]
      /\ misses \in Nat
  BY DEF TypeInv, TypeOK, SyncStep, Search, CreateNew, UpdateExisting,
         SyncFails, MarkSynced
<1>2. KeyOf(c) \in Keys
  BY <1>1 DEF KeyOf
<1>3. PICK m : Turn(c, m) /\ (m.pc = "idle" \/ m.item = mem[c].item)
  <2>1. CASE mem' = [mem EXCEPT ![c] = Idle]
    <3>1. Idle.pc = "idle"
      BY DEF Idle
    <3>2. QED
      BY <2>1, <3>1, TypesOfData DEF Turn
  <2>2. ASSUME NEW pc \in {"patch", "create", "mark"},
               mem' = [mem EXCEPT ![c].pc = pc]
        PROVE  \E m : Turn(c, m) /\ (m.pc = "idle" \/ m.item = mem[c].item)
    <3> DEFINE m == [mem[c] EXCEPT !.pc = pc]
    <3>1. MemOK(m) /\ m.item = mem[c].item
      BY <1>1 DEF MemOK, Memory, Steps
    <3>2. mem' = [mem EXCEPT ![c] = m]
      BY <2>2
    <3>3. QED
      BY <3>1, <3>2 DEF Turn
  <2>3. QED
    BY <2>1, <2>2 DEF SyncStep, Search, CreateNew, UpdateExisting, SyncFails,
                      MarkSynced, Return
<1>4. pim' \in [Keys -> [count : Nat, typed : BOOLEAN]]
  <2>1. pim[KeyOf(c)].count + 1 \in Nat
        /\ (pim[KeyOf(c)].typed \/ mem[c].typed) \in BOOLEAN
    BY <1>1, <1>2 DEF Memory
  <2>2. CASE PIMCreates(c)
    BY <2>1, <2>2, <1>1, <1>2 DEF PIMCreates
  <2>3. CASE PIMPatches(c)
    <3> DEFINE t == pim[KeyOf(c)].typed \/ mem[c].typed
    <3>1. pim' = [pim EXCEPT ![KeyOf(c)] = [pim[KeyOf(c)] EXCEPT !.typed = t]]
      BY <2>3 DEF PIMPatches
    <3>2. t \in BOOLEAN
      BY <2>1
    <3> HIDE DEF t
    <3>3. QED
      BY <3>1, <3>2, <1>1, <1>2
  <2>4. UNCHANGED pim \/ PIMCreates(c) \/ PIMPatches(c)
    BY DEF SyncStep, Search, CreateNew, UpdateExisting, SyncFails, MarkSynced
  <2>5. QED
    BY <2>2, <2>3, <2>4, <1>1
<1>5. loop' \in [Syncers -> Loop]
  <2>1. loop \in [Syncers -> Loop]
    BY DEF TypeInv, TypeOK
  <2>2. CASE loop' = loop
    BY <2>1, <2>2
  <2>3. CASE c \in Syncers /\ loop' = [loop EXCEPT ![c].done = TRUE]
    <3> DEFINE l == [loop[c] EXCEPT !.done = TRUE]
    <3>1. l \in Loop
      BY <2>1, <2>3, ZenonT(60) DEF Loop
    <3>2. loop' = [loop EXCEPT ![c] = l]
      BY <2>3
    <3> HIDE DEF l
    <3>3. QED
      BY <2>1, <3>1, <3>2
  <2>4. QED
    BY <2>2, <2>3 DEF SyncStep, Search, CreateNew, UpdateExisting, SyncFails,
                      MarkSynced, Return
<1>6. product' \in [Items -> Product \cup {NoProduct}]
  <2>1. product \in [Items -> Product \cup {NoProduct}]
    BY DEF TypeInv, TypeOK
  <2> DEFINE i == mem[c].item
             row == [product[i] EXCEPT !.synced = TRUE]
  <2>2. product' = product \/ (Stored(i) /\ product' = [product EXCEPT ![i] = row])
    BY DEF SyncStep, Search, CreateNew, UpdateExisting, SyncFails, MarkSynced,
           MarkSyncedToPIM
  <2>3. ASSUME Stored(i)  PROVE row \in Product
    <3>1. product[i] \in Product
      BY <2>1, <2>3, <1>1 DEF Stored
    <3>2. QED
      BY <3>1 DEF Product
  <2> HIDE DEF row
  <2>4. QED
    BY <2>1, <2>2, <2>3, <1>1
<1>7. misses' \in Nat /\ SyncFrame
  <2>1. misses' = misses \/ misses' = misses + 1
    BY DEF SyncStep, Search, CreateNew, UpdateExisting, SyncFails, MarkSynced
  <2>2. SyncFrame
    BY DEF SyncStep, Search, CreateNew, UpdateExisting, SyncFails, MarkSynced
  <2>3. QED
    BY <2>1, <2>2, <1>1
<1>8. TypeInv'
  BY <1>3, <1>4, <1>5, <1>6, <1>7, TurnTyped
  DEF TypeInv, TypeOK, MemOK, SyncFrame, notes
<1>9. QED
  BY <1>2, <1>3, <1>8, TurnTyped

LEMMA InitTyped == Init => TypeInv
<1> SUFFICES ASSUME Init  PROVE TypeInv
  OBVIOUS
<1>1. /\ product \in [Items -> Product \cup {NoProduct}]
      /\ history \in [Items -> Seq(Prices)] /\ replaced \in [Items -> Seq(Prices)]
      /\ classified \subseteq Items
  BY DEF Init, TablesInit
<1>2. mem \in [Callers -> Memory] /\ loop \in [Syncers -> Loop]
  BY TypesOfData DEF Init, MemOK
<1>3. pim \in [Keys -> [count : Nat, typed : BOOLEAN]] /\ scrapes \in Nat /\ misses \in Nat
      /\ met \subseteq Items /\ lost \subseteq Items
  BY DEF Init
<1>4. \A c \in Callers : MemOK(mem[c])
  BY TypesOfData DEF Init
<1>5. QED
  BY <1>1, <1>2, <1>3, <1>4 DEF TypeInv, TypeOK, MemOK

(* Every step is quiet, or one of Execute.                                 *)
LEMMA StepKinds ==
  ASSUME TypeInv, [Next]_vars
  PROVE  TypeInv' /\ (Quiet \/ \E c \in Callers : SyncStep(c))
<1>1. ASSUME NEW w \in Workers, Scrape(w) \/ WorkerStep(w)
      PROVE  TypeInv' /\ Quiet
  BY <1>1, ScrapeSteps, WorkerSteps
<1>2. ASSUME NEW c \in Callers, SyncStep(c)  PROVE TypeInv'
  BY <1>2, SyncTypes
<1>3. ASSUME NEW y \in Syncers, StartSync(y) \/ RequestStep(y)
      PROVE  TypeInv' /\ Quiet
  BY <1>3, RequestSteps
<1>4. QED
  BY <1>1, <1>2, <1>3, OtherSteps DEF Next

(* Tables, memories and PIM keep their types, whatever callers do.         *)
THEOREM TypeCorrect == Spec => []TypeOK
<1>1. TypeInv /\ [Next]_vars => TypeInv'
  BY StepKinds
<1>2. TypeInv => TypeOK
  BY DEF TypeInv
<1>3. QED
  BY InitTyped, <1>1, <1>2, PTL DEF Spec
-----------------------------------------------------------------------------
(* PIM has the product of a caller that is about to update it or to mark   *)
(* its item, and of every item that is marked.                             *)
PublishedInv ==
  /\ \A c \in Callers :
       mem[c].pc \in {"patch", "mark"} => KeyOf(c) \in PublishedKeys
  /\ \A i \in MarkedItems : Key[i] \in PublishedKeys

(* Each step of Execute, seen from PIM and from the marks.                 *)
LEMMA SyncEffect ==
  ASSUME TypeInv, PublishedInv, NEW c \in Callers, SyncStep(c)
  PROVE  /\ PublishedKeys \subseteq PublishedKeys'
         /\ PublishedKeys' \subseteq PublishedKeys \cup {KeyOf(c)}
         /\ mem'[c].pc \in {"patch", "mark"} => KeyOf(c) \in PublishedKeys'
         /\ \/ MarkedItems' = MarkedItems
            \/ /\ MarkedItems' = MarkedItems \cup {mem[c].item}
               /\ KeyOf(c) \in PublishedKeys
               /\ PublishedKeys' = PublishedKeys
<1>1. /\ mem \in [Callers -> Memory] /\ mem[c].item \in Items /\ KeyOf(c) \in Keys
      /\ pim \in [Keys -> [count : Nat, typed : BOOLEAN]]
      /\ product \in [Items -> Product \cup {NoProduct}]
  BY SyncTypes DEF TypeInv, TypeOK, SyncStep, Search, CreateNew,
     UpdateExisting, SyncFails, MarkSynced
<1>2. ASSUME UNCHANGED pim  PROVE PublishedKeys' = PublishedKeys
  BY <1>2 DEF PublishedKeys
<1>3. ASSUME PIMCreates(c)
      PROVE  PublishedKeys' = PublishedKeys \cup {KeyOf(c)}
  <2>1. \A k \in Keys : pim'[k].count = IF k = KeyOf(c) THEN pim[k].count + 1
                                                       ELSE pim[k].count
    BY <1>1, <1>3 DEF PIMCreates
  <2>2. QED
    BY <2>1, <1>1 DEF PublishedKeys
<1>4. ASSUME PIMPatches(c)  PROVE PublishedKeys' = PublishedKeys
  <2>1. \A k \in Keys : pim'[k].count = pim[k].count
    BY <1>1, <1>4 DEF PIMPatches
  <2>2. QED
    BY <2>1 DEF PublishedKeys
<1>5. \A pc : mem' = [mem EXCEPT ![c].pc = pc] => mem'[c].pc = pc
  BY <1>1 DEF Memory
<1>6. mem' = [mem EXCEPT ![c] = Idle] => mem'[c].pc = "idle"
  BY <1>1 DEF Idle
<1>7. CASE Search(c)
  <2>1. mem'[c].pc = "patch" => KeyOf(c) \in PublishedKeys
    BY <1>1, <1>5, <1>7 DEF Search, PublishedKeys
  <2>2. mem'[c].pc # "mark" /\ UNCHANGED <<pim, product>>
    BY <1>5, <1>7 DEF Search
  <2>3. QED
    BY <2>1, <2>2, <1>2, SameMarks
<1>8. CASE CreateNew(c)
  BY <1>3, <1>8, SameMarks DEF CreateNew
<1>9. CASE UpdateExisting(c)
  BY <1>4, <1>9, SameMarks DEF UpdateExisting, PublishedInv
<1>10. CASE SyncFails(c)
  <2>1. mem'[c].pc = "idle" /\ MarkedItems' = MarkedItems
    BY <1>6, <1>10, SameMarks DEF SyncFails, Return
  <2>2. UNCHANGED pim \/ PIMCreates(c) \/ PIMPatches(c)
    BY <1>10 DEF SyncFails
  <2>3. QED
    BY <2>1, <2>2, <1>2, <1>3, <1>4
<1>11. CASE MarkSynced(c)
  <2>1. mem'[c].pc = "idle" /\ PublishedKeys' = PublishedKeys
        /\ KeyOf(c) \in PublishedKeys
    BY <1>2, <1>6, <1>11 DEF MarkSynced, Return, PublishedInv
  <2> DEFINE i == mem[c].item
             row == [product[i] EXCEPT !.synced = TRUE]
  <2>2. UNCHANGED product \/ (Stored(i) /\ product' = [product EXCEPT ![i] = row])
    BY <1>11 DEF MarkSynced, MarkSyncedToPIM
  <2>3. ASSUME Stored(i), product' = [product EXCEPT ![i] = row]
        PROVE  MarkedItems' = MarkedItems \cup {i}
    <3>1. product[i] \in Product
      BY <2>3, <1>1 DEF Stored
    <3>2. row \in Product /\ row.synced = TRUE
      BY <3>1 DEF Product
    <3> HIDE DEF row
    <3>3. QED
      BY <2>3, <3>2, <1>1 DEF MarkedItems, Stored
  <2>4. QED
    BY <2>1, <2>2, <2>3, SameMarks
<1>12. QED
  BY <1>7, <1>8, <1>9, <1>10, <1>11 DEF SyncStep

LEMMA PublishedInductive ==
  ASSUME TypeInv, PublishedInv, [Next]_vars
  PROVE  PublishedInv' /\ [Abstract!Next]_<<PublishedKeys, MarkedItems>>
<1>1. CASE Quiet
  <2>1. PublishedKeys' = PublishedKeys /\ MarkedItems' = MarkedItems
    BY <1>1 DEF Quiet, PublishedKeys
  <2>2. ASSUME NEW d \in Callers, mem'[d].pc \in {"patch", "mark"}
        PROVE  KeyOf(d)' \in PublishedKeys'
    BY <1>1, <2>1, <2>2 DEF Quiet, KeyOf, PublishedInv
  <2>3. QED
    BY <2>1, <2>2 DEF PublishedInv
<1>2. ASSUME NEW c \in Callers, SyncStep(c)
      PROVE  PublishedInv' /\ [Abstract!Next]_<<PublishedKeys, MarkedItems>>
  <2>1. mem[c].item \in Items /\ KeyOf(c) \in Keys
    BY <1>2, SyncTypes DEF TypeInv, TypeOK, SyncStep, Search, CreateNew,
       UpdateExisting, SyncFails, MarkSynced
  <2>2. ASSUME NEW d \in Callers, mem'[d].pc \in {"patch", "mark"}
        PROVE  KeyOf(d)' \in PublishedKeys'
    <3>1. CASE d = c
      <4>1. KeyOf(c)' = KeyOf(c)
        BY <1>2, <2>2, <3>1, SyncTypes DEF KeyOf
      <4>2. QED
        BY <1>2, <2>2, <3>1, <4>1, SyncEffect
    <3>2. CASE d # c
      <4>1. mem'[d] = mem[d]
        BY <1>2, <3>2, SyncTypes
      <4>2. KeyOf(d)' = KeyOf(d) /\ KeyOf(d) \in PublishedKeys
        BY <2>2, <4>1 DEF KeyOf, PublishedInv
      <4>3. QED
        BY <1>2, <4>2, SyncEffect
    <3>3. QED
      BY <3>1, <3>2
  <2>3. \A i \in MarkedItems' : Key[i] \in PublishedKeys'
    BY <1>2, SyncEffect DEF PublishedInv, KeyOf
  <2>4. [Abstract!Next]_<<PublishedKeys, MarkedItems>>
    <3>1. CASE MarkedItems' = MarkedItems
      <4>1. PublishedKeys' = PublishedKeys
            \/ PublishedKeys' = PublishedKeys \cup {KeyOf(c)}
        BY <1>2, SyncEffect, ZenonT(60)
      <4>2. QED
        BY <3>1, <4>1, <2>1 DEF Abstract!Next, Abstract!Publish
    <3>2. CASE MarkedItems' # MarkedItems
      <4>1. /\ MarkedItems' = MarkedItems \cup {mem[c].item}
            /\ KeyOf(c) \in PublishedKeys /\ PublishedKeys' = PublishedKeys
        BY <1>2, <3>2, SyncEffect
      <4>2. QED
        BY <4>1, <2>1 DEF Abstract!Next, Abstract!Mark, KeyOf
    <3>3. QED
      BY <3>1, <3>2
  <2>5. QED
    BY <2>2, <2>3, <2>4 DEF PublishedInv
<1>3. QED
  BY <1>1, <1>2, StepKinds

(* Whatever fails, is repeated or dies half-way, the tables and PIM        *)
(* implement Publication: synced_to_pim_at implies that PIM has the        *)
(* product, and is never lost.                                             *)
THEOREM PublicationImplemented == Spec => MarkFollowsPublication
<1>1. Init => PublishedInv /\ Abstract!Init
  <2> SUFFICES ASSUME Init  PROVE PublishedInv /\ Abstract!Init
    OBVIOUS
  <2>1. PublishedKeys = {} /\ MarkedItems = {}
    BY DEF Init, TablesInit, PublishedKeys, MarkedItems, Stored
  <2>2. \A c \in Callers : mem[c].pc = "idle"
    BY DEF Init, Idle
  <2>3. QED
    BY <2>1, <2>2 DEF PublishedInv, Abstract!Init
<1>2. TypeInv /\ [Next]_vars => TypeInv'
  BY StepKinds
<1>3. TypeInv /\ PublishedInv /\ [Next]_vars
      => PublishedInv' /\ [Abstract!Next]_<<PublishedKeys, MarkedItems>>
  BY PublishedInductive
<1>4. QED
  BY InitTyped, <1>1, <1>2, <1>3, PTL
     DEF Spec, MarkFollowsPublication, Abstract!Spec
-----------------------------------------------------------------------------
(* The callers that have found no product for k and are about to create it *)
(* count as if they had.                                                   *)
Creating(k) == {c \in Callers : mem[c].pc = "create" /\ KeyOf(c) = k}
CreationInv ==
  \A k \in Keys :
    pim[k].count + Cardinality(Creating(k)) <= Cardinality(Callers) + misses

LEMMA CreatingFinite ==
  ASSUME NEW k
  PROVE  /\ IsFiniteSet(Creating(k)) /\ Cardinality(Creating(k)) \in Nat
         /\ Cardinality(Creating(k)) <= Cardinality(Callers)
         /\ Cardinality(Callers) \in Nat
<1>1. Creating(k) \subseteq Callers
  BY DEF Creating
<1>2. QED
  BY <1>1, FS_Subset, FS_CardinalityType

LEMMA CreatingShrinks ==
  ASSUME NEW k, Creating(k)' \subseteq Creating(k)
  PROVE  Cardinality(Creating(k)') \in Nat
         /\ Cardinality(Creating(k)') <= Cardinality(Creating(k))
BY CreatingFinite, FS_Subset, FS_CardinalityType

(* What a step of Execute does to one key: it leaves it alone, or a search *)
(* finds nothing, or overlooks a product, or a product is created.         *)
LEMMA CreationStep ==
  ASSUME TypeInv, NEW c \in Callers, SyncStep(c), NEW k \in Keys
  PROVE  \/ /\ pim'[k].count = pim[k].count /\ misses' >= misses
            /\ Creating(k)' \subseteq Creating(k)
         \/ /\ pim'[k].count = 0 /\ misses' = misses
         \/ /\ pim'[k].count = pim[k].count /\ misses' = misses + 1
            /\ Creating(k)' \subseteq Creating(k) \cup {c}
         \/ /\ pim'[k].count = pim[k].count + 1 /\ misses' = misses
            /\ c \in Creating(k) /\ Creating(k)' \subseteq Creating(k) \ {c}
<1>1. /\ mem \in [Callers -> Memory] /\ KeyOf(c) \in Keys
      /\ pim \in [Keys -> [count : Nat, typed : BOOLEAN]] /\ misses \in Nat
  BY SyncTypes DEF TypeInv, TypeOK
<1>2. ASSUME NEW d \in Callers, d # c
      PROVE  mem'[d].pc = mem[d].pc /\ KeyOf(d)' = KeyOf(d)
  BY <1>2, SyncTypes DEF KeyOf
<1>3. Creating(k)' \subseteq Creating(k) \cup {c}
  BY <1>2 DEF Creating
<1>4. ASSUME mem'[c].pc # "create"  PROVE Creating(k)' \subseteq Creating(k) \ {c}
  BY <1>2, <1>4 DEF Creating
<1>5. \A pc : mem' = [mem EXCEPT ![c].pc = pc] => mem'[c].pc = pc
  BY <1>1 DEF Memory
<1>6. mem' = [mem EXCEPT ![c] = Idle] => mem'[c].pc = "idle"
  BY <1>1 DEF Idle
<1>7. PIMPatches(c) => pim'[k].count = pim[k].count
  BY <1>1 DEF PIMPatches
<1>8. PIMCreates(c) => pim'[k].count = IF k = KeyOf(c) THEN pim[k].count + 1
                                                       ELSE pim[k].count
  BY <1>1 DEF PIMCreates
<1>9. CASE Search(c)
  <2>1. UNCHANGED pim /\ (misses' = misses \/ misses' = misses + 1)
    BY <1>9 DEF Search
  <2>2. CASE mem'[c].pc # "create"
    BY <2>1, <2>2, <1>1, <1>4
  <2>3. CASE mem'[c].pc = "create"
    <3>1. \/ pim[KeyOf(c)].count = 0 /\ misses' = misses
          \/ misses' = misses + 1
      BY <2>3, <1>5, <1>9 DEF Search
    <3>2. CASE k = KeyOf(c)
      BY <3>1, <3>2, <2>1, <1>3
    <3>3. CASE k # KeyOf(c)
      <4>1. KeyOf(c)' = KeyOf(c)
        BY <2>3, SyncTypes DEF KeyOf
      <4>2. Creating(k)' \subseteq Creating(k)
        BY <3>3, <4>1, <1>3 DEF Creating
      <4>3. QED
        BY <4>2, <2>1, <1>1
    <3>4. QED
      BY <3>2, <3>3
  <2>4. QED
    BY <2>2, <2>3
<1>10. CASE ~Search(c)
  <2>1. mem'[c].pc # "create" /\ UNCHANGED misses
    BY <1>5, <1>6, <1>10 DEF SyncStep, CreateNew, UpdateExisting, SyncFails,
                             MarkSynced, Return
  <2>2. Creating(k)' \subseteq Creating(k) \ {c}
    BY <2>1, <1>4
  <2>3. CASE PIMCreates(c) /\ mem[c].pc = "create" /\ k = KeyOf(c)
    <3>1. c \in Creating(k)
      BY <2>3 DEF Creating
    <3>2. QED
      BY <2>1, <2>2, <2>3, <3>1, <1>8
  <2>4. CASE pim'[k].count = pim[k].count
    BY <2>1, <2>2, <2>4, <1>1
  <2>5. UNCHANGED pim \/ PIMPatches(c) \/ (PIMCreates(c) /\ mem[c].pc = "create")
    BY <1>10 DEF SyncStep, CreateNew, UpdateExisting, SyncFails, MarkSynced
  <2>6. QED
    BY <2>3, <2>4, <2>5, <1>7, <1>8
<1>11. QED
  BY <1>9, <1>10

LEMMA CreationInductive ==
  ASSUME TypeInv, CreationInv, [Next]_vars
  PROVE  CreationInv'
<1> SUFFICES ASSUME NEW k \in Keys
             PROVE  pim'[k].count + Cardinality(Creating(k)')
                      <= Cardinality(Callers) + misses'
  BY DEF CreationInv
<1> DEFINE n == Cardinality(Creating(k))
           n1 == Cardinality(Creating(k)')
           bound == Cardinality(Callers)
<1>1. /\ pim[k].count \in Nat /\ misses \in Nat /\ n \in Nat /\ bound \in Nat
      /\ pim[k].count + n <= bound + misses
  BY CreatingFinite DEF TypeInv, TypeOK, CreationInv
<1>2. Creating(k)' \subseteq Creating(k) => n1 \in Nat /\ n1 <= n
  BY CreatingShrinks
<1>3. n1 \in Nat /\ n1 <= bound
  <2>1. Creating(k)' \subseteq Callers
    BY DEF Creating
  <2>2. QED
    BY <2>1, FS_Subset, FS_CardinalityType
<1>4. ASSUME NEW c \in Callers, Creating(k)' \subseteq Creating(k) \cup {c}
      PROVE  n1 <= n + 1
  <2> DEFINE S == Creating(k) \cup {c}
  <2>1. IsFiniteSet(S) /\ Cardinality(S) \in Nat /\ Cardinality(S) <= n + 1
    <3>1. IsFiniteSet(Creating(k))
      BY CreatingFinite
    <3>2. IsFiniteSet(S) /\ (Cardinality(S) = n \/ Cardinality(S) = n + 1)
      BY <3>1, FS_AddElement
    <3> HIDE DEF n, S
    <3>3. QED
      BY <3>2, <1>1
  <2>2. IsFiniteSet(S) /\ Creating(k)' \in SUBSET S
    BY <1>4, <2>1
  <2>3. n1 <= Cardinality(S)
    BY <2>2, FS_Subset
  <2>4. QED
    BY <2>1, <2>3, <1>1, <1>3
<1>5. ASSUME NEW c \in Creating(k), Creating(k)' \subseteq Creating(k) \ {c}
      PROVE  n1 <= n - 1
  <2> DEFINE S == Creating(k) \ {c}
  <2>1. IsFiniteSet(S) /\ Cardinality(S) = n - 1
    BY CreatingFinite, FS_RemoveElement
  <2>2. n1 <= Cardinality(S)
    BY <1>5, <2>1, FS_Subset
  <2>3. QED
    BY <2>1, <2>2
<1> HIDE DEF n, n1, bound
<1>6. CASE Quiet
  <2>1. Creating(k)' \subseteq Creating(k) /\ pim' = pim /\ misses' = misses
    BY <1>6 DEF Quiet, Creating, KeyOf
  <2>2. QED
    BY <2>1, <1>1, <1>2 DEF n1, bound
<1>7. ASSUME NEW c \in Callers, SyncStep(c)
      PROVE  pim'[k].count + n1 <= bound + misses'
  <2>1. CASE /\ pim'[k].count = pim[k].count /\ misses' >= misses
             /\ Creating(k)' \subseteq Creating(k)
    <3>1. misses' \in Nat
      BY <1>7, SyncTypes DEF TypeInv, TypeOK
    <3>2. QED
      BY <2>1, <3>1, <1>1, <1>2
  <2>2. CASE pim'[k].count = 0 /\ misses' = misses
    BY <2>2, <1>1, <1>3
  <2>3. CASE /\ pim'[k].count = pim[k].count /\ misses' = misses + 1
             /\ Creating(k)' \subseteq Creating(k) \cup {c}
    BY <2>3, <1>1, <1>3, <1>4
  <2>4. CASE /\ pim'[k].count = pim[k].count + 1 /\ misses' = misses
             /\ c \in Creating(k) /\ Creating(k)' \subseteq Creating(k) \ {c}
    BY <2>4, <1>1, <1>3, <1>5
  <2>5. QED
    BY <1>7, <2>1, <2>2, <2>3, <2>4, CreationStep
<1>8. QED
  BY <1>6, <1>7, StepKinds DEF n1, bound

(* PIM never has more products for a key than callers can create at the    *)
(* same time, plus one for each search that overlooked one: errors, lost   *)
(* answers, retries and crashes add none.                                  *)
THEOREM DuplicatesAreBounded == Spec => []DuplicatesBounded
<1>1. Init => CreationInv
  <2> SUFFICES ASSUME Init, NEW k \in Keys
               PROVE  pim[k].count + Cardinality(Creating(k))
                        <= Cardinality(Callers) + misses
    BY DEF CreationInv
  <2>1. pim[k].count = 0 /\ misses = 0
    BY DEF Init
  <2>2. QED
    BY <2>1, CreatingFinite
<1>2. TypeInv /\ [Next]_vars => TypeInv'
  BY StepKinds
<1>3. TypeInv /\ CreationInv /\ [Next]_vars => CreationInv'
  BY CreationInductive
<1>4. TypeInv /\ CreationInv => DuplicatesBounded
  <2> SUFFICES ASSUME TypeInv, CreationInv, NEW k \in Keys
               PROVE  pim[k].count <= Cardinality(Callers) + misses
    BY DEF DuplicatesBounded
  <2>1. /\ pim[k].count \in Nat /\ misses \in Nat
        /\ pim[k].count + Cardinality(Creating(k)) <= Cardinality(Callers) + misses
    BY DEF TypeInv, TypeOK, CreationInv
  <2>2. QED
    BY <2>1, CreatingFinite
<1>5. QED
  BY InitTyped, <1>1, <1>2, <1>3, <1>4, PTL DEF Spec
-----------------------------------------------------------------------------
(***************************************************************************)
(* What happens to the scraped columns of a row: only an upsert writes     *)
(* them, and only if the row is neither blocked nor hidden.                *)
(***************************************************************************)
KeepsRow(i) ==
  /\ product'[i] = NoProduct <=> product[i] = NoProduct
  /\ Stored(i) => /\ product'[i].price = product[i].price
                  /\ product'[i].fields = product[i].fields
                  /\ product'[i].seen = product[i].seen
                  /\ product[i].hidden => product'[i].hidden

(* A step that is no worker's own: no row changes its price, no price is   *)
(* recorded, no worker begins to save or to record one, and none forgets   *)
(* to without a note: the process ends.                                    *)
Apart ==
  /\ \A i \in Items : KeepsRow(i)
  /\ UNCHANGED <<history, replaced>>
  /\ \A w \in Workers :
       \/ mem'[w].pc \in {"saveKnown", "saveNew", "record"}
       \/ mem[w].pc = "record" /\ mem[w].item \notin lost'
       => mem'[w] = mem[w]

LEMMA RowsAreKept ==
  ASSUME TypeInv, NEW i \in Items, NEW r \in Product, Stored(i),
         product' = [product EXCEPT ![i] = r],
         r.price = product[i].price, r.fields = product[i].fields,
         r.seen = product[i].seen, product[i].hidden => r.hidden
  PROVE  \A j \in Items : KeepsRow(j)
<1>1. product \in [Items -> Product \cup {NoProduct}] /\ r # NoProduct
  BY DEF TypeInv, TypeOK
<1>2. ASSUME NEW j \in Items  PROVE KeepsRow(j)
  <2>1. CASE j = i
    BY <1>1, <2>1 DEF KeepsRow, Stored
  <2>2. CASE j # i
    BY <1>1, <2>2 DEF KeepsRow
  <2>3. QED
    BY <2>1, <2>2
<1>3. QED
  BY <1>2

LEMMA SyncIsApart ==
  ASSUME TypeInv, NEW c \in Callers, SyncStep(c)
  PROVE  Apart
<1>1. mem[c] \in Memory /\ mem[c].item \in Items
  BY DEF TypeInv, TypeOK, SyncStep, Search, CreateNew, UpdateExisting,
         SyncFails, MarkSynced
<1>2. UNCHANGED <<history, replaced>>
  BY DEF SyncStep, Search, CreateNew, UpdateExisting, SyncFails, MarkSynced,
         SyncFrame
<1>3. \A i \in Items : KeepsRow(i)
  <2> DEFINE i == mem[c].item
             row == [product[i] EXCEPT !.synced = TRUE]
  <2>1. product' = product \/ (Stored(i) /\ product' = [product EXCEPT ![i] = row])
    BY DEF SyncStep, Search, CreateNew, UpdateExisting, SyncFails, MarkSynced,
           MarkSyncedToPIM
  <2>2. CASE product' = product
    BY <2>2 DEF KeepsRow
  <2>3. CASE Stored(i) /\ product' = [product EXCEPT ![i] = row]
    <3>1. product[i] \in Product
      BY <1>1, <2>3 DEF Stored, TypeInv, TypeOK
    <3>2. /\ row \in Product /\ row.price = product[i].price
          /\ row.fields = product[i].fields /\ row.seen = product[i].seen
          /\ row.hidden = product[i].hidden
      BY <3>1 DEF Product
    <3> HIDE DEF row
    <3>3. QED
      BY <1>1, <2>3, <3>2, RowsAreKept
  <2>4. QED
    BY <2>1, <2>2, <2>3
<1>4. mem'[c].pc \notin {"saveKnown", "saveNew", "record"}
  <2>1. mem \in [Callers -> Memory] /\ Idle.pc = "idle"
    BY DEF TypeInv, TypeOK, Idle
  <2>2. \A pc : mem' = [mem EXCEPT ![c].pc = pc] => mem'[c].pc = pc
    BY <1>1, <2>1 DEF Memory
  <2>3. mem' = [mem EXCEPT ![c] = Idle] => mem'[c].pc = "idle"
    BY <2>1
  <2>4. QED
    BY <2>2, <2>3 DEF SyncStep, Search, CreateNew, UpdateExisting, SyncFails,
                      MarkSynced, Return
<1>5. \A w \in Workers :
        \/ mem'[w].pc \in {"saveKnown", "saveNew", "record"}
        \/ mem[w].pc = "record" /\ mem[w].item \notin lost'
        => mem'[w] = mem[w]
  <2>1. mem[c].pc # "record"
    BY DEF SyncStep, Search, CreateNew, UpdateExisting, SyncFails, MarkSynced
  <2>2. QED
    BY <1>4, <2>1, SyncTypes DEF Callers
<1>6. QED
  BY <1>2, <1>3, <1>5 DEF Apart

LEMMA RequestIsApart ==
  ASSUME TypeInv, NEW y \in Syncers, StartSync(y) \/ RequestStep(y)
  PROVE  Apart
<1>1. UNCHANGED tables
  BY DEF StartSync, RequestStep, FetchPage, EndPage, NextProduct, RequestFrame
<1>2. y \notin Workers /\ mem \in [Callers -> Memory]
  BY DEF TypeInv, TypeOK
<1>3. \A w \in Workers : mem'[w] = mem[w]
  <2>1. CASE UNCHANGED mem
    BY <2>1
  <2>2. ASSUME NEW m, ToSync(y, m)  PROVE \A w \in Workers : mem'[w] = mem[w]
    <3>1. \E x : mem' = [mem EXCEPT ![y] = x]
      BY <2>2 DEF ToSync
    <3>2. QED
      BY <1>2, <3>1
  <2>3. UNCHANGED mem \/ \E m : ToSync(y, m)
    BY DEF StartSync, RequestStep, FetchPage, EndPage, NextProduct
  <2>4. QED
    BY <2>1, <2>2, <2>3
<1>4. QED
  BY <1>1, <1>3 DEF Apart, tables, KeepsRow

LEMMA OthersAreApart ==
  ASSUME TypeInv, (\E i \in Items : Moderate(i)) \/ Crash \/ UNCHANGED vars
  PROVE  Apart
<1>1. ASSUME NEW i \in Items, Moderate(i)  PROVE Apart
  <2>1. product[i] \in Product /\ Stored(i)
    BY <1>1 DEF Moderate, SoftDelete, UpdateBlocked, Stored, TypeInv, TypeOK
  <2>2. PICK r \in Product :
          /\ product' = [product EXCEPT ![i] = r]
          /\ r.price = product[i].price /\ r.fields = product[i].fields
          /\ r.seen = product[i].seen /\ (product[i].hidden => r.hidden)
    <3>1. CASE SoftDelete(i)
      <4> DEFINE r == [product[i] EXCEPT !.hidden = TRUE]
      <4>1. /\ r \in Product /\ r.price = product[i].price
            /\ r.fields = product[i].fields /\ r.seen = product[i].seen
            /\ r.hidden
        BY <2>1 DEF Product
      <4>2. product' = [product EXCEPT ![i] = r]
        BY <3>1 DEF SoftDelete
      <4> HIDE DEF r
      <4>3. QED
        BY <4>1, <4>2
    <3>2. ASSUME NEW b \in BOOLEAN, UpdateBlocked(i, b)
          PROVE  \E r \in Product :
                   /\ product' = [product EXCEPT ![i] = r]
                   /\ r.price = product[i].price /\ r.fields = product[i].fields
                   /\ r.seen = product[i].seen /\ (product[i].hidden => r.hidden)
      <4> DEFINE r == [product[i] EXCEPT !.blocked = b]
      <4>1. /\ r \in Product /\ r.price = product[i].price
            /\ r.fields = product[i].fields /\ r.seen = product[i].seen
            /\ r.hidden = product[i].hidden
        BY <2>1 DEF Product
      <4>2. product' = [product EXCEPT ![i] = r]
        BY <3>2 DEF UpdateBlocked
      <4> HIDE DEF r
      <4>3. QED
        BY <4>1, <4>2
    <3>3. QED
      BY <1>1, <3>1, <3>2 DEF Moderate
  <2>3. \A j \in Items : KeepsRow(j)
    BY <2>1, <2>2, RowsAreKept
  <2>4. UNCHANGED <<history, replaced, mem>>
    BY <1>1 DEF Moderate
  <2>5. QED
    BY <2>3, <2>4 DEF Apart
<1>2. CASE Crash
  <2>1. UNCHANGED <<product, history, replaced>>
        /\ \A w \in Workers : mem'[w].pc = "idle"
    BY <1>2 DEF Crash, tables, Callers, Idle
  <2>2. ASSUME NEW w \in Workers, mem[w].pc = "record"
        PROVE  mem[w].item \in lost'
    <3>1. mem[w].item \in Items /\ w \in Recording(mem[w].item)
      BY <2>2 DEF TypeInv, TypeOK, Callers, Recording, Busy
    <3>2. QED
      BY <1>2, <3>1 DEF Crash
  <2>3. QED
    BY <2>1, <2>2 DEF Apart, KeepsRow
<1>3. CASE UNCHANGED vars
  BY <1>3 DEF vars, Apart, KeepsRow
<1>4. QED
  BY <1>1, <1>2, <1>3

LEMMA UpsertSparesFrozen ==
  ASSUME TypeInv, NEW i \in Items, NEW c \in Product,
         Upsert(i, c) \/ UNCHANGED product,
         NEW j \in Items, Stored(j), product[j].blocked \/ product[j].hidden
  PROVE  product'[j] = product[j]
<1>1. CASE UNCHANGED product
  BY <1>1
<1>2. CASE Upsert(i, c)
  <2>1. j # i
    BY <1>2 DEF Upsert, Accepts
  <2>2. QED
    BY <1>2, <2>1 DEF Upsert, TypeInv, TypeOK
<1>3. QED
  BY <1>1, <1>2

(* A worker whose copy was read before its row was blocked or hidden       *)
(* writes nothing over it (the property FrozenIsUntouched of the run).     *)
THEOREM FrozenRowsStay == Spec => FrozenIsUntouched
<1> DEFINE Spared == \A i \in Items :
             Stored(i) /\ (product[i].blocked \/ product[i].hidden)
             => /\ product'[i].price = product[i].price
                /\ product'[i].fields = product[i].fields
                /\ product'[i].seen = product[i].seen
                /\ product[i].hidden => product'[i].hidden
<1>1. ASSUME TypeInv, [Next]_vars  PROVE Spared
  <2>1. CASE Apart
    BY <2>1 DEF Apart, KeepsRow
  <2>2. ASSUME NEW w \in Workers, Scrape(w)  PROVE Spared
    BY <2>2 DEF Scrape, LookUpKnown, LookUpNew, tables
  <2>3. ASSUME NEW w \in Workers, WorkerStep(w)  PROVE Spared
    <3>1. mem[w] \in Memory /\ mem[w].item \in Items
      BY <1>1, <2>3 DEF TypeInv, TypeOK, Callers, WorkerStep, SaveKnown,
         SaveKnownFails, RecordPrice, SaveNew, SaveNewFails, AssignType
    <3>2. mem[w].copy \in Product
      BY <3>1 DEF Memory
    <3>3. Upsert(mem[w].item, mem[w].copy) \/ UNCHANGED product
      BY <2>3 DEF WorkerStep, SaveKnown, SaveKnownFails, SaveIsRefused,
                  RecordPrice, SaveNew, SaveNewFails, AssignType
    <3>4. QED
      BY <1>1, <3>1, <3>2, <3>3, UpsertSparesFrozen
  <2>4. QED
    BY <1>1, <2>1, <2>2, <2>3, SyncIsApart, RequestIsApart, OthersAreApart
       DEF Next
<1>2. TypeInv /\ [Next]_vars => TypeInv'
  BY StepKinds
<1>3. QED
  BY InitTyped, <1>1, <1>2, PTL DEF Spec, FrozenIsUntouched
-----------------------------------------------------------------------------
(***************************************************************************)
(* The price history of an item that no two workers have been busy with at *)
(* once, and of which no call has lost a price: the notes tell which.      *)
(* Prices are in cents: a price that the column rounds to the one it had   *)
(* replaces nothing, and is recorded.                                      *)
(***************************************************************************)
InCents == \A p \in Prices : Rounded[p] = p

(* An item is noted, or one worker at most is busy with it.                *)
AloneInv == \A i \in Items \ met : \A v, w \in Busy(i) : v = w

(* Between a worker's look at the table and its upsert nobody changes the  *)
(* price of the row; the one it means to record is the one it replaces.    *)
AgreesWithRow(m) ==
  /\ m.pc = "saveKnown" =>
       /\ Stored(m.item)
       /\ m.old = IF product[m.item].price \in {NoPrice, m.copy.price}
                  THEN NoPrice ELSE product[m.item].price
  /\ m.pc = "saveNew" => ~Stored(m.item)
PriceInv == \A w \in Workers :
              mem[w].item \notin met \cup lost => AgreesWithRow(mem[w])

(* What worker w does to the history: nothing; it records the price it     *)
(* means to; or it replaces one, which it then means to record.            *)
LeavesHistory(w) ==
  /\ UNCHANGED <<history, replaced>>
  /\ mem[w].pc # "record" /\ mem'[w].pc # "record"
Records(w) ==
  /\ mem[w].pc = "record" /\ mem'[w].pc # "record"
  /\ history' = [history EXCEPT ![mem[w].item] = Append(@, mem[w].old)]
  /\ UNCHANGED replaced
Replaces(w) ==
  LET i == mem[w].item
      p == product[i].price
  IN  /\ mem[w].pc \in {"saveKnown", "saveNew"} /\ i \in Items /\ p \in Prices
      /\ replaced' = [replaced EXCEPT ![i] = Append(@, p)]
      /\ UNCHANGED history
      /\ mem'[w].pc = "record" /\ mem'[w].item = i /\ mem'[w].old = p

LEMMA AfterSync ==
  ASSUME TypeInv, NEW w \in Workers, NEW m, ToSync(w, m)
  PROVE  mem'[w].pc \in {"idle", "search"}
BY DEF ToSync, TypeInv, TypeOK, Callers, Idle

(* What has been noted stays noted.                                        *)
LEMMA NotesStay ==
  ASSUME [Next]_vars
  PROVE  met \subseteq met' /\ lost \subseteq lost'
<1>1. ASSUME NEW w \in Workers, Scrape(w)
      PROVE  met \subseteq met' /\ lost \subseteq lost'
  BY <1>1 DEF Scrape, LookUpKnown, LookUpNew, Meets, Loses
<1>2. ASSUME NEW w \in Workers, WorkerStep(w)
      PROVE  met \subseteq met' /\ lost \subseteq lost'
  BY <1>2 DEF WorkerStep, SaveKnown, SaveKnownFails, SaveIsRefused,
              RecordPrice, SaveNew, SaveNewFails, AssignType, Loses, notes
<1>3. ASSUME NEW c \in Callers, SyncStep(c)
      PROVE  met \subseteq met' /\ lost \subseteq lost'
  BY <1>3 DEF SyncStep, Search, CreateNew, UpdateExisting, SyncFails,
              MarkSynced, SyncFrame, notes
<1>4. ASSUME NEW y \in Syncers, StartSync(y) \/ RequestStep(y)
      PROVE  met \subseteq met' /\ lost \subseteq lost'
  BY <1>4 DEF StartSync, RequestStep, FetchPage, EndPage, NextProduct,
              RequestFrame, notes
<1>5. QED
  BY <1>1, <1>2, <1>3, <1>4 DEF Next, Moderate, Crash, vars, notes

(* A save that takes effect, of a copy that was read or made for a row.    *)
LEMMA UpsertReplaces ==
  ASSUME TypeInv, InCents, NEW i \in Items, NEW c \in Product, Upsert(i, c)
  PROVE  \/ UNCHANGED replaced /\ (Stored(i) => product[i].price \in {NoPrice, c.price})
         \/ /\ Stored(i) /\ product[i].price \in Prices
            /\ product[i].price \notin {NoPrice, c.price}
            /\ replaced' = [replaced EXCEPT ![i] = Append(@, product[i].price)]
<1>1. Column(c.price) = c.price
  BY DEF Column, InCents, Product
<1>2. Stored(i) => product[i].price \in Prices \cup {NoPrice}
  BY DEF Stored, TypeInv, TypeOK, Product
<1>3. QED
  BY <1>1, <1>2 DEF Upsert

(* A worker's own item is not noted by its step.                           *)
LEMMA WorkerAndHistory ==
  ASSUME TypeInv, PriceInv, InCents, NEW w \in Workers, WorkerStep(w),
         mem[w].item \notin met' \cup lost'
  PROVE  LeavesHistory(w) \/ Records(w) \/ Replaces(w)
<1> DEFINE i == mem[w].item
           c == mem[w].copy
<1>1. /\ w \in Callers /\ mem \in [Callers -> Memory] /\ mem[w] \in Memory
      /\ i \in Items
  BY DEF TypeInv, TypeOK, Callers, WorkerStep, SaveKnown, SaveKnownFails,
         RecordPrice, SaveNew, SaveNewFails, AssignType
<1>2. c \in Product /\ AgreesWithRow(mem[w])
  <2>1. met \subseteq met' /\ lost \subseteq lost'
    BY NotesStay DEF Next
  <2>2. QED
    BY <1>1, <2>1 DEF Memory, PriceInv
<1>3. CASE SaveKnown(w)
  <2>1. Upsert(i, c) /\ UNCHANGED history /\ mem[w].pc = "saveKnown"
    BY <1>3 DEF SaveKnown
  <2>2. /\ Stored(i)
        /\ mem[w].old = IF product[i].price \in {NoPrice, c.price}
                        THEN NoPrice ELSE product[i].price
    BY <1>2, <2>1 DEF AgreesWithRow
  <2>3. CASE mem[w].old # NoPrice
    <3>1. mem' = [mem EXCEPT ![w] = [mem[w] EXCEPT !.pc = "record"]]
      BY <1>3, <2>3 DEF SaveKnown
    <3>2. mem'[w].pc = "record" /\ mem'[w].item = i /\ mem'[w].old = mem[w].old
      BY <1>1, <3>1 DEF Memory
    <3>3. /\ product[i].price \in Prices /\ mem[w].old = product[i].price
          /\ replaced' = [replaced EXCEPT ![i] = Append(@, product[i].price)]
      BY <1>1, <1>2, <2>1, <2>2, <2>3, UpsertReplaces
    <3>4. QED
      BY <1>1, <2>1, <3>2, <3>3 DEF Replaces
  <2>4. CASE mem[w].old = NoPrice
    <3>1. UNCHANGED replaced
      BY <1>1, <1>2, <2>1, <2>2, <2>4, UpsertReplaces
    <3>2. mem'[w].pc \in {"idle", "search"}
      BY <1>3, <2>4, AfterSync DEF SaveKnown
    <3>3. QED
      BY <2>1, <3>1, <3>2 DEF LeavesHistory
  <2>5. QED
    BY <2>3, <2>4
<1>4. CASE SaveKnownFails(w)
  <2>1. /\ SaveIsRefused(w) /\ UNCHANGED history /\ mem[w].pc = "saveKnown"
        /\ mem'[w].pc \in {"idle", "search"}
    BY <1>4, AfterSync DEF SaveKnownFails
  <2>2. mem[w].old # NoPrice => UNCHANGED replaced
    BY <2>1 DEF SaveIsRefused, Loses
  <2>3. ASSUME mem[w].old = NoPrice, Upsert(i, c)  PROVE UNCHANGED replaced
    <3>1. Stored(i) /\ product[i].price \in {NoPrice, c.price}
      BY <1>2, <2>1, <2>3 DEF AgreesWithRow
    <3>2. QED
      BY <1>1, <1>2, <2>3, <3>1, UpsertReplaces
  <2>4. UNCHANGED replaced
    BY <2>1, <2>2, <2>3 DEF SaveIsRefused
  <2>5. QED
    BY <2>1, <2>4 DEF LeavesHistory
<1>5. ASSUME mem[w].pc = "saveNew", Upsert(i, c)  PROVE UNCHANGED replaced
  BY <1>2, <1>5 DEF AgreesWithRow, Upsert
<1>6. CASE SaveNewFails(w)
  <2>1. /\ SaveIsRefused(w) /\ UNCHANGED history /\ mem[w].pc = "saveNew"
        /\ mem'[w].pc = "idle"
    BY <1>1, <1>6 DEF SaveNewFails, Idle
  <2>2. UNCHANGED replaced
    BY <1>5, <2>1 DEF SaveIsRefused
  <2>3. QED
    BY <2>1, <2>2 DEF LeavesHistory
<1>7. CASE SaveNew(w)
  <2> DEFINE m == [mem[w] EXCEPT !.ghost = Stored(mem[w].item)]
  <2>1. Upsert(m.item, m.copy) /\ UNCHANGED history /\ mem[w].pc = "saveNew"
    BY <1>7 DEF SaveNew
  <2>2. m.item = i /\ m.copy = c
    BY <1>1 DEF Memory
  <2>3. mem'[w].pc \in {"idle", "search", "assign"}
    <3>1. CASE mem' = [mem EXCEPT ![w] = [m EXCEPT !.pc = "assign"]]
      <4>1. [m EXCEPT !.pc = "assign"].pc = "assign"
        BY <1>1 DEF Memory
      <4> HIDE DEF m
      <4>2. QED
        BY <1>1, <3>1, <4>1
    <3>2. CASE ToSync(w, m)
      BY <3>2, AfterSync
    <3>3. QED
      BY <1>7, <3>1, <3>2 DEF SaveNew
  <2>4. UNCHANGED replaced
    BY <1>5, <2>1, <2>2
  <2>5. QED
    BY <2>1, <2>3, <2>4 DEF LeavesHistory
<1>8. CASE RecordPrice(w)
  <2>1. /\ mem[w].pc = "record" /\ UNCHANGED replaced
        /\ mem'[w].pc \in {"idle", "search"}
    BY <1>8, AfterSync DEF RecordPrice
  <2>2. Column(mem[w].old) = mem[w].old
    BY <2>1, <1>1 DEF TypeInv, MemOK, InCents, Column
  <2>3. SavePriceRecord(i, mem[w].old)
    BY <1>8 DEF RecordPrice, Loses
  <2>4. QED
    BY <2>1, <2>2, <2>3 DEF SavePriceRecord, Records
<1>9. CASE AssignType(w)
  <2>1. /\ mem[w].pc = "assign" /\ UNCHANGED <<history, replaced>>
        /\ mem'[w].pc \in {"idle", "search"}
    BY <1>9, AfterSync DEF AssignType
  <2>2. QED
    BY <2>1 DEF LeavesHistory
<1>10. QED
  BY <1>3, <1>4, <1>6, <1>7, <1>8, <1>9 DEF WorkerStep

(* A look at the table changes no table, and the copy agrees with the row  *)
(* unless the item is noted; it is if another worker is busy with it.      *)
LEMMA ScrapeAndHistory ==
  ASSUME TypeInv, NEW w \in Workers, Scrape(w)
  PROVE  /\ UNCHANGED tables /\ mem[w].pc = "idle" /\ mem'[w].pc # "record"
         /\ mem'[w].item \in Items
         /\ Busy(mem'[w].item) = {} \/ mem'[w].item \in met'
         /\ \A v \in Workers \ {w} : mem'[v] = mem[v]
         /\ mem'[w].pc = "saveKnown" => AgreesWithRow(mem'[w])
         /\ mem'[w].item \notin lost' => AgreesWithRow(mem'[w])
<1>1. PICK i \in Items, l \in Listing :
        LookUpKnown(w, i, l) \/ LookUpNew(w, i, l)
  BY DEF Scrape
<1>2. /\ UNCHANGED tables /\ mem[w].pc = "idle" /\ w \in Callers
      /\ mem \in [Callers -> Memory] /\ (Busy(i) = {} \/ i \in met')
  BY <1>1 DEF LookUpKnown, LookUpNew, Meets, Callers, TypeInv, TypeOK
<1>3. CASE LookUpKnown(w, i, l)
  <2> DEFINE old == IF PriceChanged(product[i], l) THEN product[i].price
                                                   ELSE NoPrice
             copy == Refreshed(product[i], l)
             m == [Idle EXCEPT !.pc = "saveKnown", !.item = i,
                               !.copy = copy, !.old = old]
  <2>1. product[i] \in Product /\ Stored(i)
    BY <1>3 DEF LookUpKnown, Stored, TypeInv, TypeOK
  <2>2. copy.price = IF l.price = NoPrice THEN product[i].price ELSE l.price
    BY <2>1 DEF Refreshed, Product
  <2>3. old = IF product[i].price \in {NoPrice, copy.price} THEN NoPrice
                                                         ELSE product[i].price
    BY <2>2 DEF PriceChanged
  <2>4. mem' = [mem EXCEPT ![w] = m]
    BY <1>3 DEF LookUpKnown
  <2> HIDE DEF old, copy
  <2>5. m.pc = "saveKnown" /\ m.item = i /\ m.copy = copy /\ m.old = old
    BY DEF Idle
  <2> HIDE DEF m
  <2>6. mem'[w] = m /\ \A v \in Workers \ {w} : mem'[v] = mem[v]
    BY <1>2, <2>4 DEF Callers
  <2>7. AgreesWithRow(m)
    BY <2>1, <2>3, <2>5 DEF AgreesWithRow
  <2>8. QED
    BY <1>2, <2>5, <2>6, <2>7
<1>4. CASE LookUpNew(w, i, l)
  <2> DEFINE copy == [NoCopy EXCEPT !.price = l.price, !.fields = l.fields,
                                    !.seen = scrapes + 1]
             m == [Idle EXCEPT !.pc = "saveNew", !.item = i, !.copy = copy]
  <2>1. (Stored(i) => i \in lost') /\ mem' = [mem EXCEPT ![w] = m]
    BY <1>4 DEF LookUpNew, Loses
  <2> HIDE DEF copy
  <2>2. m.pc = "saveNew" /\ m.item = i
    BY DEF Idle
  <2> HIDE DEF m
  <2>3. mem'[w] = m /\ \A v \in Workers \ {w} : mem'[v] = mem[v]
    BY <1>2, <2>1 DEF Callers
  <2>4. i \notin lost' => AgreesWithRow(m)
    BY <2>1, <2>2 DEF AgreesWithRow
  <2>5. QED
    BY <1>2, <2>2, <2>3, <2>4
<1>5. QED
  BY <1>1, <1>3, <1>4

(* How often a price stands in a list that gets one more.                  *)
LEMMA TimesOfAppend ==
  ASSUME NEW s \in Seq(Prices), NEW q \in Prices, NEW p \in Prices
  PROVE  /\ Times(p, s) \in Nat
         /\ Times(p, Append(s, q)) = IF p = q THEN Times(p, s) + 1
                                              ELSE Times(p, s)
<1> DEFINE At(t) == {n \in DOMAIN t : t[n] = p}
           a == Append(s, q)
           n == Len(s) + 1
<1>1. /\ DOMAIN s = 1 .. Len(s) /\ Len(s) \in Nat
      /\ DOMAIN a = 1 .. n /\ a[n] = q /\ \A k \in 1 .. Len(s) : a[k] = s[k]
  OBVIOUS
<1>2. IsFiniteSet(At(s)) /\ Cardinality(At(s)) \in Nat /\ n \notin At(s)
  <2>1. IsFiniteSet(1 .. Len(s)) /\ At(s) \subseteq 1 .. Len(s)
    BY <1>1, FS_Interval
  <2>2. n \notin 1 .. Len(s)
    BY <1>1
  <2>3. QED
    BY <2>1, <2>2, FS_Subset, FS_CardinalityType
<1>3. CASE p = q
  <2>1. At(a) = At(s) \cup {n}
    BY <1>1, <1>3
  <2>2. Cardinality(At(s) \cup {n}) = Cardinality(At(s)) + 1
    BY <1>2, FS_AddElement
  <2>3. QED
    BY <1>2, <1>3, <2>1, <2>2 DEF Times
<1>4. CASE p # q
  <2>1. At(a) = At(s)
    BY <1>1, <1>4
  <2>2. QED
    BY <1>2, <1>4, <2>1 DEF Times
<1>5. QED
  BY <1>3, <1>4

LEMMA HistoryInit ==
  ASSUME Init
  PROVE  /\ \A i \in Items : history[i] = << >> /\ replaced[i] = << >>
         /\ \A w \in Workers : mem[w].pc = "idle"
<1>1. \A w \in Workers : mem[w].pc = "idle"
  BY DEF Init, Callers, Idle
<1>2. \A i \in Items : history[i] = << >> /\ replaced[i] = << >>
  BY DEF Init, TablesInit
<1>3. QED
  BY <1>1, <1>2

(***************************************************************************)
(* Several workers on one item.  Each of them records a price at most once *)
(* for each time the row gives it up: what was recorded, and what workers  *)
(* hold who are still to, stays below that many times the number of them.  *)
(***************************************************************************)

(* A worker about to save over a row means to record no price that it is   *)
(* about to write.                                                         *)
KnownOK(m) == m.pc = "saveKnown" =>
                /\ Stored(m.item)
                /\ m.old # NoPrice => m.old # m.copy.price
KnownInv == \A w \in Workers : KnownOK(mem[w])

(* Workers that will record p for the row of i, which has given it up.     *)
Holding(i, p) ==
  {w \in Workers :
     /\ mem[w].item = i /\ mem[w].old = p
     /\ \/ mem[w].pc = "record"
        \/ mem[w].pc = "saveKnown" /\ product[i].price # p}

(* The workers that may come to record a price of i.                       *)
Crowd(i) == {w \in Workers : /\ mem[w].item = i
                             /\ mem[w].pc \in {"saveKnown", "record"}}

BoundInv(k, i, p) ==
  Times(p, history[i]) + Cardinality(Holding(i, p)) <= k * Times(p, replaced[i])

(* What a step does to a price p of item i: the row gives it up; a worker  *)
(* that held it records it; or nothing that counts.                        *)
GivesUp(i, p) == /\ history'[i] = history[i]
                 /\ replaced'[i] = Append(replaced[i], p)
RecordedBy(w, i, p) == /\ history'[i] = Append(history[i], p)
                       /\ replaced'[i] = replaced[i]
                       /\ w \in Holding(i, p)
                       /\ Holding(i, p)' \subseteq Holding(i, p) \ {w}
SpareOf(i, p) == /\ Times(p, history'[i]) = Times(p, history[i])
                 /\ Times(p, replaced'[i]) = Times(p, replaced[i])
                 /\ Holding(i, p)' \subseteq Holding(i, p)
Counted(i, p) == \/ GivesUp(i, p) \/ SpareOf(i, p)
                 \/ \E w \in Workers : RecordedBy(w, i, p)

(* What a step of a worker writes.                                         *)
WritesNothing(w) == /\ UNCHANGED <<product, history, replaced>>
                    /\ mem'[w].pc # "record"
WritesRecord(w) ==
  /\ mem[w].pc = "record" /\ mem'[w].pc # "record"
  /\ UNCHANGED <<product, replaced>>
  /\ history' = [history EXCEPT ![mem[w].item] = Append(@, Column(mem[w].old))]
WritesRow(w) ==
  /\ mem[w].pc \in {"saveKnown", "saveNew"}
  /\ Upsert(mem[w].item, mem[w].copy) /\ UNCHANGED history
  /\ mem'[w].pc = "record" =>
       /\ mem[w].pc = "saveKnown" /\ mem[w].old \in Prices
       /\ mem'[w].item = mem[w].item /\ mem'[w].old = mem[w].old

LEMMA WorkerWrites ==
  ASSUME TypeInv, NEW w \in Workers, WorkerStep(w)
  PROVE  /\ mem'[w].pc \notin {"saveKnown", "saveNew"}
         /\ \A v \in Workers \ {w} : mem'[v] = mem[v]
         /\ WritesNothing(w) \/ WritesRecord(w) \/ WritesRow(w)
<1>1. /\ w \in Callers /\ mem \in [Callers -> Memory] /\ mem[w] \in Memory
      /\ mem[w].old \in Prices \cup {NoPrice}
  BY DEF TypeInv, TypeOK, Callers, Memory
<1>2. ASSUME NEW m, mem' = [mem EXCEPT ![w] = m]
      PROVE  mem'[w] = m /\ \A v \in Workers \ {w} : mem'[v] = mem[v]
  BY <1>1, <1>2 DEF Callers
<1>3. ASSUME NEW m, ToSync(w, m)
      PROVE  /\ mem'[w].pc \in {"idle", "search"}
             /\ \A v \in Workers \ {w} : mem'[v] = mem[v]
  BY <1>1, <1>3, AfterSync DEF ToSync, Callers
<1>4. ASSUME SaveIsRefused(w), UNCHANGED history,
             mem[w].pc \in {"saveKnown", "saveNew"},
             mem'[w].pc \in {"idle", "search"}
      PROVE  WritesNothing(w) \/ WritesRow(w)
  BY <1>4 DEF SaveIsRefused, WritesNothing, WritesRow
<1>5. CASE SaveKnown(w)
  <2>1. Upsert(mem[w].item, mem[w].copy) /\ UNCHANGED history
        /\ mem[w].pc = "saveKnown"
    BY <1>5 DEF SaveKnown
  <2>2. CASE mem[w].old # NoPrice
    <3> DEFINE m == [mem[w] EXCEPT !.pc = "record"]
    <3>1. mem' = [mem EXCEPT ![w] = m]
      BY <1>5, <2>2 DEF SaveKnown
    <3>2. m.pc = "record" /\ m.item = mem[w].item /\ m.old = mem[w].old
      BY <1>1 DEF Memory
    <3> HIDE DEF m
    <3>3. mem'[w] = m /\ \A v \in Workers \ {w} : mem'[v] = mem[v]
      BY <1>2, <3>1
    <3>4. QED
      BY <1>1, <2>1, <2>2, <3>2, <3>3 DEF WritesRow
  <2>3. CASE mem[w].old = NoPrice
    <3>1. ToSync(w, mem[w])
      BY <1>5, <2>3 DEF SaveKnown
    <3>2. QED
      BY <1>3, <2>1, <3>1 DEF WritesRow
  <2>4. QED
    BY <2>2, <2>3
<1>6. CASE SaveKnownFails(w)
  BY <1>3, <1>4, <1>6 DEF SaveKnownFails
<1>7. CASE SaveNewFails(w)
  <2>1. mem'[w] = Idle /\ \A v \in Workers \ {w} : mem'[v] = mem[v]
    BY <1>2, <1>7 DEF SaveNewFails
  <2>2. QED
    BY <1>4, <1>7, <2>1 DEF SaveNewFails, Idle
<1>8. CASE SaveNew(w)
  <2> DEFINE m == [mem[w] EXCEPT !.ghost = Stored(mem[w].item)]
             n == [m EXCEPT !.pc = "assign"]
  <2>1. /\ Upsert(m.item, m.copy) /\ UNCHANGED history
        /\ mem' = [mem EXCEPT ![w] = n] \/ ToSync(w, m)
        /\ mem[w].pc = "saveNew"
    BY <1>8 DEF SaveNew
  <2>2. m.item = mem[w].item /\ m.copy = mem[w].copy /\ n.pc = "assign"
    BY <1>1 DEF Memory
  <2> HIDE DEF m, n
  <2>3. /\ mem'[w].pc \in {"assign", "idle", "search"}
        /\ \A v \in Workers \ {w} : mem'[v] = mem[v]
    BY <1>2, <1>3, <2>1, <2>2
  <2>4. QED
    BY <2>1, <2>2, <2>3 DEF WritesRow
<1>9. CASE RecordPrice(w)
  <2>1. /\ mem[w].pc = "record" /\ UNCHANGED <<product, replaced>>
        /\ mem'[w].pc \in {"idle", "search"}
        /\ \A v \in Workers \ {w} : mem'[v] = mem[v]
    BY <1>3, <1>9 DEF RecordPrice
  <2>2. QED
    BY <1>9, <2>1
       DEF RecordPrice, SavePriceRecord, WritesRecord, WritesNothing
<1>10. CASE AssignType(w)
  BY <1>3, <1>10 DEF AssignType, WritesNothing
<1>11. QED
  BY <1>5, <1>6, <1>7, <1>8, <1>9, <1>10 DEF WorkerStep

(* An upsert, whatever copy it writes, keeps what is stored.               *)
LEMMA UpsertKeepsStored ==
  ASSUME TypeInv, NEW i \in Items, NEW c \in Product, Upsert(i, c),
         NEW j \in Items, Stored(j)
  PROVE  product'[j] # NoProduct
<1> DEFINE r == [product[i] EXCEPT !.price = Column(c.price),
                                   !.fields = c.fields, !.seen = c.seen]
<1>1. CASE j = i
  <2>1. product[i] \in Product
    BY <1>1 DEF TypeInv, TypeOK, Stored
  <2>2. product'[i] = r
    BY <1>1 DEF Upsert, TypeInv, TypeOK
  <2>3. r \in Product
    BY <2>1 DEF Product, Column
  <2>4. QED
    BY <1>1, <2>2, <2>3
<1>2. CASE j # i
  BY <1>2 DEF Upsert, TypeInv, TypeOK, Stored
<1>3. QED
  BY <1>1, <1>2

LEMMA KnownStep ==
  ASSUME TypeInv, KnownInv, [Next]_vars
  PROVE  KnownInv'
<1> USE DEF KnownInv, KnownOK
<1> SUFFICES ASSUME NEW v \in Workers, mem'[v].pc = "saveKnown"
             PROVE  /\ product'[mem'[v].item] # NoProduct
                    /\ mem'[v].old # NoPrice => mem'[v].old # mem'[v].copy.price
  BY DEF Stored
<1>1. mem[v].pc = "saveKnown" =>
        /\ mem[v].item \in Items /\ Stored(mem[v].item)
        /\ mem[v].old # NoPrice => mem[v].old # mem[v].copy.price
  BY DEF TypeInv, TypeOK, Callers
<1>2. CASE Apart
  <2>1. mem'[v] = mem[v]
    BY <1>2 DEF Apart
  <2>2. KeepsRow(mem[v].item)
    BY <1>1, <1>2, <2>1 DEF Apart
  <2>3. QED
    BY <1>1, <2>1, <2>2 DEF KeepsRow, Stored
<1>3. ASSUME NEW w \in Workers, Scrape(w)
      PROVE  /\ product'[mem'[v].item] # NoProduct
             /\ mem'[v].old # NoPrice => mem'[v].old # mem'[v].copy.price
  <2>1. CASE v = w
    BY <1>3, <2>1, ScrapeAndHistory DEF AgreesWithRow, tables, Stored
  <2>2. CASE v # w
    BY <1>1, <1>3, <2>2, ScrapeAndHistory DEF tables, Stored
  <2>3. QED
    BY <2>1, <2>2
<1>4. ASSUME NEW w \in Workers, WorkerStep(w)
      PROVE  /\ product'[mem'[v].item] # NoProduct
             /\ mem'[v].old # NoPrice => mem'[v].old # mem'[v].copy.price
  <2>1. mem'[v] = mem[v]
    BY <1>4, WorkerWrites
  <2>2. mem[w].item \in Items /\ mem[w].copy \in Product
    BY <1>4 DEF TypeInv, TypeOK, Memory, Callers, WorkerStep, SaveKnown,
         SaveKnownFails, RecordPrice, SaveNew, SaveNewFails, AssignType
  <2>3. UNCHANGED product \/ Upsert(mem[w].item, mem[w].copy)
    BY <1>4, WorkerWrites DEF WritesNothing, WritesRecord, WritesRow
  <2>4. QED
    BY <1>1, <2>1, <2>2, <2>3, UpsertKeepsStored DEF Stored
<1>5. QED
  BY <1>2, <1>3, <1>4, SyncIsApart, RequestIsApart, OthersAreApart DEF Next

LEMMA RowCounted ==
  ASSUME TypeInv, KnownInv, InCents, NEW w \in Workers, WritesRow(w),
         \A v \in Workers \ {w} : mem'[v] = mem[v],
         mem'[w].pc \notin {"saveKnown", "saveNew"},
         mem[w].item \in Items, NEW i \in Items, NEW p \in Prices
  PROVE  GivesUp(i, p) \/ SpareOf(i, p)
<1> DEFINE j == mem[w].item
           c == mem[w].copy
<1>1. /\ c \in Product /\ Upsert(j, c) /\ history' = history
      /\ history \in [Items -> Seq(Prices)] /\ replaced \in [Items -> Seq(Prices)]
  BY DEF TypeInv, TypeOK, Memory, Callers, WritesRow
<1>2. mem'[w].pc = "record" =>
        /\ mem[w].pc = "saveKnown" /\ mem[w].old \in Prices
        /\ Stored(j) /\ mem[w].old # c.price
        /\ mem'[w].item = j /\ mem'[w].old = mem[w].old
  BY DEF WritesRow, KnownInv, KnownOK
<1>3. SUFFICES ASSUME ~GivesUp(i, p)
               PROVE  SpareOf(i, p)
  OBVIOUS
<1>4. CASE j # i
  <2>1. product'[i] = product[i] /\ replaced'[i] = replaced[i]
    BY <1>1, <1>4 DEF Upsert, TypeInv, TypeOK
  <2>2. Holding(i, p)' \subseteq Holding(i, p)
    BY <1>2, <1>4, <2>1 DEF Holding
  <2>3. QED
    BY <1>1, <2>1, <2>2 DEF SpareOf
<1>5. CASE j = i
  <2>1. Stored(i) => product'[i].price = c.price
    <3>1. Column(c.price) = c.price
      BY <1>1 DEF Column, InCents, Product
    <3>2. Stored(i) => product[i] \in Product
      BY DEF TypeInv, TypeOK, Stored
    <3>3. QED
      BY <1>1, <1>5, <3>1, <3>2 DEF Upsert, TypeInv, TypeOK, Product
  <2>2. ASSUME Times(p, replaced'[i]) = Times(p, replaced[i]),
               Stored(i) => /\ product[i].price # p
                            \/ product[i].price = c.price
        PROVE  SpareOf(i, p)
    <3>1. ASSUME NEW v \in Holding(i, p)'  PROVE v \in Holding(i, p)
      <4>1. /\ v \in Workers /\ mem'[v].item = i /\ mem'[v].old = p
            /\ \/ mem'[v].pc = "record"
               \/ mem'[v].pc = "saveKnown" /\ product'[i].price # p
        BY <3>1 DEF Holding
      <4>2. CASE v = w
        BY <1>2, <1>5, <2>2, <4>1, <4>2 DEF Holding
      <4>3. CASE v # w
        <5>1. mem'[v] = mem[v]
          BY <4>1, <4>3
        <5>2. mem[v].pc = "saveKnown" => Stored(i)
          BY <4>1, <5>1 DEF KnownInv, KnownOK
        <5>3. QED
          BY <2>1, <2>2, <4>1, <5>1, <5>2 DEF Holding
      <4>4. QED
        BY <4>2, <4>3
    <3>2. QED
      BY <1>1, <2>2, <3>1 DEF SpareOf
  <2>3. CASE UNCHANGED replaced
            /\ (Stored(i) => product[i].price \in {NoPrice, c.price})
    <3>1. p # NoPrice
      OBVIOUS
    <3>2. QED
      BY <2>2, <2>3, <3>1
  <2>4. CASE /\ Stored(i) /\ product[i].price \in Prices
             /\ replaced' = [replaced EXCEPT ![i] = Append(@, product[i].price)]
    <3>1. replaced'[i] = Append(replaced[i], product[i].price)
      BY <1>1, <2>4
    <3>2. product[i].price # p
      BY <1>1, <1>3, <3>1 DEF GivesUp
    <3>3. Times(p, replaced'[i]) = Times(p, replaced[i])
      <4>1. replaced[i] \in Seq(Prices)
        BY <1>1
      <4>2. QED
        BY <2>4, <3>1, <3>2, <4>1, TimesOfAppend
    <3>4. QED
      BY <2>2, <3>2, <3>3
  <2>5. QED
    BY <1>1, <1>5, <2>3, <2>4, UpsertReplaces
<1>6. QED
  BY <1>4, <1>5

(* Every step, as far as price p of item i goes.                           *)
LEMMA EveryStepCounted ==
  ASSUME TypeInv, KnownInv, InCents, [Next]_vars,
         NEW i \in Items, NEW p \in Prices
  PROVE  Counted(i, p)
<1>1. /\ history \in [Items -> Seq(Prices)]
      /\ \A w \in Workers : mem[w].pc = "record" =>
           mem[w].item \in Items /\ mem[w].old \in Prices
  BY DEF TypeInv, TypeOK, MemOK, Callers
<1>2. CASE Apart
  <2>1. ASSUME NEW v \in Holding(i, p)'  PROVE v \in Holding(i, p)
    <3>1. /\ v \in Workers /\ mem'[v] = mem[v]
          /\ mem[v].item = i /\ mem[v].old = p
          /\ \/ mem[v].pc = "record"
             \/ mem[v].pc = "saveKnown" /\ product'[i].price # p
      BY <1>2, <2>1 DEF Holding, Apart
    <3>2. mem[v].pc = "saveKnown" => product'[i].price = product[i].price
      BY <1>2, <3>1 DEF Apart, KeepsRow, KnownInv, KnownOK
    <3>3. QED
      BY <3>1, <3>2 DEF Holding
  <2>2. QED
    BY <1>2, <2>1 DEF Apart, Counted, SpareOf
<1>3. ASSUME NEW w \in Workers, Scrape(w)  PROVE Counted(i, p)
  <2>1. /\ UNCHANGED tables /\ mem'[w].pc # "record"
        /\ \A v \in Workers \ {w} : mem'[v] = mem[v]
    BY <1>3, ScrapeAndHistory
  <2>2. mem'[w].pc = "saveKnown" =>
          mem'[w].old \in {NoPrice, product[mem'[w].item].price}
    BY <1>3, ScrapeAndHistory DEF AgreesWithRow
  <2>3. Holding(i, p)' \subseteq Holding(i, p)
    BY <2>1, <2>2 DEF Holding, tables
  <2>4. QED
    BY <2>1, <2>3 DEF Counted, SpareOf, tables
<1>4. ASSUME NEW w \in Workers, WorkerStep(w)  PROVE Counted(i, p)
  <2>1. /\ mem'[w].pc \notin {"saveKnown", "saveNew"}
        /\ \A v \in Workers \ {w} : mem'[v] = mem[v]
        /\ WritesNothing(w) \/ WritesRecord(w) \/ WritesRow(w)
    BY <1>4, WorkerWrites
  <2>2. mem[w].item \in Items
    BY <1>4 DEF TypeInv, TypeOK, Callers, WorkerStep, SaveKnown,
         SaveKnownFails, RecordPrice, SaveNew, SaveNewFails, AssignType
  <2>3. CASE WritesNothing(w)
    <3>1. Holding(i, p)' \subseteq Holding(i, p)
      BY <2>1, <2>3 DEF WritesNothing, Holding
    <3>2. QED
      BY <2>3, <3>1 DEF WritesNothing, Counted, SpareOf
  <2>4. CASE WritesRecord(w)
    <3> DEFINE q == mem[w].old
    <3>1. /\ mem[w].pc = "record" /\ mem'[w].pc # "record"
          /\ history' = [history EXCEPT ![mem[w].item] = Append(@, q)]
          /\ replaced' = replaced /\ product' = product /\ q \in Prices
      BY <1>1, <2>4 DEF WritesRecord, InCents, Column
    <3>2. Holding(i, p)' \subseteq Holding(i, p) \ {w}
      BY <2>1, <3>1 DEF Holding
    <3>3. CASE mem[w].item = i /\ q = p
      <4>1. history'[i] = Append(history[i], p) /\ w \in Holding(i, p)
        BY <1>1, <3>1, <3>3 DEF Holding
      <4>2. RecordedBy(w, i, p)
        BY <3>1, <3>2, <4>1 DEF RecordedBy
      <4>3. QED
        BY <4>2 DEF Counted
    <3>4. CASE mem[w].item # i \/ q # p
      <4>1. history[i] \in Seq(Prices)
        BY <1>1
      <4>2. history'[i] = IF mem[w].item = i THEN Append(history[i], q)
                                             ELSE history[i]
        BY <1>1, <3>1
      <4> HIDE DEF q
      <4>3. Times(p, history'[i]) = Times(p, history[i])
        BY <3>1, <3>4, <4>1, <4>2, TimesOfAppend
      <4>4. QED
        BY <3>1, <3>2, <4>3 DEF Counted, SpareOf
    <3>5. QED
      BY <3>3, <3>4
  <2>5. CASE WritesRow(w)
    BY <2>1, <2>2, <2>5, RowCounted DEF Counted
  <2>6. QED
    BY <2>1, <2>3, <2>4, <2>5
<1>5. QED
  BY <1>2, <1>3, <1>4, SyncIsApart, RequestIsApart, OthersAreApart DEF Next

(* At most k workers at once on an item: at most k records of a price for  *)
(* each time the row gives it up.                                          *)
LEMMA BoundStep ==
  ASSUME TypeInv, KnownInv, InCents, [Next]_vars,
         NEW k \in Nat, NEW i \in Items, NEW p \in Prices,
         Cardinality(Crowd(i)') <= k, BoundInv(k, i, p)
  PROVE  BoundInv(k, i, p)'
<1> DEFINE h == Times(p, history[i])
           r == Times(p, replaced[i])
           a == Cardinality(Holding(i, p))
           b == Cardinality(Holding(i, p)')
<1>1. history[i] \in Seq(Prices) /\ replaced[i] \in Seq(Prices)
  BY DEF TypeInv, TypeOK
<1>2. IsFiniteSet(Workers) /\ IsFiniteSet(Holding(i, p))
      /\ IsFiniteSet(Holding(i, p)') /\ IsFiniteSet(Crowd(i)')
  <2>1. IsFiniteSet(Workers)
    BY FS_Subset DEF Callers
  <2>2. /\ Holding(i, p) \subseteq Workers /\ Holding(i, p)' \subseteq Workers
        /\ Crowd(i)' \subseteq Workers
    BY DEF Holding, Crowd
  <2>3. QED
    BY <2>1, <2>2, FS_Subset
<1>3. h \in Nat /\ r \in Nat /\ a \in Nat /\ b \in Nat /\ h + a <= k * r
  BY <1>1, <1>2, TimesOfAppend, FS_CardinalityType DEF BoundInv
<1>4. CASE GivesUp(i, p)
  <2>1. Times(p, history'[i]) = h /\ Times(p, replaced'[i]) = r + 1
    BY <1>1, <1>4, TimesOfAppend DEF GivesUp
  <2>2. b <= k
    <3>1. Holding(i, p)' \subseteq Crowd(i)'
      BY DEF Holding, Crowd
    <3>2. b <= Cardinality(Crowd(i)') /\ Cardinality(Crowd(i)') \in Nat
      BY <1>2, <3>1, FS_Subset, FS_CardinalityType
    <3>3. QED
      BY <1>3, <3>2
  <2> HIDE DEF h, r, a, b
  <2>3. k * (r + 1) = k * r + k /\ k * r \in Nat
    BY <1>3
  <2>4. h + b <= k * (r + 1)
    BY <1>3, <2>2, <2>3
  <2>5. QED
    BY <2>1, <2>4 DEF BoundInv, b
<1>5. ASSUME NEW w \in Workers, RecordedBy(w, i, p)
      PROVE  BoundInv(k, i, p)'
  <2>1. Times(p, history'[i]) = h + 1 /\ Times(p, replaced'[i]) = r
    BY <1>1, <1>5, TimesOfAppend DEF RecordedBy
  <2>2. b <= a - 1
    <3>1. /\ w \in Holding(i, p) /\ Holding(i, p)' \subseteq Holding(i, p) \ {w}
      BY <1>5 DEF RecordedBy
    <3>2. /\ Cardinality(Holding(i, p) \ {w}) = a - 1
          /\ IsFiniteSet(Holding(i, p) \ {w})
      BY <1>2, <3>1, FS_RemoveElement
    <3>3. QED
      BY <3>1, <3>2, FS_Subset
  <2> HIDE DEF h, r, a, b
  <2>3. h + 1 + b <= k * r
    <3>1. k * r \in Nat
      BY <1>3
    <3>2. QED
      BY <1>3, <2>2, <3>1
  <2>4. QED
    BY <2>1, <2>3 DEF BoundInv, b
<1>6. CASE SpareOf(i, p)
  <2>1. Times(p, history'[i]) = h /\ Times(p, replaced'[i]) = r
    BY <1>6 DEF SpareOf
  <2>2. b <= a
    BY <1>2, <1>6, FS_Subset DEF SpareOf
  <2> HIDE DEF h, r, a, b
  <2>3. h + b <= k * r
    <3>1. k * r \in Nat
      BY <1>3
    <3>2. QED
      BY <1>3, <2>2, <3>1
  <2>4. QED
    BY <2>1, <2>3 DEF BoundInv, b
<1>7. QED
  BY <1>4, <1>5, <1>6, EveryStepCounted DEF Counted

LEMMA BoundInit ==
  ASSUME Init, NEW k \in Nat, NEW i \in Items, NEW p \in Prices
  PROVE  KnownInv /\ BoundInv(k, i, p)
<1>1. /\ \A j \in Items : history[j] = << >> /\ replaced[j] = << >>
      /\ \A w \in Workers : mem[w].pc = "idle"
  BY HistoryInit
<1>2. Holding(i, p) = {} /\ KnownInv
  BY <1>1 DEF Holding, KnownInv, KnownOK
<1>3. Times(p, << >>) = 0
  <2>1. {n \in DOMAIN << >> : << >>[n] = p} = {}
    OBVIOUS
  <2>2. QED
    BY <2>1, FS_EmptySet DEF Times
<1>4. Cardinality(Holding(i, p)) = 0
  BY <1>2, FS_EmptySet
<1>5. QED
  BY <1>1, <1>2, <1>3, <1>4 DEF BoundInv

LEMMA BoundHolds ==
  ASSUME TypeInv, NEW k \in Nat, NEW i \in Items, NEW p \in Prices,
         BoundInv(k, i, p)
  PROVE  Times(p, history[i]) <= k * Times(p, replaced[i])
<1>1. /\ Times(p, history[i]) \in Nat /\ Times(p, replaced[i]) \in Nat
  BY TimesOfAppend DEF TypeInv, TypeOK
<1>2. Cardinality(Holding(i, p)) \in Nat
  <2>1. IsFiniteSet(Workers) /\ Holding(i, p) \subseteq Workers
    BY FS_Subset DEF Callers, Holding
  <2>2. QED
    BY <2>1, FS_Subset, FS_CardinalityType
<1> DEFINE r == Times(p, replaced[i])
<1>3. k * r \in Nat
  BY <1>1
<1>4. QED
  BY <1>1, <1>2, <1>3 DEF BoundInv

LEMMA CrowdIsBounded ==
  ASSUME NEW i \in Items
  PROVE  /\ Cardinality(Workers) \in Nat
         /\ Cardinality(Crowd(i)') <= Cardinality(Workers)
<1>1. IsFiniteSet(Workers) /\ Crowd(i)' \subseteq Workers
  BY FS_Subset DEF Callers, Crowd
<1>2. QED
  BY <1>1, FS_Subset, FS_CardinalityType

(* However many workers scrape a source at the same time, whatever fails   *)
(* and whenever the process ends, a price gets into the history at most    *)
(* once per worker for each time the row gave it up (the property          *)
(* HistoryIsBounded of the run), as long as prices are in cents.           *)
THEOREM HistoryStaysBounded ==
  ASSUME InCents
  PROVE  Spec => []HistoryIsBounded
<1> DEFINE W == Cardinality(Workers)
           All == \A i \in Items, p \in Prices : BoundInv(W, i, p)
<1>1. Init => KnownInv /\ All
  <2>1. W \in Nat
    BY FS_Subset, FS_CardinalityType DEF Callers
  <2>2. ASSUME Init  PROVE KnownInv
    BY <2>2, HistoryInit DEF KnownInv, KnownOK
  <2> HIDE DEF W
  <2>3. QED
    BY <2>1, <2>2, BoundInit
<1>2. TypeInv /\ [Next]_vars => TypeInv'
  BY StepKinds
<1>3. TypeInv /\ KnownInv /\ [Next]_vars => KnownInv'
  BY KnownStep
<1>4. TypeInv /\ KnownInv /\ All /\ [Next]_vars => All'
  <2> SUFFICES ASSUME TypeInv, KnownInv, All, [Next]_vars,
                      NEW i \in Items, NEW p \in Prices
               PROVE  BoundInv(W, i, p)'
    OBVIOUS
  <2>1. W \in Nat /\ Cardinality(Crowd(i)') <= W
    BY CrowdIsBounded
  <2>2. BoundInv(W, i, p)
    OBVIOUS
  <2> HIDE DEF W, All
  <2>3. QED
    BY <2>1, <2>2, BoundStep
<1>5. TypeInv /\ All => HistoryIsBounded
  <2>1. W \in Nat
    BY FS_Subset, FS_CardinalityType DEF Callers
  <2>2. QED
    BY <2>1, BoundHolds DEF HistoryIsBounded
<1>6. QED
  BY InitTyped, <1>1, <1>2, <1>3, <1>4, <1>5, PTL DEF Spec

(* Only a look at the table makes a worker busy.                           *)
LEMMA AloneStep ==
  ASSUME TypeInv, AloneInv, [Next]_vars
  PROVE  AloneInv'
<1> SUFFICES ASSUME NEW i \in Items, i \notin met'
             PROVE  \A v, w \in Busy(i)' : v = w
  BY DEF AloneInv
<1>1. \A v, w \in Busy(i) : v = w
  BY NotesStay DEF AloneInv
<1>2. CASE Apart
  <2>1. Busy(i)' \subseteq Busy(i)
    BY <1>2 DEF Apart, Busy
  <2>2. QED
    BY <1>1, <2>1
<1>3. ASSUME NEW w \in Workers, Scrape(w)  PROVE \A u, v \in Busy(i)' : u = v
  <2>1. /\ Busy(mem'[w].item) = {} \/ mem'[w].item \in met'
        /\ \A v \in Workers \ {w} : mem'[v] = mem[v]
    BY <1>3, ScrapeAndHistory
  <2>2. CASE mem'[w].item = i
    <3>1. Busy(i)' \subseteq {w}
      BY <2>1, <2>2 DEF Busy
    <3>2. QED
      BY <3>1
  <2>3. CASE mem'[w].item # i
    <3>1. Busy(i)' \subseteq Busy(i)
      BY <2>1, <2>3 DEF Busy
    <3>2. QED
      BY <1>1, <3>1
  <2>4. QED
    BY <2>2, <2>3
<1>4. ASSUME NEW w \in Workers, WorkerStep(w)  PROVE \A u, v \in Busy(i)' : u = v
  <2>1. Busy(i)' \subseteq Busy(i)
    BY <1>4, WorkerWrites
       DEF Busy, WritesNothing, WritesRecord, WritesRow
  <2>2. QED
    BY <1>1, <2>1
<1>5. QED
  BY <1>2, <1>3, <1>4, SyncIsApart, RequestIsApart, OthersAreApart DEF Next

(* A row that a worker works on alone keeps what the worker read of it.    *)
LEMMA PriceStep ==
  ASSUME TypeInv, AloneInv, PriceInv, [Next]_vars
  PROVE  PriceInv'
<1> SUFFICES ASSUME NEW v \in Workers, mem'[v].item \notin met' \cup lost',
                    mem'[v].pc \in {"saveKnown", "saveNew"}
             PROVE  AgreesWithRow(mem[v])'
  BY DEF PriceInv, AgreesWithRow
<1> DEFINE i == mem'[v].item
<1>1. i \notin met \cup lost
  BY NotesStay
<1>2. ASSUME mem'[v] = mem[v]
      PROVE  i \in Items /\ v \in Busy(i) /\ AgreesWithRow(mem[v])
  BY <1>1, <1>2 DEF PriceInv, TypeInv, TypeOK, Callers, Busy
<1>3. CASE Apart
  <2>1. mem'[v] = mem[v]
    BY <1>3 DEF Apart
  <2>2. KeepsRow(i)
    BY <1>2, <1>3, <2>1 DEF Apart
  <2>3. QED
    BY <1>2, <2>1, <2>2 DEF KeepsRow, Stored, AgreesWithRow
<1>4. ASSUME NEW w \in Workers, Scrape(w)  PROVE AgreesWithRow(mem[v])'
  <2>1. UNCHANGED product
    BY <1>4, ScrapeAndHistory DEF tables
  <2>2. AgreesWithRow(mem'[v])
    <3>1. CASE v = w
      BY <1>4, <3>1, ScrapeAndHistory
    <3>2. CASE v # w
      BY <1>2, <1>4, <3>2, ScrapeAndHistory
    <3>3. QED
      BY <3>1, <3>2
  <2>3. QED
    BY <2>1, <2>2 DEF AgreesWithRow, Stored
<1>5. ASSUME NEW w \in Workers, WorkerStep(w)  PROVE AgreesWithRow(mem[v])'
  <2>1. v # w /\ mem'[v] = mem[v]
    BY <1>5, WorkerWrites
  <2>2. product'[i] = product[i]
    <3>1. CASE WritesRow(w)
      <4>1. mem[w].item # i
        BY <1>1, <1>2, <2>1, <3>1 DEF AloneInv, Busy, WritesRow
      <4>2. QED
        BY <3>1, <4>1, <1>2, <2>1 DEF WritesRow, Upsert, TypeInv, TypeOK
    <3>2. CASE WritesNothing(w) \/ WritesRecord(w)
      BY <3>2 DEF WritesNothing, WritesRecord
    <3>3. QED
      BY <1>5, <3>1, <3>2, WorkerWrites
  <2>3. QED
    BY <1>2, <2>1, <2>2 DEF AgreesWithRow, Stored
<1>6. QED
  BY <1>3, <1>4, <1>5, SyncIsApart, RequestIsApart, OthersAreApart DEF Next

(* The history holds all the prices that were replaced but for the one     *)
(* that a worker holds.                                                    *)
ExactOf(i) ==
  IF Recording(i) = {} THEN history[i] = replaced[i]
  ELSE \A w \in Recording(i) : Append(history[i], mem[w].old) = replaced[i]
ExactInv == \A i \in Items \ (met \cup lost) : ExactOf(i)

(* A step of a worker that works on another item.                          *)
LEMMA ExactElsewhere ==
  ASSUME TypeInv, NEW w \in Workers, WorkerStep(w), NEW i \in Items,
         mem[w].item # i, ExactOf(i)
  PROVE  ExactOf(i)'
<1>1. history'[i] = history[i] /\ replaced'[i] = replaced[i]
  <2>1. CASE WritesRow(w)
    BY <2>1 DEF WritesRow, Upsert, TypeInv, TypeOK
  <2>2. CASE WritesRecord(w)
    BY <2>2 DEF WritesRecord, TypeInv, TypeOK
  <2>3. QED
    BY <2>1, <2>2, WorkerWrites DEF WritesNothing
<1>2. Recording(i)' = Recording(i) /\ \A v \in Recording(i) : mem'[v] = mem[v]
  BY WorkerWrites DEF Recording, Busy, WritesNothing, WritesRecord, WritesRow
<1>3. QED
  BY <1>1, <1>2 DEF ExactOf

LEMMA ExactStep ==
  ASSUME TypeInv, AloneInv, PriceInv, InCents, ExactInv, [Next]_vars
  PROVE  ExactInv'
<1> SUFFICES ASSUME NEW i \in Items, i \notin met' \cup lost'
             PROVE  ExactOf(i)'
  BY DEF ExactInv
<1>1. history \in [Items -> Seq(Prices)] /\ replaced \in [Items -> Seq(Prices)]
  BY DEF TypeInv, TypeOK
<1>2. ExactOf(i) /\ \A v, w \in Busy(i) : v = w
  BY NotesStay DEF ExactInv, AloneInv
<1>3. ASSUME history' = history, replaced' = replaced,
             Recording(i)' = Recording(i),
             \A w \in Recording(i) : mem'[w] = mem[w]
      PROVE  ExactOf(i)'
  BY <1>2, <1>3 DEF ExactOf
<1>4. CASE Apart
  <2>1. Recording(i)' = Recording(i) /\ \A w \in Recording(i) : mem'[w] = mem[w]
    BY <1>4 DEF Apart, Recording, Busy
  <2>2. QED
    BY <1>3, <1>4, <2>1 DEF Apart
<1>5. ASSUME NEW w \in Workers, Scrape(w)  PROVE ExactOf(i)'
  <2>1. Recording(i)' = Recording(i) /\ \A v \in Recording(i) : mem'[v] = mem[v]
    BY <1>5, ScrapeAndHistory DEF Recording, Busy
  <2>2. QED
    BY <1>3, <1>5, <2>1, ScrapeAndHistory DEF tables
<1>6. ASSUME NEW w \in Workers, WorkerStep(w), mem[w].item = i
      PROVE  ExactOf(i)'
  <2>1. \A v \in Workers \ {w} : mem'[v] = mem[v]
    BY <1>6, WorkerWrites
  <2>2. CASE LeavesHistory(w)
    <3>1. Recording(i)' = Recording(i) /\ \A v \in Recording(i) : mem'[v] = mem[v]
      BY <2>1, <2>2 DEF LeavesHistory, Recording, Busy
    <3>2. QED
      BY <1>3, <2>2, <3>1 DEF LeavesHistory
  <2>3. CASE Records(w)
    <3>1. Recording(i) = {w} /\ Recording(i)' = {}
      BY <1>2, <1>6, <2>1, <2>3 DEF Records, Recording, Busy
    <3>2. history'[i] = Append(history[i], mem[w].old) /\ replaced'[i] = replaced[i]
      BY <1>1, <1>6, <2>3 DEF Records
    <3>3. QED
      BY <1>2, <3>1, <3>2 DEF ExactOf
  <2>4. CASE Replaces(w)
    <3>1. Recording(i) = {} /\ Recording(i)' = {w}
      BY <1>2, <1>6, <2>1, <2>4 DEF Replaces, Recording, Busy
    <3>2. history'[i] = history[i] /\ replaced'[i] = Append(replaced[i], mem'[w].old)
      BY <1>1, <1>6, <2>4 DEF Replaces
    <3>3. QED
      BY <1>2, <3>1, <3>2 DEF ExactOf
  <2>5. QED
    BY <1>6, <2>2, <2>3, <2>4, WorkerAndHistory
<1>7. QED
  BY <1>2, <1>4, <1>5, <1>6, ExactElsewhere, SyncIsApart, RequestIsApart,
     OthersAreApart DEF Next

(* However many workers scrape at the same time, whatever fails, is        *)
(* blocked or hidden and whenever the process ends, the history of an item *)
(* holds every price its row gave up, in order and once, unless two        *)
(* workers were busy with that very item at once or the very call that     *)
(* stores or records one of its prices went wrong (the property            *)
(* HistoryIsExact of the run), as long as prices are in cents.             *)
THEOREM HistoryStaysExact ==
  ASSUME InCents
  PROVE  Spec => []HistoryIsExact
<1>1. Init => AloneInv /\ PriceInv /\ ExactInv
  BY HistoryInit DEF AloneInv, PriceInv, AgreesWithRow, ExactInv, ExactOf,
                     Recording, Busy
<1>2. TypeInv /\ [Next]_vars => TypeInv'
  BY StepKinds
<1>3. TypeInv /\ AloneInv /\ [Next]_vars => AloneInv'
  BY AloneStep
<1>4. TypeInv /\ AloneInv /\ PriceInv /\ [Next]_vars => PriceInv'
  BY PriceStep
<1>5. TypeInv /\ AloneInv /\ PriceInv /\ ExactInv /\ [Next]_vars => ExactInv'
  BY ExactStep
<1>6. ExactInv => HistoryIsExact
  BY DEF ExactInv, ExactOf, HistoryIsExact
<1>7. QED
  BY InitTyped, <1>1, <1>2, <1>3, <1>4, <1>5, <1>6, PTL DEF Spec
=============================================================================
