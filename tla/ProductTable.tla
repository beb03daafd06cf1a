---------------------------- MODULE ProductTable ----------------------------
(***************************************************************************)
(* The tables webdata_products, webdata_price_history and, reduced to      *)
(* whether a product has a business type, webdata_product_business_types,  *)
(* with the statements the service runs on them                            *)
(* (PostgresProductRepository).  An item stands for one tenant, source and *)
(* content hash: the unique index allows it one row.                       *)
(***************************************************************************)
EXTENDS Naturals, Sequences, FiniteSets

CONSTANTS
  Items,       \* content hashes
  Prices,      \* prices a listing may show
  Rounded,     \* Rounded[p]: what a DECIMAL(12,2) column makes of p
  NoPrice,     \* NULL
  NoProduct    \* not a row: the item has never been stored

VARIABLES
  product,     \* product[i]: the row of item i, or NoProduct
  history,     \* history[i]: the prices recorded for the row of i
  classified,  \* the items whose row has a business type
  replaced     \* only to state properties: prices the row of i no longer has

tables == <<product, history, classified, replaced>>

Fields == {"image", "category"}      \* what the sync needs besides a price

(* The columns that matter, of a row or of a *ScrapedProduct in memory.    *)
(* seen is last_seen_at.                                                   *)
Product == [price : Prices \cup {NoPrice}, fields : SUBSET Fields,
            blocked : BOOLEAN, hidden : BOOLEAN, synced : BOOLEAN,
            seen : Nat]

ASSUME ProductTableAssumption ==
  /\ Rounded \in [Prices -> Prices]
  /\ \A p \in Prices : Rounded[Rounded[p]] = Rounded[p]
  /\ NoPrice \notin Prices
  /\ NoProduct \notin Product

Stored(i) == product[i] # NoProduct
Column(p) == IF p = NoPrice THEN NoPrice ELSE Rounded[p]

TablesInit == /\ product = [i \in Items |-> NoProduct]
              /\ history = [i \in Items |-> <<>>]
              /\ classified = {}
              /\ replaced = [i \in Items |-> <<>>]

(* IsReadyForPIMSync and NeedsPIMSync of a copy p.                         *)
IsReadyForPIMSync(p) == /\ p.price # NoPrice /\ p.fields = Fields
                        /\ ~p.hidden /\ ~p.blocked
NeedsPIMSync(p) == IsReadyForPIMSync(p) /\ ~p.synced

(* Mutant of Accepts: the WHERE of the upsert forgets is_blocked.          *)
AcceptsBlocked(i) == Stored(i) => ~product[i].hidden

(* The upsert of i has a row to insert or to update; otherwise RETURNING   *)
(* gives no row, which the repository reports as an error.                 *)
Accepts(i) == Stored(i) => ~product[i].blocked /\ ~product[i].hidden

(* Upsert: inserts the copy c, or writes its scraped columns over those of *)
(* the row, whatever they have become since the copy was read.             *)
Upsert(i, c) ==
  LET row == product[i]
      price == Column(c.price)
  IN /\ Accepts(i)
     /\ product' = [product EXCEPT ![i] =
          IF Stored(i)
          THEN [row EXCEPT !.price = price, !.fields = c.fields,
                           !.seen = c.seen]
          ELSE [c EXCEPT !.price = price, !.synced = FALSE]]
     /\ replaced' = IF Stored(i) /\ row.price \notin {NoPrice, price}
                    THEN [replaced EXCEPT ![i] = Append(@, row.price)]
                    ELSE replaced

(* SavePriceRecord; the column is a DECIMAL(12,2) as well.                 *)
SavePriceRecord(i, p) ==
  history' = [history EXCEPT ![i] = Append(@, Column(p))]

(* SaveBusinessTypes with one assignment.                                  *)
SaveBusinessTypes(i) == classified' = classified \cup {i}

(* UpdateBlocked and SoftDelete see only rows that are not hidden.         *)
UpdateBlocked(i, b) ==
  /\ Stored(i) /\ ~product[i].hidden
  /\ product' = [product EXCEPT ![i].blocked = b]

SoftDelete(i) ==
  /\ Stored(i) /\ ~product[i].hidden
  /\ product' = [product EXCEPT ![i].hidden = TRUE]

(* MarkSyncedToPIM: the row, if there is one, whatever its state.          *)
MarkSyncedToPIM(i) ==
  product' = IF Stored(i) THEN [product EXCEPT ![i].synced = TRUE]
             ELSE product

(* FindAll with NotSyncedToPIM: neither readiness nor is_blocked matters.  *)
PendingItems == {i \in Items : /\ Stored(i)
                               /\ ~product[i].hidden /\ ~product[i].synced}

(* The first page of them, n at most, by last_seen_at DESC.                *)
FirstPage(n) ==
  {i \in PendingItems :
     Cardinality({j \in PendingItems : product[j].seen > product[i].seen}) < n}
=============================================================================
