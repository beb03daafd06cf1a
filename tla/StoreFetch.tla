----------------------------- MODULE StoreFetch -----------------------------
(***************************************************************************)
(* The adapters that page through a store's own JSON API: VTEXAdapter,     *)
(* with ranges of an offset, and CoopObreraAdapter, with page numbers.     *)
(* The store is another program: its listing may gain and lose products    *)
(* between two requests, and a request may fail.                           *)
(***************************************************************************)
EXTENDS FetchCall

CONSTANTS
  PageSize,         \* vtexDefaultPageSize (50)
  MaxOffset,        \* vtexMaxOffset (2500)
  CoopPageSize,     \* articles per page, fixed by the server (8)
  MaxEmptyPages,    \* coopMaxEmptyPages (2)
  Shown,            \* Shown[p]: the prices the store has for product p, in
                    \* the order of preference, NoPrice where it has null
  Listings,         \* what the store may list when the call begins
  MaxChanges,       \* bound: products the store gains or loses meanwhile
  MaxGlitches       \* bound: pages that come back empty by mistake

ASSUME StoreFetchAssumption ==
  /\ PageSize \in Nat \ {0} /\ CoopPageSize \in Nat \ {0}
  /\ MaxOffset \in Nat /\ MaxEmptyPages \in Nat \ {0}
  /\ MaxChanges \in Nat /\ MaxGlitches \in Nat
  /\ DOMAIN Shown \subseteq Nat /\ Listings \subseteq Seq(DOMAIN Shown)

(* A listing names a product once.                                         *)
Distinct(s) == \A k, n \in DOMAIN s : s[k] = s[n] => k = n

ASSUME ListingsAreDistinct == \A s \in Listings : Distinct(s)

VARIABLES
  shelf,     \* the store's listing, in its order
  at,        \* the loop of the adapter: from, total; page, empty; all
  drift      \* history: products gained and lost, the pages that came back
             \* empty, and the products that were listed all along

(* odd is whether the range requests sent are odd in number: each of them  *)
(* is a step that changes the state.                                       *)
Loop  == [from : Nat, total : Int, odd : BOOLEAN,
          page : Nat, empty : Nat, all : Seq(Nat)]
Drift == [gained : Nat, lost : Nat, glitches : Nat, stayed : SUBSET Nat]
Start == [from |-> 0, total |-> -1, odd |-> FALSE,
          page |-> 0, empty |-> 0, all |-> << >>]

Items(s) == {s[n] : n \in DOMAIN s}
Least(a, b) == IF a <= b THEN a ELSE b

StoreInit ==
  /\ shelf \in Listings
  /\ at = Start
  /\ drift = [gained |-> 0, lost |-> 0, glitches |-> 0,
              stayed |-> Items(shelf)]

(* The products in positions from + 1 .. from + n.                         *)
Window(from, n) == SubSeq(shelf, from + 1, Least(from + n, Len(shelf)))
Prefix(s, n)    == SubSeq(s, 1, n)
-----------------------------------------------------------------------------
(***************************************************************************)
(* The store.  A listing with a new product never had it before.           *)
(***************************************************************************)
Unlisted == (DOMAIN Shown) \ (Items(shelf) \cup drift.stayed
                                           \cup Items(at.all))
StoreGains ==
  /\ drift.gained + drift.lost < MaxChanges
  /\ \E n \in 0 .. Len(shelf), p \in Unlisted :
       shelf' = Prefix(shelf, n) \o <<p>> \o SubSeq(shelf, n + 1, Len(shelf))
  /\ drift' = [drift EXCEPT !.gained = @ + 1]

StoreLoses ==
  /\ drift.gained + drift.lost < MaxChanges
  /\ \E n \in DOMAIN shelf :
       /\ shelf' = Prefix(shelf, n - 1) \o SubSeq(shelf, n + 1, Len(shelf))
       /\ drift' = [drift EXCEPT !.lost = @ + 1, !.stayed = @ \ {shelf[n]}]

StoreChanges == /\ Pending /\ IsHTTP
                /\ StoreGains \/ StoreLoses
                /\ UNCHANGED <<request, ctx, reply, at>>
-----------------------------------------------------------------------------
(***************************************************************************)
(* VTEXAdapter.FetchHTTPJSON                                               *)
(***************************************************************************)

(* mapVTEXProduct takes the first seller's price, if there is a seller.    *)
VTEXPrice(p) == Head(Shown[p])

(* selectCoopPrice: the first positive price, and otherwise the last one,  *)
(* where null counts as 0.                                                 *)
ParseCoopPrice(v) == IF v = NoPrice THEN 0 ELSE v
CoopPrice(p) ==
  LET prices == [n \in DOMAIN Shown[p] |-> ParseCoopPrice(Shown[p][n])]
      chosen == {n \in DOMAIN prices :
                   /\ prices[n] > 0 \/ n = Len(prices)
                   /\ \A k \in 1 .. n - 1 : prices[k] = 0}
  IN  prices[CHOOSE n \in chosen : TRUE]

MapVTEXProduct(p)  == [id |-> p, price |-> VTEXPrice(p)]
MapCoopArticulo(p) == [id |-> p, price |-> CoopPrice(p)]

(* all, as the adapters return it.                                         *)
VTEXProducts == [n \in DOMAIN at.all |-> MapVTEXProduct(at.all[n])]
CoopProducts == [n \in DOMAIN at.all |-> MapCoopArticulo(at.all[n])]

(* How many products the next request asks for: a page, or what the cap    *)
(* leaves.                                                                 *)
Remaining ==
  IF request.cap > 0 THEN Least(PageSize, request.cap - Len(at.all))
  ELSE PageSize

KnowsAll     == at.total >= 0 /\ at.from >= at.total
CapIsReached == request.cap > 0 /\ Len(at.all) >= request.cap
VTEXEnough   == KnowsAll \/ at.from >= MaxOffset \/ CapIsReached

(* The total after the slash of Content-Range or Resources, -1 without.    *)
HeaderTotal(says) == IF says THEN Len(shelf) ELSE -1

(* Mutant of VTEXAdvance: the offset moves by what was asked for.          *)
VTEXAdvanceAsked(got, says) ==
  [at EXCEPT !.all = @ \o got, !.from = @ + Remaining,
             !.total = IF @ < 0 THEN HeaderTotal(says) ELSE @, !.odd = ~@]

(* The total is that of the first answer whose header has one.             *)
VTEXAdvance(got, says) ==
  [at EXCEPT !.all = @ \o got, !.from = @ + Len(got),
             !.total = IF @ < 0 THEN HeaderTotal(says) ELSE @, !.odd = ~@]

(* Mutant of VTEXPage: an empty page does not end the loop.                *)
VTEXPageInAnyCase ==
  /\ ctx = "live" /\ ~VTEXEnough
  /\ \E says \in BOOLEAN :
       LET window == Window(at.from, Remaining) IN
       \E n \in (IF window = << >> THEN {0} ELSE DOMAIN window) :
         at' = VTEXAdvance(Prefix(window, n), says)
  /\ UNCHANGED <<reply, drift>>

(* A page: the store may return fewer products than it was asked for, and  *)
(* a header that says how many there are; an empty one ends the loop.      *)
VTEXPage ==
  /\ ctx = "live" /\ ~VTEXEnough
  /\ \E says \in BOOLEAN :
       LET window == Window(at.from, Remaining) IN
       \E n \in (IF window = << >> THEN {0} ELSE DOMAIN window) :
         /\ at' = VTEXAdvance(Prefix(window, n), says)
         /\ IF n = 0 THEN Answers(VTEXProducts)
                     ELSE reply' = reply
  /\ UNCHANGED drift

VTEXEnds ==
  /\ ctx = "live" /\ VTEXEnough
  /\ Answers(VTEXProducts)
  /\ UNCHANGED <<at, drift>>

(* A request that fails in any way, and a cancelled context, give up the   *)
(* pages that were read.                                                   *)
GivesUp == /\ ctx = "live" => \/ IsVTEX /\ ~VTEXEnough
                              \/ IsCoop
           /\ Fails
           /\ UNCHANGED <<at, drift>>

VTEXStep == /\ IsVTEX /\ Pending
            /\ VTEXPage \/ VTEXEnds \/ GivesUp
            /\ UNCHANGED <<request, ctx, shelf>>
-----------------------------------------------------------------------------
(***************************************************************************)
(* CoopObreraAdapter.FetchHTTPJSON                                         *)
(***************************************************************************)

(* A source whose crawl_config has no category_id cannot be fetched.       *)
CoopRefuses == request.category = 0 /\ Fails /\ UNCHANGED <<at, drift>>

CoopPage ==
  /\ ctx = "live" /\ request.category # 0
  /\ LET page == Window(at.page * CoopPageSize, CoopPageSize) IN
     /\ page # << >>
     /\ at' = [at EXCEPT !.page = @ + 1, !.empty = 0, !.all = @ \o page]
  /\ UNCHANGED <<reply, drift>>

(* Mutant of CoopEmptyPage: the first empty page ends the loop.            *)
CoopEmptyEnds ==
  /\ ctx = "live" /\ request.category # 0
  /\ LET page == Window(at.page * CoopPageSize, CoopPageSize) IN
     \/ page = << >> /\ UNCHANGED drift
     \/ /\ page # << >> /\ drift.glitches < MaxGlitches
        /\ drift' = [drift EXCEPT !.glitches = @ + 1]
  /\ Answers(CoopProducts)
  /\ UNCHANGED at

(* An empty page, past the last product or by mistake: two in a row end    *)
(* the loop, and a single one is passed over.                              *)
CoopEmptyPage ==
  /\ ctx = "live" /\ request.category # 0
  /\ LET page == Window(at.page * CoopPageSize, CoopPageSize) IN
     \/ page = << >> /\ UNCHANGED drift
     \/ /\ page # << >> /\ drift.glitches < MaxGlitches
        /\ drift' = [drift EXCEPT !.glitches = @ + 1]
  /\ IF at.empty + 1 >= MaxEmptyPages
     THEN Answers(CoopProducts) /\ UNCHANGED at
     ELSE /\ at' = [at EXCEPT !.page = @ + 1, !.empty = @ + 1]
          /\ UNCHANGED reply

CoopStep == /\ IsCoop /\ Pending
            /\ CoopRefuses \/ CoopPage \/ CoopEmptyPage \/ GivesUp
            /\ UNCHANGED <<request, ctx, shelf>>
=============================================================================
