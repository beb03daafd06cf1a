--------------------------- MODULE FetchingProofs ---------------------------
(***************************************************************************)
(* Proofs about Fetching, for every store, page size, limit and timeout:   *)
(* the types are right, a store that stood still is copied, what one that  *)
(* changed can hide or repeat is bounded, a page makes Firecrawl work a    *)
(* bounded number of times, reading it through Firecrawl holds a worker    *)
(* for a bounded time, and fails for a cause.                              *)
(***************************************************************************)
EXTENDS Fetching, WellFoundedInduction, FiniteSetTheorems, TLAPS

(***************************************************************************)
(* Induction on the natural numbers, for a set of them, from the theorem   *)
(* that every non-empty set has a minimal element.                         *)
(***************************************************************************)
LEMMA NaturalsAreReached ==
  ASSUME NEW S \in SUBSET Nat, 0 \in S, \A n \in S : n + 1 \in S
  PROVE  S = Nat
<1> DEFINE R == {p \in Nat \X Nat : p[1] < p[2]}
           T == Nat \ S
<1>1. SUFFICES ASSUME T # {}  PROVE FALSE
  OBVIOUS
<1>2. IsWellFoundedOn(R, Nat)
  <2>1. OpToRel(<, Nat) = R
    BY DEF OpToRel
  <2>2. QED
    BY <2>1, NatLessThanWellFounded
<1> HIDE DEF R
<1>3. PICK x \in T : \A y \in T : ~(<<y, x>> \in R)
  BY <1>1, <1>2, WFMin
<1>4. x # 0 /\ x - 1 \in Nat
  OBVIOUS
<1>5. <<x - 1, x>> \in R
  BY <1>4 DEF R
<1>6. QED
  BY <1>3, <1>4, <1>5

(***************************************************************************)
(* The pauses of doRequestWithRetry: Pause is the function its recursive   *)
(* definition describes.  Every table of the first pauses agrees with      *)
(* every other, so the last entries of all of them make up the function.   *)
(***************************************************************************)
Doubles(h, n) == h[0] = Backoff /\ \A i \in 1 .. n : h[i] = 2 * h[i - 1]
Tables(n)     == {h \in [0 .. n -> Nat] : Doubles(h, n)}

LEMMA TablesExist ==
  ASSUME NEW n \in Nat
  PROVE  Tables(n) # {}
<1> DEFINE S == {k \in Nat : Tables(k) # {}}
<1>1. 0 \in S
  <2>1. [i \in 0 .. 0 |-> Backoff] \in Tables(0)
    BY FirecrawlAssumption DEF FirecrawlAssumption, Tables, Doubles
  <2>2. QED
    BY <2>1
<1>2. ASSUME NEW k \in S  PROVE k + 1 \in S
  <2>1. k \in Nat /\ k + 1 \in Nat
    OBVIOUS
  <2>2. PICK h \in [0 .. k -> Nat] : Doubles(h, k)
    BY DEF Tables
  <2> DEFINE g == [i \in 0 .. k + 1 |-> IF i = k + 1 THEN 2 * h[k] ELSE h[i]]
  <2>3. g \in [0 .. k + 1 -> Nat]
    BY <2>1
  <2>4. ASSUME NEW i \in 1 .. k + 1  PROVE g[i] = 2 * g[i - 1]
    <3>1. CASE i = k + 1
      BY <2>1, <3>1
    <3>2. CASE i # k + 1
      <4>1. i \in 1 .. k /\ i \in 0 .. k + 1 /\ i - 1 \in 0 .. k + 1 /\ i - 1 # k + 1
        BY <2>1, <3>2
      <4>2. g[i] = h[i] /\ g[i - 1] = h[i - 1]
        BY <3>2, <4>1
      <4>3. QED
        BY <2>2, <4>1, <4>2 DEF Doubles
    <3>3. QED
      BY <3>1, <3>2
  <2>5. g[0] = Backoff
    BY <2>1, <2>2 DEF Doubles
  <2> HIDE DEF g
  <2>6. g \in Tables(k + 1)
    BY <2>3, <2>4, <2>5 DEF Tables, Doubles
  <2>7. QED
    BY <2>1, <2>6
<1> HIDE DEF S
<1>3. S = Nat
  BY <1>1, <1>2, NaturalsAreReached DEF S
<1>4. QED
  BY <1>3 DEF S

LEMMA TablesAgree ==
  ASSUME NEW n \in Nat, NEW m \in Nat, NEW h \in Tables(n), NEW g \in Tables(m),
         NEW i \in Nat, i <= n, i <= m
  PROVE  h[i] = g[i]
<1> DEFINE S == {k \in Nat : k <= n /\ k <= m => h[k] = g[k]}
<1>1. 0 \in S
  BY DEF Tables, Doubles
<1>2. ASSUME NEW k \in S  PROVE k + 1 \in S
  <2>1. SUFFICES ASSUME k + 1 <= n, k + 1 <= m  PROVE h[k + 1] = g[k + 1]
    OBVIOUS
  <2>2. k + 1 \in 1 .. n /\ k + 1 \in 1 .. m /\ (k + 1) - 1 = k
    BY <2>1
  <2>3. h[k] = g[k]
    BY <2>1
  <2>4. h[k + 1] = 2 * h[(k + 1) - 1] /\ g[k + 1] = 2 * g[(k + 1) - 1]
    BY <2>2 DEF Tables, Doubles
  <2>5. QED
    BY <2>2, <2>3, <2>4
<1> HIDE DEF S
<1>3. S = Nat
  BY <1>1, <1>2, NaturalsAreReached DEF S
<1>4. QED
  BY <1>3 DEF S

LEMMA PauseDoubles ==
  /\ Pause = [n \in Nat |-> IF n = 0 THEN Backoff ELSE 2 * Pause[n - 1]]
  /\ Pause \in [Nat -> Nat]
<1> DEFINE table(n) == CHOOSE h \in Tables(n) : TRUE
           f == [n \in Nat |-> table(n)[n]]
<1>1. \A n \in Nat : table(n) \in Tables(n)
  BY TablesExist
<1> HIDE DEF table
<1>2. \A n \in Nat : table(n)[n] \in Nat
  BY <1>1 DEF Tables
<1>3. ASSUME NEW n \in Nat
      PROVE  f[n] = IF n = 0 THEN Backoff ELSE 2 * f[n - 1]
  <2>1. CASE n = 0
    BY <1>1, <2>1 DEF Tables, Doubles
  <2>2. CASE n # 0
    <3>1. n - 1 \in Nat /\ n \in 1 .. n /\ n - 1 <= n
      BY <2>2
    <3>2. table(n)[n] = 2 * table(n)[n - 1]
      BY <1>1, <3>1 DEF Tables, Doubles
    <3>3. table(n)[n - 1] = table(n - 1)[n - 1]
      BY <1>1, <3>1, TablesAgree
    <3>4. QED
      BY <2>2, <3>1, <3>2, <3>3
  <2>3. QED
    BY <2>1, <2>2
<1>4. f = [n \in Nat |-> IF n = 0 THEN Backoff ELSE 2 * f[n - 1]]
  BY <1>3
<1>5. \E g : g = [n \in Nat |-> IF n = 0 THEN Backoff ELSE 2 * g[n - 1]]
  <2> HIDE DEF f
  <2>1. QED
    BY <1>4
<1>6. Pause = [n \in Nat |-> IF n = 0 THEN Backoff ELSE 2 * Pause[n - 1]]
  BY <1>5, Zenon DEF Pause
<1> DEFINE S == {k \in Nat : Pause[k] \in Nat}
<1>7. 0 \in S
  BY <1>6, FirecrawlAssumption DEF FirecrawlAssumption
<1>8. ASSUME NEW k \in S  PROVE k + 1 \in S
  BY <1>6
<1> HIDE DEF S
<1>9. S = Nat
  BY <1>7, <1>8, NaturalsAreReached DEF S
<1>10. \A n \in Nat : Pause[n] \in Nat
  BY <1>9 DEF S
<1>11. Pause = [n \in Nat |-> Pause[n]]
  BY <1>6
<1>12. Pause \in [Nat -> Nat]
  BY <1>10, <1>11
<1>13. QED
  BY <1>6, <1>12
-----------------------------------------------------------------------------
(***************************************************************************)
(* Types.                                                                  *)
(***************************************************************************)

(* What the steps do to a record keeps it one.                             *)
LEMMA DriftUpdates ==
  ASSUME NEW d \in Drift, NEW x
  PROVE  /\ [d EXCEPT !.gained = @ + 1] \in Drift
         /\ [d EXCEPT !.lost = @ + 1, !.stayed = @ \ {x}] \in Drift
         /\ [d EXCEPT !.glitches = @ + 1] \in Drift
<1>1. [d EXCEPT !.gained = @ + 1] \in Drift
  BY DEF Drift
<1>2. [d EXCEPT !.lost = @ + 1, !.stayed = @ \ {x}] \in Drift
  <2>1. d.lost + 1 \in Nat /\ d.stayed \ {x} \in SUBSET Nat
    BY DEF Drift
  <2>2. \A n \in Nat, S \in SUBSET Nat : [d EXCEPT !.lost = n, !.stayed = S] \in Drift
    BY DEF Drift
  <2>3. QED
    BY <2>1, <2>2
<1>3. [d EXCEPT !.glitches = @ + 1] \in Drift
  BY DEF Drift
<1>4. QED
  BY <1>1, <1>2, <1>3

LEMMA LoopUpdate ==
  ASSUME NEW l \in Loop
  PROVE  [l EXCEPT !.page = @ + 1, !.empty = @ + 1] \in Loop
<1>1. l.page + 1 \in Nat /\ l.empty + 1 \in Nat
  BY DEF Loop
<1>2. \A n, m \in Nat : [l EXCEPT !.page = n, !.empty = m] \in Loop
  BY DEF Loop
<1>3. QED
  BY <1>1, <1>2

LEMMA CallUpdates ==
  ASSUME NEW c \in Call
  PROVE  /\ [c EXCEPT !.pc = "try", !.tries = 0] \in Call
         /\ [c EXCEPT !.pc = "try", !.tries = c.tries + 1] \in Call
         /\ [c EXCEPT !.pc = "wait"] \in Call
         /\ [c EXCEPT !.pc = "sent"] \in Call
         /\ [c EXCEPT !.pc = "pause"] \in Call
<1>1. \A n \in Nat : [c EXCEPT !.pc = "try", !.tries = n] \in Call
  BY DEF Call
<1>2. c.tries + 1 \in Nat
  BY DEF Call
<1>3. /\ [c EXCEPT !.pc = "wait"] \in Call /\ [c EXCEPT !.pc = "sent"] \in Call
      /\ [c EXCEPT !.pc = "pause"] \in Call
  BY DEF Call
<1>4. QED
  BY <1>1, <1>2, <1>3

USE FetchCallAssumption, StoreFetchAssumption, FirecrawlAssumption

LEMMA WindowType ==
  ASSUME NEW from \in Nat, NEW n \in Nat \ {0}, shelf \in Seq(DOMAIN Shown)
  PROVE  /\ Window(from, n) \in Seq(DOMAIN Shown) /\ Window(from, n) \in Seq(Nat)
         /\ Len(Window(from, n)) = IF from >= Len(shelf) THEN 0
                                   ELSE Least(n, Len(shelf) - from)
         /\ \A k \in 1 .. Len(Window(from, n)) :
              Window(from, n)[k] = shelf[from + k]
<1>1. DOMAIN Shown \subseteq Nat
  BY DEF StoreFetchAssumption
<1>2. Window(from, n) \in Seq(DOMAIN Shown)
  BY DEF Window, Least
<1>3. Window(from, n) \in Seq(Nat)
  BY <1>1, <1>2
<1>4. Len(Window(from, n)) = IF from >= Len(shelf) THEN 0
                             ELSE Least(n, Len(shelf) - from)
  BY DEF Window, Least
<1>5. ASSUME NEW k \in 1 .. Len(Window(from, n))
      PROVE  Window(from, n)[k] = shelf[from + k]
  <2>1. /\ k \in Nat /\ 1 <= k /\ Len(shelf) \in Nat
        /\ k <= n /\ from + k <= Len(shelf)
    BY <1>2, <1>4 DEF Least
  <2> DEFINE to == Least(from + n, Len(shelf))
  <2>2. to \in Nat /\ k \in 1 .. (to - (from + 1) + 1)
    BY <2>1 DEF Least
  <2> HIDE DEF to
  <2>3. SubSeq(shelf, from + 1, to)[k] = shelf[(from + 1) + k - 1]
    BY <2>2
  <2>4. (from + 1) + k - 1 = from + k
    BY <2>1
  <2>5. QED
    BY <2>3, <2>4 DEF Window, to
<1>6. QED
  BY <1>2, <1>3, <1>4, <1>5

LEMMA FetchTypeInit == Init => TypeOK
<1> SUFFICES ASSUME Init  PROVE TypeOK
  OBVIOUS
<1>1. request \in Request /\ ctx \in {"live", "cancelled"} /\ reply = NoReply
  BY DEF Init, CallInit, FetchCallAssumption
<1>2. shelf \in Seq(DOMAIN Shown) /\ Items(shelf) \subseteq Nat
  BY DEF Init, StoreInit, StoreFetchAssumption, Items
<1>3. at \in Loop /\ drift \in Drift
  BY <1>2 DEF Init, StoreInit, Start, Loop, Drift
<1>4. fc \in Call /\ remote \in Seq(States) /\ clock \in Nat
      /\ mishaps \in Mishap
  BY DEF Init, FirecrawlInit, Call, Mishap
<1>5. QED
  BY <1>1, <1>2, <1>3, <1>4 DEF TypeOK, NoReply

LEMMA TypeStore ==
  ASSUME TypeOK, StoreChanges, UNCHANGED firecrawlVars
  PROVE  TypeOK'
<1>1. UNCHANGED <<request, ctx, reply, at>>
  BY DEF StoreChanges
<1>2. DOMAIN Shown \subseteq Nat /\ shelf \in Seq(DOMAIN Shown) /\ drift \in Drift
  BY DEF StoreFetchAssumption, TypeOK
<1>3. CASE StoreGains
  <2>1. shelf' \in Seq(DOMAIN Shown)
    <3>1. PICK n \in 0 .. Len(shelf), p \in DOMAIN Shown :
            shelf' = Prefix(shelf, n) \o <<p>> \o SubSeq(shelf, n + 1, Len(shelf))
      BY <1>3 DEF StoreGains, Unlisted
    <3>2. /\ Prefix(shelf, n) \in Seq(DOMAIN Shown) /\ <<p>> \in Seq(DOMAIN Shown)
          /\ SubSeq(shelf, n + 1, Len(shelf)) \in Seq(DOMAIN Shown)
      BY <1>2 DEF Prefix
    <3>3. QED
      BY <3>1, <3>2
  <2>2. drift' \in Drift
    <3>1. drift' = [drift EXCEPT !.gained = @ + 1]
      BY <1>3 DEF StoreGains
    <3>2. drift \in Drift
      BY <1>2
    <3>3. QED
      BY <3>1, <3>2, DriftUpdates
  <2>3. QED
    BY <1>1, <2>1, <2>2 DEF TypeOK, firecrawlVars
<1>4. CASE StoreLoses
  <2>1. PICK n \in DOMAIN shelf :
          /\ shelf' = Prefix(shelf, n - 1) \o SubSeq(shelf, n + 1, Len(shelf))
          /\ drift' = [drift EXCEPT !.lost = @ + 1, !.stayed = @ \ {shelf[n]}]
    BY <1>4 DEF StoreLoses
  <2>2. n \in 1 .. Len(shelf)
    BY <1>2
  <2>3. /\ Prefix(shelf, n - 1) \in Seq(DOMAIN Shown)
        /\ SubSeq(shelf, n + 1, Len(shelf)) \in Seq(DOMAIN Shown)
    BY <1>2, <2>2 DEF Prefix
  <2>4. shelf' \in Seq(DOMAIN Shown)
    BY <2>1, <2>3
  <2>5. drift' \in Drift
    <3>1. drift' = [drift EXCEPT !.lost = @ + 1, !.stayed = @ \ {shelf[n]}]
      BY <2>1
    <3>2. drift \in Drift
      BY <1>2
    <3>3. QED
      BY <3>1, <3>2, DriftUpdates
  <2>6. QED
    BY <1>1, <2>4, <2>5 DEF TypeOK, firecrawlVars
<1>5. QED
  BY <1>3, <1>4 DEF StoreChanges

(* What a page that is read leaves behind.                                 *)
LEMMA VTEXAsks ==
  ASSUME TypeOK, ~VTEXEnough
  PROVE  /\ Remaining \in Nat \ {0}
         /\ request.cap > 0 => Remaining <= request.cap - Len(at.all)
<1>1. request.cap \in Nat /\ Len(at.all) \in Nat /\ PageSize \in Nat \ {0}
  BY DEF TypeOK, Request, Loop, StoreFetchAssumption
<1>2. request.cap > 0 => Len(at.all) < request.cap
  BY <1>1 DEF VTEXEnough, CapIsReached
<1>3. QED
  BY <1>1, <1>2 DEF Remaining, Least

LEMMA PageIsRead ==
  ASSUME TypeOK, VTEXPage, ~VTEXEnough
  PROVE  \E n \in Nat, says \in BOOLEAN :
           /\ n <= Len(Window(at.from, Remaining))
           /\ n = 0 => Window(at.from, Remaining) = << >>
           /\ at' = VTEXAdvance(Prefix(Window(at.from, Remaining), n), says)
           /\ IF n = 0 THEN Answers(VTEXProducts) ELSE reply' = reply
           /\ UNCHANGED drift
<1> DEFINE window == Window(at.from, Remaining)
<1>1. at.from \in Nat /\ Remaining \in Nat \ {0} /\ shelf \in Seq(DOMAIN Shown)
  BY VTEXAsks DEF TypeOK, Loop
<1>2. window \in Seq(DOMAIN Shown)
  BY <1>1, WindowType
<1>3. PICK says \in BOOLEAN, n \in (IF window = << >> THEN {0} ELSE DOMAIN window) :
         /\ at' = VTEXAdvance(Prefix(window, n), says)
         /\ IF n = 0 THEN Answers(VTEXProducts) ELSE reply' = reply
         /\ UNCHANGED drift
  BY DEF VTEXPage
<1> HIDE DEF window
<1>4. n \in Nat /\ n <= Len(window) /\ (n = 0 => window = << >>)
  <2>1. CASE window = << >>
    BY <2>1
  <2>2. CASE window # << >>
    BY <1>2, <2>2
  <2>3. QED
    BY <2>1, <2>2
<1>5. QED
  BY <1>3, <1>4 DEF window

LEMMA TypeVTEX ==
  ASSUME TypeOK, VTEXStep, UNCHANGED firecrawlVars
  PROVE  TypeOK'
<1>1. UNCHANGED <<request, ctx, shelf>> /\ reply.end = "none"
  BY DEF VTEXStep, Pending
<1>2. reply'.end \in {"none", "ok", "failed"}
      /\ (reply'.end # "ok" => reply'.products = << >>)
  BY DEF VTEXStep, VTEXPage, VTEXEnds, GivesUp, Answers, Fails, TypeOK
<1>3. at' \in Loop /\ drift' \in Drift
  <2>1. CASE VTEXPage
    <3>1. ~VTEXEnough
      BY <2>1 DEF VTEXPage
    <3>2. PICK n \in Nat, says \in BOOLEAN :
            /\ n <= Len(Window(at.from, Remaining))
            /\ at' = VTEXAdvance(Prefix(Window(at.from, Remaining), n), says)
            /\ UNCHANGED drift
      BY <2>1, <3>1, PageIsRead
    <3> DEFINE window == Window(at.from, Remaining)
    <3>3. window \in Seq(Nat) /\ at \in Loop /\ Len(shelf) \in Nat
      <4>1. /\ at.from \in Nat /\ Remaining \in Nat \ {0}
            /\ shelf \in Seq(DOMAIN Shown) /\ at \in Loop
        BY <3>1, VTEXAsks DEF TypeOK, Loop
      <4>2. shelf \in Seq(DOMAIN Shown) => window \in Seq(Nat)
        BY <4>1, WindowType
      <4>3. QED
        BY <4>1, <4>2
    <3>4. Prefix(window, n) \in Seq(Nat) /\ Len(Prefix(window, n)) = n
      BY <3>2, <3>3 DEF Prefix
    <3> DEFINE got == Prefix(window, n)
               tot == IF at.total < 0 THEN HeaderTotal(says) ELSE at.total
    <3>5. /\ at.all \o got \in Seq(Nat) /\ at.from + Len(got) \in Nat
          /\ tot \in Int /\ (~at.odd) \in BOOLEAN
      <4>1. /\ at.all \in Seq(Nat) /\ at.from \in Nat /\ at.total \in Int
            /\ HeaderTotal(says) \in Int /\ n \in Nat
        BY <3>3 DEF Loop, HeaderTotal
      <4>2. got \in Seq(Nat) /\ Len(got) = n
        BY <3>4
      <4> HIDE DEF got
      <4>3. at.all \o got \in Seq(Nat)
        BY <4>1, <4>2
      <4>4. QED
        BY <4>1, <4>2, <4>3
    <3>6. at' = [at EXCEPT !.all = at.all \o got, !.from = at.from + Len(got),
                           !.total = tot, !.odd = ~at.odd]
      BY <3>2, <3>3 DEF VTEXAdvance, Loop
    <3> HIDE DEF got, tot
    <3>7. QED
      BY <3>2, <3>3, <3>5, <3>6 DEF Loop, TypeOK
  <2>2. CASE VTEXEnds \/ GivesUp
    BY <2>2 DEF VTEXEnds, GivesUp, TypeOK
  <2>3. QED
    BY <2>1, <2>2 DEF VTEXStep
<1>4. QED
  BY <1>1, <1>2, <1>3 DEF TypeOK, firecrawlVars

LEMMA TypeCoop ==
  ASSUME TypeOK, CoopStep, UNCHANGED firecrawlVars
  PROVE  TypeOK'
<1>1. UNCHANGED <<request, ctx, shelf>> /\ reply.end = "none"
  BY DEF CoopStep, Pending
<1>2. reply'.end \in {"none", "ok", "failed"}
      /\ (reply'.end # "ok" => reply'.products = << >>)
  BY <1>1 DEF CoopStep, CoopRefuses, CoopPage, CoopEmptyPage, GivesUp, Answers,
              Fails, TypeOK
<1>3. /\ at \in Loop /\ drift \in Drift /\ shelf \in Seq(DOMAIN Shown)
      /\ at.page * CoopPageSize \in Nat /\ CoopPageSize \in Nat \ {0}
  BY DEF TypeOK, Loop, StoreFetchAssumption
<1>4. Window(at.page * CoopPageSize, CoopPageSize) \in Seq(Nat)
  BY <1>3, WindowType
<1>5. at' \in Loop /\ drift' \in Drift
  <2>1. CASE CoopPage
    <3>1. /\ at' = [at EXCEPT !.page = at.page + 1, !.empty = 0,
                  !.all = at.all \o Window(at.page * CoopPageSize, CoopPageSize)]
          /\ UNCHANGED drift
      BY <2>1 DEF CoopPage
    <3>2. at \in Loop /\ at.page + 1 \in Nat /\ at.all \in Seq(Nat)
      BY <1>3 DEF Loop
    <3>3. at.all \o Window(at.page * CoopPageSize, CoopPageSize) \in Seq(Nat)
      BY <1>4, <3>2
    <3>4. at' \in Loop
      BY <3>1, <3>2, <3>3 DEF Loop
    <3>5. QED
      BY <1>3, <3>1, <3>4
  <2>2. CASE CoopEmptyPage
    <3>1. /\ at' = at \/ at' = [at EXCEPT !.page = @ + 1, !.empty = @ + 1]
          /\ drift' = drift \/ drift' = [drift EXCEPT !.glitches = @ + 1]
      BY <2>2 DEF CoopEmptyPage
    <3>2. at \in Loop /\ drift \in Drift
      BY <1>3
    <3>3. at' \in Loop
      BY <3>1, <3>2, LoopUpdate
    <3>4. drift' \in Drift
      BY <3>1, <3>2, DriftUpdates
    <3>5. QED
      BY <3>3, <3>4
  <2>3. CASE CoopRefuses \/ GivesUp
    BY <1>3, <2>3 DEF CoopRefuses, GivesUp
  <2>4. QED
    BY <2>1, <2>2, <2>3 DEF CoopStep
<1>6. QED
  BY <1>1, <1>2, <1>5 DEF TypeOK, firecrawlVars

(* What an outcome of the adapter is.                                      *)
Replies == reply' = reply \/ Fails \/ reply'.end = "ok"

LEMMA StillTyped ==
  ASSUME TypeOK, UNCHANGED <<request, ctx, storeVars>>, Replies,
         fc' \in Call, remote' \in Seq(States), clock' \in Nat,
         mishaps' \in Mishap
  PROVE  TypeOK'
<1>1. /\ reply'.end \in {"none", "ok", "failed"}
      /\ reply'.end # "ok" => reply'.products = << >>
  BY DEF TypeOK, Replies, Fails
<1>2. QED
  BY <1>1 DEF TypeOK, storeVars

LEMMA TypeFirecrawl ==
  ASSUME TypeOK, FirecrawlStep, UNCHANGED storeVars
  PROVE  TypeOK'
<1>1. UNCHANGED <<request, ctx>>
  BY DEF FirecrawlStep
<1>2. /\ fc \in Call /\ fc.tries \in Nat
      /\ remote \in Seq(States) /\ clock \in Nat /\ mishaps \in Mishap
      /\ HTTPTimeout \in Nat /\ PollTimeout \in Nat /\ PollInterval \in Nat
      /\ Pause[fc.tries] \in Nat
  BY PauseDoubles DEF TypeOK, Call, FirecrawlAssumption
<1>3. ASSUME NEW n \in Nat, \E d \in 0 .. n : clock' = clock + d
      PROVE  clock' \in Nat
  BY <1>2, <1>3
<1>4. ASSUME Passes  PROVE clock' \in Nat
  BY <1>2, <1>3, <1>4 DEF Passes
<1>5. ASSUME NEW st \in States, Begins(st)  PROVE remote' \in Seq(States)
  BY <1>2, <1>5 DEF Begins
<1>6. ASSUME MayBegin  PROVE remote' \in Seq(States)
  BY <1>2, <1>5, <1>6 DEF MayBegin, States
<1>7. ASSUME TryFails
      PROVE  fc' \in Call /\ mishaps' \in Mishap /\ Replies
  <2>1. fc' = fc \/ fc' = [fc EXCEPT !.pc = "pause"]
    BY <1>7 DEF TryFails
  <2>2. fc' \in Call
    BY <1>2, <2>1, CallUpdates
  <2>3. mishaps' \in Mishap
    <3>1. mishaps' = [mishaps EXCEPT !.row = @ + 1]
      BY <1>7, Zenon DEF TryFails
    <3>2. mishaps.row + 1 \in Nat
      BY <1>2 DEF Mishap
    <3>3. QED
      BY <1>2, <3>1, <3>2 DEF Mishap
  <2>4. QED
    BY <1>7, <2>2, <2>3 DEF TryFails, Replies
<1>8. ASSUME Heard  PROVE clock' \in Nat /\ mishaps' \in Mishap
  <2>1. mishaps' \in Mishap
    BY <1>2, <1>8 DEF Heard, Mishap
  <2>2. QED
    BY <1>4, <1>8, <2>1 DEF Heard
<1>9. CASE NoKey \/ PollTimesOut
  BY <1>1, <1>2, <1>9, StillTyped DEF NoKey, PollTimesOut, Replies
<1>10. CASE Send
  BY <1>1, <1>2, <1>10, CallUpdates, StillTyped DEF Send, Replies
<1>11. CASE NotSent
  BY <1>1, <1>2, <1>7, <1>11, StillTyped DEF NotSent
<1>12. CASE RequestFails
  BY <1>1, <1>4, <1>6, <1>7, <1>12, StillTyped DEF RequestFails
<1>13. CASE Elapses \/ PollWait
  <2>1. fc' \in Call
    <3>1. \/ fc' = [fc EXCEPT !.pc = "try", !.tries = fc.tries + 1]
          \/ fc' = [fc EXCEPT !.pc = "try", !.tries = 0]
      BY <1>13, Zenon DEF Elapses, PollWait
    <3>2. QED
      BY <1>2, <3>1, CallUpdates, Zenon
  <2>2. clock' \in Nat
    BY <1>2, <1>13 DEF Elapses, PollWait
  <2>3. UNCHANGED <<reply, remote, mishaps>>
    BY <1>13 DEF Elapses, PollWait
  <2>4. QED
    BY <1>1, <1>2, <2>1, <2>2, <2>3, StillTyped DEF Replies
<1>14. CASE Interrupted \/ PollInterrupted
  <2>1. clock' \in Nat
    BY <1>2, <1>3, <1>14 DEF Interrupted, PollInterrupted
  <2>2. Fails /\ UNCHANGED <<fc, remote, mishaps>>
    BY <1>14 DEF Interrupted, PollInterrupted
  <2>3. QED
    BY <1>1, <1>2, <2>1, <2>2, StillTyped DEF Replies
<1>15. CASE AnswerSpoilt
  <2>1. Fails /\ UNCHANGED fc /\ clock' \in Nat /\ remote' \in Seq(States)
    BY <1>4, <1>6, <1>15 DEF AnswerSpoilt
  <2>2. mishaps' \in Mishap
    BY <1>15 DEF AnswerSpoilt, Mishap
  <2>3. QED
    BY <1>1, <1>2, <2>1, <2>2, StillTyped DEF Replies
<1>16. CASE SubmitExtract
  <2>1. remote' \in Seq(States) /\ Len(remote') \in Nat
    <3>1. remote' \in Seq(States)
      BY <1>5, <1>16 DEF SubmitExtract, States
    <3>2. QED
      BY <3>1
  <2>2. clock' \in Nat /\ mishaps' \in Mishap
    BY <1>8, <1>16 DEF SubmitExtract
  <2>3. fc' \in Call
    <3>1. fc' = [pc |-> "wait", tries |-> 0, id |-> Len(remote'),
                 deadline |-> clock' + PollTimeout]
      BY <1>16 DEF SubmitExtract
    <3>2. clock' + PollTimeout \in Nat
      <4>1. clock' \in Nat /\ PollTimeout \in Nat
        BY <1>2, <2>2
      <4>2. \A a, b \in Nat : a + b \in Nat
        OBVIOUS
      <4>3. QED
        BY <4>1, <4>2
    <3>3. QED
      BY <2>1, <3>1, <3>2 DEF Call
  <2>4. Replies
    BY <1>16 DEF SubmitExtract, Replies
  <2>5. QED
    BY <1>1, <2>1, <2>2, <2>3, <2>4, StillTyped
<1>17. CASE ScrapeAnswered
  <2>1. remote' \in Seq(States)
    BY <1>5, <1>17 DEF ScrapeAnswered, States
  <2>2. clock' \in Nat /\ mishaps' \in Mishap
    BY <1>8, <1>17 DEF ScrapeAnswered
  <2>3. Replies /\ UNCHANGED fc
    BY <1>17 DEF ScrapeAnswered, Answers, Replies
  <2>4. QED
    BY <1>1, <1>2, <2>1, <2>2, <2>3, StillTyped
<1>18. CASE PollAnswered
  <2>1. fc' = fc \/ fc' = [fc EXCEPT !.pc = "wait"]
    BY <1>18 DEF PollAnswered
  <2>2. fc' \in Call
    BY <1>2, <2>1, CallUpdates
  <2>3. remote' = remote \/ remote' = [remote EXCEPT ![fc.id] = "given"]
    BY <1>18 DEF PollAnswered
  <2>4. remote' \in Seq(States)
    BY <1>2, <2>3 DEF States
  <2>5. clock' \in Nat /\ mishaps' \in Mishap
    BY <1>8, <1>18 DEF PollAnswered
  <2>6. Replies
    BY <1>18 DEF PollAnswered, Answers, Replies
  <2>7. QED
    BY <1>1, <2>2, <2>4, <2>5, <2>6, StillTyped
<1>19. QED
  BY <1>9, <1>10, <1>11, <1>12, <1>13, <1>14, <1>15, <1>16, <1>17, <1>18
     DEF FirecrawlStep, Trying, Polling

LEMMA FetchTypeStep == TypeOK /\ [Next]_vars => TypeOK'
<1> SUFFICES ASSUME TypeOK, [Next]_vars  PROVE TypeOK'
  OBVIOUS
<1>1. CASE Refuse /\ UNCHANGED <<storeVars, firecrawlVars>>
  BY <1>1 DEF Refuse, Fails, TypeOK, storeVars, firecrawlVars
<1>2. CASE Cancel /\ UNCHANGED <<storeVars, firecrawlVars>>
  BY <1>2 DEF Cancel, TypeOK, storeVars, firecrawlVars
<1>3. CASE ExtractionEnds /\ UNCHANGED storeVars
  BY <1>3 DEF ExtractionEnds, States, TypeOK, storeVars
<1>4. CASE UNCHANGED vars
  BY <1>4 DEF vars, TypeOK
<1>5. QED
  BY <1>1, <1>2, <1>3, <1>4, TypeStore, TypeVTEX, TypeCoop, TypeFirecrawl
     DEF Next, FetchStep, Outside

(* Every variable keeps its shape, whatever the store does and whatever    *)
(* the adapters are asked for (the property TypeOK of the run).            *)
THEOREM FetchTypeCorrect == Spec => []TypeOK
BY FetchTypeInit, FetchTypeStep, PTL DEF Spec
-----------------------------------------------------------------------------
(***************************************************************************)
(* The requests to Firecrawl: what each kind of step does to the call, the *)
(* number of extractions, the time and the record of mishaps.              *)
(***************************************************************************)
SameCall == UNCHANGED <<fc.pc, fc.tries, fc.id, fc.deadline>>
Kept     == UNCHANGED <<fc.tries, fc.id, fc.deadline>>
None     == Len(remote') = Len(remote)
Ends     == ~Pending' /\ UNCHANGED fc

Refused == Ends /\ None /\ UNCHANGED <<clock, mishaps>> /\ ~request.key
Sends   == /\ fc.pc = "try" /\ fc'.pc = "sent" /\ Kept /\ None
           /\ UNCHANGED <<reply, clock, mishaps>>
Fumbles == /\ fc.pc \in {"try", "sent"}
           /\ None \/ (Len(remote') = Len(remote) + 1 /\ fc.id = 0)
           /\ mishaps'.row = mishaps.row + 1
           /\ clock' <= clock + HTTPTimeout
           /\ \/ /\ fc.tries + 1 < MaxTries /\ fc'.pc = "pause" /\ Kept
                 /\ UNCHANGED reply
              \/ fc.tries + 1 = MaxTries /\ Ends
Resumes == /\ fc.pc = "pause" /\ fc'.pc = "try" /\ fc'.tries = fc.tries + 1
           /\ UNCHANGED <<fc.id, fc.deadline>> /\ None
           /\ clock' = clock + Pause[fc.tries]
           /\ UNCHANGED <<reply, mishaps>>
Stops   == /\ ctx = "cancelled" /\ Ends /\ None
           /\ \/ fc.pc = "pause" /\ clock' <= clock + Pause[fc.tries]
              \/ /\ fc.pc = "wait" /\ clock <= fc.deadline
                 /\ clock' <= clock + PollInterval
Closes  == /\ fc.pc = "sent" /\ Ends
           /\ None \/ (Len(remote') = Len(remote) + 1 /\ fc.id = 0)
           /\ clock' <= clock + HTTPTimeout
           /\ reply'.end = "ok" \/ mishaps'.spoilt
Awaits  == /\ fc.pc = "sent" /\ fc.id = 0
           /\ fc'.pc = "wait" /\ fc'.tries = 0 /\ fc'.id # 0
           /\ fc'.deadline = clock' + PollTimeout
           /\ clock' <= clock + HTTPTimeout
           /\ Len(remote') = Len(remote) + 1
           /\ mishaps'.row = 0 /\ UNCHANGED reply
Polls   == /\ fc.pc = "wait" /\ clock <= fc.deadline
           /\ fc'.pc = "try" /\ fc'.tries = 0
           /\ UNCHANGED <<fc.id, fc.deadline>> /\ None
           /\ clock' = clock + PollInterval
           /\ UNCHANGED <<reply, mishaps>>
Expires == /\ fc.pc = "wait" /\ clock > fc.deadline
           /\ Ends /\ None /\ UNCHANGED clock
Waits   == /\ fc.pc = "sent" /\ fc.id # 0 /\ fc'.pc = "wait" /\ Kept /\ None
           /\ clock' <= clock + HTTPTimeout
           /\ mishaps'.row = 0 /\ UNCHANGED reply

LEMMA AdapterMoves ==
  ASSUME TypeOK, Pending, FirecrawlStep
  PROVE  \/ Refused \/ Sends \/ Fumbles \/ Resumes \/ Stops \/ Closes
         \/ Awaits \/ Polls \/ Expires \/ Waits
<1>1. /\ fc \in Call /\ fc.tries \in Nat /\ remote \in Seq(States)
      /\ Len(remote) \in Nat /\ clock \in Nat /\ mishaps \in Mishap
      /\ HTTPTimeout \in Nat /\ PollInterval \in Nat
      /\ Pause[fc.tries] \in Nat /\ fc.deadline \in Nat
  BY PauseDoubles DEF TypeOK, Call, FirecrawlAssumption
<1>2. ASSUME NEW n \in Nat, \E d \in 0 .. n : clock' = clock + d
      PROVE  clock' <= clock + n
  BY <1>1, <1>2
<1>3. Passes => clock' <= clock + HTTPTimeout
  BY <1>1, <1>2 DEF Passes
<1>4. Fails => ~Pending' /\ reply'.end = "failed"
  BY DEF Fails, Pending
<1>5. ASSUME NEW st \in States, Begins(st)
      PROVE  Len(remote') = Len(remote) + 1
  BY <1>1, <1>5 DEF Begins
<1>6. MayBegin => None \/ (Len(remote') = Len(remote) + 1 /\ fc.id = 0)
  BY <1>5 DEF MayBegin, None, States
<1>7. ASSUME NEW step \in {"try", "sent", "pause", "wait"},
             fc' = [fc EXCEPT !.pc = step]
      PROVE  fc'.pc = step /\ Kept
  BY <1>1, <1>7 DEF Call, Kept
<1>8. ASSUME TryFails
      PROVE  /\ mishaps'.row = mishaps.row + 1
             /\ \/ /\ fc.tries + 1 < MaxTries /\ fc'.pc = "pause" /\ Kept
                   /\ UNCHANGED reply
                \/ fc.tries + 1 = MaxTries /\ Ends
  <2>1. mishaps'.row = mishaps.row + 1
    BY <1>1, <1>8 DEF TryFails, Mishap
  <2>2. CASE fc' = [fc EXCEPT !.pc = "pause"] /\ fc.tries + 1 < MaxTries
              /\ UNCHANGED reply
    BY <1>7, <2>1, <2>2
  <2>3. CASE fc.tries + 1 = MaxTries /\ Fails /\ UNCHANGED fc
    BY <1>4, <2>1, <2>3 DEF Ends
  <2>4. QED
    BY <1>8, <2>2, <2>3 DEF TryFails
<1>9. Heard => /\ fc.pc = "sent" /\ clock' <= clock + HTTPTimeout
               /\ mishaps'.row = 0
  <2>1. Heard => mishaps'.row = 0
    BY <1>1 DEF Heard, Mishap
  <2>2. QED
    BY <1>3, <2>1 DEF Heard
<1>10. CASE NoKey
  BY <1>4, <1>10 DEF NoKey, Refused, Ends, None
<1>11. CASE Send
  BY <1>7, <1>11 DEF Send, Sends, None
<1>12. CASE NotSent
  <2>1. clock' <= clock + HTTPTimeout /\ None /\ fc.pc = "try" /\ TryFails
    BY <1>1, <1>12 DEF NotSent, None
  <2>2. QED
    BY <1>8, <2>1 DEF Fumbles
<1>13. CASE RequestFails
  <2>1. MayBegin /\ Passes /\ TryFails /\ fc.pc = "sent"
    BY <1>13 DEF RequestFails
  <2>2. QED
    BY <1>3, <1>6, <1>8, <2>1 DEF Fumbles
<1>14. CASE Elapses
  <2>1. fc'.pc = "try" /\ fc'.tries = fc.tries + 1
        /\ UNCHANGED <<fc.id, fc.deadline>>
    BY <1>1, <1>14 DEF Elapses, Call
  <2>2. QED
    BY <1>14, <2>1 DEF Elapses, Resumes, None
<1>15. CASE Interrupted
  <2>1. clock' <= clock + Pause[fc.tries]
    BY <1>1, <1>2, <1>15 DEF Interrupted
  <2>2. QED
    BY <1>4, <1>15, <2>1 DEF Interrupted, Stops, Ends, None
<1>16. CASE PollInterrupted
  <2>1. clock' <= clock + PollInterval
    BY <1>1, <1>2, <1>16 DEF PollInterrupted
  <2>2. QED
    BY <1>4, <1>16, <2>1 DEF PollInterrupted, Stops, Ends, None
<1>17. CASE AnswerSpoilt
  BY <1>3, <1>4, <1>6, <1>17 DEF AnswerSpoilt, Closes, Ends
<1>18. CASE ScrapeAnswered
  <2>1. fc.id = 0 \/ fc.id # 0
    OBVIOUS
  <2>2. Len(remote') = Len(remote) + 1
    BY <1>5, <1>18 DEF ScrapeAnswered, States
  <2>3. reply'.end = "ok" /\ ~Pending' /\ UNCHANGED fc
    BY <1>18 DEF ScrapeAnswered, Answers, Pending
  <2>4. fc.id = 0
    BY <1>18 DEF ScrapeAnswered
  <2>5. QED
    BY <1>9, <1>18, <2>2, <2>3, <2>4 DEF ScrapeAnswered, Closes, Ends
<1>19. CASE SubmitExtract
  <2>1. Len(remote') = Len(remote) + 1
    BY <1>5, <1>19 DEF SubmitExtract, States
  <2>2. fc' = [pc |-> "wait", tries |-> 0, id |-> Len(remote'),
               deadline |-> clock' + PollTimeout]
    BY <1>19 DEF SubmitExtract
  <2>3. fc'.pc = "wait" /\ fc'.tries = 0 /\ fc'.id = Len(remote')
        /\ fc'.deadline = clock' + PollTimeout
    BY <2>2
  <2>4. fc'.id # 0
    BY <1>1, <2>1, <2>3
  <2>5. QED
    BY <1>9, <1>19, <2>1, <2>3, <2>4 DEF SubmitExtract, Awaits
<1>20. CASE PollWait
  <2>1. fc'.pc = "try" /\ fc'.tries = 0 /\ UNCHANGED <<fc.id, fc.deadline>>
    BY <1>1, <1>20 DEF PollWait, Call
  <2>2. QED
    BY <1>20, <2>1 DEF PollWait, Polls, None
<1>21. CASE PollTimesOut
  BY <1>4, <1>21 DEF PollTimesOut, Expires, Ends, None
<1>22. CASE PollAnswered
  <2>1. Heard /\ fc.id # 0
    BY <1>22 DEF PollAnswered
  <2>2. CASE remote[fc.id] = "completed"
    <3>1. Answers(<<fc.id>>) /\ UNCHANGED fc
          /\ remote' = [remote EXCEPT ![fc.id] = "given"]
      BY <1>22, <2>2 DEF PollAnswered
    <3>2. None
      BY <1>1, <3>1 DEF None
    <3>3. reply'.end = "ok" /\ ~Pending'
      BY <3>1 DEF Answers, Pending
    <3>4. QED
      BY <1>9, <2>1, <3>1, <3>2, <3>3 DEF Closes, Ends
  <2>3. CASE remote[fc.id] # "completed"
    <3>1. fc' = [fc EXCEPT !.pc = "wait"] /\ UNCHANGED <<reply, remote>>
      BY <1>22, <2>3 DEF PollAnswered
    <3>2. fc'.pc = "wait" /\ Kept
      BY <1>7, <3>1
    <3>3. QED
      BY <1>9, <2>1, <3>1, <3>2 DEF Waits, None
  <2>4. QED
    BY <2>2, <2>3
<1>23. QED
  BY <1>10, <1>11, <1>12, <1>13, <1>14, <1>15, <1>16, <1>17, <1>18, <1>19,
     <1>20, <1>21, <1>22 DEF FirecrawlStep, Trying, Polling

(* The steps that are not the adapter's leave its call alone.              *)
Others == /\ UNCHANGED <<request, fc, clock, mishaps>> /\ None
          /\ Pending' => Pending
          /\ ctx = "cancelled" => ctx' = "cancelled"
          /\ IsExtract \/ IsScrape => UNCHANGED reply

LEMMA OthersSteps ==
  ASSUME TypeOK, [Next]_vars
  PROVE  (Pending /\ FirecrawlStep) \/ Others
<1>1. CASE ExtractionEnds
  <2>1. Len(remote') = Len(remote)
    BY <1>1 DEF ExtractionEnds, TypeOK
  <2>2. QED
    BY <1>1, <2>1 DEF ExtractionEnds, Pending, Others, None
<1>2. CASE UNCHANGED vars
  BY <1>2 DEF vars, Pending, Others, None
<1>3. CASE VTEXStep /\ UNCHANGED firecrawlVars
  <2>1. ~(IsExtract \/ IsScrape)
    BY <1>3 DEF VTEXStep, IsVTEX, IsHTTP, IsExtract, IsScrape
  <2>2. QED
    BY <1>3, <2>1 DEF VTEXStep, firecrawlVars, Pending, Others, None
<1>4. CASE CoopStep /\ UNCHANGED firecrawlVars
  <2>1. ~(IsExtract \/ IsScrape)
    BY <1>4 DEF CoopStep, IsCoop, IsHTTP, IsExtract, IsScrape
  <2>2. QED
    BY <1>4, <2>1 DEF CoopStep, firecrawlVars, Pending, Others, None
<1>5. CASE Refuse /\ UNCHANGED firecrawlVars
  <2>1. ~(IsExtract \/ IsScrape)
    BY <1>5 DEF Refuse, Unsupported
  <2>2. QED
    BY <1>5, <2>1 DEF Refuse, firecrawlVars, Pending, Others, None
<1>6. CASE Cancel /\ UNCHANGED firecrawlVars
  BY <1>6 DEF Cancel, firecrawlVars, Pending, Others, None
<1>7. CASE StoreChanges /\ UNCHANGED firecrawlVars
  BY <1>7 DEF StoreChanges, firecrawlVars, Pending, Others, None
<1>8. QED
  BY <1>1, <1>2, <1>3, <1>4, <1>5, <1>6, <1>7
     DEF Next, FetchStep, Outside, FirecrawlStep

(* Nothing is begun by polling, and a try that is not the first is made    *)
(* for one that failed, so there are no more extractions than tries.       *)
TryInv ==
  /\ fc.tries < MaxTries
  /\ Len(remote) <= MaxTries
  /\ fc.pc = "wait" => fc.id # 0
  /\ fc.pc = "pause" => fc.tries + 1 < MaxTries
  /\ Pending /\ fc.id = 0 =>
       Len(remote) <= fc.tries + (IF fc.pc = "pause" THEN 1 ELSE 0)

LEMMA TryStep ==
  ASSUME TypeOK, TryInv, [Next]_vars
  PROVE  TryInv'
<1>1. /\ fc.tries \in Nat /\ Len(remote) \in Nat /\ MaxTries \in Nat \ {0}
  BY DEF TypeOK, Call, FirecrawlAssumption
<1>2. CASE Others
  BY <1>1, <1>2 DEF TryInv, Others, None
<1>3. CASE Pending /\ (Refused \/ Stops \/ Closes \/ Expires)
  BY <1>1, <1>3
     DEF TryInv, Refused, Stops, Closes, Expires, Ends, None
<1>4. CASE Pending /\ Fumbles
  BY <1>1, <1>4 DEF TryInv, Fumbles, Ends, Kept, None, Pending
<1>5. CASE Pending /\ (Sends \/ Resumes)
  BY <1>1, <1>5 DEF TryInv, Sends, Resumes, Kept, None, Pending
<1>6. CASE Pending /\ (Awaits \/ Polls \/ Waits)
  BY <1>1, <1>6 DEF TryInv, Awaits, Polls, Waits, Kept, None, Pending
<1>7. QED
  BY <1>2, <1>3, <1>4, <1>5, <1>6, OthersSteps, AdapterMoves

LEMMA TryInvariant == Spec => []TryInv
<1>1. Init => TryInv
  <2> SUFFICES ASSUME Init  PROVE TryInv
    OBVIOUS
  <2>1. fc.tries = 0 /\ fc.pc = "try" /\ Len(remote) = 0
        /\ MaxTries \in Nat \ {0}
    BY DEF Init, FirecrawlInit, FirecrawlAssumption
  <2>2. QED
    BY <2>1 DEF TryInv
<1>2. QED
  BY <1>1, TryStep, FetchTypeCorrect, PTL DEF Spec

(* One fetch makes Firecrawl work at most MaxTries times (the property     *)
(* ExtractionsBounded of the run).                                         *)
THEOREM ExtractionsStayBounded == Spec => []ExtractionsBounded
<1>1. TryInv => ExtractionsBounded
  BY DEF TryInv, ExtractionsBounded
<1>2. QED
  BY <1>1, TryInvariant, PTL

(* While a call goes on, the requests that failed since the last answer    *)
(* are the tries of the request it is at: none is counted for another.     *)
CauseInv ==
  /\ Pending /\ fc.pc \in {"try", "sent"} => mishaps.row = fc.tries
  /\ Pending /\ fc.pc = "pause" => mishaps.row = fc.tries + 1
  /\ Pending /\ fc.pc = "wait" => mishaps.row = 0
  /\ FailsForCause

LEMMA CauseStep ==
  ASSUME TypeOK, CauseInv, [Next]_vars
  PROVE  CauseInv'
<1>1. /\ fc.tries \in Nat /\ mishaps.row \in Nat /\ clock \in Nat
      /\ fc.pc \in {"try", "sent", "pause", "wait"} /\ MaxTries \in Nat
  BY DEF TypeOK, Call, Mishap, FirecrawlAssumption
<1>2. CASE Others
  <2>1. /\ IsExtract' <=> IsExtract
        /\ IsScrape' <=> IsScrape
    BY <1>2 DEF Others, IsExtract, IsScrape
  <2>2. FailsForCause'
    BY <1>2, <2>1 DEF CauseInv, FailsForCause, Others
  <2>3. QED
    BY <1>2, <2>2 DEF CauseInv, Others
<1>3. CASE Pending /\ FirecrawlStep
  <2>1. UNCHANGED <<request, ctx>>
    BY <1>3 DEF FirecrawlStep
  <2>2. CASE Refused \/ Stops \/ Closes \/ Expires
    <3>1. FailsForCause'
      BY <2>1, <2>2
         DEF Refused, Stops, Closes, Expires, Ends, FailsForCause
    <3>2. QED
      BY <2>2, <3>1 DEF Refused, Stops, Closes, Expires, Ends, CauseInv
  <2>3. CASE Fumbles
    <3>1. mishaps'.row = fc.tries + 1
      BY <1>1, <1>3, <2>3 DEF CauseInv, Fumbles
    <3>2. CASE fc'.pc = "pause" /\ Kept /\ UNCHANGED reply
      BY <1>1, <1>3, <3>1, <3>2 DEF CauseInv, Kept, Pending, FailsForCause
    <3>3. CASE fc.tries + 1 = MaxTries /\ Ends
      BY <1>1, <3>1, <3>3 DEF CauseInv, Ends, FailsForCause
    <3>4. QED
      BY <2>3, <3>2, <3>3 DEF Fumbles
  <2>4. CASE Sends \/ Resumes \/ Awaits \/ Polls \/ Waits
    <3>1. UNCHANGED reply
      BY <2>4 DEF Sends, Resumes, Awaits, Polls, Waits
    <3>2. FailsForCause'
      BY <1>3, <3>1 DEF FailsForCause, Pending
    <3>3. QED
      BY <1>1, <1>3, <2>4, <3>1, <3>2
         DEF CauseInv, Sends, Resumes, Awaits, Polls, Waits, Kept, Pending
  <2>5. QED
    BY <1>3, <2>2, <2>3, <2>4, AdapterMoves
<1>4. QED
  BY <1>2, <1>3, OthersSteps

(* A fetch by Firecrawl fails for a cause, and each of its requests has    *)
(* MaxTries tries of its own (the property FailsForCause of the run).      *)
THEOREM FailuresHaveCauses == Spec => []FailsForCause
<1>1. Init => CauseInv
  BY DEF Init, FirecrawlInit, CallInit, NoReply, CauseInv, FailsForCause
<1>2. CauseInv => FailsForCause
  BY DEF CauseInv
<1>3. QED
  BY <1>1, <1>2, CauseStep, FetchTypeCorrect, PTL DEF Spec
-----------------------------------------------------------------------------
(***************************************************************************)
(* Time.  The pauses before try t add up to Pause[t] - Backoff, as each is *)
(* twice the one before it.                                                *)
(***************************************************************************)
Spent(t) == t * HTTPTimeout + Pause[t] - Backoff

LEMMA PauseGrows ==
  ASSUME NEW n \in Nat, NEW m \in Nat, n <= m
  PROVE  Pause[n] <= Pause[m]
<1> DEFINE S == {k \in Nat : Pause[n] <= Pause[n + k]}
<1>1. 0 \in S
  BY PauseDoubles
<1>2. ASSUME NEW k \in S  PROVE k + 1 \in S
  <2>1. n + k \in Nat /\ n + (k + 1) \in Nat /\ n + (k + 1) # 0
        /\ (n + (k + 1)) - 1 = n + k
    OBVIOUS
  <2>2. Pause[n + (k + 1)] = 2 * Pause[n + k]
    BY <2>1, PauseDoubles
  <2>3. Pause[n + k] \in Nat /\ Pause[n] \in Nat /\ Pause[n] <= Pause[n + k]
    BY <2>1, PauseDoubles
  <2>4. QED
    BY <2>2, <2>3
<1> HIDE DEF S
<1>3. S = Nat
  BY <1>1, <1>2, NaturalsAreReached DEF S
<1>4. m - n \in S /\ n + (m - n) = m
  BY <1>3
<1>5. QED
  BY <1>4 DEF S

LEMMA SpentBounds ==
  ASSUME NEW t \in Nat, t < MaxTries
  PROVE  /\ Spent(0) = 0 /\ Spent(t) \in Int /\ TriesTime \in Int
         /\ Spent(t) + HTTPTimeout <= TriesTime
         /\ Spent(t) + HTTPTimeout + Pause[t] = Spent(t + 1)
<1>1. /\ MaxTries \in Nat \ {0} /\ MaxTries - 1 \in Nat
      /\ HTTPTimeout \in Nat /\ Backoff \in Nat
  BY DEF FirecrawlAssumption
<1>2. /\ Pause[0] = Backoff /\ Pause[t] \in Nat
      /\ Pause[MaxTries - 1] \in Nat /\ Pause[t + 1] \in Nat
  <2>1. Pause[0] = Backoff
    BY PauseDoubles
  <2>2. \A n \in Nat : Pause[n] \in Nat
    BY PauseDoubles
  <2>3. t + 1 \in Nat
    OBVIOUS
  <2>4. QED
    BY <1>1, <2>1, <2>2, <2>3
<1>3. Pause[t + 1] = 2 * Pause[t]
  <2>1. t + 1 \in Nat /\ t + 1 # 0 /\ (t + 1) - 1 = t
    OBVIOUS
  <2>2. QED
    BY <2>1, PauseDoubles
<1>4. Pause[t] <= Pause[MaxTries - 1]
  BY <1>1, PauseGrows
<1>5. (t + 1) * HTTPTimeout <= MaxTries * HTTPTimeout
  BY <1>1
<1>6. (t + 1) * HTTPTimeout = t * HTTPTimeout + HTTPTimeout
  BY <1>1
<1>7. /\ t * HTTPTimeout \in Nat /\ MaxTries * HTTPTimeout \in Nat
      /\ (t + 1) * HTTPTimeout \in Nat
  BY <1>1
<1>8. Spent(0) = 0
  BY <1>1, <1>2 DEF Spent
<1>9. Spent(t) \in Int /\ TriesTime \in Int
  BY <1>1, <1>2, <1>7 DEF Spent, TriesTime
<1>10. Spent(t) + HTTPTimeout <= TriesTime
  <2> DEFINE a == t * HTTPTimeout
             b == MaxTries * HTTPTimeout
             p == Pause[t]
             q == Pause[MaxTries - 1]
  <2>1. a + HTTPTimeout <= b
    BY <1>5, <1>6
  <2>2. /\ a \in Nat /\ b \in Nat /\ p \in Nat /\ q \in Nat /\ p <= q
        /\ HTTPTimeout \in Nat /\ Backoff \in Nat
    BY <1>1, <1>2, <1>4, <1>7
  <2>3. Spent(t) = a + p - Backoff /\ TriesTime = b + q - Backoff
    BY DEF Spent, TriesTime
  <2> HIDE DEF a, b, p, q
  <2>4. a + p - Backoff + HTTPTimeout <= b + q - Backoff
    BY <2>1, <2>2
  <2>5. QED
    BY <2>3, <2>4
<1>11. Spent(t) + HTTPTimeout + Pause[t] = Spent(t + 1)
  BY <1>1, <1>2, <1>3, <1>6, <1>7, SMTT(30) DEF Spent
<1>12. QED
  BY <1>8, <1>9, <1>10, <1>11

(* The time at which the tries of a request begin, if the call is at its   *)
(* first one: at once, or when the last interval before a poll is over.    *)
Begun == IF fc.id = 0 THEN 0 ELSE fc.deadline + PollInterval

(* Each wait starts before its deadline; the tries of one request take no  *)
(* longer than TriesTime.                                                  *)
TimeInv ==
  /\ fc.id # 0 => fc.deadline <= TriesTime + PollTimeout
  /\ clock <= Begun + TriesTime
  /\ Pending /\ fc.pc \in {"try", "sent"} => clock <= Begun + Spent(fc.tries)
  /\ Pending /\ fc.pc = "pause" =>
       clock <= Begun + (Spent(fc.tries) + HTTPTimeout)

LEMMA TimeStep ==
  ASSUME TypeOK, TypeOK', TryInv, TimeInv, [Next]_vars
  PROVE  TimeInv'
<1>1. /\ fc.tries \in Nat /\ fc.tries < MaxTries /\ fc.id \in Nat
      /\ clock \in Nat /\ clock' \in Nat /\ fc.deadline \in Nat
      /\ HTTPTimeout \in Nat /\ PollTimeout \in Nat /\ PollInterval \in Nat
      /\ Pause[fc.tries] \in Nat /\ Begun \in Nat
  <2>1. /\ fc.tries \in Nat /\ fc.tries < MaxTries /\ fc.id \in Nat
        /\ clock \in Nat /\ clock' \in Nat /\ fc.deadline \in Nat
        /\ HTTPTimeout \in Nat /\ PollTimeout \in Nat
        /\ PollInterval \in Nat
    BY DEF TypeOK, Call, FirecrawlAssumption, TryInv
  <2>2. Pause[fc.tries] \in Nat
    BY <2>1, PauseDoubles
  <2>3. Begun \in Nat
    BY <2>1 DEF Begun
  <2>4. QED
    BY <2>1, <2>2, <2>3
<1> DEFINE t == Spent(fc.tries)
           u == Spent(fc.tries + 1)
<1>2. /\ t \in Int /\ TriesTime \in Int
      /\ t + HTTPTimeout <= TriesTime
      /\ t + HTTPTimeout + Pause[fc.tries] = u
      /\ Spent(0) = 0
  BY <1>1, SpentBounds
<1>3. /\ 0 <= TriesTime
  <2>1. 0 < MaxTries /\ 0 \in Nat
    BY DEF FirecrawlAssumption
  <2>2. Spent(0) + HTTPTimeout <= TriesTime
    BY <2>1, SpentBounds
  <2>3. QED
    BY <1>1, <1>2, <2>2
<1>4. fc.pc = "pause" => u \in Int /\ u <= TriesTime
  <2>1. SUFFICES ASSUME fc.pc = "pause"  PROVE u \in Int /\ u <= TriesTime
    OBVIOUS
  <2>2. fc.tries + 1 \in Nat /\ fc.tries + 1 < MaxTries
    BY <1>1, <2>1 DEF TryInv
  <2>3. u \in Int /\ u + HTTPTimeout <= TriesTime
    BY <2>2, SpentBounds DEF u
  <2> HIDE DEF u
  <2>4. QED
    BY <1>1, <1>2, <2>3
<1>5. /\ fc.id # 0 => fc.deadline <= TriesTime + PollTimeout
      /\ clock <= Begun + TriesTime
      /\ Pending /\ fc.pc \in {"try", "sent"} => clock <= Begun + t
      /\ Pending /\ fc.pc = "pause" => clock <= Begun + (t + HTTPTimeout)
  BY DEF TimeInv
<1>6. CASE Others
  <2>1. UNCHANGED <<fc, clock>> /\ (Pending' => Pending)
    BY <1>6 DEF Others
  <2>2. Begun' = Begun /\ Spent(fc.tries)' = Spent(fc.tries)
    BY <2>1 DEF Begun, Spent
  <2>3. QED
    BY <2>1, <2>2 DEF TimeInv
<1>7. CASE Pending /\ (Refused \/ Stops \/ Closes \/ Expires)
  <2>1. ~Pending' /\ UNCHANGED fc
    BY <1>7 DEF Refused, Stops, Closes, Expires, Ends
  <2>2. Begun' = Begun
    BY <2>1 DEF Begun
  <2> HIDE DEF t, u
  <2>3. clock' <= Begun + TriesTime
    <3>1. CASE Refused \/ Expires
      BY <1>5, <3>1 DEF Refused, Expires
    <3>2. CASE Closes
      BY <1>1, <1>2, <1>5, <1>7, <3>2 DEF Closes
    <3>3. CASE Stops /\ fc.pc = "pause"
      <4>1. clock' <= clock + Pause[fc.tries]
        BY <3>3 DEF Stops
      <4>2. clock <= Begun + (t + HTTPTimeout)
        BY <1>5, <1>7, <3>3
      <4>3. QED
        BY <1>1, <1>2, <1>4, <3>3, <4>1, <4>2
    <3>4. CASE Stops /\ fc.pc = "wait"
      <4>1. clock <= fc.deadline /\ clock' <= clock + PollInterval
        BY <3>4 DEF Stops
      <4>2. Begun = fc.deadline + PollInterval
        BY <3>4 DEF TryInv, Begun
      <4>3. QED
        BY <1>1, <1>2, <1>3, <4>1, <4>2
    <3>5. QED
      BY <1>7, <3>1, <3>2, <3>3, <3>4 DEF Stops
  <2>4. QED
    BY <1>5, <2>1, <2>2, <2>3 DEF TimeInv
<1>8. CASE Pending /\ Sends
  <2>1. Begun' = Begun /\ Spent(fc.tries)' = t
    BY <1>8 DEF Sends, Kept, Begun, Spent
  <2>2. fc'.pc = "sent" /\ UNCHANGED <<clock, fc.id, fc.deadline>>
        /\ clock <= Begun + t
    BY <1>5, <1>8 DEF Sends, Kept
  <2> HIDE DEF t, u
  <2>3. QED
    BY <1>5, <2>1, <2>2 DEF TimeInv
<1>9. CASE Pending /\ Fumbles
  <2>1. clock <= Begun + t /\ clock' <= clock + HTTPTimeout
    BY <1>5, <1>9 DEF Fumbles
  <2>2. Kept
    BY <1>9 DEF Fumbles, Ends, Kept
  <2>3. Begun' = Begun /\ Spent(fc.tries)' = t
    BY <2>2 DEF Kept, Begun, Spent
  <2>4. fc'.pc = "pause" \/ ~Pending'
    BY <1>9 DEF Fumbles, Ends
  <2> HIDE DEF t, u
  <2>5. clock' <= Begun + (t + HTTPTimeout) /\ clock' <= Begun + TriesTime
    BY <1>1, <1>2, <2>1
  <2>6. QED
    BY <1>5, <2>2, <2>3, <2>4, <2>5 DEF TimeInv, Kept
<1>10. CASE Pending /\ Resumes
  <2>1. Begun' = Begun /\ Spent(fc.tries)' = u
    BY <1>10 DEF Resumes, Begun, Spent
  <2>2. /\ clock <= Begun + (t + HTTPTimeout) /\ fc.pc = "pause"
        /\ clock' = clock + Pause[fc.tries] /\ fc'.pc = "try"
        /\ UNCHANGED <<fc.id, fc.deadline>>
    BY <1>5, <1>10 DEF Resumes
  <2> HIDE DEF t, u
  <2>3. clock' <= Begun + u /\ clock' <= Begun + TriesTime
    BY <1>1, <1>2, <1>4, <2>2
  <2>4. QED
    BY <1>5, <2>1, <2>2, <2>3 DEF TimeInv
<1>11. CASE Pending /\ Awaits
  <2> HIDE DEF t, u
  <2> DEFINE now == clock'
             end == now + PollTimeout
  <2>1. /\ fc'.pc = "wait" /\ fc'.id # 0 /\ fc'.deadline = end
        /\ now <= clock + HTTPTimeout /\ clock <= Begun + t /\ Begun = 0
    BY <1>5, <1>11 DEF Awaits, Begun
  <2>2. Begun' = end + PollInterval
    BY <2>1 DEF Begun
  <2>3. now \in Nat
    BY <1>1
  <2> HIDE DEF now
  <2>4. now <= TriesTime
    BY <1>1, <1>2, <2>1, <2>3
  <2>5. end <= TriesTime + PollTimeout
    BY <1>1, <1>2, <2>3, <2>4
  <2>6. now <= (end + PollInterval) + TriesTime
    BY <1>1, <1>2, <1>3, <2>3
  <2>7. clock' <= Begun' + TriesTime
    BY <2>2, <2>6 DEF now
  <2> HIDE DEF end
  <2>8. QED
    BY <2>1, <2>5, <2>7 DEF TimeInv
<1>12. CASE Pending /\ Polls
  <2>1. /\ fc'.pc = "try" /\ fc'.tries = 0 /\ UNCHANGED <<fc.id, fc.deadline>>
        /\ clock <= fc.deadline /\ clock' = clock + PollInterval
        /\ fc.pc = "wait"
    BY <1>12 DEF Polls
  <2>2. Begun' = fc.deadline + PollInterval /\ Spent(fc.tries)' = Spent(0)
    BY <2>1 DEF Begun, Spent, TryInv
  <2> HIDE DEF t, u
  <2>3. clock' <= Begun' + Spent(0) /\ clock' <= Begun' + TriesTime
    BY <1>1, <1>2, <1>3, <2>1, <2>2
  <2>4. QED
    BY <1>5, <2>1, <2>2, <2>3 DEF TimeInv
<1>13. CASE Pending /\ Waits
  <2>1. /\ fc'.pc = "wait" /\ UNCHANGED <<fc.id, fc.deadline>>
        /\ clock' <= clock + HTTPTimeout /\ clock <= Begun + t
    BY <1>5, <1>13 DEF Waits, Kept
  <2>2. Begun' = Begun
    BY <2>1 DEF Begun
  <2> HIDE DEF t, u
  <2>3. clock' <= Begun + TriesTime
    BY <1>1, <1>2, <2>1
  <2>4. QED
    BY <1>5, <2>1, <2>2, <2>3 DEF TimeInv
<1>14. QED
  BY <1>6, <1>7, <1>8, <1>9, <1>10, <1>11, <1>12, <1>13, OthersSteps,
     AdapterMoves

(* A fetch is over in the time of two rounds of tries, the poll timeout    *)
(* and one pause (the property HoldsWorkerBriefly of the run).             *)
THEOREM WorkerIsHeldBriefly == Spec => []HoldsWorkerBriefly
<1>1. 0 \in Nat /\ 0 < MaxTries /\ HTTPTimeout \in Nat
      /\ PollTimeout \in Nat /\ PollInterval \in Nat
  BY DEF FirecrawlAssumption
<1>2. /\ TriesTime \in Int /\ 0 <= TriesTime /\ Spent(0) = 0
  <2>1. /\ TriesTime \in Int /\ Spent(0) + HTTPTimeout <= TriesTime
        /\ Spent(0) = 0
    BY <1>1, SpentBounds
  <2>2. QED
    BY <1>1, <2>1
<1>3. Init => TimeInv
  <2> SUFFICES ASSUME Init  PROVE TimeInv
    OBVIOUS
  <2>1. fc.pc = "try" /\ fc.tries = 0 /\ fc.id = 0 /\ clock = 0
    BY DEF Init, FirecrawlInit
  <2>2. QED
    BY <1>2, <2>1 DEF TimeInv, Begun
<1>4. TypeOK /\ TimeInv => HoldsWorkerBriefly
  <2> SUFFICES ASSUME TypeOK, TimeInv  PROVE HoldsWorkerBriefly
    OBVIOUS
  <2>1. fc.deadline \in Nat /\ clock \in Nat
    BY DEF TypeOK, Call
  <2>2. CASE fc.id = 0
    BY <1>1, <1>2, <2>1, <2>2 DEF TimeInv, Begun, HoldsWorkerBriefly
  <2>3. CASE fc.id # 0
    BY <1>1, <1>2, <2>1, <2>3 DEF TimeInv, Begun, HoldsWorkerBriefly
  <2>4. QED
    BY <2>2, <2>3
<1>5. QED
  BY <1>3, <1>4, TimeStep, FetchTypeStep, TryInvariant, FetchTypeCorrect, PTL
     DEF Spec
-----------------------------------------------------------------------------
(***************************************************************************)
(* What is read of a store that does not change: at any moment its first   *)
(* products, as many as the loop has come past.                            *)
(***************************************************************************)
VTEXCopies ==
  /\ at.from <= Len(shelf)
  /\ at.all = Prefix(shelf, at.from)
  /\ at.total \in {-1, Len(shelf)}
  /\ request.cap > 0 => at.from <= request.cap

CoopCopies == at.all = Prefix(shelf, Least(at.page * CoopPageSize, Len(shelf)))

AnswersAll ==
  /\ reply.products = [n \in DOMAIN at.all |-> MapProduct(at.all[n])]
  /\ ReadsWhole(Len(at.all))

CopyInv ==
  IsHTTP /\ Undisturbed => /\ IsVTEX => VTEXCopies
                           /\ IsCoop => CoopCopies
                           /\ Answered => AnswersAll

(* Prefixes of a listing: their lengths and elements, and how one grows.   *)
LEMMA PrefixGrows ==
  ASSUME NEW from \in Nat, NEW n \in Nat,
         shelf \in Seq(DOMAIN Shown), from + n <= Len(shelf)
  PROVE  Prefix(shelf, from) \o SubSeq(shelf, from + 1, from + n)
           = Prefix(shelf, from + n)
BY DEF Prefix

LEMMA PrefixType ==
  ASSUME NEW n \in Nat, shelf \in Seq(DOMAIN Shown), n <= Len(shelf)
  PROVE  /\ Prefix(shelf, n) \in Seq(DOMAIN Shown)
         /\ Len(Prefix(shelf, n)) = n
         /\ DOMAIN Prefix(shelf, n) = 1 .. n
         /\ \A k \in 1 .. n : Prefix(shelf, n)[k] = shelf[k]
BY DEF Prefix

(* A part of a sequence, element by element.                               *)
LEMMA PartOf ==
  ASSUME NEW S, NEW s \in Seq(S), NEW from \in Nat, NEW n \in Nat,
         from + n <= Len(s)
  PROVE  /\ SubSeq(s, from + 1, from + n) = [k \in 1 .. n |-> s[from + k]]
         /\ SubSeq(s, from + 1, from + n) \in Seq(S)
         /\ Len(SubSeq(s, from + 1, from + n)) = n
<1> DEFINE t == SubSeq(s, from + 1, from + n)
<1>1. t \in Seq(S) /\ Len(t) = n /\ DOMAIN t = 1 .. n
  <2>1. (from + n) - (from + 1) + 1 = n
    OBVIOUS
  <2>2. QED
    BY <2>1
<1>2. ASSUME NEW k \in 1 .. n  PROVE t[k] = s[from + k]
  <2>1. (from + 1) + k - 1 = from + k
    OBVIOUS
  <2>2. QED
    BY <2>1
<1>3. t = [k \in DOMAIN t |-> t[k]]
  <2> HIDE DEF t
  <2>1. QED
    BY <1>1
<1> HIDE DEF t
<1>4. t = [k \in 1 .. n |-> s[from + k]]
  BY <1>1, <1>2, <1>3
<1>5. QED
  BY <1>1, <1>4 DEF t

(* The products that were asked for are those that follow.                 *)
LEMMA WindowFollows ==
  ASSUME NEW from \in Nat, NEW m \in Nat \ {0}, NEW n \in Nat,
         shelf \in Seq(DOMAIN Shown), from <= Len(shelf),
         n <= Len(Window(from, m))
  PROVE  /\ from + n <= Len(shelf) /\ n <= m
         /\ Prefix(Window(from, m), n) = SubSeq(shelf, from + 1, from + n)
         /\ Len(Prefix(Window(from, m), n)) = n
         /\ Window(from, m) = << >> => from = Len(shelf)
<1> DEFINE w == Window(from, m)
<1>1. /\ w \in Seq(DOMAIN Shown)
      /\ Len(w) = IF from >= Len(shelf) THEN 0 ELSE Least(m, Len(shelf) - from)
      /\ \A k \in 1 .. Len(w) : w[k] = shelf[from + k]
  BY WindowType
<1>2. from + n <= Len(shelf) /\ n <= m
  BY <1>1 DEF Least
<1>3. w = << >> => from = Len(shelf)
  BY <1>1 DEF Least
<1> HIDE DEF w
<1>4. n <= Len(w) /\ Len(w) \in Nat
  BY <1>1 DEF w
<1>5. /\ SubSeq(w, 0 + 1, 0 + n) = [k \in 1 .. n |-> w[0 + k]]
      /\ Len(SubSeq(w, 0 + 1, 0 + n)) = n
  BY <1>1, <1>4, PartOf
<1>6. \A k \in 1 .. n : w[0 + k] = shelf[from + k]
  BY <1>1, <1>4
<1>7. SubSeq(shelf, from + 1, from + n) = [k \in 1 .. n |-> shelf[from + k]]
  BY <1>2, PartOf
<1>8. Prefix(w, n) = SubSeq(w, 0 + 1, 0 + n)
  BY DEF Prefix
<1>9. QED
  BY <1>2, <1>3, <1>5, <1>6, <1>7, <1>8 DEF w

LEMMA CopyInit == Init => CopyInv
<1> SUFFICES ASSUME Init  PROVE CopyInv
  OBVIOUS
<1>1. /\ at.from = 0 /\ at.total = -1 /\ at.all = << >> /\ at.page = 0
      /\ reply.end = "none"
  BY DEF Init, StoreInit, Start, CallInit, NoReply
<1>2. /\ shelf \in Seq(DOMAIN Shown) /\ request.cap \in Nat
      /\ CoopPageSize \in Nat
  BY FetchTypeInit DEF TypeOK, Request, StoreFetchAssumption
<1>3. Prefix(shelf, 0) = << >>
  BY <1>2 DEF Prefix
<1>4. VTEXCopies
  BY <1>1, <1>2, <1>3 DEF VTEXCopies
<1>5. Least(at.page * CoopPageSize, Len(shelf)) = 0
  BY <1>1, <1>2 DEF Least
<1>6. CoopCopies
  BY <1>1, <1>3, <1>5 DEF CoopCopies
<1>7. QED
  BY <1>1, <1>4, <1>6 DEF CopyInv, Answered

(* A step that leaves the loop, the listing and the answer alone, or makes *)
(* the call fail, keeps the copy.                                          *)
LEMMA CopyKept ==
  ASSUME CopyInv, UNCHANGED <<request, shelf, at, drift>>,
         reply' = reply \/ reply'.end # "ok"
  PROVE  CopyInv'
<1>1. /\ IsHTTP' = IsHTTP /\ IsVTEX' = IsVTEX /\ IsCoop' = IsCoop
      /\ Undisturbed' = Undisturbed
      /\ VTEXCopies' = VTEXCopies /\ CoopCopies' = CoopCopies
  BY DEF IsHTTP, IsVTEX, IsCoop, Undisturbed, VTEXCopies, CoopCopies, Prefix,
         Least
<1>2. CASE reply' = reply
  <2>1. Answered' = Answered /\ AnswersAll' = AnswersAll
    BY <1>1, <1>2 DEF Answered, AnswersAll, MapProduct, ReadsWhole, Least,
                      MapVTEXProduct, MapCoopArticulo, IsVTEX, IsCoop, IsHTTP,
                      VTEXPrice, CoopPrice
  <2>2. QED
    BY <1>1, <2>1 DEF CopyInv
<1>3. CASE reply'.end # "ok"
  BY <1>1, <1>3 DEF CopyInv, Answered
<1>4. QED
  BY <1>2, <1>3

(* Once the store has changed, or a page came back empty by mistake, the   *)
(* answer may differ.                                                      *)
LEMMA CopyDisturbed ==
  ASSUME TypeOK, StoreChanges
  PROVE  ~Undisturbed'
<1>1. drift \in Drift
  BY DEF TypeOK
<1>2. /\ drift.gained \in Nat /\ drift.lost \in Nat /\ drift.glitches \in Nat
  BY <1>1 DEF Drift
<1>3. CASE StoreGains
  <2>1. /\ drift'.gained = drift.gained + 1
        /\ drift'.lost = drift.lost /\ drift'.glitches = drift.glitches
    BY <1>1, <1>3 DEF StoreGains, Drift
  <2>2. QED
    BY <1>2, <2>1 DEF Undisturbed
<1>4. CASE StoreLoses
  <2>1. /\ drift'.lost = drift.lost + 1
        /\ drift'.gained = drift.gained /\ drift'.glitches = drift.glitches
    BY <1>1, <1>4 DEF StoreLoses, Drift
  <2>2. QED
    BY <1>2, <2>1 DEF Undisturbed
<1>5. QED
  BY <1>3, <1>4 DEF StoreChanges

(* VTEXAdapter: the page that follows, and no more than the cap leaves.    *)
LEMMA CopyVTEX ==
  ASSUME TypeOK, CopyInv, VTEXStep, Undisturbed
  PROVE  VTEXCopies' /\ (Answered' => AnswersAll')
<1>1. /\ IsVTEX /\ IsHTTP /\ ~Answered /\ UNCHANGED <<request, shelf>>
  BY DEF VTEXStep, IsVTEX, Pending, Answered
<1>2. VTEXCopies
  BY <1>1 DEF CopyInv
<1>3. /\ at \in Loop /\ at.from \in Nat /\ at.total \in Int
      /\ at.all \in Seq(Nat)
      /\ shelf \in Seq(DOMAIN Shown) /\ Len(shelf) \in Nat
      /\ request.cap \in Nat /\ MaxOffset \in Nat
  BY DEF TypeOK, Loop, Request, StoreFetchAssumption
<1>4. Len(at.all) = at.from /\ DOMAIN at.all = 1 .. at.from
  BY <1>2, <1>3, PrefixType DEF VTEXCopies
<1>5. IsVTEX' /\ \A p : MapProduct(p)' = MapVTEXProduct(p)
  BY <1>1 DEF IsVTEX, IsCoop, IsHTTP, MapProduct
<1>6. \A length : ReadsWhole(length)' <=>
        /\ length >= Least(Len(shelf), IF request.cap = 0 THEN MaxOffset
                                       ELSE Least(request.cap, MaxOffset))
        /\ request.cap > 0 => length <= request.cap
  BY <1>1, <1>5 DEF ReadsWhole, Least
<1>7. CASE VTEXPage
  <2>1. ~VTEXEnough
    BY <1>7 DEF VTEXPage
  <2>2. PICK n \in Nat, says \in BOOLEAN :
          /\ n <= Len(Window(at.from, Remaining))
          /\ n = 0 => Window(at.from, Remaining) = << >>
          /\ at' = VTEXAdvance(Prefix(Window(at.from, Remaining), n), says)
          /\ IF n = 0 THEN Answers(VTEXProducts) ELSE reply' = reply
    BY <1>7, <2>1, PageIsRead
  <2>3. /\ Remaining \in Nat \ {0}
        /\ request.cap > 0 => Remaining <= request.cap - at.from
    BY <1>4, <2>1, VTEXAsks
  <2> DEFINE got == Prefix(Window(at.from, Remaining), n)
  <2>4. /\ at.from + n <= Len(shelf) /\ n <= Remaining
        /\ got = SubSeq(shelf, at.from + 1, at.from + n)
        /\ Len(got) = n
        /\ n = 0 => at.from = Len(shelf)
    <3>1. at.from <= Len(shelf) /\ at.from \in Nat /\ shelf \in Seq(DOMAIN Shown)
      BY <1>2, <1>3 DEF VTEXCopies
    <3>2. n <= Len(Window(at.from, Remaining)) /\ n \in Nat
      BY <2>2
    <3>3. /\ at.from + n <= Len(shelf) /\ n <= Remaining
          /\ got = SubSeq(shelf, at.from + 1, at.from + n)
          /\ Len(got) = n
          /\ Window(at.from, Remaining) = << >> => at.from = Len(shelf)
      BY <2>3, <3>1, <3>2, WindowFollows
    <3>4. QED
      BY <2>2, <3>3
  <2>5. /\ at'.all = at.all \o got /\ at'.from = at.from + Len(got)
        /\ at'.total = IF at.total < 0 THEN HeaderTotal(says) ELSE at.total
    BY <1>3, <2>2 DEF VTEXAdvance, Loop
  <2> HIDE DEF got
  <2>6. at'.all = Prefix(shelf, at.from + n) /\ at'.from = at.from + n
    BY <1>2, <1>3, <2>4, <2>5, PrefixGrows DEF VTEXCopies
  <2>7. at'.total \in {-1, Len(shelf)}
    BY <1>2, <1>3, <2>5 DEF VTEXCopies, HeaderTotal
  <2>8. request.cap > 0 => at.from + n <= request.cap
    <3>1. \A r \in Nat : n <= r /\ r <= request.cap - at.from =>
                         at.from + n <= request.cap
      BY <1>3
    <3>2. QED
      BY <2>3, <2>4, <3>1
  <2>9. VTEXCopies'
    BY <1>1, <2>4, <2>6, <2>7, <2>8 DEF VTEXCopies, Prefix
  <2>10. ASSUME Answered'  PROVE AnswersAll'
    <3>1. n = 0 /\ reply'.products = VTEXProducts
      BY <1>1, <2>2, <2>10 DEF Answered, Answers
    <3>2. at'.all = at.all /\ at.from = Len(shelf)
      BY <1>2, <1>3, <2>4, <2>6, <3>1 DEF VTEXCopies
    <3>3. Len(at.all) = Len(shelf)
      BY <1>4, <3>2
    <3>4. ReadsWhole(Len(at.all))'
      <4>1. Len(at'.all) = Len(shelf) /\ shelf' = shelf /\ request' = request
        BY <1>1, <3>2, <3>3
      <4>2. request.cap > 0 => Len(shelf) <= request.cap
        BY <1>2, <3>2 DEF VTEXCopies
      <4>3. QED
        BY <1>3, <1>5, <4>1, <4>2 DEF ReadsWhole, Least
    <3>5. at'.all = at.all /\ reply'.products = VTEXProducts
      BY <3>1, <3>2
    <3>6. QED
      BY <1>5, <3>4, <3>5 DEF AnswersAll, VTEXProducts
  <2>11. QED
    BY <2>9, <2>10
<1>8. CASE VTEXEnds
  <2>1. VTEXEnough /\ at' = at /\ reply'.products = VTEXProducts
    BY <1>8 DEF VTEXEnds, Answers
  <2>2. VTEXCopies'
    BY <1>1, <1>2, <2>1 DEF VTEXCopies, Prefix
  <2>3. ReadsWhole(at.from)'
    <3>1. /\ at.from <= Len(shelf) /\ at.total \in {-1, Len(shelf)}
          /\ request.cap > 0 => at.from <= request.cap
      BY <1>2 DEF VTEXCopies
    <3>2. \/ at.total >= 0 /\ at.from >= at.total
          \/ at.from >= MaxOffset
          \/ request.cap > 0 /\ at.from >= request.cap
      BY <1>4, <2>1 DEF VTEXEnough, KnowsAll, CapIsReached
    <3>3. /\ at.from >= Least(Len(shelf), IF request.cap = 0 THEN MaxOffset
                                          ELSE Least(request.cap, MaxOffset))
          /\ request.cap > 0 => at.from <= request.cap
      BY <1>3, <3>1, <3>2 DEF Least
    <3>4. at'.from = at.from /\ request' = request /\ shelf' = shelf
      BY <1>1, <2>1
    <3>5. QED
      BY <1>5, <3>3, <3>4 DEF ReadsWhole, Least
  <2>4. AnswersAll'
    BY <1>4, <1>5, <2>1, <2>3 DEF AnswersAll, VTEXProducts
  <2>5. QED
    BY <2>2, <2>4
<1>9. CASE GivesUp
  <2>1. at' = at /\ ~Answered'
    BY <1>9 DEF GivesUp, Fails, Answered
  <2>2. VTEXCopies'
    BY <1>1, <1>2, <2>1 DEF VTEXCopies, Prefix
  <2>3. QED
    BY <2>1, <2>2
<1>10. QED
  BY <1>7, <1>8, <1>9 DEF VTEXStep

(* CoopObreraAdapter: the page that follows, or an empty one past the end. *)
LEMMA CopyCoop ==
  ASSUME TypeOK, CopyInv, CoopStep, Undisturbed, Undisturbed'
  PROVE  CoopCopies' /\ (Answered' => AnswersAll')
<1>1. /\ IsCoop /\ IsHTTP /\ ~IsVTEX /\ ~Answered
      /\ UNCHANGED <<request, shelf>>
  BY DEF CoopStep, IsCoop, IsVTEX, Pending, Answered
<1> DEFINE from == at.page * CoopPageSize
           page == Window(from, CoopPageSize)
<1>2. CoopCopies
  BY <1>1 DEF CopyInv
<1>3. /\ at \in Loop /\ at.page \in Nat /\ at.empty \in Nat
      /\ drift \in Drift /\ drift.gained \in Nat /\ drift.lost \in Nat
      /\ drift.glitches \in Nat
      /\ shelf \in Seq(DOMAIN Shown) /\ Len(shelf) \in Nat
      /\ CoopPageSize \in Nat \ {0} /\ from \in Nat
      /\ (at.page + 1) * CoopPageSize = from + CoopPageSize
  <2>1. /\ at \in Loop /\ drift \in Drift /\ shelf \in Seq(DOMAIN Shown)
        /\ CoopPageSize \in Nat \ {0}
    BY DEF TypeOK, StoreFetchAssumption
  <2>2. /\ at.page \in Nat /\ at.empty \in Nat
        /\ drift.gained \in Nat /\ drift.lost \in Nat
        /\ drift.glitches \in Nat /\ Len(shelf) \in Nat
    BY <2>1 DEF Loop, Drift
  <2>3. \A k, c \in Nat : k * c \in Nat /\ (k + 1) * c = k * c + c
    OBVIOUS
  <2>4. QED
    BY <2>1, <2>2, <2>3
<1>4. ~IsVTEX' /\ \A p : MapProduct(p)' = MapCoopArticulo(p)
  BY <1>1 DEF IsVTEX, IsCoop, IsHTTP, MapProduct
<1> HIDE DEF from
<1>5. page = << >> => from >= Len(shelf)
  <2>1. Len(page) = IF from >= Len(shelf) THEN 0
                    ELSE Least(CoopPageSize, Len(shelf) - from)
    BY <1>3, WindowType
  <2>2. QED
    BY <1>3, <2>1 DEF Least
<1>6. CASE CoopPage
  <2>1. page # << >> /\ reply' = reply
    BY <1>6 DEF CoopPage, from
  <2>2. at'.page = at.page + 1 /\ at'.all = at.all \o page
    BY <1>3, <1>6 DEF CoopPage, from, Loop
  <2>3. from < Len(shelf)
    <3>1. /\ page \in Seq(DOMAIN Shown)
          /\ Len(page) = IF from >= Len(shelf) THEN 0
                         ELSE Least(CoopPageSize, Len(shelf) - from)
      BY <1>3, WindowType
    <3> HIDE DEF page
    <3>2. QED
      BY <1>3, <2>1, <3>1
  <2> DEFINE n == Least(CoopPageSize, Len(shelf) - from)
  <2>4. /\ n \in Nat /\ from + n <= Len(shelf)
        /\ from + n = Least(from + CoopPageSize, Len(shelf))
    BY <1>3, <2>3 DEF Least
  <2>5. page = SubSeq(shelf, from + 1, from + n)
    BY <2>4 DEF Window
  <2>6. at.all = Prefix(shelf, from)
    BY <1>2, <1>3, <2>3 DEF CoopCopies, Least, from
  <2> HIDE DEF n, page
  <2>7. at'.all = Prefix(shelf, from + n)
    BY <1>3, <2>2, <2>4, <2>5, <2>6, PrefixGrows
  <2>8. at'.page * CoopPageSize = from + CoopPageSize
    BY <1>3, <2>2
  <2>9. CoopCopies'
    BY <1>1, <2>4, <2>7, <2>8 DEF CoopCopies, Prefix, Least
  <2>10. QED
    BY <1>1, <2>1, <2>9 DEF Answered
<1>7. CASE CoopEmptyPage
  <2>1. page = << >>
    <3>1. CASE page # << >> /\ drift' = [drift EXCEPT !.glitches = @ + 1]
      <4>1. drift'.glitches = drift.glitches + 1 /\ drift'.gained = drift.gained
            /\ drift'.lost = drift.lost
        BY <1>3, <3>1 DEF Drift
      <4>2. QED
        BY <1>3, <4>1 DEF Undisturbed
    <3>2. QED
      BY <1>7, <3>1 DEF CoopEmptyPage, from
  <2>2. from >= Len(shelf) /\ at.all = Prefix(shelf, Len(shelf))
    BY <1>2, <1>3, <1>5, <2>1 DEF CoopCopies, Least, from
  <2>3. CASE at' = at /\ reply'.products = CoopProducts
    <3>1. CoopCopies'
      BY <1>1, <1>2, <2>3 DEF CoopCopies, Prefix, Least
    <3>2. Len(at.all) = Len(shelf)
      <4>1. Len(Prefix(shelf, Len(shelf))) = Len(shelf)
        BY <1>3 DEF Prefix
      <4>2. QED
        BY <2>2, <4>1
    <3>3. ReadsWhole(Len(at.all))'
      <4>1. Len(at'.all) = Len(shelf) /\ shelf' = shelf
        BY <1>1, <2>3, <3>2
      <4>2. QED
        BY <1>4, <4>1 DEF ReadsWhole
    <3>4. AnswersAll'
      BY <1>4, <2>3, <3>3 DEF AnswersAll, CoopProducts
    <3>5. QED
      BY <3>1, <3>4
  <2>4. CASE /\ at' = [at EXCEPT !.page = @ + 1, !.empty = @ + 1]
             /\ reply' = reply
    <3>1. at'.page = at.page + 1 /\ at'.all = at.all
      BY <1>3, <2>4 DEF Loop
    <3>2. at'.page * CoopPageSize = from + CoopPageSize
      BY <1>3, <3>1
    <3>3. Least(from + CoopPageSize, Len(shelf)) = Len(shelf)
      BY <1>3, <2>2 DEF Least
    <3>4. CoopCopies'
      BY <1>1, <2>2, <3>1, <3>2, <3>3 DEF CoopCopies, Prefix, Least
    <3>5. QED
      BY <1>1, <2>4, <3>4 DEF Answered
  <2>5. QED
    BY <1>7, <2>3, <2>4 DEF CoopEmptyPage, Answers
<1>8. CASE CoopRefuses \/ GivesUp
  <2>1. at' = at /\ ~Answered'
    BY <1>8 DEF CoopRefuses, GivesUp, Fails, Answered
  <2>2. CoopCopies'
    BY <1>1, <1>2, <2>1 DEF CoopCopies, Prefix, Least
  <2>3. QED
    BY <2>1, <2>2
<1>9. QED
  BY <1>6, <1>7, <1>8 DEF CoopStep

LEMMA CopyStep ==
  ASSUME TypeOK, CopyInv, [Next]_vars
  PROVE  CopyInv'
<1>1. CASE VTEXStep
  <2>1. Undisturbed' = Undisturbed /\ IsVTEX' /\ ~IsCoop'
    BY <1>1 DEF VTEXStep, VTEXPage, VTEXEnds, GivesUp, Undisturbed,
                IsVTEX, IsCoop, IsHTTP
  <2>2. Undisturbed => VTEXCopies' /\ (Answered' => AnswersAll')
    BY <1>1, CopyVTEX
  <2>3. QED
    BY <2>1, <2>2 DEF CopyInv
<1>2. CASE CoopStep
  <2>1. IsCoop' /\ ~IsVTEX'
    BY <1>2 DEF CoopStep, IsVTEX, IsCoop, IsHTTP
  <2>2. Undisturbed' => Undisturbed
    <3>1. drift \in Drift
      BY DEF TypeOK
    <3>2. CASE UNCHANGED drift
      BY <3>2 DEF Undisturbed
    <3>3. CASE drift' = [drift EXCEPT !.glitches = @ + 1]
      <4>1. drift'.glitches = drift.glitches + 1 /\ drift'.gained = drift.gained
            /\ drift'.lost = drift.lost
        BY <3>1, <3>3 DEF Drift
      <4>2. drift.gained \in Nat /\ drift.lost \in Nat /\ drift.glitches \in Nat
        BY <3>1 DEF Drift
      <4>3. QED
        BY <4>1, <4>2 DEF Undisturbed
    <3>4. QED
      BY <1>2, <3>2, <3>3
         DEF CoopStep, CoopRefuses, CoopPage, CoopEmptyPage, GivesUp
  <2>3. Undisturbed' => CoopCopies' /\ (Answered' => AnswersAll')
    BY <1>2, <2>2, CopyCoop
  <2>4. QED
    BY <2>1, <2>3 DEF CopyInv
<1>3. CASE StoreChanges
  BY <1>3, CopyDisturbed DEF CopyInv
<1>4. CASE Refuse /\ UNCHANGED storeVars
  <2>1. UNCHANGED <<request, shelf, at, drift>> /\ reply'.end # "ok"
    BY <1>4 DEF Refuse, Fails, storeVars
  <2>2. QED
    BY <2>1, CopyKept
<1>5. CASE (Cancel \/ ExtractionEnds) /\ UNCHANGED storeVars
  <2>1. UNCHANGED <<request, shelf, at, drift>> /\ reply' = reply
    BY <1>5 DEF Cancel, ExtractionEnds, storeVars
  <2>2. QED
    BY <2>1, CopyKept
<1>6. CASE FirecrawlStep
  BY <1>6 DEF FirecrawlStep, CopyInv, IsExtract, IsScrape, IsHTTP
<1>7. CASE UNCHANGED vars
  <2>1. UNCHANGED <<request, shelf, at, drift>> /\ reply' = reply
    BY <1>7 DEF vars
  <2>2. QED
    BY <2>1, CopyKept
<1>8. QED
  BY <1>1, <1>2, <1>3, <1>4, <1>5, <1>6, <1>7 DEF Next, FetchStep, Outside

(* The answer about a store that nobody changed is its listing: in order,  *)
(* with its prices, and as long as the offset limit and the cap let it be  *)
(* (the property StillStoreIsCopied of the run).                           *)
THEOREM StillStoresAreCopied == Spec => []StillStoreIsCopied
<1>1. TypeOK /\ CopyInv => StillStoreIsCopied
  <2> SUFFICES ASSUME TypeOK, CopyInv, Answered, IsHTTP, Undisturbed
               PROVE  LET n == Len(reply.products) IN
                      /\ ReadsWhole(n)
                      /\ reply.products = [k \in 1 .. n |-> MapProduct(shelf[k])]
    BY DEF StillStoreIsCopied
  <2>1. AnswersAll /\ (VTEXCopies \/ CoopCopies)
    BY DEF CopyInv, IsVTEX
  <2>2. shelf \in Seq(DOMAIN Shown) /\ Len(shelf) \in Nat /\ at \in Loop
    BY DEF TypeOK
  <2>3. PICK m \in Nat : m <= Len(shelf) /\ at.all = Prefix(shelf, m)
    <3>1. CASE VTEXCopies
      BY <2>2, <3>1 DEF VTEXCopies, Loop
    <3>2. CASE CoopCopies
      <4>1. at.page * CoopPageSize \in Nat
        BY <2>2 DEF Loop, StoreFetchAssumption
      <4>2. Least(at.page * CoopPageSize, Len(shelf)) \in 0 .. Len(shelf)
        BY <2>2, <4>1 DEF Least
      <4>3. QED
        BY <2>2, <3>2, <4>2 DEF CoopCopies
    <3>3. QED
      BY <2>1, <3>1, <3>2
  <2>4. /\ DOMAIN at.all = 1 .. m /\ Len(at.all) = m
        /\ \A k \in 1 .. m : at.all[k] = shelf[k]
    BY <2>2, <2>3, PrefixType
  <2>5. reply.products = [k \in 1 .. m |-> MapProduct(shelf[k])]
    BY <2>1, <2>4 DEF AnswersAll
  <2>6. Len(reply.products) = m
    <3> DEFINE R == {MapProduct(shelf[k]) : k \in 1 .. m}
    <3>1. [k \in 1 .. m |-> MapProduct(shelf[k])] \in [1 .. m -> R]
      OBVIOUS
    <3> HIDE DEF R
    <3>2. QED
      BY <2>5, <3>1
  <2>7. QED
    BY <2>1, <2>4, <2>5, <2>6 DEF AnswersAll
<1>2. QED
  BY <1>1, CopyInit, CopyStep, FetchTypeCorrect, PTL DEF Spec
-----------------------------------------------------------------------------
HIDE FirecrawlAssumption
HIDE StoreFetchAssumption
HIDE FetchCallAssumption

(***************************************************************************)
(* What is listed up to a position, and after it.                          *)
(***************************************************************************)
Behind(s, p) == {s[k] : k \in {j \in DOMAIN s : j <= p}}
Beyond(s, p) == {s[k] : k \in {j \in DOMAIN s : j > p}}
Part(s, m, n) == {s[k] : k \in m + 1 .. n}

(* A part of a sequence holds no more products than it has positions, and  *)
(* as many if no product is listed twice.                                  *)
LEMMA PartsAreCounted ==
  ASSUME NEW S, NEW s \in Seq(S), NEW m \in Nat, NEW n \in Nat,
         m <= n, n <= Len(s)
  PROVE  /\ IsFiniteSet(Part(s, m, n)) /\ Cardinality(Part(s, m, n)) <= n - m
         /\ Distinct(s) => Cardinality(Part(s, m, n)) = n - m
<1> DEFINE K == m + 1 .. n
           T == Part(s, m, n)
           f == [k \in K |-> s[k]]
<1>1. IsFiniteSet(K) /\ Cardinality(K) = n - m
  <2>1. m + 1 \in Int /\ n \in Int
    OBVIOUS
  <2>2. /\ IsFiniteSet(m + 1 .. n)
        /\ Cardinality(m + 1 .. n) = IF m + 1 > n THEN 0 ELSE n - (m + 1) + 1
    BY <2>1, FS_Interval
  <2>3. QED
    BY <2>1, <2>2
<1>2. K \subseteq DOMAIN s
  BY DEF K
<1>3. \A k \in K : f[k] = s[k]
  OBVIOUS
<1>4. f \in [K -> T] /\ \A y \in T : \E k \in K : f[k] = y
  BY DEF Part
<1> HIDE DEF K, f
<1>5. f \in Surjection(K, T)
  BY <1>4 DEF Surjection
<1>6. /\ IsFiniteSet(T) /\ Cardinality(T) <= Cardinality(K)
      /\ Cardinality(T) = Cardinality(K) <=> f \in Injection(K, T)
  BY <1>1, <1>5, FS_Surjection
<1>7. Distinct(s) => f \in Injection(K, T)
  BY <1>2, <1>3, <1>4 DEF Distinct, Injection, IsInjective
<1>8. QED
  BY <1>1, <1>6, <1>7

LEMMA PartsOfListing ==
  ASSUME NEW S, NEW s \in Seq(S), NEW p \in Nat
  PROVE  /\ Items(s) = Behind(s, p) \cup Beyond(s, p)
         /\ IsFiniteSet(Items(s)) /\ Cardinality(Items(s)) \in Nat
         /\ IsFiniteSet(Behind(s, p)) /\ Cardinality(Behind(s, p)) \in Nat
         /\ IsFiniteSet(Beyond(s, p)) /\ Cardinality(Beyond(s, p)) \in Nat
         /\ Len(s) <= p => Beyond(s, p) = {}
<1>1. Len(s) \in Nat /\ DOMAIN s = 1 .. Len(s)
  OBVIOUS
<1>2. \A j \in DOMAIN s : j <= p \/ j > p
  BY <1>1
<1>3. Items(s) = Behind(s, p) \cup Beyond(s, p)
  BY <1>2 DEF Items, Behind, Beyond
<1>4. PICK m \in Nat : m = 0
  OBVIOUS
<1>5. Items(s) = Part(s, m, Len(s)) /\ m <= Len(s) /\ Len(s) <= Len(s)
  BY <1>1, <1>4 DEF Items, Part
<1>6. IsFiniteSet(Items(s))
  BY <1>1, <1>5, PartsAreCounted
<1>7. IsFiniteSet(Behind(s, p)) /\ IsFiniteSet(Beyond(s, p))
  BY <1>3, <1>6, FS_Subset
<1>8. Len(s) <= p => Beyond(s, p) = {}
  BY <1>1 DEF Beyond
<1>9. QED
  BY <1>3, <1>6, <1>7, <1>8, FS_CardinalityType

LEMMA RestOf ==
  ASSUME NEW S, NEW s \in Seq(S), NEW n \in Nat, n <= Len(s)
  PROVE  LET u == SubSeq(s, n + 1, Len(s))
         IN  /\ u \in Seq(S) /\ Len(u) = Len(s) - n
             /\ \A k \in 1 .. Len(s) - n : u[k] = s[n + k]
<1>1. PICK q \in Nat : q = Len(s) - n
  <2>1. Len(s) - n \in Nat
    OBVIOUS
  <2>2. QED
    BY <2>1
<1>2. n + q = Len(s) /\ n + q <= Len(s)
  BY <1>1
<1>3. /\ SubSeq(s, n + 1, n + q) = [k \in 1 .. q |-> s[n + k]]
      /\ SubSeq(s, n + 1, n + q) \in Seq(S)
      /\ Len(SubSeq(s, n + 1, n + q)) = q
  <2>1. n + q <= Len(s)
    BY <1>2
  <2>2. QED
    BY <2>1, PartOf
<1>4. QED
  BY <1>1, <1>2, <1>3

(* A product that the store comes to list pushes one at most across a      *)
(* position.                                                               *)
With(s, n, x) == Prefix(s, n) \o <<x>> \o SubSeq(s, n + 1, Len(s))
Pushes(s, t, p, x) ==
  /\ Distinct(t) /\ Len(t) = Len(s) + 1
  /\ Items(s) \subseteq Items(t)
  /\ Behind(t, p) \subseteq Behind(s, p) \cup {x}
  /\ Beyond(t, p) \subseteq Beyond(s, p) \cup {x, s[p]}

LEMMA GainMoves ==
  ASSUME NEW S, NEW s \in Seq(S), NEW n \in 0 .. Len(s), NEW x \in S,
         Distinct(s), x \notin Items(s), NEW p \in Nat
  PROVE  Pushes(s, With(s, n, x), p, x)
<1> DEFINE t == With(s, n, x)
<1>1. Len(s) \in Nat /\ n \in Nat /\ n <= Len(s) /\ DOMAIN s = 1 .. Len(s)
  OBVIOUS
<1>2. /\ t \in Seq(S) /\ Len(t) = Len(s) + 1
      /\ \A k \in 1 .. Len(s) + 1 :
           t[k] = IF k <= n THEN s[k] ELSE IF k = n + 1 THEN x ELSE s[k - 1]
  <2>1. /\ Prefix(s, n) \in Seq(S) /\ Len(Prefix(s, n)) = n
        /\ \A k \in 1 .. n : Prefix(s, n)[k] = s[k]
    BY <1>1 DEF Prefix
  <2> DEFINE u == SubSeq(s, n + 1, Len(s))
  <2>2. /\ u \in Seq(S) /\ Len(u) = Len(s) - n
        /\ \A k \in 1 .. Len(s) - n : u[k] = s[n + k]
    BY <1>1, RestOf
  <2> DEFINE v == Prefix(s, n) \o <<x>>
  <2>3. /\ v \in Seq(S) /\ Len(v) = n + 1
        /\ \A k \in 1 .. n + 1 : v[k] = IF k <= n THEN s[k] ELSE x
    BY <1>1, <2>1
  <2>4. t = v \o u
    BY DEF With
  <2> HIDE DEF u, v, t
  <2>5. t \in Seq(S) /\ Len(t) = Len(s) + 1
    <3>1. v \in Seq(S) /\ u \in Seq(S)
      BY <2>2, <2>3
    <3>2. t \in Seq(S) /\ Len(t) = Len(v) + Len(u)
      BY <2>4, <3>1
    <3>3. QED
      BY <1>1, <2>2, <2>3, <3>2
  <2>6. ASSUME NEW k \in 1 .. Len(s) + 1
        PROVE  t[k] = IF k <= n THEN s[k] ELSE IF k = n + 1 THEN x ELSE s[k - 1]
    <3>1. CASE k <= n + 1
      <4>1. k \in 1 .. n + 1
        BY <1>1, <3>1
      <4>2. t[k] = v[k]
        BY <1>1, <2>2, <2>3, <2>4, <4>1
      <4>3. QED
        BY <1>1, <2>3, <4>1, <4>2
    <3>2. CASE k > n + 1
      <4>1. /\ k - (n + 1) \in 1 .. Len(s) - n /\ n + (k - (n + 1)) = k - 1
            /\ k \in n + 2 .. Len(s) + 1
        BY <1>1, <3>2
      <4>2. t[k] = u[k - (n + 1)]
        BY <1>1, <2>2, <2>3, <2>4, <4>1
      <4>3. u[k - (n + 1)] = s[k - 1]
        BY <2>2, <4>1
      <4>4. QED
        BY <1>1, <3>2, <4>2, <4>3
    <3>3. QED
      BY <1>1, <3>1, <3>2
  <2>7. QED
    BY <2>5, <2>6
<1> HIDE DEF t
<1>3. DOMAIN t = 1 .. Len(s) + 1
  BY <1>1, <1>2
<1>4. \A k \in DOMAIN s : s[k] # x
  BY DEF Items
<1>5. Distinct(t)
  <2> SUFFICES ASSUME NEW k \in DOMAIN t, NEW m \in DOMAIN t, k < m, t[k] = t[m]
               PROVE  FALSE
    BY <1>1, <1>3 DEF Distinct
  <2> DEFINE was(j) == IF j <= n THEN j ELSE j - 1
  <2>1. ASSUME NEW j \in DOMAIN t, j # n + 1
        PROVE  was(j) \in DOMAIN s /\ t[j] = s[was(j)]
    BY <1>1, <1>2, <1>3, <2>1
  <2>2. CASE k # n + 1 /\ m # n + 1
    <3>1. was(k) = was(m)
      BY <2>1, <2>2 DEF Distinct
    <3>2. QED
      BY <1>1, <1>3, <2>2, <3>1
  <2>3. CASE k = n + 1 \/ m = n + 1
    <3>1. t[n + 1] = x
      BY <1>1, <1>2
    <3>2. \A j \in DOMAIN t : j # n + 1 => t[j] # x
      BY <1>4, <2>1
    <3> HIDE DEF was
    <3>3. k # n + 1 \/ m # n + 1
      BY <1>1, <1>3
    <3>4. QED
      BY <2>3, <3>1, <3>2, <3>3
  <2>4. QED
    BY <2>2, <2>3
<1>6. Items(s) \subseteq Items(t)
  <2> SUFFICES ASSUME NEW k \in DOMAIN s  PROVE \E j \in DOMAIN t : t[j] = s[k]
    BY DEF Items
  <2>1. CASE k <= n
    <3>1. k \in DOMAIN t /\ t[k] = s[k]
      BY <1>1, <1>2, <1>3, <2>1
    <3>2. QED
      BY <3>1
  <2>2. CASE k > n
    <3>1. k + 1 \in DOMAIN t /\ t[k + 1] = s[k]
      BY <1>1, <1>2, <1>3, <2>2
    <3>2. QED
      BY <3>1
  <2>3. QED
    BY <1>1, <2>1, <2>2
<1>7. Behind(t, p) \subseteq Behind(s, p) \cup {x}
  <2> SUFFICES ASSUME NEW k \in DOMAIN t, k <= p, t[k] # x
               PROVE  \E j \in DOMAIN s : j <= p /\ s[j] = t[k]
    BY DEF Behind
  <2>1. CASE k <= n
    BY <1>1, <1>2, <1>3, <2>1
  <2>2. CASE k > n
    <3>1. k - 1 \in DOMAIN s /\ k - 1 <= p /\ t[k] = s[k - 1]
      BY <1>1, <1>2, <1>3, <2>2
    <3>2. QED
      BY <3>1
  <2>3. QED
    BY <1>1, <1>3, <2>1, <2>2
<1>8. Beyond(t, p) \subseteq Beyond(s, p) \cup {x, s[p]}
  <2> SUFFICES ASSUME NEW k \in DOMAIN t, k > p, t[k] # x, t[k] # s[p]
               PROVE  \E j \in DOMAIN s : j > p /\ s[j] = t[k]
    BY DEF Beyond
  <2>1. CASE k <= n
    BY <1>1, <1>2, <1>3, <2>1
  <2>2. CASE k > n
    <3>1. k - 1 \in DOMAIN s /\ t[k] = s[k - 1]
      BY <1>1, <1>2, <1>3, <2>2
    <3>2. k - 1 # p
      BY <3>1
    <3>3. k - 1 > p
      BY <1>3, <3>2
    <3>4. QED
      BY <3>1, <3>3
  <2>3. QED
    BY <1>1, <1>3, <2>1, <2>2
<1>9. QED
  BY <1>2, <1>5, <1>6, <1>7, <1>8 DEF t, Pushes

(* One that it no longer lists lets one at most come back across it.       *)
Without(s, n) == Prefix(s, n - 1) \o SubSeq(s, n + 1, Len(s))
Pulls(s, t, p, x) ==
  /\ Distinct(t) /\ Len(t) = Len(s) - 1
  /\ Items(s) \ {x} \subseteq Items(t)
  /\ Beyond(t, p) \subseteq Beyond(s, p)
  /\ Behind(t, p) \subseteq Behind(s, p) \cup {s[p + 1]}

LEMMA LossMoves ==
  ASSUME NEW S, NEW s \in Seq(S), NEW n \in DOMAIN s, Distinct(s), NEW p \in Nat
  PROVE  Pulls(s, Without(s, n), p, s[n])
<1> DEFINE t == Without(s, n)
<1>1. /\ Len(s) \in Nat /\ DOMAIN s = 1 .. Len(s)
      /\ n \in Nat /\ 1 <= n /\ n <= Len(s)
  OBVIOUS
<1>2. /\ t \in Seq(S) /\ Len(t) = Len(s) - 1
      /\ \A k \in 1 .. Len(s) - 1 : t[k] = IF k < n THEN s[k] ELSE s[k + 1]
  <2> DEFINE v == Prefix(s, n - 1)
             u == SubSeq(s, n + 1, Len(s))
  <2>1. /\ v \in Seq(S) /\ Len(v) = n - 1
        /\ \A k \in 1 .. n - 1 : v[k] = s[k]
    BY <1>1 DEF Prefix
  <2>2. /\ u \in Seq(S) /\ Len(u) = Len(s) - n
        /\ \A k \in 1 .. Len(s) - n : u[k] = s[n + k]
    BY <1>1, RestOf
  <2>3. t = v \o u
    BY DEF Without
  <2> HIDE DEF u, v, t
  <2>4. t \in Seq(S) /\ Len(t) = Len(s) - 1
    <3>1. t \in Seq(S) /\ Len(t) = Len(v) + Len(u)
      BY <2>1, <2>2, <2>3
    <3>2. QED
      BY <1>1, <2>1, <2>2, <3>1
  <2>5. ASSUME NEW k \in 1 .. Len(s) - 1
        PROVE  t[k] = IF k < n THEN s[k] ELSE s[k + 1]
    <3>1. CASE k < n
      <4>1. k \in 1 .. n - 1
        BY <1>1, <3>1
      <4>2. t[k] = v[k]
        BY <1>1, <2>1, <2>2, <2>3, <4>1
      <4>3. QED
        BY <2>1, <3>1, <4>1, <4>2
    <3>2. CASE k >= n
      <4>1. /\ k - (n - 1) \in 1 .. Len(s) - n /\ n + (k - (n - 1)) = k + 1
            /\ k \in n .. Len(s) - 1
        BY <1>1, <3>2
      <4>2. t[k] = u[k - (n - 1)]
        BY <1>1, <2>1, <2>2, <2>3, <4>1, SMTT(30)
      <4>3. u[k - (n - 1)] = s[k + 1]
        BY <2>2, <4>1
      <4>4. QED
        BY <1>1, <3>2, <4>2, <4>3
    <3>3. QED
      BY <1>1, <3>1, <3>2
  <2>6. QED
    BY <2>4, <2>5
<1> HIDE DEF t
<1>3. DOMAIN t = 1 .. Len(s) - 1
  BY <1>1, <1>2
<1> DEFINE was(k) == IF k < n THEN k ELSE k + 1
<1>4. ASSUME NEW k \in DOMAIN t
      PROVE  /\ was(k) \in DOMAIN s /\ was(k) # n /\ t[k] = s[was(k)]
             /\ was(k) \in {k, k + 1} /\ k \in Nat
  BY <1>1, <1>2, <1>3
<1>5. Distinct(t)
  <2> SUFFICES ASSUME NEW k \in DOMAIN t, NEW m \in DOMAIN t, t[k] = t[m]
               PROVE  k = m
    BY DEF Distinct
  <2>1. was(k) = was(m)
    BY <1>4 DEF Distinct
  <2>2. QED
    BY <1>1, <1>3, <2>1
<1>6. Items(s) \ {s[n]} \subseteq Items(t)
  <2> SUFFICES ASSUME NEW k \in DOMAIN s, s[k] # s[n]
               PROVE  \E j \in DOMAIN t : t[j] = s[k]
    BY DEF Items
  <2>1. CASE k < n
    <3>1. k \in DOMAIN t /\ t[k] = s[k]
      BY <1>1, <1>2, <1>3, <2>1
    <3>2. QED
      BY <3>1
  <2>2. CASE k > n
    <3>1. k - 1 \in DOMAIN t /\ t[k - 1] = s[k]
      BY <1>1, <1>2, <1>3, <2>2
    <3>2. QED
      BY <3>1
  <2>3. QED
    BY <1>1, <2>1, <2>2
<1> HIDE DEF was
<1>7. Beyond(t, p) \subseteq Beyond(s, p)
  <2> SUFFICES ASSUME NEW k \in DOMAIN t, k > p
               PROVE  \E j \in DOMAIN s : j > p /\ s[j] = t[k]
    BY DEF Beyond
  <2>1. was(k) > p
    BY <1>4
  <2>2. QED
    BY <1>4, <2>1
<1>8. Behind(t, p) \subseteq Behind(s, p) \cup {s[p + 1]}
  <2> SUFFICES ASSUME NEW k \in DOMAIN t, k <= p, t[k] # s[p + 1]
               PROVE  \E j \in DOMAIN s : j <= p /\ s[j] = t[k]
    BY DEF Behind
  <2>1. was(k) # p + 1
    BY <1>4
  <2>2. was(k) <= p
    BY <1>4, <2>1
  <2>3. QED
    BY <1>4, <2>2
<1>9. QED
  BY <1>2, <1>5, <1>6, <1>7, <1>8 DEF t, Pulls

LEMMA PageItems ==
  ASSUME NEW S, NEW s \in Seq(S), NEW p \in Nat, NEW n \in Nat, p + n <= Len(s)
  PROVE  Items(SubSeq(s, p + 1, p + n)) = Part(s, p, p + n)
<1> DEFINE t == SubSeq(s, p + 1, p + n)
<1>1. t = [k \in 1 .. n |-> s[p + k]]
  BY PartOf
<1> HIDE DEF t
<1>2. DOMAIN t = 1 .. n /\ \A k \in 1 .. n : t[k] = s[p + k]
  BY <1>1
<1>3. \A k \in 1 .. n : p + k \in p + 1 .. p + n
  OBVIOUS
<1>4. \A j \in p + 1 .. p + n : j - p \in 1 .. n /\ p + (j - p) = j
  OBVIOUS
<1>5. Items(t) \subseteq Part(s, p, p + n)
  BY <1>2, <1>3 DEF Items, Part
<1>6. ASSUME NEW j \in p + 1 .. p + n  PROVE s[j] \in Items(t)
  <2>1. j - p \in DOMAIN t /\ t[j - p] = s[j]
    BY <1>2, <1>4
  <2>2. QED
    BY <2>1 DEF Items
<1>7. QED
  BY <1>5, <1>6 DEF Part, t

(* Reading on moves the next products across the position.                 *)
Moves(s, p, q) ==
  /\ Beyond(s, p) = Part(s, p, q) \cup Beyond(s, q)
  /\ Distinct(s) => Part(s, p, q) \cap Beyond(s, q) = {}
  /\ Behind(s, q) = Behind(s, p) \cup Part(s, p, q)

LEMMA PageMoves ==
  ASSUME NEW S, NEW s \in Seq(S), NEW p \in Nat, NEW q \in Nat,
         p <= q, q <= Len(s)
  PROVE  Moves(s, p, q)
<1>1. Len(s) \in Nat /\ DOMAIN s = 1 .. Len(s)
  OBVIOUS
<1>2. \A j \in p + 1 .. q : j \in DOMAIN s /\ j > p /\ j <= q
  BY <1>1
<1>3. \A j \in DOMAIN s : /\ j > p => j \in p + 1 .. q \/ j > q
                          /\ j > q => j > p
                          /\ j <= q => j <= p \/ j \in p + 1 .. q
                          /\ j <= p => j <= q
                          /\ ~(j <= q /\ j > q)
  BY <1>1
<1>4. Beyond(s, p) = Part(s, p, q) \cup Beyond(s, q)
  BY <1>2, <1>3 DEF Beyond, Part
<1>5. Distinct(s) => Part(s, p, q) \cap Beyond(s, q) = {}
  <2> SUFFICES ASSUME Distinct(s), NEW j \in p + 1 .. q, NEW k \in DOMAIN s,
                      k > q, s[j] = s[k]
               PROVE  FALSE
    BY DEF Beyond, Part
  <2>1. j = k
    BY <1>2 DEF Distinct
  <2>2. QED
    BY <1>2, <1>3, <2>1
<1>6. Behind(s, q) = Behind(s, p) \cup Part(s, p, q)
  BY <1>2, <1>3 DEF Behind, Part
<1>7. QED
  BY <1>4, <1>5, <1>6 DEF Moves

(* A page that is passed over hides no more than itself.                   *)
LEMMA PagePassed ==
  ASSUME NEW S, NEW s \in Seq(S), NEW p \in Nat, NEW c \in Nat
  PROVE  /\ Beyond(s, p + c) \subseteq Beyond(s, p)
         /\ \E G : /\ IsFiniteSet(G) /\ Cardinality(G) <= c
                   /\ Behind(s, p + c) \subseteq Behind(s, p) \cup G
<1>1. Len(s) \in Nat /\ DOMAIN s = 1 .. Len(s)
  OBVIOUS
<1>2. Beyond(s, p + c) \subseteq Beyond(s, p)
  BY <1>1 DEF Beyond
<1>3. CASE p >= Len(s)
  <2>1. Behind(s, p + c) \subseteq Behind(s, p) \cup {}
    BY <1>1, <1>3 DEF Behind
  <2>2. IsFiniteSet({}) /\ Cardinality({}) = 0 /\ 0 <= c
    BY FS_EmptySet
  <2>3. Cardinality({}) <= c
    BY <2>2
  <2>4. QED
    BY <1>2, <2>1, <2>2, <2>3
<1>4. CASE p < Len(s)
  <2>1. PICK m \in Nat : m = Least(p + c, Len(s))
    <3>1. Least(p + c, Len(s)) \in Nat
      BY <1>1 DEF Least
    <3>2. QED
      BY <3>1
  <2>2. p <= m /\ m <= Len(s) /\ m - p <= c
        /\ (m = p + c \/ m = Len(s))
    <3>1. CASE p + c <= Len(s)
      <4>1. m = p + c
        BY <2>1, <3>1, Zenon DEF Least
      <4>2. QED
        BY <3>1, <4>1
    <3>2. CASE ~(p + c <= Len(s))
      <4>1. m = Len(s)
        BY <2>1, <3>2, Zenon DEF Least
      <4>2. QED
        BY <1>1, <1>4, <3>2, <4>1
    <3>3. QED
      BY <3>1, <3>2
  <2>3. /\ IsFiniteSet(Part(s, p, m)) /\ Cardinality(Part(s, p, m)) <= m - p
    BY <2>2, PartsAreCounted
  <2>4. Cardinality(Part(s, p, m)) \in Nat
    BY <2>3, FS_CardinalityType
  <2>5. Cardinality(Part(s, p, m)) <= c
    BY <2>2, <2>3, <2>4
  <2>6. \A j \in DOMAIN s : j <= p + c => j <= p \/ j \in p + 1 .. m
    <3> SUFFICES ASSUME NEW j \in 1 .. Len(s), j <= p + c, ~(j <= p)
                 PROVE  j \in p + 1 .. m
      BY <1>1
    <3>1. j <= m
      <4>1. j <= Len(s) /\ j <= p + c
        BY <1>1
      <4>2. QED
        BY <2>2, <4>1
    <3>2. QED
      BY <1>1, <3>1
  <2>7. Behind(s, p + c) \subseteq Behind(s, p) \cup Part(s, p, m)
    BY <2>6 DEF Behind, Part
  <2>8. QED
    BY <1>2, <2>3, <2>5, <2>7
<1>5. QED
  BY <1>1, <1>3, <1>4

LEMMA ItemsOfBoth ==
  ASSUME NEW S, NEW a \in Seq(S), NEW b \in Seq(S)
  PROVE  /\ a \o b \in Seq(S) /\ Len(a \o b) = Len(a) + Len(b)
         /\ Items(a \o b) = Items(a) \cup Items(b)
<1> DEFINE t == a \o b
<1>1. /\ Len(a) \in Nat /\ Len(b) \in Nat
      /\ DOMAIN a = 1 .. Len(a) /\ DOMAIN b = 1 .. Len(b)
  OBVIOUS
<1>2. /\ t \in Seq(S) /\ Len(t) = Len(a) + Len(b)
      /\ \A k \in 1 .. Len(a) + Len(b) :
           t[k] = IF k <= Len(a) THEN a[k] ELSE b[k - Len(a)]
  BY <1>1
<1> HIDE DEF t
<1>3. DOMAIN t = 1 .. Len(a) + Len(b)
  BY <1>1, <1>2
<1>4. \A k \in DOMAIN t : t[k] \in Items(a) \cup Items(b)
  <2> SUFFICES ASSUME NEW k \in DOMAIN t  PROVE t[k] \in Items(a) \cup Items(b)
    OBVIOUS
  <2>1. CASE k <= Len(a)
    <3>1. k \in DOMAIN a /\ t[k] = a[k]
      BY <1>1, <1>2, <1>3, <2>1
    <3>2. QED
      BY <3>1 DEF Items
  <2>2. CASE k > Len(a)
    <3>1. k - Len(a) \in DOMAIN b /\ t[k] = b[k - Len(a)]
      BY <1>1, <1>2, <1>3, <2>2
    <3>2. QED
      BY <3>1 DEF Items
  <2>3. QED
    BY <1>1, <1>3, <2>1, <2>2
<1>5. \A k \in DOMAIN a : k \in DOMAIN t /\ t[k] = a[k]
  BY <1>1, <1>2, <1>3
<1>6. \A k \in DOMAIN b : Len(a) + k \in DOMAIN t /\ t[Len(a) + k] = b[k]
  BY <1>1, <1>2, <1>3
<1>7. Items(t) = Items(a) \cup Items(b)
  BY <1>4, <1>5, <1>6 DEF Items
<1>8. QED
  BY <1>2, <1>7 DEF t

(***************************************************************************)
(* Counting.                                                               *)
(***************************************************************************)
LEMMA OneMore ==
  ASSUME NEW A, IsFiniteSet(A), NEW e, NEW B, B \subseteq A \cup {e}
  PROVE  /\ IsFiniteSet(B) /\ Cardinality(B) \in Nat /\ Cardinality(A) \in Nat
         /\ Cardinality(B) <= Cardinality(A) + 1
<1>1. /\ IsFiniteSet(A \cup {e})
      /\ Cardinality(A \cup {e}) =
           IF e \in A THEN Cardinality(A) ELSE Cardinality(A) + 1
  BY FS_AddElement
<1>2. IsFiniteSet(B) /\ Cardinality(B) <= Cardinality(A \cup {e})
  BY <1>1, FS_Subset
<1>3. Cardinality(A) \in Nat /\ Cardinality(B) \in Nat
  BY <1>2, FS_CardinalityType
<1>4. QED
  BY <1>1, <1>2, <1>3

LEMMA NoMore ==
  ASSUME NEW A, IsFiniteSet(A), NEW B, B \subseteq A
  PROVE  /\ IsFiniteSet(B) /\ Cardinality(B) \in Nat /\ Cardinality(A) \in Nat
         /\ Cardinality(B) <= Cardinality(A)
BY FS_Subset, FS_CardinalityType

LEMMA SomeMore ==
  ASSUME NEW A, IsFiniteSet(A), NEW G, IsFiniteSet(G), NEW B, B \subseteq A \cup G
  PROVE  /\ IsFiniteSet(B) /\ Cardinality(B) \in Nat
         /\ Cardinality(A) \in Nat /\ Cardinality(G) \in Nat
         /\ Cardinality(B) <= Cardinality(A) + Cardinality(G)
<1>1. /\ IsFiniteSet(A \cup G)
      /\ Cardinality(A \cup G) =
           Cardinality(A) + Cardinality(G) - Cardinality(A \cap G)
  BY FS_Union
<1>2. IsFiniteSet(B) /\ Cardinality(B) <= Cardinality(A \cup G)
  BY <1>1, FS_Subset
<1>3. IsFiniteSet(A \cap G)
  BY FS_Subset
<1>4. /\ Cardinality(A) \in Nat /\ Cardinality(B) \in Nat
      /\ Cardinality(G) \in Nat /\ Cardinality(A \cap G) \in Nat
  BY <1>2, <1>3, FS_CardinalityType
<1>5. QED
  BY <1>1, <1>2, <1>4

(* What is read again was seen before: A has been seen, G is read, and B   *)
(* is what comes after it.                                                 *)
LEMMA ReadAgain ==
  ASSUME NEW A, IsFiniteSet(A), NEW G, IsFiniteSet(G), NEW B, IsFiniteSet(B),
         G \cap B = {}, NEW l \in Nat, NEW g \in Nat,
         l + Cardinality((G \cup B) \cap A) <= Cardinality(A) + g
  PROVE  l + Cardinality(G) + Cardinality(B \cap (A \cup G))
           <= Cardinality(A \cup G) + g
<1> DEFINE X == G \cap A
           Y == B \cap A
<1>1. IsFiniteSet(X) /\ IsFiniteSet(Y)
  BY FS_Subset
<1>2. (G \cup B) \cap A = X \cup Y /\ X \cap Y = {} /\ B \cap (A \cup G) = Y
  OBVIOUS
<1>3. Cardinality(A \cup G) = Cardinality(A) + Cardinality(G) - Cardinality(X)
  <2>1. A \cap G = X
    OBVIOUS
  <2>2. QED
    BY <2>1, FS_Union
<1> HIDE DEF X, Y
<1>4. Cardinality(X \cup Y) = Cardinality(X) + Cardinality(Y) - Cardinality(X \cap Y)
  BY <1>1, FS_Union
<1>5. Cardinality({}) = 0
  BY FS_EmptySet
<1>6. /\ Cardinality(A) \in Nat /\ Cardinality(G) \in Nat
      /\ Cardinality(X) \in Nat /\ Cardinality(Y) \in Nat
  BY <1>1, FS_CardinalityType
<1>7. Cardinality(X \cap Y) = 0
  BY <1>2, <1>5, Zenon
<1>8. Cardinality(X \cup Y) = Cardinality(X) + Cardinality(Y)
  BY <1>4, <1>6, <1>7
<1>9. l + Cardinality(X \cup Y) <= Cardinality(A) + g
  BY <1>2, Zenon
<1>10. Cardinality(B \cap (A \cup G)) = Cardinality(Y)
  BY <1>2, Zenon
<1>11. QED
  BY <1>3, <1>6, <1>8, <1>9, <1>10
-----------------------------------------------------------------------------
(***************************************************************************)
(* Paging over a store that changes.  Up to the position that the loop has *)
(* reached some products were pushed back unseen, at most one by each      *)
(* product lost, and a page's worth by each page that came back empty by   *)
(* mistake; after it some were pushed on that have been seen, at most one  *)
(* by each product gained, and those may be read again.                    *)
(***************************************************************************)
Seen     == Items(at.all)
Reached  == IF IsVTEX THEN at.from ELSE at.page * CoopPageSize
Unseen   == drift.stayed \ Seen
Again    == Beyond(shelf, Reached) \cap Seen
Hidden   == Behind(shelf, Reached) \cap Unseen
Hides    == drift.lost + CoopPageSize * drift.glitches

Paged ==
  /\ Distinct(shelf) /\ drift.stayed \subseteq Items(shelf)
  /\ Len(at.all) + Cardinality(Again) <= Cardinality(Seen) + drift.gained
  /\ Cardinality(Hidden) <= Hides
Totalled ==
  /\ drift.glitches = 0
  /\ at.total >= 0 => Len(shelf) <= at.total + drift.gained
(* A page that was empty indeed had every product behind it.               *)
Emptied == at.empty <= drift.glitches \/ Cardinality(Unseen) <= Hides
Told ==
  /\ Len(reply.products) = Len(at.all) /\ Ids(reply.products) = Seen
  /\ IsCoop /\ drift.glitches < MaxEmptyPages => Cardinality(Unseen) <= Hides
  /\ IsVTEX /\ InReach => Cardinality(Unseen) <= drift.lost + drift.gained
DriftInv ==
  IsHTTP => /\ Paged
            /\ IsVTEX => Totalled
            /\ IsCoop => Emptied
            /\ Answered => Told

Numbers ==
  /\ drift.gained \in Nat /\ drift.lost \in Nat /\ drift.glitches \in Nat
  /\ at.from \in Nat /\ at.total \in Int /\ at.page \in Nat /\ at.empty \in Nat
  /\ at.all \in Seq(Nat) /\ Len(at.all) \in Nat
  /\ shelf \in Seq(Nat) /\ Len(shelf) \in Nat
  /\ CoopPageSize \in Nat \ {0} /\ Reached \in Nat /\ Hides \in Nat
  /\ request.cap \in Nat /\ MaxOffset \in Nat /\ MaxEmptyPages \in Nat \ {0}

LEMMA TypedNumbers == TypeOK => Numbers
<1> SUFFICES ASSUME TypeOK  PROVE Numbers
  OBVIOUS
<1>1. /\ at \in Loop /\ drift \in Drift /\ shelf \in Seq(DOMAIN Shown)
      /\ request.cap \in Nat
      /\ CoopPageSize \in Nat \ {0} /\ MaxOffset \in Nat
      /\ MaxEmptyPages \in Nat \ {0}
  BY StoreFetchAssumption DEF TypeOK, Request
<1>2. /\ drift.gained \in Nat /\ drift.lost \in Nat /\ drift.glitches \in Nat
  BY <1>1 DEF Drift
<1>3. /\ at.from \in Nat /\ at.total \in Int /\ at.page \in Nat
      /\ at.empty \in Nat /\ at.all \in Seq(Nat)
  BY <1>1 DEF Loop
<1>4. Len(at.all) \in Nat /\ shelf \in Seq(Nat) /\ Len(shelf) \in Nat
  <2>1. DOMAIN Shown \subseteq Nat
    BY StoreFetchAssumption
  <2>2. QED
    BY <1>1, <1>3, <2>1
<1>5. \A k, c \in Nat : k * c \in Nat
  OBVIOUS
<1>6. at.page * CoopPageSize \in Nat /\ CoopPageSize * drift.glitches \in Nat
  BY <1>1, <1>2, <1>3, <1>5
<1>7. Reached \in Nat /\ Hides \in Nat
  BY <1>2, <1>3, <1>6 DEF Reached, Hides
<1>8. QED
  BY <1>1, <1>2, <1>3, <1>4, <1>7 DEF Numbers

(* All the sets are finite.                                                *)
LEMMA FiniteSets ==
  ASSUME Numbers, Paged
  PROVE  /\ IsFiniteSet(Seen) /\ IsFiniteSet(Unseen)
         /\ IsFiniteSet(Again) /\ IsFiniteSet(Hidden)
         /\ Unseen \subseteq Hidden \cup Beyond(shelf, Reached)
<1>1. IsFiniteSet(Seen)
  BY PartsOfListing DEF Numbers, Seen
<1>2. /\ Items(shelf) = Behind(shelf, Reached) \cup Beyond(shelf, Reached)
      /\ IsFiniteSet(Items(shelf))
  BY PartsOfListing DEF Numbers
<1>3. Unseen \subseteq Items(shelf)
  BY DEF Paged, Unseen
<1>4. IsFiniteSet(Unseen)
  BY <1>2, <1>3, FS_Subset
<1>5. IsFiniteSet(Again) /\ IsFiniteSet(Hidden)
  BY <1>1, <1>4, FS_Subset DEF Again, Hidden
<1>6. QED
  BY <1>1, <1>2, <1>3, <1>4, <1>5 DEF Hidden

LEMMA DriftInit == Init => DriftInv
<1> SUFFICES ASSUME Init  PROVE DriftInv
  OBVIOUS
<1>1. TypeOK /\ Numbers
  BY FetchTypeInit, TypedNumbers
<1>2. /\ at.from = 0 /\ at.total = -1 /\ at.page = 0 /\ at.all = << >>
      /\ at.empty = 0 /\ reply.end = "none"
      /\ drift.gained = 0 /\ drift.lost = 0 /\ drift.glitches = 0
      /\ drift.stayed = Items(shelf) /\ shelf \in Listings
  BY DEF Init, StoreInit, Start, CallInit, NoReply
<1>3. Distinct(shelf)
  BY <1>2, ListingsAreDistinct
<1>4. Reached = 0 /\ Seen = {} /\ Hides = 0
  BY <1>1, <1>2 DEF Reached, Seen, Items, Hides, Numbers
<1>5. Behind(shelf, 0) = {}
  BY <1>1 DEF Behind, Numbers
<1>6. Again = {} /\ Hidden = {}
  BY <1>4, <1>5 DEF Again, Hidden
<1>7. Cardinality({}) = 0
  BY FS_EmptySet
<1>8. Len(at.all) = 0
  BY <1>2
<1>9. Paged
  BY <1>2, <1>3, <1>4, <1>6, <1>7, <1>8 DEF Paged
<1>10. Totalled /\ Emptied
  BY <1>2 DEF Totalled, Emptied
<1>11. QED
  BY <1>2, <1>9, <1>10 DEF DriftInv, Answered

(* A step that leaves the loop, the listing and the answer alone, or makes *)
(* the call fail.                                                          *)
LEMMA DriftKept ==
  ASSUME DriftInv, UNCHANGED <<request, shelf, at, drift>>,
         reply' = reply \/ reply'.end # "ok"
  PROVE  DriftInv'
<1>1. /\ IsHTTP' = IsHTTP /\ IsVTEX' = IsVTEX /\ IsCoop' = IsCoop
      /\ InReach' = InReach
  BY DEF IsHTTP, IsVTEX, IsCoop, InReach
<1>2. /\ Seen' = Seen /\ Unseen' = Unseen /\ Hides' = Hides
      /\ Reached' = Reached
  BY <1>1 DEF Seen, Unseen, Hides, Reached
<1>3. Again' = Again /\ Hidden' = Hidden
  BY <1>2 DEF Again, Hidden
<1>4. Paged' = Paged /\ Totalled' = Totalled /\ Emptied' = Emptied
  BY <1>2, <1>3 DEF Paged, Totalled, Emptied
<1>5. CASE reply' = reply
  <2>1. Answered' = Answered /\ Told' = Told
    BY <1>1, <1>2, <1>5 DEF Answered, Told
  <2>2. QED
    BY <1>1, <1>4, <2>1 DEF DriftInv
<1>6. CASE reply'.end # "ok"
  BY <1>1, <1>4, <1>6 DEF DriftInv, Answered
<1>7. QED
  BY <1>5, <1>6

LEMMA DriftGains ==
  ASSUME TypeOK, DriftInv, StoreChanges, StoreGains
  PROVE  DriftInv'
<1>1. /\ IsHTTP /\ Pending /\ UNCHANGED <<request, reply, at>>
      /\ Numbers /\ Paged
  BY TypedNumbers DEF StoreChanges, DriftInv
<1>2. PICK n \in 0 .. Len(shelf), x \in Unlisted :
        shelf' = Prefix(shelf, n) \o <<x>> \o SubSeq(shelf, n + 1, Len(shelf))
  BY DEF StoreGains
<1>3. /\ x \in DOMAIN Shown /\ x \notin Items(shelf)
      /\ x \notin drift.stayed /\ x \notin Seen
  BY DEF Unlisted, Seen
<1>4. /\ drift'.gained = drift.gained + 1 /\ drift'.lost = drift.lost
      /\ drift'.glitches = drift.glitches /\ drift'.stayed = drift.stayed
  <2>1. drift \in Drift /\ drift' = [drift EXCEPT !.gained = @ + 1]
    BY DEF TypeOK, StoreGains
  <2>2. QED
    BY <2>1 DEF Drift
<1>5. /\ IsVTEX' = IsVTEX /\ IsCoop' = IsCoop /\ ~Answered'
      /\ Seen' = Seen /\ Unseen' = Unseen /\ Hides' = Hides
      /\ Reached' = Reached
  BY <1>1, <1>4 DEF IsVTEX, IsCoop, IsHTTP, Answered, Pending, Seen, Unseen,
                    Hides, Reached
<1> DEFINE p == Reached
<1>6. /\ Distinct(shelf') /\ Len(shelf') = Len(shelf) + 1
      /\ Items(shelf) \subseteq Items(shelf')
      /\ Behind(shelf', p) \subseteq Behind(shelf, p) \cup {x}
      /\ Beyond(shelf', p) \subseteq Beyond(shelf, p) \cup {x, shelf[p]}
  <2>1. shelf \in Seq(Nat) /\ p \in Nat /\ Distinct(shelf)
    BY <1>1 DEF Numbers, Paged
  <2>2. n \in 0 .. Len(shelf) /\ x \in Nat
    BY <1>3, StoreFetchAssumption
  <2>3. shelf' = With(shelf, n, x)
    BY <1>2 DEF With
  <2> HIDE DEF p
  <2>4. x \notin Items(shelf)
    BY <1>3
  <2>5. Pushes(shelf, With(shelf, n, x), p, x)
    BY <2>1, <2>2, <2>4, GainMoves, Zenon
  <2>6. QED
    BY <2>3, <2>5, Zenon DEF Pushes
<1>7. PICK e : Beyond(shelf', p) \subseteq Beyond(shelf, p) \cup {x, e}
  BY <1>6, Zenon
<1>8. Again' \subseteq Again \cup {e}
  BY <1>3, <1>5, <1>7 DEF Again
<1>9. Hidden' \subseteq Hidden
  BY <1>3, <1>5, <1>6 DEF Hidden, Unseen
<1>10. IsFiniteSet(Again) /\ IsFiniteSet(Hidden) /\ IsFiniteSet(Seen)
  BY <1>1, FiniteSets
<1>11. /\ Cardinality(Again') <= Cardinality(Again) + 1
       /\ Cardinality(Again') \in Nat /\ Cardinality(Again) \in Nat
  BY <1>8, <1>10, OneMore
<1>12. /\ Cardinality(Hidden') <= Cardinality(Hidden)
       /\ Cardinality(Hidden') \in Nat /\ Cardinality(Hidden) \in Nat
  BY <1>9, <1>10, NoMore
<1>13. Cardinality(Seen) \in Nat
  BY <1>10, FS_CardinalityType
<1>14. Paged'
  <2>1. Distinct(shelf') /\ drift'.stayed \subseteq Items(shelf')
    BY <1>1, <1>4, <1>6 DEF Paged
  <2>2. Len(at'.all) + Cardinality(Again') <= Cardinality(Seen') + drift'.gained
    <3>1. /\ Len(at.all) + Cardinality(Again) <= Cardinality(Seen) + drift.gained
          /\ Len(at.all) \in Nat /\ drift.gained \in Nat
      BY <1>1 DEF Paged, Numbers
    <3>2. at'.all = at.all /\ Cardinality(Seen') = Cardinality(Seen)
      BY <1>1, <1>5
    <3>3. QED
      BY <1>4, <1>11, <1>13, <3>1, <3>2, SMTT(30)
  <2>3. Cardinality(Hidden') <= Hides'
    <3>1. Cardinality(Hidden) <= Hides /\ Hides \in Nat
      BY <1>1 DEF Paged, Numbers
    <3>2. QED
      BY <1>5, <1>12, <3>1
  <2>4. QED
    BY <2>1, <2>2, <2>3 DEF Paged
<1>15. Totalled => Totalled'
  BY <1>1, <1>4, <1>6 DEF Totalled, Numbers
<1>16. Emptied => Emptied'
  BY <1>1, <1>4, <1>5 DEF Emptied
<1>17. QED
  BY <1>1, <1>5, <1>14, <1>15, <1>16 DEF DriftInv

LEMMA DriftLoses ==
  ASSUME TypeOK, DriftInv, StoreChanges, StoreLoses
  PROVE  DriftInv'
<1>1. /\ IsHTTP /\ Pending /\ UNCHANGED <<request, reply, at>>
      /\ Numbers /\ Paged
  BY TypedNumbers DEF StoreChanges, DriftInv
<1>2. PICK n \in DOMAIN shelf :
        /\ shelf' = Prefix(shelf, n - 1) \o SubSeq(shelf, n + 1, Len(shelf))
        /\ drift' = [drift EXCEPT !.lost = @ + 1, !.stayed = @ \ {shelf[n]}]
  BY DEF StoreLoses
<1> DEFINE p == Reached
           x == shelf[n]
<1>3. /\ drift'.gained = drift.gained /\ drift'.lost = drift.lost + 1
      /\ drift'.glitches = drift.glitches
      /\ drift'.stayed = drift.stayed \ {x}
  <2>1. drift \in Drift
    BY DEF TypeOK
  <2>2. drift' = [drift EXCEPT !.lost = drift.lost + 1,
                               !.stayed = drift.stayed \ {x}]
    BY <1>2
  <2> HIDE DEF x
  <2>3. QED
    BY <2>1, <2>2 DEF Drift
<1>4. /\ IsVTEX' = IsVTEX /\ IsCoop' = IsCoop /\ ~Answered'
      /\ Seen' = Seen /\ Unseen' \subseteq Unseen
      /\ Reached' = Reached
  BY <1>1, <1>3 DEF IsVTEX, IsCoop, IsHTTP, Answered, Pending, Seen, Unseen,
                    Reached
<1>5. Hides' = Hides + 1
  <2>1. /\ drift.lost \in Nat /\ drift.glitches \in Nat /\ CoopPageSize \in Nat
    BY <1>1 DEF Numbers
  <2>2. CoopPageSize * drift.glitches \in Nat
    BY <2>1
  <2>3. QED
    BY <1>3, <2>1, <2>2 DEF Hides
<1>6. /\ Distinct(shelf') /\ Len(shelf') = Len(shelf) - 1
      /\ Items(shelf) \ {x} \subseteq Items(shelf')
      /\ Beyond(shelf', p) \subseteq Beyond(shelf, p)
      /\ Behind(shelf', p) \subseteq Behind(shelf, p) \cup {shelf[p + 1]}
  <2>1. shelf \in Seq(Nat) /\ p \in Nat /\ Distinct(shelf)
    BY <1>1 DEF Numbers, Paged
  <2>2. shelf' = Without(shelf, n)
    BY <1>2 DEF Without
  <2> HIDE DEF p
  <2>3. Pulls(shelf, Without(shelf, n), p, x)
    BY <2>1, LossMoves, Zenon
  <2>4. QED
    BY <2>2, <2>3, Zenon DEF Pulls
<1>7. PICK e : Behind(shelf', p) \subseteq Behind(shelf, p) \cup {e}
  BY <1>6, Zenon
<1>8. Hidden' \subseteq Hidden \cup {e}
  BY <1>4, <1>7 DEF Hidden
<1>9. Again' \subseteq Again
  BY <1>4, <1>6 DEF Again
<1>10. /\ IsFiniteSet(Again) /\ IsFiniteSet(Hidden) /\ IsFiniteSet(Seen)
       /\ IsFiniteSet(Unseen)
  BY <1>1, FiniteSets
<1>11. /\ Cardinality(Hidden') <= Cardinality(Hidden) + 1
       /\ Cardinality(Hidden') \in Nat /\ Cardinality(Hidden) \in Nat
  BY <1>8, <1>10, OneMore
<1>12. /\ Cardinality(Again') <= Cardinality(Again)
       /\ Cardinality(Again') \in Nat /\ Cardinality(Again) \in Nat
  BY <1>9, <1>10, NoMore
<1>13. /\ Cardinality(Unseen') <= Cardinality(Unseen)
       /\ Cardinality(Unseen') \in Nat /\ Cardinality(Unseen) \in Nat
  BY <1>4, <1>10, NoMore
<1>14. Cardinality(Seen) \in Nat
  BY <1>10, FS_CardinalityType
<1>15. Paged'
  <2>1. Distinct(shelf') /\ drift'.stayed \subseteq Items(shelf')
    BY <1>1, <1>3, <1>6 DEF Paged
  <2>2. Len(at'.all) + Cardinality(Again') <= Cardinality(Seen') + drift'.gained
    <3>1. /\ Len(at.all) + Cardinality(Again) <= Cardinality(Seen) + drift.gained
          /\ Len(at.all) \in Nat /\ drift.gained \in Nat
      BY <1>1 DEF Paged, Numbers
    <3>2. at'.all = at.all /\ Cardinality(Seen') = Cardinality(Seen)
      BY <1>1, <1>4
    <3>3. QED
      BY <1>3, <1>12, <1>14, <3>1, <3>2
  <2>3. Cardinality(Hidden') <= Hides'
    <3>1. Cardinality(Hidden) <= Hides /\ Hides \in Nat
      BY <1>1 DEF Paged, Numbers
    <3>2. QED
      BY <1>5, <1>11, <3>1
  <2>4. QED
    BY <2>1, <2>2, <2>3 DEF Paged
<1>16. Totalled => Totalled'
  BY <1>1, <1>3, <1>6 DEF Totalled, Numbers
<1>17. Emptied => Emptied'
  <2>1. Hides \in Nat
    BY <1>1 DEF Numbers
  <2>2. QED
    BY <1>1, <1>3, <1>5, <1>13, <2>1 DEF Emptied
<1>18. QED
  BY <1>1, <1>4, <1>15, <1>16, <1>17 DEF DriftInv

(* Reading the next n products: the page number of Coop counts a short     *)
(* last page as a whole one.                                               *)
LEMMA PageReads ==
  ASSUME Numbers, Paged, NEW n \in Nat, NEW c \in Nat, Reached + n <= Len(shelf),
         c = n \/ (n <= c /\ Reached + n = Len(shelf)),
         UNCHANGED <<shelf, drift>>, Reached' = Reached + c,
         Seen' = Seen \cup Part(shelf, Reached, Reached + n),
         Len(at'.all) = Len(at.all) + n
  PROVE  Paged'
<1>1. PICK p \in Nat : p = Reached
  BY DEF Numbers
<1>2. PICK q \in Nat : q = p + n
  <2>1. p + n \in Nat
    BY <1>1
  <2>2. QED
    BY <2>1
<1> DEFINE G == Part(shelf, p, q)
           B == Beyond(shelf, q)
<1>3. /\ shelf \in Seq(Nat) /\ Len(shelf) \in Nat /\ Distinct(shelf)
      /\ Len(at.all) \in Nat /\ drift.gained \in Nat
      /\ p <= q /\ q <= Len(shelf) /\ q - p = n
      /\ (c = n \/ (n <= c /\ q = Len(shelf)))
  <2>1. /\ shelf \in Seq(Nat) /\ Len(shelf) \in Nat /\ Distinct(shelf)
        /\ Len(at.all) \in Nat /\ drift.gained \in Nat
    BY DEF Numbers, Paged
  <2>2. q = Reached + n
    BY <1>1, <1>2
  <2>3. q <= Len(shelf) /\ (c = n \/ (n <= c /\ q = Len(shelf)))
    BY <2>2
  <2>4. p <= q /\ q - p = n
    BY <1>1, <1>2
  <2>5. QED
    BY <2>1, <2>3, <2>4
<1>4. /\ Beyond(shelf, p) = G \cup B /\ G \cap B = {}
      /\ Behind(shelf, q) = Behind(shelf, p) \cup G
  <2>1. Moves(shelf, p, q)
    BY <1>3, PageMoves
  <2>2. Distinct(shelf)
    BY <1>3
  <2>3. QED
    BY <2>1, <2>2, Zenon DEF Moves
<1>5. IsFiniteSet(G) /\ Cardinality(G) = n
  BY <1>3, PartsAreCounted
<1>6. IsFiniteSet(B)
  BY <1>3, PartsOfListing
<1>7. Beyond(shelf, p + c) = B /\ Behind(shelf, p + c) = Behind(shelf, q)
  <2>1. CASE c = n
    BY <1>2, <2>1
  <2>2. CASE n <= c /\ q = Len(shelf)
    <3>1. \A j \in DOMAIN shelf : j <= q /\ j <= p + c /\ ~(j > q) /\ ~(j > p + c)
      BY <1>1, <1>2, <1>3, <2>2
    <3>2. QED
      BY <3>1 DEF Beyond, Behind
  <2>3. QED
    BY <1>3, <2>1, <2>2
<1> HIDE DEF G, B
<1>8. Seen' = Seen \cup G /\ Unseen' \subseteq Unseen /\ G \cap Unseen' = {}
  <2>1. Seen' = Seen \cup G
    BY <1>1, <1>2 DEF G
  <2>2. QED
    BY <2>1 DEF Unseen
<1>9. Again = (G \cup B) \cap Seen /\ Again' = B \cap (Seen \cup G)
  <2>1. Again' = Beyond(shelf, p + c) \cap Seen'
    BY <1>1 DEF Again
  <2>2. QED
    BY <1>1, <1>4, <1>7, <1>8, <2>1 DEF Again
<1>10. Hidden' \subseteq Hidden
  <2>1. Hidden' = Behind(shelf, p + c) \cap Unseen'
    BY <1>1 DEF Hidden
  <2>2. QED
    BY <1>1, <1>4, <1>7, <1>8, <2>1 DEF Hidden
<1>11. IsFiniteSet(Seen) /\ IsFiniteSet(Hidden)
  BY FiniteSets
<1>12. Len(at.all) + Cardinality(Again) <= Cardinality(Seen) + drift.gained
  BY DEF Paged
<1>13. Len(at.all) + Cardinality(G) + Cardinality(B \cap (Seen \cup G))
         <= Cardinality(Seen \cup G) + drift.gained
  <2>1. Len(at.all) + Cardinality((G \cup B) \cap Seen)
          <= Cardinality(Seen) + drift.gained
    BY <1>9, <1>12
  <2>2. QED
    BY <1>3, <1>4, <1>5, <1>6, <1>11, <2>1, ReadAgain
<1>14. Len(at'.all) + Cardinality(Again') <= Cardinality(Seen') + drift'.gained
  <2>1. /\ Cardinality(Again') = Cardinality(B \cap (Seen \cup G))
        /\ Cardinality(Seen') = Cardinality(Seen \cup G)
    BY <1>8, <1>9, Zenon
  <2>2. Len(at'.all) = Len(at.all) + Cardinality(G) /\ drift'.gained = drift.gained
    BY <1>5
  <2>3. QED
    BY <1>13, <2>1, <2>2, Zenon
<1>15. Cardinality(Hidden') <= Hides'
  <2>1. /\ Cardinality(Hidden') <= Cardinality(Hidden)
        /\ Cardinality(Hidden') \in Nat /\ Cardinality(Hidden) \in Nat
    BY <1>10, <1>11, NoMore
  <2>2. Hides' = Hides /\ Cardinality(Hidden) <= Hides /\ Hides \in Nat
    BY DEF Paged, Hides, Numbers
  <2>3. QED
    BY <2>1, <2>2
<1>16. QED
  BY <1>14, <1>15 DEF Paged

(* How many products, listed all along, a call may have missed.            *)
LEMMA MissedCounted ==
  ASSUME Numbers, Paged
  PROVE  /\ Cardinality(Unseen) \in Nat
         /\ Reached >= Len(shelf) => Cardinality(Unseen) <= Hides
         /\ \A g \in Nat : Reached + g >= Len(shelf) =>
              Cardinality(Unseen) <= Hides + g
<1>1. PICK p \in Nat : p = Reached
  BY DEF Numbers
<1> DEFINE B == Beyond(shelf, p)
<1>2. /\ shelf \in Seq(Nat) /\ Len(shelf) \in Nat /\ Hides \in Nat
      /\ Cardinality(Hidden) <= Hides
  BY DEF Numbers, Paged
<1>3. IsFiniteSet(B) /\ Cardinality(B) \in Nat /\ (Len(shelf) <= p => B = {})
  BY <1>2, PartsOfListing
<1>4. IsFiniteSet(Hidden) /\ Unseen \subseteq Hidden \cup B
  BY <1>1, FiniteSets
<1> HIDE DEF B
<1>5. /\ Cardinality(Unseen) \in Nat /\ Cardinality(Hidden) \in Nat
      /\ Cardinality(Unseen) <= Cardinality(Hidden) + Cardinality(B)
  BY <1>3, <1>4, SomeMore
<1>6. Cardinality(Unseen) <= Hides + Cardinality(B)
  BY <1>2, <1>3, <1>5
<1>7. Cardinality({}) = 0
  BY FS_EmptySet
<1>8. CASE p >= Len(shelf)
  <2>1. Cardinality(B) = 0
    BY <1>2, <1>3, <1>7, <1>8, Zenon
  <2>2. QED
    BY <1>1, <1>2, <1>5, <1>6, <2>1
<1>9. CASE p < Len(shelf)
  <2>1. PICK m \in Nat : m = Len(shelf)
    BY <1>2
  <2>2. PICK n \in Nat : n = m - p
    <3>1. m - p \in Nat
      BY <1>9, <2>1
    <3>2. QED
      BY <3>1
  <2>3. p <= m /\ m <= Len(shelf) /\ m - p = n /\ p + n = m /\ p + n <= Len(shelf)
    BY <1>9, <2>1, <2>2
  <2>4. IsFiniteSet(Part(shelf, p, m)) /\ Cardinality(Part(shelf, p, m)) <= n
    BY <1>2, <2>3, PartsAreCounted
  <2>5. Moves(shelf, p, m)
    BY <1>2, <2>3, PageMoves
  <2>6. Beyond(shelf, m) = {}
    <3>1. \A j \in DOMAIN shelf : ~(j > m)
      BY <1>2, <2>1
    <3>2. QED
      BY <3>1 DEF Beyond
  <2>7. B = Part(shelf, p, m)
    <3>1. B = Part(shelf, p, m) \cup Beyond(shelf, m)
      BY <2>5, Zenon DEF Moves, B
    <3>2. QED
      BY <2>6, <3>1
  <2>8. Cardinality(B) <= n
    BY <2>4, <2>7, Zenon
  <2>9. QED
    <3>1. \A g \in Nat : p + g >= Len(shelf) => n <= g
      BY <1>1, <2>1, <2>3
    <3>2. \A g \in Nat : n <= g => Cardinality(Unseen) <= Hides + g
      BY <1>2, <1>3, <1>5, <1>6, <2>2, <2>8
    <3>3. \A g \in Nat : Reached + g >= Len(shelf) =>
            Cardinality(Unseen) <= Hides + g
      BY <1>1, <3>1, <3>2
    <3>4. ~(Reached >= Len(shelf))
      BY <1>1, <1>2, <1>9
    <3>5. QED
      BY <1>5, <3>3, <3>4
<1>10. QED
  BY <1>1, <1>2, <1>8, <1>9

(* The page that is read is the part of the listing that follows.          *)
LEMMA WindowMoves ==
  ASSUME TypeOK, NEW from \in Nat, NEW m \in Nat \ {0}, NEW n \in Nat,
         n <= Len(Window(from, m))
  PROVE  /\ n > 0 => from + n <= Len(shelf)
         /\ n <= m /\ Prefix(Window(from, m), n) \in Seq(Nat)
         /\ Len(Prefix(Window(from, m), n)) = n
         /\ n > 0 => Items(Prefix(Window(from, m), n)) = Part(shelf, from, from + n)
         /\ n = 0 => Items(Prefix(Window(from, m), n)) = {}
         /\ Window(from, m) = << >> => from >= Len(shelf)
<1>1. shelf \in Seq(DOMAIN Shown) /\ shelf \in Seq(Nat) /\ Len(shelf) \in Nat
  BY TypedNumbers DEF TypeOK, Numbers
<1> DEFINE w == Window(from, m)
<1>2. /\ w \in Seq(Nat) /\ Len(w) \in Nat
      /\ Len(w) = IF from >= Len(shelf) THEN 0 ELSE Least(m, Len(shelf) - from)
  <2>1. /\ w \in Seq(Nat)
        /\ Len(w) = IF from >= Len(shelf) THEN 0 ELSE Least(m, Len(shelf) - from)
    BY <1>1, WindowType
  <2> HIDE DEF w
  <2>2. QED
    BY <2>1
<1> HIDE DEF w
<1>3. n <= Len(w)
  BY DEF w
<1>4. Prefix(w, n) \in Seq(Nat) /\ Len(Prefix(w, n)) = n
  BY <1>2, <1>3 DEF Prefix
<1>5. w = << >> => from >= Len(shelf)
  BY <1>1, <1>2 DEF Least
<1>6. CASE n = 0
  <2>1. Items(Prefix(w, n)) = {}
    BY <1>4, <1>6 DEF Items
  <2>2. QED
    BY <1>4, <1>5, <1>6, <2>1 DEF w
<1>7. CASE n > 0
  <2>1. from < Len(shelf)
    BY <1>1, <1>2, <1>3, <1>7
  <2>2. /\ from + n <= Len(shelf) /\ n <= m
        /\ Prefix(w, n) = SubSeq(shelf, from + 1, from + n)
    <3>1. from <= Len(shelf)
      BY <1>1, <2>1
    <3>2. QED
      BY <1>1, <3>1, WindowFollows DEF w
  <2>3. Items(SubSeq(shelf, from + 1, from + n)) = Part(shelf, from, from + n)
    BY <1>1, <2>2, PageItems
  <2>4. Items(Prefix(w, n)) = Part(shelf, from, from + n)
    BY <2>2, <2>3
  <2>5. QED
    BY <1>4, <1>5, <1>7, <2>2, <2>4 DEF w
<1>8. QED
  BY <1>6, <1>7

(* A call that is answered with all that the loop has.                     *)
LEMMA AnswerTells ==
  ASSUME Numbers
  PROVE  /\ Len(VTEXProducts) = Len(at.all) /\ Ids(VTEXProducts) = Seen
         /\ Len(CoopProducts) = Len(at.all) /\ Ids(CoopProducts) = Seen
<1>1. at.all \in Seq(Nat) /\ Len(at.all) \in Nat /\ DOMAIN at.all = 1 .. Len(at.all)
  BY DEF Numbers
<1>2. DOMAIN VTEXProducts = DOMAIN at.all /\ DOMAIN CoopProducts = DOMAIN at.all
  BY DEF VTEXProducts, CoopProducts
<1>3. \A k \in DOMAIN at.all : /\ VTEXProducts[k].id = at.all[k]
                               /\ CoopProducts[k].id = at.all[k]
  BY DEF VTEXProducts, CoopProducts, MapVTEXProduct, MapCoopArticulo
<1>4. Ids(VTEXProducts) = Seen /\ Ids(CoopProducts) = Seen
  BY <1>2, <1>3 DEF Ids, Seen, Items
<1>5. ASSUME NEW f, NEW T, f \in [1 .. Len(at.all) -> T]
      PROVE  Len(f) = Len(at.all)
  BY <1>1, <1>5
<1>6. Len(VTEXProducts) = Len(at.all) /\ Len(CoopProducts) = Len(at.all)
  <2>1. /\ VTEXProducts \in [1 .. Len(at.all) -> {MapVTEXProduct(at.all[k]) :
                                                  k \in DOMAIN at.all}]
        /\ CoopProducts \in [1 .. Len(at.all) -> {MapCoopArticulo(at.all[k]) :
                                                  k \in DOMAIN at.all}]
    BY <1>1 DEF VTEXProducts, CoopProducts
  <2>2. QED
    BY <1>5, <2>1
<1>7. QED
  BY <1>4, <1>6

(* Steps that see nothing new.                                             *)
LEMMA NothingSeen ==
  ASSUME UNCHANGED <<request, shelf, drift>>, Seen' = Seen, Reached' = Reached,
         Len(at'.all) = Len(at.all)
  PROVE  /\ Paged' = Paged /\ Unseen' = Unseen /\ Hides' = Hides
         /\ InReach' = InReach
<1>1. Unseen' = Unseen /\ Hides' = Hides /\ InReach' = InReach
  BY DEF Unseen, Hides, InReach
<1>2. Again' = Again /\ Hidden' = Hidden
  BY <1>1 DEF Again, Hidden
<1>3. QED
  BY <1>1, <1>2 DEF Paged

(* What VTEX misses, at the end of the listing or where the total says it  *)
(* is: the store may have gained products since it told the total.         *)
LEMMA VTEXMisses ==
  ASSUME Numbers, Paged, Totalled, IsVTEX,
         at.from >= Len(shelf) \/ (VTEXEnough /\ InReach)
  PROVE  Cardinality(Unseen) <= drift.lost + drift.gained
<1>1. Reached = at.from /\ Hides = drift.lost
  <2>1. drift.glitches = 0
    BY DEF Totalled
  <2>2. CoopPageSize * drift.glitches = 0 /\ drift.lost \in Nat
    BY <2>1 DEF Numbers
  <2>3. QED
    BY <2>2 DEF Reached, Hides
<1>2. at.from + drift.gained >= Len(shelf)
  <2>1. CASE at.from >= Len(shelf)
    BY <2>1 DEF Numbers
  <2>2. CASE KnowsAll
    BY <2>2 DEF KnowsAll, Totalled, Numbers
  <2>3. CASE at.from >= MaxOffset /\ InReach
    BY <2>3 DEF InReach, Numbers
  <2>4. CASE CapIsReached /\ InReach
    BY <2>4 DEF CapIsReached, InReach
  <2>5. QED
    BY <2>1, <2>2, <2>3, <2>4 DEF VTEXEnough
<1>3. drift.gained \in Nat
  BY DEF Numbers
<1>4. Reached + drift.gained >= Len(shelf)
  BY <1>1, <1>2
<1>5. Cardinality(Unseen) <= Hides + drift.gained
  BY <1>3, <1>4, MissedCounted
<1>6. QED
  BY <1>1, <1>5

LEMMA DriftVTEX ==
  ASSUME TypeOK, DriftInv, VTEXStep
  PROVE  DriftInv'
<1>1. /\ IsVTEX /\ ~IsCoop /\ IsVTEX' /\ ~IsCoop' /\ IsHTTP'
      /\ ~Answered /\ UNCHANGED <<request, shelf>>
  BY DEF VTEXStep, IsVTEX, IsCoop, IsHTTP, Pending, Answered
<1>2. Numbers /\ Paged /\ Totalled
  BY <1>1, TypedNumbers DEF DriftInv, IsVTEX
<1>3. at \in Loop /\ at.from \in Nat
  BY DEF TypeOK, Loop
<1>4. Reached = at.from /\ Reached' = at'.from
  BY <1>1 DEF Reached
<1>5. CASE VTEXPage
  <2>1. ~VTEXEnough /\ drift' = drift
    BY <1>5 DEF VTEXPage
  <2>2. PICK n \in Nat, says \in BOOLEAN :
          /\ n <= Len(Window(at.from, Remaining))
          /\ n = 0 => Window(at.from, Remaining) = << >>
          /\ at' = VTEXAdvance(Prefix(Window(at.from, Remaining), n), says)
          /\ IF n = 0 THEN Answers(VTEXProducts) ELSE reply' = reply
    BY <1>5, <2>1, PageIsRead
  <2>3. Remaining \in Nat \ {0}
    BY <2>1, VTEXAsks
  <2> DEFINE got == Prefix(Window(at.from, Remaining), n)
  <2>4. /\ n > 0 => at.from + n <= Len(shelf)
        /\ got \in Seq(Nat) /\ Len(got) = n
        /\ n > 0 => Items(got) = Part(shelf, at.from, at.from + n)
        /\ n = 0 => Items(got) = {}
        /\ n = 0 => at.from >= Len(shelf)
    <3>1. n <= Len(Window(at.from, Remaining))
      BY <2>2
    <3>2. QED
      BY <1>3, <2>2, <2>3, <3>1, WindowMoves, ZenonT(30)
  <2>5. /\ at'.all = at.all \o got /\ at'.from = at.from + Len(got)
        /\ at'.total = IF at.total < 0 THEN HeaderTotal(says) ELSE at.total
    BY <1>3, <2>2 DEF VTEXAdvance, Loop
  <2> HIDE DEF got
  <2>6. at.all \in Seq(Nat) /\ Len(at.all) \in Nat /\ Len(shelf) \in Nat
    BY <1>2 DEF Numbers
  <2>7. /\ Len(at'.all) = Len(at.all) + n
        /\ Items(at'.all) = Items(at.all) \cup Items(got)
    <3>1. /\ Len(at.all \o got) = Len(at.all) + Len(got)
          /\ Items(at.all \o got) = Items(at.all) \cup Items(got)
      BY <2>4, <2>6, ItemsOfBoth, ZenonT(30)
    <3>2. at'.all = at.all \o got /\ Len(got) = n
      BY <2>4, <2>5
    <3>3. QED
      BY <3>1, <3>2, Zenon
  <2>8. Seen' = Seen \cup Items(got) /\ Reached' = Reached + n
    BY <1>4, <2>4, <2>5, <2>7 DEF Seen
  <2>9. Totalled'
    <3>1. drift.gained \in Nat /\ at.total \in Int
      BY <1>2 DEF Numbers
    <3>2. /\ drift.glitches = 0
          /\ at.total >= 0 => Len(shelf) <= at.total + drift.gained
      BY <1>2 DEF Totalled
    <3>3. at'.total >= 0 => Len(shelf) <= at'.total + drift.gained
      BY <2>5, <2>6, <3>1, <3>2 DEF HeaderTotal
    <3>4. QED
      BY <1>1, <2>1, <3>2, <3>3 DEF Totalled
  <2>10. CASE n = 0
    <3>1. Seen' = Seen /\ Reached' = Reached /\ Len(at'.all) = Len(at.all)
      BY <1>2, <2>4, <2>6, <2>7, <2>8, <2>10 DEF Numbers
    <3>2. Paged' /\ Unseen' = Unseen
      BY <1>1, <1>2, <2>1, <3>1, NothingSeen
    <3>3. reply'.products = VTEXProducts
      BY <2>2, <2>10 DEF Answers
    <3>4. Len(VTEXProducts) = Len(at.all) /\ Ids(VTEXProducts) = Seen
      BY <1>2, AnswerTells
    <3>5. Len(reply'.products) = Len(at'.all) /\ Ids(reply'.products) = Seen'
      BY <3>1, <3>3, <3>4
    <3>6. Cardinality(Unseen') <= drift'.lost + drift'.gained
      <4>1. Cardinality(Unseen) <= drift.lost + drift.gained
        BY <1>1, <1>2, <2>4, <2>10, VTEXMisses
      <4>2. QED
        BY <2>1, <3>2, <4>1
    <3>7. Told'
      BY <1>1, <3>5, <3>6 DEF Told, Ids
    <3>8. QED
      BY <1>1, <2>9, <3>2, <3>7 DEF DriftInv
  <2>11. CASE n > 0
    <3>1. /\ Reached + n <= Len(shelf)
          /\ Seen' = Seen \cup Part(shelf, Reached, Reached + n)
      BY <1>4, <2>4, <2>8, <2>11
    <3>2. Paged'
      BY <1>1, <1>2, <2>1, <2>7, <2>8, <3>1, PageReads
    <3>3. ~Answered'
      BY <1>1, <2>2, <2>11 DEF Answered
    <3>4. QED
      BY <1>1, <2>9, <3>2, <3>3 DEF DriftInv
  <2>12. QED
    BY <2>10, <2>11
<1>6. CASE VTEXEnds
  <2>1. /\ VTEXEnough /\ reply'.products = VTEXProducts
        /\ UNCHANGED <<at, drift>>
    BY <1>6 DEF VTEXEnds, Answers
  <2>2. Seen' = Seen /\ Reached' = Reached /\ Len(at'.all) = Len(at.all)
    BY <1>4, <2>1 DEF Seen
  <2>3. Paged' /\ Unseen' = Unseen /\ InReach' = InReach
    BY <1>1, <1>2, <2>1, <2>2, NothingSeen
  <2>4. Len(reply'.products) = Len(at'.all) /\ Ids(reply'.products) = Seen'
    BY <1>2, <2>1, <2>2, AnswerTells
  <2>5. InReach' => Cardinality(Unseen') <= drift'.lost + drift'.gained
    <3>1. InReach => Cardinality(Unseen) <= drift.lost + drift.gained
      BY <1>1, <1>2, <2>1, VTEXMisses
    <3>2. QED
      BY <2>1, <2>3, <3>1
  <2>6. Told'
    BY <1>1, <2>4, <2>5 DEF Told, Ids
  <2>7. Totalled'
    BY <1>1, <1>2, <2>1 DEF Totalled
  <2>8. QED
    BY <1>1, <2>3, <2>6, <2>7 DEF DriftInv
<1>7. CASE GivesUp
  <2>1. UNCHANGED <<request, shelf, at, drift>> /\ reply'.end # "ok"
    BY <1>1, <1>7 DEF GivesUp, Fails
  <2>2. QED
    BY <2>1, DriftKept
<1>8. QED
  BY <1>5, <1>6, <1>7 DEF VTEXStep

(* Passing over positions without reading them: at most as many products   *)
(* are hidden, and none past the last one.                                 *)
LEMMA PositionsPassed ==
  ASSUME Numbers, Paged, NEW c \in Nat, Reached' = Reached + c,
         UNCHANGED shelf, Seen' = Seen, Len(at'.all) = Len(at.all),
         drift'.stayed = drift.stayed, drift'.gained = drift.gained,
         Hides' \in Nat, Hides' >= Hides,
         c = 0 \/ Reached >= Len(shelf) \/ Hides' = Hides + c
  PROVE  Paged' /\ Unseen' = Unseen
<1>1. PICK p \in Nat : p = Reached
  BY DEF Numbers
<1>2. /\ shelf \in Seq(Nat) /\ Len(shelf) \in Nat /\ DOMAIN shelf = 1 .. Len(shelf)
      /\ Hides \in Nat /\ Cardinality(Hidden) <= Hides
      /\ Len(at.all) \in Nat /\ drift.gained \in Nat
      /\ Len(at.all) + Cardinality(Again) <= Cardinality(Seen) + drift.gained
  BY DEF Numbers, Paged
<1>3. Unseen' = Unseen
  BY DEF Unseen
<1>4. /\ Hidden = Behind(shelf, p) \cap Unseen
      /\ Hidden' = Behind(shelf, p + c) \cap Unseen
      /\ Again = Beyond(shelf, p) \cap Seen
      /\ Again' = Beyond(shelf, p + c) \cap Seen
  BY <1>1, <1>3 DEF Hidden, Again
<1>5. /\ IsFiniteSet(Hidden) /\ IsFiniteSet(Again) /\ IsFiniteSet(Seen)
  BY FiniteSets
<1>6. Beyond(shelf, p + c) \subseteq Beyond(shelf, p)
  BY <1>2, PagePassed
<1>7. PICK G : /\ IsFiniteSet(G) /\ Cardinality(G) <= c
               /\ Behind(shelf, p + c) \subseteq Behind(shelf, p) \cup G
  BY <1>2, PagePassed
<1>8. /\ Cardinality(Again') <= Cardinality(Again)
      /\ Cardinality(Again') \in Nat /\ Cardinality(Again) \in Nat
  <2>1. Again' \subseteq Again
    BY <1>4, <1>6
  <2>2. QED
    BY <1>5, <2>1, NoMore
<1>9. Cardinality(Hidden') <= Hides'
  <2>1. /\ IsFiniteSet(Hidden') /\ Cardinality(Hidden') \in Nat
        /\ Cardinality(Hidden) \in Nat /\ Cardinality(G) \in Nat
        /\ Cardinality(Hidden') <= Cardinality(Hidden) + Cardinality(G)
    <3>1. Hidden' \subseteq Hidden \cup G
      BY <1>4, <1>7
    <3>2. QED
      BY <1>5, <1>7, <3>1, SomeMore
  <2>2. CASE Hides' = Hides + c
    BY <1>2, <1>7, <2>1, <2>2
  <2>3. CASE c = 0
    BY <1>2, <1>7, <2>1, <2>3
  <2>4. CASE Reached >= Len(shelf)
    <3>1. \A j \in DOMAIN shelf : j <= p
      BY <1>1, <1>2, <2>4
    <3>2. Hidden' \subseteq Hidden
      BY <1>4, <3>1 DEF Behind
    <3>3. Cardinality(Hidden') <= Cardinality(Hidden)
      BY <1>5, <3>2, NoMore
    <3>4. QED
      BY <1>2, <2>1, <3>3
  <2>5. QED
    BY <2>2, <2>3, <2>4
<1>10. Len(at'.all) + Cardinality(Again') <= Cardinality(Seen') + drift'.gained
  <2>1. Cardinality(Seen) \in Nat
    BY <1>5, FS_CardinalityType
  <2>2. Cardinality(Seen') = Cardinality(Seen)
    OBVIOUS
  <2>3. QED
    BY <1>2, <1>8, <2>1, <2>2
<1>11. Distinct(shelf') /\ drift'.stayed \subseteq Items(shelf')
  BY DEF Paged
<1>12. QED
  BY <1>3, <1>9, <1>10, <1>11 DEF Paged

LEMMA DriftCoop ==
  ASSUME TypeOK, DriftInv, CoopStep
  PROVE  DriftInv'
<1>1. /\ IsCoop /\ ~IsVTEX /\ IsCoop' /\ ~IsVTEX' /\ IsHTTP'
      /\ ~Answered /\ UNCHANGED <<request, shelf>>
  BY DEF CoopStep, IsVTEX, IsCoop, IsHTTP, Pending, Answered
<1>2. Numbers /\ Paged /\ Emptied
  BY <1>1, TypedNumbers DEF DriftInv, IsCoop
<1>3. /\ at \in Loop /\ at.page \in Nat /\ at.empty \in Nat /\ drift \in Drift
      /\ CoopPageSize \in Nat \ {0} /\ Len(shelf) \in Nat /\ Hides \in Nat
      /\ drift.glitches \in Nat /\ drift.lost \in Nat
      /\ MaxEmptyPages \in Nat \ {0}
      /\ at.all \in Seq(Nat) /\ Len(at.all) \in Nat
  BY <1>2 DEF TypeOK, Numbers
<1> DEFINE from == at.page * CoopPageSize
           page == Window(from, CoopPageSize)
<1>4. from \in Nat /\ (at.page + 1) * CoopPageSize = from + CoopPageSize
  <2>1. \A k, c \in Nat : k * c \in Nat /\ (k + 1) * c = k * c + c
    OBVIOUS
  <2>2. QED
    BY <1>3, <2>1
<1>5. Reached = from /\ Reached' = at'.page * CoopPageSize
  BY <1>1 DEF Reached
<1> HIDE DEF from
<1>6. page \in Seq(Nat) /\ Len(page) \in Nat /\ page = Prefix(page, Len(page))
  <2>1. page \in Seq(Nat)
    BY <1>3, <1>4, WindowType DEF TypeOK
  <2> HIDE DEF page
  <2>2. QED
    BY <2>1 DEF Prefix
<1>7. ASSUME NEW n \in Nat, n <= Len(page)
      PROVE  /\ n > 0 => from + n <= Len(shelf)
             /\ n <= CoopPageSize
             /\ n > 0 => Items(Prefix(page, n)) = Part(shelf, from, from + n)
             /\ page = << >> => from >= Len(shelf)
  BY <1>3, <1>4, <1>7, WindowMoves
<1>8. CASE CoopPage
  <2>1. page # << >> /\ reply' = reply /\ drift' = drift
    BY <1>8 DEF CoopPage, from
  <2>2. at'.page = at.page + 1 /\ at'.all = at.all \o page /\ at'.empty = 0
    BY <1>3, <1>8 DEF CoopPage, from, Loop
  <2> DEFINE n == Len(page)
  <2>3. /\ n \in Nat /\ n <= CoopPageSize
        /\ from + n <= Len(shelf) /\ Items(page) = Part(shelf, from, from + n)
        /\ CoopPageSize = n \/ from + n = Len(shelf)
    <3>1. n = IF from >= Len(shelf) THEN 0
              ELSE Least(CoopPageSize, Len(shelf) - from)
      BY <1>3, <1>4, WindowType DEF TypeOK
    <3>2. n \in Nat /\ n > 0 /\ n <= Len(page)
      <4> HIDE DEF page
      <4>1. QED
        BY <1>6, <2>1
    <3>3. /\ from + n <= Len(shelf) /\ n <= CoopPageSize
          /\ Items(Prefix(page, n)) = Part(shelf, from, from + n)
      BY <1>7, <3>2
    <3> HIDE DEF page, n
    <3>4. CoopPageSize = n \/ from + n = Len(shelf)
      BY <1>3, <1>4, <3>1, <3>2 DEF Least
    <3>5. Items(page) = Part(shelf, from, from + n)
      BY <1>6, <3>3 DEF n
    <3>6. QED
      BY <3>2, <3>3, <3>4, <3>5
  <2>4. Reached' = Reached + CoopPageSize
    BY <1>4, <1>5, <2>2
  <2>5. /\ Len(at'.all) = Len(at.all) + n
        /\ Seen' = Seen \cup Part(shelf, Reached, Reached + n)
    <3>1. /\ Len(at.all \o page) = Len(at.all) + Len(page)
          /\ Items(at.all \o page) = Items(at.all) \cup Items(page)
      BY <1>3, <1>6, ItemsOfBoth
    <3> HIDE DEF page
    <3>2. QED
      BY <1>5, <2>2, <2>3, <3>1 DEF Seen
  <2> HIDE DEF n, page
  <2>6. Reached + n <= Len(shelf)
    BY <1>5, <2>3
  <2>7. CoopPageSize = n \/ (n <= CoopPageSize /\ Reached + n = Len(shelf))
    BY <1>5, <2>3
  <2>8. Paged'
    BY <1>1, <1>2, <1>3, <2>1, <2>3, <2>4, <2>5, <2>6, <2>7, PageReads
  <2>9. Emptied'
    BY <1>3, <2>1, <2>2 DEF Emptied
  <2>10. ~Answered'
    BY <1>1, <2>1 DEF Answered
  <2>11. QED
    BY <1>1, <2>8, <2>9, <2>10 DEF DriftInv
<1>9. CASE CoopEmptyPage
  <2> HIDE DEF page
  <2>1. \/ /\ drift' = drift /\ Hides' = Hides /\ Reached >= Len(shelf)
           /\ Cardinality(Unseen) <= Hides
        \/ /\ drift'.glitches = drift.glitches + 1 /\ drift'.lost = drift.lost
           /\ drift'.gained = drift.gained /\ drift'.stayed = drift.stayed
           /\ Hides' = Hides + CoopPageSize
    <3>1. CASE page = << >> /\ UNCHANGED drift
      <4>1. Reached >= Len(shelf)
        <5>1. 0 <= Len(page)
          BY <1>6
        <5>2. QED
          BY <1>5, <1>7, <3>1, <5>1
      <4>2. Cardinality(Unseen) <= Hides
        BY <1>2, <4>1, MissedCounted
      <4>3. QED
        BY <3>1, <4>1, <4>2 DEF Hides
    <3>2. CASE drift' = [drift EXCEPT !.glitches = @ + 1]
      <4>1. /\ drift'.glitches = drift.glitches + 1 /\ drift'.lost = drift.lost
            /\ drift'.gained = drift.gained /\ drift'.stayed = drift.stayed
        BY <1>3, <3>2 DEF Drift
      <4>2. \A g, c \in Nat : c * (g + 1) = c * g + c /\ c * g \in Nat
        OBVIOUS
      <4>3. /\ CoopPageSize * (drift.glitches + 1)
                 = CoopPageSize * drift.glitches + CoopPageSize
            /\ CoopPageSize * drift.glitches \in Nat
        BY <1>3, <4>2
      <4>4. Hides' = Hides + CoopPageSize
        BY <1>3, <4>1, <4>3 DEF Hides
      <4>5. QED
        BY <4>1, <4>4
    <3>3. QED
      BY <1>9, <3>1, <3>2 DEF CoopEmptyPage, page, from
  <2>2. /\ Hides' \in Nat /\ Hides' >= Hides
        /\ drift'.gained = drift.gained /\ drift'.stayed = drift.stayed
        /\ drift'.glitches \in Nat
        /\ \/ drift'.glitches = drift.glitches /\ Cardinality(Unseen) <= Hides
           \/ drift'.glitches = drift.glitches + 1
        /\ Reached >= Len(shelf) \/ Hides' = Hides + CoopPageSize
    BY <1>3, <2>1
  <2>3. Cardinality(Unseen) \in Nat
    BY <1>2, MissedCounted
  <2>4. CASE /\ at.empty + 1 >= MaxEmptyPages
             /\ Answers(CoopProducts) /\ UNCHANGED at
    <3>1. Seen' = Seen /\ Len(at'.all) = Len(at.all)
      BY <2>4 DEF Seen
    <3>2. PICK c \in Nat : c = 0
      OBVIOUS
    <3>3. Reached' = Reached + c
      BY <1>4, <1>5, <2>4, <3>2 DEF from
    <3>4. Paged' /\ Unseen' = Unseen
      BY <1>1, <1>2, <2>2, <3>1, <3>2, <3>3, PositionsPassed
    <3>5. Cardinality(Unseen') = Cardinality(Unseen)
      BY <3>4, Zenon
    <3>6. Emptied'
      BY <1>2, <1>3, <2>2, <2>3, <2>4, <3>5 DEF Emptied
    <3>7. Len(reply'.products) = Len(at'.all) /\ Ids(reply'.products) = Seen'
      BY <1>2, <2>4, <3>1, AnswerTells DEF Answers
    <3>8. drift'.glitches < MaxEmptyPages => Cardinality(Unseen') <= Hides'
      BY <1>2, <1>3, <2>2, <2>3, <2>4, <3>5 DEF Emptied
    <3>9. Told'
      BY <1>1, <3>7, <3>8 DEF Told, Ids
    <3>10. QED
      BY <1>1, <3>4, <3>6, <3>9 DEF DriftInv
  <2>5. CASE /\ at' = [at EXCEPT !.page = @ + 1, !.empty = @ + 1]
             /\ UNCHANGED reply
    <3>1. /\ at'.page = at.page + 1 /\ at'.empty = at.empty + 1
          /\ at'.all = at.all
      <4>1. at' = [at EXCEPT !.page = at.page + 1, !.empty = at.empty + 1]
        BY <2>5
      <4>2. QED
        BY <1>3, <4>1 DEF Loop
    <3>2. Seen' = Seen /\ Len(at'.all) = Len(at.all)
      BY <3>1 DEF Seen
    <3>3. Reached' = Reached + CoopPageSize
      BY <1>4, <1>5, <3>1
    <3>4. Paged' /\ Unseen' = Unseen
      BY <1>1, <1>2, <1>3, <2>2, <3>2, <3>3, PositionsPassed
    <3>5. Cardinality(Unseen') = Cardinality(Unseen)
      BY <3>4, Zenon
    <3>6. Emptied'
      BY <1>2, <1>3, <2>2, <2>3, <3>1, <3>5 DEF Emptied
    <3>7. ~Answered'
      BY <1>1, <2>5 DEF Answered
    <3>8. QED
      BY <1>1, <3>4, <3>6, <3>7 DEF DriftInv
  <2>6. QED
    BY <1>9, <2>4, <2>5 DEF CoopEmptyPage
<1>10. CASE CoopRefuses \/ GivesUp
  <2>1. UNCHANGED <<request, shelf, at, drift>> /\ reply'.end # "ok"
    BY <1>1, <1>10 DEF CoopRefuses, GivesUp, Fails
  <2>2. QED
    BY <2>1, DriftKept
<1>11. QED
  BY <1>8, <1>9, <1>10 DEF CoopStep

LEMMA DriftStep ==
  ASSUME TypeOK, DriftInv, [Next]_vars
  PROVE  DriftInv'
<1>1. CASE VTEXStep
  BY <1>1, DriftVTEX
<1>2. CASE CoopStep
  BY <1>2, DriftCoop
<1>3. CASE StoreChanges
  BY <1>3, DriftGains, DriftLoses DEF StoreChanges
<1>4. CASE Refuse /\ UNCHANGED storeVars
  <2>1. UNCHANGED <<request, shelf, at, drift>> /\ reply'.end # "ok"
    BY <1>4 DEF Refuse, Fails, storeVars
  <2>2. QED
    BY <2>1, DriftKept
<1>5. CASE (Cancel \/ ExtractionEnds) /\ UNCHANGED storeVars
  <2>1. UNCHANGED <<request, shelf, at, drift>> /\ reply' = reply
    BY <1>5 DEF Cancel, ExtractionEnds, storeVars
  <2>2. QED
    BY <2>1, DriftKept
<1>6. CASE FirecrawlStep
  BY <1>6 DEF FirecrawlStep, DriftInv, IsExtract, IsScrape, IsHTTP
<1>7. CASE UNCHANGED vars
  <2>1. UNCHANGED <<request, shelf, at, drift>> /\ reply' = reply
    BY <1>7 DEF vars
  <2>2. QED
    BY <2>1, DriftKept
<1>8. QED
  BY <1>1, <1>2, <1>3, <1>4, <1>5, <1>6, <1>7 DEF Next, FetchStep, Outside

(* However a store changes while it is read, the answer repeats no more    *)
(* products than it gained, and misses no more of those listed all along   *)
(* than it lost and gained, and than the pages of Coop that came back      *)
(* empty hold (the property DriftIsBounded of the run).                    *)
THEOREM DriftStaysBounded == Spec => []DriftIsBounded
<1>1. TypeOK /\ DriftInv => DriftIsBounded
  <2> SUFFICES ASSUME TypeOK, DriftInv, Answered, IsHTTP
               PROVE  DriftIsBounded
    BY DEF DriftIsBounded
  <2>1. Numbers /\ Paged /\ Told
    BY TypedNumbers DEF DriftInv
  <2>2. Missed = Unseen /\ Len(reply.products) = Len(at.all)
        /\ Ids(reply.products) = Seen
    BY <2>1 DEF Told, Missed, Unseen
  <2>3. /\ Cardinality(Again) \in Nat /\ Cardinality(Seen) \in Nat
        /\ Len(at.all) \in Nat /\ drift.gained \in Nat
        /\ Len(at.all) + Cardinality(Again) <= Cardinality(Seen) + drift.gained
    BY <2>1, FiniteSets, FS_CardinalityType DEF Numbers, Paged
  <2>4. Repeats = Len(at.all) - Cardinality(Seen)
    BY <2>2 DEF Repeats
  <2>5. Repeats <= drift.gained
    BY <2>3, <2>4
  <2>6. /\ IsCoop /\ drift.glitches < MaxEmptyPages =>
             Cardinality(Missed) <= drift.lost + CoopPageSize * drift.glitches
        /\ IsVTEX /\ InReach =>
             Cardinality(Missed) <= drift.lost + drift.gained
    BY <2>1, <2>2 DEF Told, Hides
  <2>7. QED
    BY <2>5, <2>6 DEF DriftIsBounded
<1>2. QED
  BY <1>1, DriftInit, DriftStep, FetchTypeCorrect, PTL DEF Spec
=============================================================================
