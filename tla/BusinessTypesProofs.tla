------------------------- MODULE BusinessTypesProofs -------------------------
(***************************************************************************)
(* Proofs about BusinessTypes, for any products, types and requests: what  *)
(* the requests leave is what they ask for, one after the other, wherever  *)
(* no two met; and only a removal empties a product.                       *)
(***************************************************************************)
EXTENDS BusinessTypes, FiniteSetTheorems, WellFoundedInduction, TLAPS

(***************************************************************************)
(* Sequences.                                                              *)
(***************************************************************************)
LEMMA HeadAndTail ==
  ASSUME NEW S, NEW s \in Seq(S), s # << >>
  PROVE  /\ Head(s) \in S /\ Tail(s) \in Seq(S)
         /\ ToSet(s) = {Head(s)} \cup ToSet(Tail(s))
         /\ Len(s) > 1 <=> Tail(s) # << >>
<1>1. Len(s) \in Nat /\ Len(s) > 0
  OBVIOUS
<1>2. Head(s) = s[1] /\ Head(s) \in S /\ Tail(s) \in Seq(S)
  BY <1>1
<1>3. Len(Tail(s)) = Len(s) - 1 /\ \A i \in 1 .. Len(s) - 1 : Tail(s)[i] = s[i + 1]
  BY <1>1
<1>4. DOMAIN s = 1 .. Len(s) /\ DOMAIN Tail(s) = 1 .. Len(s) - 1
  BY <1>2, <1>3
<1>5. ASSUME NEW i \in DOMAIN s  PROVE s[i] \in {Head(s)} \cup ToSet(Tail(s))
  <2>1. CASE i = 1
    BY <1>2, <2>1
  <2>2. CASE i # 1
    <3>1. i - 1 \in 1 .. Len(s) - 1 /\ (i - 1) + 1 = i
      BY <1>1, <1>4, <2>2
    <3>2. s[i] = Tail(s)[i - 1]
      BY <1>3, <3>1
    <3>3. QED
      BY <1>4, <3>1, <3>2 DEF ToSet
  <2>3. QED
    BY <2>1, <2>2
<1>6. ASSUME NEW i \in DOMAIN Tail(s)  PROVE Tail(s)[i] \in ToSet(s)
  <2>1. i + 1 \in DOMAIN s
    BY <1>1, <1>4
  <2>2. Tail(s)[i] = s[i + 1]
    BY <1>3, <1>4
  <2>3. QED
    BY <2>1, <2>2 DEF ToSet
<1>7. Head(s) \in ToSet(s)
  BY <1>1, <1>2, <1>4 DEF ToSet
<1>8. ToSet(s) = {Head(s)} \cup ToSet(Tail(s))
  BY <1>5, <1>6, <1>7 DEF ToSet
<1>9. Len(s) > 1 <=> Tail(s) # << >>
  <2>1. \A t \in Seq(S) : t # << >> <=> Len(t) > 0
    OBVIOUS
  <2>2. Tail(s) # << >> <=> Len(s) - 1 > 0
    BY <1>2, <1>3, <2>1
  <2>3. QED
    BY <1>1, <2>2
<1>10. QED
  BY <1>2, <1>8, <1>9

LEMMA AppendedSet ==
  ASSUME NEW S, NEW s \in Seq(S), NEW x \in S
  PROVE  /\ Append(s, x) \in Seq(S) /\ Append(s, x) # << >>
         /\ ToSet(Append(s, x)) = ToSet(s) \cup {x}
<1> DEFINE t == Append(s, x)
<1>1. t \in Seq(S) /\ t # << >> /\ Len(t) = Len(s) + 1 /\ Len(s) \in Nat
      /\ t[Len(s) + 1] = x /\ \A i \in 1 .. Len(s) : t[i] = s[i]
  OBVIOUS
<1> HIDE DEF t
<1>2. DOMAIN t = 1 .. Len(s) + 1 /\ DOMAIN s = 1 .. Len(s)
  BY <1>1
<1>3. \A i \in DOMAIN t : t[i] \in ToSet(s) \cup {x}
  <2> SUFFICES ASSUME NEW i \in DOMAIN t  PROVE t[i] \in ToSet(s) \cup {x}
    OBVIOUS
  <2>1. i = Len(s) + 1 \/ i \in 1 .. Len(s)
    BY <1>1, <1>2
  <2>2. QED
    BY <1>1, <1>2, <2>1 DEF ToSet
<1>4. \A i \in DOMAIN s : i \in DOMAIN t /\ s[i] = t[i]
  BY <1>1, <1>2
<1>5. Len(s) + 1 \in DOMAIN t
  BY <1>1, <1>2
<1>6. ToSet(t) = ToSet(s) \cup {x}
  BY <1>1, <1>3, <1>4, <1>5 DEF ToSet
<1>7. QED
  BY <1>1, <1>6 DEF t

(* The orders of a finite set are sequences of all its elements.           *)
LEMMA OrdersAre ==
  ASSUME NEW S, IsFiniteSet(S), NEW f \in SetToSeqs(S)
  PROVE  f \in Seq(S) /\ ToSet(f) = S
<1> DEFINE D == 1 .. Cardinality(S)
<1>1. Cardinality(S) \in Nat
  BY FS_CardinalityType
<1>2. f \in [D -> S] /\ \A i, j \in D : i # j => f[i] # f[j]
  BY DEF SetToSeqs
<1>3. f \in Seq(S)
  BY <1>1, <1>2
<1>4. IsFiniteSet(D) /\ Cardinality(D) = Cardinality(S)
  BY <1>1, FS_Interval
<1>5. f \in Injection(D, S)
  BY <1>2 DEF Injection, IsInjective
<1> HIDE DEF D
<1>6. f \in Surjection(D, S)
  BY <1>4, <1>5, FS_Injection
<1>7. \A x \in S : \E i \in D : f[i] = x
  BY <1>6 DEF Surjection
<1>8. ToSet(f) = S
  BY <1>2, <1>7 DEF ToSet
<1>9. QED
  BY <1>3, <1>8

LEMMA CodesAreFinite == IsFiniteSet(Codes)
<1> DEFINE D == 1 .. Len(Types)
<1>1. Types \in Seq(Codes) /\ Len(Types) \in Nat /\ DOMAIN Types = D
  BY BusinessTypesAssumption
<1>2. IsFiniteSet(D)
  BY <1>1, FS_Interval
<1>3. Types \in [D -> Codes]
  BY <1>1
<1>4. Types \in Surjection(D, Codes)
  BY <1>1, <1>3 DEF Surjection, Codes, ToSet
<1> HIDE DEF D
<1>5. QED
  BY <1>2, <1>4, FS_Surjection

(* What is proposed for keywords is a sequence of types.                   *)
LEMMA FirstMentions ==
  ASSUME NEW k, NEW t \in Codes, <<t, k>> \in Mentions
  PROVE  FirstMention(k) \in Codes
<1> DEFINE R == {p \in Nat \X Nat : p[1] < p[2]}
           M == {n \in DOMAIN Types : <<Types[n], k>> \in Mentions}
<1>1. Types \in Seq(Codes) /\ DOMAIN Types \subseteq Nat
  BY BusinessTypesAssumption
<1>2. M # {} /\ M \subseteq Nat /\ M \subseteq DOMAIN Types
  BY <1>1 DEF Codes, ToSet
<1>3. IsWellFoundedOn(R, Nat)
  <2>1. OpToRel(<, Nat) = R
    BY DEF OpToRel
  <2>2. QED
    BY <2>1, NatLessThanWellFounded
<1> HIDE DEF M
<1>4. PICK x \in M : \A y \in M : ~(<<y, x>> \in R)
  BY <1>2, <1>3, WFMin
<1>5. \A y \in M : x <= y
  <2> SUFFICES ASSUME NEW y \in M  PROVE x <= y
    OBVIOUS
  <2>1. x \in Nat /\ y \in Nat /\ ~(<<y, x>> \in R)
    BY <1>2, <1>4
  <2>2. ~(y < x)
    BY <2>1
  <2>3. QED
    BY <2>1, <2>2
<1>6. Min(M) \in M
  <2>1. \E z \in M : \A y \in M : z <= y
    BY <1>5
  <2>2. QED
    BY <2>1, Zenon DEF Min
<1>7. Types[Min(M)] \in Codes
  <2>1. \A n \in DOMAIN Types : Types[n] \in Codes
    BY DEF Codes, ToSet
  <2>2. QED
    BY <1>2, <1>6, <2>1
<1>8. QED
  BY <1>7 DEF FirstMention, M

LEMMA MatchesAreTypes ==
  ASSUME NEW keywords
  PROVE  Matches(keywords) \in Seq(Codes)
<1>1. ASSUME NEW n  PROVE Match(keywords, n) \in Seq(Codes)
  <2>1. CASE /\ n \in DOMAIN keywords
             /\ \E t \in Codes : <<t, keywords[n]>> \in Mentions
    <3>1. FirstMention(keywords[n]) \in Codes
      BY <2>1, FirstMentions
    <3>2. Match(keywords, n) = <<FirstMention(keywords[n])>>
      BY <2>1, Zenon DEF Match
    <3>3. QED
      BY <3>1, <3>2
  <2>2. CASE ~(/\ n \in DOMAIN keywords
               /\ \E t \in Codes : <<t, keywords[n]>> \in Mentions)
    <3>1. Match(keywords, n) = << >>
      BY <2>2, Zenon DEF Match
    <3>2. QED
      BY <3>1
  <2>3. QED
    BY <2>1, <2>2
<1>2. QED
  BY <1>1 DEF Matches
-----------------------------------------------------------------------------
(***************************************************************************)
(* What a caller remembers: it has a product while it is busy, and a type  *)
(* to add if it has many; its transaction has something to insert, or has  *)
(* inserted something; what is proposed names a type.                      *)
(***************************************************************************)
Busy == {"read", "delete", "await", "insert", "remove", "awaitRemove"}
Fill(m) ==
  /\ m \in Memory
  /\ m.pc \in Busy <=> m.todo # << >>
  /\ m.pc = "read" \/ Len(m.todo) > 1 => m.code \in Codes
  /\ m.pc \in {"read", "delete", "await"} => m.inserted = {}
  /\ m.pc \in {"delete", "await"} => m.left # << >>
  /\ m.pc = "insert" => m.left # << >> \/ m.inserted # {}
  /\ \A offer \in m.offers : offer[2] # << >>

(***************************************************************************)
(* On a product on which two requests never met there is one at most, and  *)
(* what it has read still holds: it does not wait, it has deleted every    *)
(* row there is, and one that adds a type inserts those rows and the type. *)
(***************************************************************************)
Alone(c) == Works(c) /\ Item(c) \notin overlapped
AloneInv ==
  \A c, d \in Callers : Alone(c) /\ Works(d) /\ Item(d) = Item(c) => c = d
Agrees(m, rows) ==
  /\ m.pc \notin {"await", "awaitRemove"}
  /\ m.pc = "insert" => m.deleted = rows
  /\ m.pc \in {"delete", "insert"} /\ m.code # "" =>
       ToSet(m.left) \cup m.inserted = rows \cup {m.code}
TxInv == \A c \in Callers : Alone(c) => Agrees(mem[c], types[Item(c)])

Tables ==
  /\ types \in [Products -> SUBSET Codes]
  /\ ideal \in [Products -> SUBSET Codes]
  /\ overlapped \subseteq Products
Counts == [requests : 0 .. MaxRequests, faults : 0 .. MaxFaults]

Inv ==
  /\ Tables /\ count \in Counts
  /\ mem \in [Callers -> Memory]
  /\ \A c \in Callers : Fill(mem[c])
  /\ AppliedInOrder /\ AloneInv /\ TxInv

(***************************************************************************)
(* A step is a turn of one caller, who then remembers m, or a write of its *)
(* product as well: rows are gone, the product has the types new, and      *)
(* would have those of want.                                               *)
(***************************************************************************)
Turn(c, m) ==
  /\ mem' = [mem EXCEPT ![c] = m] /\ UNCHANGED <<types, ideal>>
  /\ Fill(m)
  /\ m.todo # << >> /\ Head(m.todo) \notin overlapped' =>
       Agrees(m, types[Head(m.todo)])
Write(c, m, rows, new, want) ==
  /\ Works(c)
  /\ mem' = Gone(Item(c), rows, [mem EXCEPT ![c] = m])
  /\ types' = [types EXCEPT ![Item(c)] = new]
  /\ ideal' = [ideal EXCEPT ![Item(c)] = want]
  /\ new \in SUBSET Codes /\ want \in SUBSET Codes
  /\ Fill(m) /\ m.pc \in {"idle", "read"}
  /\ Alone(c) => new = want
  /\ types[Item(c)] # {} /\ new = {} =>
       mem[c].pc \in {"remove", "awaitRemove"} /\ m = Idle
Kind(c) ==
  \/ \E m \in Memory : Turn(c, m)
  \/ \E m \in Memory, new, want \in SUBSET Codes : \E rows :
       Write(c, m, rows, new, want)
Kept == overlapped \subseteq overlapped'

LEMMA IdleIs == Fill(Idle)
<1>1. Idle \in Memory
  BY DEF Idle, Memory
<1>2. /\ Idle.pc = "idle" /\ Idle.todo = << >> /\ Idle.offers = {}
  BY DEF Idle
<1>3. ~(Len(<< >>) > 1)
  OBVIOUS
<1>4. QED
  BY <1>1, <1>2, <1>3 DEF Fill, Busy

LEMMA ItemIs ==
  ASSUME Inv, NEW c \in Callers, Works(c)
  PROVE  /\ Item(c) \in Products /\ mem[c] \in Memory
         /\ types[Item(c)] \in SUBSET Codes /\ ideal[Item(c)] \in SUBSET Codes
<1>1. mem[c] \in Memory
  BY DEF Inv
<1>2. mem[c].todo \in Seq(Products) /\ mem[c].todo # << >>
  BY <1>1 DEF Memory, Works
<1>3. Item(c) \in Products
  BY <1>2, HeadAndTail DEF Item
<1>4. QED
  BY <1>1, <1>3 DEF Inv, Tables

LEMMA BusyWorks ==
  ASSUME Inv, NEW c \in Callers
  PROVE  mem[c].pc \in Busy <=> Works(c)
BY DEF Inv, Fill, Works

(* What a request starts with.                                             *)
LEMMA NewPuts ==
  ASSUME NEW p \in Products, NEW s \in Seq(Codes), s # << >>
  PROVE  LET m == [Idle EXCEPT !.pc = "delete", !.todo = <<p>>, !.left = s]
         IN  Fill(m) /\ m.pc = "delete" /\ m.code = ""
<1> DEFINE m == [Idle EXCEPT !.pc = "delete", !.todo = <<p>>, !.left = s]
<1>1. <<p>> \in Seq(Products) /\ <<p>> # << >>
  OBVIOUS
<1>2. m \in Memory
  BY <1>1 DEF Idle, Memory
<1>3. QED
  BY <1>1, <1>2 DEF Idle, Fill, Busy

LEMMA NewRequests ==
  /\ \A p \in Products, k \in Codes :
       LET m == [Idle EXCEPT !.pc = "remove", !.todo = <<p>>, !.code = k]
       IN  Fill(m) /\ m.pc = "remove"
  /\ \A s \in Seq(Products) \ {<< >>}, k \in Codes :
       LET m == [Idle EXCEPT !.pc = "read", !.todo = s, !.code = k]
       IN  Fill(m) /\ m.pc = "read" /\ m.todo = s
  /\ \A named, included \in BOOLEAN :
       LET m == [Idle EXCEPT !.pc = "fetch", !.named = named,
                             !.included = included]
       IN  Fill(m) /\ m.todo = << >>
<1>1. ASSUME NEW p \in Products, NEW k \in Codes
      PROVE  LET m == [Idle EXCEPT !.pc = "remove", !.todo = <<p>>, !.code = k]
             IN  Fill(m) /\ m.pc = "remove"
  <2> DEFINE m == [Idle EXCEPT !.pc = "remove", !.todo = <<p>>, !.code = k]
  <2>1. <<p>> \in Seq(Products) /\ <<p>> # << >>
    OBVIOUS
  <2>2. m \in Memory
    BY <2>1, IdleIs DEF Fill, Memory
  <2>3. QED
    BY <2>1, <2>2 DEF Idle, Fill, Busy
<1>2. ASSUME NEW s \in Seq(Products), s # << >>, NEW k \in Codes
      PROVE  LET m == [Idle EXCEPT !.pc = "read", !.todo = s, !.code = k]
             IN  Fill(m) /\ m.pc = "read" /\ m.todo = s
  <2> DEFINE m == [Idle EXCEPT !.pc = "read", !.todo = s, !.code = k]
  <2>1. m \in Memory
    BY <1>2, IdleIs DEF Fill, Memory
  <2>2. QED
    BY <1>2, <2>1 DEF Idle, Fill, Busy
<1>3. ASSUME NEW named \in BOOLEAN, NEW included \in BOOLEAN
      PROVE  LET m == [Idle EXCEPT !.pc = "fetch", !.named = named,
                                   !.included = included]
             IN  Fill(m) /\ m.todo = << >>
  <2> DEFINE m == [Idle EXCEPT !.pc = "fetch", !.named = named,
                               !.included = included]
  <2>1. m \in Memory
    BY IdleIs DEF Fill, Memory
  <2>2. QED
    BY <2>1 DEF Idle, Fill, Busy
<1>4. QED
  BY <1>1, <1>2, <1>3

LEMMA RequestTurns ==
  ASSUME Inv, NEW c \in Callers,
         AssignBusinessTypes(c) \/ RemoveBusinessType(c) \/ BulkAssign(c)
         \/ AutoMatch(c)
  PROVE  Kind(c)
<1>1. ASSUME NEW m, Request(c, m), Fill(m),
             m.todo # << >> => \A rows : Agrees(m, rows)
      PROVE  Kind(c)
  <2>1. mem' = [mem EXCEPT ![c] = m] /\ UNCHANGED <<types, ideal>>
    BY <1>1 DEF Request, Goes
  <2>2. m \in Memory
    BY <1>1 DEF Fill
  <2>3. QED
    BY <1>1, <2>1, <2>2 DEF Kind, Turn
<1>2. CASE AssignBusinessTypes(c)
  <2>1. PICK p \in Products, s \in Puts :
          Request(c, [Idle EXCEPT !.pc = "delete", !.todo = <<p>>, !.left = s])
    BY <1>2 DEF AssignBusinessTypes
  <2> DEFINE m == [Idle EXCEPT !.pc = "delete", !.todo = <<p>>, !.left = s]
  <2>2. s \in Seq(Codes) /\ s # << >>
    BY BusinessTypesAssumption
  <2>3. Fill(m) /\ m.pc = "delete" /\ m.code = ""
    BY <2>2, NewPuts
  <2>4. Request(c, m)
    BY <2>1
  <2> HIDE DEF m
  <2>5. \A rows : Agrees(m, rows)
    BY <2>3 DEF Agrees
  <2>6. QED
    BY <1>1, <2>3, <2>4, <2>5
<1>3. CASE RemoveBusinessType(c)
  <2>1. PICK p \in Products, k \in Codes :
          Request(c, [Idle EXCEPT !.pc = "remove", !.todo = <<p>>, !.code = k])
    BY <1>3 DEF RemoveBusinessType
  <2> DEFINE m == [Idle EXCEPT !.pc = "remove", !.todo = <<p>>, !.code = k]
  <2>2. Fill(m) /\ m.pc = "remove"
    BY NewRequests
  <2>3. Request(c, m)
    BY <2>1
  <2> HIDE DEF m
  <2>4. \A rows : Agrees(m, rows)
    BY <2>2 DEF Agrees
  <2>5. QED
    BY <1>1, <2>2, <2>3, <2>4
<1>4. CASE BulkAssign(c)
  <2>1. PICK s \in BoundedSeq(Products, MaxIds) \ {<< >>}, k \in Codes :
          Request(c, [Idle EXCEPT !.pc = "read", !.todo = s, !.code = k])
    BY <1>4 DEF BulkAssign
  <2> DEFINE m == [Idle EXCEPT !.pc = "read", !.todo = s, !.code = k]
  <2>2. s \in Seq(Products) \ {<< >>}
    <3>1. \E n \in 0 .. MaxIds : s \in [1 .. n -> Products]
      BY DEF BoundedSeq, SeqOf
    <3>2. QED
      BY <3>1, BusinessTypesAssumption
  <2>3. Fill(m) /\ m.pc = "read"
    BY <2>2, NewRequests
  <2>4. Request(c, m)
    BY <2>1
  <2> HIDE DEF m
  <2>5. \A rows : Agrees(m, rows)
    BY <2>3 DEF Agrees
  <2>6. QED
    BY <1>1, <2>3, <2>4, <2>5
<1>5. CASE AutoMatch(c)
  <2>1. PICK named \in BOOLEAN, included \in BOOLEAN :
          Request(c, [Idle EXCEPT !.pc = "fetch", !.named = named,
                                  !.included = included])
    BY <1>5 DEF AutoMatch
  <2> DEFINE m == [Idle EXCEPT !.pc = "fetch", !.named = named,
                               !.included = included]
  <2>2. Fill(m) /\ m.todo = << >>
    BY NewRequests
  <2>3. Request(c, m)
    BY <2>1
  <2> HIDE DEF m
  <2>4. QED
    BY <1>1, <2>2, <2>3
<1>6. QED
  BY <1>2, <1>3, <1>4, <1>5

(* A request that is done with its product is idle, or reads the next one. *)
LEMMA FinishedIs ==
  ASSUME Inv, NEW c \in Callers, NEW m, m = Finished(c)
  PROVE  /\ Fill(m) /\ m.pc \in {"idle", "read"}
         /\ \A rows : Agrees(m, rows)
<1>1. mem[c] \in Memory
  BY DEF Inv
<1>2. mem[c].todo \in Seq(Products)
      /\ (Len(mem[c].todo) > 1 => mem[c].code \in Codes)
  BY <1>1 DEF Memory, Inv, Fill
<1>3. CASE Len(mem[c].todo) > 1
  <2>1. mem[c].todo # << >>
    <3>1. \A s \in Seq(Products) : Len(s) > 1 => s # << >>
      OBVIOUS
    <3>2. QED
      BY <1>2, <1>3, <3>1
  <2>2. Tail(mem[c].todo) \in Seq(Products) \ {<< >>}
    BY <1>2, <1>3, <2>1, HeadAndTail
  <2>3. m = [Idle EXCEPT !.pc = "read", !.todo = Tail(mem[c].todo),
                         !.code = mem[c].code]
    BY <1>3 DEF Finished, Idle
  <2> DEFINE t == Tail(mem[c].todo)
             k == mem[c].code
             n == [Idle EXCEPT !.pc = "read", !.todo = t, !.code = k]
  <2>4. Fill(n) /\ n.pc = "read"
    <3>1. t \in Seq(Products) \ {<< >>} /\ k \in Codes
      BY <1>2, <1>3, <2>2
    <3> HIDE DEF t, k
    <3>2. QED
      BY <3>1, NewRequests
  <2>5. m = n
    BY <2>3
  <2> HIDE DEF n
  <2>6. QED
    BY <2>4, <2>5 DEF Agrees
<1>4. CASE ~(Len(mem[c].todo) > 1)
  <2>1. m = Idle
    BY <1>4 DEF Finished
  <2>2. Idle.pc = "idle"
    BY DEF Idle
  <2>3. QED
    BY <2>1, <2>2, IdleIs DEF Agrees
<1>5. QED
  BY <1>3, <1>4

LEMMA RollbackTurns ==
  ASSUME Inv, NEW c \in Callers, Rollback(c), UNCHANGED <<types, ideal>>
  PROVE  Kind(c)
<1> DEFINE m == Finished(c)
<1>1. mem' = [mem EXCEPT ![c] = m]
  BY DEF Rollback, Goes
<1>2. Fill(m) /\ \A rows : Agrees(m, rows)
  BY FinishedIs
<1> HIDE DEF m
<1>3. m \in Memory
  BY <1>2 DEF Fill
<1>4. QED
  BY <1>1, <1>2, <1>3 DEF Kind, Turn

(* A request that meets nobody waits for nobody.                           *)
LEMMA NobodyIsWaitedFor ==
  ASSUME Inv, NEW c \in Callers, Alone(c), NEW k
  PROVE  ~Locked(c, k)
BY DEF Inv, AloneInv, Locked, Deletes

(* A turn that stays with the product, of a request that has one.          *)
LEMMA StaysTurns ==
  ASSUME Inv, Kept, NEW c \in Callers, NEW m, Goes(c, m),
         UNCHANGED <<types, ideal>>, Fill(m),
         m.todo = mem[c].todo, Alone(c) => Agrees(m, types[Item(c)])
  PROVE  Kind(c)
<1>1. mem' = [mem EXCEPT ![c] = m] /\ m \in Memory
  BY DEF Goes, Fill
<1>2. m.todo # << >> /\ Head(m.todo) \notin overlapped' => Alone(c)
  BY DEF Kept, Alone, Works, Item
<1>3. Head(m.todo) = Item(c)
  BY DEF Item
<1>4. QED
  BY <1>1, <1>2, <1>3 DEF Kind, Turn

LEMMA DeleteTurns ==
  ASSUME Inv, Kept, NEW c \in Callers, DeleteTypes(c) \/ DeleteResumes(c)
  PROVE  Kind(c)
<1>1. Fill(mem[c]) /\ mem[c] \in Memory
  BY DEF Inv
<1>2. UNCHANGED <<types, ideal>>
  BY DEF DeleteTypes, DeleteResumes
<1>3. mem[c].pc \in {"delete", "await"}
  BY DEF DeleteTypes, DeleteResumes
<1>4. Works(c) /\ types[Item(c)] \in SUBSET Codes
  BY <1>3, BusyWorks, ItemIs DEF Busy
<1>5. Alone(c) => Agrees(mem[c], types[Item(c)])
  BY DEF Inv, TxInv
<1>6. ASSUME NEW rows \in SUBSET Codes
      PROVE  LET m == [mem[c] EXCEPT !.pc = "await", !.awaited = rows]
             IN  Fill(m) /\ m.todo = mem[c].todo
  <2> DEFINE m == [mem[c] EXCEPT !.pc = "await", !.awaited = rows]
  <2>1. m \in Memory
    BY <1>1 DEF Memory
  <2>2. QED
    BY <1>1, <1>3, <2>1 DEF Memory, Fill, Busy
<1>7. ASSUME NEW rows \in SUBSET Codes
      PROVE  LET m == [mem[c] EXCEPT !.pc = "insert", !.deleted = rows]
             IN  Fill(m) /\ m.todo = mem[c].todo
                 /\ m.pc = "insert" /\ m.deleted = rows /\ m.code = mem[c].code
                 /\ m.left = mem[c].left /\ m.inserted = mem[c].inserted
  <2> DEFINE m == [mem[c] EXCEPT !.pc = "insert", !.deleted = rows]
  <2>1. m \in Memory
    BY <1>1 DEF Memory
  <2>2. QED
    BY <1>1, <1>3, <2>1 DEF Memory, Fill, Busy
<1>8. ASSUME NEW rows \in SUBSET Codes
      PROVE  LET m == [mem[c] EXCEPT !.pc = "insert", !.deleted = rows,
                                     !.awaited = {}]
             IN  Fill(m) /\ m.todo = mem[c].todo
  <2> DEFINE m == [mem[c] EXCEPT !.pc = "insert", !.deleted = rows,
                                 !.awaited = {}]
  <2>1. m \in Memory
    BY <1>1 DEF Memory
  <2>2. QED
    BY <1>1, <1>3, <2>1 DEF Memory, Fill, Busy
<1>9. CASE DeleteTypes(c)
  <2> DEFINE rows == types[Item(c)]
             m == [mem[c] EXCEPT !.pc = "await", !.awaited = rows]
             n == [mem[c] EXCEPT !.pc = "insert", !.deleted = rows]
  <2>1. CASE \E k \in rows : Locked(c, k)
    <3>1. Goes(c, m)
      BY <1>9, <2>1 DEF DeleteTypes
    <3>2. ~Alone(c)
      BY <2>1, NobodyIsWaitedFor
    <3>3. Fill(m) /\ m.todo = mem[c].todo
      BY <1>4, <1>6
    <3> HIDE DEF m
    <3>4. QED
      BY <1>2, <3>1, <3>2, <3>3, StaysTurns
  <2>2. CASE ~(\E k \in rows : Locked(c, k))
    <3>1. Goes(c, n)
      BY <1>9, <2>2 DEF DeleteTypes
    <3>2. /\ Fill(n) /\ n.todo = mem[c].todo
          /\ n.pc = "insert" /\ n.deleted = rows /\ n.code = mem[c].code
          /\ n.left = mem[c].left /\ n.inserted = mem[c].inserted
      BY <1>4, <1>7
    <3>3. mem[c].pc = "delete"
      BY <1>9 DEF DeleteTypes
    <3> HIDE DEF n
    <3>4. Alone(c) => Agrees(n, rows)
      BY <1>5, <3>2, <3>3 DEF Agrees
    <3>5. QED
      BY <1>2, <3>1, <3>2, <3>4, StaysTurns
  <2>3. QED
    BY <2>1, <2>2
<1>10. CASE DeleteResumes(c)
  <2> DEFINE rows == mem[c].awaited
             m == [mem[c] EXCEPT !.pc = "insert", !.deleted = rows,
                                 !.awaited = {}]
  <2>1. Goes(c, m) /\ mem[c].pc = "await"
    BY <1>10 DEF DeleteResumes
  <2>2. rows \in SUBSET Codes
    BY <1>1 DEF Memory
  <2>3. ~Alone(c)
    BY <1>5, <2>1 DEF Agrees
  <2> HIDE DEF rows
  <2>4. Fill(m) /\ m.todo = mem[c].todo
    BY <1>8, <2>2
  <2> HIDE DEF m
  <2>5. QED
    BY <1>2, <2>1, <2>3, <2>4, StaysTurns
<1>11. QED
  BY <1>9, <1>10

LEMMA InsertTurns ==
  ASSUME Inv, Kept, NEW c \in Callers, InsertType(c)
  PROVE  Kind(c)
<1>1. Fill(mem[c]) /\ mem[c] \in Memory
  BY DEF Inv
<1> DEFINE k == Head(mem[c].left)
           t == Tail(mem[c].left)
           I == mem[c].inserted \cup {k}
           m == [mem[c] EXCEPT !.left = t, !.inserted = I]
<1>2. mem[c].pc = "insert" /\ mem[c].left # << >> /\ UNCHANGED <<types, ideal>>
      /\ (Rollback(c) \/ Goes(c, m))
  BY DEF InsertType
<1>3. mem[c].left \in Seq(Codes) /\ mem[c].inserted \in SUBSET Codes
  BY <1>1 DEF Memory
<1>4. k \in Codes /\ t \in Seq(Codes) /\ ToSet(mem[c].left) = {k} \cup ToSet(t)
  BY <1>2, <1>3, HeadAndTail
<1>5. I \in SUBSET Codes /\ I # {}
  BY <1>3, <1>4
<1>6. ToSet(t) \cup I = ToSet(mem[c].left) \cup mem[c].inserted
  BY <1>4
<1> HIDE DEF t, I
<1>7. m \in Memory
  BY <1>1, <1>4, <1>5 DEF Memory
<1>8. /\ m.pc = "insert" /\ m.left = t /\ m.inserted = I
      /\ m.todo = mem[c].todo /\ m.code = mem[c].code
      /\ m.deleted = mem[c].deleted
  BY <1>1, <1>2 DEF Memory
<1>9. Fill(m)
  BY <1>1, <1>2, <1>5, <1>7 DEF Memory, Fill, Busy
<1> HIDE DEF m
<1>10. Alone(c) => Agrees(mem[c], types[Item(c)])
  BY DEF Inv, TxInv
<1>11. Alone(c) => Agrees(m, types[Item(c)])
  BY <1>2, <1>6, <1>8, <1>10 DEF Agrees
<1>12. QED
  BY <1>2, <1>8, <1>9, <1>11, RollbackTurns, StaysTurns

LEMMA FailureTurns ==
  ASSUME Inv, NEW c \in Callers, Deadlocked(c) \/ StatementFails(c)
  PROVE  Kind(c)
<1>1. Rollback(c) /\ UNCHANGED <<types, ideal>>
  BY DEF Deadlocked, StatementFails
<1>2. QED
  BY <1>1, RollbackTurns

LEMMA ReadTurns ==
  ASSUME Inv, Kept, NEW c \in Callers, ReadTypes(c)
  PROVE  Kind(c)
<1>1. Fill(mem[c]) /\ mem[c] \in Memory
  BY DEF Inv
<1>2. mem[c].pc = "read" /\ UNCHANGED <<types, ideal>>
  BY DEF ReadTypes
<1>3. Works(c) /\ types[Item(c)] \in SUBSET Codes
  BY <1>2, BusyWorks, ItemIs DEF Busy
<1> DEFINE S == types[Item(c)]
           k == mem[c].code
<1>4. PICK f \in SetToSeqs(S) :
        Goes(c, IF k \in ToSet(f) THEN Finished(c)
                ELSE [mem[c] EXCEPT !.pc = "delete", !.left = Append(f, k)])
  BY DEF ReadTypes
<1>5. f \in Seq(S) /\ ToSet(f) = S
  <2>1. IsFiniteSet(S)
    BY <1>3, CodesAreFinite, FS_Subset
  <2> HIDE DEF S
  <2>2. QED
    BY <2>1, OrdersAre
<1>6. CASE k \in ToSet(f)
  <2>1. Rollback(c)
    BY <1>4, <1>6 DEF Rollback
  <2>2. QED
    BY <1>2, <2>1, RollbackTurns
<1>7. CASE k \notin ToSet(f)
  <2> DEFINE s == Append(f, k)
             m == [mem[c] EXCEPT !.pc = "delete", !.left = s]
  <2>1. k \in Codes /\ mem[c].inserted = {}
    BY <1>1, <1>2 DEF Fill
  <2>2. Goes(c, m)
    BY <1>4, <1>7
  <2>3. f \in Seq(Codes)
    BY <1>3, <1>5
  <2>4. s \in Seq(Codes) /\ s # << >> /\ ToSet(s) = S \cup {k}
    BY <1>5, <2>1, <2>3, AppendedSet
  <2> HIDE DEF s, S
  <2>5. m \in Memory
    BY <1>1, <2>4 DEF Memory
  <2>6. /\ m.pc = "delete" /\ m.left = s /\ m.todo = mem[c].todo
        /\ m.inserted = {} /\ m.code = k
    BY <1>1, <2>1 DEF Memory
  <2>7. Fill(m)
    BY <1>1, <1>2, <2>1, <2>4, <2>5 DEF Memory, Fill, Busy
  <2> HIDE DEF m
  <2>8. Agrees(m, S)
    BY <2>4, <2>6 DEF Agrees
  <2>9. QED
    BY <1>2, <2>2, <2>6, <2>7, <2>8, StaysTurns DEF S
<1>8. QED
  BY <1>6, <1>7

LEMMA ProposeTurns ==
  ASSUME Inv, Kept, NEW c \in Callers, Propose(c)
  PROVE  Kind(c)
<1>1. Fill(mem[c]) /\ mem[c] \in Memory
  BY DEF Inv
<1>2. mem[c].pc = "fetch" /\ UNCHANGED <<types, ideal>>
  BY DEF Propose
<1>3. PICK ids \in SUBSET Products \ {{}} :
        LET ps == IF mem[c].named THEN NamedProducts(ids)
                  ELSE ListProducts(mem[c].included)
        IN \E choice \in [ps -> UNION {Keywords(p) : p \in ps}] :
             /\ \A p \in ps : choice[p] \in Keywords(p)
             /\ Goes(c, [mem[c] EXCEPT
                  !.pc = "offered",
                  !.offers = {<<p, Matches(choice[p])>> :
                                p \in {q \in ps : Matches(choice[q]) # << >>}}])
  BY DEF Propose
<1> DEFINE ps == IF mem[c].named THEN NamedProducts(ids)
                 ELSE ListProducts(mem[c].included)
<1>4. PICK choice :
        Goes(c, [mem[c] EXCEPT
             !.pc = "offered",
             !.offers = {<<p, Matches(choice[p])>> :
                           p \in {q \in ps : Matches(choice[q]) # << >>}}])
  BY <1>3
<1> DEFINE offers == {<<p, Matches(choice[p])>> :
                        p \in {q \in ps : Matches(choice[q]) # << >>}}
           m == [mem[c] EXCEPT !.pc = "offered", !.offers = offers]
<1>5. Goes(c, m)
  BY <1>4
<1>6. ps \subseteq Products
  BY DEF NamedProducts, ListProducts
<1> HIDE DEF ps
<1>9. /\ offers \in SUBSET (Products \X Seq(Codes))
      /\ \A offer \in offers : offer[2] # << >>
  BY <1>6, MatchesAreTypes
<1> HIDE DEF offers
<1>11. m \in Memory
  BY <1>1, <1>9 DEF Memory
<1>12. /\ m.pc = "offered" /\ m.offers = offers /\ m.todo = mem[c].todo
  BY <1>1 DEF Memory
<1>13. mem[c].todo = << >>
  BY <1>1, <1>2 DEF Fill, Busy
<1> HIDE DEF m
<1>14. Fill(m)
  BY <1>9, <1>11, <1>12, <1>13 DEF Fill, Busy
<1>16. ~Alone(c)
  BY <1>13 DEF Alone, Works
<1>17. QED
  BY <1>2, <1>5, <1>12, <1>14, <1>16, StaysTurns

LEMMA ConfirmTurns ==
  ASSUME Inv, NEW c \in Callers, Confirm(c)
  PROVE  Kind(c)
<1>1. Fill(mem[c]) /\ mem[c] \in Memory /\ UNCHANGED <<types, ideal>>
  BY DEF Inv, Confirm
<1>2. ASSUME NEW offer \in mem[c].offers,
             Goes(c, [Idle EXCEPT !.pc = "delete", !.todo = <<offer[1]>>,
                                  !.left = offer[2]])
      PROVE  Kind(c)
  <2> DEFINE p == offer[1]
             s == offer[2]
             m == [Idle EXCEPT !.pc = "delete", !.todo = <<p>>, !.left = s]
  <2>1. p \in Products /\ s \in Seq(Codes) /\ s # << >>
    BY <1>1 DEF Fill, Memory
  <2> HIDE DEF p, s
  <2>2. Fill(m) /\ m.pc = "delete" /\ m.code = ""
    BY <2>1, NewPuts
  <2>3. Goes(c, m)
    BY <1>2 DEF p, s
  <2> HIDE DEF m
  <2>4. \A rows : Agrees(m, rows)
    BY <2>2 DEF Agrees
  <2>5. m \in Memory
    BY <2>2 DEF Fill
  <2>6. QED
    BY <1>1, <2>2, <2>3, <2>4, <2>5 DEF Kind, Turn, Goes
<1>3. CASE Goes(c, Idle)
  <2>1. Idle.todo = << >> /\ Idle \in Memory
    BY IdleIs DEF Idle, Fill
  <2>2. QED
    BY <1>1, <1>3, <2>1, IdleIs DEF Kind, Turn, Goes
<1>4. QED
  BY <1>2, <1>3 DEF Confirm

(***************************************************************************)
(* The writes.                                                             *)
(***************************************************************************)
LEMMA RemoveWrites ==
  ASSUME Inv, NEW c \in Callers, NEW k, Removes(c, k), Works(c),
         mem[c].pc \in {"remove", "awaitRemove"}, k = mem[c].code
  PROVE  Kind(c)
<1> DEFINE new  == types[Item(c)] \ {k}
           want == ideal[Item(c)] \ {k}
<1>1. /\ types[Item(c)] \in SUBSET Codes /\ ideal[Item(c)] \in SUBSET Codes
      /\ Item(c) \in Products
  BY ItemIs
<1>2. /\ types' = [types EXCEPT ![Item(c)] = new]
      /\ ideal' = [ideal EXCEPT ![Item(c)] = want]
      /\ mem' = Gone(Item(c), {k}, [mem EXCEPT ![c] = Idle])
  BY DEF Removes
<1>3. new \in SUBSET Codes /\ want \in SUBSET Codes
  BY <1>1
<1>4. Alone(c) => new = want
  BY <1>1 DEF Inv, AppliedInOrder, Alone
<1>5. Fill(Idle) /\ Idle.pc = "idle" /\ Idle \in Memory
  BY IdleIs DEF Idle, Fill
<1> HIDE DEF new, want
<1>6. QED
  BY <1>2, <1>3, <1>4, <1>5 DEF Kind, Write

LEMMA RemoveKinds ==
  ASSUME Inv, Kept, NEW c \in Callers, RemoveRow(c) \/ RemoveResumes(c)
  PROVE  Kind(c)
<1>1. mem[c].pc \in {"remove", "awaitRemove"}
  BY DEF RemoveRow, RemoveResumes
<1>2. Works(c)
  BY <1>1, BusyWorks DEF Busy
<1>3. CASE Removes(c, mem[c].code)
  BY <1>1, <1>2, <1>3, RemoveWrites
<1>4. CASE Goes(c, Idle) /\ UNCHANGED <<types, ideal>>
  <2>1. Idle.todo = << >> /\ Idle \in Memory
    BY IdleIs DEF Idle, Fill
  <2>2. QED
    BY <1>4, <2>1, IdleIs DEF Kind, Turn, Goes
<1>5. ASSUME NEW k \in types[Item(c)], Locked(c, k), UNCHANGED <<types, ideal>>,
             Goes(c, [mem[c] EXCEPT !.pc = "awaitRemove", !.awaited = {k}])
      PROVE  Kind(c)
  <2> DEFINE rows == {k}
             m == [mem[c] EXCEPT !.pc = "awaitRemove", !.awaited = rows]
  <2>1. Fill(mem[c]) /\ mem[c] \in Memory
    BY DEF Inv
  <2>2. rows \in SUBSET Codes
    BY <1>2, ItemIs
  <2>3. Goes(c, m)
    BY <1>5
  <2> HIDE DEF rows
  <2>4. m \in Memory
    BY <2>1, <2>2 DEF Memory
  <2>5. Fill(m) /\ m.todo = mem[c].todo
    BY <1>1, <2>1, <2>4 DEF Memory, Fill, Busy
  <2>6. ~Alone(c)
    BY <1>5, NobodyIsWaitedFor
  <2> HIDE DEF m
  <2>7. QED
    BY <1>5, <2>3, <2>5, <2>6, StaysTurns
<1>6. QED
  BY <1>3, <1>4, <1>5 DEF RemoveRow, RemoveResumes

LEMMA CommitWrites ==
  ASSUME Inv, NEW c \in Callers, Commit(c)
  PROVE  Kind(c)
<1>1. Fill(mem[c]) /\ mem[c] \in Memory
  BY DEF Inv
<1>2. mem[c].pc = "insert" /\ mem[c].left = << >>
  BY DEF Commit
<1>3. Works(c)
  BY <1>2, BusyWorks DEF Busy
<1> DEFINE p    == Item(c)
           I    == mem[c].inserted
           D    == mem[c].deleted
           m    == Finished(c)
           new  == (types[p] \ D) \cup I
           want == IF mem[c].code = "" THEN I ELSE ideal[p] \cup {mem[c].code}
<1>4. /\ types[p] \in SUBSET Codes /\ ideal[p] \in SUBSET Codes
      /\ p \in Products
  BY <1>3, ItemIs
<1>5. I \in SUBSET Codes /\ D \in SUBSET Codes /\ mem[c].code \in Codes \cup {""}
  BY <1>1 DEF Memory
<1>6. I # {}
  BY <1>1, <1>2 DEF Fill
<1>7. new \in SUBSET Codes /\ new # {} /\ want \in SUBSET Codes
  BY <1>4, <1>5, <1>6
<1>8. Alone(c) => new = want
  <2>1. Alone(c) => Agrees(mem[c], types[p]) /\ types[p] = ideal[p]
    BY <1>4 DEF Inv, TxInv, AppliedInOrder, Alone
  <2>2. ToSet(mem[c].left) = {}
    BY <1>2 DEF ToSet
  <2>3. QED
    BY <1>2, <2>1, <2>2 DEF Agrees
<1>9. /\ types' = [types EXCEPT ![p] = new]
      /\ ideal' = [ideal EXCEPT ![p] = want]
      /\ mem' = Gone(p, D, [mem EXCEPT ![c] = m])
  BY DEF Commit
<1>10. Fill(m) /\ m.pc \in {"idle", "read"}
  BY FinishedIs
<1>11. m \in Memory
  BY <1>10 DEF Fill
<1> HIDE DEF p, I, D, m, new, want
<1>12. Write(c, m, D, new, want)
  BY <1>3, <1>7, <1>8, <1>9, <1>10 DEF Write, p
<1>13. QED
  BY <1>5, <1>7, <1>11, <1>12 DEF Kind

LEMMA StepKinds ==
  ASSUME Inv, Kept, Step
  PROVE  \E c \in Callers : Kind(c)
<1>1. PICK c \in Callers :
        \/ AssignBusinessTypes(c) \/ RemoveBusinessType(c) \/ BulkAssign(c)
        \/ AutoMatch(c) \/ RequestStep(c) \/ StatementFails(c)
  BY DEF Step
<1>2. CASE RequestStep(c)
  BY <1>2, DeleteTurns, InsertTurns, FailureTurns, CommitWrites, RemoveKinds,
     ReadTurns, ProposeTurns, ConfirmTurns DEF RequestStep, SaveBusinessTypes
<1>3. QED
  BY <1>1, <1>2, RequestTurns, FailureTurns
-----------------------------------------------------------------------------
(***************************************************************************)
(* What two requests at one product leave behind, and what a step keeps.   *)
(***************************************************************************)
LEMMA MeetingsAreSeen ==
  ASSUME Observe, NEW c \in Callers, NEW d \in Callers, c # d,
         NEW p \in Products,
         Works(c)', Works(d)', Item(c)' = p, Item(d)' = p
  PROVE  p \in overlapped'
<1> DEFINE A == {e \in Callers : Works(e)' /\ Item(e)' = p}
<1>1. A \subseteq Callers /\ c \in A /\ d \in A
  OBVIOUS
<1>2. IsFiniteSet(A) /\ Cardinality(A) \in Nat
  BY <1>1, BusinessTypesAssumption, FS_Subset, FS_CardinalityType
<1>3. Cardinality(A) > 1
  <2>1. A # {} /\ \A x : A # {x}
    BY <1>1
  <2> HIDE DEF A
  <2>2. Cardinality(A) # 0
    BY <1>2, <2>1, FS_EmptySet
  <2>3. Cardinality(A) # 1
    BY <1>2, <2>1, FS_Singleton, Zenon
  <2>4. QED
    BY <1>2, <2>2, <2>3
<1>4. At(p)' = A
  BY DEF At
<1> HIDE DEF A
<1>5. QED
  BY <1>3, <1>4 DEF Observe

LEMMA CountsStay ==
  ASSUME count \in Counts, Step
  PROVE  count' \in Counts
<1>1. count.requests \in 0 .. MaxRequests /\ count.faults \in 0 .. MaxFaults
      /\ MaxRequests \in Nat /\ MaxFaults \in Nat
  BY BusinessTypesAssumption DEF Counts
<1>2. ASSUME count.requests < MaxRequests,
             count' = [count EXCEPT !.requests = @ + 1]
      PROVE  count' \in Counts
  BY <1>1, <1>2 DEF Counts
<1>3. ASSUME count.faults < MaxFaults,
             count' = [count EXCEPT !.faults = @ + 1]
      PROVE  count' \in Counts
  BY <1>1, <1>3 DEF Counts
<1>4. PICK c \in Callers :
        \/ AssignBusinessTypes(c) \/ RemoveBusinessType(c) \/ BulkAssign(c)
        \/ AutoMatch(c) \/ RequestStep(c) \/ StatementFails(c)
  BY DEF Step
<1>5. CASE RequestStep(c)
  <2>1. count' = count
    BY <1>5, Zenon DEF RequestStep, SaveBusinessTypes, DeleteTypes,
       DeleteResumes, InsertType, Deadlocked, Commit, RemoveRow, RemoveResumes, Removes,
       ReadTypes, Propose, Confirm
  <2>2. QED
    BY <2>1, Zenon
<1>6. CASE StatementFails(c)
  BY <1>3, <1>6 DEF StatementFails
<1>7. CASE AssignBusinessTypes(c) \/ RemoveBusinessType(c) \/ BulkAssign(c)
           \/ AutoMatch(c)
  <2>1. \E m : Request(c, m)
    BY <1>7 DEF AssignBusinessTypes, RemoveBusinessType, BulkAssign, AutoMatch
  <2>2. QED
    BY <1>2, <2>1 DEF Request
<1>8. QED
  BY <1>4, <1>5, <1>6, <1>7

(* The memories after a step.                                              *)
LEMMA MemoriesStay ==
  ASSUME Inv, NEW c \in Callers, Kind(c)
  PROVE  /\ mem' \in [Callers -> Memory]
         /\ \A d \in Callers : Fill(mem'[d])
<1>1. ASSUME NEW m \in Memory, Turn(c, m)
      PROVE  /\ mem' \in [Callers -> Memory]
             /\ \A d \in Callers : Fill(mem'[d])
  BY <1>1 DEF Inv, Turn
<1>2. ASSUME NEW m \in Memory, NEW new, NEW want, NEW rows,
             Write(c, m, rows, new, want)
      PROVE  /\ mem' \in [Callers -> Memory]
             /\ \A d \in Callers : Fill(mem'[d])
  <2> DEFINE f == [mem EXCEPT ![c] = m]
             p == Item(c)
  <2>1. /\ f \in [Callers -> Memory]
        /\ \A d \in Callers : Fill(f[d])
    BY <1>2 DEF Inv, Write
  <2>2. mem' = Gone(p, rows, f)
    BY <1>2 DEF Write
  <2> HIDE DEF f, p
  <2>3. ASSUME NEW d \in Callers
        PROVE  LET n == [f[d] EXCEPT !.awaited = @ \ rows]
               IN  Fill(n) /\ n \in Memory
    <3> DEFINE e == f[d]
               A == e.awaited \ rows
               n == [e EXCEPT !.awaited = A]
    <3>1. Fill(e) /\ e \in Memory
      BY <2>1
    <3> HIDE DEF e
    <3>2. A \in SUBSET Codes
      BY <3>1 DEF Memory
    <3> HIDE DEF A
    <3>3. n \in Memory
      BY <3>1, <3>2 DEF Memory
    <3>4. Fill(n)
      BY <3>1, <3>3 DEF Memory, Fill
    <3>5. QED
      BY <3>3, <3>4 DEF A, e
  <2>4. mem' = [d \in Callers |->
                  IF f[d].todo # << >> /\ Head(f[d].todo) = p
                  THEN [f[d] EXCEPT !.awaited = @ \ rows] ELSE f[d]]
    BY <2>2 DEF Gone
  <2>5. ASSUME NEW d \in Callers
        PROVE  Fill(mem'[d]) /\ mem'[d] \in Memory
    <3>1. mem'[d] = f[d] \/ mem'[d] = [f[d] EXCEPT !.awaited = @ \ rows]
      BY <2>4
    <3>2. QED
      BY <2>1, <2>3, <3>1
  <2>6. QED
    BY <2>4, <2>5
<1>3. QED
  BY <1>1, <1>2 DEF Kind

(* A write leaves of each memory what it was, or what it becomes, but for  *)
(* the rows that are waited for.                                           *)
LEMMA WrittenMemories ==
  ASSUME Inv, NEW c \in Callers, NEW m, NEW rows, NEW new, NEW want,
         Write(c, m, rows, new, want), NEW d \in Callers
  PROVE  LET e == IF d = c THEN m ELSE mem[d]
         IN  /\ mem'[d].pc = e.pc /\ mem'[d].todo = e.todo
             /\ mem'[d].code = e.code /\ mem'[d].left = e.left
             /\ mem'[d].deleted = e.deleted /\ mem'[d].inserted = e.inserted
<1> DEFINE e == IF d = c THEN m ELSE mem[d]
           f == [mem EXCEPT ![c] = m]
           p == Item(c)
<1>1. m \in Memory /\ mem \in [Callers -> Memory]
  BY DEF Inv, Write, Fill
<1>2. e \in Memory /\ f[d] = e
  BY <1>1
<1>3. mem' = Gone(p, rows, f)
  BY DEF Write
<1> HIDE DEF e, f, p
<1>4. mem'[d] = IF f[d].todo # << >> /\ Head(f[d].todo) = p
                THEN [f[d] EXCEPT !.awaited = @ \ rows] ELSE f[d]
  BY <1>3 DEF Gone
<1>5. mem'[d] = e \/ mem'[d] = [e EXCEPT !.awaited = @ \ rows]
  BY <1>2, <1>4
<1>6. /\ mem'[d].pc = e.pc /\ mem'[d].todo = e.todo
      /\ mem'[d].code = e.code /\ mem'[d].left = e.left
      /\ mem'[d].deleted = e.deleted /\ mem'[d].inserted = e.inserted
  BY <1>2, <1>5 DEF Memory
<1>7. QED
  BY <1>6 DEF e

(* The tables after a step, and the order in which they were changed.      *)
LEMMA TablesStay ==
  ASSUME Inv, Observe, NEW c \in Callers, Kind(c)
  PROVE  Tables' /\ AppliedInOrder'
<1>1. overlapped \subseteq overlapped' /\ overlapped' \subseteq Products
  BY DEF Observe, Inv, Tables
<1>2. ASSUME UNCHANGED <<types, ideal>>
      PROVE  Tables' /\ AppliedInOrder'
  BY <1>1, <1>2 DEF Inv, Tables, AppliedInOrder
<1>3. ASSUME NEW m, NEW rows, NEW new, NEW want, Write(c, m, rows, new, want)
      PROVE  Tables' /\ AppliedInOrder'
  <2>1. Item(c) \in Products
    BY <1>3, ItemIs DEF Write
  <2>2. /\ types' = [types EXCEPT ![Item(c)] = new]
        /\ ideal' = [ideal EXCEPT ![Item(c)] = want]
        /\ new \in SUBSET Codes /\ want \in SUBSET Codes
        /\ Item(c) \notin overlapped => new = want
    BY <1>3 DEF Write, Alone
  <2>3. Tables'
    BY <1>1, <2>1, <2>2 DEF Inv, Tables
  <2>4. ASSUME NEW p \in Products, p \notin overlapped'
        PROVE  types'[p] = ideal'[p]
    <3>1. p \notin overlapped /\ types[p] = ideal[p]
      BY <1>1, <2>4 DEF Inv, AppliedInOrder
    <3>2. types \in [Products -> SUBSET Codes] /\ ideal \in [Products -> SUBSET Codes]
      BY DEF Inv, Tables
    <3>3. QED
      BY <2>1, <2>2, <3>1, <3>2
  <2>5. QED
    BY <2>3, <2>4 DEF AppliedInOrder
<1>4. QED
  BY <1>2, <1>3 DEF Kind, Turn

(* Two requests that are at one product have met there.                    *)
LEMMA AloneStays ==
  ASSUME Observe, mem' \in [Callers -> Memory]
  PROVE  AloneInv'
<1> SUFFICES ASSUME NEW c \in Callers, NEW d \in Callers, c # d,
                    Works(c)', Item(c)' \notin overlapped',
                    Works(d)', Item(d)' = Item(c)'
             PROVE  FALSE
  BY DEF AloneInv, Alone
<1>1. PICK p : p = Head(mem'[c].todo)
  OBVIOUS
<1>2. Item(c)' = p /\ Item(d)' = p
  BY <1>1 DEF Item
<1>3. mem'[c].todo \in Seq(Products) /\ mem'[c].todo # << >>
  BY DEF Memory, Works
<1>4. p \in Products
  BY <1>1, <1>3, HeadAndTail
<1>5. QED
  BY <1>2, <1>4, MeetingsAreSeen

LEMMA TxStays ==
  ASSUME Inv, Observe, NEW c \in Callers, Kind(c)
  PROVE  TxInv'
<1>1. overlapped \subseteq overlapped'
  BY DEF Observe
<1>2. mem \in [Callers -> Memory]
  BY DEF Inv
<1> SUFFICES ASSUME NEW d \in Callers, mem'[d].todo # << >>,
                    Head(mem'[d].todo) \notin overlapped'
             PROVE  Agrees(mem'[d], types'[Head(mem'[d].todo)])
  BY DEF TxInv, Alone, Works, Item
<1>3. ASSUME NEW m, Turn(c, m)
      PROVE  Agrees(mem'[d], types'[Head(mem'[d].todo)])
  <2>1. CASE d = c
    <3>1. mem'[d] = m
      BY <1>2, <1>3, <2>1 DEF Turn
    <3>2. QED
      BY <1>3, <3>1 DEF Turn
  <2>2. CASE d # c
    <3>1. mem'[d] = mem[d] /\ types' = types
      BY <1>2, <1>3, <2>2 DEF Turn
    <3>2. Alone(d)
      BY <1>1, <3>1 DEF Alone, Works, Item
    <3>3. QED
      BY <3>1, <3>2 DEF Inv, TxInv, Item
  <2>3. QED
    BY <2>1, <2>2
<1>4. ASSUME NEW m, NEW rows, NEW new, NEW want, Write(c, m, rows, new, want)
      PROVE  Agrees(mem'[d], types'[Head(mem'[d].todo)])
  <2>1. CASE d = c
    <3>1. mem'[d].pc = m.pc
      BY <1>4, <2>1, WrittenMemories
    <3>2. m.pc \in {"idle", "read"}
      BY <1>4 DEF Write
    <3>3. QED
      BY <3>1, <3>2 DEF Agrees
  <2>2. CASE d # c
    <3>1. /\ mem'[d].pc = mem[d].pc /\ mem'[d].todo = mem[d].todo
          /\ mem'[d].code = mem[d].code /\ mem'[d].left = mem[d].left
          /\ mem'[d].deleted = mem[d].deleted
          /\ mem'[d].inserted = mem[d].inserted
      BY <1>4, <2>2, WrittenMemories
    <3>2. Alone(d) /\ Head(mem'[d].todo) = Item(d)
      BY <1>1, <3>1 DEF Alone, Works, Item
    <3>3. Item(d) # Item(c)
      BY <1>4, <2>2, <3>2 DEF Inv, AloneInv, Write
    <3>4. types'[Item(d)] = types[Item(d)]
      <4>1. types \in [Products -> SUBSET Codes] /\ Item(d) \in Products
        BY <3>2, ItemIs DEF Inv, Tables, Alone
      <4>2. types' = [types EXCEPT ![Item(c)] = new]
        BY <1>4 DEF Write
      <4>3. QED
        BY <3>3, <4>1, <4>2
    <3>5. Agrees(mem[d], types[Item(d)])
      BY <3>2 DEF Inv, TxInv
    <3>6. QED
      BY <3>1, <3>2, <3>4, <3>5 DEF Agrees
  <2>3. QED
    BY <2>1, <2>2
<1>5. QED
  BY <1>3, <1>4 DEF Kind

LEMMA InitHolds == Init => Inv
<1> SUFFICES ASSUME Init  PROVE Inv
  OBVIOUS
<1>1. types \in [Products -> SUBSET Codes] /\ ideal = types /\ overlapped = {}
  BY BusinessTypesAssumption DEF Init, AssignmentToApply
<1>2. mem = [c \in Callers |-> Idle] /\ Idle \in Memory
  BY IdleIs DEF Init, Fill
<1>3. \A c \in Callers : mem[c] = Idle /\ ~Works(c)
  BY <1>2 DEF Works, Idle
<1>4. \A c \in Callers : Fill(mem[c])
  BY <1>3, IdleIs
<1>5. AloneInv /\ TxInv /\ AppliedInOrder
  BY <1>1, <1>3 DEF AloneInv, TxInv, Alone, AppliedInOrder
<1>6. count \in Counts
  BY BusinessTypesAssumption DEF Init, Counts
<1>7. QED
  BY <1>1, <1>2, <1>4, <1>5, <1>6 DEF Inv, Tables

LEMMA StepKeeps == Inv /\ [Next]_vars => Inv'
<1>1. ASSUME Inv, Step, Observe  PROVE Inv'
  <2>1. Kept
    BY <1>1 DEF Observe, Kept
  <2>2. PICK c \in Callers : Kind(c)
    BY <1>1, <2>1, StepKinds
  <2>3. /\ mem' \in [Callers -> Memory]
        /\ \A d \in Callers : Fill(mem'[d])
    BY <1>1, <2>2, MemoriesStay
  <2>4. count' \in Counts
    BY <1>1, CountsStay DEF Inv
  <2>5. Tables' /\ AppliedInOrder' /\ AloneInv' /\ TxInv'
    BY <1>1, <2>2, <2>3, TablesStay, AloneStays, TxStays
  <2>6. QED
    BY <2>3, <2>4, <2>5 DEF Inv, Fill
<1>2. ASSUME Inv, UNCHANGED vars  PROVE Inv'
  BY <1>2 DEF vars, Inv, Tables, AppliedInOrder, AloneInv, Alone, Works, Item,
     TxInv, Agrees, Fill, Counts
<1>3. QED
  BY <1>1, <1>2 DEF Next

LEMMA Inductive == Spec => []Inv
BY InitHolds, StepKeeps, PTL DEF Spec
-----------------------------------------------------------------------------
(* Every variable keeps its shape.                                         *)
THEOREM TypeCorrect == Spec => []TypeOK
<1>1. Inv => TypeOK
  BY DEF Inv, Tables, Counts, TypeOK
<1>2. QED
  BY <1>1, Inductive, PTL

(* On a product where no two requests ever met, the rows are those that    *)
(* the requests ask for, each of them taken as one step: the transaction   *)
(* of SaveBusinessTypes, and what BulkAssign has read before it, hide      *)
(* nothing from a request that is alone.                                   *)
THEOREM InOrder == Spec => []AppliedInOrder
<1>1. Inv => AppliedInOrder
  BY DEF Inv
<1>2. QED
  BY <1>1, Inductive, PTL

(* Whatever fails, and however the requests meet, only one that removes a  *)
(* type leaves a product without any: a replacement that deletes every row *)
(* has inserted another one by the time it commits.                        *)
THEOREM OnlyRemovalsEmpty == Spec => NeverEmptied
<1> DEFINE Act == \A p \in Products :
             types[p] # {} /\ types'[p] = {} =>
               \E c \in Callers : /\ mem[c].pc \in {"remove", "awaitRemove"}
                                  /\ mem'[c].pc = "idle"
<1>1. ASSUME Inv, Step, Observe, NEW p \in Products,
             types[p] # {}, types'[p] = {}
      PROVE  \E c \in Callers : /\ mem[c].pc \in {"remove", "awaitRemove"}
                                /\ mem'[c].pc = "idle"
  <2>1. Kept
    BY <1>1 DEF Observe, Kept
  <2>2. PICK c \in Callers : Kind(c)
    BY <1>1, <2>1, StepKinds
  <2>3. types' # types
    BY <1>1
  <2>4. PICK m, rows, new, want : Write(c, m, rows, new, want)
    BY <2>2, <2>3 DEF Kind, Turn
  <2>5. p = Item(c) /\ new = {}
    <3>1. types \in [Products -> SUBSET Codes]
      BY <1>1 DEF Inv, Tables
    <3>2. types' = [types EXCEPT ![Item(c)] = new]
      BY <2>4 DEF Write
    <3>3. QED
      BY <1>1, <3>1, <3>2
  <2>6. mem[c].pc \in {"remove", "awaitRemove"} /\ m = Idle
    BY <1>1, <2>4, <2>5 DEF Write
  <2>7. mem'[c].pc = m.pc
    BY <1>1, <2>4, WrittenMemories
  <2>8. QED
    BY <2>6, <2>7 DEF Idle
<1>2. Inv /\ [Next]_vars => [Act]_vars
  BY <1>1 DEF Next
<1>3. QED
  BY <1>2, Inductive, PTL DEF Spec, NeverEmptied
=============================================================================
