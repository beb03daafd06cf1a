---------------------------- MODULE Publication ----------------------------
(***************************************************************************)
(* What synchronisation with PIM promises, without callers, copies or      *)
(* failures: an item is marked as synchronised only once PIM has its       *)
(* product, and neither is ever taken back.  Key gives the product, by     *)
(* name and brand or by EAN, that PIM has for an item; items of different  *)
(* sources may share one.                                                  *)
(***************************************************************************)
CONSTANTS Items, Keys, Key
VARIABLES published, marked

Init == published = {} /\ marked = {}

Publish(k) == published' = published \cup {k} /\ UNCHANGED marked
Mark(i)    == /\ Key[i] \in published
              /\ marked' = marked \cup {i} /\ UNCHANGED published

Next == (\E k \in Keys : Publish(k)) \/ (\E i \in Items : Mark(i))

Spec == Init /\ [][Next]_<<published, marked>>
=============================================================================
