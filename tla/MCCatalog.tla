------------------------------ MODULE MCCatalog ------------------------------
(* Small instances of Catalog for the model checker.                       *)
EXTENDS Catalog, TLC

CONSTANTS k1

OneKey == [i \in Items |-> k1]
Cents  == [p \in Prices |-> p]

(* Workers are interchangeable: no definition tells one from another.      *)
WorkersAlike == Permutations(Workers)
=============================================================================
