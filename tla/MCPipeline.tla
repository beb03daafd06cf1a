----------------------------- MODULE MCPipeline -----------------------------
(* A small instance of Pipeline for the model checker.                     *)
EXTENDS Pipeline, TLC

CONSTANTS k1, s1, t1

OneKey    == [i \in Items |-> k1]
Cents     == [p \in Prices |-> p]
OneTenant == [s \in Sources |-> t1]
NoPages   == [s \in Sources |-> 0]
OneSource == [i \in Items |-> s1]

(* Listings with a price; of one of them only, what the sync needs.        *)
Priced == {[price |-> p, fields |-> {}] : p \in Prices}

(* Workers are interchangeable, and so are prices: no definition tells one *)
(* from another.                                                           *)
Alike == Permutations(Workers) \cup Permutations(Prices)
=============================================================================
