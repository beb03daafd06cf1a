----------------------------- MODULE MCScraping -----------------------------
(* Small instances of Scraping for the model checker.                      *)
EXTENDS Scraping, TLC

CONSTANTS s1, s2, t1, t2

OneTenant  == [s \in Sources |-> t1]
TwoTenants == [s \in Sources |-> IF s = s1 THEN t1 ELSE t2]
NoPages    == [s \in Sources |-> 0]
MixedPages == [s \in Sources |-> IF s = s1 THEN 2 ELSE 0]

(* Workers are interchangeable: no definition tells one from another.      *)
WorkerSymmetry == Permutations(Workers)
=============================================================================
