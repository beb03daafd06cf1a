---------------------------- MODULE JobLifecycle ----------------------------
(***************************************************************************)
(* What the job queue promises, without tables, workers or requests: a job *)
(* is queued once, begins executing at most once, and never returns to the *)
(* queue.  It leaves the queue by beginning or by being withdrawn, which a *)
(* cancel does, and a claim that was committed unheard; it stops executing *)
(* when its worker finishes or dies with it.                               *)
(***************************************************************************)
CONSTANT Jobs
VARIABLE phase

Phases == {"absent", "queued", "executing", "retired"}

Init == phase = [j \in Jobs |-> "absent"]

Move(S, from, to) ==
  /\ \A j \in S : phase[j] = from
  /\ phase' = [j \in Jobs |-> IF j \in S THEN to ELSE phase[j]]

Enqueue(j)  == Move({j}, "absent", "queued")
Begin(j)    == Move({j}, "queued", "executing")
Withdraw(j) == Move({j}, "queued", "retired")
(* One worker finishing, or all of them dying with the process.            *)
Retire(S)   == Move(S, "executing", "retired")

Next == \/ \E j \in Jobs : Enqueue(j) \/ Begin(j) \/ Withdraw(j)
        \/ \E S \in SUBSET Jobs : Retire(S)

Spec == Init /\ [][Next]_phase
=============================================================================
