----------------------------- MODULE MCScheduler -----------------------------
(* Model-checking instance of CheckScheduler: two objects of one site.       *)
EXTENDS CheckScheduler

CONSTANTS s1, t1, t2

TwoObjects == {t1, t2}
SameSite == [t \in TwoObjects |-> s1]

\* The liveness instance starts with t1 as the entry of its site and both UP.
EntryInit == /\ Init
             /\ entry = [s \in Sites |-> t1]
             /\ world = [t \in Targets |-> "up"]
EntryFairSpec == EntryInit /\ [][Next]_vars /\ Fairness
=============================================================================
