------------------------------- MODULE MCTraffic -------------------------------
(* Model-checking instance of InterfaceTraffic. *)
EXTENDS InterfaceTraffic, TLC

\* Two devices that have not restarted use the same name.
MCInit == Init /\ \A a, b \in Addresses : device[a].name = device[b].name
MCSpec == MCInit /\ [][Next]_vars

\* The names of interfaces and the addresses are interchangeable.
Symmetry ==
    {[x \in Names \cup Addresses |-> IF x \in Names THEN f[x] ELSE g[x]] :
        f \in Permutations(Names), g \in Permutations(Addresses)}
=============================================================================
