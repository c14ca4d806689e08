----------------------------- MODULE MCIncidents -----------------------------
(* Model-checking instance of IncidentLifecycle and of its refinement. *)
EXTENDS IncidentRefinement, TLC

\* Two addresses of the object are interchangeable.
SameAddresses == Permutations(Addresses)
=============================================================================
