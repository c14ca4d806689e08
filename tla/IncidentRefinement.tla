------------------------- MODULE IncidentRefinement -------------------------
(***************************************************************************)
(* IncidentLifecycle keeps the promise of IncidentPromise: the rows of the *)
(* table of incidents are its incidents, the letters counted in a row its  *)
(* letters, and the query for the newest open row its current incident.    *)
(***************************************************************************)
EXTENDS IncidentLifecycle

IncidentStreams ==
    {[kind |-> "availability", source |-> Primary]} \cup
    [kind: {"check", "check_tls"}, source: Checks]

CurrentIncident(L, s) ==
    LET open == OpenIds(L, s.kind, s.source)
    IN  CHOOSE i \in open \cup {0} : \A j \in open : j <= i

Abstract == INSTANCE IncidentPromise WITH
    Streams   <- IncidentStreams,
    Incidents <- Ids,
    None      <- 0,
    current   <- [s \in IncidentStreams |-> CurrentIncident(ledger, s)],
    spent     <- Ids \ FreeIds(ledger),
    letters   <- [i \in Ids |-> [opening    |-> ledger[i].opened,
                                 escalation |-> ledger[i].escalated,
                                 recovery   |-> ledger[i].recovered]],
    muted     <- target.suppressed,
    hand      <- ops

\* Every behaviour of the checks, of the scheduler and of the administrator is
\* one the promise allows: an episode of a stream is one incident, announced
\* while it lasts and recovered in the step that ends it; an incident that is
\* over never speaks or opens again; an announced one never ends without its
\* recovery letter unless letters are muted or the administrator ended it.
KeepsPromise == Abstract!Promise
=============================================================================
