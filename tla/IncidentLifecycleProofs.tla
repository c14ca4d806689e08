----------------------- MODULE IncidentLifecycleProofs -----------------------
(***************************************************************************)
(* Safety of the incidents of one object for every set of service checks,  *)
(* every number of overlapping runs, all thresholds and all bounds.  What  *)
(* a step does to the table of incidents is stated once per operator, for  *)
(* an arbitrary table; the steps of the system then only say which check   *)
(* they touch and that it is watched.                                      *)
(*                                                                         *)
(* The second half shows that IncidentLifecycle implements IncidentPromise.*)
(* What an operator does to the table is stated there as well: which rows  *)
(* it may change (Only) and what becomes of the episode of one stream      *)
(* (Moved).  A save is one such move, or two of different streams;         *)
(* everything the administrator does only ends episodes.  The same lemmas  *)
(* give that a confirmed outage and the unstable-link marker exclude each  *)
(* other.  Last, the history: results of a check are in the order of their *)
(* versions, so that a full series under the present version is its end.   *)
(***************************************************************************)
EXTENDS IncidentRefinement, SequenceTheorems, FiniteSetTheorems, WellFoundedInduction,
        TLAPS

ServiceKinds == {"check", "check_tls"}

\* A row that is open belongs to the primary check or to a service check, and
\* its letters follow the two flags.
RowOK(row) ==
    /\ row \in Row
    /\ row.status = "open" =>
          \/ row.source = Primary /\ row.kind = "availability"
          \/ row.source \in Checks /\ row.kind \in ServiceKinds
    /\ row.opened = (IF row.openTried THEN 1 ELSE 0)
    /\ row.recovered = (IF row.recoveryTried THEN 1 ELSE 0)
    /\ row.recoveryTried => row.openTried /\ row.status \in {"resolved", "deleted"}

LedgerOK(L) ==
    /\ L \in [Ids -> Row]
    /\ \A i \in Ids : RowOK(L[i])
    /\ \A i, j \in Ids :
          /\ L[i].status = "open" /\ L[j].status = "open"
          /\ L[i].kind = L[j].kind /\ L[i].source = L[j].source
          => i = j

\* Every open row of M was open in L, or is of the given kind and source.
OpensOnly(L, M, kinds, s) ==
    \A i \in Ids : M[i].status = "open" =>
        \/ /\ L[i].status = "open"
           /\ L[i].kind = M[i].kind /\ L[i].source = M[i].source
        \/ M[i].kind \in kinds /\ M[i].source = s

-----------------------------------------------------------------------------
(* The operators on the table. *)

\* One row is replaced: it stays what it was, is closed, or is the only open
\* one of its kind and source.
LEMMA ReplaceRow ==
    ASSUME NEW L, LedgerOK(L), NEW n, NEW row, n \in Ids => RowOK(row),
           NEW kinds, NEW s,
           /\ n \in Ids /\ row.status = "open" =>
                 \/ /\ L[n].status = "open"
                    /\ L[n].kind = row.kind /\ L[n].source = row.source
                 \/ /\ row.kind \in kinds /\ row.source = s
                    /\ OpenIds(L, row.kind, row.source) = {}
    PROVE  LET M == [L EXCEPT ![n] = row]
           IN  LedgerOK(M) /\ OpensOnly(L, M, kinds, s)
  <1> DEFINE M == [L EXCEPT ![n] = row]
  <1>1. \A i \in Ids : M[i] = IF i = n THEN row ELSE L[i]
    BY DEF LedgerOK
  <1>2. M \in [Ids -> Row]
    BY DEF LedgerOK, RowOK
  <1> HIDE DEF M
  <1>3. \A i \in Ids : RowOK(M[i])
    BY <1>1 DEF LedgerOK
  <1>4. OpensOnly(L, M, kinds, s)
    BY <1>1 DEF OpensOnly
  <1>5. ASSUME NEW i \in Ids, NEW j \in Ids,
               M[i].status = "open", M[j].status = "open",
               M[i].kind = M[j].kind, M[i].source = M[j].source
        PROVE  i = j
    BY <1>1, <1>5 DEF LedgerOK, OpenIds
  <1>6. LedgerOK(M)
    BY <1>2, <1>3, <1>5 DEF LedgerOK
  <1> QED
    BY <1>4, <1>6 DEF M

LEMMA AnnouncedRow ==
    ASSUME NEW row, RowOK(row), ~row.openTried
    PROVE  LET new == [row EXCEPT !.openTried = TRUE, !.opened = row.opened + 1]
           IN  RowOK(new) /\ new.status = row.status
               /\ new.kind = row.kind /\ new.source = row.source
  <1> DEFINE n == row.opened + 1
             new == [row EXCEPT !.openTried = TRUE, !.opened = n]
  <1>1. row \in Row /\ n \in Nat /\ n = 1 /\ ~row.recoveryTried
    BY DEF RowOK, Row
  <1> HIDE DEF n
  <1>2. /\ new \in Row /\ new.status = row.status
        /\ new.kind = row.kind /\ new.source = row.source
        /\ new.openTried = TRUE /\ new.opened = n
        /\ new.recoveryTried = row.recoveryTried /\ new.recovered = row.recovered
    BY <1>1 DEF Row
  <1> HIDE DEF new
  <1>3. RowOK(new)
    BY <1>1, <1>2 DEF RowOK
  <1> QED
    BY <1>2, <1>3 DEF new, n

LEMMA OpeningStep ==
    ASSUME NEW L, LedgerOK(L), NEW n, NEW quiet, NEW kinds, NEW s
    PROVE  LET M == OpeningNotification(L, n, quiet)
           IN  LedgerOK(M) /\ OpensOnly(L, M, kinds, s)
  <1>1. CASE quiet \/ L[n].openTried
    BY <1>1 DEF OpeningNotification, OpensOnly
  <1>2. CASE ~(quiet \/ L[n].openTried)
    <2> DEFINE row == [L[n] EXCEPT !.openTried = TRUE, !.opened = L[n].opened + 1]
    <2>1. OpeningNotification(L, n, quiet) = [L EXCEPT ![n] = row]
      <3>1. L \in [Ids -> Row]
        BY DEF LedgerOK
      <3> QED
        BY <1>2, <3>1 DEF OpeningNotification, Row
    <2>2. ASSUME n \in Ids
          PROVE  RowOK(row) /\ row.status = L[n].status
                 /\ row.kind = L[n].kind /\ row.source = L[n].source
      BY <1>2, <2>2, AnnouncedRow DEF LedgerOK
    <2>3. n \in Ids => RowOK(row)
      BY <2>2
    <2>4. n \in Ids /\ row.status = "open" =>
             L[n].status = "open" /\ L[n].kind = row.kind /\ L[n].source = row.source
      BY <2>2
    <2> HIDE DEF row
    <2>5. LET M == [L EXCEPT ![n] = row] IN LedgerOK(M) /\ OpensOnly(L, M, kinds, s)
      BY <2>3, <2>4, ReplaceRow
    <2> QED
      BY <2>1, <2>5
  <1> QED
    BY <1>1, <1>2

LEMMA RecoveredRow ==
    ASSUME NEW row, RowOK(row), row.status = "resolved",
           row.openTried, ~row.recoveryTried
    PROVE  LET new == [row EXCEPT !.recoveryTried = TRUE, !.recovered = row.recovered + 1]
           IN  RowOK(new) /\ new.status = "resolved"
  <1> DEFINE n == row.recovered + 1
             new == [row EXCEPT !.recoveryTried = TRUE, !.recovered = n]
  <1>1. row \in Row /\ n \in Nat /\ n = 1
    BY DEF RowOK, Row
  <1> HIDE DEF n
  <1>2. /\ new \in Row /\ new.status = row.status
        /\ new.openTried = row.openTried /\ new.opened = row.opened
        /\ new.recoveryTried = TRUE /\ new.recovered = n
    BY <1>1 DEF Row
  <1> HIDE DEF new
  <1>3. RowOK(new)
    BY <1>1, <1>2 DEF RowOK
  <1> QED
    BY <1>2, <1>3 DEF new, n

LEMMA ClosedRow ==
    ASSUME NEW row, RowOK(row), NEW status \in {"resolved", "deleted"}
    PROVE  LET new == [row EXCEPT !.status = status]
           IN  RowOK(new) /\ new.status = status
  BY DEF RowOK, Row

LEMMA ResolveStep ==
    ASSUME NEW L, LedgerOK(L), NEW n, NEW quiet, NEW kinds, NEW s
    PROVE  LET M == Resolve(L, n, quiet)
           IN  LedgerOK(M) /\ OpensOnly(L, M, kinds, s)
  <1> DEFINE closed == [L[n] EXCEPT !.status = "resolved"]
             told == [closed EXCEPT !.recoveryTried = TRUE,
                                    !.recovered = closed.recovered + 1]
             C == [L EXCEPT ![n] = closed]
  <1>1. n \in Ids => RowOK(closed) /\ closed.status = "resolved"
    BY ClosedRow DEF LedgerOK
  <1>2. LedgerOK(C) /\ OpensOnly(L, C, kinds, s)
    <2> HIDE DEF closed
    <2>1. n \in Ids => RowOK(closed) /\ closed.status # "open"
      BY <1>1
    <2> QED
      BY <2>1, ReplaceRow
  <1>3. [L EXCEPT ![n].status = "resolved"] = C
    BY DEF LedgerOK, Row
  <1>4. CASE quiet \/ ~C[n].openTried \/ C[n].recoveryTried
    BY <1>2, <1>3, <1>4 DEF Resolve, RecoveryNotification
  <1>5. CASE ~(quiet \/ ~C[n].openTried \/ C[n].recoveryTried)
    <2>1. n \in Ids => RowOK(told) /\ told.status # "open"
      <3> SUFFICES ASSUME n \in Ids PROVE RowOK(told) /\ told.status # "open"
        OBVIOUS
      <3>1. C[n] = closed
        BY DEF LedgerOK
      <3> HIDE DEF closed, C
      <3> QED
        BY <1>1, <1>5, <3>1, RecoveredRow
    <2>2. Resolve(L, n, quiet) = [L EXCEPT ![n] = told]
      <3>1. C \in [Ids -> Row]
        BY <1>2 DEF LedgerOK
      <3>2. RecoveryNotification(C, n, quiet) =
               [C EXCEPT ![n] = [C[n] EXCEPT !.recoveryTried = TRUE,
                                             !.recovered = C[n].recovered + 1]]
        <4> HIDE DEF C
        <4> QED
          BY <1>5, <3>1 DEF RecoveryNotification, Row
      <3>3. Resolve(L, n, quiet) = RecoveryNotification(C, n, quiet)
        BY <1>3 DEF Resolve
      <3>4. n \in Ids => C[n] = closed
        BY DEF LedgerOK
      <3>5. L \in [Ids -> Row]
        BY DEF LedgerOK
      <3> HIDE DEF closed
      <3> QED
        BY <3>2, <3>3, <3>4, <3>5
    <2> HIDE DEF told
    <2>3. LET M == [L EXCEPT ![n] = told] IN LedgerOK(M) /\ OpensOnly(L, M, kinds, s)
      BY <2>1, ReplaceRow
    <2> QED
      BY <2>2, <2>3
  <1> QED
    BY <1>4, <1>5

LEMMA Chain ==
    ASSUME NEW L, NEW M, NEW N, NEW kinds, NEW s,
           OpensOnly(L, M, kinds, s), OpensOnly(M, N, kinds, s)
    PROVE  OpensOnly(L, N, kinds, s)
  BY DEF OpensOnly

\* The kinds an incident of a check may have.
Legit(kind, s) ==
    \/ kind = "availability" /\ s = Primary
    \/ kind \in ServiceKinds /\ s \in Checks

LEMMA RaiseStep ==
    ASSUME NEW L, LedgerOK(L), NEW kind, NEW s, Legit(kind, s),
           NEW severity \in {"none", "warning", "critical"}, NEW quiet,
           OpenIds(L, kind, s) = {}
    PROVE  LET M == Raise(L, kind, s, severity, quiet)
           IN  LedgerOK(M) /\ OpensOnly(L, M, {kind}, s)
  <1> DEFINE row == [EmptyRow EXCEPT !.status = "open", !.kind = kind,
                                     !.source = s, !.severity = severity]
             M == Insert(L, kind, s, severity)
  <1>1. /\ row \in Row /\ row.status = "open" /\ row.kind = kind /\ row.source = s
        /\ row.openTried = FALSE /\ row.recoveryTried = FALSE
        /\ row.opened = 0 /\ row.recovered = 0
    BY DEF EmptyRow, Row, Legit, ServiceKinds, Sources
  <1>2. M = [L EXCEPT ![NextId(L)] = row]
    BY DEF Insert
  <1> HIDE DEF row
  <1>3. RowOK(row)
    BY <1>1 DEF RowOK, Legit
  <1>4. LedgerOK(M) /\ OpensOnly(L, M, {kind}, s)
    <2>1. row.kind \in {kind} /\ row.source = s /\ OpenIds(L, row.kind, row.source) = {}
      BY <1>1
    <2>2. LET N == [L EXCEPT ![NextId(L)] = row]
          IN  LedgerOK(N) /\ OpensOnly(L, N, {kind}, s)
      BY <1>3, <2>1, ReplaceRow
    <2> QED
      BY <1>2, <2>2
  <1> HIDE DEF M
  <1>5. LET N == OpeningNotification(M, NextId(L), quiet)
        IN  LedgerOK(N) /\ OpensOnly(M, N, {kind}, s)
    BY <1>4, OpeningStep
  <1>6. Raise(L, kind, s, severity, quiet) = OpeningNotification(M, NextId(L), quiet)
    BY DEF Raise, M
  <1> QED
    BY <1>4, <1>5, <1>6, Chain

LEMMA OutcomeStep ==
    ASSUME NEW L, LedgerOK(L), NEW kind, NEW s, Legit(kind, s),
           NEW severity \in {"none", "warning", "critical"},
           NEW status, NEW confirmed \in BOOLEAN, NEW quiet
    PROVE  LET M == ProcessOutcome(L, kind, s, severity, status, confirmed, quiet)
           IN  LedgerOK(M) /\ OpensOnly(L, M, {kind}, s)
  <1> DEFINE M == ProcessOutcome(L, kind, s, severity, status, confirmed, quiet)
             n == Newest(L, kind, s)
  <1>1. \/ M = OpeningNotification(L, n, quiet)
        \/ M = Raise(L, kind, s, severity, quiet) /\ OpenIds(L, kind, s) = {}
        \/ M = Resolve(L, n, quiet)
        \/ M = L
    <2>1. CASE status = "down" /\ HasOpen(L, kind, s)
      BY <2>1 DEF ProcessOutcome
    <2>2. CASE status = "down" /\ ~HasOpen(L, kind, s) /\ confirmed
      BY <2>2 DEF ProcessOutcome, HasOpen
    <2>3. CASE status = "up" /\ HasOpen(L, kind, s)
      BY <2>3 DEF ProcessOutcome
    <2>4. CASE /\ ~(status = "down" /\ HasOpen(L, kind, s))
               /\ ~(status = "down" /\ ~HasOpen(L, kind, s) /\ confirmed)
               /\ ~(status = "up" /\ HasOpen(L, kind, s))
      BY <2>4 DEF ProcessOutcome
    <2> QED
      BY <2>1, <2>2, <2>3, <2>4
  <1> HIDE DEF M, n
  <1>2. CASE M = OpeningNotification(L, n, quiet)
    BY <1>2, OpeningStep DEF M
  <1>3. CASE M = Raise(L, kind, s, severity, quiet) /\ OpenIds(L, kind, s) = {}
    BY <1>3, RaiseStep DEF M
  <1>4. CASE M = Resolve(L, n, quiet)
    BY <1>4, ResolveStep DEF M
  <1>5. CASE M = L
    BY <1>5 DEF M, OpensOnly
  <1> QED
    BY <1>1, <1>2, <1>3, <1>4, <1>5

LEMMA EscalatedRow ==
    ASSUME NEW row, RowOK(row), NEW severity \in {"warning", "critical"}, NEW n \in Nat
    PROVE  LET new == [row EXCEPT !.severity = severity, !.escalated = n]
           IN  RowOK(new) /\ new.status = row.status
               /\ new.kind = row.kind /\ new.source = row.source
  <1> DEFINE new == [row EXCEPT !.severity = severity, !.escalated = n]
  <1>1. row \in Row
    BY DEF RowOK
  <1>2. /\ new \in Row /\ new.status = row.status
        /\ new.kind = row.kind /\ new.source = row.source
        /\ new.openTried = row.openTried /\ new.opened = row.opened
        /\ new.recoveryTried = row.recoveryTried /\ new.recovered = row.recovered
    BY <1>1 DEF Row
  <1> HIDE DEF new
  <1>3. RowOK(new)
    BY <1>2 DEF RowOK
  <1> QED
    BY <1>2, <1>3 DEF new

LEMMA EscalateStep ==
    ASSUME NEW L, LedgerOK(L), NEW n, NEW health \in {"warning", "critical"},
           NEW quiet, NEW kinds, NEW s
    PROVE  LET M == Escalate(L, n, health, quiet)
           IN  LedgerOK(M) /\ OpensOnly(L, M, kinds, s)
  <1> DEFINE count == IF L[n].severity = "warning" /\ health = "critical" /\ ~quiet
                      THEN L[n].escalated + 1 ELSE L[n].escalated
             row == [L[n] EXCEPT !.severity = health, !.escalated = count]
  <1>1. L \in [Ids -> Row]
    BY DEF LedgerOK
  <1>2. n \in Ids => RowOK(L[n]) /\ count \in Nat
    BY <1>1 DEF LedgerOK, Row
  <1>3. Escalate(L, n, health, quiet) = [L EXCEPT ![n] = row]
    BY <1>1 DEF Escalate, Row
  <1> HIDE DEF count
  <1>4. n \in Ids => RowOK(row) /\ row.status = L[n].status
                      /\ row.kind = L[n].kind /\ row.source = L[n].source
    <2> SUFFICES ASSUME n \in Ids
                 PROVE  RowOK(row) /\ row.status = L[n].status
                        /\ row.kind = L[n].kind /\ row.source = L[n].source
      OBVIOUS
    <2>1. RowOK(L[n]) /\ count \in Nat
      BY <1>2
    <2>2. \A r, k : RowOK(r) /\ k \in Nat =>
             LET new == [r EXCEPT !.severity = health, !.escalated = k]
             IN  RowOK(new) /\ new.status = r.status
                 /\ new.kind = r.kind /\ new.source = r.source
      BY EscalatedRow
    <2> QED
      BY <2>1, <2>2
  <1> HIDE DEF row
  <1>5. LET M == [L EXCEPT ![n] = row] IN LedgerOK(M) /\ OpensOnly(L, M, kinds, s)
    BY <1>4, ReplaceRow
  <1> QED
    BY <1>3, <1>5

LEMMA TlsStep ==
    ASSUME NEW L, LedgerOK(L), NEW c \in Checks, NEW health, NEW quiet
    PROVE  LET M == ApplyTlsHealth(L, c, health, quiet)
           IN  LedgerOK(M) /\ OpensOnly(L, M, {"check_tls"}, c)
  <1> DEFINE M == ApplyTlsHealth(L, c, health, quiet)
             n == Newest(L, "check_tls", c)
             bad == health \in {"warning", "critical"}
  <1>1. CASE health = "ok" /\ HasOpen(L, "check_tls", c)
    <2>1. M = Resolve(L, n, quiet)
      BY <1>1 DEF ApplyTlsHealth
    <2> QED
      BY <2>1, ResolveStep
  <1>2. CASE bad /\ ~HasOpen(L, "check_tls", c)
    <2>1. M = Raise(L, "check_tls", c, health, quiet)
      BY <1>2 DEF ApplyTlsHealth
    <2>2. OpenIds(L, "check_tls", c) = {} /\ Legit("check_tls", c)
      BY <1>2 DEF HasOpen, Legit, ServiceKinds
    <2> QED
      BY <1>2, <2>1, <2>2, RaiseStep
  <1>3. CASE bad /\ HasOpen(L, "check_tls", c)
    <2>1. M = Escalate(L, n, health, quiet)
      BY <1>3 DEF ApplyTlsHealth
    <2> QED
      BY <1>3, <2>1, EscalateStep
  <1>4. CASE /\ ~(health = "ok" /\ HasOpen(L, "check_tls", c))
             /\ ~(bad /\ ~HasOpen(L, "check_tls", c))
             /\ ~(bad /\ HasOpen(L, "check_tls", c))
    <2>1. M = L
      BY <1>4 DEF ApplyTlsHealth
    <2> QED
      BY <2>1 DEF OpensOnly
  <1> QED
    BY <1>1, <1>2, <1>3, <1>4

\* Rows are only closed: what is open in M was open in L.
Closes(L, M) ==
    \A i \in Ids : M[i].status = "open" =>
        L[i].status = "open" /\ L[i].kind = M[i].kind /\ L[i].source = M[i].source

Closed(L, ids, status) ==
    [i \in Ids |-> IF i \in ids THEN [L[i] EXCEPT !.status = status] ELSE L[i]]

LEMMA CloseRows ==
    ASSUME NEW L, LedgerOK(L), NEW ids, NEW status \in {"resolved", "deleted"}
    PROVE  /\ LedgerOK(Closed(L, ids, status)) /\ Closes(L, Closed(L, ids, status))
           /\ \A i \in Ids : i \in ids => Closed(L, ids, status)[i].status = status
  <1> DEFINE M == Closed(L, ids, status)
  <1>1. \A i \in Ids : RowOK(M[i]) /\ (i \in ids => M[i].status = status)
                       /\ (i \notin ids => M[i] = L[i])
    BY ClosedRow DEF LedgerOK, Closed
  <1>2. M \in [Ids -> Row]
    BY <1>1 DEF RowOK, Closed
  <1> HIDE DEF M
  <1>3. LedgerOK(M) /\ Closes(L, M)
    BY <1>1, <1>2 DEF LedgerOK, Closes
  <1> QED
    BY <1>1, <1>3 DEF M

LEMMA SilentStep ==
    ASSUME NEW L, LedgerOK(L), NEW c, NEW kinds
    PROVE  LET M == ResolveSilently(L, c, kinds)
           IN  /\ LedgerOK(M) /\ Closes(L, M)
               /\ \A i \in Ids : M[i].status = "open" /\ M[i].source = c
                                 => M[i].kind \notin kinds
  <1> DEFINE ids == {i \in Ids : /\ L[i].status = "open" /\ L[i].kind \in kinds
                                 /\ L[i].source = c}
             M == ResolveSilently(L, c, kinds)
  <1>1. M = Closed(L, ids, "resolved")
    BY DEF ResolveSilently, Closed
  <1>2. /\ LedgerOK(M) /\ Closes(L, M)
        /\ \A i \in Ids : i \in ids => M[i].status = "resolved"
    <2> HIDE DEF M, ids
    <2> QED
      BY <1>1, CloseRows
  <1>3. \A i \in Ids : M[i].status = "open" /\ M[i].source = c => M[i].kind \notin kinds
    <2> HIDE DEF M
    <2> QED
      BY <1>2 DEF Closes
  <1> QED
    BY <1>2, <1>3

LEMMA DetachedRow ==
    ASSUME NEW row, RowOK(row), row.status # "open"
    PROVE  LET new == [row EXCEPT !.source = Detached]
           IN  RowOK(new) /\ new.status = row.status
  BY DEF RowOK, Row

LEMMA DeleteStep ==
    ASSUME NEW L, LedgerOK(L), NEW ids
    PROVE  LET M == DeleteRows(L, ids)
           IN  /\ LedgerOK(M) /\ Closes(L, M)
               /\ \A i \in Ids : i \in ids => M[i].status = "deleted"
  <1>1. DeleteRows(L, ids) = Closed(L, ids, "deleted")
    BY DEF DeleteRows, Closed
  <1> QED
    BY <1>1, CloseRows

\* The foreign key rewrites no open row once the check's rows are closed.
LEMMA DetachStep ==
    ASSUME NEW L, LedgerOK(L), NEW c,
           \A i \in Ids : L[i].status = "open" => L[i].source # c
    PROVE  LET M == Detach(L, c) IN LedgerOK(M) /\ Closes(L, M)
  <1> DEFINE M == Detach(L, c)
  <1>1. ASSUME NEW i \in Ids
        PROVE  RowOK(M[i]) /\ (L[i].source # c => M[i] = L[i])
               /\ M[i].status = L[i].status
    <2>1. RowOK(L[i]) /\ L[i] \in Row
      BY DEF LedgerOK
    <2>2. CASE L[i].source = c
      <3>1. M[i] = [L[i] EXCEPT !.source = Detached]
        BY <2>2 DEF Detach
      <3>2. L[i].status # "open"
        BY <2>2
      <3> HIDE DEF M
      <3> QED
        BY <2>1, <2>2, <3>1, <3>2, DetachedRow
    <2>3. CASE L[i].source # c
      BY <2>1, <2>3 DEF Detach
    <2> QED
      BY <2>2, <2>3
  <1>2. M \in [Ids -> Row]
    BY <1>1 DEF Detach, RowOK
  <1> HIDE DEF M
  <1>3. LedgerOK(M) /\ Closes(L, M)
    BY <1>1, <1>2 DEF LedgerOK, Closes
  <1> QED
    BY <1>3 DEF M

-----------------------------------------------------------------------------
(* Results, markers and runs keep their types. *)

LEMMA RecordType ==
    ASSUME NEW h \in Seq(Result), NEW r \in Result
    PROVE  Record(h, r) \in Seq(Result)
  <1>1. Append(h, r) \in Seq(Result) /\ Append(h, r) # <<>>
    BY AppendProperties
  <1>2. Tail(Append(h, r)) \in Seq(Result)
    BY <1>1, HeadTailProperties
  <1> QED
    BY <1>1, <1>2 DEF Record

LEMMA MarkType ==
    ASSUME NEW m \in Marker, NEW status, NEW before \in BOOLEAN, NEW after \in BOOLEAN
    PROVE  MarkOutcome(m, status, before, after) \in Marker
  <1>1. /\ [m EXCEPT !.pending = TRUE] \in Marker /\ NoMarker \in Marker
        /\ [m EXCEPT !.pending = FALSE] \in Marker
        /\ [pending |-> FALSE, shown |-> TRUE] \in Marker
    BY DEF Marker, NoMarker
  <1> QED
    BY <1>1 DEF MarkOutcome

LEMMA RunType ==
    ASSUME NEW s \in RunState
    PROVE  /\ Finished(s) \in RunState
           /\ \A status : AfterPrimary(s, status) \in RunState
           /\ \A c : AfterCheck(s, c) \in RunState
  <1>1. Finished(s) \in RunState
    BY DEF Finished, RunState
  <1>2. [s EXCEPT !.phase = "secondary"] \in RunState
    BY DEF RunState
  <1>3. ASSUME NEW c PROVE [s EXCEPT !.todo = @ \ {c}] \in RunState
    BY DEF RunState
  <1> QED
    BY <1>1, <1>2, <1>3 DEF AfterPrimary, AfterCheck

-----------------------------------------------------------------------------
(* The steps of the system. *)

IInv == TypeOK /\ LedgerOK(ledger) /\ OpenIncidentIsWatched

LEMMA Initial == Init => IInv
  <1> SUFFICES ASSUME Init PROVE IInv
    OBVIOUS
  <1>1. EmptyRow \in Row /\ NoMarker \in Marker
    BY DEF EmptyRow, Row, Sources, NoMarker, Marker
  <1>2. LedgerOK(ledger)
    <2>1. RowOK(EmptyRow) /\ EmptyRow.status # "open"
      BY <1>1 DEF RowOK, EmptyRow
    <2>2. \A i \in Ids : ledger[i] = EmptyRow
      BY DEF Init
    <2> HIDE DEF EmptyRow
    <2>3. ledger \in [Ids -> Row]
      BY <1>1 DEF Init
    <2> QED
      BY <2>1, <2>2, <2>3 DEF LedgerOK
  <1>3. TypeOK
    <2>1. /\ target \in [exists: BOOLEAN, enabled: BOOLEAN, suppressed: BOOLEAN,
                         address: Addresses]
          /\ site \in [enabled: BOOLEAN, working: BOOLEAN]
          /\ threshold \in Thresholds
      BY DEF Init
    <2>2. check \in [Checks -> CheckRow]
      <3>1. InitialCheck \in CheckRow
        BY DEF InitialCheck, CheckRow, CheckTypes
      <3>2. [InitialCheck EXCEPT !.exists = FALSE, !.enabled = FALSE,
                !.version = 0, !.type = "plain", !.tls = FALSE] \in CheckRow
        BY DEF InitialCheck, CheckRow, CheckTypes
      <3> QED
        BY <3>1, <3>2 DEF Init
    <2>3. run \in [Runs -> RunState]
      BY DEF Init, RunState
    <2>4. /\ history \in [Sources -> Seq(Result)] /\ marker \in [Sources -> Marker]
          /\ world \in [Sources -> Statuses] /\ cert \in [Checks -> CertStates]
      BY <1>1 DEF Init, Statuses, CertStates
    <2>5. ops \in Nat /\ shifts \in Nat
      BY DEF Init
    <2> QED
      BY <1>2, <2>1, <2>2, <2>3, <2>4, <2>5 DEF TypeOK, LedgerOK
  <1>4. OpenIncidentIsWatched
    BY DEF Init, EmptyRow, OpenIncidentIsWatched
  <1> QED
    BY <1>2, <1>3, <1>4 DEF IInv

\* A step that leaves the checks alone and opens rows only of a source that is
\* watched, TLS rows only where the certificate is.
LEMMA WatchedStep ==
    ASSUME IInv, check' = check, LedgerOK(ledger)', TypeOK',
           NEW kinds, NEW s, OpensOnly(ledger, ledger', kinds, s),
           s \in Checks => Watched(s),
           s \in Checks /\ "check_tls" \in kinds =>
               check[s].type = "https" /\ check[s].tls
    PROVE  IInv'
  BY DEF IInv, OpenIncidentIsWatched, OpensOnly, Watched

\* Steps that touch neither the checks nor the incidents.
LEMMA Bystanders ==
    ASSUME IInv, TypeOK', UNCHANGED <<check, ledger>>
    PROVE  IInv'
  BY DEF IInv, OpenIncidentIsWatched, Watched, LedgerOK

LEMMA RunSteps ==
    ASSUME IInv, NEW r \in Runs, RunStep(r)
    PROVE  IInv'
  <1> USE DEF environment, config
  <1>1. TypeOK /\ LedgerOK(ledger) /\ run[r] \in RunState
    BY DEF IInv, TypeOK
  <1>2. CASE StartRun(r)
    <2> DEFINE new == [phase |-> "primary",
                       version |-> [c \in Checks |-> check[c].version],
                       todo |-> {c \in Checks : Watched(c)}]
    <2>1. new \in RunState
      <3>1. [c \in Checks |-> check[c].version] \in [Checks -> Nat]
        BY <1>1 DEF TypeOK, CheckRow
      <3> QED
        BY <3>1 DEF RunState
    <2>2. run' = [run EXCEPT ![r] = new]
      BY <1>2 DEF StartRun
    <2> HIDE DEF new
    <2>3. TypeOK'
      <3>1. run' \in [Runs -> RunState]
        BY <1>1, <2>1, <2>2 DEF TypeOK
      <3> QED
        BY <1>1, <1>2, <3>1 DEF StartRun, TypeOK
    <2> QED
      BY <1>2, <2>3, Bystanders DEF StartRun
  <1>3. CASE LosePrimary(r)
    <2>1. TypeOK'
      BY <1>1, <1>3, RunType DEF LosePrimary, TypeOK
    <2> QED
      BY <1>3, <2>1, Bystanders DEF LosePrimary
  <1>4. CASE IgnorePrimary(r)
    <2>1. TypeOK'
      BY <1>1, <1>4, RunType DEF IgnorePrimary, TypeOK
    <2> QED
      BY <1>4, <2>1, Bystanders DEF IgnorePrimary
  <1>5. ASSUME NEW c \in Checks, IgnoreCheck(r, c) PROVE IInv'
    <2>1. TypeOK'
      BY <1>1, <1>5, RunType DEF IgnoreCheck, TypeOK
    <2> QED
      BY <1>5, <2>1, Bystanders DEF IgnoreCheck
  <1>6. CASE SavePrimary(r)
    <2> DEFINE status == world[Primary]
               res == [status |-> status, version |-> 0, probed |-> 0]
               h == Record(history[Primary], res)
               L == ProcessOutcome(ledger, "availability", Primary, "none", status,
                                   ConfirmedFailure(h), target.suppressed)
               m == MarkOutcome(marker[Primary], status,
                                HasOpen(ledger, "availability", Primary),
                                HasOpen(L, "availability", Primary))
    <2>1. /\ history' = [history EXCEPT ![Primary] = h] /\ ledger' = L
          /\ marker' = [marker EXCEPT ![Primary] = m]
          /\ run' = [run EXCEPT ![r] = AfterPrimary(@, status)]
          /\ UNCHANGED <<config, environment, ops>>
      BY <1>1, <1>6 DEF SavePrimary, TypeOK, Sources
    <2>2. LedgerOK(L) /\ OpensOnly(ledger, L, {"availability"}, Primary)
      <3>1. ConfirmedFailure(h) \in BOOLEAN /\ Legit("availability", Primary)
        BY DEF ConfirmedFailure, LastDown, Legit
      <3> HIDE DEF h, status
      <3> QED
        BY <1>1, <3>1, OutcomeStep
    <2>3. h \in Seq(Result)
      <3>1. Primary \in Sources
        BY DEF Sources
      <3>2. res \in Result
        BY <1>1, <3>1 DEF TypeOK, Result, RunState
      <3> HIDE DEF res
      <3> QED
        BY <1>1, <3>1, <3>2, RecordType DEF TypeOK
    <2>4. m \in Marker
      <3> HIDE DEF L, status
      <3>1. HasOpen(ledger, "availability", Primary) \in BOOLEAN
            /\ HasOpen(L, "availability", Primary) \in BOOLEAN
        BY DEF HasOpen
      <3> QED
        BY <1>1, <3>1, MarkType DEF TypeOK, Sources
    <2>5. AfterPrimary(run[r], status) \in RunState
      BY <1>1, RunType
    <2> HIDE DEF status, res, h, L, m
    <2>6. TypeOK'
      BY <1>1, <2>1, <2>2, <2>3, <2>4, <2>5 DEF TypeOK, LedgerOK
    <2>7. LedgerOK(ledger)'
      BY <2>1, <2>2 DEF LedgerOK
    <2> QED
      BY <2>1, <2>2, <2>6, <2>7, WatchedStep, SourcesAssumption
  <1>7. ASSUME NEW c \in Checks, SaveCheck(r, c) PROVE IInv'
    <2> DEFINE status == world[c]
               res == [status |-> status, version |-> check[c].version,
                       probed |-> run[r].version[c]]
               h == Record(history[c], res)
               L == ProcessOutcome(ledger, "check", c, "critical", status,
                                   ConfirmedCheckFailure(h, check[c].version),
                                   target.suppressed)
               tlsSeen == check[c].type = "https" /\ check[c].tls /\ cert[c] # "absent"
               T == IF tlsSeen THEN ApplyTlsHealth(L, c, cert[c], target.suppressed) ELSE L
               m == MarkOutcome(marker[c], status, HasOpen(ledger, "check", c),
                                HasOpen(L, "check", c))
    <2>1. c \in Sources /\ Watched(c)
      BY <1>7 DEF SaveCheck, Accepts, Sources
    <2>2. /\ history' = [history EXCEPT ![c] = h] /\ ledger' = T
          /\ \/ marker' = marker
             \/ marker' = [marker EXCEPT ![c] = m]
          /\ run' = [run EXCEPT ![r] = AfterCheck(@, c)]
          /\ UNCHANGED <<config, environment, ops>>
      BY <1>1, <1>7, <2>1 DEF SaveCheck, TypeOK
    <2>3. LedgerOK(L) /\ OpensOnly(ledger, L, {"check"}, c)
      <3>1. ConfirmedCheckFailure(h, check[c].version) \in BOOLEAN /\ Legit("check", c)
        BY DEF ConfirmedCheckFailure, Legit, ServiceKinds
      <3> HIDE DEF h, status
      <3> QED
        BY <1>1, <3>1, OutcomeStep
    <2>4. LedgerOK(T) /\ (tlsSeen => OpensOnly(L, T, {"check_tls"}, c)) /\ (~tlsSeen => T = L)
      <3> HIDE DEF L
      <3>1. CASE tlsSeen
        <4>1. T = ApplyTlsHealth(L, c, cert[c], target.suppressed)
          BY <3>1
        <4> HIDE DEF T
        <4> QED
          BY <2>3, <3>1, <4>1, TlsStep
      <3>2. CASE ~tlsSeen
        BY <2>3, <3>2
      <3> QED
        BY <3>1, <3>2
    <2>5. h \in Seq(Result)
      <3>1. res \in Result
        BY <1>1, <2>1 DEF TypeOK, Result, RunState, CheckRow
      <3> HIDE DEF res
      <3> QED
        BY <1>1, <2>1, <3>1, RecordType DEF TypeOK
    <2>6. m \in Marker
      <3> HIDE DEF L, status
      <3>1. HasOpen(ledger, "check", c) \in BOOLEAN /\ HasOpen(L, "check", c) \in BOOLEAN
        BY DEF HasOpen
      <3> QED
        BY <1>1, <2>1, <3>1, MarkType DEF TypeOK
    <2>7. AfterCheck(run[r], c) \in RunState
      BY <1>1, RunType
    <2> HIDE DEF status, res, h, m, L, T
    <2>8. TypeOK'
      BY <1>1, <2>1, <2>2, <2>4, <2>5, <2>6, <2>7 DEF TypeOK, LedgerOK
    <2>9. LedgerOK(ledger)'
      BY <2>2, <2>4 DEF LedgerOK
    <2>10. CASE tlsSeen
      <3>1. OpensOnly(ledger, ledger', {"check", "check_tls"}, c)
        BY <2>2, <2>3, <2>4, <2>10 DEF OpensOnly
      <3> QED
        BY <2>1, <2>2, <2>8, <2>9, <2>10, <3>1, WatchedStep
    <2>11. CASE ~tlsSeen
      <3>1. OpensOnly(ledger, ledger', {"check"}, c)
        BY <2>2, <2>3, <2>4, <2>11
      <3> QED
        BY <2>1, <2>2, <2>8, <2>9, <3>1, WatchedStep
    <2> QED
      BY <2>10, <2>11
  <1> QED
    BY <1>2, <1>3, <1>4, <1>5, <1>6, <1>7 DEF RunStep

LEMMA CheckRows ==
    ASSUME NEW row \in CheckRow
    PROVE  /\ [row EXCEPT !.exists = FALSE, !.enabled = FALSE] \in CheckRow
           /\ [row EXCEPT !.enabled = ~@, !.version = @ + 1] \in CheckRow
           /\ \A t \in CheckTypes, tls \in BOOLEAN :
                 [row EXCEPT !.type = t, !.tls = tls, !.version = @ + 1] \in CheckRow
  <1> DEFINE n == row.version + 1
             other == ~row.enabled
  <1>1. n \in Nat /\ other \in BOOLEAN
    BY DEF CheckRow
  <1> HIDE DEF n, other
  <1>2. [row EXCEPT !.exists = FALSE, !.enabled = FALSE] \in CheckRow
    BY DEF CheckRow
  <1>3. [row EXCEPT !.enabled = other, !.version = n] \in CheckRow
    BY <1>1 DEF CheckRow
  <1>4. \A t \in CheckTypes, tls \in BOOLEAN :
           [row EXCEPT !.type = t, !.tls = tls, !.version = n] \in CheckRow
    BY <1>1 DEF CheckRow
  <1> QED
    BY <1>2, <1>3, <1>4 DEF n, other

\* Steps after which only rows are closed, and none is open on a check that
\* is not watched any more.
LEMMA ClosingStep ==
    ASSUME IInv, TypeOK', LedgerOK(ledger)', Closes(ledger, ledger'),
           \A c \in Checks, i \in Ids :
              ledger[i].status = "open" /\ ledger'[i].status = "open"
              /\ ledger'[i].source = c =>
                 /\ Watched(c)'
                 /\ ledger'[i].kind = "check_tls" =>
                       check'[c].type = "https" /\ check'[c].tls
    PROVE  IInv'
  BY DEF IInv, OpenIncidentIsWatched, Closes

LEMMA AdminSteps ==
    ASSUME IInv, AdminStep
    PROVE  IInv'
  <1> USE DEF environment, config
  <1>1. TypeOK /\ LedgerOK(ledger)
    BY DEF IInv
  <1>2. NoMarker \in Marker /\ [s \in Sources |-> NoMarker] \in [Sources -> Marker]
    BY DEF NoMarker, Marker
  <1>3. CASE TargetToggle
    <2>1. TypeOK'
      <3>1. target' \in [exists: BOOLEAN, enabled: BOOLEAN, suppressed: BOOLEAN,
                         address: Addresses]
        BY <1>1, <1>3 DEF TargetToggle, TypeOK
      <3> QED
        BY <1>1, <1>2, <1>3, <3>1 DEF TargetToggle, ClearMarkers, Admin, TypeOK
    <2> QED
      BY <1>3, <2>1, Bystanders DEF TargetToggle
  <1>4. CASE IncidentTargetDisable
    <2>1. TypeOK'
      <3>1. target' \in [exists: BOOLEAN, enabled: BOOLEAN, suppressed: BOOLEAN,
                         address: Addresses]
        BY <1>1, <1>4 DEF IncidentTargetDisable, TypeOK
      <3> QED
        BY <1>1, <1>2, <1>4, <3>1 DEF IncidentTargetDisable, ClearMarkers, Admin, TypeOK
    <2> QED
      BY <1>4, <2>1, Bystanders DEF IncidentTargetDisable
  <1>5. CASE TargetUpdate
    <2>1. TypeOK'
      <3>1. target' \in [exists: BOOLEAN, enabled: BOOLEAN, suppressed: BOOLEAN,
                         address: Addresses]
        BY <1>1, <1>5 DEF TargetUpdate, TypeOK
      <3>2. marker' \in [Sources -> Marker]
        BY <1>1, <1>2, <1>5 DEF TargetUpdate, TypeOK
      <3> QED
        BY <1>1, <1>5, <3>1, <3>2 DEF TargetUpdate, Admin, TypeOK
    <2> QED
      BY <1>5, <2>1, Bystanders DEF TargetUpdate
  <1>6. CASE SiteToggle
    <2>1. TypeOK'
      <3>1. site' \in [enabled: BOOLEAN, working: BOOLEAN]
        BY <1>1, <1>6 DEF SiteToggle, TypeOK
      <3> QED
        BY <1>1, <1>6, <3>1 DEF SiteToggle, Admin, TypeOK
    <2> QED
      BY <1>6, <2>1, Bystanders DEF SiteToggle
  <1>7. CASE SetThreshold
    <2>1. TypeOK'
      BY <1>1, <1>7 DEF SetThreshold, Admin, TypeOK
    <2> QED
      BY <1>7, <2>1, Bystanders DEF SetThreshold
  <1>8. CASE IncidentsDelete
    <2>1. PICK ids \in SUBSET Ids : ledger' = DeleteRows(ledger, ids)
      BY <1>8 DEF IncidentsDelete, Existing
    <2>2. LedgerOK(ledger') /\ Closes(ledger, ledger')
      BY <1>1, <2>1, DeleteStep
    <2>3. TypeOK'
      BY <1>1, <1>8, <2>2 DEF IncidentsDelete, Admin, TypeOK, LedgerOK
    <2>4. LedgerOK(ledger)'
      BY <2>2 DEF LedgerOK
    <2> QED
      BY <1>8, <2>2, <2>3, <2>4, ClosingStep
      DEF IncidentsDelete, Closes, IInv, OpenIncidentIsWatched, Watched
  <1>9. CASE TargetDelete
    <2>1. /\ LedgerOK(ledger') /\ Closes(ledger, ledger')
          /\ \A i \in Ids : i \in Existing(ledger) => ledger'[i].status = "deleted"
      BY <1>1, <1>9, DeleteStep DEF TargetDelete
    <2>2. TypeOK'
      <3>1. target' \in [exists: BOOLEAN, enabled: BOOLEAN, suppressed: BOOLEAN,
                         address: Addresses]
        BY <1>1, <1>9 DEF TargetDelete, TypeOK
      <3>2. check' \in [Checks -> CheckRow]
        <4>1. \A c \in Checks :
                 [check[c] EXCEPT !.exists = FALSE, !.enabled = FALSE] \in CheckRow
          BY <1>1, CheckRows DEF TypeOK
        <4> QED
          BY <1>9, <4>1 DEF TargetDelete
      <3>3. history' \in [Sources -> Seq(Result)]
        <4>1. <<>> \in Seq(Result)
          BY EmptySeq
        <4> QED
          BY <1>9, <4>1 DEF TargetDelete
      <3> QED
        <4>1. marker' \in [Sources -> Marker] /\ ledger' \in [Ids -> Row]
          BY <1>2, <1>9, <2>1 DEF TargetDelete, ClearMarkers, LedgerOK
        <4>2. UNCHANGED <<site, threshold, run, world, cert, shifts>> /\ ops' = ops + 1
          BY <1>9 DEF TargetDelete, Admin
        <4> QED
          BY <1>1, <3>1, <3>2, <3>3, <4>1, <4>2 DEF TypeOK
    <2>3. LedgerOK(ledger)'
      BY <2>1 DEF LedgerOK
    <2>4. \A i \in Ids : ledger[i].status = "open" => ledger'[i].status # "open"
      BY <2>1 DEF Existing
    <2> QED
      BY <2>1, <2>2, <2>3, <2>4, ClosingStep
  <1>10. ASSUME NEW c \in Checks, CheckCreate(c) PROVE IInv'
    <2>1. PICK t \in CheckTypes, tls \in BOOLEAN :
             check' = [check EXCEPT ![c] = [exists |-> TRUE, enabled |-> TRUE,
                                            version |-> 1, type |-> t, tls |-> tls]]
      BY <1>10 DEF CheckCreate
    <2>2. [exists |-> TRUE, enabled |-> TRUE, version |-> 1,
           type |-> t, tls |-> tls] \in CheckRow
      BY DEF CheckRow
    <2>3. check' \in [Checks -> CheckRow]
      BY <1>1, <2>1, <2>2 DEF TypeOK
    <2>4. TypeOK'
      BY <1>1, <1>10, <2>3 DEF CheckCreate, Admin, TypeOK
    <2>5. LedgerOK(ledger)' /\ Closes(ledger, ledger')
      BY <1>1, <1>10 DEF CheckCreate, LedgerOK, Closes
    <2>6. \A i \in Ids : ledger[i].status = "open" => ledger[i].source # c
      BY <1>10 DEF CheckCreate, IInv, OpenIncidentIsWatched, Watched
    <2> QED
      BY <1>1, <1>10, <2>1, <2>4, <2>5, <2>6, ClosingStep
      DEF CheckCreate, TypeOK, IInv, OpenIncidentIsWatched, Watched
  <1>11. ASSUME NEW c \in Checks, CheckUpdate(c) PROVE IInv'
    <2>1. PICK t \in CheckTypes, tls \in BOOLEAN :
             /\ tls => t = "https"
             /\ check' = [check EXCEPT ![c] = [check[c] EXCEPT !.type = t, !.tls = tls,
                                                              !.version = @ + 1]]
             /\ ledger' = IF \/ check[c].tls /\ ~tls
                             \/ check[c].type = "https" /\ t # "https"
                          THEN ResolveSilently(ledger, c, {"check_tls"})
                          ELSE ledger
      <3>1. check \in [Checks -> CheckRow]
        BY <1>1 DEF TypeOK
      <3>2. \A t \in CheckTypes, tls \in BOOLEAN :
               [check EXCEPT ![c].type = t, ![c].tls = tls, ![c].version = @ + 1]
               = [check EXCEPT ![c] = [check[c] EXCEPT !.type = t, !.tls = tls,
                                                       !.version = @ + 1]]
        BY <3>1 DEF CheckRow
      <3> QED
        BY <1>11, <3>2 DEF CheckUpdate
    <2>2. check' \in [Checks -> CheckRow]
      BY <1>1, <2>1, CheckRows DEF TypeOK
    <2>3. LedgerOK(ledger') /\ Closes(ledger, ledger')
      BY <1>1, <2>1, SilentStep DEF Closes
    <2>4. TypeOK'
      BY <1>1, <1>2, <1>11, <2>2, <2>3 DEF CheckUpdate, Admin, TypeOK, Sources, LedgerOK
    <2>5. LedgerOK(ledger)'
      BY <2>3 DEF LedgerOK
    <2>6. ASSUME NEW d \in Checks, NEW i \in Ids,
                 ledger[i].status = "open", ledger'[i].status = "open",
                 ledger'[i].source = d
          PROVE  /\ Watched(d)'
                 /\ ledger'[i].kind = "check_tls" =>
                       check'[d].type = "https" /\ check'[d].tls
      <3>1. /\ ledger[i].source = d /\ ledger[i].kind = ledger'[i].kind
            /\ Watched(d)
            /\ ledger[i].kind = "check_tls" => check[d].type = "https" /\ check[d].tls
        BY <2>3, <2>6 DEF Closes, IInv, OpenIncidentIsWatched
      <3>2. Watched(d)'
        BY <1>1, <2>1, <3>1 DEF Watched, TypeOK, CheckRow
      <3>3. CASE d # c
        BY <1>1, <2>1, <3>1, <3>2, <3>3 DEF TypeOK
      <3>4. CASE d = c /\ ledger'[i].kind = "check_tls"
        <4>1. ledger' # ResolveSilently(ledger, c, {"check_tls"})
          BY <1>1, <2>6, <3>4, SilentStep
        <4>2. t = "https" /\ tls
          BY <2>1, <3>1, <3>4, <4>1
        <4>3. check'[c].type = t /\ check'[c].tls = tls
          BY <1>1, <2>1 DEF TypeOK, CheckRow
        <4> QED
          BY <3>2, <3>4, <4>2, <4>3
      <3> QED
        BY <3>2, <3>3, <3>4
    <2> QED
      BY <2>3, <2>4, <2>5, <2>6, ClosingStep
  <1>12. ASSUME NEW c \in Checks, CheckToggle(c) PROVE IInv'
    <2>1. /\ check' = [check EXCEPT ![c] = [check[c] EXCEPT !.enabled = ~@, !.version = @ + 1]]
          /\ ledger' = IF check[c].enabled
                       THEN ResolveSilently(ledger, c, {"check", "check_tls"})
                       ELSE ledger
      BY <1>1, <1>12 DEF CheckToggle, TypeOK, CheckRow
    <2>2. check' \in [Checks -> CheckRow]
      BY <1>1, <2>1, CheckRows DEF TypeOK
    <2>3. LedgerOK(ledger') /\ Closes(ledger, ledger')
      BY <1>1, <2>1, SilentStep DEF Closes
    <2>4. TypeOK'
      BY <1>1, <1>2, <1>12, <2>2, <2>3 DEF CheckToggle, Admin, TypeOK, Sources, LedgerOK
    <2>5. LedgerOK(ledger)'
      BY <2>3 DEF LedgerOK
    <2>6. \A i \in Ids : ledger'[i].status = "open" => ledger'[i].source # c
      <3>1. CASE check[c].enabled
        BY <1>1, <2>1, <2>3, <3>1, SilentStep, SourcesAssumption
        DEF LedgerOK, RowOK, ServiceKinds
      <3>2. CASE ~check[c].enabled
        BY <2>1, <3>2 DEF IInv, OpenIncidentIsWatched, Watched
      <3> QED
        BY <3>1, <3>2
    <2>7. \A d \in Checks : d # c => check'[d] = check[d]
      BY <1>1, <2>1 DEF TypeOK
    <2> QED
      BY <2>3, <2>4, <2>5, <2>6, <2>7, ClosingStep
      DEF Closes, IInv, OpenIncidentIsWatched, Watched
  <1>13. ASSUME NEW c \in Checks, CheckDelete(c) PROVE IInv'
    <2> DEFINE R == ResolveSilently(ledger, c, {"check", "check_tls"})
    <2>1. /\ check' = [check EXCEPT ![c] = [check[c] EXCEPT !.exists = FALSE, !.enabled = FALSE]]
          /\ ledger' = Detach(R, c)
      BY <1>1, <1>13 DEF CheckDelete, TypeOK, CheckRow
    <2>2. check' \in [Checks -> CheckRow]
      BY <1>1, <2>1, CheckRows DEF TypeOK
    <2>3. LedgerOK(R) /\ Closes(ledger, R)
          /\ \A i \in Ids : R[i].status = "open" => R[i].source # c
      <3>1. /\ LedgerOK(R) /\ Closes(ledger, R)
            /\ \A i \in Ids : R[i].status = "open" /\ R[i].source = c
                              => R[i].kind \notin {"check", "check_tls"}
        BY <1>1, SilentStep
      <3> HIDE DEF R
      <3> QED
        BY <3>1, SourcesAssumption DEF LedgerOK, RowOK, ServiceKinds
    <2> HIDE DEF R
    <2>4. LedgerOK(ledger') /\ Closes(R, ledger')
      BY <2>1, <2>3, DetachStep
    <2>5. Closes(ledger, ledger') /\ \A i \in Ids : ledger'[i].status = "open" => ledger'[i].source # c
      BY <2>3, <2>4 DEF Closes
    <2>6. TypeOK'
      <3>1. history' \in [Sources -> Seq(Result)] /\ marker' \in [Sources -> Marker]
        <4>1. <<>> \in Seq(Result)
          BY EmptySeq
        <4> QED
          BY <1>1, <1>2, <1>13, <4>1 DEF CheckDelete, TypeOK
      <3> QED
        BY <1>1, <1>13, <2>2, <2>4, <3>1 DEF CheckDelete, Admin, TypeOK, LedgerOK
    <2>7. LedgerOK(ledger)'
      BY <2>4 DEF LedgerOK
    <2>8. \A d \in Checks : d # c => check'[d] = check[d]
      BY <1>1, <2>1 DEF TypeOK
    <2> QED
      BY <2>5, <2>6, <2>7, <2>8, ClosingStep
      DEF Closes, IInv, OpenIncidentIsWatched, Watched
  <1> QED
    BY <1>3, <1>4, <1>5, <1>6, <1>7, <1>8, <1>9, <1>10, <1>11, <1>12, <1>13 DEF AdminStep

LEMMA WorldSteps ==
    ASSUME IInv, WorldStep
    PROVE  IInv'
  <1> USE DEF environment, config
  <1>1. TypeOK
    BY DEF IInv
  <1>2. ASSUME NEW s \in Sources, WorldShift(s) PROVE IInv'
    <2>1. TypeOK'
      BY <1>1, <1>2 DEF WorldShift, Shift, TypeOK
    <2> QED
      BY <1>2, <2>1, Bystanders DEF WorldShift
  <1>3. ASSUME NEW c \in Checks, CertShift(c) PROVE IInv'
    <2>1. TypeOK'
      BY <1>1, <1>3 DEF CertShift, Shift, TypeOK
    <2> QED
      BY <1>3, <2>1, Bystanders DEF CertShift
  <1>4. CASE HoursShift
    <2>1. site' \in [enabled: BOOLEAN, working: BOOLEAN]
      BY <1>1, <1>4 DEF HoursShift, TypeOK
    <2>2. TypeOK'
      BY <1>1, <1>4, <2>1 DEF HoursShift, Shift, TypeOK
    <2> QED
      BY <1>4, <2>2, Bystanders DEF HoursShift
  <1> QED
    BY <1>2, <1>3, <1>4 DEF WorldStep

-----------------------------------------------------------------------------
(* The theorems. *)

LEMMA Inductive ==
    ASSUME IInv, [Next]_vars
    PROVE  IInv'
  <1>1. CASE Next
    BY <1>1, RunSteps, AdminSteps, WorldSteps DEF Next
  <1>2. CASE UNCHANGED vars
    <2>1. TypeOK' /\ UNCHANGED <<check, ledger>>
      BY <1>2 DEF vars, IInv, TypeOK
    <2> QED
      BY <2>1, Bystanders
  <1> QED
    BY <1>1, <1>2

LEMMA Invariance == Spec => []IInv
  <1>1. IInv /\ [Next]_vars => IInv'
    BY Inductive
  <1> QED
    BY Initial, <1>1, PTL DEF Spec

\* Every variable keeps its type: no interleaving of saves and administrator's
\* actions produces a row, a result or a marker the schema could not hold.
THEOREM IncidentsTypeCorrect == Spec => []TypeOK
  <1>1. IInv => TypeOK
    BY DEF IInv
  <1> QED
    BY <1>1, Invariance, PTL

\* For any number of service checks and overlapping runs, no check has two open
\* incidents of one kind, as long as every save is one transaction.
THEOREM UniqueOpenIncident == Spec => []AtMostOneOpen
  <1>1. IInv => AtMostOneOpen
    BY DEF IInv, LedgerOK, AtMostOneOpen
  <1> QED
    BY <1>1, Invariance, PTL

\* No incident is open on a service check that is disabled or deleted, and no
\* TLS incident on a check whose certificate is not watched.
THEOREM NoUnwatchedIncident == Spec => []OpenIncidentIsWatched
  <1>1. IInv => OpenIncidentIsWatched
    BY DEF IInv
  <1> QED
    BY <1>1, Invariance, PTL

\* An incident sends at most one opening and one recovery letter, the second
\* only after the first and only once it is closed.
THEOREM PairedLetters == Spec => []LettersPaired
  <1>1. IInv => LettersPaired
    <2> SUFFICES ASSUME IInv, NEW i \in Ids
                 PROVE  /\ ledger[i].opened <= 1
                        /\ ledger[i].recovered <= ledger[i].opened
                        /\ ledger[i].recovered = 1 =>
                              ledger[i].status \in {"resolved", "deleted"}
      BY DEF LettersPaired
    <2>1. RowOK(ledger[i])
      BY DEF IInv, LedgerOK
    <2> QED
      BY <2>1 DEF RowOK
  <1> QED
    BY <1>1, Invariance, PTL

-----------------------------------------------------------------------------
(* The next free row and the newest open one. *)

Less == OpToRel(<, Nat)

LEMMA LeastElement ==
    ASSUME NEW S \in SUBSET Nat, S # {}
    PROVE  \E i \in S : \A j \in S : i <= j
  <1>1. IsWellFoundedOn(Less, Nat)
    BY NatLessThanWellFounded DEF Less
  <1>2. \A p, q \in Nat : <<p, q>> \notin Less => q <= p
    <2>1. \A p, q \in Nat : p < q => <<p, q>> \in Less
      BY DEF Less, OpToRel
    <2> QED
      BY <2>1
  <1> HIDE DEF Less
  <1>3. \E i \in S : \A j \in S : ~(<<j, i>> \in Less)
    BY <1>1, WFMin
  <1>4. PICK i \in S : \A j \in S : <<j, i>> \notin Less
    BY <1>3
  <1>5. \A j \in S : i <= j
    BY <1>2, <1>4
  <1> QED
    BY <1>5

LEMMA NextIdIsFree ==
    ASSUME NEW L, FreeIds(L) # {}
    PROVE  NextId(L) \in FreeIds(L)
  <1>1. FreeIds(L) \in SUBSET Nat
    BY BoundsAssumption DEF FreeIds, Ids
  <1>2. PICK n \in FreeIds(L) : \A j \in FreeIds(L) : n <= j
    <2> HIDE DEF FreeIds
    <2> QED
      BY <1>1, LeastElement
  <1> QED
    BY <1>2 DEF NextId

\* The newest open row of a check is its only one.
LEMMA NewestIsOnly ==
    ASSUME NEW L, LedgerOK(L), NEW kind, NEW s, HasOpen(L, kind, s)
    PROVE  /\ Newest(L, kind, s) \in Ids
           /\ OpenIds(L, kind, s) = {Newest(L, kind, s)}
  <1>1. PICK n \in OpenIds(L, kind, s) : OpenIds(L, kind, s) = {n}
    BY DEF HasOpen, OpenIds, LedgerOK
  <1>2. n \in Ids /\ n <= n
    BY BoundsAssumption DEF OpenIds, Ids
  <1>3. Newest(L, kind, s) = n
    BY <1>1, <1>2 DEF Newest
  <1> QED
    BY <1>1, <1>2, <1>3

-----------------------------------------------------------------------------
(* Episodes of one stream. *)

\* A row that was never used has caused no letter.
Table(L) ==
    /\ LedgerOK(L)
    /\ \A i \in Ids : L[i].status = "free" => L[i] = EmptyRow

Sent(row, opening, escalation, recovery) ==
    /\ row.opened = opening
    /\ row.escalated = escalation
    /\ row.recovered = recovery
SameLetters(row, new) == Sent(new, row.opened, row.escalated, row.recovered)

\* The rows that differ in M were open in L for this stream, or are new ones
\* of it.
Only(L, M, kind, s) ==
    \A i \in Ids : M[i] # L[i] =>
        /\ i \in OpenIds(L, kind, s) \/ (L[i].status = "free" /\ M[i].status = "open")
        /\ M[i].status # "free"
        /\ M[i].status = "open" => M[i].kind = kind /\ M[i].source = s

Stays(L, M, kind, s) ==
    /\ OpenIds(M, kind, s) = OpenIds(L, kind, s)
    /\ \A i \in OpenIds(L, kind, s) : SameLetters(L[i], M[i])
Starts(L, M, kind, s, quiet) ==
    \E n \in FreeIds(L) :
        /\ OpenIds(L, kind, s) = {} /\ OpenIds(M, kind, s) = {n}
        /\ Sent(M[n], IF quiet THEN 0 ELSE 1, 0, 0)
Speaks(L, M, kind, s, quiet) ==
    \E n \in Ids :
        /\ OpenIds(L, kind, s) = {n} /\ OpenIds(M, kind, s) = {n} /\ ~quiet
        /\ \/ L[n].opened # 1 /\ Sent(M[n], 1, L[n].escalated, L[n].recovered)
           \/ Sent(M[n], L[n].opened, L[n].escalated + 1, L[n].recovered)
Ends(L, M, kind, s, quiet) ==
    \E n \in Ids :
        /\ OpenIds(L, kind, s) = {n} /\ OpenIds(M, kind, s) = {}
        /\ Sent(M[n], L[n].opened, L[n].escalated,
                IF L[n].opened = 1 /\ ~quiet THEN 1 ELSE 0)

\* What may become of the episode of a stream in one step of the scheduler.
Moved(L, M, kind, s, quiet) ==
    \/ Stays(L, M, kind, s)
    \/ Starts(L, M, kind, s, quiet)
    \/ Speaks(L, M, kind, s, quiet)
    \/ Ends(L, M, kind, s, quiet)

LEMMA TableKept ==
    ASSUME NEW L, NEW M, NEW kind, NEW s, Table(L), LedgerOK(M), Only(L, M, kind, s)
    PROVE  Table(M)
  BY DEF Table, Only

LEMMA NothingMoves ==
    ASSUME NEW L, NEW kind, NEW s, NEW quiet
    PROVE  Only(L, L, kind, s) /\ Moved(L, L, kind, s, quiet)
  BY DEF Only, Moved, Stays, SameLetters, Sent

\* The opening letter of the open incident of a stream.
LEMMA OpeningMoves ==
    ASSUME NEW L, Table(L), NEW kind, NEW s, NEW quiet, NEW n \in Ids,
           OpenIds(L, kind, s) = {n}
    PROVE  LET M == OpeningNotification(L, n, quiet)
           IN  /\ Only(L, M, kind, s) /\ Moved(L, M, kind, s, quiet)
               /\ OpenIds(L, kind, s) \subseteq OpenIds(M, kind, s)
  <1> DEFINE M == OpeningNotification(L, n, quiet)
  <1>1. CASE quiet \/ L[n].openTried
    BY <1>1, NothingMoves DEF OpeningNotification
  <1>2. CASE ~quiet /\ ~L[n].openTried
    <2> DEFINE row == [L[n] EXCEPT !.openTried = TRUE, !.opened = L[n].opened + 1]
    <2>1. L \in [Ids -> Row] /\ RowOK(L[n]) /\ L[n] \in Row
      BY DEF Table, LedgerOK
    <2>2. M = [L EXCEPT ![n] = row]
      BY <1>2, <2>1 DEF OpeningNotification, Row
    <2>3. L[n].opened = 0
      BY <1>2, <2>1 DEF RowOK
    <2>4. /\ row.status = L[n].status /\ row.kind = L[n].kind /\ row.source = L[n].source
          /\ Sent(row, 1, L[n].escalated, L[n].recovered)
      BY <2>1, <2>3 DEF Row, Sent
    <2> HIDE DEF row, M
    <2>5. M[n] = row /\ \A i \in Ids : i # n => M[i] = L[i]
      BY <2>1, <2>2
    <2>6. OpenIds(M, kind, s) = {n}
      BY <2>4, <2>5 DEF OpenIds
    <2>7. Only(L, M, kind, s)
      BY <2>4, <2>5 DEF Only, OpenIds
    <2>8. Speaks(L, M, kind, s, quiet)
      BY <1>2, <2>3, <2>4, <2>5, <2>6 DEF Speaks
    <2>9. OpenIds(L, kind, s) \subseteq OpenIds(M, kind, s)
      BY <2>6
    <2> QED
      BY <2>7, <2>8, <2>9 DEF Moved, M
  <1> QED
    BY <1>1, <1>2

LEMMA RaiseMoves ==
    ASSUME NEW L, Table(L), NEW kind, NEW s, Legit(kind, s),
           NEW severity \in {"none", "warning", "critical"}, NEW quiet,
           OpenIds(L, kind, s) = {}, FreeIds(L) # {}
    PROVE  LET M == Raise(L, kind, s, severity, quiet)
           IN  /\ Only(L, M, kind, s) /\ Moved(L, M, kind, s, quiet)
               /\ OpenIds(L, kind, s) \subseteq OpenIds(M, kind, s)
  <1> DEFINE M == Raise(L, kind, s, severity, quiet)
             n == NextId(L)
             row == [EmptyRow EXCEPT !.status = "open", !.kind = kind,
                                     !.source = s, !.severity = severity]
             told == [row EXCEPT !.openTried = TRUE, !.opened = row.opened + 1]
             I == Insert(L, kind, s, severity)
  <1>1. n \in FreeIds(L) /\ n \in Ids /\ L[n].status = "free"
    BY NextIdIsFree DEF FreeIds
  <1>2. /\ row \in Row /\ row.status = "open" /\ row.kind = kind /\ row.source = s
        /\ row.openTried = FALSE /\ Sent(row, 0, 0, 0)
    BY DEF EmptyRow, Row, Legit, ServiceKinds, Sources, Sent
  <1>3. /\ told.status = "open" /\ told.kind = kind /\ told.source = s
        /\ Sent(told, 1, 0, 0)
    <2> HIDE DEF row
    <2> QED
      BY <1>2 DEF Row, Sent
  <1>4. L \in [Ids -> Row]
    BY DEF Table, LedgerOK
  <1>5. I = [L EXCEPT ![n] = row]
    BY DEF Insert
  <1> HIDE DEF n
  <1>6. I[n] = row /\ I \in [Ids -> Row] /\ \A i \in Ids : i # n => I[i] = L[i]
    <2> HIDE DEF row, I
    <2> QED
      BY <1>1, <1>2, <1>4, <1>5
  <1>7. PICK new : /\ M = [I EXCEPT ![n] = new]
                   /\ new.status = "open" /\ new.kind = kind /\ new.source = s
                   /\ Sent(new, IF quiet THEN 0 ELSE 1, 0, 0)
    <2> HIDE DEF row, I
    <2>1. M = OpeningNotification(I, n, quiet)
      BY DEF Raise, n, I
    <2> HIDE DEF M
    <2>2. CASE quiet
      <3>1. M = I
        BY <1>2, <1>6, <2>1, <2>2 DEF OpeningNotification
      <3>2. M = [I EXCEPT ![n] = row]
        BY <1>6, <3>1
      <3> QED
        BY <1>2, <2>2, <3>2
    <2>3. CASE ~quiet
      <3>1. M = [I EXCEPT ![n] = told]
        BY <1>2, <1>6, <2>1, <2>3 DEF OpeningNotification, Row
      <3> HIDE DEF told
      <3> QED
        BY <1>3, <2>3, <3>1
    <2> QED
      BY <2>2, <2>3
  <1> HIDE DEF row, told, I, M
  <1>8. M[n] = new /\ \A i \in Ids : i # n => M[i] = L[i]
    BY <1>1, <1>6, <1>7
  <1>9. OpenIds(M, kind, s) = {n}
    BY <1>1, <1>7, <1>8 DEF OpenIds
  <1>10. Starts(L, M, kind, s, quiet)
    BY <1>1, <1>7, <1>8, <1>9 DEF Starts
  <1>11. Only(L, M, kind, s)
    BY <1>1, <1>7, <1>8 DEF Only
  <1> QED
    BY <1>10, <1>11 DEF Moved, M

LEMMA ResolveMoves ==
    ASSUME NEW L, Table(L), NEW kind, NEW s, NEW quiet, NEW n \in Ids,
           OpenIds(L, kind, s) = {n}
    PROVE  LET M == Resolve(L, n, quiet)
           IN  /\ Only(L, M, kind, s) /\ Ends(L, M, kind, s, quiet)
               /\ M[n].status = "resolved"
  <1> DEFINE M == Resolve(L, n, quiet)
             closed == [L[n] EXCEPT !.status = "resolved"]
             told == [closed EXCEPT !.recoveryTried = TRUE,
                                    !.recovered = closed.recovered + 1]
             C == [L EXCEPT ![n] = closed]
  <1>1. L \in [Ids -> Row] /\ RowOK(L[n]) /\ L[n] \in Row /\ L[n].status = "open"
    BY DEF Table, LedgerOK, OpenIds
  <1>2. /\ L[n].recoveryTried = FALSE /\ L[n].recovered = 0
        /\ L[n].opened = (IF L[n].openTried THEN 1 ELSE 0)
    BY <1>1 DEF RowOK, Row
  <1>3. /\ closed \in Row /\ closed.status = "resolved"
        /\ closed.recoveryTried = FALSE /\ closed.openTried = L[n].openTried
        /\ Sent(closed, L[n].opened, L[n].escalated, 0)
    BY <1>1, <1>2 DEF Row, Sent
  <1>4. told.status = "resolved" /\ Sent(told, L[n].opened, L[n].escalated, 1)
    <2> HIDE DEF closed
    <2> QED
      BY <1>3 DEF Row, Sent
  <1>5. C = [L EXCEPT ![n].status = "resolved"]
    BY <1>1 DEF Row
  <1>6. M = RecoveryNotification(C, n, quiet)
    <2> HIDE DEF C
    <2> QED
      BY <1>5 DEF Resolve
  <1>7. C[n] = closed /\ C \in [Ids -> Row] /\ \A i \in Ids : i # n => C[i] = L[i]
    <2> HIDE DEF closed
    <2> QED
      BY <1>1, <1>3
  <1>8. PICK new : /\ M = [C EXCEPT ![n] = new]
                   /\ new.status = "resolved"
                   /\ Sent(new, L[n].opened, L[n].escalated,
                           IF L[n].opened = 1 /\ ~quiet THEN 1 ELSE 0)
    <2> HIDE DEF closed, C, M
    <2>1. CASE quiet \/ ~L[n].openTried
      <3>1. M = [C EXCEPT ![n] = closed]
        BY <1>3, <1>6, <1>7, <2>1 DEF RecoveryNotification
      <3> QED
        BY <1>2, <1>3, <2>1, <3>1
    <2>2. CASE ~quiet /\ L[n].openTried
      <3>1. M = [C EXCEPT ![n] = told]
        BY <1>3, <1>6, <1>7, <2>2 DEF RecoveryNotification, Row
      <3> HIDE DEF told
      <3> QED
        BY <1>2, <1>4, <2>2, <3>1
    <2> QED
      BY <2>1, <2>2
  <1> HIDE DEF closed, told, C, M
  <1>9. M[n] = new /\ \A i \in Ids : i # n => M[i] = L[i]
    BY <1>7, <1>8
  <1>10. OpenIds(M, kind, s) = {}
    BY <1>8, <1>9 DEF OpenIds
  <1>11. Ends(L, M, kind, s, quiet)
    BY <1>8, <1>9, <1>10 DEF Ends
  <1>12. Only(L, M, kind, s)
    BY <1>8, <1>9 DEF Only
  <1> QED
    BY <1>8, <1>9, <1>11, <1>12 DEF M

LEMMA EscalateMoves ==
    ASSUME NEW L, Table(L), NEW kind, NEW s, NEW quiet, NEW n \in Ids,
           NEW health \in {"warning", "critical"}, OpenIds(L, kind, s) = {n}
    PROVE  LET M == Escalate(L, n, health, quiet)
           IN  /\ Only(L, M, kind, s) /\ Moved(L, M, kind, s, quiet)
               /\ OpenIds(L, kind, s) \subseteq OpenIds(M, kind, s)
  <1> DEFINE told == L[n].severity = "warning" /\ health = "critical" /\ ~quiet
             count == IF told THEN L[n].escalated + 1 ELSE L[n].escalated
             row == [L[n] EXCEPT !.severity = health, !.escalated = count]
             M == Escalate(L, n, health, quiet)
  <1>1. L \in [Ids -> Row] /\ L[n] \in Row
    BY DEF Table, LedgerOK
  <1>2. M = [L EXCEPT ![n] = row]
    BY <1>1 DEF Escalate, Row
  <1> HIDE DEF count
  <1>3. /\ row.status = L[n].status /\ row.kind = L[n].kind /\ row.source = L[n].source
        /\ Sent(row, L[n].opened, count, L[n].recovered)
    BY <1>1 DEF Row, Sent
  <1> HIDE DEF row, M
  <1>4. M[n] = row /\ \A i \in Ids : i # n => M[i] = L[i]
    BY <1>1, <1>2
  <1>5. OpenIds(M, kind, s) = {n}
    BY <1>3, <1>4 DEF OpenIds
  <1>6. Only(L, M, kind, s) /\ OpenIds(L, kind, s) \subseteq OpenIds(M, kind, s)
    <2>1. Only(L, M, kind, s)
      BY <1>3, <1>4 DEF Only, OpenIds
    <2> QED
      BY <1>5, <2>1
  <1>7. CASE told
    <2>1. Speaks(L, M, kind, s, quiet)
      BY <1>3, <1>4, <1>5, <1>7 DEF Speaks, count
    <2> QED
      BY <1>6, <2>1 DEF Moved, M
  <1>8. CASE ~told
    <2>1. Stays(L, M, kind, s)
      BY <1>3, <1>4, <1>5, <1>8 DEF Stays, SameLetters, Sent, count
    <2> QED
      BY <1>6, <2>1 DEF Moved, M
  <1> QED
    BY <1>7, <1>8

\* What an outcome does to the table: it moves the episode of its own stream,
\* and an UP one, and no other, ends it.
Judged(L, M, kind, s, status, quiet) ==
    /\ Table(M) /\ Only(L, M, kind, s) /\ Moved(L, M, kind, s, quiet)
    /\ status = "up" => OpenIds(M, kind, s) = {}
    /\ status # "up" => OpenIds(L, kind, s) \subseteq OpenIds(M, kind, s)
    /\ status \notin {"up", "down"} => M = L

\* The health of a certificate: only a good one ends the episode.
Certified(L, M, c, health, quiet) ==
    /\ Table(M) /\ Only(L, M, "check_tls", c) /\ Moved(L, M, "check_tls", c, quiet)
    /\ health # "ok" => OpenIds(L, "check_tls", c) \subseteq OpenIds(M, "check_tls", c)

LEMMA OutcomeMoves ==
    ASSUME NEW L, Table(L), NEW kind, NEW s, Legit(kind, s),
           NEW severity \in {"none", "warning", "critical"}, NEW status,
           NEW confirmed \in BOOLEAN, NEW quiet, FreeIds(L) # {}
    PROVE  LET M == ProcessOutcome(L, kind, s, severity, status, confirmed, quiet)
           IN  Judged(L, M, kind, s, status, quiet)
  <1> DEFINE M == ProcessOutcome(L, kind, s, severity, status, confirmed, quiet)
             n == Newest(L, kind, s)
  <1>1. LedgerOK(L)
    BY DEF Table
  <1>2. LedgerOK(M)
    BY <1>1, OutcomeStep
  <1>3. HasOpen(L, kind, s) => n \in Ids /\ OpenIds(L, kind, s) = {n}
    BY <1>1, NewestIsOnly
  <1>4. ~HasOpen(L, kind, s) => OpenIds(L, kind, s) = {}
    BY DEF HasOpen
  <1>5. CASE status = "down" /\ HasOpen(L, kind, s)
    <2>1. M = OpeningNotification(L, n, quiet)
      BY <1>5 DEF ProcessOutcome
    <2> HIDE DEF M, n
    <2>2. /\ Only(L, M, kind, s) /\ Moved(L, M, kind, s, quiet)
          /\ OpenIds(L, kind, s) \subseteq OpenIds(M, kind, s)
      BY <1>3, <1>5, <2>1, OpeningMoves
    <2> QED
      BY <1>2, <1>5, <2>2, TableKept DEF M, Judged
  <1>6. CASE status = "down" /\ ~HasOpen(L, kind, s) /\ confirmed
    <2>1. M = Raise(L, kind, s, severity, quiet)
      BY <1>6 DEF ProcessOutcome
    <2> HIDE DEF M, n
    <2>2. /\ Only(L, M, kind, s) /\ Moved(L, M, kind, s, quiet)
          /\ OpenIds(L, kind, s) \subseteq OpenIds(M, kind, s)
      BY <1>4, <1>6, <2>1, RaiseMoves
    <2> QED
      BY <1>2, <1>6, <2>2, TableKept DEF M, Judged
  <1>7. CASE status = "up" /\ HasOpen(L, kind, s)
    <2>1. M = Resolve(L, n, quiet)
      BY <1>7 DEF ProcessOutcome
    <2> HIDE DEF M, n
    <2>2. Only(L, M, kind, s) /\ Ends(L, M, kind, s, quiet)
      BY <1>3, <1>7, <2>1, ResolveMoves
    <2>3. OpenIds(M, kind, s) = {}
      BY <2>2 DEF Ends
    <2> QED
      BY <1>2, <1>7, <2>2, <2>3, TableKept DEF M, Moved, Judged
  <1>8. CASE /\ ~(status = "down" /\ HasOpen(L, kind, s))
             /\ ~(status = "down" /\ ~HasOpen(L, kind, s) /\ confirmed)
             /\ ~(status = "up" /\ HasOpen(L, kind, s))
    <2>1. M = L
      BY <1>8 DEF ProcessOutcome
    <2> HIDE DEF M
    <2> QED
      BY <1>4, <1>8, <2>1, NothingMoves DEF M, Judged
  <1> QED
    BY <1>5, <1>6, <1>7, <1>8

\* An incident is new only if the failure was confirmed.
Opened(L, M, confirmed) ==
    \A i \in Ids : L[i].status = "free" /\ M[i].status = "open" => confirmed

LEMMA OutcomeOpens ==
    ASSUME NEW L, LedgerOK(L), NEW kind, NEW s, NEW severity, NEW status,
           NEW confirmed \in BOOLEAN, NEW quiet
    PROVE  Opened(L, ProcessOutcome(L, kind, s, severity, status, confirmed, quiet), confirmed)
  <1> DEFINE M == ProcessOutcome(L, kind, s, severity, status, confirmed, quiet)
             n == Newest(L, kind, s)
  <1>1. SUFFICES ASSUME ~confirmed PROVE Opened(L, M, confirmed)
    BY DEF Opened
  <1>2. M = L \/ M = OpeningNotification(L, n, quiet) \/ M = Resolve(L, n, quiet)
    BY <1>1 DEF ProcessOutcome
  <1> HIDE DEF M, n
  <1>3. OpensOnly(L, M, {}, s)
    <2>1. OpensOnly(L, L, {}, s)
      BY DEF OpensOnly
    <2> QED
      BY <1>2, <2>1, OpeningStep, ResolveStep
  <1> QED
    BY <1>3 DEF OpensOnly, Opened

LEMMA TlsMoves ==
    ASSUME NEW L, Table(L), NEW c \in Checks, NEW health, NEW quiet, FreeIds(L) # {}
    PROVE  LET M == ApplyTlsHealth(L, c, health, quiet)
           IN  Certified(L, M, c, health, quiet)
  <1> DEFINE M == ApplyTlsHealth(L, c, health, quiet)
             n == Newest(L, "check_tls", c)
             bad == health \in {"warning", "critical"}
  <1>1. LedgerOK(L)
    BY DEF Table
  <1>2. LedgerOK(M)
    BY <1>1, TlsStep
  <1>3. HasOpen(L, "check_tls", c) => n \in Ids /\ OpenIds(L, "check_tls", c) = {n}
    BY <1>1, NewestIsOnly
  <1>4. ~HasOpen(L, "check_tls", c) => OpenIds(L, "check_tls", c) = {}
    BY DEF HasOpen
  <1>5. /\ Only(L, M, "check_tls", c) /\ Moved(L, M, "check_tls", c, quiet)
        /\ health # "ok" => OpenIds(L, "check_tls", c) \subseteq OpenIds(M, "check_tls", c)
    <2>1. CASE health = "ok" /\ HasOpen(L, "check_tls", c)
      <3>1. M = Resolve(L, n, quiet)
        BY <2>1 DEF ApplyTlsHealth
      <3> HIDE DEF M, n
      <3> QED
        BY <1>3, <2>1, <3>1, ResolveMoves DEF Moved
    <2>2. CASE bad /\ ~HasOpen(L, "check_tls", c)
      <3>1. M = Raise(L, "check_tls", c, health, quiet)
        BY <2>2 DEF ApplyTlsHealth
      <3>2. Legit("check_tls", c)
        BY DEF Legit, ServiceKinds
      <3> HIDE DEF M, n
      <3> QED
        BY <1>4, <2>2, <3>1, <3>2, RaiseMoves
    <2>3. CASE bad /\ HasOpen(L, "check_tls", c)
      <3>1. M = Escalate(L, n, health, quiet)
        BY <2>3 DEF ApplyTlsHealth
      <3> HIDE DEF M, n
      <3> QED
        BY <1>3, <2>3, <3>1, EscalateMoves
    <2>4. CASE /\ ~(health = "ok" /\ HasOpen(L, "check_tls", c))
               /\ ~(bad /\ ~HasOpen(L, "check_tls", c))
               /\ ~(bad /\ HasOpen(L, "check_tls", c))
      <3>1. M = L
        BY <2>4 DEF ApplyTlsHealth
      <3> HIDE DEF M
      <3> QED
        BY <3>1, NothingMoves
    <2> QED
      BY <2>1, <2>2, <2>3, <2>4
  <1> HIDE DEF M
  <1> QED
    BY <1>2, <1>5, TableKept DEF M, Certified
-----------------------------------------------------------------------------
(* One step of the scheduler over all the streams. *)

\* A stream the step does not touch keeps its row.
LEMMA Elsewhere ==
    ASSUME NEW L, NEW M, NEW kind, NEW s, NEW k, NEW t,
           Only(L, M, kind, s), k # kind \/ t # s
    PROVE  /\ OpenIds(M, k, t) = OpenIds(L, k, t)
           /\ \A i \in OpenIds(L, k, t) : M[i] = L[i]
  BY DEF Only, OpenIds

\* A save that opens one row leaves another one free.
LEMMA RoomIsLeft ==
    ASSUME NEW L, NEW M, NEW kind, NEW s, LedgerOK(M), Only(L, M, kind, s), HasRoom(L)
    PROVE  FreeIds(M) # {}
  <1>1. PICK i \in Ids, j \in Ids : i # j /\ L[i].status = "free" /\ L[j].status = "free"
    BY DEF HasRoom, FreeIds
  <1>2. M[i] = L[i] \/ M[j] = L[j]
    <2> SUFFICES ASSUME M[i] # L[i], M[j] # L[j] PROVE FALSE
      OBVIOUS
    <2>1. /\ M[i].status = "open" /\ M[i].kind = kind /\ M[i].source = s
          /\ M[j].status = "open" /\ M[j].kind = kind /\ M[j].source = s
      BY <1>1 DEF Only, OpenIds
    <2> QED
      BY <1>1, <2>1 DEF LedgerOK
  <1> QED
    BY <1>1, <1>2 DEF FreeIds

\* What a step of the scheduler may do to the whole table.
Works(L, M, quiet) ==
    /\ \A t \in IncidentStreams : Moved(L, M, t.kind, t.source, quiet)
    /\ FreeIds(M) \subseteq FreeIds(L)
    /\ \A i \in FreeIds(L) \ FreeIds(M) :
          \E t \in IncidentStreams : i \in OpenIds(M, t.kind, t.source)
    /\ \A i \in Ids : ~SameLetters(L[i], M[i]) =>
          \E t \in IncidentStreams :
             i \in OpenIds(L, t.kind, t.source) \/ i \in OpenIds(M, t.kind, t.source)

LEMMA OneMove ==
    ASSUME NEW L, NEW M, NEW u \in IncidentStreams, NEW quiet,
           Only(L, M, u.kind, u.source), Moved(L, M, u.kind, u.source, quiet)
    PROVE  Works(L, M, quiet)
  <1>1. ASSUME NEW t \in IncidentStreams PROVE Moved(L, M, t.kind, t.source, quiet)
    <2>1. CASE t.kind = u.kind /\ t.source = u.source
      BY <2>1
    <2>2. CASE t.kind # u.kind \/ t.source # u.source
      <3>1. /\ OpenIds(M, t.kind, t.source) = OpenIds(L, t.kind, t.source)
            /\ \A i \in OpenIds(L, t.kind, t.source) : M[i] = L[i]
        BY <2>2, Elsewhere
      <3> QED
        BY <3>1 DEF Moved, Stays, SameLetters, Sent
    <2> QED
      BY <2>1, <2>2
  <1>2. FreeIds(M) \subseteq FreeIds(L)
    BY DEF Only, FreeIds
  <1>3. ASSUME NEW i \in FreeIds(L) \ FreeIds(M)
        PROVE  \E t \in IncidentStreams : i \in OpenIds(M, t.kind, t.source)
    <2>1. i \in OpenIds(M, u.kind, u.source)
      BY <1>3 DEF Only, FreeIds, OpenIds
    <2> QED
      BY <2>1
  <1>4. ASSUME NEW i \in Ids, ~SameLetters(L[i], M[i])
        PROVE  \E t \in IncidentStreams :
                  i \in OpenIds(L, t.kind, t.source) \/ i \in OpenIds(M, t.kind, t.source)
    <2>1. M[i] # L[i]
      BY <1>4 DEF SameLetters, Sent
    <2>2. i \in OpenIds(L, u.kind, u.source) \/ i \in OpenIds(M, u.kind, u.source)
      BY <2>1 DEF Only, OpenIds
    <2> QED
      BY <2>2
  <1> QED
    BY <1>1, <1>2, <1>3, <1>4 DEF Works

\* The service and the certificate of one check, in one save: each of the two
\* streams is touched by its own move only.
LEMMA TwoMoves ==
    ASSUME NEW L, NEW M, NEW N, NEW u \in IncidentStreams, NEW v \in IncidentStreams,
           NEW quiet, u.kind # v.kind,
           Only(L, M, u.kind, u.source), Moved(L, M, u.kind, u.source, quiet),
           Only(M, N, v.kind, v.source), Moved(M, N, v.kind, v.source, quiet)
    PROVE  Works(L, N, quiet)
  <1>1. ASSUME NEW t \in IncidentStreams PROVE Moved(L, N, t.kind, t.source, quiet)
    <2>1. CASE t.kind = u.kind /\ t.source = u.source
      <3>1. OpenIds(N, u.kind, u.source) = OpenIds(M, u.kind, u.source)
        BY Elsewhere
      <3>2. ASSUME NEW i \in Ids, i \in OpenIds(L, u.kind, u.source)
                                  \/ i \in OpenIds(M, u.kind, u.source)
            PROVE  N[i] = M[i]
        BY <3>2 DEF Only, OpenIds
      <3>3. CASE Stays(L, M, u.kind, u.source)
        BY <2>1, <3>1, <3>2, <3>3 DEF Moved, Stays, OpenIds
      <3>4. CASE Starts(L, M, u.kind, u.source, quiet)
        BY <2>1, <3>1, <3>2, <3>4 DEF Moved, Starts, OpenIds
      <3>5. CASE Speaks(L, M, u.kind, u.source, quiet)
        BY <2>1, <3>1, <3>2, <3>5 DEF Moved, Speaks
      <3>6. CASE Ends(L, M, u.kind, u.source, quiet)
        BY <2>1, <3>1, <3>2, <3>6 DEF Moved, Ends
      <3> QED
        BY <3>3, <3>4, <3>5, <3>6 DEF Moved
    <2>2. CASE t.kind = v.kind /\ t.source = v.source
      <3>1. OpenIds(M, v.kind, v.source) = OpenIds(L, v.kind, v.source)
        BY Elsewhere
      <3>2. ASSUME NEW i \in Ids, i \in OpenIds(M, v.kind, v.source)
            PROVE  M[i] = L[i]
        BY <3>1, <3>2, Elsewhere
      <3>3. ASSUME NEW i \in FreeIds(M) PROVE M[i] = L[i] /\ i \in FreeIds(L)
        BY <3>3 DEF Only, FreeIds
      <3> QED
        BY <2>2, <3>1, <3>2, <3>3 DEF Moved, Stays, Starts, Speaks, Ends, SameLetters,
                                      Sent, OpenIds
    <2>3. CASE /\ t.kind # u.kind \/ t.source # u.source
               /\ t.kind # v.kind \/ t.source # v.source
      <3>1. Stays(L, N, t.kind, t.source)
        BY <2>3, Elsewhere DEF Stays, SameLetters, Sent
      <3> QED
        BY <3>1 DEF Moved
    <2> QED
      BY <2>1, <2>2, <2>3
  <1>2. FreeIds(N) \subseteq FreeIds(L)
    BY DEF Only, FreeIds
  <1>3. ASSUME NEW i \in FreeIds(L) \ FreeIds(N)
        PROVE  \E t \in IncidentStreams : i \in OpenIds(N, t.kind, t.source)
    <2>1. i \in OpenIds(N, u.kind, u.source) \/ i \in OpenIds(N, v.kind, v.source)
      BY <1>3 DEF Only, FreeIds, OpenIds
    <2> QED
      BY <2>1
  <1>4. ASSUME NEW i \in Ids, ~SameLetters(L[i], N[i])
        PROVE  \E t \in IncidentStreams :
                  i \in OpenIds(L, t.kind, t.source) \/ i \in OpenIds(N, t.kind, t.source)
    <2>1. M[i] # L[i] \/ N[i] # M[i]
      BY <1>4 DEF SameLetters, Sent
    <2>2. \/ i \in OpenIds(L, u.kind, u.source) \/ i \in OpenIds(N, u.kind, u.source)
          \/ i \in OpenIds(L, v.kind, v.source) \/ i \in OpenIds(N, v.kind, v.source)
      BY <2>1 DEF Only, OpenIds
    <2> QED
      BY <2>2
  <1> QED
    BY <1>1, <1>2, <1>3, <1>4 DEF Works
-----------------------------------------------------------------------------
(* The steps of the promise. *)

LEMMA Streams ==
    ASSUME NEW s \in IncidentStreams
    PROVE  /\ Legit(s.kind, s.source)
           /\ \A t \in IncidentStreams :
                 t.kind = s.kind /\ t.source = s.source => t = s
  BY DEF IncidentStreams, Legit, ServiceKinds

LEMMA StreamExists ==
    /\ \E u \in IncidentStreams : u.kind = "availability" /\ u.source = Primary
    /\ \A c \in Checks, k \in ServiceKinds :
          \E u \in IncidentStreams : u.kind = k /\ u.source = c
  <1>1. ASSUME NEW c \in Checks, NEW k \in ServiceKinds
        PROVE  \E u \in IncidentStreams : u.kind = k /\ u.source = c
    <2>1. [kind |-> k, source |-> c] \in IncidentStreams
      BY DEF IncidentStreams, ServiceKinds
    <2> QED
      BY <2>1
  <1>2. [kind |-> "availability", source |-> Primary] \in IncidentStreams
    BY DEF IncidentStreams
  <1> QED
    BY <1>1, <1>2

LEMMA ZeroIsNoId == 0 \notin Ids
  BY BoundsAssumption DEF Ids

\* A stream has no open row, or one, which is its current incident.
LEMMA CurrentIs ==
    ASSUME NEW L, LedgerOK(L), NEW s \in IncidentStreams
    PROVE  LET open == OpenIds(L, s.kind, s.source)
           IN  \/ open = {} /\ CurrentIncident(L, s) = 0
               \/ /\ CurrentIncident(L, s) \in Ids
                  /\ open = {CurrentIncident(L, s)}
  <1> DEFINE open == OpenIds(L, s.kind, s.source)
  <1>1. CASE open = {}
    BY <1>1 DEF CurrentIncident
  <1>2. CASE open # {}
    <2>1. PICK n \in Ids : open = {n}
      BY <1>2, NewestIsOnly DEF HasOpen
    <2>2. n \in Nat /\ n # 0
      BY BoundsAssumption DEF Ids
    <2>3. CurrentIncident(L, s) = n
      BY <2>1, <2>2 DEF CurrentIncident
    <2> QED
      BY <2>1, <2>3
  <1> QED
    BY <1>1, <1>2

\* A step of the scheduler that works on the table is one of the promise.
LEMMA WorkStep ==
    ASSUME Table(ledger), LedgerOK(ledger'), target.suppressed \in BOOLEAN,
           UNCHANGED <<target, ops>>, Works(ledger, ledger', target.suppressed)
    PROVE  Abstract!Work
  <1> DEFINE cur(s) == CurrentIncident(ledger, s)
             new(s) == CurrentIncident(ledger', s)
             Held(s) == OpenIds(ledger, s.kind, s.source)
             Next_(s) == OpenIds(ledger', s.kind, s.source)
             lets(L) == [i \in Ids |-> [opening |-> L[i].opened,
                            escalation |-> L[i].escalated, recovery |-> L[i].recovered]]
  <1>1. ASSUME NEW s \in IncidentStreams
        PROVE  /\ \/ Held(s) = {} /\ cur(s) = 0
                  \/ cur(s) \in Ids /\ Held(s) = {cur(s)}
               /\ \/ Next_(s) = {} /\ new(s) = 0
                  \/ new(s) \in Ids /\ Next_(s) = {new(s)}
    <2>1. LedgerOK(ledger)
      BY DEF Table
    <2> QED
      BY <2>1, CurrentIs
  <1>2. lets(ledger)' = lets(ledger') /\ UNCHANGED <<target.suppressed, ops>>
    OBVIOUS
  <1> DEFINE curs == [s \in IncidentStreams |-> CurrentIncident(ledger, s)]
  <1>3. ASSUME NEW s \in IncidentStreams PROVE curs[s] = cur(s) /\ (curs')[s] = new(s)
    OBVIOUS
  <1> HIDE DEF cur, new, curs
  <1>4. ASSUME NEW s \in IncidentStreams
        PROVE  LET was == curs[s]
                   now == (curs')[s]
               IN  \/ Abstract!Rests(was, now)
                   \/ /\ Abstract!Begins(was, now)
                      /\ \A t \in IncidentStreams \ {s} : (curs')[t] # now
                   \/ Abstract!IsAnnounced(was, now)
                   \/ Abstract!Worsens(was, now)
                   \/ Abstract!Recovers(was, now)
    <2>1. Moved(ledger, ledger', s.kind, s.source, target.suppressed)
      BY DEF Works
    <2>2. CASE Stays(ledger, ledger', s.kind, s.source)
      <3>1. Next_(s) = Held(s) /\ \A i \in Held(s) : SameLetters(ledger[i], ledger'[i])
        BY <2>2 DEF Stays
      <3>2. new(s) = cur(s)
        BY <1>1, <3>1, ZeroIsNoId
      <3>3. cur(s) # 0 => cur(s) \in Ids /\ SameLetters(ledger[cur(s)], ledger'[cur(s)])
        BY <1>1, <3>1
      <3> QED
        BY <1>3, <3>2, <3>3 DEF SameLetters, Sent, Abstract!Rests
    <2>3. CASE Starts(ledger, ledger', s.kind, s.source, target.suppressed)
      <3>1. PICK n \in FreeIds(ledger) :
               /\ Held(s) = {} /\ Next_(s) = {n}
               /\ Sent(ledger'[n], IF target.suppressed THEN 0 ELSE 1, 0, 0)
        BY <2>3 DEF Starts
      <3>2. cur(s) = 0 /\ new(s) = n
        BY <1>1, <3>1
      <3>3. n \in Ids /\ n \notin FreeIds(ledger')
        BY <3>1 DEF FreeIds, OpenIds
      <3>4. \A t \in IncidentStreams \ {s} : new(t) # n
        <4> SUFFICES ASSUME NEW t \in IncidentStreams, new(t) = n PROVE t = s
          OBVIOUS
        <4>1. n \in Next_(t) /\ n \in Next_(s)
          BY <1>1, <3>1, <3>3, ZeroIsNoId
        <4>2. t.kind = s.kind /\ t.source = s.source
          BY <4>1 DEF OpenIds
        <4> QED
          BY <4>2, Streams
      <3> QED
        BY <1>3, <3>1, <3>2, <3>3, <3>4 DEF Sent, Abstract!Begins, Abstract!NoLetters
    <2>4. CASE Speaks(ledger, ledger', s.kind, s.source, target.suppressed)
      <3>1. PICK n \in Ids :
               /\ Held(s) = {n} /\ Next_(s) = {n} /\ ~target.suppressed
               /\ \/ /\ ledger[n].opened # 1
                     /\ Sent(ledger'[n], 1, ledger[n].escalated, ledger[n].recovered)
                  \/ Sent(ledger'[n], ledger[n].opened, ledger[n].escalated + 1,
                          ledger[n].recovered)
        BY <2>4 DEF Speaks
      <3>2. cur(s) = n /\ new(s) = n /\ n # 0
        BY <1>1, <3>1, ZeroIsNoId
      <3>3. curs[s] = n /\ (curs')[s] = n
        BY <1>3, <3>2
      <3>4. CASE /\ ledger[n].opened # 1
                 /\ Sent(ledger'[n], 1, ledger[n].escalated, ledger[n].recovered)
        <4>1. Abstract!IsAnnounced(curs[s], (curs')[s])
          BY <3>1, <3>2, <3>3, <3>4 DEF Sent, Abstract!IsAnnounced, Abstract!Announced
        <4> QED
          BY <4>1
      <3>5. CASE Sent(ledger'[n], ledger[n].opened, ledger[n].escalated + 1,
                      ledger[n].recovered)
        <4>1. Abstract!Worsens(curs[s], (curs')[s])
          BY <3>1, <3>2, <3>3, <3>5 DEF Sent, Abstract!Worsens
        <4> QED
          BY <4>1
      <3> QED
        BY <3>1, <3>4, <3>5
    <2>5. CASE Ends(ledger, ledger', s.kind, s.source, target.suppressed)
      <3>1. PICK n \in Ids :
               /\ Held(s) = {n} /\ Next_(s) = {}
               /\ Sent(ledger'[n], ledger[n].opened, ledger[n].escalated,
                       IF ledger[n].opened = 1 /\ ~target.suppressed THEN 1 ELSE 0)
        BY <2>5 DEF Ends
      <3>2. cur(s) = n /\ new(s) = 0 /\ n # 0
        BY <1>1, <3>1, ZeroIsNoId
      <3>3. curs[s] = n /\ (curs')[s] = 0
        BY <1>3, <3>2
      <3>4. Abstract!Recovers(curs[s], (curs')[s])
        <4>1. CASE ledger[n].opened = 1 /\ ~target.suppressed
          BY <3>1, <3>2, <3>3, <4>1 DEF Sent, Abstract!Recovers, Abstract!Announced
        <4>2. CASE ~(ledger[n].opened = 1 /\ ~target.suppressed)
          BY <3>1, <3>2, <3>3, <4>2 DEF Sent, Abstract!Recovers, Abstract!Announced
        <4> QED
          BY <4>1, <4>2
      <3> QED
        BY <3>4
    <2> QED
      BY <2>1, <2>2, <2>3, <2>4, <2>5 DEF Moved
  <1>5. Ids \ FreeIds(ledger) \subseteq Ids \ FreeIds(ledger')
    BY DEF Works
  <1>6. ASSUME NEW i \in (Ids \ FreeIds(ledger')) \ (Ids \ FreeIds(ledger))
        PROVE  \E s \in IncidentStreams : new(s) = i
    <2>1. PICK s \in IncidentStreams : i \in Next_(s)
      BY <1>6 DEF Works
    <2>2. new(s) = i
      BY <1>1, <2>1
    <2> QED
      BY <2>2
  <1>7. ASSUME NEW i \in Ids, lets(ledger')[i] # lets(ledger)[i]
        PROVE  \E s \in IncidentStreams : i \in {cur(s), new(s)}
    <2>1. ~SameLetters(ledger[i], ledger'[i])
      BY <1>7 DEF SameLetters, Sent
    <2>2. PICK s \in IncidentStreams : i \in Held(s) \/ i \in Next_(s)
      BY <2>1 DEF Works
    <2>3. i \in {cur(s), new(s)}
      BY <1>1, <2>2
    <2> QED
      BY <2>3
  <1> HIDE DEF lets
  <1>8. /\ \A i \in (Ids \ FreeIds(ledger')) \ (Ids \ FreeIds(ledger)) :
              \E s \in IncidentStreams : (curs')[s] = i
        /\ \A i \in Ids : (lets(ledger)')[i] # lets(ledger)[i] =>
              \E s \in IncidentStreams : i \in {curs[s], (curs')[s]}
    BY <1>2, <1>6, <1>7, <1>3
  <1> QED
    BY <1>2, <1>4, <1>5, <1>8 DEF Abstract!Work, curs, lets
\* The administrator ends episodes without a letter and uses no new row.
Quietly(L, M) ==
    /\ Closes(L, M)
    /\ FreeIds(M) = FreeIds(L)
    /\ \A i \in Ids : SameLetters(L[i], M[i])

LEMMA InterveneStep ==
    ASSUME LedgerOK(ledger), LedgerOK(ledger'), target'.suppressed \in BOOLEAN,
           ops' = ops + 1, Quietly(ledger, ledger')
    PROVE  Abstract!Intervene
  <1> DEFINE curs == [s \in IncidentStreams |-> CurrentIncident(ledger, s)]
             lets(L) == [i \in Ids |-> [opening |-> L[i].opened,
                            escalation |-> L[i].escalated, recovery |-> L[i].recovered]]
  <1>1. ASSUME NEW s \in IncidentStreams
        PROVE  CurrentIncident(ledger', s) \in {CurrentIncident(ledger, s), 0}
    <2>1. OpenIds(ledger', s.kind, s.source) \subseteq OpenIds(ledger, s.kind, s.source)
      BY DEF Quietly, Closes, OpenIds
    <2>2. /\ \/ /\ OpenIds(ledger, s.kind, s.source) = {}
                /\ CurrentIncident(ledger, s) = 0
             \/ OpenIds(ledger, s.kind, s.source) = {CurrentIncident(ledger, s)}
          /\ \/ /\ OpenIds(ledger', s.kind, s.source) = {}
                /\ CurrentIncident(ledger', s) = 0
             \/ OpenIds(ledger', s.kind, s.source) = {CurrentIncident(ledger', s)}
      BY CurrentIs
    <2> QED
      BY <2>1, <2>2
  <1>2. \A s \in IncidentStreams : (curs')[s] \in {curs[s], 0}
    BY <1>1
  <1>3. lets(ledger)' = lets(ledger)
    BY DEF Quietly, SameLetters, Sent
  <1>4. (Ids \ FreeIds(ledger))' = Ids \ FreeIds(ledger)
    BY DEF Quietly
  <1> HIDE DEF curs, lets
  <1> QED
    BY <1>2, <1>3, <1>4 DEF Abstract!Intervene, curs, lets

LEMMA StutterStep ==
    ASSUME UNCHANGED <<target, ledger, ops>>
    PROVE  UNCHANGED Abstract!promised
  BY DEF Abstract!promised

-----------------------------------------------------------------------------
(* The saves of the scheduler. *)

\* The invariant the refinement needs: a row that is free was never written,
\* so that the episode it is given to starts without letters.
EInv == IInv /\ Table(ledger)

LEMMA PrimarySave ==
    ASSUME EInv, NEW r \in Runs, SavePrimary(r)
    PROVE  Judged(ledger, ledger', "availability", Primary, world[Primary],
                  target.suppressed)
  <1> DEFINE res == [status |-> world[Primary], version |-> 0, probed |-> 0]
             confirmed == ConfirmedFailure(Record(history[Primary], res))
  <1>1. ledger' = ProcessOutcome(ledger, "availability", Primary, "none",
                                 world[Primary], confirmed, target.suppressed)
    BY DEF SavePrimary
  <1>2. confirmed \in BOOLEAN /\ Legit("availability", Primary)
    BY DEF ConfirmedFailure, LastDown, Legit
  <1>3. Table(ledger) /\ FreeIds(ledger) # {}
    BY DEF EInv, SavePrimary, HasRoom
  <1> HIDE DEF confirmed
  <1> QED
    BY <1>1, <1>2, <1>3, OutcomeMoves

\* A service check: its outcome first, then the health of its certificate.
LEMMA CheckSave ==
    ASSUME EInv, NEW r \in Runs, NEW c \in Checks, SaveCheck(r, c)
    PROVE  \E M : /\ Judged(ledger, M, "check", c, world[c], target.suppressed)
                  /\ Certified(M, ledger', c, cert[c], target.suppressed)
                  /\ marker' = IF check[c].type = "directory" THEN marker
                               ELSE [marker EXCEPT ![c] =
                                       MarkOutcome(marker[c], world[c],
                                                   HasOpen(ledger, "check", c),
                                                   HasOpen(M, "check", c))]
                  /\ Opened(ledger, M,
                            ConfirmedCheckFailure(history'[c], check[c].version))
  <1> DEFINE res == [status |-> world[c], version |-> check[c].version,
                     probed |-> run[r].version[c]]
             confirmed == ConfirmedCheckFailure(Record(history[c], res), check[c].version)
             M == ProcessOutcome(ledger, "check", c, "critical", world[c], confirmed,
                                 target.suppressed)
             tlsSeen == check[c].type = "https" /\ check[c].tls /\ cert[c] # "absent"
  <1>1. /\ ledger' = IF tlsSeen THEN ApplyTlsHealth(M, c, cert[c], target.suppressed)
                                ELSE M
        /\ marker' = IF check[c].type = "directory" THEN marker
                     ELSE [marker EXCEPT ![c] =
                             MarkOutcome(marker[c], world[c], HasOpen(ledger, "check", c),
                                         HasOpen(M, "check", c))]
    <2>1. c \in Sources /\ marker \in [Sources -> Marker]
      BY DEF EInv, IInv, TypeOK, Sources
    <2> QED
      BY <2>1 DEF SaveCheck
  <1>2. confirmed \in BOOLEAN /\ Legit("check", c)
    BY DEF ConfirmedCheckFailure, Legit, ServiceKinds
  <1>3. Table(ledger) /\ HasRoom(ledger) /\ FreeIds(ledger) # {}
    BY DEF EInv, SaveCheck, HasRoom
  <1>4. Judged(ledger, M, "check", c, world[c], target.suppressed)
    <2> HIDE DEF confirmed
    <2> QED
      BY <1>2, <1>3, OutcomeMoves
  <1> HIDE DEF M
  <1>5. FreeIds(M) # {}
    BY <1>3, <1>4, RoomIsLeft DEF Judged, Table
  <1>6. Table(M)
    BY <1>4 DEF Judged
  <1>7. Certified(M, ledger', c, cert[c], target.suppressed)
    <2>1. CASE tlsSeen
      BY <1>1, <1>5, <1>6, <2>1, TlsMoves
    <2>2. CASE ~tlsSeen
      BY <1>1, <1>6, <2>2, NothingMoves DEF Certified
    <2> QED
      BY <2>1, <2>2
  <1>8. Opened(ledger, M, confirmed)
    <2> HIDE DEF confirmed
    <2> QED
      BY <1>2, <1>3, OutcomeOpens DEF M, Table
  <1>9. confirmed = ConfirmedCheckFailure(history'[c], check[c].version)
    <2>1. history'[c] = Record(history[c], res)
      BY DEF SaveCheck, EInv, IInv, TypeOK, Sources
    <2> QED
      BY <2>1
  <1> QED
    BY <1>1, <1>4, <1>7, <1>8, <1>9

\* A run either leaves the incidents alone or works on them as promised.
LEMMA RunsKeepPromise ==
    ASSUME EInv, NEW r \in Runs, RunStep(r)
    PROVE  Table(ledger') /\ (Abstract!Work \/ UNCHANGED Abstract!promised)
  <1> USE DEF environment, config
  <1>1. target.suppressed \in BOOLEAN /\ LedgerOK(ledger) /\ Table(ledger)
    BY DEF EInv, IInv, TypeOK
  <1>2. CASE \/ StartRun(r) \/ LosePrimary(r) \/ IgnorePrimary(r)
             \/ \E c \in Checks : IgnoreCheck(r, c)
    <2>1. UNCHANGED <<target, ledger, ops>>
      BY <1>2 DEF StartRun, LosePrimary, IgnorePrimary, IgnoreCheck
    <2>2. Table(ledger')
      BY <1>1, <2>1
    <2> QED
      BY <2>1, <2>2, StutterStep
  <1>3. CASE SavePrimary(r)
    <2>1. /\ Table(ledger') /\ Only(ledger, ledger', "availability", Primary)
          /\ Moved(ledger, ledger', "availability", Primary, target.suppressed)
      BY <1>3, PrimarySave DEF Judged
    <2>2. PICK u \in IncidentStreams : u.kind = "availability" /\ u.source = Primary
      BY StreamExists
    <2>3. Works(ledger, ledger', target.suppressed)
      BY <2>1, <2>2, OneMove
    <2>4. UNCHANGED <<target, ops>>
      BY <1>3 DEF SavePrimary
    <2> QED
      BY <1>1, <2>1, <2>3, <2>4, WorkStep DEF Table
  <1>4. ASSUME NEW c \in Checks, SaveCheck(r, c)
        PROVE  Table(ledger') /\ Abstract!Work
    <2>1. PICK M : /\ Only(ledger, M, "check", c)
                   /\ Moved(ledger, M, "check", c, target.suppressed)
                   /\ Table(ledger')
                   /\ Only(M, ledger', "check_tls", c)
                   /\ Moved(M, ledger', "check_tls", c, target.suppressed)
      BY <1>4, CheckSave DEF Judged, Certified
    <2>2. PICK u \in IncidentStreams : u.kind = "check" /\ u.source = c
      BY StreamExists DEF ServiceKinds
    <2>3. PICK v \in IncidentStreams : v.kind = "check_tls" /\ v.source = c
      BY StreamExists DEF ServiceKinds
    <2>4. Works(ledger, ledger', target.suppressed)
      BY <2>1, <2>2, <2>3, TwoMoves
    <2>5. UNCHANGED <<target, ops>>
      BY <1>4 DEF SaveCheck
    <2> QED
      BY <1>1, <2>1, <2>4, <2>5, WorkStep DEF Table
  <1> QED
    BY <1>2, <1>3, <1>4 DEF RunStep
-----------------------------------------------------------------------------
(* The administrator. *)

\* Closing rows without a word: their letters stay counted, free rows free.
LEMMA ClosedQuietly ==
    ASSUME NEW L, Table(L), NEW status \in {"resolved", "deleted"},
           NEW ids, \A i \in Ids : i \in ids => L[i].status # "free"
    PROVE  LET M == Closed(L, ids, status) IN Table(M) /\ Quietly(L, M)
  <1> DEFINE M == Closed(L, ids, status)
  <1>1. LedgerOK(L)
    BY DEF Table
  <1>2. LedgerOK(M) /\ Closes(L, M)
    BY <1>1, CloseRows
  <1>3. ASSUME NEW i \in Ids
        PROVE  /\ M[i].status = IF i \in ids THEN status ELSE L[i].status
               /\ i \notin ids => M[i] = L[i]
               /\ SameLetters(L[i], M[i])
    <2>1. L[i] \in Row
      BY <1>1 DEF LedgerOK
    <2>2. CASE i \in ids
      <3>1. M[i] = [L[i] EXCEPT !.status = status]
        BY <2>2 DEF Closed
      <3> HIDE DEF M
      <3> QED
        BY <2>1, <2>2, <3>1 DEF Row, SameLetters, Sent
    <2>3. CASE i \notin ids
      BY <2>3 DEF Closed, SameLetters, Sent
    <2> QED
      BY <2>2, <2>3
  <1> HIDE DEF M
  <1>4. FreeIds(M) = FreeIds(L)
    BY <1>3 DEF FreeIds
  <1>5. Table(M)
    BY <1>2, <1>3 DEF Table
  <1> QED
    BY <1>2, <1>3, <1>4, <1>5 DEF Quietly, M

LEMMA SilentIsQuiet ==
    ASSUME NEW L, Table(L), NEW c, NEW kinds
    PROVE  LET M == ResolveSilently(L, c, kinds) IN Table(M) /\ Quietly(L, M)
  <1> DEFINE ids == {i \in Ids : /\ L[i].status = "open" /\ L[i].kind \in kinds
                                 /\ L[i].source = c}
  <1>1. ResolveSilently(L, c, kinds) = Closed(L, ids, "resolved")
    BY DEF ResolveSilently, Closed
  <1>2. \A i \in Ids : i \in ids => L[i].status # "free"
    OBVIOUS
  <1> HIDE DEF ids
  <1> QED
    BY <1>1, <1>2, ClosedQuietly

LEMMA DeleteIsQuiet ==
    ASSUME NEW L, Table(L), NEW ids, \A i \in Ids : i \in ids => L[i].status # "free"
    PROVE  LET M == DeleteRows(L, ids) IN Table(M) /\ Quietly(L, M)
  <1>1. DeleteRows(L, ids) = Closed(L, ids, "deleted")
    BY DEF DeleteRows, Closed
  <1> QED
    BY <1>1, ClosedQuietly

LEMMA DetachIsQuiet ==
    ASSUME NEW L, Table(L), NEW c \in Checks,
           \A i \in Ids : L[i].status = "open" => L[i].source # c
    PROVE  LET M == Detach(L, c) IN Table(M) /\ Quietly(L, M)
  <1> DEFINE M == Detach(L, c)
  <1>1. LedgerOK(L)
    BY DEF Table
  <1>2. LedgerOK(M) /\ Closes(L, M)
    BY <1>1, DetachStep
  <1>3. ASSUME NEW i \in Ids
        PROVE  /\ M[i].status = L[i].status
               /\ L[i].source # c => M[i] = L[i]
               /\ SameLetters(L[i], M[i])
    <2>1. L[i] \in Row
      BY <1>1 DEF LedgerOK
    <2>2. CASE L[i].source = c
      <3>1. M[i] = [L[i] EXCEPT !.source = Detached]
        BY <2>2 DEF Detach
      <3> HIDE DEF M
      <3> QED
        BY <2>1, <2>2, <3>1 DEF Row, SameLetters, Sent
    <2>3. CASE L[i].source # c
      BY <2>3 DEF Detach, SameLetters, Sent
    <2> QED
      BY <2>2, <2>3
  <1>4. EmptyRow.source # c
    BY SourcesAssumption DEF EmptyRow
  <1> HIDE DEF M
  <1>5. FreeIds(M) = FreeIds(L)
    BY <1>3 DEF FreeIds
  <1>6. Table(M)
    BY <1>2, <1>3, <1>4 DEF Table
  <1> QED
    BY <1>2, <1>3, <1>5, <1>6 DEF Quietly, M

LEMMA QuietChain ==
    ASSUME NEW L, NEW M, NEW N, Quietly(L, M), Quietly(M, N)
    PROVE  Quietly(L, N)
  BY DEF Quietly, Closes, SameLetters, Sent

LEMMA QuietSelf == \A L : Quietly(L, L)
  BY DEF Quietly, Closes, SameLetters, Sent

\* Every action of the administrator is an intervention of the promise.
LEMMA AdminIsQuiet ==
    ASSUME EInv, AdminStep
    PROVE  Table(ledger') /\ Quietly(ledger, ledger') /\ ops' = ops + 1
  <1>1. Table(ledger)
    BY DEF EInv
  <1>2. CASE \/ TargetToggle \/ IncidentTargetDisable \/ TargetUpdate
             \/ SiteToggle \/ SetThreshold \/ \E c \in Checks : CheckCreate(c)
    <2>1. UNCHANGED ledger /\ Admin
      BY <1>2 DEF TargetToggle, IncidentTargetDisable, TargetUpdate, SiteToggle,
                  SetThreshold, CheckCreate
    <2> QED
      BY <1>1, <2>1, QuietSelf DEF Admin
  <1>3. CASE TargetDelete
    <2>1. \A i \in Ids : i \in Existing(ledger) => ledger[i].status # "free"
      BY DEF Existing
    <2>2. ledger' = DeleteRows(ledger, Existing(ledger)) /\ Admin
      BY <1>3 DEF TargetDelete
    <2> QED
      BY <1>1, <2>1, <2>2, DeleteIsQuiet DEF Admin
  <1>4. CASE IncidentsDelete
    <2>1. PICK ids : /\ \A i \in Ids : i \in ids => ledger[i].status # "free"
                     /\ ledger' = DeleteRows(ledger, ids)
      BY <1>4 DEF IncidentsDelete, Existing
    <2>2. Admin
      BY <1>4 DEF IncidentsDelete
    <2> QED
      BY <1>1, <2>1, <2>2, DeleteIsQuiet DEF Admin
  <1>5. ASSUME NEW c \in Checks, CheckUpdate(c) \/ CheckToggle(c)
        PROVE  Table(ledger') /\ Quietly(ledger, ledger') /\ ops' = ops + 1
    <2>1. ledger' = ledger \/ \E kinds : ledger' = ResolveSilently(ledger, c, kinds)
      BY <1>5 DEF CheckUpdate, CheckToggle
    <2>2. Admin
      BY <1>5 DEF CheckUpdate, CheckToggle
    <2> QED
      BY <1>1, <2>1, <2>2, SilentIsQuiet, QuietSelf DEF Admin
  <1>6. ASSUME NEW c \in Checks, CheckDelete(c)
        PROVE  Table(ledger') /\ Quietly(ledger, ledger') /\ ops' = ops + 1
    <2> DEFINE R == ResolveSilently(ledger, c, {"check", "check_tls"})
    <2>1. ledger' = Detach(R, c) /\ Admin
      BY <1>6 DEF CheckDelete
    <2>2. Table(R) /\ Quietly(ledger, R)
      BY <1>1, SilentIsQuiet
    <2>3. \A i \in Ids : R[i].status = "open" => R[i].source # c
      <3>1. \A i \in Ids : R[i].status = "open" /\ R[i].source = c
                           => R[i].kind \notin {"check", "check_tls"}
        BY <1>1, SilentStep DEF Table
      <3> HIDE DEF R
      <3> QED
        BY <2>2, <3>1, SourcesAssumption DEF Table, LedgerOK, RowOK, ServiceKinds
    <2> HIDE DEF R
    <2>4. Table(ledger') /\ Quietly(R, ledger')
      BY <2>1, <2>2, <2>3, DetachIsQuiet
    <2> QED
      BY <2>1, <2>2, <2>4, QuietChain DEF Admin
  <1> QED
    BY <1>2, <1>3, <1>4, <1>5, <1>6 DEF AdminStep

-----------------------------------------------------------------------------
(* The refinement. *)

LEMMA EInitial == Init => EInv
  <1> SUFFICES ASSUME Init PROVE EInv
    OBVIOUS
  <1>1. IInv
    BY Initial
  <1>2. \A i \in Ids : ledger[i] = EmptyRow
    BY DEF Init
  <1> QED
    BY <1>1, <1>2 DEF EInv, Table, IInv

LEMMA StepKeepsPromise ==
    ASSUME EInv, [Next]_vars
    PROVE  /\ EInv'
           /\ \/ Abstract!Work \/ Abstract!Intervene
              \/ UNCHANGED Abstract!promised
  <1>1. IInv' /\ LedgerOK(ledger) /\ Table(ledger)
    BY Inductive DEF EInv, IInv
  <1>2. target'.suppressed \in BOOLEAN
    BY <1>1 DEF IInv, TypeOK
  <1>3. ASSUME NEW r \in Runs, RunStep(r)
        PROVE  Table(ledger') /\ (Abstract!Work \/ UNCHANGED Abstract!promised)
    BY <1>3, RunsKeepPromise
  <1>4. ASSUME AdminStep PROVE Table(ledger') /\ Abstract!Intervene
    <2>1. Table(ledger') /\ Quietly(ledger, ledger') /\ ops' = ops + 1
      BY <1>4, AdminIsQuiet
    <2> QED
      BY <1>1, <1>2, <2>1, InterveneStep DEF Table
  <1>5. ASSUME WorldStep \/ UNCHANGED vars
        PROVE  Table(ledger') /\ UNCHANGED Abstract!promised
    <2>1. UNCHANGED <<target, ledger, ops>>
      BY <1>5 DEF WorldStep, WorldShift, CertShift, HoursShift, config, vars
    <2>2. Table(ledger')
      BY <1>1, <2>1
    <2> QED
      BY <2>1, <2>2, StutterStep
  <1>6. Table(ledger')
    BY <1>3, <1>4, <1>5 DEF Next
  <1>7. EInv'
    BY <1>1, <1>6 DEF EInv, Table, LedgerOK
  <1> QED
    BY <1>3, <1>4, <1>5, <1>7 DEF Next

\* The incident service keeps its promise to the readers of its letters: for
\* every number of checks and overlapping runs, an episode of a stream is one
\* incident, announced while it lasts, recovered in the step that ends it, and
\* only the administrator ends it without a word.
THEOREM PromiseKept == Spec => KeepsPromise
  <1>1. Init => Abstract!PromiseInit
    <2> SUFFICES ASSUME Init PROVE Abstract!PromiseInit
      OBVIOUS
    <2>1. /\ EInv /\ target.suppressed \in BOOLEAN /\ ops = 0
          /\ \A i \in Ids : ledger[i] = EmptyRow
      BY EInitial DEF Init, EInv, IInv, TypeOK
    <2>2. ASSUME NEW s \in IncidentStreams PROVE CurrentIncident(ledger, s) = 0
      <3>1. OpenIds(ledger, s.kind, s.source) = {}
        BY <2>1 DEF OpenIds, EmptyRow
      <3> QED
        BY <3>1 DEF CurrentIncident
    <2>3. Ids \ FreeIds(ledger) = {}
      BY <2>1 DEF FreeIds, EmptyRow
    <2>4. \A i \in Ids : /\ ledger[i].opened = 0 /\ ledger[i].escalated = 0
                         /\ ledger[i].recovered = 0
      BY <2>1 DEF EmptyRow
    <2> QED
      BY <2>1, <2>2, <2>3, <2>4 DEF Abstract!PromiseInit, Abstract!NoLetters
  <1>2. EInv /\ [Next]_vars =>
           EInv' /\ [Abstract!Work \/ Abstract!Intervene]_(Abstract!promised)
    BY StepKeepsPromise
  <1> QED
    BY EInitial, <1>1, <1>2, PTL DEF Spec, KeepsPromise, Abstract!Promise
LEMMA EInvariance == Spec => []EInv
  <1>1. EInv /\ [Next]_vars => EInv'
    BY StepKeepsPromise
  <1> QED
    BY EInitial, <1>1, PTL DEF Spec

-----------------------------------------------------------------------------
(* The unstable-link marker. *)

\* A check that does not exist, or whose outcomes are never marked, has no
\* marker: an incident may open on it although the save leaves the marker alone.
UnmarkedChecks ==
    \A c \in Checks :
        ~check[c].exists \/ check[c].type = "directory" => marker[c] = NoMarker

MInv == OutageExcludesUnstable /\ UnmarkedChecks

LEMMA OutageClearsMarker ==
    ASSUME NEW m, NEW status, NEW before \in BOOLEAN, NEW after \in BOOLEAN, after,
           status # "up", before => m = NoMarker,
           status \notin {"up", "down"} => before
    PROVE  MarkOutcome(m, status, before, after) = NoMarker
  <1>1. CASE status = "down"
    BY <1>1 DEF MarkOutcome
  <1>2. CASE status # "down"
    BY <1>2 DEF MarkOutcome
  <1> QED
    BY <1>1, <1>2

\* A save touches the marker and the outage of one check.
LEMMA MarkerOfOneCheck ==
    ASSUME EInv, MInv, LedgerOK(ledger'), NEW s \in Sources,
           NEW kind \in {"availability", "check"}, Legit(kind, s),
           UNCHANGED check,
           \A t \in Sources : t # s => marker'[t] = marker[t],
           \A k \in {"availability", "check"}, t \in Sources : t # s =>
               OpenIds(ledger', k, t) = OpenIds(ledger, k, t),
           OpenIds(ledger', kind, s) # {} => marker'[s] = NoMarker,
           s \in Checks /\ (~check[s].exists \/ check[s].type = "directory") =>
               marker'[s] = marker[s]
    PROVE  MInv'
  <1>1. ASSUME NEW i \in Ids, ledger'[i].status = "open",
               ledger'[i].kind \in {"availability", "check"}
        PROVE  marker'[ledger'[i].source] = NoMarker
    <2>1. /\ Legit(ledger'[i].kind, ledger'[i].source)
          /\ ledger'[i].source \in Sources
      BY <1>1 DEF LedgerOK, RowOK, Legit, ServiceKinds, Sources
    <2>2. i \in OpenIds(ledger', ledger'[i].kind, ledger'[i].source)
      BY <1>1 DEF OpenIds
    <2>3. CASE ledger'[i].source = s
      <3>1. ledger'[i].kind = kind
        BY <1>1, <2>1, <2>3, SourcesAssumption DEF Legit, ServiceKinds
      <3> QED
        BY <2>2, <2>3, <3>1
    <2>4. CASE ledger'[i].source # s
      <3>1. i \in OpenIds(ledger, ledger'[i].kind, ledger'[i].source)
        BY <1>1, <2>1, <2>2, <2>4
      <3>2. marker[ledger'[i].source] = NoMarker
        BY <1>1, <3>1 DEF MInv, OutageExcludesUnstable, OpenIds
      <3> QED
        BY <2>1, <2>4, <3>2
    <2> QED
      BY <2>3, <2>4
  <1>2. OutageExcludesUnstable'
    BY <1>1 DEF OutageExcludesUnstable
  <1>3. UnmarkedChecks'
    BY DEF MInv, UnmarkedChecks, Sources
  <1> QED
    BY <1>2, <1>3 DEF MInv

\* A step that opens nothing and only clears markers.
LEMMA MarkersOnlyCleared ==
    ASSUME EInv, MInv, Closes(ledger, ledger'), LedgerOK(ledger'),
           \A s \in Sources : marker'[s] \in {marker[s], NoMarker},
           \A c \in Checks : ~check'[c].exists \/ check'[c].type = "directory" =>
               \/ ~check[c].exists \/ check[c].type = "directory"
               \/ marker'[c] = NoMarker
    PROVE  MInv'
  <1>1. ASSUME NEW i \in Ids, ledger'[i].status = "open",
               ledger'[i].kind \in {"availability", "check"}
        PROVE  marker'[ledger'[i].source] = NoMarker
    <2>1. ledger'[i].source \in Sources
      BY <1>1 DEF LedgerOK, RowOK, Sources
    <2>2. marker[ledger'[i].source] = NoMarker
      BY <1>1 DEF Closes, MInv, OutageExcludesUnstable
    <2> QED
      BY <2>1, <2>2
  <1>2. OutageExcludesUnstable'
    BY <1>1 DEF OutageExcludesUnstable
  <1>3. UnmarkedChecks'
    BY DEF MInv, UnmarkedChecks, Sources
  <1> QED
    BY <1>2, <1>3 DEF MInv

LEMMA MarkersInductive ==
    ASSUME EInv, MInv, [Next]_vars
    PROVE  MInv'
  <1> USE DEF environment, config
  <1>1. /\ LedgerOK(ledger) /\ LedgerOK(ledger') /\ TypeOK
        /\ marker \in [Sources -> Marker] /\ check \in [Checks -> CheckRow]
    BY StepKeepsPromise DEF EInv, IInv, Table, TypeOK
  <1>2. CASE UNCHANGED <<check, marker, ledger>>
    BY <1>2 DEF MInv, OutageExcludesUnstable, UnmarkedChecks
  <1>3. ASSUME NEW r \in Runs, SavePrimary(r) PROVE MInv'
    <2>1. Judged(ledger, ledger', "availability", Primary, world[Primary],
                 target.suppressed)
      BY <1>3, PrimarySave
    <2>2. /\ marker' = [marker EXCEPT ![Primary] =
                           MarkOutcome(marker[Primary], world[Primary],
                                       HasOpen(ledger, "availability", Primary),
                                       HasOpen(ledger', "availability", Primary))]
          /\ UNCHANGED check
      BY <1>1, <1>3 DEF SavePrimary, Sources
    <2>3. HasOpen(ledger, "availability", Primary) => marker[Primary] = NoMarker
      BY DEF HasOpen, OpenIds, MInv, OutageExcludesUnstable
    <2>4. OpenIds(ledger', "availability", Primary) # {} => marker'[Primary] = NoMarker
      <3> SUFFICES ASSUME HasOpen(ledger', "availability", Primary)
                   PROVE  marker'[Primary] = NoMarker
        BY DEF HasOpen
      <3>1. /\ world[Primary] # "up"
            /\ world[Primary] \notin {"up", "down"} =>
                  HasOpen(ledger, "availability", Primary)
        BY <2>1 DEF Judged, HasOpen
      <3>2. MarkOutcome(marker[Primary], world[Primary],
                        HasOpen(ledger, "availability", Primary),
                        HasOpen(ledger', "availability", Primary)) = NoMarker
        <4>1. HasOpen(ledger, "availability", Primary) \in BOOLEAN
              /\ HasOpen(ledger', "availability", Primary) \in BOOLEAN
          BY DEF HasOpen
        <4> QED
          BY <2>3, <3>1, <4>1, OutageClearsMarker
      <3> QED
        BY <1>1, <2>2, <3>2 DEF Sources
    <2>5. \A k \in {"availability", "check"}, t \in Sources : t # Primary =>
             OpenIds(ledger', k, t) = OpenIds(ledger, k, t)
      BY <2>1, Elsewhere DEF Judged
    <2>6. \A t \in Sources : t # Primary => marker'[t] = marker[t]
      BY <1>1, <2>2
    <2>7. Primary \in Sources /\ Primary \notin Checks /\ Legit("availability", Primary)
      BY SourcesAssumption DEF Sources, Legit
    <2> QED
      BY <1>1, <2>2, <2>4, <2>5, <2>6, <2>7, MarkerOfOneCheck
  <1>4. ASSUME NEW r \in Runs, NEW c \in Checks, SaveCheck(r, c) PROVE MInv'
    <2>1. PICK M : /\ Judged(ledger, M, "check", c, world[c], target.suppressed)
                   /\ Certified(M, ledger', c, cert[c], target.suppressed)
                   /\ marker' = IF check[c].type = "directory" THEN marker
                                ELSE [marker EXCEPT ![c] =
                                        MarkOutcome(marker[c], world[c],
                                                    HasOpen(ledger, "check", c),
                                                    HasOpen(M, "check", c))]
      BY <1>4, CheckSave
    <2>2. UNCHANGED check /\ check[c].exists /\ c \in Sources
      BY <1>4 DEF SaveCheck, Accepts, Watched, Sources
    <2>3. HasOpen(ledger, "check", c) => marker[c] = NoMarker
      BY DEF HasOpen, OpenIds, MInv, OutageExcludesUnstable
    <2>4. \A k \in {"availability", "check"}, t \in Sources :
             /\ OpenIds(ledger', k, t) = OpenIds(M, k, t)
             /\ t # c => OpenIds(ledger', k, t) = OpenIds(ledger, k, t)
      BY <2>1, Elsewhere DEF Judged, Certified
    <2>5. OpenIds(ledger', "check", c) # {} => marker'[c] = NoMarker
      <3>1. CASE check[c].type = "directory"
        BY <2>1, <3>1 DEF MInv, UnmarkedChecks
      <3>2. CASE check[c].type # "directory"
        <4> SUFFICES ASSUME HasOpen(M, "check", c) PROVE marker'[c] = NoMarker
          BY <2>2, <2>4 DEF HasOpen
        <4>1. /\ world[c] # "up"
              /\ world[c] \notin {"up", "down"} => HasOpen(ledger, "check", c)
          BY <2>1 DEF Judged, HasOpen
        <4>2. HasOpen(ledger, "check", c) \in BOOLEAN /\ HasOpen(M, "check", c) \in BOOLEAN
          BY DEF HasOpen
        <4>3. MarkOutcome(marker[c], world[c], HasOpen(ledger, "check", c),
                          HasOpen(M, "check", c)) = NoMarker
          BY <2>3, <4>1, <4>2, OutageClearsMarker
        <4> QED
          BY <1>1, <2>1, <2>2, <3>2, <4>3
      <3> QED
        BY <3>1, <3>2
    <2>6. \A t \in Sources : t # c => marker'[t] = marker[t]
      BY <1>1, <2>1
    <2>7. check[c].type = "directory" => marker'[c] = marker[c]
      BY <2>1
    <2>8. Legit("check", c)
      BY DEF Legit, ServiceKinds
    <2> QED
      BY <1>1, <2>2, <2>4, <2>5, <2>6, <2>7, <2>8, MarkerOfOneCheck
  <1>5. ASSUME AdminStep PROVE MInv'
    <2>1. Closes(ledger, ledger')
      BY <1>5, AdminIsQuiet DEF Quietly
    <2>2. CASE \/ TargetToggle \/ IncidentTargetDisable \/ TargetUpdate
               \/ SiteToggle \/ SetThreshold \/ IncidentsDelete
      <3>1. UNCHANGED check /\ \A s \in Sources : marker'[s] \in {marker[s], NoMarker}
        BY <1>1, <2>2 DEF TargetToggle, IncidentTargetDisable, TargetUpdate, SiteToggle,
                          SetThreshold, IncidentsDelete, ClearMarkers
      <3> QED
        BY <1>1, <2>1, <3>1, MarkersOnlyCleared
    <2>3. CASE TargetDelete
      <3>1. \A s \in Sources : marker'[s] = NoMarker
        BY <2>3 DEF TargetDelete, ClearMarkers
      <3>2. \A c \in Checks : marker'[c] = NoMarker
        BY <3>1 DEF Sources
      <3> QED
        BY <1>1, <2>1, <3>1, <3>2, MarkersOnlyCleared
    <2>4. ASSUME NEW c \in Checks, CheckCreate(c) PROVE MInv'
      <3>1. /\ UNCHANGED marker /\ ~check[c].exists
            /\ \A d \in Checks : d # c => check'[d] = check[d]
        BY <1>1, <2>4 DEF CheckCreate
      <3> QED
        BY <1>1, <2>1, <3>1, MarkersOnlyCleared
    <2>5. ASSUME NEW c \in Checks, CheckUpdate(c) \/ CheckToggle(c) \/ CheckDelete(c)
          PROVE  MInv'
      <3>1. /\ marker' = [marker EXCEPT ![c] = NoMarker]
            /\ \A d \in Checks : d # c => check'[d] = check[d]
        BY <1>1, <2>5 DEF CheckUpdate, CheckToggle, CheckDelete
      <3>2. /\ \A s \in Sources : marker'[s] \in {marker[s], NoMarker}
            /\ marker'[c] = NoMarker
        BY <1>1, <3>1 DEF Sources
      <3> QED
        BY <1>1, <2>1, <3>1, <3>2, MarkersOnlyCleared
    <2> QED
      BY <1>5, <2>2, <2>3, <2>4, <2>5 DEF AdminStep
  <1>6. CASE WorldStep \/ UNCHANGED vars
    BY <1>2, <1>6 DEF WorldStep, WorldShift, CertShift, HoursShift, vars
  <1>7. ASSUME NEW r \in Runs, RunStep(r) PROVE MInv'
    <2>1. CASE \/ StartRun(r) \/ LosePrimary(r) \/ IgnorePrimary(r)
               \/ \E c \in Checks : IgnoreCheck(r, c)
      BY <1>2, <2>1 DEF StartRun, LosePrimary, IgnorePrimary, IgnoreCheck
    <2> QED
      BY <1>3, <1>4, <1>7, <2>1 DEF RunStep
  <1> QED
    BY <1>5, <1>6, <1>7 DEF Next

\* While a confirmed outage is open its check shows no unstable-link marker and
\* has no unconfirmed DOWN pending, for any number of checks and runs.
THEOREM OutageIsNotUnstable == Spec => []OutageExcludesUnstable
  <1>1. Init => MInv
    BY DEF Init, MInv, OutageExcludesUnstable, UnmarkedChecks, EmptyRow, Sources
  <1>2. EInv /\ MInv /\ [Next]_vars => MInv'
    BY MarkersInductive
  <1>3. MInv => OutageExcludesUnstable
    BY DEF MInv
  <1> QED
    BY EInvariance, <1>1, <1>2, <1>3, PTL DEF Spec
-----------------------------------------------------------------------------
(* What closes an incident. *)

LEMMA RecordLast ==
    ASSUME NEW h \in Seq(Result), NEW r \in Result
    PROVE  /\ Record(h, r) # <<>>
           /\ Record(h, r)[Len(Record(h, r))] = r
  <1> DEFINE longer == Append(h, r)
  <1>1. /\ longer \in Seq(Result) /\ Len(longer) = Len(h) + 1
        /\ longer[Len(longer)] = r /\ Len(h) \in Nat
    BY AppendProperties, LenProperties
  <1>2. CASE Len(longer) > HistoryWindow
    <2>1. Len(longer) > 1 /\ longer # <<>>
      BY <1>1, <1>2, ThresholdAssumption
    <2>2. /\ Tail(longer) \in Seq(Result) /\ Len(Tail(longer)) = Len(longer) - 1
          /\ \A k \in 1..Len(Tail(longer)) : Tail(longer)[k] = longer[k + 1]
      <3> HIDE DEF longer
      <3> QED
        BY <1>1, <2>1, HeadTailProperties
    <2>3. Record(h, r) = Tail(longer)
      BY <1>2 DEF Record
    <2> HIDE DEF longer
    <2>4. Len(Tail(longer)) \in 1..Len(Tail(longer)) /\ Len(Tail(longer)) + 1 = Len(longer)
      BY <1>1, <2>1, <2>2
    <2> QED
      BY <1>1, <2>2, <2>3, <2>4, EmptySeq
  <1>3. CASE ~(Len(longer) > HistoryWindow)
    <2>1. Record(h, r) = longer
      BY <1>3 DEF Record
    <2> QED
      BY <1>1, <2>1, EmptySeq
  <1> QED
    BY <1>2, <1>3

\* Why the row i of source s may be closed in this step.
Cause(i, s) ==
    IF ledger[i].kind = "check_tls"
    THEN ~Watched(s)' \/ ~check'[s].tls \/ cert[s] = "ok"
    ELSE \/ s \in Checks /\ ~Watched(s)'
         \/ history'[s] # <<>> /\ history'[s][Len(history'[s])].status = "up"

\* An UP result is the newest one of its check when the save commits.
LEMMA SavedUp ==
    ASSUME TypeOK, NEW s \in Sources, NEW res \in Result, res.status = "up",
           history' = [history EXCEPT ![s] = Record(history[s], res)]
    PROVE  history'[s] # <<>> /\ history'[s][Len(history'[s])].status = "up"
  <1>1. history'[s] = Record(history[s], res) /\ history[s] \in Seq(Result)
    BY DEF TypeOK
  <1> QED
    BY <1>1, RecordLast

LEMMA RunsResolveForCause ==
    ASSUME EInv, NEW r \in Runs, RunStep(r), NEW i \in Ids, NEW s \in Sources,
           ledger[i].status = "open", ledger[i].source = s,
           ledger'[i].status = "resolved"
    PROVE  Cause(i, s)
  <1>1. TypeOK
    BY DEF EInv, IInv
  <1>2. CASE \/ StartRun(r) \/ LosePrimary(r) \/ IgnorePrimary(r)
             \/ \E c \in Checks : IgnoreCheck(r, c)
    BY <1>2 DEF StartRun, LosePrimary, IgnorePrimary, IgnoreCheck
  <1>3. CASE SavePrimary(r)
    <2> DEFINE res == [status |-> world[Primary], version |-> 0, probed |-> 0]
    <2>1. Judged(ledger, ledger', "availability", Primary, world[Primary],
                 target.suppressed)
      BY <1>3, PrimarySave
    <2>2. /\ i \in OpenIds(ledger, "availability", Primary)
          /\ i \notin OpenIds(ledger', "availability", Primary)
      BY <2>1 DEF Judged, Only, OpenIds
    <2>3. world[Primary] = "up" /\ s = Primary /\ ledger[i].kind = "availability"
      BY <2>1, <2>2 DEF Judged, OpenIds
    <2>4. res \in Result /\ res.status = "up"
      BY <1>1, <2>3 DEF TypeOK, Result, RunState, Sources
    <2>5. history' = [history EXCEPT ![Primary] = Record(history[Primary], res)]
      BY <1>3 DEF SavePrimary
    <2> HIDE DEF res
    <2> QED
      BY <1>1, <2>3, <2>4, <2>5, SavedUp DEF Cause
  <1>4. ASSUME NEW c \in Checks, SaveCheck(r, c) PROVE Cause(i, s)
    <2> DEFINE res == [status |-> world[c], version |-> check[c].version,
                       probed |-> run[r].version[c]]
    <2>1. PICK M : /\ Judged(ledger, M, "check", c, world[c], target.suppressed)
                   /\ Certified(M, ledger', c, cert[c], target.suppressed)
      BY <1>4, CheckSave
    <2>2. CASE M[i].status # "open"
      <3>1. i \in OpenIds(ledger, "check", c) /\ i \notin OpenIds(M, "check", c)
        BY <2>1, <2>2 DEF Judged, Only, OpenIds
      <3>2. world[c] = "up" /\ s = c /\ ledger[i].kind = "check"
        BY <2>1, <3>1 DEF Judged, OpenIds
      <3>3. c \in Sources
        BY DEF Sources
      <3>4. res \in Result /\ res.status = "up"
        BY <1>1, <3>2, <3>3 DEF TypeOK, Result, RunState, CheckRow
      <3>5. history' = [history EXCEPT ![c] = Record(history[c], res)]
        BY <1>4 DEF SaveCheck
      <3> HIDE DEF res
      <3> QED
        BY <1>1, <3>2, <3>3, <3>4, <3>5, SavedUp DEF Cause
    <2>3. CASE M[i].status = "open"
      <3>1. i \in OpenIds(M, "check_tls", c) /\ i \notin OpenIds(ledger', "check_tls", c)
        BY <2>1, <2>3 DEF Certified, Only, OpenIds
      <3>2. cert[c] = "ok" /\ M[i].kind = "check_tls" /\ M[i].source = c
        BY <2>1, <3>1 DEF Certified, OpenIds
      <3>3. ledger[i].kind = "check_tls" /\ s = c
        BY <2>1, <2>3, <3>2 DEF Judged, Only, OpenIds
      <3> QED
        BY <3>2, <3>3 DEF Cause
    <2> QED
      BY <2>2, <2>3
  <1> QED
    BY <1>2, <1>3, <1>4 DEF RunStep

LEMMA AdminResolvesForCause ==
    ASSUME EInv, AdminStep, NEW i \in Ids, NEW s \in Sources,
           ledger[i].status = "open", ledger[i].source = s,
           ledger'[i].status = "resolved"
    PROVE  Cause(i, s)
  <1>1. /\ check \in [Checks -> CheckRow] /\ ledger \in [Ids -> Row]
        /\ Primary \notin Checks
        /\ Legit(ledger[i].kind, s)
    BY SourcesAssumption DEF EInv, IInv, TypeOK, Table, LedgerOK, RowOK, Legit
  <1>2. CASE \/ TargetToggle \/ IncidentTargetDisable \/ TargetUpdate
             \/ SiteToggle \/ SetThreshold \/ \E c \in Checks : CheckCreate(c)
    BY <1>2 DEF TargetToggle, IncidentTargetDisable, TargetUpdate, SiteToggle,
                SetThreshold, CheckCreate
  <1>3. CASE TargetDelete \/ IncidentsDelete
    <2>1. PICK ids : ledger' = DeleteRows(ledger, ids)
      BY <1>3 DEF TargetDelete, IncidentsDelete
    <2>2. ledger'[i] = ledger[i] \/ ledger'[i] = [ledger[i] EXCEPT !.status = "deleted"]
      BY <2>1 DEF DeleteRows
    <2>3. ledger'[i].status # "resolved"
      BY <1>1, <2>2 DEF Row
    <2> QED
      BY <2>3
  <1>4. ASSUME NEW c \in Checks, CheckUpdate(c) PROVE Cause(i, s)
    <2>1. PICK t \in CheckTypes, tls \in BOOLEAN :
             /\ tls => t = "https"
             /\ check' = [check EXCEPT ![c].type = t, ![c].tls = tls, ![c].version = @ + 1]
             /\ ledger' = IF \/ check[c].tls /\ ~tls
                             \/ check[c].type = "https" /\ t # "https"
                          THEN ResolveSilently(ledger, c, {"check_tls"})
                          ELSE ledger
      BY <1>4 DEF CheckUpdate
    <2>2. ledger' = ResolveSilently(ledger, c, {"check_tls"}) /\ ~tls
      BY <2>1
    <2>3. ledger[i].kind = "check_tls" /\ s = c
      BY <2>2 DEF ResolveSilently
    <2>4. check'[c].tls = tls
      BY <1>1, <2>1 DEF CheckRow
    <2> QED
      BY <2>2, <2>3, <2>4 DEF Cause
  <1>5. ASSUME NEW c \in Checks, CheckToggle(c) PROVE Cause(i, s)
    <2>1. ledger' = ResolveSilently(ledger, c, {"check", "check_tls"}) /\ check[c].enabled
      BY <1>5 DEF CheckToggle
    <2>2. s = c
      BY <2>1 DEF ResolveSilently
    <2>3. ~check'[c].enabled
      BY <1>1, <1>5, <2>1 DEF CheckToggle, CheckRow
    <2> QED
      BY <2>2, <2>3 DEF Cause, Watched
  <1>6. ASSUME NEW c \in Checks, CheckDelete(c) PROVE Cause(i, s)
    <2> DEFINE R == ResolveSilently(ledger, c, {"check", "check_tls"})
    <2>1. ledger' = Detach(R, c)
      BY <1>6 DEF CheckDelete
    <2>2. ledger[i].source = c
      <3> SUFFICES ASSUME ledger[i].source # c PROVE FALSE
        OBVIOUS
      <3>1. R[i] = ledger[i]
        BY DEF ResolveSilently
      <3> HIDE DEF R
      <3>2. ledger'[i] = ledger[i]
        BY <2>1, <3>1 DEF Detach
      <3> QED
        BY <3>2
    <2>3. ~check'[c].enabled
      BY <1>1, <1>6 DEF CheckDelete, CheckRow
    <2> QED
      BY <2>2, <2>3 DEF Cause, Watched
  <1> QED
    BY <1>2, <1>3, <1>4, <1>5, <1>6 DEF AdminStep

\* An open incident is resolved by an UP result of its own check (by a good
\* certificate, for TLS) or because its check is no longer watched that way:
\* no unknown result, and no result of another check, ever closes it.
THEOREM NoCauselessRecovery == Spec => ResolvedForCause
  <1>1. ASSUME EInv, [Next]_vars
        PROVE  \A i \in Ids : \A s \in Sources :
                  /\ ledger[i].status = "open" /\ ledger[i].source = s
                  /\ ledger'[i].status = "resolved"
                  => Cause(i, s)
    <2>1. CASE WorldStep \/ UNCHANGED vars
      <3>1. UNCHANGED ledger
        BY <2>1 DEF WorldStep, WorldShift, CertShift, HoursShift, vars
      <3> QED
        BY <3>1
    <2> QED
      BY <1>1, <2>1, RunsResolveForCause, AdminResolvesForCause DEF Next
  <1>2. EInv /\ [Next]_vars =>
           [\A i \in Ids : \A s \in Sources :
               /\ ledger[i].status = "open" /\ ledger[i].source = s
               /\ ledger'[i].status = "resolved"
               => IF ledger[i].kind = "check_tls"
                  THEN ~Watched(s)' \/ ~check'[s].tls \/ cert[s] = "ok"
                  ELSE \/ s \in Checks /\ ~Watched(s)'
                       \/ /\ history'[s] # <<>>
                          /\ history'[s][Len(history'[s])].status = "up"]_vars
    BY <1>1 DEF Cause
  <1> QED
    BY EInvariance, <1>2, PTL DEF Spec, ResolvedForCause
-----------------------------------------------------------------------------
(* What opens an incident. *)

\* The results of a service check: each probed under the version it is stored
\* under, in the order of the versions, which only go up.
Ordered(h, version) ==
    /\ \A k \in 1..Len(h) : h[k].version <= version /\ h[k].probed = h[k].version
    /\ \A j, k \in 1..Len(h) : j <= k => h[j].version <= h[k].version

HistoryInv == \A c \in Checks : Ordered(history[c], check[c].version)

LEMMA RecordIs ==
    ASSUME NEW h \in Seq(Result), NEW r \in Result
    PROVE  /\ Record(h, r) \in Seq(Result)
           /\ \E d \in {0, 1} :
                 /\ Len(Record(h, r)) = Len(h) + 1 - d
                 /\ \A k \in 1..Len(Record(h, r)) :
                       Record(h, r)[k] = IF k = Len(Record(h, r)) THEN r ELSE h[k + d]
  <1> DEFINE longer == Append(h, r)
  <1>1. /\ longer \in Seq(Result) /\ Len(longer) = Len(h) + 1
        /\ \A k \in 1..Len(longer) : longer[k] = IF k = Len(longer) THEN r ELSE h[k]
        /\ Len(h) \in Nat
    BY AppendProperties, LenProperties
  <1>2. CASE Len(longer) > HistoryWindow
    <2>1. longer # <<>>
      BY <1>1, <1>2, ThresholdAssumption
    <2>2. /\ Tail(longer) \in Seq(Result) /\ Len(Tail(longer)) = Len(longer) - 1
          /\ \A k \in 1..Len(Tail(longer)) : Tail(longer)[k] = longer[k + 1]
      <3> HIDE DEF longer
      <3> QED
        BY <1>1, <2>1, HeadTailProperties
    <2>3. Record(h, r) = Tail(longer)
      BY <1>2 DEF Record
    <2> HIDE DEF longer
    <2>4. \A k \in 1..Len(Tail(longer)) :
             Tail(longer)[k] = IF k = Len(Tail(longer)) THEN r ELSE h[k + 1]
      BY <1>1, <2>2
    <2> QED
      BY <1>1, <2>2, <2>3, <2>4
  <1>3. CASE ~(Len(longer) > HistoryWindow)
    <2>1. Record(h, r) = longer
      BY <1>3 DEF Record
    <2> HIDE DEF longer
    <2>2. \A k \in 1..Len(longer) : longer[k] = IF k = Len(longer) THEN r ELSE h[k + 0]
      BY <1>1
    <2> QED
      BY <1>1, <2>1, <2>2
  <1> QED
    BY <1>2, <1>3

LEMMA RecordKeepsOrder ==
    ASSUME NEW h \in Seq(Result), NEW r \in Result, NEW version \in Nat,
           Ordered(h, version), r.version = version, r.probed = version
    PROVE  Ordered(Record(h, r), version)
  <1> DEFINE R == Record(h, r)
  <1>1. PICK d \in {0, 1} :
           /\ Len(R) = Len(h) + 1 - d
           /\ \A k \in 1..Len(R) : R[k] = IF k = Len(R) THEN r ELSE h[k + d]
    BY RecordIs
  <1>2. Len(h) \in Nat /\ Len(R) \in Nat
    BY RecordIs, LenProperties
  <1> HIDE DEF R
  <1>3. \A k \in 1..Len(R) : k # Len(R) => k + d \in 1..Len(h)
    BY <1>1, <1>2
  <1>4. ASSUME NEW k \in 1..Len(R) PROVE R[k].version <= version /\ R[k].probed = R[k].version
    BY <1>1, <1>3, <1>4 DEF Ordered
  <1>5. ASSUME NEW j \in 1..Len(R), NEW k \in 1..Len(R), j <= k
        PROVE  R[j].version <= R[k].version
    <2>1. CASE k = Len(R)
      BY <1>1, <1>4, <2>1
    <2>2. CASE k # Len(R)
      <3>1. j # Len(R) /\ j + d <= k + d
        BY <1>2, <1>5, <2>2
      <3> QED
        BY <1>1, <1>3, <2>2, <3>1 DEF Ordered
    <2> QED
      BY <2>1, <2>2
  <1> QED
    BY <1>4, <1>5 DEF Ordered, R

\* The results of the newest version are the last ones, so that those the
\* query counts are the last of all.
LEMMA SeriesIsLast ==
    ASSUME NEW h \in Seq(Result), NEW version \in Nat, TypeOK,
           Ordered(h, version), ConfirmedCheckFailure(h, version)
    PROVE  /\ Len(h) >= threshold
           /\ \A k \in (Len(h) - threshold + 1)..Len(h) :
                 h[k].status = "down" /\ h[k].probed = version
  <1> DEFINE own == {k \in DOMAIN h : h[k].version = version}
             last == (Len(h) - threshold + 1)..Len(h)
  <1>1. /\ Len(h) \in Nat /\ threshold \in Nat \ {0} /\ DOMAIN h = 1..Len(h)
        /\ \A k \in 1..Len(h) : h[k].version \in Nat
    <2>1. threshold \in Nat \ {0}
      BY ThresholdAssumption DEF TypeOK
    <2>2. /\ Len(h) \in Nat /\ DOMAIN h = 1..Len(h)
          /\ \A k \in 1..Len(h) : h[k] \in Result
      BY LenProperties
    <2>3. \A r \in Result : r.version \in Nat
      BY DEF Result
    <2> QED
      BY <2>1, <2>2, <2>3
  <1>2. /\ Cardinality(own) >= threshold
        /\ \A k \in own :
              Cardinality({j \in own : j >= k}) <= threshold => h[k].status = "down"
    BY DEF ConfirmedCheckFailure
  <1>3. /\ own \subseteq 1..Len(h)
        /\ \A j, k \in 1..Len(h) : j \in own /\ j <= k => k \in own
        /\ \A k \in own : h[k].probed = version
    <2>1. ASSUME NEW j \in 1..Len(h), NEW k \in 1..Len(h), j \in own, j <= k
          PROVE  k \in own
      <3>1. h[j].version <= h[k].version /\ h[k].version <= version
        BY <2>1 DEF Ordered
      <3> QED
        BY <1>1, <2>1, <3>1
    <2> QED
      BY <1>1, <2>1 DEF Ordered
  <1> HIDE DEF own
  <1>4. ASSUME NEW a \in 1..(Len(h) + 1), NEW S \in SUBSET (a..Len(h))
        PROVE  Cardinality(S) \in Nat /\ Cardinality(S) <= Len(h) - a + 1
    <2>1. IsFiniteSet(a..Len(h)) /\ Cardinality(a..Len(h)) = Len(h) - a + 1
      <3>1. a \in Int /\ Len(h) \in Int
        BY <1>1
      <3>2. /\ IsFiniteSet(a..Len(h))
            /\ Cardinality(a..Len(h)) = IF a > Len(h) THEN 0 ELSE Len(h) - a + 1
        BY <3>1, FS_Interval
      <3>3. a > Len(h) => Len(h) - a + 1 = 0
        BY <1>1
      <3> QED
        BY <3>2, <3>3
    <2>2. IsFiniteSet(S) /\ Cardinality(S) <= Cardinality(a..Len(h))
      BY <2>1, FS_Subset
    <2>3. Cardinality(S) \in Nat
      BY <2>2, FS_CardinalityType
    <2> QED
      BY <2>1, <2>2, <2>3
  <1>5. Cardinality(own) \in Nat /\ Cardinality(own) <= Len(h)
    <2>1. 1 \in 1..(Len(h) + 1) /\ own \in SUBSET (1..Len(h))
      BY <1>1, <1>3
    <2> QED
      BY <1>1, <1>4, <2>1
  <1>6. Len(h) >= threshold
    BY <1>1, <1>2, <1>5
  <1>7. ASSUME NEW k \in last PROVE k \in own
    <2>1. SUFFICES ASSUME k \notin own PROVE FALSE
      OBVIOUS
    <2>2. k \in 1..Len(h) /\ k + 1 \in 1..(Len(h) + 1)
      BY <1>1, <1>6
    <2>3. own \in SUBSET ((k + 1)..Len(h))
      <3>1. ASSUME NEW j \in own PROVE j \in (k + 1)..Len(h)
        <4>1. ~(j <= k) /\ j \in 1..Len(h)
          BY <1>3, <2>1, <2>2
        <4> QED
          BY <1>1, <2>2, <4>1
      <3> QED
        BY <3>1
    <2>4. Cardinality(own) <= Len(h) - (k + 1) + 1
      BY <1>4, <2>2, <2>3
    <2> QED
      BY <1>1, <1>2, <1>5, <2>2, <2>4
  <1>8. ASSUME NEW k \in last PROVE h[k].status = "down"
    <2>1. k \in 1..(Len(h) + 1) /\ k \in own
      BY <1>1, <1>6, <1>7
    <2>2. {j \in own : j >= k} \in SUBSET (k..Len(h))
      <3>1. ASSUME NEW j \in own, j >= k PROVE j \in k..Len(h)
        BY <1>1, <1>3, <2>1, <3>1
      <3> QED
        BY <3>1
    <2>3. Cardinality({j \in own : j >= k}) <= Len(h) - k + 1
      BY <1>4, <2>1, <2>2
    <2>4. Cardinality({j \in own : j >= k}) \in Nat
      BY <1>4, <2>1, <2>2
    <2>5. Cardinality({j \in own : j >= k}) <= threshold
      BY <1>1, <2>1, <2>3, <2>4
    <2> QED
      BY <1>2, <2>1, <2>5
  <1> QED
    BY <1>3, <1>6, <1>7, <1>8
LEMMA HistoryBegins == Init => HistoryInv
  <1> SUFFICES ASSUME Init PROVE HistoryInv
    OBVIOUS
  <1>1. \A s \in Sources : history[s] = <<>>
    BY DEF Init
  <1>2. Primary \in Sources /\ Checks \subseteq Sources
    BY DEF Sources
  <1>3. 1..Len(<<>>) = {}
    BY EmptySeq
  <1> QED
    BY <1>1, <1>2, <1>3 DEF HistoryInv, Ordered

\* A newer version leaves the results of the older ones in order.
LEMMA OrderedStill ==
    ASSUME NEW h \in Seq(Result), NEW v \in Nat, NEW w \in Nat, v <= w, Ordered(h, v)
    PROVE  Ordered(h, w)
  <1>1. \A k \in 1..Len(h) : h[k].version \in Nat
    <2>1. \A k \in 1..Len(h) : h[k] \in Result
      BY LenProperties
    <2> QED
      BY <2>1 DEF Result
  <1> QED
    BY <1>1 DEF Ordered

LEMMA HistoryInductive ==
    ASSUME TypeOK, TypeOK', HistoryInv, [Next]_vars
    PROVE  HistoryInv'
  <1> USE DEF config, environment
  <1>1. /\ Primary \in Sources /\ Checks \subseteq Sources /\ Primary \notin Checks
        /\ \A s \in Sources : history[s] \in Seq(Result) /\ history'[s] \in Seq(Result)
        /\ \A c \in Checks : check[c].version \in Nat /\ check'[c].version \in Nat
    <2>1. \A row \in CheckRow : row.version \in Nat
      BY DEF CheckRow
    <2> QED
      BY <2>1, SourcesAssumption DEF TypeOK, Sources
  <1>2. 1..Len(<<>>) = {}
    BY EmptySeq
  <1>3. ASSUME \A s \in Sources : history'[s] = history[s] \/ history'[s] = <<>>,
               \A c \in Checks : check[c].version <= check'[c].version
        PROVE  HistoryInv'
    <2>2. ASSUME NEW c \in Checks PROVE Ordered(history'[c], check'[c].version)
      <3>1. CASE history'[c] = history[c]
        BY <1>1, <1>3, <3>1, OrderedStill DEF HistoryInv
      <3>2. CASE history'[c] = <<>>
        BY <1>2, <3>2 DEF Ordered
      <3> QED
        BY <1>1, <1>3, <3>1, <3>2
    <2> QED
      BY <2>2 DEF HistoryInv
  <1>4. CASE UNCHANGED <<history, check>>
    BY <1>1, <1>3, <1>4
  <1>5. ASSUME NEW r \in Runs, SavePrimary(r) PROVE HistoryInv'
    <2>1. check' = check /\ \A c \in Checks : history'[c] = history[c]
      BY <1>1, <1>5 DEF SavePrimary, TypeOK
    <2> QED
      BY <2>1 DEF HistoryInv
  <1>6. ASSUME NEW r \in Runs, NEW c \in Checks, SaveCheck(r, c) PROVE HistoryInv'
    <2> DEFINE res == [status |-> world[c], version |-> check[c].version,
                       probed |-> run[r].version[c]]
    <2>1. /\ history' = [history EXCEPT ![c] = Record(history[c], res)]
          /\ check' = check /\ check[c].version = run[r].version[c]
      BY <1>6 DEF SaveCheck, Accepts
    <2>2. /\ res \in Result
          /\ res.version = check[c].version /\ res.probed = check[c].version
      <3>1. world[c] \in Statuses
        BY <1>1 DEF TypeOK, RunState
      <3> QED
        BY <1>1, <2>1, <3>1 DEF Result
    <2> HIDE DEF res
    <2>3. /\ history'[c] = Record(history[c], res)
          /\ \A s \in Sources : s # c => history'[s] = history[s]
      BY <1>1, <2>1 DEF TypeOK
    <2>4. Ordered(history'[c], check'[c].version)
      BY <1>1, <2>1, <2>2, <2>3, RecordKeepsOrder DEF HistoryInv
    <2>5. \A o \in Checks : Ordered(history'[o], check'[o].version)
      BY <1>1, <2>1, <2>3, <2>4 DEF HistoryInv
    <2> QED
      BY <1>1, <2>3, <2>5 DEF HistoryInv
  <1>7. CASE TargetDelete
    <2>1. /\ check' = [c \in Checks |-> [check[c] EXCEPT !.exists = FALSE, !.enabled = FALSE]]
          /\ history' = [s \in Sources |-> <<>>]
      BY <1>7 DEF TargetDelete
    <2>2. ASSUME NEW c \in Checks PROVE check'[c].version = check[c].version
      <3>1. check[c] \in CheckRow
        BY DEF TypeOK
      <3>2. check'[c] = [check[c] EXCEPT !.exists = FALSE, !.enabled = FALSE]
        BY <2>1
      <3> QED
        BY <3>1, <3>2 DEF CheckRow
    <2>3. \A c \in Checks : check[c].version <= check'[c].version
      BY <1>1, <2>2
    <2>4. \A s \in Sources : history'[s] = history[s] \/ history'[s] = <<>>
      BY <2>1
    <2> QED
      BY <1>3, <2>3, <2>4
  <1>8. ASSUME NEW c \in Checks, CheckCreate(c) \/ CheckUpdate(c) \/ CheckToggle(c) \/ CheckDelete(c)
        PROVE  HistoryInv'
    <2>1. \A o \in Checks : o # c => check'[o] = check[o]
      BY <1>8 DEF CheckCreate, CheckUpdate, CheckToggle, CheckDelete, TypeOK
    <2>2. check[c].version <= check'[c].version
      <3>1. check \in [Checks -> CheckRow]
        BY DEF TypeOK
      <3>2. CASE CheckCreate(c)
        BY <3>1, <3>2 DEF CheckCreate
      <3>3. CASE CheckUpdate(c)
        BY <1>1, <3>1, <3>3 DEF CheckUpdate, CheckRow
      <3>4. CASE CheckToggle(c)
        BY <1>1, <3>1, <3>4 DEF CheckToggle, CheckRow
      <3>5. CASE CheckDelete(c)
        BY <1>1, <3>1, <3>5 DEF CheckDelete, CheckRow
      <3> QED
        BY <1>8, <3>2, <3>3, <3>4, <3>5
    <2>3. \A s \in Sources : history'[s] = history[s] \/ history'[s] = <<>>
      BY <1>1, <1>8 DEF CheckCreate, CheckUpdate, CheckToggle, CheckDelete, TypeOK
    <2> QED
      BY <1>1, <1>3, <2>1, <2>2, <2>3
  <1>9. CASE \/ \E r \in Runs : \/ StartRun(r) \/ LosePrimary(r) \/ IgnorePrimary(r)
                                \/ \E c \in Checks : IgnoreCheck(r, c)
             \/ TargetToggle \/ IncidentTargetDisable \/ TargetUpdate
             \/ SiteToggle \/ SetThreshold \/ IncidentsDelete \/ WorldStep
             \/ UNCHANGED vars
    <2>1. UNCHANGED <<history, check>>
      BY <1>9 DEF StartRun, LosePrimary, IgnorePrimary, IgnoreCheck, TargetToggle,
                  IncidentTargetDisable, TargetUpdate, SiteToggle, SetThreshold,
                  IncidentsDelete, WorldStep, WorldShift, CertShift, HoursShift, vars
    <2> QED
      BY <1>4, <2>1
  <1> QED
    BY <1>5, <1>6, <1>7, <1>8, <1>9 DEF Next, RunStep, AdminStep
\* The evidence for an incident of source s in the next state.
Proven(s) ==
    /\ Len(history'[s]) >= threshold
    /\ \A e \in Evidence(history'[s], threshold) :
          e.status = "down" /\ (s \in Checks => e.probed = check[s].version)

LEMMA SavesOpenByEvidence ==
    ASSUME EInv, TypeOK', HistoryInv', NEW r \in Runs, NEW i \in Ids,
           SavePrimary(r) \/ \E c \in Checks : SaveCheck(r, c),
           ledger[i].status = "free", ledger'[i].status = "open",
           ledger'[i].kind \in {"availability", "check"}
    PROVE  Proven(ledger'[i].source)
  <1>1. TypeOK /\ Table(ledger) /\ LedgerOK(ledger) /\ Primary \notin Checks
    BY SourcesAssumption DEF EInv, IInv
  <1>2. ASSUME SavePrimary(r) PROVE Proven(ledger'[i].source)
    <2> DEFINE res == [status |-> world[Primary], version |-> 0, probed |-> 0]
               confirmed == ConfirmedFailure(Record(history[Primary], res))
    <2>1. ledger' = ProcessOutcome(ledger, "availability", Primary, "none",
                                   world[Primary], confirmed, target.suppressed)
      BY <1>2 DEF SavePrimary
    <2>2. confirmed
      <3>1. confirmed \in BOOLEAN
        BY DEF ConfirmedFailure, LastDown
      <3> HIDE DEF confirmed
      <3> QED
        BY <1>1, <2>1, <3>1, OutcomeOpens DEF Opened
    <2>3. history'[Primary] = Record(history[Primary], res)
      BY <1>1, <1>2 DEF SavePrimary, TypeOK, Sources
    <2>4. ledger'[i].source = Primary
      <3>1. Only(ledger, ledger', "availability", Primary)
        BY <1>2, PrimarySave DEF Judged
      <3> QED
        BY <3>1 DEF Only
    <2>5. LastDown(history'[Primary], threshold)
      BY <2>2, <2>3 DEF ConfirmedFailure
    <2> HIDE DEF res, confirmed
    <2> QED
      BY <1>1, <2>4, <2>5 DEF Proven, LastDown, Evidence
  <1>3. ASSUME NEW c \in Checks, SaveCheck(r, c) PROVE Proven(ledger'[i].source)
    <2>1. PICK M : /\ Judged(ledger, M, "check", c, world[c], target.suppressed)
                   /\ Certified(M, ledger', c, cert[c], target.suppressed)
                   /\ Opened(ledger, M,
                             ConfirmedCheckFailure(history'[c], check[c].version))
      BY <1>3, CheckSave
    <2>2. Only(ledger, M, "check", c) /\ Only(M, ledger', "check_tls", c)
      BY <2>1 DEF Judged, Certified
    <2>3. M[i].status = "open" /\ M[i].kind = "check" /\ M[i].source = c
      <3>1. M[i] # ledger[i]
        BY <2>2 DEF Only, OpenIds
      <3>2. M[i].status = "open"
        BY <2>2, <3>1 DEF Only, OpenIds
      <3> QED
        BY <2>2, <3>1, <3>2 DEF Only
    <2>4. ledger'[i] = M[i]
      BY <2>2, <2>3 DEF Only, OpenIds
    <2>5. ConfirmedCheckFailure(history'[c], check[c].version)
      BY <2>1, <2>3 DEF Opened
    <2>6. /\ history'[c] \in Seq(Result) /\ check[c].version \in Nat
          /\ threshold' = threshold /\ check' = check
          /\ Ordered(history'[c], check[c].version)
      <3>1. check[c] \in CheckRow /\ c \in Sources
        BY <1>1 DEF TypeOK, Sources
      <3> QED
        BY <1>3, <3>1 DEF SaveCheck, HistoryInv, TypeOK, CheckRow, config
    <2>7. /\ Len(history'[c]) >= threshold
          /\ \A k \in (Len(history'[c]) - threshold + 1)..Len(history'[c]) :
                history'[c][k].status = "down" /\ history'[c][k].probed = check[c].version
      <3> DEFINE h == history'[c]
                 v == check[c].version
      <3>1. h \in Seq(Result) /\ v \in Nat /\ Ordered(h, v) /\ ConfirmedCheckFailure(h, v)
        BY <2>5, <2>6
      <3> HIDE DEF h, v
      <3>2. /\ Len(h) >= threshold
            /\ \A k \in (Len(h) - threshold + 1)..Len(h) :
                  h[k].status = "down" /\ h[k].probed = v
        BY <1>1, <3>1, SeriesIsLast
      <3> QED
        BY <3>2 DEF h, v
    <2> QED
      BY <1>1, <2>3, <2>4, <2>7 DEF Proven, Evidence
  <1> QED
    BY <1>2, <1>3

LEMMA AdminOpensNothing ==
    ASSUME EInv, AdminStep, NEW i \in Ids, ledger[i].status = "free"
    PROVE  ledger'[i].status # "open"
  <1>1. ledger \in [Ids -> Row]
    BY DEF EInv, IInv, TypeOK
  <1>2. CASE UNCHANGED ledger
    BY <1>2
  <1>3. ASSUME NEW c, NEW kinds, ledger' = ResolveSilently(ledger, c, kinds)
        PROVE  ledger'[i].status # "open"
    BY <1>3 DEF ResolveSilently
  <1>4. ASSUME NEW c, NEW kinds, ledger' = Detach(ResolveSilently(ledger, c, kinds), c)
        PROVE  ledger'[i].status # "open"
    <2>1. ResolveSilently(ledger, c, kinds)[i] = ledger[i]
      BY DEF ResolveSilently
    <2>2. ledger'[i] = ledger[i] \/ ledger'[i] = [ledger[i] EXCEPT !.source = Detached]
      BY <1>4, <2>1 DEF Detach
    <2> QED
      BY <1>1, <2>2 DEF Row
  <1>5. ASSUME NEW ids, ledger' = DeleteRows(ledger, ids)
        PROVE  ledger'[i].status # "open"
    <2>1. ledger'[i] = ledger[i] \/ ledger'[i] = [ledger[i] EXCEPT !.status = "deleted"]
      BY <1>5 DEF DeleteRows
    <2> QED
      BY <1>1, <2>1 DEF Row
  <1>6. \/ UNCHANGED ledger
        \/ \E c \in Checks, kinds \in SUBSET ServiceKinds :
              \/ ledger' = ResolveSilently(ledger, c, kinds)
              \/ ledger' = Detach(ResolveSilently(ledger, c, kinds), c)
        \/ \E ids \in SUBSET Ids : ledger' = DeleteRows(ledger, ids)
    <2>1. CASE \/ TargetToggle \/ IncidentTargetDisable \/ TargetUpdate \/ SiteToggle
               \/ SetThreshold \/ \E c \in Checks : CheckCreate(c)
      BY <2>1 DEF TargetToggle, IncidentTargetDisable, TargetUpdate, SiteToggle,
                  SetThreshold, CheckCreate
    <2>2. CASE TargetDelete \/ IncidentsDelete
      <3>1. PICK ids : ledger' = DeleteRows(ledger, ids)
        BY <2>2 DEF TargetDelete, IncidentsDelete
      <3>2. ledger' = DeleteRows(ledger, ids \cap Ids)
        BY <3>1 DEF DeleteRows
      <3> QED
        BY <3>2
    <2>3. CASE \E c \in Checks : CheckUpdate(c) \/ CheckToggle(c) \/ CheckDelete(c)
      BY <2>3 DEF CheckUpdate, CheckToggle, CheckDelete, ServiceKinds
    <2> QED
      BY <2>1, <2>2, <2>3 DEF AdminStep
  <1> QED
    BY <1>2, <1>3, <1>4, <1>5, <1>6

\* An availability or service incident opens only on as many DOWN results in a
\* row as the threshold asks.  Those of a service check are all of the version
\* that is current then: no result of an older one counts, and no later edit
\* adopts the old failures.
THEOREM OpenedOnEvidence == Spec => OpenedByOwnSeries
  <1>1. Init => HistoryInv
    BY HistoryBegins
  <1>2. EInv /\ EInv' /\ HistoryInv /\ [Next]_vars => HistoryInv'
    BY HistoryInductive DEF EInv, IInv
  <1>3. ASSUME EInv, EInv', HistoryInv', [Next]_vars
        PROVE  \A i \in Ids :
                  /\ ledger[i].status = "free" /\ ledger'[i].status = "open"
                  /\ ledger'[i].kind \in {"availability", "check"}
                  => Proven(ledger'[i].source)
    <2>1. TypeOK'
      BY <1>3 DEF EInv, IInv
    <2>2. CASE \/ WorldStep \/ UNCHANGED vars
               \/ \E r \in Runs : \/ StartRun(r) \/ LosePrimary(r) \/ IgnorePrimary(r)
                                  \/ \E c \in Checks : IgnoreCheck(r, c)
      <3>1. UNCHANGED ledger
        BY <2>2 DEF WorldStep, WorldShift, CertShift, HoursShift, vars,
                    StartRun, LosePrimary, IgnorePrimary, IgnoreCheck
      <3> QED
        BY <3>1
    <2>3. CASE AdminStep
      BY <1>3, <2>3, AdminOpensNothing
    <2>4. CASE \E r \in Runs : SavePrimary(r) \/ \E c \in Checks : SaveCheck(r, c)
      BY <1>3, <2>1, <2>4, SavesOpenByEvidence
    <2> QED
      BY <1>3, <2>2, <2>3, <2>4 DEF Next, RunStep
  <1>4. EInv /\ EInv' /\ HistoryInv' /\ [Next]_vars =>
           [\A i \in Ids :
               LET s == ledger'[i].source IN
               /\ ledger[i].status = "free"
               /\ ledger'[i].status = "open"
               /\ ledger'[i].kind \in {"availability", "check"}
               => /\ Len(history'[s]) >= threshold
                  /\ \A e \in Evidence(history'[s], threshold) :
                        /\ e.status = "down"
                        /\ s \in Checks => e.probed = check[s].version]_vars
    BY <1>3 DEF Proven
  <1> QED
    BY EInvariance, <1>1, <1>2, <1>4, PTL DEF Spec, OpenedByOwnSeries
=============================================================================
