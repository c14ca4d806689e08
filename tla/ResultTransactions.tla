------------------------- MODULE ResultTransactions -------------------------
(***************************************************************************)
(* The transactions that IncidentLifecycle takes as single steps, split at *)
(* their statements, for one check: save_result for the primary check or   *)
(* save_target_check_result for a service check, against the toggle and    *)
(* the deletion of the check and the deletion of incidents.  PostgreSQL    *)
(* runs them at READ COMMITTED: a SELECT sees what is committed at that    *)
(* moment and the transaction's own writes, rows found earlier may have    *)
(* changed since, and no constraint of the schema says that an open        *)
(* incident is unique.  A result references the row of its check, so its   *)
(* INSERT keeps that row from being deleted until the transaction ends.    *)
(***************************************************************************)
EXTENDS Integers, Sequences, FiniteSets

CONSTANTS Savers,        \* worker threads that save results
          Kinds,         \* of the check: TRUE for a service check, FALSE for
                         \* the primary one
          Threshold,     \* failures_before_incident
          MaxIncidents,  \* bound: rows of the table of incidents
          MaxSaves,      \* bound: results saved
          MaxOps         \* bound: actions of the administrator

ASSUME KindsAssumption == Kinds \subseteq BOOLEAN
ASSUME ThresholdAssumption == Threshold \in Nat \ {0}
ASSUME BoundsAssumption ==
    MaxIncidents \in Nat /\ MaxSaves \in Nat /\ MaxOps \in Nat

VARIABLES
    row,        \* the committed row of the check
    results,    \* its results in the order of their INSERTs
    incidents,  \* the committed rows of its incidents
    saver,      \* the transactions of the workers
    admin,      \* the transaction of the administrator
    overlapped, \* history: two workers had results of the check at once
    saves, ops

vars == <<row, results, incidents, saver, admin, overlapped, saves, ops>>
budgets == <<overlapped, saves, ops>>

Ids == 1..MaxIncidents
NoIncident == 0
Statuses == {"up", "down", "unknown"}

IncidentRow == [status: {"free", "open", "resolved", "deleted"},
                attached: BOOLEAN, opened: Nat, recovered: Nat]
Result == [by: Savers, status: Statuses, version: Nat, probed: Nat,
           committed: BOOLEAN]
SaverState == [pc: {"idle", "probed", "read", "inserted", "unconfirmed", "ready"},
               probed: Nat, version: Nat, status: Statuses,
               incident: Ids \cup {NoIncident}, announced: BOOLEAN,
               confirmed: BOOLEAN, quiet: BOOLEAN]
AdminState == [pc: {"idle", "toggle", "toggling", "delete", "selected", "deleting"},
               ids: SUBSET Ids, version: Nat, enabled: BOOLEAN]

OpenIds == {i \in Ids : incidents[i].status = "open" /\ incidents[i].attached}
FreeIds == {i \in Ids : incidents[i].status = "free"}

-----------------------------------------------------------------------------
(* A worker: the probe, and the statements of its transaction. *)

Idle == [pc |-> "idle", probed |-> 0, version |-> 0, status |-> "up",
         incident |-> NoIncident, announced |-> FALSE, confirmed |-> FALSE,
         quiet |-> FALSE]

\* The check is loaded and its probe starts.
Probe(s) ==
    /\ saver[s].pc = "idle" /\ saves < MaxSaves
    /\ row.exists /\ row.enabled
    /\ saves' = saves + 1
    /\ \E v \in Statuses :
          saver' = [saver EXCEPT ![s].pc = "probed", ![s].status = v,
                                 ![s].probed = row.version]
    /\ overlapped' = (overlapped \/ \E o \in Savers : saver[o].pc # "idle")
    /\ UNCHANGED <<row, results, incidents, admin, ops>>

\* Mutant: the version is not compared.
FreshAnyVersion(s) == row.exists /\ row.enabled

Fresh(s) ==
    /\ row.exists /\ row.enabled
    /\ row.service => row.version = saver[s].probed

\* Mutant: a stale result does not end the transaction.
ReadRowKeepsStale(s) ==
    /\ saver[s].pc = "probed" /\ Fresh(s)
    /\ saver' = [saver EXCEPT ![s].pc = "read", ![s].version = row.version,
                             ![s].quiet = row.muted]
    /\ UNCHANGED <<row, results, incidents, admin, budgets>>

\* The row of the check is read once; nothing holds it after that.
ReadRow(s) ==
    /\ saver[s].pc = "probed"
    /\ saver' = [saver EXCEPT ![s] =
                    IF Fresh(s)
                    THEN [@ EXCEPT !.pc = "read", !.version = row.version,
                                   !.quiet = row.muted]
                    ELSE Idle]
    /\ UNCHANGED <<row, results, incidents, admin, budgets>>

InsertResult(s) ==
    /\ saver[s].pc = "read" /\ row.exists
    /\ results' = Append(results,
                      [by |-> s, status |-> saver[s].status,
                       version |-> saver[s].version, probed |-> saver[s].probed,
                       committed |-> FALSE])
    /\ saver' = [saver EXCEPT ![s].pc = "inserted"]
    /\ UNCHANGED <<row, incidents, admin, budgets>>

\* The foreign key refuses a result of a check deleted since ReadRow.
InsertRefused(s) ==
    /\ saver[s].pc = "read" /\ ~row.exists
    /\ saver' = [saver EXCEPT ![s] = Idle]
    /\ UNCHANGED <<row, results, incidents, admin, budgets>>

\* Mutant: an incident whose letter was tried is not found.
ReadIncidentUnannounced(s) ==
    LET found == {i \in OpenIds : incidents[i].opened = 0}
    IN  /\ saver[s].pc = "inserted"
        /\ IF found = {}
           THEN saver' = [saver EXCEPT ![s].pc =
                             IF saver[s].status = "down" THEN "unconfirmed"
                                                         ELSE "ready"]
           ELSE \E i \in found :
                   saver' = [saver EXCEPT ![s].pc = "ready", ![s].incident = i]
        /\ UNCHANGED <<row, results, incidents, admin, budgets>>

ReadIncident(s) ==
    LET found == {i \in OpenIds : \A j \in OpenIds : j <= i}
    IN  /\ saver[s].pc = "inserted"
        /\ IF found = {}
           THEN saver' = [saver EXCEPT ![s].pc =
                             IF saver[s].status = "down" THEN "unconfirmed"
                                                         ELSE "ready"]
           ELSE \E i \in found :
                   saver' = [saver EXCEPT ![s].pc = "ready", ![s].incident = i,
                                ![s].announced = incidents[i].opened > 0]
        /\ UNCHANGED <<row, results, incidents, admin, budgets>>

\* The results a worker counts, by their places: committed ones and its own, of the
\* version it has read if the check is versioned; and the newest of them.
Counted(s) ==
    {k \in DOMAIN results : /\ results[k].committed \/ results[k].by = s
                            /\ row.service => results[k].version = saver[s].version}
Newest(S, n) == {k \in S : Cardinality({j \in S : j >= k}) <= n}
Series(s) == {results[k] : k \in Newest(Counted(s), Threshold)}

ReadHistory(s) ==
    /\ saver[s].pc = "unconfirmed"
    /\ saver' = [saver EXCEPT ![s].pc = "ready",
                    ![s].confirmed = /\ Cardinality(Counted(s)) >= Threshold
                                     /\ \A r \in Series(s) : r.status = "down"]
    /\ UNCHANGED <<row, results, incidents, admin, budgets>>

Writes(s) == saver[s].incident # NoIncident /\ saver[s].status \in {"up", "down"}
Locked(i) == admin.pc = "deleting" /\ i \in admin.ids

\* The results without the one that the worker has inserted and not committed.
Inserted(s) == CHOOSE k \in DOMAIN results : results[k].by = s /\ ~results[k].committed
RolledBack(s) ==
    [k \in 1..(Len(results) - 1) |-> results[IF k < Inserted(s) THEN k ELSE k + 1]]

\* Mutant: every DOWN sends the opening letter, every UP the recovery letter.
UpdateIncidentAlwaysTells(s, i) ==
    incidents' =
        IF saver[s].status = "down"
        THEN [incidents EXCEPT ![i].opened = @ + 1]
        ELSE [incidents EXCEPT ![i].status = "resolved", ![i].recovered = @ + 1]

\* The UPDATE of an incident writes what the worker changed in the row it has
\* read, whatever the row has become, and needs the row to be there.
UpdateIncident(s, i) ==
    incidents' =
        IF saver[s].status = "down"
        THEN [incidents EXCEPT ![i].opened =
                 IF saver[s].quiet \/ saver[s].announced THEN @ ELSE @ + 1]
        ELSE [incidents EXCEPT ![i].status = "resolved",
                 ![i].recovered =
                 IF saver[s].quiet \/ ~saver[s].announced THEN @ ELSE @ + 1]

\* The INSERT of a new incident, flushed just before the commit.
OpenIncident(s) ==
    IF saver[s].confirmed
    THEN \E i \in FreeIds :
            /\ \A j \in FreeIds : i <= j
            /\ incidents' = [incidents EXCEPT ![i] =
                                [status |-> "open", attached |-> TRUE,
                                 opened |-> IF saver[s].quiet THEN 0 ELSE 1,
                                 recovered |-> 0]]
    ELSE UNCHANGED incidents

Commit(s) ==
    /\ saver[s].pc = "ready"
    /\ IF Writes(s)
       THEN /\ incidents[saver[s].incident].status # "deleted"
            /\ ~Locked(saver[s].incident)
            /\ UpdateIncident(s, saver[s].incident)
       ELSE OpenIncident(s)
    /\ results' = [k \in DOMAIN results |->
                      IF results[k].by = s THEN [results[k] EXCEPT !.committed = TRUE]
                                           ELSE results[k]]
    /\ saver' = [saver EXCEPT ![s] = Idle]
    /\ UNCHANGED <<row, admin, budgets>>

\* The incident was deleted since ReadIncident: its UPDATE finds no row, and
\* the whole transaction is rolled back.
StaleUpdate(s) ==
    /\ saver[s].pc = "ready" /\ Writes(s)
    /\ incidents[saver[s].incident].status = "deleted"
    /\ results' = RolledBack(s)
    /\ saver' = [saver EXCEPT ![s] = Idle]
    /\ UNCHANGED <<row, incidents, admin, budgets>>

-----------------------------------------------------------------------------
(* The administrator: one request at a time. *)

AdminIdle == [pc |-> "idle", ids |-> {}, version |-> 0, enabled |-> FALSE]
Begin(pc) ==
    /\ admin.pc = "idle" /\ ops < MaxOps /\ row.exists
    /\ ops' = ops + 1
    /\ admin' = [pc |-> pc, ids |-> {}, version |-> row.version,
                 enabled |-> row.enabled]
    /\ UNCHANGED <<row, results, incidents, saver, overlapped, saves>>

BeginToggle == Begin("toggle")
BeginDelete == Begin("delete")

\* Disabling a service check selects its open incidents; nothing is selected
\* when it is enabled, or for the object itself.
SelectToggled ==
    /\ admin.pc = "toggle"
    /\ admin' = [admin EXCEPT !.pc = "toggling",
                    !.ids = IF row.service /\ admin.enabled THEN OpenIds ELSE {}]
    /\ UNCHANGED <<row, results, incidents, saver, budgets>>

ResolveSelected ==
    [i \in Ids |-> IF i \in admin.ids
                   THEN [incidents[i] EXCEPT !.status = "resolved"]
                   ELSE incidents[i]]

CommitToggle ==
    /\ admin.pc = "toggling"
    /\ row' = [row EXCEPT !.enabled = ~admin.enabled,
                          !.version = IF row.service THEN admin.version + 1 ELSE @]
    /\ incidents' = ResolveSelected
    /\ admin' = AdminIdle
    /\ UNCHANGED <<results, saver, budgets>>

SelectDeleted ==
    /\ admin.pc = "delete"
    /\ admin' = [admin EXCEPT !.pc = "selected", !.ids = OpenIds]
    /\ UNCHANGED <<row, results, incidents, saver, budgets>>

\* The changed incidents are written first and stay locked to the end.
LockDeleted ==
    /\ admin.pc = "selected"
    /\ admin' = [admin EXCEPT !.pc = "deleting"]
    /\ UNCHANGED <<row, results, incidents, saver, budgets>>

References(s) == saver[s].pc \in {"inserted", "unconfirmed", "ready"}

\* Mutant: the incidents of a deleted object are forgotten.
CommitDeleteKeepsIncidents ==
    /\ admin.pc = "deleting"
    /\ \A s \in Savers : ~References(s)
    /\ row' = [row EXCEPT !.exists = FALSE, !.enabled = FALSE]
    /\ results' = <<>>
    /\ admin' = AdminIdle
    /\ UNCHANGED <<incidents, saver, budgets>>

\* The DELETE of the row waits for every transaction with a result of it.  The
\* incidents of an object go with it; those of a service check lose check_id.
CommitDelete ==
    /\ admin.pc = "deleting"
    /\ \A s \in Savers : ~References(s)
    /\ row' = [row EXCEPT !.exists = FALSE, !.enabled = FALSE]
    /\ incidents' =
          IF row.service
          THEN [i \in Ids |-> [ResolveSelected[i] EXCEPT !.attached = FALSE]]
          ELSE [i \in Ids |->
                   IF incidents[i].status \in {"open", "resolved"}
                   THEN [incidents[i] EXCEPT !.status = "deleted"]
                   ELSE incidents[i]]
    /\ results' = <<>>
    /\ admin' = AdminIdle
    /\ UNCHANGED <<saver, budgets>>

\* The worker waits for the incident, the administrator for the worker's
\* result: PostgreSQL ends one of the two transactions.
BreakDeadlock(s) ==
    /\ admin.pc = "deleting"
    /\ saver[s].pc = "ready" /\ Writes(s) /\ Locked(saver[s].incident)
    /\ \/ /\ results' = RolledBack(s)
          /\ saver' = [saver EXCEPT ![s] = Idle]
          /\ UNCHANGED admin
       \/ /\ admin' = AdminIdle
          /\ UNCHANGED <<results, saver>>
    /\ UNCHANGED <<row, incidents, budgets>>

\* incident_delete and the bulk deletions: one statement and its commit.
DeleteIncident(i) ==
    /\ admin.pc = "idle" /\ ops < MaxOps
    /\ ops' = ops + 1
    /\ incidents[i].status \in {"open", "resolved"}
    /\ incidents' = [incidents EXCEPT ![i].status = "deleted"]
    /\ UNCHANGED <<row, results, saver, admin, overlapped, saves>>

\* target_update: the flag notifications_suppressed.
ToggleMute ==
    /\ admin.pc = "idle" /\ ops < MaxOps /\ row.exists
    /\ ops' = ops + 1
    /\ row' = [row EXCEPT !.muted = ~@]
    /\ UNCHANGED <<results, incidents, saver, admin, overlapped, saves>>

-----------------------------------------------------------------------------
Init ==
    /\ \E k \in Kinds :
          row = [service |-> k, exists |-> TRUE, enabled |-> TRUE,
                 version |-> 1, muted |-> FALSE]
    /\ results = <<>>
    /\ incidents = [i \in Ids |-> [status |-> "free", attached |-> FALSE,
                                   opened |-> 0, recovered |-> 0]]
    /\ saver = [s \in Savers |-> Idle]
    /\ admin = AdminIdle
    /\ overlapped = FALSE
    /\ saves = 0
    /\ ops = 0

Statement(s) ==
    \/ ReadRow(s) \/ InsertResult(s) \/ InsertRefused(s) \/ ReadIncident(s)
    \/ ReadHistory(s) \/ Commit(s) \/ StaleUpdate(s)

AdminStatement ==
    \/ SelectToggled \/ CommitToggle
    \/ SelectDeleted \/ LockDeleted \/ CommitDelete

Next ==
    \/ \E s \in Savers : Probe(s) \/ Statement(s) \/ BreakDeadlock(s)
    \/ BeginToggle \/ BeginDelete \/ ToggleMute \/ AdminStatement
    \/ \E i \in Ids : DeleteIncident(i)

Spec == Init /\ [][Next]_vars

\* A transaction that can take its next statement takes it.
FairSpec ==
    /\ Spec
    /\ WF_vars(AdminStatement)
    /\ \A s \in Savers : WF_vars(Statement(s)) /\ WF_vars(BreakDeadlock(s))

-----------------------------------------------------------------------------
\* Every variable keeps its type.
TypeOK ==
    /\ row \in [service: Kinds, exists: BOOLEAN, enabled: BOOLEAN,
               version: Nat, muted: BOOLEAN]
    /\ results \in Seq(Result)
    /\ incidents \in [Ids -> IncidentRow]
    /\ saver \in [Savers -> SaverState]
    /\ admin \in AdminState
    /\ overlapped \in BOOLEAN
    /\ saves \in Nat
    /\ ops \in Nat

\* A check has at most one open incident.
OneOpenIncident == \A i, j \in OpenIds : i = j

\* As long as no two workers save results of one check at the same time, it has
\* at most one open incident, whatever the administrator commits in between.
SequentialSavesShareIncident == ~overlapped => OneOpenIncident

\* No recovery letter without an opening one, even when two workers or the administrator
\* change the incident between its SELECT and its UPDATE; and without an overlap at most one
\* of each, although the flags that prevent a second one are read before they are written.
LettersInOrder ==
    \A i \in Ids :
        /\ incidents[i].recovered > 0 => incidents[i].opened > 0
        /\ ~overlapped => incidents[i].opened <= 1 /\ incidents[i].recovered <= 1

OpenIncidentRows == {i \in Ids : incidents[i].status = "open"}

\* A deleted object leaves no open incident behind: the rows of a save that
\* finishes during the deletion go with it.
DeletedObjectIsResolved ==
    ~row.exists /\ ~row.service => OpenIncidentRows = {}

\* A deleted check leaves no open incident behind.
DeletedCheckIsResolved == ~row.exists => OpenIncidentRows = {}

\* Without an overlap the results that confirm an incident are all DOWN, and all
\* probed under the version of the configuration its transaction has read.
OpeningIsOfOneVersion ==
    [][\A i \in Ids :
          /\ ~overlapped
          /\ incidents[i].status = "free" /\ incidents'[i].status = "open"
          => \E s \in Savers :
                /\ saver[s].pc = "ready" /\ saver'[s].pc = "idle"
                /\ \A r \in Series(s) :
                      /\ r.status = "down"
                      /\ row.service => r.probed = saver[s].version]_vars

\* No transaction waits for ever, for a lock or for another transaction.
TransactionsEnd ==
    /\ admin.pc # "idle" ~> admin.pc = "idle"
    /\ \A s \in Savers : saver[s].pc # "idle" ~> saver[s].pc = "idle"
=============================================================================
