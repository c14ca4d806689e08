----------------------- MODULE ResultTransactionsProofs -----------------------
(***************************************************************************)
(* Safety of the split transactions, for any number of workers, results,   *)
(* incidents and actions of the administrator.  The argument: what a       *)
(* worker has read of an incident stays true enough while it waits to      *)
(* write.  An announced letter is never taken back, a row it has read is   *)
(* never free again, and without an overlap nobody but the administrator   *)
(* can change the row, who sends no letter and opens no incident.          *)
(* The results are stored in order and removed only with their worker, so  *)
(* that the series that confirmed an incident still confirms it.           *)
(***************************************************************************)
EXTENDS ResultTransactions, SequenceTheorems, TLAPS

\* The types the argument needs: those of every variable but the results.
Shapes ==
    /\ row \in [service: Kinds, exists: BOOLEAN, enabled: BOOLEAN,
               version: Nat, muted: BOOLEAN]
    /\ incidents \in [Ids -> IncidentRow]
    /\ saver \in [Savers -> SaverState]
    /\ admin \in AdminState
    /\ overlapped \in BOOLEAN

\* What a worker knows of the incident it will write, and of nothing before
\* it has read one.
Informed(x) ==
    /\ x.pc # "ready" => x.incident = NoIncident /\ ~x.confirmed
    /\ x.incident = NoIncident => ~x.announced
    /\ x.incident # NoIncident =>
          /\ ~x.confirmed
          /\ incidents[x.incident].status # "free"
          /\ x.announced => incidents[x.incident].opened > 0

\* What it knows besides while no other worker has results of the check.
InformedAlone(x) ==
    /\ x.incident # NoIncident =>
          /\ incidents[x.incident].recovered = 0
          /\ ~x.announced => incidents[x.incident].opened = 0
    /\ x.pc = "unconfirmed" \/ x.confirmed => OpenIds = {}

RecoveryNeedsOpening ==
    \A i \in Ids : incidents[i].recovered > 0 => incidents[i].opened > 0

OneLetterOfEach ==
    \A i \in Ids :
        /\ incidents[i].opened <= 1 /\ incidents[i].recovered <= 1
        /\ incidents[i].status = "open" => incidents[i].recovered = 0

OneWorker ==
    \A s, t \in Savers : saver[s].pc # "idle" /\ saver[t].pc # "idle" => s = t

Alone ==
    ~overlapped =>
        /\ OneWorker /\ OneLetterOfEach /\ OneOpenIncident
        /\ \A s \in Savers : InformedAlone(saver[s])

\* A row that is gone has no result in flight.
GoneIsQuiet == ~row.exists => \A s \in Savers : ~References(s)

RInv ==
    /\ Shapes
    /\ \A s \in Savers : Informed(saver[s])
    /\ RecoveryNeedsOpening
    /\ Alone
    /\ GoneIsQuiet
    /\ DeletedObjectIsResolved
LEMMA NoIncidentIsNoRow == NoIncident \notin Ids
  BY DEF NoIncident, Ids

LEMMA IdleShape == Idle \in SaverState
  BY DEF Idle, SaverState, Statuses

-----------------------------------------------------------------------------
(* A step of a worker that changes no incident: its new state must be as    *)
(* well informed as the old one.                                             *)

LEMMA WorkerMoves ==
    ASSUME RInv, NEW s \in Savers, NEW x \in SaverState,
           saver' = [saver EXCEPT ![s] = x],
           x.pc # "idle" => saver[s].pc # "idle",
           x.pc \in {"inserted", "unconfirmed", "ready"} => row.exists,
           Informed(x), ~overlapped => InformedAlone(x),
           UNCHANGED <<row, incidents, overlapped>>, admin' \in AdminState
    PROVE  RInv'
  <1> USE DEF RInv
  <1>1. /\ saver'[s] = x /\ \A t \in Savers \ {s} : saver'[t] = saver[t]
        /\ Shapes'
    BY DEF Shapes
  <1>2. \A t \in Savers : Informed(saver[t])'
    BY <1>1 DEF Informed
  <1>3. Alone'
    <2> SUFFICES ASSUME ~overlapped' PROVE /\ OneWorker' /\ OneLetterOfEach' /\ OneOpenIncident'
                                           /\ \A t \in Savers : InformedAlone(saver[t])'
      BY DEF Alone
    <2>1. OneWorker'
      BY <1>1 DEF Alone, OneWorker
    <2>2. OneLetterOfEach' /\ OneOpenIncident'
      BY DEF Alone, OneLetterOfEach, OneOpenIncident, OpenIds
    <2>3. \A t \in Savers : InformedAlone(saver[t])'
      BY <1>1 DEF Alone, InformedAlone, OpenIds
    <2> QED
      BY <2>1, <2>2, <2>3
  <1>4. GoneIsQuiet'
    BY <1>1 DEF GoneIsQuiet, References
  <1>5. RecoveryNeedsOpening' /\ DeletedObjectIsResolved'
    BY DEF RecoveryNeedsOpening, DeletedObjectIsResolved, OpenIncidentRows
  <1> QED
    BY <1>1, <1>2, <1>3, <1>4, <1>5

LEMMA WorkerIdles ==
    ASSUME RInv, NEW s \in Savers, saver' = [saver EXCEPT ![s] = Idle],
           UNCHANGED <<row, incidents, overlapped>>, admin' \in AdminState
    PROVE  RInv'
  <1>1. Informed(Idle) /\ InformedAlone(Idle)
    BY DEF Informed, InformedAlone, Idle
  <1>2. Idle.pc = "idle"
    BY DEF Idle
  <1> QED
    BY <1>1, <1>2, IdleShape, WorkerMoves

\* The beginning of a save: if another one is under way, that is an overlap.
LEMMA Probes ==
    ASSUME RInv, NEW s \in Savers, Probe(s)
    PROVE  RInv'
  <1>1. PICK v \in Statuses :
           saver' = [saver EXCEPT ![s].pc = "probed", ![s].status = v,
                                  ![s].probed = row.version]
    BY DEF Probe
  <1> DEFINE x == [[[saver[s] EXCEPT !.pc = "probed"] EXCEPT !.status = v]
                      EXCEPT !.probed = row.version]
  <1>2. saver[s] \in SaverState /\ row.version \in Nat
    BY DEF RInv, Shapes
  <1>3. /\ x \in SaverState /\ x.pc = "probed"
        /\ x.incident = saver[s].incident /\ x.announced = saver[s].announced
        /\ x.confirmed = saver[s].confirmed
    BY <1>2 DEF SaverState
  <1>4. saver' = [saver EXCEPT ![s] = x]
    BY <1>1, <1>2 DEF RInv, Shapes
  <1>5. Informed(x)
    BY <1>3 DEF RInv, Informed, Probe
  <1> HIDE DEF x
  <1>6. /\ saver'[s] = x /\ \A t \in Savers \ {s} : saver'[t] = saver[t]
        /\ UNCHANGED <<row, incidents, admin>>
        /\ overlapped' = (overlapped \/ \E o \in Savers : saver[o].pc # "idle")
    BY <1>4 DEF RInv, Shapes, Probe
  <1>7. Shapes'
    BY <1>3, <1>4, <1>6 DEF RInv, Shapes
  <1>8. \A t \in Savers : Informed(saver[t])'
    BY <1>5, <1>6 DEF RInv, Informed
  <1>9. Alone'
    <2> SUFFICES ASSUME ~overlapped' PROVE /\ OneWorker' /\ OneLetterOfEach' /\ OneOpenIncident'
                                           /\ \A t \in Savers : InformedAlone(saver[t])'
      BY DEF Alone
    <2>1. ~overlapped /\ \A o \in Savers : saver[o].pc = "idle"
      BY <1>6
    <2>2. OneWorker'
      BY <1>6, <2>1 DEF OneWorker
    <2>3. OneLetterOfEach' /\ OneOpenIncident'
      BY <1>6, <2>1 DEF RInv, Alone, OneLetterOfEach, OneOpenIncident, OpenIds
    <2>4. \A t \in Savers : InformedAlone(saver[t])'
      BY <1>3, <1>5, <1>6, <2>1 DEF RInv, Alone, Informed, InformedAlone, OpenIds
    <2> QED
      BY <2>2, <2>3, <2>4
  <1>10. GoneIsQuiet' /\ RecoveryNeedsOpening' /\ DeletedObjectIsResolved'
    BY <1>3, <1>6 DEF RInv, GoneIsQuiet, References, RecoveryNeedsOpening,
                      DeletedObjectIsResolved, OpenIncidentRows
  <1> QED
    BY <1>7, <1>8, <1>9, <1>10 DEF RInv

-----------------------------------------------------------------------------
(* The statements of a worker up to its commit.                              *)

LEMMA Reads ==
    ASSUME RInv, NEW s \in Savers,
           ReadRow(s) \/ InsertResult(s) \/ InsertRefused(s) \/ ReadIncident(s)
           \/ ReadHistory(s) \/ StaleUpdate(s)
    PROVE  RInv'
  <1>1. saver[s] \in SaverState /\ row.version \in Nat /\ row.muted \in BOOLEAN
        /\ saver \in [Savers -> SaverState] /\ Informed(saver[s])
        /\ admin' \in AdminState /\ UNCHANGED <<row, incidents, overlapped>>
        /\ (~overlapped => InformedAlone(saver[s]))
    BY DEF RInv, Shapes, Alone, ReadRow, InsertResult, InsertRefused, ReadIncident,
           ReadHistory, StaleUpdate, budgets
  <1>2. CASE ReadRow(s)
    <2> DEFINE x == [[[saver[s] EXCEPT !.pc = "read"] EXCEPT !.version = row.version]
                        EXCEPT !.quiet = row.muted]
    <2>1. CASE Fresh(s)
      <3>1. saver' = [saver EXCEPT ![s] = x]
        BY <1>1, <1>2, <2>1 DEF ReadRow
      <3>2. /\ x \in SaverState /\ x.pc = "read" /\ x.incident = saver[s].incident
            /\ x.announced = saver[s].announced /\ x.confirmed = saver[s].confirmed
        BY <1>1 DEF SaverState
      <3>3. Informed(x) /\ (~overlapped => InformedAlone(x))
        BY <1>1, <1>2, <3>2 DEF ReadRow, Informed, InformedAlone
      <3>4. saver[s].pc # "idle"
        BY <1>2 DEF ReadRow
      <3> HIDE DEF x
      <3> QED
        BY <1>1, <3>1, <3>2, <3>3, <3>4, WorkerMoves
    <2>2. CASE ~Fresh(s)
      BY <1>1, <1>2, <2>2, WorkerIdles DEF ReadRow
    <2> QED
      BY <2>1, <2>2
  <1>3. CASE InsertResult(s)
    <2> DEFINE x == [saver[s] EXCEPT !.pc = "inserted"]
    <2>1. saver' = [saver EXCEPT ![s] = x]
      BY <1>1, <1>3 DEF InsertResult
    <2>2. /\ x \in SaverState /\ x.pc = "inserted" /\ x.incident = saver[s].incident
          /\ x.announced = saver[s].announced /\ x.confirmed = saver[s].confirmed
      BY <1>1 DEF SaverState
    <2>3. Informed(x) /\ (~overlapped => InformedAlone(x))
      BY <1>1, <1>3, <2>2 DEF InsertResult, Informed, InformedAlone
    <2>4. saver[s].pc # "idle" /\ row.exists
      BY <1>3 DEF InsertResult
    <2> HIDE DEF x
    <2> QED
      BY <1>1, <2>1, <2>2, <2>3, <2>4, WorkerMoves
  <1>4. CASE InsertRefused(s) \/ StaleUpdate(s)
    BY <1>1, <1>4, WorkerIdles DEF InsertRefused, StaleUpdate
  <1>5. CASE ReadIncident(s)
    <2> DEFINE found == {i \in OpenIds : \A j \in OpenIds : j <= i}
    <2>1. saver[s].pc = "inserted" /\ row.exists
      BY <1>5 DEF ReadIncident, RInv, GoneIsQuiet, References
    <2>2. saver[s].incident = NoIncident /\ ~saver[s].announced /\ ~saver[s].confirmed
      BY <1>1, <2>1 DEF Informed
    <2>3. CASE found = {}
      <3> DEFINE pc == IF saver[s].status = "down" THEN "unconfirmed" ELSE "ready"
                 x == [saver[s] EXCEPT !.pc = pc]
      <3>1. saver' = [saver EXCEPT ![s] = x]
        BY <1>1, <1>5, <2>3 DEF ReadIncident
      <3>2. /\ x \in SaverState /\ x.pc \in {"unconfirmed", "ready"}
            /\ x.incident = NoIncident /\ ~x.announced /\ ~x.confirmed
        BY <1>1, <2>2 DEF SaverState
      <3>3. Informed(x)
        BY <3>2 DEF Informed
      <3>4. ~overlapped => OpenIds = {}
        <4> SUFFICES ASSUME ~overlapped, NEW i \in OpenIds PROVE FALSE
          OBVIOUS
        <4>1. \A j \in OpenIds : j = i
          BY DEF RInv, Alone, OneOpenIncident
        <4>2. i <= i
          BY DEF OpenIds, Ids
        <4> QED
          BY <2>3, <4>1, <4>2
      <3>5. ~overlapped => InformedAlone(x)
        BY <3>2, <3>4 DEF InformedAlone
      <3> HIDE DEF x
      <3> QED
        BY <1>1, <2>1, <3>1, <3>2, <3>3, <3>5, WorkerMoves
    <2>4. CASE found # {}
      <3>1. PICK i \in found :
               saver' = [saver EXCEPT ![s].pc = "ready", ![s].incident = i,
                                      ![s].announced = incidents[i].opened > 0]
        BY <1>5, <2>4 DEF ReadIncident
      <3> DEFINE told == incidents[i].opened > 0
                 x == [[[saver[s] EXCEPT !.pc = "ready"] EXCEPT !.incident = i]
                          EXCEPT !.announced = told]
      <3>0. told \in BOOLEAN /\ told = (incidents[i].opened > 0)
        OBVIOUS
      <3>1a. saver' = [saver EXCEPT ![s].pc = "ready", ![s].incident = i,
                                    ![s].announced = told]
        BY <3>1
      <3> HIDE DEF told
      <3>2. saver' = [saver EXCEPT ![s] = x]
        BY <1>1, <3>1a
      <3>3. i \in Ids /\ incidents[i].status = "open" /\ incidents[i] \in IncidentRow
        BY <3>1 DEF OpenIds, RInv, Shapes
      <3>4a. /\ x \in SaverState /\ x.pc = "ready" /\ x.incident = i
             /\ x.announced = told /\ x.confirmed = saver[s].confirmed
        BY <1>1, <3>0, <3>3 DEF SaverState
      <3>4. /\ x \in SaverState /\ x.pc = "ready" /\ x.incident = i
            /\ ~x.confirmed /\ (x.announced <=> incidents[i].opened > 0)
        <4>1. x.announced <=> told
          BY <3>4a
        <4>2. told <=> incidents[i].opened > 0
          BY DEF told
        <4> QED
          BY <2>2, <3>4a, <4>1, <4>2
      <3>5. Informed(x)
        BY <3>3, <3>4, NoIncidentIsNoRow DEF Informed
      <3>6. ~overlapped => InformedAlone(x)
        BY <3>3, <3>4 DEF InformedAlone, RInv, Alone, OneLetterOfEach, IncidentRow
      <3> HIDE DEF x
      <3> QED
        BY <1>1, <2>1, <3>2, <3>4, <3>5, <3>6, WorkerMoves
    <2> QED
      BY <2>3, <2>4
  <1>6. CASE ReadHistory(s)
    <2> DEFINE yes == /\ Cardinality(Counted(s)) >= Threshold
                      /\ \A r \in Series(s) : r.status = "down"
               x == [[saver[s] EXCEPT !.pc = "ready"] EXCEPT !.confirmed = yes]
    <2>1. saver' = [saver EXCEPT ![s] = x]
      BY <1>1, <1>6 DEF ReadHistory
    <2>2. yes \in BOOLEAN
      OBVIOUS
    <2> HIDE DEF yes
    <2>3. /\ x \in SaverState /\ x.pc = "ready" /\ x.incident = saver[s].incident
          /\ x.announced = saver[s].announced
      BY <1>1, <2>2 DEF SaverState
    <2>4. saver[s].pc = "unconfirmed" /\ row.exists
      BY <1>6 DEF ReadHistory, RInv, GoneIsQuiet, References
    <2>5. Informed(x) /\ (~overlapped => InformedAlone(x))
      BY <1>1, <2>3, <2>4 DEF Informed, InformedAlone
    <2> HIDE DEF x
    <2> QED
      BY <1>1, <2>1, <2>3, <2>4, <2>5, WorkerMoves
  <1> QED
    BY <1>2, <1>3, <1>4, <1>5, <1>6
-----------------------------------------------------------------------------
(* The commit of a worker writes one incident, or none.                      *)

LEMMA WorkerWrites ==
    ASSUME RInv, NEW s \in Savers, saver[s].pc = "ready",
           NEW i \in Ids, NEW r \in IncidentRow,
           incidents' = [incidents EXCEPT ![i] = r],
           saver' = [saver EXCEPT ![s] = Idle],
           UNCHANGED <<row, admin, overlapped>>,
           r.status # "free",
           (\E t \in Savers : saver[t].incident = i) => r.opened >= incidents[i].opened,
           r.recovered > 0 => r.opened > 0,
           ~overlapped => /\ r.opened <= 1 /\ r.recovered <= 1
                          /\ r.status = "open" => r.recovered = 0
                          /\ r.status = "open" /\ r.attached => i \in OpenIds \/ OpenIds = {}
    PROVE  RInv'
  <1> USE DEF RInv
  <1>1. /\ saver'[s] = Idle /\ \A t \in Savers \ {s} : saver'[t] = saver[t]
        /\ incidents'[i] = r /\ \A j \in Ids \ {i} : incidents'[j] = incidents[j]
    BY DEF Shapes
  <1>2. Shapes'
    BY IdleShape DEF Shapes
  <1>3. \A t \in Savers : Informed(saver[t])'
    <2>1. Informed(saver[s])'
      BY <1>1 DEF Informed, Idle
    <2>2. ASSUME NEW t \in Savers \ {s} PROVE Informed(saver[t])'
      <3>1. saver[t] \in SaverState /\ incidents[i] \in IncidentRow
        BY DEF Shapes
      <3>2. CASE saver[t].incident = i
        BY <1>1, <3>1, <3>2 DEF Informed, IncidentRow
      <3>3. CASE saver[t].incident # i
        <4>1. saver[t].incident # NoIncident => incidents'[saver[t].incident] = incidents[saver[t].incident]
          BY <1>1, <3>1, <3>3 DEF SaverState
        <4> QED
          BY <1>1, <4>1 DEF Informed
      <3> QED
        BY <3>2, <3>3
    <2> QED
      BY <2>1, <2>2
  <1>4. RecoveryNeedsOpening'
    BY <1>1 DEF RecoveryNeedsOpening
  <1>5. Alone'
    <2> SUFFICES ASSUME ~overlapped' PROVE /\ OneWorker' /\ OneLetterOfEach' /\ OneOpenIncident'
                                           /\ \A t \in Savers : InformedAlone(saver[t])'
      BY DEF Alone
    <2>0. ~overlapped /\ OneWorker /\ OneLetterOfEach /\ OneOpenIncident
      BY DEF Alone
    <2>1. \A t \in Savers : saver'[t].pc = "idle"
      BY <1>1, <2>0 DEF OneWorker, Idle
    <2>2. OneWorker'
      BY <2>1 DEF OneWorker
    <2>3. OneLetterOfEach'
      BY <1>1, <2>0 DEF OneLetterOfEach
    <2>4. OneOpenIncident'
      BY <1>1, <2>0 DEF OneOpenIncident, OpenIds
    <2>5. \A t \in Savers : InformedAlone(saver[t])'
      BY <1>3, <2>1 DEF Informed, InformedAlone
    <2> QED
      BY <2>2, <2>3, <2>4, <2>5
  <1>6. GoneIsQuiet' /\ DeletedObjectIsResolved'
    BY <1>1 DEF GoneIsQuiet, References, DeletedObjectIsResolved, OpenIncidentRows, Idle
  <1> QED
    BY <1>2, <1>3, <1>4, <1>5, <1>6

LEMMA Commits ==
    ASSUME RInv, NEW s \in Savers, Commit(s)
    PROVE  RInv'
  <1>1. /\ saver[s].pc = "ready" /\ saver[s] \in SaverState /\ Informed(saver[s])
        /\ (~overlapped => InformedAlone(saver[s]) /\ OneLetterOfEach)
        /\ saver' = [saver EXCEPT ![s] = Idle]
        /\ UNCHANGED <<row, admin, overlapped>>
        /\ incidents \in [Ids -> IncidentRow] /\ admin \in AdminState
    BY DEF RInv, Shapes, Alone, Commit, budgets
  <1>2. CASE Writes(s)
    <2> DEFINE i == saver[s].incident
    <2>1. /\ i \in Ids /\ incidents[i] \in IncidentRow
          /\ incidents[i].status \notin {"free", "deleted"}
          /\ UpdateIncident(s, i)
          /\ incidents[i].recovered > 0 => incidents[i].opened > 0
          /\ saver[s].announced => incidents[i].opened > 0
      BY <1>1, <1>2 DEF Commit, Writes, SaverState, Informed, RInv, RecoveryNeedsOpening
    <2>2. ~overlapped => /\ incidents[i].opened <= 1 /\ incidents[i].recovered = 0
                         /\ ~saver[s].announced => incidents[i].opened = 0
      BY <1>1, <1>2, <2>1 DEF Writes, InformedAlone, OneLetterOfEach
    <2>3. CASE saver[s].status = "down"
      <3> DEFINE n == IF saver[s].quiet \/ saver[s].announced THEN incidents[i].opened
                                                              ELSE incidents[i].opened + 1
                 r == [incidents[i] EXCEPT !.opened = n]
      <3>1. incidents' = [incidents EXCEPT ![i] = r]
        BY <1>1, <2>1, <2>3 DEF UpdateIncident
      <3>2. n \in Nat /\ n >= incidents[i].opened /\ (~overlapped => n <= 1)
        BY <2>1, <2>2 DEF IncidentRow
      <3> HIDE DEF n
      <3>3. /\ r \in IncidentRow /\ r.opened = n /\ r.recovered = incidents[i].recovered
            /\ r.status = incidents[i].status /\ r.attached = incidents[i].attached
        BY <2>1, <3>2 DEF IncidentRow
      <3>4. r.recovered > 0 => r.opened > 0
        BY <2>1, <3>2, <3>3 DEF IncidentRow
      <3>5. r.status = "open" /\ r.attached => i \in OpenIds
        BY <2>1, <3>3 DEF OpenIds
      <3> HIDE DEF r, i
      <3>6. r.status # "free" /\ r.opened >= incidents[i].opened
        BY <2>1, <3>2, <3>3
      <3>7. ~overlapped => r.opened <= 1 /\ r.recovered <= 1 /\ r.recovered = 0
        BY <2>2, <3>2, <3>3
      <3> QED
        BY <1>1, <2>1, <3>1, <3>3, <3>4, <3>5, <3>6, <3>7, WorkerWrites
    <2>4. CASE saver[s].status # "down"
      <3> DEFINE n == IF saver[s].quiet \/ ~saver[s].announced THEN incidents[i].recovered
                                                               ELSE incidents[i].recovered + 1
                 r == [[incidents[i] EXCEPT !.status = "resolved"] EXCEPT !.recovered = n]
      <3>1. incidents' = [incidents EXCEPT ![i] = r]
        BY <1>1, <2>1, <2>4 DEF UpdateIncident
      <3>2. /\ n \in Nat /\ (~overlapped => n <= 1)
            /\ n > 0 => incidents[i].opened > 0
        BY <2>1, <2>2 DEF IncidentRow
      <3> HIDE DEF n
      <3>3. /\ r \in IncidentRow /\ r.opened = incidents[i].opened /\ r.recovered = n
            /\ r.status = "resolved" /\ r.attached = incidents[i].attached
        BY <2>1, <3>2 DEF IncidentRow
      <3>4. r.opened >= incidents[i].opened
        BY <2>1, <3>3 DEF IncidentRow
      <3> HIDE DEF r, i
      <3>5. /\ r.status # "free" /\ r.status # "open"
            /\ r.recovered > 0 => r.opened > 0
            /\ ~overlapped => r.opened <= 1 /\ r.recovered <= 1
        BY <2>2, <3>2, <3>3
      <3> QED
        BY <1>1, <2>1, <3>1, <3>3, <3>4, <3>5, WorkerWrites
    <2> QED
      BY <2>3, <2>4
  <1>3. CASE ~Writes(s) /\ saver[s].confirmed
    <2>1. PICK i \in FreeIds :
             incidents' = [incidents EXCEPT ![i] =
                              [status |-> "open", attached |-> TRUE,
                               opened |-> IF saver[s].quiet THEN 0 ELSE 1,
                               recovered |-> 0]]
      BY <1>3 DEF Commit, OpenIncident
    <2> DEFINE r == [status |-> "open", attached |-> TRUE,
                     opened |-> IF saver[s].quiet THEN 0 ELSE 1, recovered |-> 0]
    <2>2. i \in Ids /\ incidents[i].status = "free" /\ incidents[i] \in IncidentRow
      BY <1>1 DEF FreeIds
    <2>3. r \in IncidentRow /\ r.status = "open" /\ r.recovered = 0 /\ r.opened \in {0, 1}
      BY DEF IncidentRow
    <2>4. incidents' = [incidents EXCEPT ![i] = r]
      BY <2>1
    <2>5. ~overlapped => OpenIds = {}
      BY <1>1, <1>3 DEF InformedAlone
    <2>6. /\ \A t \in Savers : saver[t].incident # i
          /\ row.exists
      BY <1>1, <2>2, NoIncidentIsNoRow DEF RInv, Informed, GoneIsQuiet, References
    <2> HIDE DEF r
    <2>7. /\ r.status # "free" /\ ~(r.recovered > 0)
          /\ ~(\E t \in Savers : saver[t].incident = i)
      BY <2>3, <2>6
    <2>8. ~overlapped => /\ r.opened <= 1 /\ r.recovered <= 1 /\ r.recovered = 0
                         /\ OpenIds = {}
      BY <2>3, <2>5
    <2> QED
      BY <1>1, <2>2, <2>3, <2>4, <2>7, <2>8, WorkerWrites
  <1>4. CASE ~Writes(s) /\ ~saver[s].confirmed
    <2>1. UNCHANGED incidents
      BY <1>4 DEF Commit, OpenIncident
    <2> QED
      BY <1>1, <2>1, WorkerIdles
  <1> QED
    BY <1>2, <1>3, <1>4
-----------------------------------------------------------------------------
(* The administrator sends no letter, opens no incident and frees no row.    *)

LEMMA AdminWrites ==
    ASSUME RInv, Shapes',
           UNCHANGED <<saver, overlapped>>,
           \A i \in Ids :
              /\ incidents'[i].opened = incidents[i].opened
              /\ incidents'[i].recovered = incidents[i].recovered
              /\ incidents[i].status # "free" => incidents'[i].status # "free"
              /\ incidents'[i].status = "open" => incidents[i].status = "open"
              /\ incidents'[i].attached => incidents[i].attached,
           GoneIsQuiet', DeletedObjectIsResolved'
    PROVE  RInv'
  <1>1. OpenIds' \subseteq OpenIds
    BY DEF OpenIds
  <1>2. ASSUME NEW s \in Savers PROVE Informed(saver[s])'
    <2>1. saver[s] \in SaverState /\ Informed(saver[s])
      BY DEF RInv, Shapes
    <2>2. CASE saver[s].incident = NoIncident
      BY <2>1, <2>2 DEF Informed
    <2>3. CASE saver[s].incident \in Ids
      BY <2>1, <2>3 DEF Informed
    <2> QED
      BY <2>1, <2>2, <2>3 DEF SaverState
  <1>3. RecoveryNeedsOpening'
    BY DEF RInv, RecoveryNeedsOpening
  <1>4. Alone'
    <2> SUFFICES ASSUME ~overlapped' PROVE /\ OneWorker' /\ OneLetterOfEach' /\ OneOpenIncident'
                                           /\ \A s \in Savers : InformedAlone(saver[s])'
      BY DEF Alone
    <2>1. OneWorker' /\ OneLetterOfEach'
      BY DEF RInv, Alone, OneWorker, OneLetterOfEach
    <2>2. OneOpenIncident'
      BY <1>1 DEF RInv, Alone, OneOpenIncident
    <2>3. ASSUME NEW s \in Savers PROVE InformedAlone(saver[s])'
      <3>1. saver[s] \in SaverState /\ InformedAlone(saver[s])
        BY DEF RInv, Shapes, Alone
      <3>2. saver[s].incident # NoIncident => saver[s].incident \in Ids
        BY <3>1 DEF SaverState
      <3> QED
        BY <1>1, <3>1, <3>2 DEF InformedAlone
    <2> QED
      BY <2>1, <2>2, <2>3
  <1> QED
    BY <1>2, <1>3, <1>4 DEF RInv

\* A status may change; the letters of the row do not.
LEMMA StatusOnly ==
    ASSUME NEW r \in IncidentRow, NEW v \in {"open", "resolved", "deleted"}
    PROVE  /\ [r EXCEPT !.status = v] \in IncidentRow
           /\ [r EXCEPT !.status = v].opened = r.opened
           /\ [r EXCEPT !.status = v].recovered = r.recovered
           /\ [r EXCEPT !.status = v].attached = r.attached
           /\ [r EXCEPT !.status = v].status = v
  BY DEF IncidentRow

LEMMA Detached ==
    ASSUME NEW r \in IncidentRow
    PROVE  /\ [r EXCEPT !.attached = FALSE] \in IncidentRow
           /\ [r EXCEPT !.attached = FALSE].opened = r.opened
           /\ [r EXCEPT !.attached = FALSE].recovered = r.recovered
           /\ [r EXCEPT !.attached = FALSE].attached = FALSE
           /\ [r EXCEPT !.attached = FALSE].status = r.status
  BY DEF IncidentRow

\* What the administrator asks for, and selects, writes nothing yet.
LEMMA AdminSelects ==
    ASSUME RInv, admin' \in AdminState,
           UNCHANGED <<incidents, saver, overlapped>>,
           row' = row \/ row' = [row EXCEPT !.muted = ~@]
    PROVE  RInv'
  <1>1. row' \in [service: Kinds, exists: BOOLEAN, enabled: BOOLEAN,
                  version: Nat, muted: BOOLEAN]
        /\ row'.exists = row.exists /\ row'.service = row.service
    BY DEF RInv, Shapes
  <1>2. Shapes' /\ GoneIsQuiet' /\ DeletedObjectIsResolved'
    BY <1>1 DEF RInv, Shapes, GoneIsQuiet, References, DeletedObjectIsResolved,
                OpenIncidentRows
  <1> QED
    BY <1>2, AdminWrites

\* The incidents the administrator resolves.
LEMMA Resolving ==
    ASSUME Shapes, NEW i \in Ids
    PROVE  /\ ResolveSelected[i] \in IncidentRow
           /\ ResolveSelected[i].opened = incidents[i].opened
           /\ ResolveSelected[i].recovered = incidents[i].recovered
           /\ ResolveSelected[i].attached = incidents[i].attached
           /\ incidents[i].status # "free" => ResolveSelected[i].status # "free"
           /\ ResolveSelected[i].status = "open" => incidents[i].status = "open"
  <1>1. incidents[i] \in IncidentRow
    BY DEF Shapes
  <1>2. ResolveSelected[i] = IF i \in admin.ids
                             THEN [incidents[i] EXCEPT !.status = "resolved"]
                             ELSE incidents[i]
    BY DEF ResolveSelected
  <1>3. CASE i \in admin.ids
    <2> DEFINE r == [incidents[i] EXCEPT !.status = "resolved"]
    <2>1. ResolveSelected[i] = r
      BY <1>2, <1>3
    <2>2. /\ r \in IncidentRow /\ r.opened = incidents[i].opened
          /\ r.recovered = incidents[i].recovered
          /\ r.attached = incidents[i].attached /\ r.status = "resolved"
      BY <1>1, StatusOnly
    <2> HIDE DEF r
    <2> QED
      BY <2>1, <2>2
  <1>4. CASE i \notin admin.ids
    BY <1>1, <1>2, <1>4
  <1> QED
    BY <1>3, <1>4

LEMMA Toggles ==
    ASSUME RInv, CommitToggle
    PROVE  RInv'
  <1>1. Shapes /\ UNCHANGED <<saver, overlapped>> /\ incidents' = ResolveSelected
    BY DEF RInv, CommitToggle, budgets
  <1>2. row'.exists = row.exists /\ row'.service = row.service
        /\ row' \in [service: Kinds, exists: BOOLEAN, enabled: BOOLEAN,
                     version: Nat, muted: BOOLEAN]
    <2> DEFINE e == ~admin.enabled
               n == IF row.service THEN admin.version + 1 ELSE row.version
    <2>1. row' = [[row EXCEPT !.enabled = e] EXCEPT !.version = n]
      BY DEF RInv, Shapes, CommitToggle
    <2>2. e \in BOOLEAN /\ n \in Nat
      BY DEF RInv, Shapes, AdminState
    <2> HIDE DEF e, n
    <2> QED
      BY <2>1, <2>2 DEF RInv, Shapes
  <1>3. admin' \in AdminState
    BY DEF CommitToggle, AdminIdle, AdminState
  <1>4. incidents' \in [Ids -> IncidentRow]
    BY <1>1, Resolving DEF ResolveSelected
  <1>5. Shapes' /\ GoneIsQuiet'
    BY <1>1, <1>2, <1>3, <1>4 DEF RInv, Shapes, GoneIsQuiet, References
  <1>6. DeletedObjectIsResolved'
    BY <1>1, <1>2, Resolving DEF RInv, DeletedObjectIsResolved, OpenIncidentRows
  <1> QED
    BY <1>1, <1>5, <1>6, Resolving, AdminWrites

LEMMA Deletes ==
    ASSUME RInv, CommitDelete
    PROVE  RInv'
  <1>1. Shapes /\ UNCHANGED <<saver, overlapped>>
        /\ \A s \in Savers : ~References(s)
    BY DEF RInv, CommitDelete, budgets
  <1>2. row'.exists = FALSE /\ row'.service = row.service
        /\ row' \in [service: Kinds, exists: BOOLEAN, enabled: BOOLEAN,
                     version: Nat, muted: BOOLEAN]
    BY DEF RInv, Shapes, CommitDelete
  <1>3. admin' \in AdminState
    BY DEF CommitDelete, AdminIdle, AdminState
  <1>4. CASE row.service
    <2>1. incidents' = [i \in Ids |-> [ResolveSelected[i] EXCEPT !.attached = FALSE]]
      BY <1>4 DEF CommitDelete
    <2>2. ASSUME NEW i \in Ids
          PROVE  /\ incidents'[i] \in IncidentRow
                 /\ incidents'[i].opened = incidents[i].opened
                 /\ incidents'[i].recovered = incidents[i].recovered
                 /\ incidents'[i].attached = FALSE
                 /\ incidents[i].status # "free" => incidents'[i].status # "free"
                 /\ incidents'[i].status = "open" => incidents[i].status = "open"
      BY <1>1, <2>1, Resolving, Detached
    <2>3. incidents' \in [Ids -> IncidentRow]
      BY <2>1, <2>2
    <2>4. Shapes' /\ GoneIsQuiet' /\ DeletedObjectIsResolved'
      BY <1>1, <1>2, <1>3, <1>4, <2>3
      DEF Shapes, GoneIsQuiet, References, DeletedObjectIsResolved
    <2> QED
      BY <1>1, <2>2, <2>4, AdminWrites
  <1>5. CASE ~row.service
    <2>1. incidents' = [i \in Ids |->
              IF incidents[i].status \in {"open", "resolved"}
              THEN [incidents[i] EXCEPT !.status = "deleted"] ELSE incidents[i]]
      BY <1>5 DEF CommitDelete
    <2>2. ASSUME NEW i \in Ids
          PROVE  /\ incidents'[i] \in IncidentRow
                 /\ incidents'[i].opened = incidents[i].opened
                 /\ incidents'[i].recovered = incidents[i].recovered
                 /\ incidents'[i].attached = incidents[i].attached
                 /\ incidents[i].status # "free" => incidents'[i].status # "free"
                 /\ incidents'[i].status # "open"
      <3>1. incidents[i] \in IncidentRow
        BY <1>1 DEF Shapes
      <3>2. incidents'[i] = IF incidents[i].status \in {"open", "resolved"}
                            THEN [incidents[i] EXCEPT !.status = "deleted"]
                            ELSE incidents[i]
        BY <2>1
      <3>3. CASE incidents[i].status \in {"open", "resolved"}
        <4> DEFINE r == [incidents[i] EXCEPT !.status = "deleted"]
        <4>1. incidents'[i] = r
          BY <3>2, <3>3
        <4>2. /\ r \in IncidentRow /\ r.opened = incidents[i].opened
              /\ r.recovered = incidents[i].recovered
              /\ r.attached = incidents[i].attached /\ r.status = "deleted"
          BY <3>1, StatusOnly
        <4> HIDE DEF r
        <4> QED
          BY <4>1, <4>2
      <3>4. CASE incidents[i].status \notin {"open", "resolved"}
        BY <3>1, <3>2, <3>4
      <3> QED
        BY <3>3, <3>4
    <2>3. incidents' \in [Ids -> IncidentRow]
      BY <2>1, <2>2
    <2>4. Shapes' /\ GoneIsQuiet' /\ DeletedObjectIsResolved'
      BY <1>1, <1>2, <1>3, <2>2, <2>3
      DEF Shapes, GoneIsQuiet, References, DeletedObjectIsResolved, OpenIncidentRows
    <2> QED
      BY <1>1, <2>2, <2>4, AdminWrites
  <1> QED
    BY <1>4, <1>5

LEMMA Removes ==
    ASSUME RInv, NEW i \in Ids, DeleteIncident(i)
    PROVE  RInv'
  <1>1. Shapes /\ UNCHANGED <<row, saver, admin, overlapped>>
        /\ incidents[i].status # "free"
        /\ incidents' = [incidents EXCEPT ![i].status = "deleted"]
    BY DEF RInv, DeleteIncident
  <1>2. incidents[i] \in IncidentRow
    BY <1>1 DEF Shapes
  <1>3. /\ incidents'[i] = [incidents[i] EXCEPT !.status = "deleted"]
        /\ \A j \in Ids \ {i} : incidents'[j] = incidents[j]
        /\ incidents' = [incidents EXCEPT ![i] = [incidents[i] EXCEPT !.status = "deleted"]]
    BY <1>1 DEF Shapes
  <1>4. incidents' \in [Ids -> IncidentRow]
    BY <1>1, <1>2, <1>3, StatusOnly DEF Shapes
  <1>5. \A j \in Ids :
           /\ incidents'[j].opened = incidents[j].opened
           /\ incidents'[j].recovered = incidents[j].recovered
           /\ incidents[j].status # "free" => incidents'[j].status # "free"
           /\ incidents'[j].status = "open" => incidents[j].status = "open"
           /\ incidents'[j].attached => incidents[j].attached
    BY <1>2, <1>3, StatusOnly
  <1>6. Shapes' /\ GoneIsQuiet' /\ DeletedObjectIsResolved'
    BY <1>1, <1>4, <1>5 DEF RInv, Shapes, GoneIsQuiet, References,
                            DeletedObjectIsResolved, OpenIncidentRows
  <1> QED
    BY <1>1, <1>5, <1>6, AdminWrites

LEMMA AdminSteps ==
    ASSUME RInv, BeginToggle \/ BeginDelete \/ ToggleMute \/ AdminStatement
    PROVE  RInv'
  <1>1. CASE BeginToggle \/ BeginDelete
    <2>1. PICK pc \in {"toggle", "delete"} : Begin(pc)
      BY <1>1 DEF BeginToggle, BeginDelete
    <2>2. admin' \in AdminState
      BY <2>1 DEF Begin, AdminState, RInv, Shapes
    <2> QED
      BY <2>1, <2>2, AdminSelects DEF Begin
  <1>2. CASE ToggleMute
    BY <1>2, AdminSelects DEF ToggleMute, RInv, Shapes
  <1>3. CASE SelectToggled \/ SelectDeleted \/ LockDeleted
    <2>1. OpenIds \in SUBSET Ids
      BY DEF OpenIds
    <2>2. admin' \in AdminState
      BY <1>3, <2>1 DEF SelectToggled, SelectDeleted, LockDeleted, RInv, Shapes, AdminState
    <2> QED
      BY <1>3, <2>2, AdminSelects DEF SelectToggled, SelectDeleted, LockDeleted, budgets
  <1>4. CASE CommitToggle \/ CommitDelete
    BY <1>4, Toggles, Deletes
  <1> QED
    BY <1>1, <1>2, <1>3, <1>4 DEF AdminStatement

LEMMA Deadlocks ==
    ASSUME RInv, NEW s \in Savers, BreakDeadlock(s)
    PROVE  RInv'
  <1>1. UNCHANGED <<row, incidents, overlapped>> /\ admin' \in AdminState
    <2>1. AdminIdle \in AdminState
      BY DEF AdminIdle, AdminState
    <2> QED
      BY <2>1 DEF BreakDeadlock, budgets, RInv, Shapes
  <1>2. CASE saver' = [saver EXCEPT ![s] = Idle]
    BY <1>1, <1>2, WorkerIdles
  <1>3. CASE UNCHANGED saver
    BY <1>1, <1>3, AdminSelects
  <1> QED
    BY <1>2, <1>3 DEF BreakDeadlock

-----------------------------------------------------------------------------
(* The theorems. *)

LEMMA Begins == Init => RInv
  <1> SUFFICES ASSUME Init PROVE RInv
    OBVIOUS
  <1>1. Shapes
    <2>1. row \in [service: Kinds, exists: BOOLEAN, enabled: BOOLEAN,
                   version: Nat, muted: BOOLEAN]
      BY DEF Init
    <2>2. incidents \in [Ids -> IncidentRow]
      BY DEF Init, IncidentRow
    <2>3. saver \in [Savers -> SaverState] /\ overlapped \in BOOLEAN
      BY IdleShape DEF Init
    <2>4. admin \in AdminState
      BY DEF Init, AdminIdle, AdminState
    <2> QED
      BY <2>1, <2>2, <2>3, <2>4 DEF Shapes
  <1>2. /\ \A s \in Savers : Informed(saver[s]) /\ InformedAlone(saver[s])
        /\ \A s \in Savers : saver[s].pc = "idle"
    BY DEF Init, Informed, InformedAlone, Idle
  <1>3. OpenIds = {} /\ OpenIncidentRows = {}
    BY DEF Init, OpenIds, OpenIncidentRows
  <1>4. RecoveryNeedsOpening /\ OneLetterOfEach
    BY DEF Init, RecoveryNeedsOpening, OneLetterOfEach
  <1>5. OneOpenIncident /\ OneWorker
    BY <1>2, <1>3 DEF OneOpenIncident, OneWorker
  <1> QED
    BY <1>1, <1>2, <1>3, <1>4, <1>5
    DEF RInv, Alone, GoneIsQuiet, References, DeletedObjectIsResolved

LEMMA TransactionsKeep == Spec => []RInv
  <1>1. RInv /\ [Next]_vars => RInv'
    <2> SUFFICES ASSUME RInv, [Next]_vars PROVE RInv'
      OBVIOUS
    <2>1. ASSUME NEW s \in Savers, Probe(s) \/ Statement(s) \/ BreakDeadlock(s)
          PROVE  RInv'
      BY <2>1, Probes, Reads, Commits, Deadlocks DEF Statement
    <2>2. CASE UNCHANGED vars
      <3>1. admin' \in AdminState
        BY <2>2 DEF vars, RInv, Shapes
      <3> QED
        BY <2>2, <3>1, AdminSelects DEF vars
    <2> QED
      BY <2>1, <2>2, AdminSteps, Removes DEF Next
  <1> QED
    BY Begins, <1>1, PTL DEF Spec

\* No recovery letter goes out without an opening one, for any number of
\* workers that save results of one check at once; and without an overlap no
\* more than one of each, whatever the administrator commits in between.
THEOREM Letters == Spec => []LettersInOrder
  <1>1. RInv => LettersInOrder
    BY DEF RInv, RecoveryNeedsOpening, Alone, OneLetterOfEach, LettersInOrder
  <1> QED
    BY <1>1, TransactionsKeep, PTL

\* Results of one check saved one after the other never open a second incident.
THEOREM SequentialSaves == Spec => []SequentialSavesShareIncident
  <1>1. RInv => SequentialSavesShareIncident
    BY DEF RInv, Alone, SequentialSavesShareIncident
  <1> QED
    BY <1>1, TransactionsKeep, PTL

\* The deletion of an object waits for every save that has inserted a result,
\* so it takes the incidents of all of them with it.
THEOREM DeletionResolves == Spec => []DeletedObjectIsResolved
  <1>1. RInv => DeletedObjectIsResolved
    BY DEF RInv
  <1> QED
    BY <1>1, TransactionsKeep, PTL

-----------------------------------------------------------------------------
(* The results behind an incident.  They are stored under the version they *)
(* were probed under; a worker that waits to commit has one of its own;    *)
(* and what confirmed an incident still stands when it is inserted.        *)

Stored(s, k) == results[k].by = s /\ ~results[k].committed
Down(s) == \A r \in Series(s) : r.status = "down"
Tells(x) == row.service /\ x.pc \notin {"idle", "probed"} => x.version = x.probed

SInv ==
    /\ results \in Seq(Result)
    /\ row.service => \A k \in 1..Len(results) : results[k].probed = results[k].version
    /\ \A s \in Savers : References(s) => \E k \in 1..Len(results) : Stored(s, k)
    /\ \A s \in Savers : Tells(saver[s])
    /\ ~overlapped => \A s \in Savers : saver[s].confirmed => Down(s)

LEMMA StillDown ==
    ASSUME NEW s \in Savers, Down(s), results' = results, row'.service = row.service,
           saver'[s].version = saver[s].version
    PROVE  Down(s)'
  <1>1. Counted(s)' = Counted(s)
    BY DEF Counted
  <1> QED
    BY <1>1 DEF Down, Series, Newest

\* A step of a worker that stores no result.
LEMMA WorkerTells ==
    ASSUME RInv, SInv, NEW s \in Savers, NEW x \in SaverState,
           saver' = [saver EXCEPT ![s] = x],
           UNCHANGED <<row, results>>, overlapped => overlapped',
           overlapped \in BOOLEAN, overlapped' \in BOOLEAN,
           x.pc \in {"inserted", "unconfirmed", "ready"} => References(s),
           Tells(x), ~overlapped' /\ x.confirmed => Down(s)'
    PROVE  SInv'
  <1>1. saver'[s] = x /\ \A t \in Savers \ {s} : saver'[t] = saver[t]
    BY DEF RInv, Shapes
  <1>2. \A t \in Savers : References(t)' => \E k \in 1..Len(results') : Stored(t, k)'
    BY <1>1 DEF SInv, References, Stored
  <1>3. \A t \in Savers : Tells(saver[t])'
    BY <1>1 DEF SInv, Tells
  <1>4. ASSUME ~overlapped', NEW t \in Savers, saver'[t].confirmed PROVE Down(t)'
    BY <1>1, <1>4, StillDown DEF SInv
  <1> QED
    BY <1>2, <1>3, <1>4 DEF SInv

LEMMA OthersTell ==
    ASSUME RInv, SInv, UNCHANGED <<results, saver, overlapped>>,
           row'.service = row.service
    PROVE  SInv'
  <1>1. \A t \in Savers : References(t)' => \E k \in 1..Len(results') : Stored(t, k)'
    BY DEF SInv, References, Stored
  <1>2. ASSUME ~overlapped', NEW t \in Savers, saver'[t].confirmed PROVE Down(t)'
    BY <1>2, StillDown DEF SInv
  <1> QED
    BY <1>1, <1>2 DEF SInv, Tells

\* A worker that stores or takes back a result has confirmed nothing after it,
\* and is the only one unless there was an overlap.
LEMMA WorkerStores ==
    ASSUME RInv, SInv, NEW s \in Savers, NEW x \in SaverState,
           saver' = [saver EXCEPT ![s] = x], saver[s].pc # "idle",
           UNCHANGED <<row, overlapped>>, ~x.confirmed, Tells(x),
           NEW R \in Seq(Result), results' = R,
           row.service => \A k \in 1..Len(R) : R[k].probed = R[k].version,
           x.pc = "idle" \/ \E k \in 1..Len(R) : R[k].by = s /\ ~R[k].committed,
           \A t \in Savers \ {s} :
              References(t) => \E k \in 1..Len(R) : R[k].by = t /\ ~R[k].committed
    PROVE  SInv'
  <1>1. saver'[s] = x /\ \A t \in Savers \ {s} : saver'[t] = saver[t]
    BY DEF RInv, Shapes
  <1>2. \A t \in Savers : References(t)' => \E k \in 1..Len(results') : Stored(t, k)'
    BY <1>1 DEF References, Stored
  <1>3. \A t \in Savers : Tells(saver[t])'
    BY <1>1 DEF SInv, Tells
  <1>4. ASSUME ~overlapped', NEW t \in Savers PROVE ~saver'[t].confirmed
    <2>1. CASE t = s
      BY <1>1, <2>1
    <2>2. CASE t # s
      <3>1. saver[t].pc = "idle"
        BY <1>4, <2>2 DEF RInv, Alone, OneWorker
      <3> QED
        BY <1>1, <2>2, <3>1 DEF RInv, Informed
    <2> QED
      BY <2>1, <2>2
  <1> QED
    BY <1>2, <1>3, <1>4 DEF SInv

LEMMA Inserts ==
    ASSUME RInv, SInv, NEW s \in Savers, InsertResult(s)
    PROVE  SInv'
  <1> DEFINE x == [saver[s] EXCEPT !.pc = "inserted"]
             res == [by |-> s, status |-> saver[s].status, version |-> saver[s].version,
                     probed |-> saver[s].probed, committed |-> FALSE]
  <1>1. saver[s] \in SaverState /\ saver[s].pc = "read" /\ Informed(saver[s])
    BY DEF RInv, Shapes, InsertResult
  <1>2. /\ x \in SaverState /\ ~x.confirmed
        /\ x.version = saver[s].version /\ x.probed = saver[s].probed
    BY <1>1 DEF SaverState, Informed
  <1>3. res \in Result
    BY <1>1 DEF SaverState, Result
  <1>4. /\ results' = Append(results, res) /\ saver' = [saver EXCEPT ![s] = x]
        /\ UNCHANGED <<row, overlapped>>
    BY <1>1 DEF InsertResult, budgets
  <1>5. row.service => saver[s].version = saver[s].probed
    BY <1>1 DEF SInv, Tells
  <1> DEFINE R == Append(results, res)
  <1>6. /\ res.by = s /\ ~res.committed
        /\ row.service => res.probed = res.version
    BY <1>5
  <1> HIDE DEF res
  <1>7. /\ R \in Seq(Result) /\ Len(R) = Len(results) + 1 /\ Len(results) \in Nat
        /\ \A k \in 1..Len(results) : R[k] = results[k]
        /\ R[Len(results) + 1] = res
    <2>1. results \in Seq(Result)
      BY DEF SInv
    <2> QED
      BY <1>3, <2>1, AppendProperties, LenProperties
  <1> HIDE DEF R
  <1>8. results' = R
    BY <1>4 DEF R
  <1>9. row.service => \A k \in 1..Len(R) : R[k].probed = R[k].version
    <2>1. \A k \in 1..Len(R) : k \in 1..Len(results) \/ k = Len(results) + 1
      BY <1>7
    <2> QED
      BY <1>6, <1>7, <2>1 DEF SInv
  <1>10. \E k \in 1..Len(R) : R[k].by = s /\ ~R[k].committed
    <2>1. Len(results) + 1 \in 1..Len(R)
      BY <1>7
    <2> QED
      BY <1>6, <1>7, <2>1
  <1>11. ASSUME NEW t \in Savers \ {s}, References(t)
         PROVE  \E k \in 1..Len(R) : R[k].by = t /\ ~R[k].committed
    <2>1. PICK k \in 1..Len(results) : Stored(t, k)
      BY <1>11 DEF SInv
    <2>2. k \in 1..Len(R) /\ R[k] = results[k]
      BY <1>7
    <2> QED
      BY <2>1, <2>2 DEF Stored
  <1>12. Tells(x)
    BY <1>2, <1>5 DEF Tells
  <1> HIDE DEF x
  <1> QED
    BY <1>1, <1>2, <1>4, <1>7, <1>8, <1>9, <1>10, <1>11, <1>12, WorkerStores

LEMMA Committing ==
    ASSUME RInv, SInv, NEW s \in Savers, Commit(s)
    PROVE  SInv'
  <1> DEFINE R == [k \in DOMAIN results |->
                      IF results[k].by = s THEN [results[k] EXCEPT !.committed = TRUE]
                                           ELSE results[k]]
  <1>1. /\ saver[s].pc = "ready" /\ saver' = [saver EXCEPT ![s] = Idle]
        /\ results' = R /\ UNCHANGED <<row, overlapped>>
    BY DEF Commit, budgets
  <1>2. /\ results \in [1..Len(results) -> Result] /\ Len(results) \in Nat
        /\ DOMAIN results = 1..Len(results)
    BY LenProperties DEF SInv
  <1>3. ASSUME NEW k \in 1..Len(results)
        PROVE  /\ R[k] \in Result /\ R[k].by = results[k].by
               /\ R[k].probed = results[k].probed /\ R[k].version = results[k].version
               /\ results[k].by # s => R[k] = results[k]
    BY <1>2 DEF Result
  <1>4. R \in [1..Len(results) -> Result]
    BY <1>2, <1>3
  <1> HIDE DEF R
  <1>5. R \in Seq(Result) /\ Len(R) = Len(results)
    BY <1>2, <1>4, SeqDef, LenProperties
  <1>6. row.service => \A k \in 1..Len(R) : R[k].probed = R[k].version
    BY <1>3, <1>5 DEF SInv
  <1>7. ASSUME NEW t \in Savers \ {s}, References(t)
        PROVE  \E k \in 1..Len(R) : R[k].by = t /\ ~R[k].committed
    <2>1. PICK k \in 1..Len(results) : Stored(t, k)
      BY <1>7 DEF SInv
    <2> QED
      BY <1>3, <1>5, <2>1 DEF Stored
  <1>8. Idle.pc = "idle" /\ ~Idle.confirmed
    BY DEF Idle
  <1>9. Tells(Idle) /\ saver[s].pc # "idle"
    BY <1>1, <1>8 DEF Tells
  <1> QED
    BY <1>1, <1>5, <1>6, <1>7, <1>8, <1>9, IdleShape, WorkerStores

LEMMA RollsBack ==
    ASSUME RInv, SInv, NEW s \in Savers, References(s), results' = RolledBack(s),
           saver' = [saver EXCEPT ![s] = Idle], UNCHANGED <<row, overlapped>>
    PROVE  SInv'
  <1> DEFINE i == Inserted(s)
             n == Len(results)
             R == [k \in 1..(n - 1) |-> results[IF k < i THEN k ELSE k + 1]]
  <1>1. results' = R
    BY DEF RolledBack
  <1>2. /\ results \in [1..n -> Result] /\ n \in Nat /\ DOMAIN results = 1..n
    BY LenProperties DEF SInv
  <1>3. i \in 1..n /\ results[i].by = s
    BY <1>2 DEF SInv, Stored, Inserted
  <1> HIDE DEF i, n
  <1>4. /\ R \in [1..(n - 1) -> Result] /\ n - 1 \in Nat
        /\ \A k \in 1..(n - 1) : \E j \in 1..n : R[k] = results[j]
        /\ \A j \in 1..n : j # i => \E k \in 1..(n - 1) : R[k] = results[j]
    <2>1. \A k \in 1..(n - 1) : (IF k < i THEN k ELSE k + 1) \in 1..n
      BY <1>2, <1>3
    <2>2. ASSUME NEW j \in 1..n, j # i
          PROVE  \E k \in 1..(n - 1) : R[k] = results[j]
      <3>1. CASE j < i
        <4>1. j \in 1..(n - 1)
          BY <1>2, <1>3, <3>1
        <4>2. R[j] = results[j]
          BY <3>1, <4>1
        <4> QED
          BY <4>1, <4>2
      <3>2. CASE i < j
        <4>1. j - 1 \in 1..(n - 1) /\ ~(j - 1 < i) /\ (j - 1) + 1 = j
          BY <1>2, <1>3, <3>2
        <4>2. R[j - 1] = results[j]
          BY <4>1
        <4> QED
          BY <4>1, <4>2
      <3> QED
        BY <1>2, <1>3, <2>2, <3>1, <3>2
    <2> QED
      BY <1>2, <1>3, <2>1, <2>2
  <1> HIDE DEF R
  <1>5. R \in Seq(Result) /\ Len(R) = n - 1
    BY <1>4, SeqDef, LenProperties
  <1>6. row.service => \A k \in 1..Len(R) : R[k].probed = R[k].version
    BY <1>4, <1>5 DEF SInv, n
  <1>7. ASSUME NEW t \in Savers \ {s}, References(t)
        PROVE  \E k \in 1..Len(R) : R[k].by = t /\ ~R[k].committed
    <2>1. PICK j \in 1..n : Stored(t, j)
      BY <1>7 DEF SInv, n
    <2>2. j # i
      BY <1>3, <2>1 DEF Stored
    <2> QED
      BY <1>4, <1>5, <2>1, <2>2 DEF Stored
  <1>8. Idle.pc = "idle" /\ ~Idle.confirmed /\ saver[s].pc # "idle"
    BY DEF Idle, References
  <1>9. Tells(Idle)
    BY <1>8 DEF Tells
  <1> QED
    BY <1>1, <1>5, <1>6, <1>7, <1>8, <1>9, IdleShape, WorkerStores
LEMMA Reading ==
    ASSUME RInv, SInv, NEW s \in Savers,
           Probe(s) \/ ReadRow(s) \/ InsertRefused(s) \/ ReadIncident(s) \/ ReadHistory(s)
    PROVE  SInv'
  <1>1. /\ saver[s] \in SaverState /\ Informed(saver[s]) /\ Tells(saver[s])
        /\ row.version \in Nat /\ row.muted \in BOOLEAN /\ overlapped \in BOOLEAN
        /\ saver \in [Savers -> SaverState] /\ incidents \in [Ids -> IncidentRow]
    BY DEF RInv, Shapes, SInv
  <1>2. ASSUME NEW x \in SaverState, ~x.confirmed, saver' = [saver EXCEPT ![s] = x],
               UNCHANGED <<row, results>>, overlapped => overlapped', overlapped' \in BOOLEAN,
               x.pc \in {"inserted", "unconfirmed", "ready"} => References(s), Tells(x)
        PROVE  SInv'
    BY <1>1, <1>2, WorkerTells
  <1>3. CASE Probe(s)
    <2>1. PICK v \in Statuses :
             saver' = [saver EXCEPT ![s].pc = "probed", ![s].status = v,
                                    ![s].probed = row.version]
      BY <1>3 DEF Probe
    <2> DEFINE x == [[[saver[s] EXCEPT !.pc = "probed"] EXCEPT !.status = v]
                        EXCEPT !.probed = row.version]
    <2>2. saver' = [saver EXCEPT ![s] = x]
      BY <1>1, <2>1
    <2>3. x \in SaverState /\ ~x.confirmed /\ x.pc = "probed"
      BY <1>1, <1>3 DEF SaverState, Informed, Probe
    <2> HIDE DEF x
    <2>4. overlapped' \in BOOLEAN /\ (overlapped => overlapped')
      BY <1>1, <1>3 DEF Probe
    <2>5. UNCHANGED <<row, results>>
      BY <1>3 DEF Probe
    <2> QED
      BY <1>2, <2>2, <2>3, <2>4, <2>5 DEF Tells
  <1>4. CASE ReadRow(s) /\ Fresh(s)
    <2> DEFINE x == [[[saver[s] EXCEPT !.pc = "read"] EXCEPT !.version = row.version]
                        EXCEPT !.quiet = row.muted]
    <2>1. /\ saver' = [saver EXCEPT ![s] = x]
          /\ UNCHANGED <<row, results, overlapped>>
      BY <1>1, <1>4 DEF ReadRow, budgets
    <2>2. /\ x \in SaverState /\ ~x.confirmed /\ x.pc = "read"
          /\ x.version = row.version /\ x.probed = saver[s].probed
      BY <1>1, <1>4 DEF SaverState, Informed, ReadRow
    <2> HIDE DEF x
    <2>3. Tells(x)
      BY <1>4, <2>2 DEF Fresh, Tells
    <2> QED
      BY <1>1, <1>2, <2>1, <2>2, <2>3
  <1>5. CASE InsertRefused(s) \/ (ReadRow(s) /\ ~Fresh(s))
    <2>1. saver' = [saver EXCEPT ![s] = Idle] /\ UNCHANGED <<row, results, overlapped>>
      BY <1>5 DEF InsertRefused, ReadRow, budgets
    <2>2. Idle.pc = "idle" /\ ~Idle.confirmed /\ Tells(Idle)
      BY DEF Idle, Tells
    <2> QED
      BY <1>1, <1>2, <2>1, <2>2, IdleShape
  <1>6. CASE ReadIncident(s)
    <2>1. PICK x \in SaverState :
             /\ saver' = [saver EXCEPT ![s] = x]
             /\ x.pc \in {"unconfirmed", "ready"} /\ x.confirmed = saver[s].confirmed
             /\ x.version = saver[s].version /\ x.probed = saver[s].probed
      <3> DEFINE next == IF saver[s].status = "down" THEN "unconfirmed" ELSE "ready"
                 y == [saver[s] EXCEPT !.pc = next]
                 z(i) == [[[saver[s] EXCEPT !.pc = "ready"] EXCEPT !.incident = i]
                             EXCEPT !.announced = incidents[i].opened > 0]
      <3>1. \/ saver' = [saver EXCEPT ![s] = y]
            \/ \E i \in OpenIds : saver' = [saver EXCEPT ![s] = z(i)]
        BY <1>1, <1>6 DEF ReadIncident
      <3>2. /\ y \in SaverState /\ y.pc \in {"unconfirmed", "ready"}
            /\ y.confirmed = saver[s].confirmed
            /\ y.version = saver[s].version /\ y.probed = saver[s].probed
        BY <1>1 DEF SaverState
      <3>3. ASSUME NEW i \in OpenIds
            PROVE  /\ z(i) \in SaverState /\ z(i).pc = "ready"
                   /\ z(i).confirmed = saver[s].confirmed
                   /\ z(i).version = saver[s].version /\ z(i).probed = saver[s].probed
        <4>1. i \in Ids /\ (incidents[i].opened > 0) \in BOOLEAN
          BY DEF OpenIds
        <4> QED
          BY <1>1, <4>1 DEF SaverState
      <3> HIDE DEF y, z
      <3> QED
        BY <3>1, <3>2, <3>3
    <2>2. saver[s].pc = "inserted" /\ UNCHANGED <<row, results, overlapped>>
      BY <1>6 DEF ReadIncident, budgets
    <2>3. ~saver[s].confirmed
      BY <1>1, <2>2 DEF Informed
    <2>4. Tells(x) /\ References(s)
      BY <1>1, <2>1, <2>2 DEF Tells, References
    <2> QED
      BY <1>1, <1>2, <2>1, <2>2, <2>3, <2>4
  <1>7. CASE ReadHistory(s)
    <2> DEFINE yes == Cardinality(Counted(s)) >= Threshold /\ Down(s)
               x == [[saver[s] EXCEPT !.pc = "ready"] EXCEPT !.confirmed = yes]
    <2>1. /\ saver' = [saver EXCEPT ![s] = x] /\ saver[s].pc = "unconfirmed"
          /\ UNCHANGED <<row, results, overlapped>>
      BY <1>1, <1>7 DEF ReadHistory, Down, budgets
    <2>2. yes \in BOOLEAN /\ (yes => Down(s))
      BY DEF Down
    <2> HIDE DEF yes
    <2>3. /\ x \in SaverState /\ x.pc = "ready" /\ x.confirmed = yes
          /\ x.version = saver[s].version /\ x.probed = saver[s].probed
      BY <1>1, <2>2 DEF SaverState
    <2> HIDE DEF x
    <2>4. saver'[s] = x
      BY <1>1, <2>1
    <2>5. x.confirmed => Down(s)'
      BY <2>1, <2>2, <2>3, <2>4, StillDown
    <2>6. Tells(x) /\ References(s)
      BY <1>1, <2>1, <2>3 DEF Tells, References
    <2> QED
      BY <1>1, <2>1, <2>3, <2>5, <2>6, WorkerTells
  <1> QED
    BY <1>3, <1>4, <1>5, <1>6, <1>7

\* The results of a check are deleted with it, when no worker refers to it.
LEMMA DeletionTells ==
    ASSUME RInv, SInv, CommitDelete
    PROVE  SInv'
  <1>1. /\ results' = <<>> /\ UNCHANGED <<saver, overlapped>>
        /\ \A s \in Savers : ~References(s)
        /\ row'.service = row.service
    BY DEF CommitDelete, budgets, RInv, Shapes
  <1>2. \A s \in Savers : ~saver[s].confirmed
    BY <1>1 DEF References, RInv, Informed
  <1>3. <<>> \in Seq(Result) /\ 1..Len(<<>>) = {}
    BY EmptySeq
  <1>4. \A s \in Savers : ~References(s)'
    BY <1>1 DEF References
  <1>5. \A s \in Savers : Tells(saver[s])'
    BY <1>1 DEF SInv, Tells
  <1> QED
    BY <1>1, <1>2, <1>3, <1>4, <1>5 DEF SInv

LEMMA ResultsKept ==
    ASSUME RInv, SInv, [Next]_vars
    PROVE  SInv'
  <1>1. ASSUME NEW s \in Savers, Probe(s) \/ Statement(s) \/ BreakDeadlock(s)
        PROVE  SInv'
    <2>1. CASE StaleUpdate(s)
      <3>1. /\ References(s) /\ results' = RolledBack(s)
            /\ saver' = [saver EXCEPT ![s] = Idle] /\ UNCHANGED <<row, overlapped>>
        BY <2>1 DEF StaleUpdate, References, budgets
      <3> QED
        BY <3>1, RollsBack
    <2>2. CASE BreakDeadlock(s)
      <3>1. References(s) /\ UNCHANGED <<row, overlapped>>
        BY <2>2 DEF BreakDeadlock, References, budgets
      <3>2. CASE results' = RolledBack(s) /\ saver' = [saver EXCEPT ![s] = Idle]
        BY <3>1, <3>2, RollsBack
      <3>3. CASE UNCHANGED <<results, saver>>
        BY <3>1, <3>3, OthersTell
      <3> QED
        BY <2>2, <3>2, <3>3 DEF BreakDeadlock
    <2> QED
      BY <1>1, <2>1, <2>2, Reading, Inserts, Committing DEF Statement
  <1>2. CASE \/ BeginToggle \/ BeginDelete \/ ToggleMute \/ UNCHANGED vars
             \/ SelectToggled \/ CommitToggle \/ SelectDeleted \/ LockDeleted
             \/ \E i \in Ids : DeleteIncident(i)
    <2>1. UNCHANGED <<results, saver, overlapped>>
      BY <1>2 DEF BeginToggle, BeginDelete, Begin, ToggleMute, SelectToggled, CommitToggle,
                  SelectDeleted, LockDeleted, DeleteIncident, vars, budgets
    <2>2. row'.service = row.service
      BY <1>2 DEF BeginToggle, BeginDelete, Begin, ToggleMute, SelectToggled, CommitToggle,
                  SelectDeleted, LockDeleted, DeleteIncident, vars, RInv, Shapes
    <2> QED
      BY <2>1, <2>2, OthersTell
  <1> QED
    BY <1>1, <1>2, DeletionTells DEF Next, AdminStatement

LEMMA ResultsBegin == Init => SInv
  <1> SUFFICES ASSUME Init PROVE SInv
    OBVIOUS
  <1>1. results = <<>> /\ \A s \in Savers : saver[s] = Idle
    BY DEF Init
  <1>2. <<>> \in Seq(Result) /\ 1..Len(<<>>) = {}
    BY EmptySeq
  <1>3. Idle.pc = "idle" /\ ~Idle.confirmed
    BY DEF Idle
  <1> QED
    BY <1>1, <1>2, <1>3 DEF SInv, References, Tells

Counts == saves \in Nat /\ ops \in Nat

LEMMA CountsKept ==
    ASSUME Counts, [Next]_vars
    PROVE  Counts'
  <1>1. ASSUME NEW s \in Savers, Probe(s) PROVE Counts'
    BY <1>1 DEF Probe, Counts
  <1>2. ASSUME NEW s \in Savers, Statement(s) \/ BreakDeadlock(s)
        PROVE  Counts'
    BY <1>2 DEF Statement, ReadRow, InsertResult, InsertRefused, ReadIncident,
                ReadHistory, Commit, StaleUpdate, BreakDeadlock, budgets, Counts
  <1>3. CASE BeginToggle \/ BeginDelete \/ ToggleMute \/ \E i \in Ids : DeleteIncident(i)
    BY <1>3 DEF BeginToggle, BeginDelete, Begin, ToggleMute, DeleteIncident, Counts
  <1>4. CASE AdminStatement \/ UNCHANGED vars
    BY <1>4 DEF AdminStatement, SelectToggled, CommitToggle, SelectDeleted,
                LockDeleted, CommitDelete, vars, budgets, Counts
  <1> QED
    BY <1>1, <1>2, <1>3, <1>4 DEF Next

\* Every variable keeps its type, for any number of workers, results and incidents.
THEOREM TypeCorrect == Spec => []TypeOK
  <1>1. Init => Counts
    BY DEF Init, Counts
  <1>2. RInv /\ SInv /\ Counts /\ [Next]_vars => SInv' /\ Counts'
    BY ResultsKept, CountsKept
  <1>3. RInv /\ SInv /\ Counts => TypeOK
    BY DEF RInv, SInv, Counts, Shapes, TypeOK
  <1> QED
    BY <1>1, <1>2, <1>3, ResultsBegin, TransactionsKeep, PTL DEF Spec

\* The results that confirm an incident are still the newest ones of the check
\* when its row is inserted, all DOWN and all probed under the version that the
\* transaction has read: no toggle or edit in between mixes two configurations.
THEOREM OneVersionOpens == Spec => OpeningIsOfOneVersion
  <1>1. ASSUME RInv, SInv, [Next]_vars, NEW i \in Ids, ~overlapped,
               incidents[i].status = "free", incidents'[i].status = "open"
        PROVE  \E s \in Savers :
                  /\ saver[s].pc = "ready" /\ saver'[s].pc = "idle"
                  /\ \A r \in Series(s) :
                        r.status = "down" /\ (row.service => r.probed = saver[s].version)
    <2>1. /\ incidents \in [Ids -> IncidentRow] /\ saver \in [Savers -> SaverState]
          /\ incidents' # incidents
      BY <1>1 DEF RInv, Shapes
    <2>2. ASSUME CommitToggle \/ CommitDelete PROVE FALSE
      <3>1. incidents'[i].status = "open" => incidents[i].status = "open"
        <4>1. ResolveSelected \in [Ids -> IncidentRow]
              /\ (ResolveSelected[i].status = "open" => incidents[i].status = "open")
          BY <2>1 DEF ResolveSelected, IncidentRow
        <4>2. [ResolveSelected[i] EXCEPT !.attached = FALSE].status = ResolveSelected[i].status
          BY <4>1 DEF IncidentRow
        <4>3. [incidents[i] EXCEPT !.status = "deleted"].status = "deleted"
          BY <2>1 DEF IncidentRow
        <4>4. \/ incidents' = ResolveSelected
              \/ incidents'[i] = [ResolveSelected[i] EXCEPT !.attached = FALSE]
              \/ incidents'[i] = [incidents[i] EXCEPT !.status = "deleted"]
              \/ incidents'[i] = incidents[i]
          BY <2>2 DEF CommitToggle, CommitDelete
        <4> QED
          BY <4>1, <4>2, <4>3, <4>4
      <3> QED
        BY <1>1, <3>1
    <2>3. ASSUME NEW j \in Ids, DeleteIncident(j) PROVE FALSE
      BY <1>1, <2>1, <2>3 DEF DeleteIncident, IncidentRow
    <2>4. PICK s \in Savers : Commit(s)
      BY <1>1, <2>1, <2>2, <2>3
         DEF Next, Probe, Statement, ReadRow, InsertResult, InsertRefused, ReadIncident,
             ReadHistory, StaleUpdate, BreakDeadlock, BeginToggle, BeginDelete, Begin,
             ToggleMute, AdminStatement, SelectToggled, SelectDeleted, LockDeleted, vars
    <2>5. ~Writes(s)
      <3>1. SUFFICES ASSUME Writes(s) PROVE FALSE
        OBVIOUS
      <3>2. UpdateIncident(s, saver[s].incident)
        BY <2>4, <3>1 DEF Commit
      <3>3. saver[s].incident \in Ids /\ incidents[saver[s].incident].status # "free"
        <4>1. saver[s] \in SaverState /\ Informed(saver[s]) /\ saver[s].incident # NoIncident
          BY <1>1, <2>1, <3>1 DEF Writes, RInv
        <4> QED
          BY <4>1 DEF Informed, SaverState
      <3>4. i # saver[s].incident
        BY <1>1, <3>3
      <3> QED
        BY <1>1, <2>1, <3>2, <3>4 DEF UpdateIncident
    <2>6. saver[s].confirmed
      BY <2>1, <2>4, <2>5 DEF Commit, OpenIncident
    <2>7. Down(s)
      BY <1>1, <2>6 DEF SInv
    <2>8. ASSUME row.service, NEW r \in Series(s) PROVE r.probed = saver[s].version
      <3>1. PICK k \in DOMAIN results : r = results[k] /\ results[k].version = saver[s].version
        BY <2>8 DEF Series, Newest, Counted
      <3>2. DOMAIN results = 1..Len(results)
        BY <1>1, LenProperties DEF SInv
      <3> QED
        BY <1>1, <2>8, <3>1, <3>2 DEF SInv
    <2>9. saver[s].pc = "ready" /\ saver'[s].pc = "idle"
      BY <2>1, <2>4 DEF Commit, Idle
    <2> QED
      BY <2>7, <2>8, <2>9 DEF Down
  <1>2. RInv /\ SInv /\ [Next]_vars =>
           [\A i \in Ids :
               /\ ~overlapped
               /\ incidents[i].status = "free" /\ incidents'[i].status = "open"
               => \E s \in Savers :
                     /\ saver[s].pc = "ready" /\ saver'[s].pc = "idle"
                     /\ \A r \in Series(s) :
                           /\ r.status = "down"
                           /\ row.service => r.probed = saver[s].version]_vars
    BY <1>1
  <1>3. Init => SInv
    BY ResultsBegin
  <1>4. RInv /\ SInv /\ [Next]_vars => SInv'
    BY ResultsKept
  <1> QED
    BY <1>2, <1>3, <1>4, TransactionsKeep, PTL DEF Spec, OpeningIsOfOneVersion
=============================================================================
