---------------------------- MODULE SnmpThresholds ----------------------------
(***************************************************************************)
(* The thresholds of one SNMP device and their incidents:                   *)
(* services/snmp_thresholds.py, the SNMP half of services/incidents.py,     *)
(* services/snmp_ups.py and the pages of web/snmp_routes.py.  A poll loads  *)
(* what to ask for, asks the device, and saves in one long transaction that *)
(* reads the rows, evaluates the thresholds and commits; the pages commit   *)
(* between any two of these steps.  Polls follow each other, because they   *)
(* hold the lock of CheckScheduler.                                         *)
(*                                                                         *)
(* A quantity is what an OID, or the interface or supply behind an index,   *)
(* measures.  A page's transaction is one step.                             *)
(***************************************************************************)
EXTENDS Integers, FiniteSets

CONSTANTS Sources,     \* ids of the rows of metrics, interfaces, supplies, of the UPS state
          Thresholds,  \* ids of threshold rows
          Battery,     \* the incident key "ups.battery"
          Quantities,
          None,
          Index,       \* "whatever is behind this index of the device"
          Values,      \* what the device may measure, in order
          Normal,      \* the value that the device measures at first
          Limits,      \* the limits that the administrator enters
          Start,       \* rows of sources and thresholds set up before, to start from
          MaxOps,      \* bound: actions of the administrator
          MaxShifts,   \* bound: changes of the device
          MaxLost      \* bound: polls that fail or miss a value, and restarts

Kinds == {"metric", "interface", "supply", "ups"}

\* What validate_threshold_values accepts.
ValidLimits ==
    {l \in [operator: {"gt", "lt"}, warning: Values \cup {None}, critical: Values \cup {None}] :
        /\ l.warning # None \/ l.critical # None
        /\ l.warning # None /\ l.critical # None
             => IF l.operator = "gt" THEN l.critical >= l.warning ELSE l.critical <= l.warning}

ASSUME ValuesAssumption == Values \subseteq Int /\ None \notin Values \cup Quantities
ASSUME LimitsAssumption == Limits \subseteq ValidLimits
ASSUME NormalAssumption == Normal \in Values
ASSUME KeysAssumption == Battery \notin Thresholds /\ Index \notin Quantities \cup {None}
ASSUME BoundsAssumption == MaxOps \in Nat /\ MaxShifts \in Nat /\ MaxLost \in Nat

Severities == {"warning", "critical"}
Levels == Severities \cup {"normal"}
Keys == Thresholds \cup {Battery}
Rows == {"none", "row", "deleted"}

\* on: the metric is enabled, the interface chosen; value: what the row shows.
Source == [kind: Kinds, row: Rows, on: BOOLEAN, present: BOOLEAN,
           quantity: Quantities, value: Values \cup {None}]
Threshold == [row: Rows, enabled: BOOLEAN, source: Sources, limits: Limits, level: Levels]
\* The newest incident of a key.  told: the letter that went out last; quiet: it opened or
\* rose while muted, or a letter of it was dropped.
Incident == [status: {"none", "open", "resolved", "deleted"}, severity: Severities,
             openTried: BOOLEAN, told: Severities \cup {"nothing", "recovered"},
             quiet: BOOLEAN]
Letter == [key: Keys, tells: Severities \cup {"recovered"}]
\* What the evaluation found for a key: its level before and now, and the incident it saw.
Outcome == [level: Levels, was: Levels, saw: {"nothing", "open"}, severity: Severities,
            letter: BOOLEAN, muted: BOOLEAN]
Poll == [pc: {"idle", "loaded", "answered", "read", "evaluated", "sending"},
         manual: {"no", "values", "ups"},
         asked: [Sources -> Quantities \cup {None, Index}], askedUps: BOOLEAN,
         answer: [Sources -> Values \cup {None}], basic: BOOLEAN,
         battery: {"good", "low", None},
         seen: [Sources -> Source] \cup {None}, ups: BOOLEAN, oldBattery: {"good", "low", None},
         outcome: [Keys -> Outcome \cup {None}], letters: SUBSET Letter]

ASSUME StartAssumption ==
    /\ Start \subseteq [source: [Sources -> Source], threshold: [Thresholds -> Threshold]]
    /\ \A start \in Start, t \in Thresholds : start.threshold[t].level = "normal"

VARIABLES device,     \* what it measures, what is behind its index, its battery
          config,     \* SNMP and the UPS are enabled
          muted,      \* notifications_suppressed of the object
          source, battery, threshold, incident, poll,
          raced,      \* history: keys reset while a poll was saving
          budget

vars == <<device, config, muted, source, battery, threshold, incident, poll, raced, budget>>
rows == <<source, battery, threshold, incident>>
-----------------------------------------------------------------------------
\* The save has read rows that others may change before it commits.
Saving == poll.pc \in {"read", "evaluated"}

IdlePoll == [pc |-> "idle", manual |-> "no", asked |-> [s \in Sources |-> None],
             askedUps |-> FALSE, answer |-> [s \in Sources |-> None], basic |-> FALSE,
             battery |-> None, seen |-> None, ups |-> FALSE, oldBattery |-> None,
             outcome |-> [k \in Keys |-> None], letters |-> {}]

Over(v, limit, op) == limit # None /\ IF op = "gt" THEN v > limit ELSE v < limit

EvaluateLevel(v, l) ==
    IF Over(v, l.critical, l.operator) THEN "critical"
    ELSE IF Over(v, l.warning, l.operator) THEN "warning" ELSE "normal"

Usable(src) ==
    CASE src.kind = "metric"    -> src.row = "row" /\ src.on
      [] src.kind = "interface" -> src.row = "row" /\ src.on
      [] src.kind = "supply"    -> src.row = "row" /\ src.present /\ src.value # None
      [] src.kind = "ups"       -> src.row = "row" /\ config.enabled /\ config.ups
                                     /\ src.value # None

\* What a poll asks for.
AskedQuantity(src) ==
    CASE src.kind = "metric"    -> IF src.row = "row" /\ src.on THEN src.quantity ELSE None
      [] src.kind = "interface" -> IF src.row = "row" /\ src.on /\ src.present THEN Index ELSE None
      [] src.kind = "supply"    -> IF src.row = "row" /\ src.present THEN Index ELSE None
      [] src.kind = "ups"       -> IF config.ups THEN src.quantity ELSE None

Measured(q) == device.value[IF q = Index THEN device.behind ELSE q]

UpsSources == {s \in Sources : source[s].kind = "ups"}

\* The answer is stored as a UPS state only with its status or its output source.
SavesUps == poll.askedUps /\ poll.basic /\ UpsSources # {}

\* What the save stores in the row of a supply that it asked for.
StoredSupply(s) == IF poll.asked[s] # None THEN poll.answer[s] ELSE poll.seen[s].value

\* A value that the UPS left out keeps the value of an earlier poll.
StoredUps(s) == IF SavesUps /\ poll.answer[s] # None THEN poll.answer[s] ELSE poll.seen[s].value

Stored(s) ==
    CASE poll.seen[s].kind = "supply" -> StoredSupply(s)
      [] poll.seen[s].kind = "ups"    -> StoredUps(s)
      [] OTHER                        -> poll.seen[s].value

StoredBattery == IF poll.battery # None THEN poll.battery ELSE poll.oldBattery

\* Mutant: a supply that did not answer counts with the value of its row.
ThresholdValueOfRow(s) ==
    LET src == poll.seen[s] IN
    IF src.kind \in {"supply", "ups"} /\ src.row = "row" /\ src.present
    THEN IF poll.answer[s] # None THEN poll.answer[s] ELSE src.value
    ELSE poll.answer[s]

\* What a threshold on this source is compared with, None when it has no fresh value.
ThresholdValue(s) ==
    LET src == poll.seen[s] IN
    CASE src.kind = "metric"    -> IF src.row = "row" /\ src.on THEN poll.answer[s] ELSE None
      [] src.kind = "interface" -> IF src.row = "row" /\ src.on /\ src.present
                                   THEN poll.answer[s] ELSE None
      [] src.kind = "supply"    -> IF src.row = "row" /\ src.present THEN poll.answer[s] ELSE None
      [] src.kind = "ups"       -> IF SavesUps /\ poll.ups THEN StoredUps(s) ELSE None

\* Mutant: an unchanged level is not looked at again.
EvaluatedOnChange(t) ==
    /\ threshold[t].row = "row" /\ threshold[t].enabled
    /\ LET v == ThresholdValue(threshold[t].source) IN
       v # None /\ EvaluateLevel(v, threshold[t].limits) # threshold[t].level

Evaluated(t) ==
    /\ threshold[t].row = "row"
    /\ threshold[t].enabled
    /\ ThresholdValue(threshold[t].source) # None

\* Mutant: one letter for an incident, also when it rises.
SendsLetterOnce(k, level) ==
    ~muted /\ (level # "normal" <=> incident[k].status # "open")

\* set_source_state: which letter the new level of a key is worth.
SendsLetter(k, level) ==
    /\ ~muted
    /\ \/ level # "normal" /\ incident[k].status # "open"
       \/ level = "normal" /\ incident[k].status = "open" /\ incident[k].openTried
       \/ level = "critical" /\ incident[k].status = "open" /\ incident[k].severity = "warning"

OutcomeOf(k, level, was) ==
    [level |-> level, was |-> was,
     saw |-> IF incident[k].status = "open" THEN "open" ELSE "nothing",
     severity |-> incident[k].severity, letter |-> SendsLetter(k, level), muted |-> muted]

BatteryLevel == IF StoredBattery = "low" THEN "critical" ELSE "normal"

(***************************************************************************)
(* The poll.                                                                *)
(***************************************************************************)

LoadPollRequest(manual) ==
    /\ poll.pc = "idle"
    /\ config.enabled
    /\ poll' = [poll EXCEPT !.pc = "loaded", !.manual = manual, !.askedUps = config.ups,
                            !.asked = [s \in Sources |-> AskedQuantity(source[s])]]
    /\ UNCHANGED <<device, config, muted, rows, raced, budget>>

\* Polls by hand, from the pages of interfaces and thresholds, of supplies, and of the UPS.
PollInterfacesNow == LoadPollRequest("values")
PollSuppliesNow == LoadPollRequest("values")
PollUpsNow == config.ups /\ LoadPollRequest("ups")

\* Values may be missing from an answer; without system values nothing is saved at all.
GetValues ==
    /\ poll.pc = "loaded"
    /\ \E missing \in SUBSET {s \in Sources : poll.asked[s] # None},
          gotBattery \in BOOLEAN, basic \in BOOLEAN :
         LET whole == missing = {} /\ gotBattery /\ basic IN
         /\ gotBattery => basic
         /\ ~poll.askedUps => gotBattery
         /\ ~whole => budget.lost < MaxLost
         /\ budget' = [budget EXCEPT !.lost = IF whole THEN @ ELSE @ + 1]
         /\ poll' = [poll EXCEPT
                !.pc = "answered",
                !.answer = [s \in Sources |->
                              IF poll.asked[s] = None \/ s \in missing THEN None
                              ELSE Measured(poll.asked[s])],
                !.basic = basic,
                !.battery = IF poll.askedUps /\ gotBattery THEN device.battery ELSE None]
    /\ UNCHANGED <<device, config, muted, rows, raced>>

\* A timeout, an answer without system values, or a restart of the service: nothing is
\* saved, and letters not sent yet are lost.
PollFails ==
    /\ poll.pc # "idle"
    /\ budget.lost < MaxLost
    /\ budget' = [budget EXCEPT !.lost = @ + 1]
    /\ poll' = IdlePoll
    /\ incident' = [k \in Keys |-> IF \E l \in poll.letters : l.key = k
                                   THEN [incident[k] EXCEPT !.quiet = TRUE] ELSE incident[k]]
    /\ UNCHANGED <<device, config, muted, source, battery, threshold, raced>>

ReadRows ==
    /\ poll.pc = "answered"
    /\ poll' = IF config.enabled
               THEN [poll EXCEPT !.pc = "read", !.seen = source, !.ups = config.ups,
                                 !.oldBattery = battery]
               ELSE IdlePoll
    /\ UNCHANGED <<device, config, muted, rows, raced, budget>>

Evaluate ==
    /\ poll.pc = "read"
    /\ poll' = [poll EXCEPT
            !.pc = "evaluated",
            !.outcome = [k \in Keys |->
                IF k = Battery
                THEN IF SavesUps THEN OutcomeOf(k, BatteryLevel, "normal") ELSE None
                ELSE IF Evaluated(k)
                THEN OutcomeOf(k, EvaluateLevel(ThresholdValue(threshold[k].source),
                                                threshold[k].limits), threshold[k].level)
                ELSE None]]
    /\ UNCHANGED <<device, config, muted, rows, raced, budget>>

\* A row that the save writes is gone, so its flush fails and everything is rolled back.
RowsGone ==
    \/ \E t \in Thresholds : poll.outcome[t] # None /\ threshold[t].row = "deleted"
    \/ \E k \in Keys : /\ poll.outcome[k] # None
                       /\ poll.outcome[k].saw = "open" /\ incident[k].status = "deleted"
    \/ \E s \in Sources : /\ poll.asked[s] # None /\ poll.seen[s].row = "row"
                          /\ source[s].row # "row"
                          /\ source[s].kind = "ups" => SavesUps

\* The incident of a key after the commit.  Only the columns that the save changed are
\* written: an incident resolved meanwhile stays resolved.
Concluded(k) ==
    LET o == poll.outcome[k]  i == incident[k]
        quiet == o.level # "normal" /\ o.muted
                   /\ (o.saw = "open" => o.severity = "warning" /\ o.level = "critical")
    IN
    CASE o = None -> i
      [] o # None /\ o.saw = "nothing" /\ o.level = "normal" -> i
      [] o # None /\ o.saw = "nothing" /\ o.level # "normal" ->
            [status |-> "open", severity |-> o.level, openTried |-> o.letter,
             told |-> "nothing", quiet |-> quiet]
      [] o # None /\ o.saw = "open" /\ o.level = "normal" -> [i EXCEPT !.status = "resolved"]
      [] o # None /\ o.saw = "open" /\ o.level # "normal" ->
            [i EXCEPT !.severity = IF o.level = o.severity THEN @ ELSE o.level,
                      !.quiet = @ \/ quiet]

CommitPoll ==
    /\ poll.pc = "evaluated"
    /\ ~RowsGone
    /\ source' = [s \in Sources |->
            LET new == Stored(s) IN
            CASE source[s].kind = "ups" /\ SavesUps ->
                    [source[s] EXCEPT !.row = "row",
                        !.value = IF new = poll.seen[s].value THEN @ ELSE new]
              [] OTHER -> [source[s] EXCEPT
                        !.value = IF new = poll.seen[s].value THEN @ ELSE new]]
    /\ battery' = IF SavesUps /\ StoredBattery # poll.oldBattery THEN StoredBattery ELSE battery
    /\ threshold' = [t \in Thresholds |->
            LET o == poll.outcome[t] IN
            IF o = None \/ o.level = o.was THEN threshold[t]
            ELSE [threshold[t] EXCEPT !.level = o.level]]
    /\ incident' = [k \in Keys |-> Concluded(k)]
    /\ poll' = [IdlePoll EXCEPT
            !.pc = "sending", !.manual = poll.manual,
            !.letters = {[key |-> k, tells |-> IF poll.outcome[k].level = "normal"
                                               THEN "recovered" ELSE poll.outcome[k].level] :
                           k \in {j \in Keys : poll.outcome[j] # None /\ poll.outcome[j].letter}}]
    /\ UNCHANGED <<device, config, muted, raced, budget>>

RollbackPoll ==
    /\ poll.pc = "evaluated"
    /\ RowsGone
    /\ poll' = IdlePoll
    /\ UNCHANGED <<device, config, muted, rows, raced, budget>>

\* A poll by hand reads the settings, or the state of the UPS, again before it sends, and
\* may drop the letters of all thresholds.
DropsDisabled == poll.manual = "values" /\ ~config.enabled
DropsWithoutUps == poll.manual = "ups" /\ \A s \in UpsSources : source[s].row # "row"

Send ==
    /\ poll.pc = "sending"
    /\ poll' = IdlePoll
    /\ incident' = [k \in Keys |->
            LET mine == {l \in poll.letters : l.key = k} IN
            IF mine = {} THEN incident[k]
            ELSE IF DropsDisabled \/ DropsWithoutUps THEN [incident[k] EXCEPT !.quiet = TRUE]
            ELSE [incident[k] EXCEPT !.told = (CHOOSE l \in mine : TRUE).tells,
                                     !.quiet = FALSE]]
    /\ UNCHANGED <<device, config, muted, source, battery, threshold, raced, budget>>

(***************************************************************************)
(* The pages.  Each is one transaction.                                     *)
(***************************************************************************)

Act == budget.ops < MaxOps /\ budget' = [budget EXCEPT !.ops = @ + 1]

\* resolve_source_silently for a set of keys, and the note that a poll was saving.
ResolveSilently(keys) ==
    /\ incident' = [k \in Keys |-> IF k \in keys /\ incident[k].status = "open"
                                   THEN [incident[k] EXCEPT !.status = "resolved"]
                                   ELSE incident[k]]
    /\ raced' = IF Saving THEN raced \cup keys ELSE raced \ keys

\* Mutant: the incidents of reset thresholds stay open.
ResetRowsOnly(ts, disable) ==
    /\ threshold' = [t \in Thresholds |->
            IF t \in ts THEN [threshold[t] EXCEPT !.level = "normal", !.enabled = @ /\ ~disable]
            ELSE threshold[t]]
    /\ UNCHANGED <<incident, raced>>

\* reset_threshold for a set of thresholds.
Reset(ts, disable) ==
    /\ threshold' = [t \in Thresholds |->
            IF t \in ts THEN [threshold[t] EXCEPT !.level = "normal", !.enabled = @ /\ ~disable]
            ELSE threshold[t]]
    /\ ResolveSilently(ts)

Of(s) == {t \in Thresholds : threshold[t].row = "row" /\ threshold[t].source = s}

ThresholdSave(t, s, l, enabled) ==
    /\ Act
    /\ threshold[t].row # "deleted"
    /\ Usable(source[s])
    /\ threshold' = [threshold EXCEPT ![t] = [row |-> "row", enabled |-> enabled, source |-> s,
                                              limits |-> l, level |-> "normal"]]
    /\ IF threshold[t].row = "row" THEN ResolveSilently({t}) ELSE UNCHANGED <<incident, raced>>
    /\ UNCHANGED <<device, config, muted, source, battery, poll>>

ThresholdToggle(t) ==
    /\ Act
    /\ threshold[t].row = "row"
    /\ IF threshold[t].enabled THEN Reset({t}, TRUE)
       ELSE /\ threshold' = [threshold EXCEPT ![t].enabled = TRUE, ![t].level = "normal"]
            /\ UNCHANGED <<incident, raced>>
    /\ UNCHANGED <<device, config, muted, source, battery, poll>>

ThresholdDelete(t) ==
    /\ Act
    /\ threshold[t].row = "row"
    /\ threshold' = [threshold EXCEPT ![t].row = "deleted", ![t].level = "normal"]
    /\ ResolveSilently({t})
    /\ UNCHANGED <<device, config, muted, source, battery, poll>>

\* What the row of a metric becomes; no two metrics of an object have the same OID, and an
\* edit resets nothing.
MetricSave(s, q, on) ==
    /\ Act
    /\ source[s].kind = "metric"
    /\ \A o \in Sources \ {s} : source[o].kind = "metric" /\ source[o].row = "row"
                                   => source[o].quantity # q
    /\ source' = [source EXCEPT ![s].row = "row", ![s].on = on, ![s].quantity = q]
    /\ UNCHANGED <<device, config, muted, battery, threshold, incident, poll, raced>>

MetricCreate(s, q, on) == source[s].row = "none" /\ MetricSave(s, q, on)
MetricUpdate(s, q, on) == source[s].row = "row" /\ MetricSave(s, q, on)

\* A metric that a discovery has found is enabled at once.
DiscoveryAdd(s, q) == MetricCreate(s, q, TRUE)

\* The thresholds of a deleted metric are deleted by the foreign key.
MetricDelete(s) ==
    /\ Act
    /\ source[s].kind = "metric"
    /\ source[s].row = "row"
    /\ source' = [source EXCEPT ![s].row = "deleted"]
    /\ threshold' = [t \in Thresholds |-> IF t \in Of(s)
                                          THEN [threshold[t] EXCEPT !.row = "deleted",
                                                                    !.level = "normal"]
                                          ELSE threshold[t]]
    /\ ResolveSilently(Of(s))
    /\ UNCHANGED <<device, config, muted, battery, poll>>

InterfaceSelection(s) ==
    /\ Act
    /\ source[s].kind = "interface"
    /\ source[s].row = "row"
    /\ source[s].present
    /\ source' = [source EXCEPT ![s].on = ~@]
    /\ IF source[s].on THEN Reset(Of(s), FALSE) ELSE UNCHANGED <<threshold, incident, raced>>
    /\ UNCHANGED <<device, config, muted, battery, poll>>

\* A walk found the index, or not; another thing behind it disables its thresholds.  The
\* walk is not under the lock of the polls.
Moved(s, listed) ==
    listed /\ source[s].row = "row" /\ source[s].quantity # device.behind

ResetMoved(s, listed) ==
    IF Moved(s, listed) THEN Reset(Of(s), TRUE) ELSE UNCHANGED <<threshold, incident, raced>>

SaveInterfaceInventory(s, listed) ==
    /\ Act
    /\ config.enabled
    /\ source[s].kind = "interface"
    /\ listed \/ source[s].row = "row"
    /\ source' = [source EXCEPT
            ![s].row = "row", ![s].present = listed, ![s].on = @ /\ ~Moved(s, listed),
            ![s].quantity = IF listed THEN device.behind ELSE @]
    /\ ResetMoved(s, listed)
    /\ UNCHANGED <<device, config, muted, battery, poll>>

SaveSupplyInventory(s, listed) ==
    /\ Act
    /\ config.enabled
    /\ source[s].kind = "supply"
    /\ listed \/ source[s].row = "row"
    /\ source' = [source EXCEPT
            ![s].row = "row", ![s].present = listed,
            ![s].quantity = IF listed THEN device.behind ELSE @,
            ![s].value = IF listed THEN Measured(Index) ELSE @]
    /\ ResetMoved(s, listed)
    /\ UNCHANGED <<device, config, muted, battery, poll>>

ClearData ==
    /\ Act
    /\ source' = [s \in Sources |-> [source[s] EXCEPT
            !.value = None, !.row = IF source[s].kind = "ups" THEN "none" ELSE @]]
    /\ battery' = None
    /\ Reset({t \in Thresholds : threshold[t].row = "row"}, FALSE)
    /\ UNCHANGED <<device, config, muted, poll>>

\* Disabling SNMP or the UPS leaves thresholds and incidents as they are.
SaveSettings(enabled, ups) ==
    /\ Act
    /\ config' = [enabled |-> enabled, ups |-> ups]
    /\ UNCHANGED <<device, muted, rows, poll, raced>>

ToggleMute ==
    /\ Act
    /\ muted' = ~muted
    /\ UNCHANGED <<device, config, rows, poll, raced>>

\* History of incidents is deleted whatever their status.
IncidentDelete(k) ==
    /\ Act
    /\ incident[k].status \in {"open", "resolved"}
    /\ incident' = [incident EXCEPT ![k].status = "deleted"]
    /\ UNCHANGED <<device, config, muted, source, battery, threshold, poll, raced>>

DeviceChanges ==
    /\ budget.shifts < MaxShifts
    /\ budget' = [budget EXCEPT !.shifts = @ + 1]
    /\ \/ \E q \in Quantities : \E v \in Values \ {device.value[q]} :
             device' = [device EXCEPT !.value[q] = v]
       \/ /\ \E s \in Sources : source[s].kind \in {"interface", "supply"}
          /\ \E q \in Quantities \ {device.behind} : device' = [device EXCEPT !.behind = q]
       \/ /\ UpsSources # {}
          /\ device' = [device EXCEPT !.battery = IF @ = "good" THEN "low" ELSE "good"]
    /\ UNCHANGED <<config, muted, rows, poll, raced>>
-----------------------------------------------------------------------------
Init ==
    /\ device \in [value: [Quantities -> {Normal}], behind: Quantities, battery: {"good"}]
    /\ \E start \in Start :
         /\ source = start.source
         /\ \A s \in Sources : source[s].row = "row" => source[s].quantity = device.behind
         /\ threshold = start.threshold
         /\ config = [enabled |-> TRUE,
                      ups |-> \E s \in Sources : start.source[s].kind = "ups"]
    /\ battery = IF config.ups THEN "good" ELSE None
    /\ muted = FALSE
    /\ incident = [k \in Keys |-> [status |-> "none", severity |-> "warning",
                                   openTried |-> FALSE, told |-> "nothing", quiet |-> FALSE]]
    /\ poll = IdlePoll
    /\ raced = {}
    /\ budget = [ops |-> 0, shifts |-> 0, lost |-> 0]

\* The scheduler polls again and again; every step of a poll ends.
PollStep == LoadPollRequest("no") \/ GetValues \/ ReadRows \/ Evaluate \/ CommitPoll
           \/ RollbackPoll \/ Send

Page ==
    \/ \E t \in Thresholds : ThresholdToggle(t) \/ ThresholdDelete(t)
    \/ \E t \in Thresholds, s \in Sources, l \in Limits, enabled \in BOOLEAN :
         ThresholdSave(t, s, l, enabled)
    \/ \E s \in Sources : MetricDelete(s) \/ InterfaceSelection(s)
    \/ \E s \in Sources, q \in Quantities, on \in BOOLEAN :
         MetricCreate(s, q, on) \/ MetricUpdate(s, q, on)
    \/ \E s \in Sources, q \in Quantities : DiscoveryAdd(s, q)
    \/ \E s \in Sources, listed \in BOOLEAN :
         SaveInterfaceInventory(s, listed) \/ SaveSupplyInventory(s, listed)
    \/ ClearData
    \/ \E enabled, ups \in BOOLEAN : SaveSettings(enabled, ups)
    \/ ToggleMute
    \/ \E k \in Keys : IncidentDelete(k)

Next ==
    \/ PollStep
    \/ PollInterfacesNow
    \/ PollSuppliesNow
    \/ PollUpsNow
    \/ PollFails
    \/ Page
    \/ DeviceChanges

Spec == Init /\ [][Next]_vars
FairSpec == Spec /\ WF_vars(PollStep)

-----------------------------------------------------------------------------
TypeOK ==
    /\ device \in [value: [Quantities -> Values], behind: Quantities, battery: {"good", "low"}]
    /\ config \in [enabled: BOOLEAN, ups: BOOLEAN]
    /\ muted \in BOOLEAN
    /\ source \in [Sources -> Source]
    /\ battery \in {"good", "low", None}
    /\ threshold \in [Thresholds -> Threshold]
    /\ incident \in [Keys -> Incident]
    /\ poll \in Poll
    /\ raced \subseteq Keys
    /\ budget \in [ops: 0 .. MaxOps, shifts: 0 .. MaxShifts, lost: 0 .. MaxLost]

Open(k) == incident[k].status = "open"

\* An open incident belongs to a threshold that still is evaluated and, for an interface,
\* to one that still is chosen: every page that takes a threshold or its source away closes
\* the incident, also when a poll is about to write it (reset_threshold), except in the
\* window in which the poll has read the row that the page changes.
OpenIsWatched ==
    \A t \in Thresholds \ raced : Open(t) =>
        /\ threshold[t].row = "row"
        /\ threshold[t].enabled
        /\ source[threshold[t].source].kind = "interface" => source[threshold[t].source].on

\* The level that the page of thresholds shows is that of the open incident, and a level
\* above normal has an open incident unless the administrator deleted it.
LevelShown ==
    \A t \in Thresholds \ raced :
        /\ Open(t) => threshold[t].level = incident[t].severity
        /\ threshold[t].level # "normal" => incident[t].status \in {"open", "deleted"}

\* An incident and its threshold tell the same story.
IncidentMatchesThreshold == OpenIsWatched /\ LevelShown

\* Once no letter is on its way, the last letter about an open critical incident said
\* critical, unless it became critical while notifications were off, or its letter was lost
\* with a restart or dropped by a poll by hand (_source_opening_notification, escalation).
CriticalIsAnnounced ==
    \A k \in Keys : Open(k) /\ incident[k].severity = "critical" /\ ~incident[k].quiet
                    /\ (\A l \in poll.letters : l.key # k)
                      => incident[k].told = "critical"

\* A poll closes the incident of a threshold only on a value that this poll brought and
\* that the limits find normal: a missing answer, a failed poll or a reset closes nothing.
\* The UPS is left out: there a value of an earlier poll counts (NoTransitionWithoutData).
ClosedForCause ==
    [][budget'.ops = budget.ops =>
         \A t \in Thresholds :
            Open(t) /\ ~Open(t)' /\ source[threshold[t].source].kind # "ups" =>
               LET v == poll.answer[threshold[t].source] IN
               /\ v # None
               /\ t \notin raced => EvaluateLevel(v, threshold[t].limits) = "normal"]_vars

\* "No fresh/valid data means no transition": a poll opens or closes the incident of a
\* threshold only with a value that this poll brought (evaluate_target).
NoTransitionWithoutData ==
    [][budget'.ops = budget.ops =>
         \A t \in Thresholds :
            Open(t) # Open(t)' => poll.answer[threshold[t].source] # None]_vars

\* The value behind a threshold, as a poll that misses nothing finds it.
Current(t) == Measured(AskedQuantity(source[threshold[t].source]))
Watched(t) ==
    /\ config.enabled
    /\ threshold[t].row = "row"
    /\ threshold[t].enabled
    /\ AskedQuantity(source[threshold[t].source]) # None
CurrentLevel(t) == EvaluateLevel(Current(t), threshold[t].limits)

\* A level that the values of a watched threshold keep is reported in the end, whatever
\* pages and polls did before: above a limit as an open incident of that severity, and
\* normal as none.
CurrentLevelIsReported ==
    \A t \in Thresholds, level \in Levels :
        <>[](Watched(t) /\ CurrentLevel(t) = level)
            => <>[](IF level = "normal" THEN ~Open(t)
                    ELSE Open(t) /\ incident[t].severity = level)
=============================================================================
