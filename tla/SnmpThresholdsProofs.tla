------------------------- MODULE SnmpThresholdsProofs -------------------------
(***************************************************************************)
(* The thresholds of a device for every set of sources, thresholds, values *)
(* and limits.  The argument: what an evaluation found for a threshold     *)
(* stays true of its row until the poll commits, or a page has reset the   *)
(* threshold meanwhile, which closes its incident and is remembered.       *)
(***************************************************************************)
EXTENDS SnmpThresholds, TLAPS

-----------------------------------------------------------------------------
(* Types. *)

Shapes ==
    /\ device \in [value: [Quantities -> Values], behind: Quantities, battery: {"good", "low"}]
    /\ config \in [enabled: BOOLEAN, ups: BOOLEAN]
    /\ muted \in BOOLEAN
    /\ source \in [Sources -> Source]
    /\ battery \in {"good", "low", None}
    /\ threshold \in [Thresholds -> Threshold]
    /\ incident \in [Keys -> Incident]
    /\ raced \subseteq Keys
    /\ budget \in [ops: 0 .. MaxOps, shifts: 0 .. MaxShifts, lost: 0 .. MaxLost]

LEMMA TypeIsShapes == TypeOK <=> Shapes /\ poll \in Poll
  BY DEF TypeOK, Shapes

LEMMA MeasuredIsValue ==
    ASSUME Shapes, NEW q \in Quantities \cup {Index}
    PROVE  Measured(q) \in Values
  BY DEF Measured, Shapes

LEMMA AskedIsKnown ==
    ASSUME NEW src \in Source
    PROVE  AskedQuantity(src) \in Quantities \cup {None, Index}
  BY DEF AskedQuantity, Source, Kinds

LEMMA LevelIsLevel ==
    ASSUME NEW v, NEW l
    PROVE  EvaluateLevel(v, l) \in Levels
  BY DEF EvaluateLevel, Levels, Severities

LEMMA IdlePollIsPoll ==
    /\ IdlePoll \in Poll /\ IdlePoll.pc = "idle" /\ IdlePoll.letters = {}
  BY DEF IdlePoll, Poll

LEMMA Counted ==
    ASSUME Shapes
    PROVE  /\ budget.ops < MaxOps =>
                [budget EXCEPT !.ops = @ + 1] \in [ops: 0 .. MaxOps, shifts: 0 .. MaxShifts, lost: 0 .. MaxLost]
           /\ budget.shifts < MaxShifts =>
                [budget EXCEPT !.shifts = @ + 1] \in [ops: 0 .. MaxOps, shifts: 0 .. MaxShifts, lost: 0 .. MaxLost]
           /\ budget.lost < MaxLost =>
                [budget EXCEPT !.lost = @ + 1] \in [ops: 0 .. MaxOps, shifts: 0 .. MaxShifts, lost: 0 .. MaxLost]
  BY BoundsAssumption DEF Shapes

LEMMA OutcomeIsOutcome ==
    ASSUME Shapes, NEW k \in Keys, NEW level \in Levels, NEW was \in Levels
    PROVE  /\ OutcomeOf(k, level, was) \in Outcome
           /\ OutcomeOf(k, level, was).level = level /\ OutcomeOf(k, level, was).was = was
           /\ OutcomeOf(k, level, was).severity = incident[k].severity
           /\ OutcomeOf(k, level, was).saw = IF Open(k) THEN "open" ELSE "nothing"
           /\ OutcomeOf(k, level, was).letter = SendsLetter(k, level)
           /\ OutcomeOf(k, level, was).muted = muted
  <1> DEFINE letter == SendsLetter(k, level)
  <1>1. letter \in BOOLEAN
    BY DEF SendsLetter
  <1>2. OutcomeOf(k, level, was) =
          [level |-> level, was |-> was,
           saw |-> IF incident[k].status = "open" THEN "open" ELSE "nothing",
           severity |-> incident[k].severity, letter |-> letter, muted |-> muted]
    BY DEF OutcomeOf
  <1>3. incident[k].severity \in Severities /\ muted \in BOOLEAN
    BY DEF Shapes, Incident
  <1> HIDE DEF letter
  <1>4. OutcomeOf(k, level, was) \in Outcome
    BY <1>1, <1>2, <1>3 DEF Outcome
  <1> QED
    BY <1>2, <1>4 DEF Open, letter
-----------------------------------------------------------------------------
(* What a page does to the rows that a poll is about to write. *)

\* No page opens an incident or changes what was told of it.
OnlyCloses ==
    \A k \in Keys : /\ Open(k)' => Open(k)
                    /\ incident'[k].severity = incident[k].severity
                    /\ incident'[k].told = incident[k].told
                    /\ incident'[k].quiet = incident[k].quiet

\* The threshold is left alone, with the interface that it watches.
LeftAlone(t) ==
    /\ threshold'[t] = threshold[t]
    /\ incident'[t].status \in {incident[t].status, "deleted"}
    /\ t \in raced => t \in raced'
    /\ threshold[t].row = "row" /\ source[threshold[t].source].kind = "interface"
          /\ source[threshold[t].source].on => source'[threshold[t].source].on

\* It is reset, and its incident with it.
Cleared(t) ==
    /\ ~Open(t)'
    /\ threshold'[t].level = "normal"
    /\ threshold'[t].row = "none" => threshold[t].row = "none"
    /\ Saving => t \in raced'

\* It comes into force.
Fresh(t) ==
    /\ ~(threshold[t].row = "row" /\ threshold[t].enabled)
    /\ threshold'[t].level = "normal"
    /\ threshold'[t].row = "row"
    /\ incident'[t] = incident[t]
    /\ t \in raced => t \in raced'
    /\ source' = source
    /\ \/ /\ threshold[t].row = "row"
          /\ threshold'[t].source = threshold[t].source
          /\ threshold'[t].limits = threshold[t].limits
       \/ /\ threshold[t].row = "none"
          /\ source[threshold'[t].source].kind = "interface"
                => source[threshold'[t].source].on

PageEffect ==
    /\ poll' = poll
    /\ \A s \in Sources : source'[s].kind = source[s].kind
    /\ OnlyCloses
    /\ \A t \in Thresholds : LeftAlone(t) \/ Cleared(t) \/ Fresh(t)

LEMMA Silently ==
    ASSUME Shapes, NEW keys \in SUBSET Keys, ResolveSilently(keys)
    PROVE  /\ incident' \in [Keys -> Incident] /\ raced' \subseteq Keys
           /\ OnlyCloses
           /\ \A k \in keys : ~Open(k)' /\ (Saving => k \in raced')
           /\ \A k \in Keys \ keys : /\ incident'[k] = incident[k]
                                     /\ k \in raced => k \in raced'
  BY DEF Shapes, ResolveSilently, Incident, OnlyCloses, Open

LEMMA Resetting ==
    ASSUME Shapes, NEW ts \in SUBSET Thresholds, NEW disable \in BOOLEAN, Reset(ts, disable)
    PROVE  /\ threshold' \in [Thresholds -> Threshold]
           /\ incident' \in [Keys -> Incident] /\ raced' \subseteq Keys
           /\ OnlyCloses
           /\ \A t \in ts : Cleared(t)
           /\ \A t \in Thresholds \ ts : /\ threshold'[t] = threshold[t]
                                         /\ incident'[t] = incident[t]
                                         /\ t \in raced => t \in raced'
  <1> DEFINE enabled(t) == threshold[t].enabled /\ ~disable
             row(t) == [threshold[t] EXCEPT !.level = "normal", !.enabled = enabled(t)]
  <1>1. threshold' = [t \in Thresholds |-> IF t \in ts THEN row(t) ELSE threshold[t]]
    BY DEF Reset
  <1>2. \A t \in Thresholds : enabled(t) \in BOOLEAN
    OBVIOUS
  <1> HIDE DEF enabled
  <1>3. \A t \in Thresholds : /\ row(t) \in Threshold /\ row(t).level = "normal"
                              /\ row(t).row = threshold[t].row
    BY <1>2 DEF Shapes, Threshold, Levels
  <1> HIDE DEF row
  <1>4. ts \in SUBSET Keys /\ ResolveSilently(ts)
    BY DEF Keys, Reset
  <1>5. \A t \in ts : threshold'[t].level = "normal" /\ threshold'[t].row = threshold[t].row
    BY <1>1, <1>3
  <1>6. threshold' \in [Thresholds -> Threshold]
    BY <1>1, <1>3 DEF Shapes
  <1>7. \A t \in Thresholds \ ts : threshold'[t] = threshold[t] /\ t \in Keys \ ts
    BY <1>1 DEF Keys
  <1> QED
    BY <1>4, <1>5, <1>6, <1>7, Silently DEF Cleared
LEMMA ThresholdPages ==
    ASSUME Shapes, NEW t \in Thresholds,
           \/ ThresholdToggle(t) \/ ThresholdDelete(t)
           \/ \E s \in Sources, l \in Limits, enabled \in BOOLEAN :
                 ThresholdSave(t, s, l, enabled)
    PROVE  Shapes' /\ PageEffect
  <1>1. {t} \in SUBSET Thresholds /\ {t} \in SUBSET Keys /\ Thresholds \subseteq Keys
    BY DEF Keys
  <1>2. threshold[t] \in Threshold
    BY DEF Shapes
  <1>3. CASE ThresholdToggle(t) /\ threshold[t].enabled
    <2>1. Reset({t}, TRUE)
      BY <1>3 DEF ThresholdToggle
    <2>2. /\ budget' \in [ops: 0 .. MaxOps, shifts: 0 .. MaxShifts, lost: 0 .. MaxLost]
          /\ UNCHANGED <<device, config, muted, source, battery, poll>>
      BY <1>3, Counted DEF ThresholdToggle, Act
    <2>3. Shapes'
      BY <1>1, <2>1, <2>2, Resetting DEF Shapes
    <2>4. \A u \in Thresholds : u # t => LeftAlone(u)
      BY <1>1, <2>1, <2>2, Resetting DEF LeftAlone
    <2> QED
      BY <1>1, <2>1, <2>2, <2>3, <2>4, Resetting DEF PageEffect
  <1>4. CASE ThresholdToggle(t) /\ ~threshold[t].enabled
    <2>1. /\ threshold' = [threshold EXCEPT ![t].enabled = TRUE, ![t].level = "normal"]
          /\ threshold[t].row = "row"
          /\ UNCHANGED <<device, config, muted, source, battery, poll, incident, raced>>
      BY <1>4 DEF ThresholdToggle
    <2>2. budget' \in [ops: 0 .. MaxOps, shifts: 0 .. MaxShifts, lost: 0 .. MaxLost]
      BY <1>4, Counted DEF ThresholdToggle, Act
    <2> DEFINE new == [threshold[t] EXCEPT !.enabled = TRUE, !.level = "normal"]
    <2>3. /\ new \in Threshold /\ new.level = "normal" /\ new.row = "row"
          /\ new.source = threshold[t].source /\ new.limits = threshold[t].limits
      BY <1>2, <2>1 DEF Threshold, Levels
    <2>4. threshold' = [threshold EXCEPT ![t] = new]
      BY <2>1 DEF Shapes
    <2> HIDE DEF new
    <2>5. threshold' \in [Thresholds -> Threshold] /\ threshold'[t] = new
          /\ \A u \in Thresholds : u # t => threshold'[u] = threshold[u]
      BY <2>3, <2>4 DEF Shapes
    <2>6. Shapes'
      BY <2>1, <2>2, <2>5 DEF Shapes
    <2>7. Fresh(t)
      BY <1>4, <2>1, <2>3, <2>5 DEF Fresh
    <2>8. \A u \in Thresholds : u # t => LeftAlone(u)
      BY <2>1, <2>5 DEF LeftAlone
    <2> QED
      BY <2>1, <2>6, <2>7, <2>8 DEF PageEffect, OnlyCloses, Open
  <1>5. CASE ThresholdDelete(t)
    <2>1. /\ threshold' = [threshold EXCEPT ![t].row = "deleted", ![t].level = "normal"]
          /\ ResolveSilently({t}) /\ threshold[t].row = "row"
          /\ UNCHANGED <<device, config, muted, source, battery, poll>>
      BY <1>5 DEF ThresholdDelete
    <2>2. budget' \in [ops: 0 .. MaxOps, shifts: 0 .. MaxShifts, lost: 0 .. MaxLost]
      BY <1>5, Counted DEF ThresholdDelete, Act
    <2> DEFINE new == [threshold[t] EXCEPT !.row = "deleted", !.level = "normal"]
    <2>3. new \in Threshold /\ new.level = "normal" /\ new.row = "deleted"
      BY <1>2 DEF Threshold, Levels, Rows
    <2>4. threshold' = [threshold EXCEPT ![t] = new]
      BY <2>1 DEF Shapes
    <2> HIDE DEF new
    <2>5. threshold' \in [Thresholds -> Threshold] /\ threshold'[t] = new
          /\ \A u \in Thresholds : u # t => threshold'[u] = threshold[u]
      BY <2>3, <2>4 DEF Shapes
    <2>6. Shapes'
      BY <1>1, <2>1, <2>2, <2>5, Silently DEF Shapes
    <2>7. Cleared(t)
      BY <1>1, <2>1, <2>3, <2>5, Silently DEF Cleared
    <2>8. \A u \in Thresholds : u # t => LeftAlone(u)
      BY <1>1, <2>1, <2>5, Silently DEF LeftAlone
    <2> QED
      BY <1>1, <2>1, <2>6, <2>7, <2>8, Silently DEF PageEffect
  <1>6. CASE \E s \in Sources, l \in Limits, enabled \in BOOLEAN : ThresholdSave(t, s, l, enabled)
    <2>1. PICK s \in Sources, l \in Limits, enabled \in BOOLEAN : ThresholdSave(t, s, l, enabled)
      BY <1>6
    <2> DEFINE new == [row |-> "row", enabled |-> enabled, source |-> s, limits |-> l,
                       level |-> "normal"]
    <2>2. /\ threshold' = [threshold EXCEPT ![t] = new]
          /\ IF threshold[t].row = "row" THEN ResolveSilently({t}) ELSE UNCHANGED <<incident, raced>>
          /\ threshold[t].row # "deleted" /\ Usable(source[s])
          /\ UNCHANGED <<device, config, muted, source, battery, poll>>
      BY <2>1 DEF ThresholdSave
    <2>3. budget' \in [ops: 0 .. MaxOps, shifts: 0 .. MaxShifts, lost: 0 .. MaxLost]
      BY <2>1, Counted DEF ThresholdSave, Act
    <2>4. /\ new \in Threshold /\ new.level = "normal" /\ new.row = "row"
          /\ new.source = s
      BY DEF Threshold, Levels, Rows
    <2> HIDE DEF new
    <2>5. threshold' \in [Thresholds -> Threshold] /\ threshold'[t] = new
          /\ \A u \in Thresholds : u # t => threshold'[u] = threshold[u]
      BY <2>2, <2>4 DEF Shapes
    <2>6. source[s].kind = "interface" => source[s].on
      BY <2>2 DEF Usable
    <2>7. CASE threshold[t].row = "row"
      <3>1. Shapes'
        BY <1>1, <2>2, <2>3, <2>5, <2>7, Silently DEF Shapes
      <3>2. Cleared(t)
        BY <1>1, <2>2, <2>4, <2>5, <2>7, Silently DEF Cleared
      <3>3. \A u \in Thresholds : u # t => LeftAlone(u)
        BY <1>1, <2>2, <2>5, <2>7, Silently DEF LeftAlone
      <3> QED
        BY <1>1, <2>2, <2>7, <3>1, <3>2, <3>3, Silently DEF PageEffect
    <2>8. CASE threshold[t].row # "row"
      <3>1. threshold[t].row = "none"
        BY <1>2, <2>2, <2>8 DEF Threshold, Rows
      <3>2. Shapes'
        BY <2>2, <2>3, <2>5, <2>8 DEF Shapes
      <3>3. Fresh(t)
        BY <2>2, <2>4, <2>5, <2>6, <2>8, <3>1 DEF Fresh
      <3>4. \A u \in Thresholds : u # t => LeftAlone(u)
        BY <2>2, <2>5, <2>8 DEF LeftAlone
      <3> QED
        BY <2>2, <2>8, <3>2, <3>3, <3>4 DEF PageEffect, OnlyCloses, Open
    <2> QED
      BY <2>7, <2>8
  <1> QED
    BY <1>3, <1>4, <1>5, <1>6
\* A step that leaves thresholds, incidents and what is chosen alone.
LEMMA Untouched ==
    ASSUME Shapes, UNCHANGED <<threshold, incident, raced, poll>>,
           \A s \in Sources : source'[s].kind = source[s].kind /\ (source[s].on => source'[s].on)
    PROVE  PageEffect
  <1>1. \A t \in Thresholds : threshold[t].source \in Sources
    BY DEF Shapes, Threshold
  <1>2. \A t \in Thresholds : LeftAlone(t)
    BY <1>1 DEF LeftAlone
  <1> QED
    BY <1>2 DEF PageEffect, OnlyCloses, Open

LEMMA MetricPages ==
    ASSUME Shapes, NEW s \in Sources,
           \/ MetricDelete(s)
           \/ \E q \in Quantities, on \in BOOLEAN : MetricSave(s, q, on)
    PROVE  Shapes' /\ PageEffect
  <1>1. source[s] \in Source
    BY DEF Shapes
  <1>2. CASE \E q \in Quantities, on \in BOOLEAN : MetricSave(s, q, on)
    <2>1. PICK q \in Quantities, on \in BOOLEAN : MetricSave(s, q, on)
      BY <1>2
    <2> DEFINE new == [source[s] EXCEPT !.row = "row", !.on = on, !.quantity = q]
    <2>2. /\ new \in Source /\ new.kind = source[s].kind
      BY <1>1 DEF Source, Rows
    <2>3. /\ source' = [source EXCEPT ![s] = new] /\ source[s].kind = "metric"
          /\ UNCHANGED <<device, config, muted, battery, threshold, incident, poll, raced>>
      BY <2>1 DEF MetricSave, Shapes
    <2>4. budget' \in [ops: 0 .. MaxOps, shifts: 0 .. MaxShifts, lost: 0 .. MaxLost]
      BY <2>1, Counted DEF MetricSave, Act
    <2> HIDE DEF new
    <2>5. /\ source' \in [Sources -> Source] /\ source'[s] = new
          /\ \A o \in Sources : o # s => source'[o] = source[o]
      BY <2>2, <2>3 DEF Shapes
    <2>6. Shapes'
      BY <2>3, <2>4, <2>5 DEF Shapes
    <2>7. \A t \in Thresholds : LeftAlone(t)
      BY <2>3, <2>5 DEF LeftAlone
    <2> QED
      BY <2>2, <2>3, <2>5, <2>6, <2>7 DEF PageEffect, OnlyCloses, Open
  <1>3. CASE MetricDelete(s)
    <2> DEFINE new == [source[s] EXCEPT !.row = "deleted"]
               gone(t) == [threshold[t] EXCEPT !.row = "deleted", !.level = "normal"]
    <2>1. /\ new \in Source /\ new.kind = source[s].kind /\ new.on = source[s].on
      BY <1>1 DEF Source, Rows
    <2>2. /\ source' = [source EXCEPT ![s] = new]
          /\ threshold' = [t \in Thresholds |-> IF t \in Of(s) THEN gone(t) ELSE threshold[t]]
          /\ ResolveSilently(Of(s))
          /\ UNCHANGED <<device, config, muted, battery, poll>>
      BY <1>3 DEF MetricDelete, Shapes
    <2>3. budget' \in [ops: 0 .. MaxOps, shifts: 0 .. MaxShifts, lost: 0 .. MaxLost]
      BY <1>3, Counted DEF MetricDelete, Act
    <2>4. \A t \in Thresholds : gone(t) \in Threshold /\ gone(t).level = "normal"
                                  /\ gone(t).row = "deleted"
      BY DEF Shapes, Threshold, Rows, Levels
    <2> HIDE DEF new, gone
    <2>5. /\ source' \in [Sources -> Source] /\ source'[s] = new
          /\ \A o \in Sources : o # s => source'[o] = source[o]
      BY <2>1, <2>2 DEF Shapes
    <2>6. Of(s) \in SUBSET Keys /\ Of(s) \subseteq Thresholds /\ Thresholds \subseteq Keys
      BY DEF Of, Keys
    <2>7. threshold' \in [Thresholds -> Threshold]
      BY <2>2, <2>4 DEF Shapes
    <2>8. Shapes'
      BY <2>2, <2>3, <2>5, <2>6, <2>7, Silently DEF Shapes
    <2>9. \A t \in Of(s) : Cleared(t)
      BY <2>2, <2>4, <2>6, Silently DEF Cleared
    <2>10. \A t \in Thresholds \ Of(s) : LeftAlone(t)
      <3> SUFFICES ASSUME NEW t \in Thresholds \ Of(s) PROVE LeftAlone(t)
        OBVIOUS
      <3>1. threshold'[t] = threshold[t] /\ t \in Keys \ Of(s) /\ threshold[t].source \in Sources
        BY <2>2, <2>6 DEF Shapes, Threshold
      <3>2. incident'[t] = incident[t] /\ (t \in raced => t \in raced')
        BY <2>2, <2>6, <3>1, Silently
      <3> QED
        BY <2>1, <2>5, <3>1, <3>2 DEF LeftAlone
    <2>11. OnlyCloses
      BY <2>2, <2>6, Silently
    <2> QED
      BY <2>1, <2>2, <2>5, <2>8, <2>9, <2>10, <2>11 DEF PageEffect
  <1> QED
    BY <1>2, <1>3

\* A page that changes the row of one source and, when it takes the source out, resets its
\* thresholds.
LEMMA SourcePage ==
    ASSUME Shapes, NEW s \in Sources, NEW new \in Source, new.kind = source[s].kind,
           source' = [source EXCEPT ![s] = new],
           NEW disable \in BOOLEAN, NEW out \in BOOLEAN,
           IF out THEN Reset(Of(s), disable) ELSE UNCHANGED <<threshold, incident, raced>>,
           ~out /\ source[s].on => new.on,
           UNCHANGED <<device, config, muted, battery, poll>>,
           budget' \in [ops: 0 .. MaxOps, shifts: 0 .. MaxShifts, lost: 0 .. MaxLost]
    PROVE  Shapes' /\ PageEffect
  <1>1. /\ source' \in [Sources -> Source] /\ source'[s] = new
        /\ \A o \in Sources : o # s => source'[o] = source[o]
    BY DEF Shapes
  <1>2. CASE ~out
    <2>1. Shapes'
      BY <1>1, <1>2 DEF Shapes
    <2> QED
      BY <1>1, <1>2, <2>1, Untouched
  <1>3. CASE out
    <2>1. Of(s) \in SUBSET Thresholds /\ Thresholds \subseteq Keys
      BY DEF Of, Keys
    <2>2. Reset(Of(s), disable)
      BY <1>3
    <2>3. Shapes'
      <3>1. /\ threshold' \in [Thresholds -> Threshold]
            /\ incident' \in [Keys -> Incident] /\ raced' \subseteq Keys
        BY <2>1, <2>2, Resetting
      <3> QED
        BY <1>1, <3>1 DEF Shapes
    <2>4. \A t \in Thresholds \ Of(s) : LeftAlone(t)
      <3> SUFFICES ASSUME NEW t \in Thresholds \ Of(s) PROVE LeftAlone(t)
        OBVIOUS
      <3>1. /\ threshold'[t] = threshold[t] /\ incident'[t] = incident[t]
            /\ t \in raced => t \in raced'
        BY <2>1, <2>2, Resetting
      <3>2. threshold[t].source \in Sources /\ (threshold[t].row = "row" => threshold[t].source # s)
        BY DEF Shapes, Threshold, Of
      <3> QED
        BY <1>1, <3>1, <3>2 DEF LeftAlone
    <2> QED
      BY <1>1, <2>1, <2>2, <2>3, <2>4, Resetting DEF PageEffect
  <1> QED
    BY <1>2, <1>3

LEMMA InventoryPages ==
    ASSUME Shapes, NEW s \in Sources,
           \/ InterfaceSelection(s)
           \/ \E listed \in BOOLEAN : SaveInterfaceInventory(s, listed) \/ SaveSupplyInventory(s, listed)
    PROVE  Shapes' /\ PageEffect
  <1>1. source[s] \in Source /\ source \in [Sources -> Source]
    BY DEF Shapes
  <1>2. CASE InterfaceSelection(s)
    <2> DEFINE on == ~source[s].on
               new == [source[s] EXCEPT !.on = on]
               out == source[s].on
    <2>1. new \in Source /\ new.kind = source[s].kind /\ new.on = on
      BY <1>1 DEF Source
    <2>2. /\ source' = [source EXCEPT ![s] = new]
          /\ IF out THEN Reset(Of(s), FALSE) ELSE UNCHANGED <<threshold, incident, raced>>
          /\ UNCHANGED <<device, config, muted, battery, poll>>
      BY <1>1, <1>2 DEF InterfaceSelection
    <2>3. budget' \in [ops: 0 .. MaxOps, shifts: 0 .. MaxShifts, lost: 0 .. MaxLost]
      BY <1>2, Counted DEF InterfaceSelection, Act
    <2>4. out \in BOOLEAN /\ (~out /\ source[s].on => new.on)
      BY <1>1 DEF Source
    <2> HIDE DEF new, out
    <2> QED
      BY <2>1, <2>2, <2>3, <2>4, SourcePage
  <1>3. ASSUME NEW listed \in BOOLEAN, SaveInterfaceInventory(s, listed)
        PROVE  Shapes' /\ PageEffect
    <2> DEFINE out == Moved(s, listed)
               on == source[s].on /\ ~out
               quantity == IF listed THEN device.behind ELSE source[s].quantity
               new == [source[s] EXCEPT !.row = "row", !.present = listed, !.on = on,
                                        !.quantity = quantity]
    <2>1. on \in BOOLEAN /\ out \in BOOLEAN /\ quantity \in Quantities
      BY <1>1 DEF Source, Shapes, Moved
    <2>2. /\ source' = [source EXCEPT ![s] = new]
          /\ IF out THEN Reset(Of(s), TRUE) ELSE UNCHANGED <<threshold, incident, raced>>
          /\ UNCHANGED <<device, config, muted, battery, poll>>
      BY <1>1, <1>3 DEF SaveInterfaceInventory, ResetMoved
    <2>3. budget' \in [ops: 0 .. MaxOps, shifts: 0 .. MaxShifts, lost: 0 .. MaxLost]
      BY <1>3, Counted DEF SaveInterfaceInventory, Act
    <2>4. ~out /\ source[s].on => on
      OBVIOUS
    <2> HIDE DEF on, out, quantity
    <2>5. new \in Source /\ new.kind = source[s].kind /\ new.on = on
      BY <1>1, <2>1 DEF Source, Rows
    <2> HIDE DEF new
    <2> QED
      BY <2>1, <2>2, <2>3, <2>4, <2>5, SourcePage
  <1>4. ASSUME NEW listed \in BOOLEAN, SaveSupplyInventory(s, listed)
        PROVE  Shapes' /\ PageEffect
    <2> DEFINE out == Moved(s, listed)
               quantity == IF listed THEN device.behind ELSE source[s].quantity
               value == IF listed THEN Measured(Index) ELSE source[s].value
               new == [source[s] EXCEPT !.row = "row", !.present = listed,
                                        !.quantity = quantity, !.value = value]
    <2>1. out \in BOOLEAN /\ quantity \in Quantities
      BY <1>1 DEF Source, Shapes, Moved
    <2>2. value \in Values \cup {None}
      BY <1>1, MeasuredIsValue DEF Source
    <2>3. /\ source' = [source EXCEPT ![s] = new]
          /\ IF out THEN Reset(Of(s), TRUE) ELSE UNCHANGED <<threshold, incident, raced>>
          /\ UNCHANGED <<device, config, muted, battery, poll>>
      BY <1>1, <1>4 DEF SaveSupplyInventory, ResetMoved
    <2>4. budget' \in [ops: 0 .. MaxOps, shifts: 0 .. MaxShifts, lost: 0 .. MaxLost]
      BY <1>4, Counted DEF SaveSupplyInventory, Act
    <2> HIDE DEF out, quantity, value
    <2>5. new \in Source /\ new.kind = source[s].kind /\ new.on = source[s].on
      BY <1>1, <2>1, <2>2 DEF Source, Rows
    <2> HIDE DEF new
    <2> QED
      BY <2>1, <2>3, <2>4, <2>5, SourcePage
  <1> QED
    BY <1>2, <1>3, <1>4
LEMMA OtherPages ==
    ASSUME Shapes,
           \/ ClearData \/ ToggleMute
           \/ \E enabled, ups \in BOOLEAN : SaveSettings(enabled, ups)
           \/ \E k \in Keys : IncidentDelete(k)
    PROVE  Shapes' /\ PageEffect
  <1>1. CASE ClearData
    <2> DEFINE ts == {t \in Thresholds : threshold[t].row = "row"}
               row(s) == IF source[s].kind = "ups" THEN "none" ELSE source[s].row
               new(s) == [source[s] EXCEPT !.value = None, !.row = row(s)]
    <2>1. /\ source' = [s \in Sources |-> new(s)] /\ battery' = None
          /\ Reset(ts, FALSE)
          /\ UNCHANGED <<device, config, muted, poll>>
      BY <1>1 DEF ClearData
    <2>2. budget' \in [ops: 0 .. MaxOps, shifts: 0 .. MaxShifts, lost: 0 .. MaxLost]
      BY <1>1, Counted DEF ClearData, Act
    <2>3. \A s \in Sources : row(s) \in Rows
      BY DEF Shapes, Source, Rows
    <2> HIDE DEF row
    <2>4. \A s \in Sources : /\ new(s) \in Source /\ new(s).kind = source[s].kind
                             /\ new(s).on = source[s].on
      BY <2>3 DEF Shapes, Source
    <2> HIDE DEF new
    <2>5. ts \in SUBSET Thresholds /\ \A t \in Thresholds \ ts : threshold[t].row # "row"
      OBVIOUS
    <2> HIDE DEF ts
    <2>6. /\ threshold' \in [Thresholds -> Threshold]
          /\ incident' \in [Keys -> Incident] /\ raced' \subseteq Keys
      BY <2>1, <2>5, Resetting
    <2>7. source' \in [Sources -> Source]
      BY <2>1, <2>4
    <2>8. Shapes'
      BY <2>1, <2>2, <2>6, <2>7 DEF Shapes
    <2>9. \A t \in Thresholds \ ts : LeftAlone(t)
      BY <2>1, <2>5, Resetting DEF LeftAlone
    <2>10. OnlyCloses /\ \A t \in ts : Cleared(t)
      BY <2>1, <2>5, Resetting
    <2> QED
      BY <2>1, <2>4, <2>8, <2>9, <2>10 DEF PageEffect
  <1>2. CASE ToggleMute
    <2>1. /\ muted' = ~muted
          /\ UNCHANGED <<device, config, source, battery, threshold, incident, poll, raced>>
      BY <1>2 DEF ToggleMute, rows
    <2>2. budget' \in [ops: 0 .. MaxOps, shifts: 0 .. MaxShifts, lost: 0 .. MaxLost]
      BY <1>2, Counted DEF ToggleMute, Act
    <2>3. muted' \in BOOLEAN
      BY <2>1
    <2>4. Shapes'
      BY <2>1, <2>2, <2>3 DEF Shapes
    <2> QED
      BY <2>1, <2>4, Untouched
  <1>3. CASE \E enabled, ups \in BOOLEAN : SaveSettings(enabled, ups)
    <2>1. PICK enabled \in BOOLEAN, ups \in BOOLEAN : SaveSettings(enabled, ups)
      BY <1>3
    <2>2. /\ config' = [enabled |-> enabled, ups |-> ups]
          /\ UNCHANGED <<device, muted, source, battery, threshold, incident, poll, raced>>
      BY <2>1 DEF SaveSettings, rows
    <2>3. budget' \in [ops: 0 .. MaxOps, shifts: 0 .. MaxShifts, lost: 0 .. MaxLost]
      BY <2>1, Counted DEF SaveSettings, Act
    <2>4. config' \in [enabled: BOOLEAN, ups: BOOLEAN]
      BY <2>2
    <2>5. Shapes'
      BY <2>2, <2>3, <2>4 DEF Shapes
    <2> QED
      BY <2>2, <2>5, Untouched
  <1>4. ASSUME NEW k \in Keys, IncidentDelete(k)
        PROVE  Shapes' /\ PageEffect
    <2>1. /\ incident' = [incident EXCEPT ![k].status = "deleted"]
          /\ UNCHANGED <<device, config, muted, source, battery, threshold, poll, raced>>
      BY <1>4 DEF IncidentDelete
    <2>2. budget' \in [ops: 0 .. MaxOps, shifts: 0 .. MaxShifts, lost: 0 .. MaxLost]
      BY <1>4, Counted DEF IncidentDelete, Act
    <2> DEFINE new == [incident[k] EXCEPT !.status = "deleted"]
    <2>3. /\ new \in Incident /\ new.status = "deleted"
          /\ new.severity = incident[k].severity /\ new.told = incident[k].told
          /\ new.quiet = incident[k].quiet
      BY DEF Shapes, Incident
    <2>4. incident' = [incident EXCEPT ![k] = new]
      BY <2>1 DEF Shapes
    <2> HIDE DEF new
    <2>5. /\ incident' \in [Keys -> Incident] /\ incident'[k] = new
          /\ \A j \in Keys : j # k => incident'[j] = incident[j]
      BY <2>3, <2>4 DEF Shapes
    <2>6. Shapes'
      BY <2>1, <2>2, <2>5 DEF Shapes
    <2>7. OnlyCloses
      BY <2>3, <2>5 DEF OnlyCloses, Open
    <2>8. \A t \in Thresholds : LeftAlone(t)
      BY <2>1, <2>3, <2>5 DEF LeftAlone, Keys
    <2> QED
      BY <2>1, <2>6, <2>7, <2>8 DEF PageEffect
  <1> QED
    BY <1>1, <1>2, <1>3, <1>4

LEMMA PageSteps ==
    ASSUME Shapes, Page
    PROVE  Shapes' /\ PageEffect
  <1>1. CASE \E t \in Thresholds : ThresholdToggle(t) \/ ThresholdDelete(t)
    BY <1>1, ThresholdPages
  <1>2. CASE \E t \in Thresholds, s \in Sources, l \in Limits, enabled \in BOOLEAN :
                ThresholdSave(t, s, l, enabled)
    BY <1>2, ThresholdPages
  <1>3. CASE \E s \in Sources : MetricDelete(s) \/ InterfaceSelection(s)
    BY <1>3, MetricPages, InventoryPages
  <1>4. CASE \E s \in Sources, q \in Quantities, on \in BOOLEAN :
                MetricCreate(s, q, on) \/ MetricUpdate(s, q, on)
    BY <1>4, MetricPages DEF MetricCreate, MetricUpdate
  <1>5. CASE \E s \in Sources, q \in Quantities : DiscoveryAdd(s, q)
    <2>1. PICK s \in Sources, q \in Quantities : MetricSave(s, q, TRUE)
      BY <1>5 DEF DiscoveryAdd, MetricCreate
    <2> QED
      BY <2>1, MetricPages
  <1>6. CASE \E s \in Sources, listed \in BOOLEAN :
                SaveInterfaceInventory(s, listed) \/ SaveSupplyInventory(s, listed)
    BY <1>6, InventoryPages
  <1>7. CASE \/ ClearData \/ ToggleMute
             \/ \E enabled, ups \in BOOLEAN : SaveSettings(enabled, ups)
             \/ \E k \in Keys : IncidentDelete(k)
    BY <1>7, OtherPages
  <1> QED
    BY <1>1, <1>2, <1>3, <1>4, <1>5, <1>6, <1>7 DEF Page

LEMMA DeviceSteps ==
    ASSUME Shapes, DeviceChanges
    PROVE  Shapes' /\ PageEffect
  <1>1. UNCHANGED <<config, muted, source, battery, threshold, incident, poll, raced>>
    BY DEF DeviceChanges, rows
  <1>2. budget' \in [ops: 0 .. MaxOps, shifts: 0 .. MaxShifts, lost: 0 .. MaxLost]
    BY Counted DEF DeviceChanges
  <1>3. device' \in [value: [Quantities -> Values], behind: Quantities, battery: {"good", "low"}]
    <2>1. CASE \E q \in Quantities : \E v \in Values \ {device.value[q]} :
                 device' = [device EXCEPT !.value[q] = v]
      BY <2>1 DEF Shapes
    <2>2. CASE \E q \in Quantities \ {device.behind} : device' = [device EXCEPT !.behind = q]
      BY <2>2 DEF Shapes
    <2>3. CASE device' = [device EXCEPT !.battery = IF @ = "good" THEN "low" ELSE "good"]
      BY <2>3 DEF Shapes
    <2> QED
      BY <2>1, <2>2, <2>3 DEF DeviceChanges
  <1>4. Shapes'
    BY <1>1, <1>2, <1>3 DEF Shapes
  <1> QED
    BY <1>1, <1>4, Untouched
-----------------------------------------------------------------------------
(* The inductive invariant. *)

\* A save works on rows of the same things.
SeenRows ==
    Saving => /\ poll.seen \in [Sources -> Source]
              /\ \A s \in Sources : poll.seen[s].kind = source[s].kind

LettersWhileSending == poll.pc # "sending" => poll.letters = {}

\* An interface that the save has read as chosen still is, or its thresholds were reset.
StillOn ==
    Saving => \A t \in Thresholds \ raced :
        threshold[t].row = "row" /\ source[threshold[t].source].kind = "interface"
          /\ poll.seen[threshold[t].source].on => source[threshold[t].source].on

\* What the evaluation took from the rows is still there, or the threshold was reset.
OutcomeHolds(t) ==
    LET o == poll.outcome[t] IN
    /\ threshold[t].row = "row" /\ threshold[t].enabled
    /\ source[threshold[t].source].kind = "interface" => source[threshold[t].source].on
    /\ o.was = threshold[t].level
    /\ o.saw = "nothing" => ~Open(t)
    /\ o.saw = "open" => /\ incident[t].status \in {"open", "deleted"}
                         /\ incident[t].severity = o.severity

OutcomesHold ==
    poll.pc = "evaluated" =>
        \A t \in Thresholds : poll.outcome[t] # None =>
            threshold[t].row # "none" /\ (t \notin raced => OutcomeHolds(t))

\* A letter goes with an incident that opens or rises, unless muted.
IsNews(o) ==
    \/ o.saw = "nothing"
    \/ o.level = "critical" /\ o.saw = "open" /\ o.severity = "warning"

OutcomesAreFair ==
    poll.pc = "evaluated" =>
        \A k \in Keys : LET o == poll.outcome[k] IN
            o # None => /\ o.level # "normal" => (o.letter <=> ~o.muted /\ IsNews(o))
                        /\ o.level = "normal" /\ o.letter => o.saw = "open"

\* An incident that is still open was evaluated with the answer and the limits in force.
AnsweredFor ==
    poll.pc = "evaluated" =>
        \A t \in Thresholds :
            LET o == poll.outcome[t]  v == poll.answer[threshold[t].source] IN
            o # None /\ Open(t) /\ source[threshold[t].source].kind # "ups" =>
                v # None /\ o.level = EvaluateLevel(v, threshold[t].limits)

LettersTellTruth ==
    \A l \in poll.letters :
        Open(l.key) /\ incident[l.key].severity = "critical" => l.tells = "critical"

StInv ==
    /\ Shapes /\ poll \in Poll
    /\ SeenRows /\ LettersWhileSending /\ StillOn /\ OutcomesHold /\ OutcomesAreFair
    /\ AnsweredFor /\ LettersTellTruth
    /\ IncidentMatchesThreshold /\ CriticalIsAnnounced

LEMMA PagesKeepStory ==
    ASSUME StInv, Shapes', PageEffect
    PROVE  StInv'
  <1> USE DEF StInv
  <1>1. /\ poll' = poll /\ Saving' = Saving
        /\ \A s \in Sources : source'[s].kind = source[s].kind
        /\ OnlyCloses
        /\ \A t \in Thresholds : LeftAlone(t) \/ Cleared(t) \/ Fresh(t)
    BY DEF PageEffect, Saving
  <1>2. \A t \in Thresholds : /\ t \in Keys
                              /\ threshold[t].source \in Sources
                              /\ threshold'[t].source \in Sources
    BY DEF Shapes, Threshold, Keys
  <1>3. SeenRows' /\ LettersWhileSending' /\ OutcomesAreFair'
    <2>1. SeenRows'
      BY <1>1 DEF SeenRows
    <2>2. LettersWhileSending'
      BY <1>1 DEF LettersWhileSending
    <2>3. OutcomesAreFair'
      BY <1>1 DEF OutcomesAreFair
    <2> QED
      BY <2>1, <2>2, <2>3
  <1>4. CriticalIsAnnounced' /\ LettersTellTruth'
    <2>1. poll.letters \subseteq Letter /\ \A l \in poll.letters : l.key \in Keys
      BY DEF Poll, Letter
    <2>2. CriticalIsAnnounced'
      BY <1>1 DEF CriticalIsAnnounced, OnlyCloses, Open
    <2> QED
      BY <1>1, <2>1, <2>2 DEF LettersTellTruth, OnlyCloses, Open
  <1>5. ASSUME NEW t \in Thresholds
        PROVE  /\ t \notin raced' /\ Open(t)' =>
                    /\ threshold'[t].row = "row" /\ threshold'[t].enabled
                    /\ source'[threshold'[t].source].kind = "interface"
                          => source'[threshold'[t].source].on
               /\ t \notin raced' =>
                    /\ Open(t)' => threshold'[t].level = incident'[t].severity
                    /\ threshold'[t].level # "normal" => incident'[t].status \in {"open", "deleted"}
               /\ Saving /\ t \notin raced' =>
                    (threshold'[t].row = "row" /\ source'[threshold'[t].source].kind = "interface"
                       /\ poll.seen[threshold'[t].source].on => source'[threshold'[t].source].on)
               /\ poll.pc = "evaluated" /\ poll.outcome[t] # None =>
                    threshold'[t].row # "none" /\ (t \notin raced' => OutcomeHolds(t)')
               /\ poll.pc = "evaluated" /\ poll.outcome[t] # None /\ Open(t)'
                    /\ source'[threshold'[t].source].kind # "ups" =>
                    /\ poll.answer[threshold'[t].source] # None
                    /\ poll.outcome[t].level
                         = EvaluateLevel(poll.answer[threshold'[t].source], threshold'[t].limits)
    <2>1. /\ t \in Keys /\ threshold[t].source \in Sources /\ threshold'[t].source \in Sources
          /\ source'[threshold[t].source].kind = source[threshold[t].source].kind
          /\ source'[threshold'[t].source].kind = source[threshold'[t].source].kind
          /\ Open(t)' => Open(t)
          /\ incident'[t].severity = incident[t].severity
      BY <1>1, <1>2 DEF OnlyCloses
    <2>2. t \notin raced =>
             /\ Open(t) => /\ threshold[t].row = "row" /\ threshold[t].enabled
                           /\ source[threshold[t].source].kind = "interface"
                                => source[threshold[t].source].on
             /\ Open(t) => threshold[t].level = incident[t].severity
             /\ threshold[t].level # "normal" => incident[t].status \in {"open", "deleted"}
      BY DEF IncidentMatchesThreshold, OpenIsWatched, LevelShown
    <2>3. Saving /\ t \notin raced =>
             (threshold[t].row = "row" /\ source[threshold[t].source].kind = "interface"
                /\ poll.seen[threshold[t].source].on => source[threshold[t].source].on)
      BY DEF StillOn
    <2>4. poll.pc = "evaluated" /\ poll.outcome[t] # None =>
             threshold[t].row # "none" /\ (t \notin raced => OutcomeHolds(t))
      BY DEF OutcomesHold
    <2>5. poll.pc = "evaluated" /\ poll.outcome[t] # None /\ Open(t)
             /\ source[threshold[t].source].kind # "ups" =>
             /\ poll.answer[threshold[t].source] # None
             /\ poll.outcome[t].level
                  = EvaluateLevel(poll.answer[threshold[t].source], threshold[t].limits)
      BY DEF AnsweredFor
    <2>6. CASE LeftAlone(t)
      BY <1>1, <2>1, <2>2, <2>3, <2>4, <2>5, <2>6 DEF LeftAlone, OutcomeHolds, Open
    <2>7. CASE Cleared(t)
      BY <1>1, <2>1, <2>4, <2>7 DEF Cleared, Saving
    <2>8. CASE Fresh(t)
      BY <1>1, <2>1, <2>2, <2>3, <2>4, <2>5, <2>8 DEF Fresh, OutcomeHolds, Open
    <2> QED
      BY <1>1, <2>6, <2>7, <2>8
  <1>6. IncidentMatchesThreshold'
    BY <1>5 DEF IncidentMatchesThreshold, OpenIsWatched, LevelShown
  <1>7. StillOn'
    BY <1>1, <1>5 DEF StillOn
  <1>8. OutcomesHold'
    BY <1>1, <1>5 DEF OutcomesHold
  <1>9. AnsweredFor'
    BY <1>1, <1>5 DEF AnsweredFor
  <1>10. (poll \in Poll)'
    BY <1>1
  <1> QED
    BY <1>3, <1>4, <1>6, <1>7, <1>8, <1>9, <1>10
-----------------------------------------------------------------------------
(* The poll keeps the invariant. *)

\* Steps that read no row and write none.
LEMMA RowsUnread ==
    ASSUME StInv, Shapes', poll' \in Poll, UNCHANGED <<rows, raced>>,
           poll.pc # "sending", poll'.letters = {}, poll'.pc \in {"idle", "loaded", "answered"}
    PROVE  StInv'
  <1>1. poll.letters = {} /\ UNCHANGED <<source, battery, threshold, incident, raced>>
    BY DEF StInv, LettersWhileSending, rows
  <1>2. ~(poll'.pc \in {"read", "evaluated", "sending"}) /\ ~Saving'
    BY DEF Saving
  <1>3. IncidentMatchesThreshold'
    BY <1>1 DEF StInv, IncidentMatchesThreshold, OpenIsWatched, LevelShown, Open
  <1>4. CriticalIsAnnounced'
    BY <1>1 DEF StInv, CriticalIsAnnounced, Open
  <1>5. /\ SeenRows' /\ LettersWhileSending' /\ StillOn' /\ OutcomesHold' /\ OutcomesAreFair'
        /\ AnsweredFor' /\ LettersTellTruth'
    BY <1>2 DEF SeenRows, LettersWhileSending, StillOn, OutcomesHold, OutcomesAreFair,
                AnsweredFor, LettersTellTruth
  <1> QED
    BY <1>3, <1>4, <1>5 DEF StInv

LEMMA InitStory == Init => StInv
  <1> SUFFICES ASSUME Init PROVE StInv
    OBVIOUS
  <1>1. PICK start \in Start :
          /\ source = start.source /\ threshold = start.threshold
          /\ config = [enabled |-> TRUE,
                       ups |-> \E s \in Sources : start.source[s].kind = "ups"]
    BY DEF Init
  <1>2. /\ source \in [Sources -> Source] /\ threshold \in [Thresholds -> Threshold]
        /\ \A t \in Thresholds : threshold[t].level = "normal"
    BY <1>1, StartAssumption
  <1>3. config \in [enabled: BOOLEAN, ups: BOOLEAN]
    <2> DEFINE ups == \E s \in Sources : start.source[s].kind = "ups"
    <2>1. ups \in BOOLEAN
      OBVIOUS
    <2> HIDE DEF ups
    <2> QED
      BY <1>1, <2>1 DEF ups
  <1>4. device \in [value: [Quantities -> Values], behind: Quantities, battery: {"good", "low"}]
    BY NormalAssumption DEF Init
  <1>5. /\ incident \in [Keys -> Incident]
        /\ \A k \in Keys : incident[k].status = "none"
    BY DEF Init, Incident, Severities
  <1>6. /\ muted = FALSE /\ raced = {} /\ budget = [ops |-> 0, shifts |-> 0, lost |-> 0]
        /\ battery \in {"good", "low", None} /\ poll = IdlePoll
    BY DEF Init
  <1>7. budget \in [ops: 0 .. MaxOps, shifts: 0 .. MaxShifts, lost: 0 .. MaxLost]
    BY <1>6, BoundsAssumption
  <1>8. Shapes
    BY <1>2, <1>3, <1>4, <1>5, <1>6, <1>7 DEF Shapes
  <1>9. /\ poll \in Poll /\ poll.letters = {} /\ ~Saving /\ poll.pc = "idle"
    BY <1>6, IdlePollIsPoll DEF Saving
  <1>10. IncidentMatchesThreshold /\ CriticalIsAnnounced
    BY <1>2, <1>5 DEF IncidentMatchesThreshold, OpenIsWatched, LevelShown, CriticalIsAnnounced,
                      Open, Keys
  <1>11. /\ SeenRows /\ LettersWhileSending /\ StillOn /\ OutcomesHold /\ OutcomesAreFair
         /\ AnsweredFor /\ LettersTellTruth
    BY <1>9 DEF SeenRows, LettersWhileSending, StillOn, OutcomesHold, OutcomesAreFair,
                AnsweredFor, LettersTellTruth
  <1> QED
    BY <1>8, <1>9, <1>10, <1>11 DEF StInv

LEMMA LoadStory ==
    ASSUME StInv, NEW manual \in {"no", "values", "ups"}, LoadPollRequest(manual)
    PROVE  StInv'
  <1> DEFINE asked == [s \in Sources |-> AskedQuantity(source[s])]
             ups == config.ups
  <1>1. /\ poll.pc = "idle" /\ UNCHANGED <<device, config, muted, rows, raced, budget>>
        /\ poll' = [poll EXCEPT !.pc = "loaded", !.manual = manual, !.askedUps = ups,
                                !.asked = asked]
    BY DEF LoadPollRequest
  <1>2. Shapes'
    BY <1>1 DEF StInv, Shapes, rows
  <1>3. asked \in [Sources -> Quantities \cup {None, Index}] /\ ups \in BOOLEAN
    BY AskedIsKnown DEF StInv, Shapes
  <1> HIDE DEF asked, ups
  <1>4. poll' \in Poll /\ poll'.pc = "loaded" /\ poll'.letters = poll.letters
    BY <1>1, <1>3 DEF StInv, Poll
  <1>5. poll.letters = {}
    BY <1>1 DEF StInv, LettersWhileSending
  <1> QED
    BY <1>1, <1>2, <1>4, <1>5, RowsUnread

LEMMA GetStory ==
    ASSUME StInv, GetValues
    PROVE  StInv'
  <1>1. PICK missing \in SUBSET {s \in Sources : poll.asked[s] # None},
             gotBattery \in BOOLEAN, basic \in BOOLEAN :
         LET whole == missing = {} /\ gotBattery /\ basic IN
         /\ ~whole => budget.lost < MaxLost
         /\ budget' = [budget EXCEPT !.lost = IF whole THEN @ ELSE @ + 1]
         /\ poll' = [poll EXCEPT
                !.pc = "answered",
                !.answer = [s \in Sources |->
                              IF poll.asked[s] = None \/ s \in missing THEN None
                              ELSE Measured(poll.asked[s])],
                !.basic = basic,
                !.battery = IF poll.askedUps /\ gotBattery THEN device.battery ELSE None]
    BY DEF GetValues
  <1> DEFINE whole == missing = {} /\ gotBattery /\ basic
             answer == [s \in Sources |-> IF poll.asked[s] = None \/ s \in missing THEN None
                                          ELSE Measured(poll.asked[s])]
             cell == IF poll.askedUps /\ gotBattery THEN device.battery ELSE None
  <1>2. /\ poll.pc = "loaded" /\ UNCHANGED <<device, config, muted, rows, raced>>
    BY DEF GetValues
  <1>3. Shapes /\ poll \in Poll /\ poll.letters = {}
    BY <1>2 DEF StInv, LettersWhileSending
  <1>4. budget' \in [ops: 0 .. MaxOps, shifts: 0 .. MaxShifts, lost: 0 .. MaxLost]
    <2>1. CASE whole
      BY <1>1, <1>3, <2>1 DEF Shapes
    <2>2. CASE ~whole
      BY <1>1, <1>3, <2>2, Counted
    <2> QED
      BY <2>1, <2>2
  <1>5. Shapes'
    BY <1>2, <1>3, <1>4 DEF Shapes, rows
  <1>6. answer \in [Sources -> Values \cup {None}]
    <2> SUFFICES ASSUME NEW s \in Sources, poll.asked[s] # None
                 PROVE  Measured(poll.asked[s]) \in Values
      OBVIOUS
    <2>1. poll.asked[s] \in Quantities \cup {Index}
      BY <1>3 DEF Poll
    <2> QED
      BY <1>3, <2>1, MeasuredIsValue
  <1>7. cell \in {"good", "low", None}
    BY <1>3 DEF Shapes
  <1>8. poll' = [poll EXCEPT !.pc = "answered", !.answer = answer, !.basic = basic,
                             !.battery = cell]
    BY <1>1
  <1> HIDE DEF answer, cell
  <1>9. poll' \in Poll /\ poll'.pc = "answered" /\ poll'.letters = {}
    BY <1>3, <1>6, <1>7, <1>8 DEF Poll
  <1> QED
    BY <1>2, <1>5, <1>9, RowsUnread

LEMMA FailStory ==
    ASSUME StInv, PollFails
    PROVE  StInv'
  <1> DEFINE dropped(k) == \E l \in poll.letters : l.key = k
             mute(k) == [incident[k] EXCEPT !.quiet = TRUE]
  <1>1. /\ poll' = IdlePoll
        /\ incident' = [k \in Keys |-> IF dropped(k) THEN mute(k) ELSE incident[k]]
        /\ UNCHANGED <<device, config, muted, source, battery, threshold, raced>>
    BY DEF PollFails
  <1>2. budget' \in [ops: 0 .. MaxOps, shifts: 0 .. MaxShifts, lost: 0 .. MaxLost]
    BY Counted DEF PollFails, StInv
  <1>3. \A k \in Keys : /\ mute(k) \in Incident /\ mute(k).quiet = TRUE
                        /\ mute(k).status = incident[k].status
                        /\ mute(k).severity = incident[k].severity
    BY DEF StInv, Shapes, Incident
  <1> HIDE DEF mute
  <1> HIDE DEF dropped
  <1>4. incident' \in [Keys -> Incident]
    BY <1>1, <1>3 DEF StInv, Shapes
  <1>5. Shapes'
    BY <1>1, <1>2, <1>4 DEF StInv, Shapes
  <1>6. poll' \in Poll /\ poll'.pc = "idle" /\ poll'.letters = {}
    BY <1>1, IdlePollIsPoll
  <1>7. \A k \in Keys : /\ incident'[k].status = incident[k].status
                        /\ incident'[k].severity = incident[k].severity
    BY <1>1, <1>3
  <1>8. IncidentMatchesThreshold'
    <2>1. \A t \in Thresholds : /\ incident'[t].status = incident[t].status
                                /\ incident'[t].severity = incident[t].severity
      BY <1>7 DEF Keys
    <2>2. source' = source /\ threshold' = threshold /\ raced' = raced
      BY <1>1
    <2> QED
      BY <2>1, <2>2 DEF StInv, IncidentMatchesThreshold, OpenIsWatched, LevelShown, Open
  <1>9. CriticalIsAnnounced'
    <2> SUFFICES ASSUME NEW k \in Keys, Open(k)', incident'[k].severity = "critical",
                        ~incident'[k].quiet
                 PROVE  incident'[k].told = "critical"
      BY DEF CriticalIsAnnounced
    <2>1. ~dropped(k) /\ incident'[k] = incident[k]
      BY <1>1, <1>3
    <2>2. \A l \in poll.letters : l.key # k
      BY <2>1 DEF dropped
    <2> QED
      BY <2>1, <2>2 DEF StInv, CriticalIsAnnounced, Open
  <1>10. ~(poll'.pc \in {"read", "evaluated", "sending"}) /\ ~Saving'
    BY <1>6 DEF Saving
  <1>11. /\ SeenRows' /\ LettersWhileSending' /\ StillOn' /\ OutcomesHold' /\ OutcomesAreFair'
         /\ AnsweredFor' /\ LettersTellTruth'
    BY <1>6, <1>10 DEF SeenRows, LettersWhileSending, StillOn, OutcomesHold, OutcomesAreFair,
                       AnsweredFor, LettersTellTruth
  <1> QED
    BY <1>5, <1>6, <1>8, <1>9, <1>11 DEF StInv
LEMMA ReadStory ==
    ASSUME StInv, ReadRows
    PROVE  StInv'
  <1>1. /\ poll.pc = "answered" /\ UNCHANGED <<device, config, muted, rows, raced, budget>>
    BY DEF ReadRows
  <1>2. UNCHANGED <<source, battery, threshold, incident>>
    BY <1>1 DEF rows
  <1>3. Shapes /\ Shapes' /\ poll \in Poll /\ poll.letters = {}
    BY <1>1, <1>2 DEF StInv, Shapes, LettersWhileSending
  <1>4. CASE ~config.enabled
    <2>1. poll' = IdlePoll
      BY <1>4 DEF ReadRows
    <2> QED
      BY <1>1, <1>3, <2>1, IdlePollIsPoll, RowsUnread
  <1>5. CASE config.enabled
    <2> DEFINE ups == config.ups
    <2>1. poll' = [poll EXCEPT !.pc = "read", !.seen = source, !.ups = ups, !.oldBattery = battery]
      BY <1>5 DEF ReadRows
    <2>2. ups \in BOOLEAN /\ source \in [Sources -> Source] /\ battery \in {"good", "low", None}
      BY <1>3 DEF Shapes
    <2> HIDE DEF ups
    <2>3. poll' \in Poll /\ poll'.pc = "read" /\ poll'.letters = {} /\ poll'.seen = source
      BY <1>3, <2>1, <2>2 DEF Poll
    <2>4. SeenRows'
      BY <1>2, <2>2, <2>3 DEF SeenRows
    <2>5. StillOn'
      BY <1>2, <2>3 DEF StillOn
    <2>6. /\ LettersWhileSending' /\ OutcomesHold' /\ OutcomesAreFair'
          /\ AnsweredFor' /\ LettersTellTruth'
      BY <2>3 DEF LettersWhileSending, OutcomesHold, OutcomesAreFair, AnsweredFor,
                  LettersTellTruth
    <2>7. IncidentMatchesThreshold'
      BY <1>1, <1>2 DEF StInv, IncidentMatchesThreshold, OpenIsWatched, LevelShown, Open
    <2>8. CriticalIsAnnounced'
      BY <1>2, <1>3 DEF StInv, CriticalIsAnnounced, Open
    <2> QED
      BY <1>3, <2>3, <2>4, <2>5, <2>6, <2>7, <2>8 DEF StInv
  <1> QED
    BY <1>4, <1>5

\* What a threshold is compared with comes from the answer, but for the UPS.
LEMMA ValueIsAnswer ==
    ASSUME NEW s, ThresholdValue(s) # None,
           poll.seen[s].kind \in {"metric", "interface", "supply"}
    PROVE  /\ ThresholdValue(s) = poll.answer[s]
           /\ poll.seen[s].kind = "interface" => poll.seen[s].on
  <1>1. CASE poll.seen[s].kind = "metric"
    BY <1>1 DEF ThresholdValue
  <1>2. CASE poll.seen[s].kind = "interface"
    BY <1>2 DEF ThresholdValue
  <1>3. CASE poll.seen[s].kind = "supply"
    BY <1>3 DEF ThresholdValue
  <1> QED
    BY <1>1, <1>2, <1>3

LEMMA EvaluateStory ==
    ASSUME StInv, Evaluate
    PROVE  StInv'
  <1> DEFINE level(t) == EvaluateLevel(ThresholdValue(threshold[t].source), threshold[t].limits)
             found(t) == OutcomeOf(t, level(t), threshold[t].level)
             cells == OutcomeOf(Battery, BatteryLevel, "normal")
             outcome == [k \in Keys |-> IF k = Battery THEN IF SavesUps THEN cells ELSE None
                                        ELSE IF Evaluated(k) THEN found(k) ELSE None]
  <1>1. /\ poll.pc = "read" /\ UNCHANGED <<device, config, muted, rows, raced, budget>>
        /\ poll' = [poll EXCEPT !.pc = "evaluated", !.outcome = outcome]
    BY DEF Evaluate
  <1>2. UNCHANGED <<source, battery, threshold, incident, raced, muted>>
    BY <1>1 DEF rows
  <1>3. Shapes /\ Shapes' /\ poll \in Poll /\ poll.letters = {} /\ SeenRows /\ Saving
    BY <1>1, <1>2 DEF StInv, Shapes, LettersWhileSending, Saving
  <1>4. /\ Battery \in Keys
        /\ \A k \in Keys : k # Battery => k \in Thresholds
        /\ \A t \in Thresholds : t \in Keys /\ t # Battery
    BY KeysAssumption DEF Keys
  <1>5. \A t \in Thresholds : /\ level(t) \in Levels /\ threshold[t].level \in Levels
                              /\ threshold[t].source \in Sources
    BY <1>3, LevelIsLevel DEF Shapes, Threshold
  <1>6. BatteryLevel \in Levels /\ "normal" \in Levels
    BY DEF BatteryLevel, Levels, Severities
  <1> HIDE DEF level
  <1>7. \A t \in Thresholds :
          /\ found(t) \in Outcome
          /\ found(t).level = level(t) /\ found(t).was = threshold[t].level
          /\ found(t).severity = incident[t].severity
          /\ found(t).saw = IF Open(t) THEN "open" ELSE "nothing"
          /\ found(t).letter = SendsLetter(t, level(t))
          /\ found(t).muted = muted
    BY <1>3, <1>4, <1>5, OutcomeIsOutcome
  <1>8. /\ cells \in Outcome
        /\ cells.level = BatteryLevel /\ cells.severity = incident[Battery].severity
        /\ cells.saw = IF Open(Battery) THEN "open" ELSE "nothing"
        /\ cells.letter = SendsLetter(Battery, BatteryLevel)
        /\ cells.muted = muted
    BY <1>3, <1>4, <1>6, OutcomeIsOutcome
  <1> HIDE DEF found, cells
  <1>9. /\ outcome \in [Keys -> Outcome \cup {None}]
        /\ \A t \in Thresholds : outcome[t] # None => Evaluated(t) /\ outcome[t] = found(t)
        /\ outcome[Battery] # None => outcome[Battery] = cells
    BY <1>4, <1>7, <1>8
  <1> HIDE DEF outcome
  <1>10. /\ poll' \in Poll /\ poll'.pc = "evaluated" /\ poll'.letters = {}
         /\ poll'.seen = poll.seen /\ poll'.answer = poll.answer /\ poll'.outcome = outcome
    BY <1>1, <1>3, <1>9 DEF Poll
  <1>11. \A s \in Sources : /\ poll.seen[s].kind = source[s].kind
                            /\ source[s].kind # "ups" => source[s].kind \in {"metric", "interface", "supply"}
    BY <1>3 DEF SeenRows, Shapes, Source, Kinds
  <1>12. SeenRows' /\ StillOn'
    <2>1. SeenRows'
      BY <1>2, <1>3, <1>10 DEF SeenRows
    <2>2. StillOn'
      BY <1>2, <1>3, <1>10 DEF StInv, StillOn
    <2> QED
      BY <2>1, <2>2
  <1>13. OutcomesHold'
    <2> SUFFICES ASSUME NEW t \in Thresholds, outcome[t] # None
                 PROVE  threshold[t].row # "none" /\ (t \notin raced => OutcomeHolds(t)')
      BY <1>2, <1>10 DEF OutcomesHold
    <2>1. /\ threshold[t].row = "row" /\ threshold[t].enabled
          /\ ThresholdValue(threshold[t].source) # None
      BY <1>9 DEF Evaluated
    <2>2. source[threshold[t].source].kind = "interface" => poll.seen[threshold[t].source].on
      BY <1>5, <1>11, <2>1, ValueIsAnswer
    <2>3. t \notin raced /\ source[threshold[t].source].kind = "interface"
            => source[threshold[t].source].on
      BY <1>3, <2>1, <2>2 DEF StInv, StillOn
    <2>4. /\ outcome[t].was = threshold[t].level
          /\ outcome[t].saw = IF Open(t) THEN "open" ELSE "nothing"
          /\ outcome[t].severity = incident[t].severity
      BY <1>7, <1>9
    <2>5. t \notin raced => OutcomeHolds(t)'
      BY <1>2, <1>10, <2>1, <2>3, <2>4 DEF OutcomeHolds, Open
    <2> QED
      BY <2>1, <2>5
  <1>14. OutcomesAreFair'
    <2> SUFFICES ASSUME NEW k \in Keys, outcome[k] # None
                 PROVE  /\ outcome[k].level # "normal"
                             => (outcome[k].letter <=> ~outcome[k].muted /\ IsNews(outcome[k]))
                        /\ outcome[k].level = "normal" /\ outcome[k].letter => outcome[k].saw = "open"
      BY <1>10 DEF OutcomesAreFair
    <2>1. /\ outcome[k].severity = incident[k].severity
          /\ outcome[k].saw = IF Open(k) THEN "open" ELSE "nothing"
          /\ outcome[k].letter = SendsLetter(k, outcome[k].level)
          /\ outcome[k].muted = muted
      BY <1>4, <1>7, <1>8, <1>9
    <2> QED
      BY <2>1 DEF SendsLetter, IsNews, Open
  <1>15. AnsweredFor'
    <2> SUFFICES ASSUME NEW t \in Thresholds, outcome[t] # None,
                        source[threshold[t].source].kind # "ups"
                 PROVE  LET v == poll.answer[threshold[t].source] IN
                        v # None /\ outcome[t].level = EvaluateLevel(v, threshold[t].limits)
      BY <1>2, <1>10 DEF AnsweredFor
    <2>1. ThresholdValue(threshold[t].source) # None
      BY <1>9 DEF Evaluated
    <2>2. ThresholdValue(threshold[t].source) = poll.answer[threshold[t].source]
      BY <1>5, <1>11, <2>1, ValueIsAnswer
    <2>3. outcome[t].level = level(t)
      BY <1>7, <1>9
    <2> QED
      BY <2>1, <2>2, <2>3 DEF level
  <1>16. LettersWhileSending' /\ LettersTellTruth'
    BY <1>10 DEF LettersWhileSending, LettersTellTruth
  <1>17. IncidentMatchesThreshold'
    BY <1>2 DEF StInv, IncidentMatchesThreshold, OpenIsWatched, LevelShown, Open
  <1>18. CriticalIsAnnounced'
    BY <1>2, <1>3, <1>10 DEF StInv, CriticalIsAnnounced, Open
  <1> QED
    BY <1>3, <1>10, <1>12, <1>13, <1>14, <1>15, <1>16, <1>17, <1>18 DEF StInv
LEMMA RollbackStory ==
    ASSUME StInv, RollbackPoll
    PROVE  StInv'
  <1>1. /\ poll.pc = "evaluated" /\ poll' = IdlePoll
        /\ UNCHANGED <<device, config, muted, rows, raced, budget>>
    BY DEF RollbackPoll
  <1>2. Shapes'
    BY <1>1 DEF StInv, Shapes, rows
  <1> QED
    BY <1>1, <1>2, IdlePollIsPoll, RowsUnread

\* The row of a source after the save shows the same thing, chosen as before.
LEMMA SavedSources ==
    ASSUME StInv, CommitPoll
    PROVE  /\ source' \in [Sources -> Source]
           /\ \A s \in Sources : /\ source'[s].kind = source[s].kind
                                 /\ source'[s].on = source[s].on
  <1>1. /\ source \in [Sources -> Source] /\ poll.seen \in [Sources -> Source]
        /\ poll.answer \in [Sources -> Values \cup {None}]
    BY DEF StInv, CommitPoll, SeenRows, Saving, Shapes, Poll
  <1>2. \A s \in Sources : Stored(s) \in Values \cup {None}
    <2> SUFFICES ASSUME NEW s \in Sources PROVE Stored(s) \in Values \cup {None}
      OBVIOUS
    <2>1. poll.seen[s] \in Source /\ poll.answer[s] \in Values \cup {None}
      BY <1>1
    <2>2. poll.seen[s].value \in Values \cup {None}
      BY <2>1 DEF Source
    <2>3. StoredSupply(s) \in Values \cup {None} /\ StoredUps(s) \in Values \cup {None}
      BY <2>1, <2>2 DEF StoredSupply, StoredUps
    <2>4. CASE poll.seen[s].kind = "supply"
      BY <2>3, <2>4 DEF Stored
    <2>5. CASE poll.seen[s].kind = "ups"
      BY <2>3, <2>5 DEF Stored
    <2>6. CASE poll.seen[s].kind # "supply" /\ poll.seen[s].kind # "ups"
      BY <2>2, <2>6 DEF Stored
    <2> QED
      BY <2>4, <2>5, <2>6
  <1> DEFINE value(s) == IF Stored(s) = poll.seen[s].value THEN source[s].value ELSE Stored(s)
             plain(s) == [source[s] EXCEPT !.value = value(s)]
             cells(s) == [source[s] EXCEPT !.row = "row", !.value = value(s)]
             new(s) == CASE source[s].kind = "ups" /\ SavesUps -> cells(s)
                         [] OTHER -> plain(s)
  <1>3. source' = [s \in Sources |-> new(s)]
    BY DEF CommitPoll
  <1>4. \A s \in Sources : value(s) \in Values \cup {None}
    BY <1>1, <1>2 DEF Source
  <1> HIDE DEF value
  <1>5. \A s \in Sources : /\ plain(s) \in Source /\ plain(s).kind = source[s].kind
                           /\ plain(s).on = source[s].on
    BY <1>1, <1>4 DEF Source
  <1>6. \A s \in Sources : /\ cells(s) \in Source /\ cells(s).kind = source[s].kind
                           /\ cells(s).on = source[s].on
    <2> SUFFICES ASSUME NEW s \in Sources
                 PROVE  /\ cells(s) \in Source /\ cells(s).kind = source[s].kind
                        /\ cells(s).on = source[s].on
      OBVIOUS
    <2>1. source[s] \in Source /\ value(s) \in Values \cup {None} /\ "row" \in Rows
      BY <1>1, <1>4 DEF Rows
    <2> QED
      BY <2>1 DEF Source
  <1> HIDE DEF plain, cells
  <1>7. \A s \in Sources : new(s) = plain(s) \/ new(s) = cells(s)
    OBVIOUS
  <1> HIDE DEF new
  <1> QED
    BY <1>3, <1>5, <1>6, <1>7

\* The incident of a key after the save, case by case.
LEMMA ConcludedAs ==
    ASSUME Shapes, poll \in Poll, NEW k \in Keys
    PROVE  LET o == poll.outcome[k]  i == incident[k]  c == Concluded(k) IN
           /\ c \in Incident
           /\ o = None => c = i
           /\ o # None => o \in Outcome
           /\ o # None /\ o.saw = "nothing" /\ o.level = "normal" => c = i
           /\ o # None /\ o.saw = "nothing" /\ o.level # "normal" =>
                c.status = "open" /\ c.severity = o.level /\ (o.muted => c.quiet)
           /\ o # None /\ o.saw = "open" /\ o.level = "normal" => c.status = "resolved"
           /\ o # None /\ o.saw = "open" /\ o.level # "normal" =>
                /\ c.status = i.status /\ c.told = i.told
                /\ c.severity = IF o.level = o.severity THEN i.severity ELSE o.level
                /\ ~c.quiet => ~i.quiet /\ ~(o.muted /\ o.severity = "warning" /\ o.level = "critical")
  <1> DEFINE o == poll.outcome[k]
             i == incident[k]
             quiet == o.level # "normal" /\ o.muted
                        /\ (o.saw = "open" => o.severity = "warning" /\ o.level = "critical")
             hush == i.quiet \/ quiet
             rise == IF o.level = o.severity THEN i.severity ELSE o.level
             opened == [status |-> "open", severity |-> o.level, openTried |-> o.letter,
                        told |-> "nothing", quiet |-> quiet]
             closed == [i EXCEPT !.status = "resolved"]
             raised == [i EXCEPT !.severity = rise, !.quiet = hush]
  <1>1. i \in Incident /\ o \in Outcome \cup {None}
    BY DEF Shapes, Poll
  <1>2. /\ o = None => Concluded(k) = i
        /\ o # None /\ o.saw = "nothing" /\ o.level = "normal" => Concluded(k) = i
        /\ o # None /\ o.saw = "nothing" /\ o.level # "normal" => Concluded(k) = opened
        /\ o # None /\ o.saw = "open" /\ o.level = "normal" => Concluded(k) = closed
        /\ o # None /\ o.saw = "open" /\ o.level # "normal" => Concluded(k) = raised
    BY DEF Concluded
  <1>3. quiet \in BOOLEAN /\ hush \in BOOLEAN
    BY <1>1 DEF Incident
  <1>4. /\ o.level # "normal" /\ o.saw = "nothing" /\ o.muted => quiet
        /\ ~hush => ~i.quiet
        /\ ~hush /\ o.level = "critical" => ~(o.muted /\ o.severity = "warning")
    OBVIOUS
  <1> HIDE DEF quiet, hush
  <1>5. o # None => /\ o.saw \in {"nothing", "open"} /\ o.level \in Levels /\ o.letter \in BOOLEAN
                    /\ o \in Outcome
    BY <1>1 DEF Outcome
  <1>6. o # None /\ o.level # "normal" => o.level \in Severities
    BY <1>5 DEF Levels
  <1>7. i.severity \in Severities
    BY <1>1 DEF Incident
  <1>8. o # None /\ o.level # "normal" => rise \in Severities
    BY <1>6, <1>7
  <1>9. rise = IF o.level = o.severity THEN i.severity ELSE o.level
    OBVIOUS
  <1> HIDE DEF rise
  <1>10. o # None /\ o.level # "normal" =>
            opened \in Incident /\ opened.status = "open" /\ opened.severity = o.level
              /\ opened.quiet = quiet
    BY <1>3, <1>5, <1>6 DEF Incident
  <1>11. closed \in Incident /\ closed.status = "resolved"
    BY <1>1 DEF Incident
  <1>12. o # None /\ o.level # "normal" =>
            /\ raised \in Incident /\ raised.status = i.status /\ raised.told = i.told
            /\ raised.severity = rise /\ raised.quiet = hush
    BY <1>1, <1>3, <1>8 DEF Incident
  <1> HIDE DEF opened, closed, raised, o, i
  <1>13. Concluded(k) \in Incident
    BY <1>1, <1>2, <1>5, <1>10, <1>11, <1>12
  <1>14. o # None /\ o.saw = "nothing" /\ o.level # "normal" =>
           Concluded(k).status = "open" /\ Concluded(k).severity = o.level
             /\ (o.muted => Concluded(k).quiet)
    BY <1>2, <1>4, <1>10
  <1>15. o # None /\ o.saw = "open" /\ o.level # "normal" =>
           /\ Concluded(k).status = i.status /\ Concluded(k).told = i.told
           /\ Concluded(k).severity = IF o.level = o.severity THEN i.severity ELSE o.level
           /\ ~Concluded(k).quiet
                => ~i.quiet /\ ~(o.muted /\ o.severity = "warning" /\ o.level = "critical")
    BY <1>2, <1>4, <1>9, <1>12
  <1> QED
    BY <1>2, <1>5, <1>11, <1>13, <1>14, <1>15 DEF o, i
LEMMA CommitStory ==
    ASSUME StInv, CommitPoll
    PROVE  StInv'
  <1> DEFINE tells(k) == IF poll.outcome[k].level = "normal" THEN "recovered"
                         ELSE poll.outcome[k].level
             told == {j \in Keys : poll.outcome[j] # None /\ poll.outcome[j].letter}
             letters == {[key |-> k, tells |-> tells(k)] : k \in told}
             manual == poll.manual
             risen(t) == [threshold[t] EXCEPT !.level = poll.outcome[t].level]
  <1>1. /\ poll.pc = "evaluated" /\ UNCHANGED <<device, config, muted, raced, budget>>
        /\ battery' = IF SavesUps /\ StoredBattery # poll.oldBattery THEN StoredBattery ELSE battery
        /\ threshold' = [t \in Thresholds |->
              IF poll.outcome[t] = None \/ poll.outcome[t].level = poll.outcome[t].was
              THEN threshold[t] ELSE risen(t)]
        /\ incident' = [k \in Keys |-> Concluded(k)]
        /\ poll' = [IdlePoll EXCEPT !.pc = "sending", !.manual = manual, !.letters = letters]
    BY DEF CommitPoll
  <1>2. /\ Shapes /\ poll \in Poll /\ poll.letters = {}
        /\ OutcomesHold /\ OutcomesAreFair /\ AnsweredFor
        /\ IncidentMatchesThreshold /\ CriticalIsAnnounced
    BY <1>1 DEF StInv, LettersWhileSending
  <1>3. \A k \in Keys : /\ poll.outcome[k] \in Outcome \cup {None}
                        /\ poll.outcome[k] # None =>
                              /\ poll.outcome[k].level \in Levels
                              /\ poll.outcome[k].letter \in BOOLEAN
                              /\ poll.outcome[k].muted \in BOOLEAN
                              /\ poll.outcome[k].severity \in Severities
                              /\ poll.outcome[k].saw \in {"nothing", "open"}
    BY <1>2 DEF Poll, Outcome
  <1>4. Thresholds \subseteq Keys
    BY DEF Keys
  <1>5. \A t \in Thresholds : poll.outcome[t] # None =>
          /\ risen(t) \in Threshold /\ risen(t).level = poll.outcome[t].level
          /\ risen(t).row = threshold[t].row /\ risen(t).enabled = threshold[t].enabled
          /\ risen(t).source = threshold[t].source
    BY <1>2, <1>3, <1>4 DEF Shapes, Threshold
  <1>6. letters \subseteq Letter
    BY <1>3 DEF Letter, Levels, Severities
  <1>7. manual \in {"no", "values", "ups"}
    BY <1>2 DEF Poll
  <1> HIDE DEF risen, manual
  <1>8. \A l \in letters : l.key \in told /\ l.tells = tells(l.key)
    OBVIOUS
  <1>9. \A k \in told : \E l \in letters : l.key = k
    <2> SUFFICES ASSUME NEW k \in told PROVE \E l \in letters : l.key = k
      OBVIOUS
    <2> WITNESS [key |-> k, tells |-> tells(k)] \in letters
    <2> QED
      OBVIOUS
  <1> HIDE DEF letters
  <1>10. /\ poll' \in Poll /\ poll'.pc = "sending" /\ poll'.letters = letters
    BY <1>1, <1>6, <1>7, IdlePollIsPoll DEF Poll
  <1>11. /\ incident' \in [Keys -> Incident]
         /\ \A k \in Keys : incident'[k] = Concluded(k)
    BY <1>1, <1>2, ConcludedAs
  <1>12. /\ source' \in [Sources -> Source]
         /\ \A s \in Sources : /\ source'[s].kind = source[s].kind
                               /\ source'[s].on = source[s].on
    BY SavedSources
  <1>13. /\ threshold' \in [Thresholds -> Threshold]
         /\ \A t \in Thresholds : /\ threshold'[t].row = threshold[t].row
                                  /\ threshold'[t].enabled = threshold[t].enabled
                                  /\ threshold'[t].source = threshold[t].source
    BY <1>1, <1>2, <1>5 DEF Shapes
  <1>14. battery' \in {"good", "low", None}
    BY <1>1, <1>2 DEF StoredBattery, Poll, Shapes
  <1>15. Shapes'
    BY <1>1, <1>2, <1>11, <1>12, <1>13, <1>14 DEF Shapes
  <1>16. IncidentMatchesThreshold'
    <2> SUFFICES ASSUME NEW t \in Thresholds \ raced
                 PROVE  /\ Open(t)' =>
                             /\ threshold'[t].row = "row" /\ threshold'[t].enabled
                             /\ source'[threshold'[t].source].kind = "interface"
                                  => source'[threshold'[t].source].on
                        /\ Open(t)' => threshold'[t].level = incident'[t].severity
                        /\ threshold'[t].level # "normal"
                             => incident'[t].status \in {"open", "deleted"}
      BY <1>1 DEF IncidentMatchesThreshold, OpenIsWatched, LevelShown
    <2> DEFINE o == poll.outcome[t]
    <2>1. /\ t \in Keys /\ threshold[t].source \in Sources
          /\ source'[threshold[t].source].kind = source[threshold[t].source].kind
          /\ source'[threshold[t].source].on = source[threshold[t].source].on
      BY <1>2, <1>4, <1>12 DEF Shapes, Threshold
    <2>2. CASE o = None
      <3>1. threshold'[t] = threshold[t]
        BY <1>1, <2>2
      <3>2. incident'[t] = incident[t]
        BY <1>2, <1>11, <2>1, <2>2, ConcludedAs
      <3> QED
        BY <1>2, <2>1, <3>1, <3>2 DEF IncidentMatchesThreshold, OpenIsWatched, LevelShown, Open
    <2>3. CASE o # None
      <3>1. OutcomeHolds(t)
        BY <1>1, <1>2, <2>3 DEF OutcomesHold
      <3>2. /\ threshold'[t].row = "row" /\ threshold'[t].enabled
            /\ source'[threshold'[t].source].kind = "interface"
                 => source'[threshold'[t].source].on
        BY <1>13, <2>1, <3>1 DEF OutcomeHolds
      <3>3. threshold'[t].level = o.level
        <4>1. o.was = threshold[t].level
          BY <3>1 DEF OutcomeHolds
        <4>2. threshold'[t] = IF o.level = o.was THEN threshold[t] ELSE risen(t)
          BY <1>1, <2>3
        <4> QED
          BY <1>5, <2>3, <4>1, <4>2
      <3>4. /\ o.saw = "nothing" => ~Open(t)
            /\ o.saw = "open" => /\ incident[t].status \in {"open", "deleted"}
                                 /\ incident[t].severity = o.severity
        BY <3>1 DEF OutcomeHolds
      <3>5. incident'[t] = Concluded(t)
        BY <1>11, <2>1
      <3>6. CASE o.level = "normal" /\ o.saw = "nothing"
        <4>1. ~Open(t)'
          BY <1>2, <2>1, <2>3, <3>4, <3>5, <3>6, ConcludedAs DEF Open
        <4> QED
          BY <3>3, <3>6, <4>1
      <3>7. CASE o.level = "normal" /\ o.saw = "open"
        <4>1. ~Open(t)'
          BY <1>2, <2>1, <2>3, <3>5, <3>7, ConcludedAs DEF Open
        <4> QED
          BY <3>3, <3>7, <4>1
      <3>8. CASE o.level # "normal" /\ o.saw = "nothing"
        <4>1. incident'[t].status = "open" /\ incident'[t].severity = o.level
          BY <1>2, <2>1, <2>3, <3>5, <3>8, ConcludedAs
        <4> QED
          BY <3>2, <3>3, <4>1
      <3>9. CASE o.level # "normal" /\ o.saw = "open"
        <4>1. incident'[t].status = incident[t].status /\ incident'[t].severity = o.level
          BY <1>2, <2>1, <2>3, <3>4, <3>5, <3>9, ConcludedAs
        <4> QED
          BY <3>2, <3>3, <3>4, <3>9, <4>1
      <3> QED
        BY <1>3, <2>1, <2>3, <3>6, <3>7, <3>8, <3>9
    <2> QED
      BY <2>2, <2>3
  <1>17. CriticalIsAnnounced'
    <2> SUFFICES ASSUME NEW k \in Keys, incident'[k].status = "open",
                        incident'[k].severity = "critical", ~incident'[k].quiet,
                        \A l \in letters : l.key # k
                 PROVE  incident'[k].told = "critical"
      BY <1>10 DEF CriticalIsAnnounced, Open
    <2> DEFINE o == poll.outcome[k]
    <2>1. o # None => ~o.letter
      BY <1>9
    <2>2. incident'[k] = Concluded(k)
      BY <1>11
    <2>3. incident[k].status = "open" /\ incident[k].severity = "critical" /\ ~incident[k].quiet
            => incident[k].told = "critical"
      BY <1>2 DEF CriticalIsAnnounced, Open
    <2>4. CASE o = None
      BY <1>2, <2>2, <2>3, <2>4, ConcludedAs
    <2>5. CASE o # None /\ o.saw = "nothing" /\ o.level = "normal"
      BY <1>2, <2>2, <2>3, <2>5, ConcludedAs
    <2>6. CASE o # None /\ o.saw = "nothing" /\ o.level # "normal"
      <3>1. o.letter <=> ~o.muted
        BY <1>1, <1>2, <2>6 DEF OutcomesAreFair, IsNews
      <3>2. o.muted => incident'[k].quiet
        BY <1>2, <2>2, <2>6, ConcludedAs
      <3> QED
        BY <2>1, <2>6, <3>1, <3>2
    <2>7. CASE o # None /\ o.saw = "open" /\ o.level = "normal"
      BY <1>2, <2>2, <2>7, ConcludedAs
    <2>8. CASE o # None /\ o.saw = "open" /\ o.level # "normal"
      <3>1. /\ incident'[k].status = incident[k].status /\ incident'[k].told = incident[k].told
            /\ incident'[k].severity = IF o.level = o.severity THEN incident[k].severity ELSE o.level
            /\ ~incident[k].quiet /\ ~(o.muted /\ o.severity = "warning" /\ o.level = "critical")
        BY <1>2, <2>2, <2>8, ConcludedAs
      <3>2. CASE o.level = o.severity
        BY <2>3, <3>1, <3>2
      <3>3. CASE o.level # o.severity
        <4>1. o.level = "critical" /\ o.severity = "warning"
          BY <1>3, <2>8, <3>1, <3>3 DEF Severities
        <4>2. o.letter <=> ~o.muted
          BY <1>1, <1>2, <2>8, <4>1 DEF OutcomesAreFair, IsNews
        <4> QED
          BY <2>1, <2>8, <3>1, <4>1, <4>2
      <3> QED
        BY <3>2, <3>3
    <2> QED
      BY <1>3, <2>4, <2>5, <2>6, <2>7, <2>8
  <1>18. LettersTellTruth'
    <2> SUFFICES ASSUME NEW l \in letters, incident'[l.key].status = "open",
                        incident'[l.key].severity = "critical"
                 PROVE  l.tells = "critical"
      BY <1>10 DEF LettersTellTruth, Open
    <2> DEFINE k == l.key
               o == poll.outcome[k]
    <2>1. k \in Keys /\ o # None /\ o.letter /\ l.tells = tells(k)
      BY <1>8
    <2>2. incident'[k] = Concluded(k)
      BY <1>11, <2>1
    <2>3. /\ o.level # "normal" => IsNews(o)
          /\ o.level = "normal" => o.saw = "open"
      BY <1>1, <1>2, <2>1 DEF OutcomesAreFair
    <2>4. o.level # "normal"
      BY <1>2, <2>1, <2>2, <2>3, ConcludedAs
    <2>5. l.tells = o.level
      BY <2>1, <2>4
    <2>6. CASE o.saw = "nothing"
      <3>1. incident'[k].severity = o.level
        BY <1>2, <2>1, <2>2, <2>4, <2>6, ConcludedAs
      <3> QED
        BY <2>5, <3>1
    <2>7. CASE o.saw # "nothing"
      BY <2>3, <2>4, <2>5, <2>7 DEF IsNews
    <2> QED
      BY <2>6, <2>7
  <1>19. /\ SeenRows' /\ LettersWhileSending' /\ StillOn' /\ OutcomesHold' /\ OutcomesAreFair'
         /\ AnsweredFor'
    BY <1>10 DEF Saving, SeenRows, LettersWhileSending, StillOn, OutcomesHold, OutcomesAreFair,
                 AnsweredFor
  <1> QED
    BY <1>10, <1>15, <1>16, <1>17, <1>18, <1>19 DEF StInv
LEMMA SendStory ==
    ASSUME StInv, Send
    PROVE  StInv'
  <1> DEFINE mine(k) == {l \in poll.letters : l.key = k}
             drops == DropsDisabled \/ DropsWithoutUps
             tells(k) == (CHOOSE l \in mine(k) : TRUE).tells
             dropped(k) == [incident[k] EXCEPT !.quiet = TRUE]
             sent(k) == [incident[k] EXCEPT !.told = tells(k), !.quiet = FALSE]
  <1>1. /\ poll.pc = "sending" /\ poll' = IdlePoll
        /\ incident' = [k \in Keys |-> IF mine(k) = {} THEN incident[k]
                                       ELSE IF drops THEN dropped(k) ELSE sent(k)]
        /\ UNCHANGED <<device, config, muted, source, battery, threshold, raced, budget>>
    BY DEF Send
  <1>2. Shapes /\ poll \in Poll /\ poll.letters \subseteq Letter
    BY DEF StInv, Poll
  <1>3. \A k \in Keys : mine(k) # {} =>
          \E l \in poll.letters : l.key = k /\ l.tells = tells(k)
    OBVIOUS
  <1>4. \A k \in Keys : mine(k) # {} =>
          /\ tells(k) \in Severities \cup {"recovered"}
          /\ Open(k) /\ incident[k].severity = "critical" => tells(k) = "critical"
    BY <1>2, <1>3 DEF Letter, StInv, LettersTellTruth
  <1>5. \A k \in Keys : mine(k) = {} => \A l \in poll.letters : l.key # k
    OBVIOUS
  <1> HIDE DEF mine, tells, drops
  <1>6. \A k \in Keys : /\ dropped(k) \in Incident /\ dropped(k).quiet = TRUE
                        /\ dropped(k).status = incident[k].status
                        /\ dropped(k).severity = incident[k].severity
    BY <1>2 DEF Shapes, Incident
  <1>7. \A k \in Keys : mine(k) # {} =>
          /\ sent(k) \in Incident /\ sent(k).told = tells(k)
          /\ sent(k).status = incident[k].status
          /\ sent(k).severity = incident[k].severity
    BY <1>2, <1>4 DEF Shapes, Incident
  <1> HIDE DEF dropped, sent
  <1>8. \A k \in Keys : /\ incident'[k] \in Incident
                        /\ incident'[k].status = incident[k].status
                        /\ incident'[k].severity = incident[k].severity
    BY <1>1, <1>2, <1>6, <1>7 DEF Shapes
  <1>9. incident' \in [Keys -> Incident]
    BY <1>1, <1>8
  <1>10. Shapes'
    BY <1>1, <1>2, <1>9 DEF Shapes
  <1>11. poll' \in Poll /\ poll'.pc = "idle" /\ poll'.letters = {}
    BY <1>1, IdlePollIsPoll
  <1>12. IncidentMatchesThreshold'
    <2>1. \A t \in Thresholds : /\ incident'[t].status = incident[t].status
                                /\ incident'[t].severity = incident[t].severity
      BY <1>8 DEF Keys
    <2>2. source' = source /\ threshold' = threshold /\ raced' = raced
      BY <1>1
    <2> QED
      BY <2>1, <2>2 DEF StInv, IncidentMatchesThreshold, OpenIsWatched, LevelShown, Open
  <1>13. CriticalIsAnnounced'
    <2> SUFFICES ASSUME NEW k \in Keys, incident'[k].status = "open",
                        incident'[k].severity = "critical", ~incident'[k].quiet
                 PROVE  incident'[k].told = "critical"
      BY DEF CriticalIsAnnounced, Open
    <2>1. incident[k].status = "open" /\ incident[k].severity = "critical"
      BY <1>8
    <2>2. CASE mine(k) = {}
      <3>1. incident'[k] = incident[k]
        BY <1>1, <2>2
      <3> QED
        BY <1>5, <2>1, <2>2, <3>1 DEF StInv, CriticalIsAnnounced, Open
    <2>3. CASE mine(k) # {} /\ drops
      BY <1>1, <1>6, <2>3
    <2>4. CASE mine(k) # {} /\ ~drops
      BY <1>1, <1>4, <1>7, <2>1, <2>4 DEF Open
    <2> QED
      BY <2>2, <2>3, <2>4
  <1>14. /\ SeenRows' /\ LettersWhileSending' /\ StillOn' /\ OutcomesHold' /\ OutcomesAreFair'
         /\ AnsweredFor' /\ LettersTellTruth'
    BY <1>11 DEF Saving, SeenRows, LettersWhileSending, StillOn, OutcomesHold, OutcomesAreFair,
                 AnsweredFor, LettersTellTruth
  <1> QED
    BY <1>10, <1>11, <1>12, <1>13, <1>14 DEF StInv

-----------------------------------------------------------------------------
(* The theorems. *)

LEMMA StoryStep == StInv /\ [Next]_vars => StInv'
  <1> SUFFICES ASSUME StInv, [Next]_vars PROVE StInv'
    OBVIOUS
  <1>1. CASE Page
    BY <1>1, PageSteps, PagesKeepStory DEF StInv
  <1>2. CASE DeviceChanges
    BY <1>2, DeviceSteps, PagesKeepStory DEF StInv
  <1>3. CASE \/ LoadPollRequest("no") \/ PollInterfacesNow \/ PollSuppliesNow \/ PollUpsNow
    BY <1>3, LoadStory DEF PollInterfacesNow, PollSuppliesNow, PollUpsNow
  <1>4. CASE GetValues
    BY <1>4, GetStory
  <1>5. CASE PollFails
    BY <1>5, FailStory
  <1>6. CASE ReadRows
    BY <1>6, ReadStory
  <1>7. CASE Evaluate
    BY <1>7, EvaluateStory
  <1>8. CASE CommitPoll
    BY <1>8, CommitStory
  <1>9. CASE RollbackPoll
    BY <1>9, RollbackStory
  <1>10. CASE Send
    BY <1>10, SendStory
  <1>11. CASE UNCHANGED vars
    <2>1. /\ Shapes'
          /\ UNCHANGED <<threshold, incident, raced, poll, source>>
      BY <1>11 DEF StInv, Shapes, vars
    <2>2. PageEffect
      BY <2>1, Untouched DEF StInv
    <2> QED
      BY <2>1, <2>2, PagesKeepStory
  <1> QED
    BY <1>1, <1>2, <1>3, <1>4, <1>5, <1>6, <1>7, <1>8, <1>9, <1>10, <1>11 DEF Next, PollStep

LEMMA Story == Spec => []StInv
  BY InitStory, StoryStep, PTL DEF Spec

\* The rows of sources, thresholds and incidents and the poll in progress always have their
\* types (snmp_thresholds.py, incidents.py).
THEOREM TypeCorrect == Spec => []TypeOK
  <1>1. StInv => TypeOK
    BY TypeIsShapes DEF StInv
  <1> QED
    BY <1>1, Story, PTL

\* However pages and polls interleave, an open incident belongs to a threshold that is in
\* force, and the level shown is the severity of that incident, unless a page reset the
\* threshold while a poll was saving (reset_threshold, evaluate_target).
THEOREM IncidentTellsThreshold == Spec => []IncidentMatchesThreshold
  <1>1. StInv => IncidentMatchesThreshold
    BY DEF StInv
  <1> QED
    BY <1>1, Story, PTL

\* An open critical incident was announced as critical, or was muted, or its letter is on
\* its way or was lost (set_source_state).
THEOREM CriticalIsKnown == Spec => []CriticalIsAnnounced
  <1>1. StInv => CriticalIsAnnounced
    BY DEF StInv
  <1> QED
    BY <1>1, Story, PTL
\* Pages count as actions of the administrator.
LEMMA PagesCount ==
    ASSUME Shapes, Page
    PROVE  budget'.ops # budget.ops
  <1>1. Act
    <2>1. CASE \E t \in Thresholds : ThresholdToggle(t) \/ ThresholdDelete(t)
      BY <2>1 DEF ThresholdToggle, ThresholdDelete
    <2>2. CASE \E t \in Thresholds, s \in Sources, l \in Limits, enabled \in BOOLEAN :
                  ThresholdSave(t, s, l, enabled)
      BY <2>2 DEF ThresholdSave
    <2>3. CASE \E s \in Sources : MetricDelete(s) \/ InterfaceSelection(s)
      BY <2>3 DEF MetricDelete, InterfaceSelection
    <2>4. CASE \/ \E s \in Sources, q \in Quantities, on \in BOOLEAN :
                     MetricCreate(s, q, on) \/ MetricUpdate(s, q, on)
               \/ \E s \in Sources, q \in Quantities : DiscoveryAdd(s, q)
      BY <2>4 DEF DiscoveryAdd, MetricCreate, MetricUpdate, MetricSave
    <2>5. CASE \E s \in Sources, listed \in BOOLEAN :
                  SaveInterfaceInventory(s, listed) \/ SaveSupplyInventory(s, listed)
      BY <2>5 DEF SaveInterfaceInventory, SaveSupplyInventory
    <2>6. CASE \/ ClearData \/ ToggleMute
               \/ \E enabled, ups \in BOOLEAN : SaveSettings(enabled, ups)
               \/ \E k \in Keys : IncidentDelete(k)
      BY <2>6 DEF ClearData, ToggleMute, SaveSettings, IncidentDelete
    <2> QED
      BY <2>1, <2>2, <2>3, <2>4, <2>5, <2>6 DEF Page
  <1>2. budget'.ops = budget.ops + 1 /\ budget.ops \in 0 .. MaxOps
    BY <1>1 DEF Act, Shapes
  <1> QED
    BY <1>2, BoundsAssumption

\* A poll closes an incident only in its commit, by an outcome that found the level normal.
LEMMA ClosingSteps ==
    ASSUME StInv, [Next]_vars, budget'.ops = budget.ops,
           NEW t \in Thresholds, Open(t), ~Open(t)'
    PROVE  /\ poll.pc = "evaluated" /\ poll.outcome[t] # None
           /\ poll.outcome[t].level = "normal"
  <1>1. t \in Keys /\ Shapes /\ poll \in Poll /\ incident[t] \in Incident
    BY DEF Keys, StInv, Shapes
  <1>2. ~Page
    BY <1>1, PagesCount
  <1>3. incident'[t].status # incident[t].status
    BY DEF Open
  <1>4. CASE UNCHANGED incident
    BY <1>3, <1>4
  <1>5. CASE PollFails
    <2> DEFINE mute == [incident[t] EXCEPT !.quiet = TRUE]
    <2>1. incident'[t] = incident[t] \/ incident'[t] = mute
      BY <1>1, <1>5 DEF PollFails
    <2>2. mute.status = incident[t].status
      BY <1>1 DEF Incident
    <2> QED
      BY <1>3, <2>1, <2>2
  <1>6. CASE Send
    <2> DEFINE mute == [incident[t] EXCEPT !.quiet = TRUE]
               tells == (CHOOSE l \in {l \in poll.letters : l.key = t} : TRUE).tells
               sent == [incident[t] EXCEPT !.told = tells, !.quiet = FALSE]
    <2>1. incident'[t] \in {incident[t], mute, sent}
      BY <1>1, <1>6 DEF Send
    <2> HIDE DEF tells
    <2>2. mute.status = incident[t].status /\ sent.status = incident[t].status
      BY <1>1 DEF Incident
    <2> QED
      BY <1>3, <2>1, <2>2
  <1>7. CASE CommitPoll
    <2> DEFINE o == poll.outcome[t]
    <2>1. incident'[t] = Concluded(t) /\ poll.pc = "evaluated"
      BY <1>1, <1>7 DEF CommitPoll
    <2>2. o # None
      BY <1>1, <1>3, <2>1, ConcludedAs
    <2>3. o.level = "normal"
      <3>1. o.saw \in {"nothing", "open"}
        BY <1>1, <2>2 DEF Poll, Outcome
      <3>2. o.saw = "nothing" => o.level = "normal"
        BY <1>1, <2>1, <2>2, ConcludedAs DEF Open
      <3>3. o.saw = "open" => o.level = "normal"
        BY <1>1, <1>3, <2>1, <2>2, ConcludedAs
      <3> QED
        BY <3>1, <3>2, <3>3
    <2> QED
      BY <2>1, <2>2, <2>3
  <1>8. CASE \/ LoadPollRequest("no") \/ PollInterfacesNow \/ PollSuppliesNow \/ PollUpsNow
             \/ GetValues \/ ReadRows \/ Evaluate \/ RollbackPoll \/ DeviceChanges
    BY <1>4, <1>8 DEF PollInterfacesNow, PollSuppliesNow, PollUpsNow, LoadPollRequest, GetValues,
                      ReadRows, Evaluate, RollbackPoll, DeviceChanges, rows
  <1>9. CASE UNCHANGED vars
    BY <1>4, <1>9 DEF vars
  <1> QED
    BY <1>2, <1>5, <1>6, <1>7, <1>8, <1>9 DEF Next, PollStep

\* A poll closes the incident of a threshold only with an answer of that poll that the limits
\* in force find normal; a missing answer, a failed poll or a restart closes nothing
\* (evaluate_target, set_source_state).
THEOREM ClosedWithData == Spec => ClosedForCause
  <1> DEFINE Fair == budget'.ops = budget.ops =>
                       \A t \in Thresholds :
                          Open(t) /\ ~Open(t)' /\ source[threshold[t].source].kind # "ups" =>
                             LET v == poll.answer[threshold[t].source] IN
                             /\ v # None
                             /\ t \notin raced => EvaluateLevel(v, threshold[t].limits) = "normal"
  <1>1. StInv /\ [Next]_vars => [Fair]_vars
    <2> SUFFICES ASSUME StInv, [Next]_vars PROVE Fair
      OBVIOUS
    <2> SUFFICES ASSUME budget'.ops = budget.ops, NEW t \in Thresholds, Open(t), ~Open(t)',
                        source[threshold[t].source].kind # "ups"
                 PROVE  LET v == poll.answer[threshold[t].source] IN
                        v # None /\ EvaluateLevel(v, threshold[t].limits) = "normal"
      OBVIOUS
    <2>1. /\ poll.pc = "evaluated" /\ poll.outcome[t] # None
          /\ poll.outcome[t].level = "normal"
      BY ClosingSteps
    <2> QED
      BY <2>1 DEF StInv, AnsweredFor
  <1>2. ClosedForCause <=> [][Fair]_vars
    BY DEF ClosedForCause
  <1> HIDE DEF Fair
  <1> QED
    BY <1>1, <1>2, Story, PTL DEF Spec
=============================================================================
