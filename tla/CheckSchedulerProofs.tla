------------------------ MODULE CheckSchedulerProofs ------------------------
(***************************************************************************)
(* Safety of the scheduler for every set of objects, sites and requests.   *)
(* The argument: only the head of the lock's queue is ever past "queued",  *)
(* a task that is not an orphan belongs to such a caller, and whoever ends *)
(* a pass either has no current task or turns all of them into orphans by  *)
(* counting the abort.                                                     *)
(***************************************************************************)
EXTENDS CheckScheduler, SequenceTheorems, TLAPS

\* Whoever is past "queued" is at the head of the lock's queue.
LockInv == \A c \in Callers : pass[c].phase \in Working => Holds(c)

\* A task that is not an orphan belongs to a caller that waits for its tasks.
TaskInv ==
    \A k \in tasks :
        /\ k.batch <= aborts[k.caller]
        /\ k.batch = aborts[k.caller] => pass[k.caller].phase \in {"entries", "regular"}

\* The current tasks of a caller check different objects.
BatchInv ==
    \A k, m \in tasks :
        /\ k.caller = m.caller /\ k.target = m.target
        /\ k.batch = aborts[k.caller] /\ m.batch = aborts[m.caller]
        => k = m

\* After the shutdown began no request is under way.
StopInv == stop => \A q \in Singles : pass[q].phase = "idle"

IInv == TypeOK /\ LockInv /\ TaskInv /\ BatchInv /\ StopInv

-----------------------------------------------------------------------------
(* The lock is a sequence of callers. *)

LEMMA EnqueueProperties ==
    ASSUME NEW S, NEW w \in Seq(S), NEW c \in S
    PROVE  /\ Append(w, c) \in Seq(S)
           /\ Append(w, c) # <<>>
           /\ w # <<>> => Head(Append(w, c)) = Head(w)
  BY AppendProperties, LenProperties

LEMMA ReleaseProperties ==
    ASSUME NEW S, NEW w \in Seq(S), w # <<>>
    PROVE  Tail(w) \in Seq(S)
  OBVIOUS

-----------------------------------------------------------------------------
(* What a step makes of the state of a caller. *)

LEMMA SetPassProperties ==
    ASSUME TypeOK, NEW c \in Callers, NEW phase \in Phases, NEW rest \in SUBSET Targets,
           SetPass(c, phase, rest)
    PROVE  /\ pass' \in [Callers -> PassState]
           /\ pass'[c].phase = phase /\ pass'[c].rest = rest
           /\ pass'[c].open = pass[c].open
           /\ \A d \in Callers : d # c => pass'[d] = pass[d]
  <1> DEFINE new == [pass[c] EXCEPT !.phase = phase, !.rest = rest, !.shut = {}]
  <1>1. pass \in [Callers -> PassState] /\ pass[c] \in PassState
    BY DEF TypeOK
  <1>2. /\ new \in PassState /\ new.phase = phase /\ new.rest = rest
        /\ new.open = pass[c].open
    BY <1>1 DEF PassState
  <1>3. pass' = [pass EXCEPT ![c] = new]
    BY DEF SetPass
  <1> HIDE DEF new
  <1> QED
    BY <1>1, <1>2, <1>3

LEMMA IdleProperties ==
    ASSUME TypeOK, NEW c \in Callers, pass' = [pass EXCEPT ![c] = IdlePass]
    PROVE  /\ pass' \in [Callers -> PassState] /\ pass'[c].phase = "idle"
           /\ \A d \in Callers : d # c => pass'[d] = pass[d]
  <1>1. IdlePass \in PassState /\ IdlePass.phase = "idle"
    BY DEF IdlePass, PassState, Phases
  <1> QED
    BY <1>1 DEF TypeOK

\* The history of a pass is all that a page or a save changes of it.
LEMMA WatchProperties ==
    ASSUME TypeOK, NEW saved, Watch(saved)
    PROVE  /\ pass' \in [Callers -> PassState]
           /\ \A c \in Callers : /\ pass'[c].phase = pass[c].phase
                                /\ pass'[c].rest = pass[c].rest
                                /\ pass'[c].shut = pass[c].shut
           /\ \A c \in Passes :
                pass[c].phase \in Working =>
                  pass'[c].open = (pass[c].open
                    \ {SiteOf[k.target] : k \in {k \in saved \cap Current(c) : k.first}})
                      \cup OpenSites'
           /\ \A c \in Passes : pass[c].phase \notin Working => pass'[c] = pass[c]
  <1> DEFINE gone(c) == {SiteOf[k.target] : k \in {k \in saved \cap Current(c) : k.first}}
  <1>1. ASSUME NEW c \in Callers
        PROVE  /\ Watched(c, saved) \in PassState
               /\ Watched(c, saved).phase = pass[c].phase
               /\ Watched(c, saved).rest = pass[c].rest
               /\ Watched(c, saved).shut = pass[c].shut
               /\ Watched(c, saved).open = (pass[c].open \ gone(c)) \cup OpenSites'
    <2> DEFINE open == (pass[c].open \ gone(c)) \cup OpenSites'
    <2>1. pass[c] \in PassState
      BY DEF TypeOK
    <2>2. OpenSites' \subseteq Sites
      BY DEF OpenSites
    <2>3. open \in SUBSET Sites
      BY <2>1, <2>2 DEF PassState
    <2>4. Watched(c, saved) = [pass[c] EXCEPT !.open = open]
      BY DEF Watched
    <2> HIDE DEF open
    <2>5. /\ Watched(c, saved) \in PassState
          /\ Watched(c, saved).phase = pass[c].phase
          /\ Watched(c, saved).rest = pass[c].rest
          /\ Watched(c, saved).shut = pass[c].shut
          /\ Watched(c, saved).open = open
      BY <2>1, <2>3, <2>4 DEF PassState
    <2> QED
      BY <2>5 DEF open
  <1>2. pass' = [c \in Callers |-> IF c \in Passes /\ pass[c].phase \in Working
                                  THEN Watched(c, saved) ELSE pass[c]]
    BY DEF Watch
  <1>3. Passes \subseteq Callers /\ pass \in [Callers -> PassState]
    BY DEF Callers, TypeOK
  <1> HIDE DEF gone
  <1>4. /\ pass' \in [Callers -> PassState]
        /\ \A c \in Callers : /\ pass'[c].phase = pass[c].phase
                             /\ pass'[c].rest = pass[c].rest
                             /\ pass'[c].shut = pass[c].shut
        /\ \A c \in Passes : pass[c].phase \in Working =>
             pass'[c].open = (pass[c].open \ gone(c)) \cup OpenSites'
        /\ \A c \in Passes : pass[c].phase \notin Working => pass'[c] = pass[c]
    BY <1>1, <1>2, <1>3
  <1> QED
    BY <1>4 DEF gone

LEMMA Initial == Init => IInv
  <1> SUFFICES ASSUME Init PROVE IInv
    OBVIOUS
  <1>1. TypeOK
    <2>1. object \in [Targets -> ObjectRow] /\ world \in [Targets -> Statuses]
      BY DEF Init, ObjectRow, Statuses
    <2>2. pass \in [Callers -> PassState]
      BY DEF Init, IdlePass, PassState, Phases
    <2>3. entry \in [Sites -> Targets \cup {NoTarget}] /\ hours \in [Sites -> BOOLEAN]
      BY DEF Init
    <2>4. waiters \in Seq(Callers) /\ tasks \subseteq Task /\ queue \subseteq Targets
      BY DEF Init
    <2>5. aborts \in [Callers -> Nat] /\ stop \in BOOLEAN /\ ops \in Nat /\ shifts \in Nat
      BY DEF Init
    <2> QED
      BY <2>1, <2>2, <2>3, <2>4, <2>5 DEF TypeOK
  <1>2. LockInv /\ TaskInv /\ BatchInv /\ StopInv
    BY DEF Init, LockInv, TaskInv, BatchInv, StopInv, Working, IdlePass
  <1> QED
    BY <1>1, <1>2 DEF IInv

-----------------------------------------------------------------------------
(* The actions, by what they do to the lock, the passes and the tasks. *)

\* What no action of the administrator or the world touches.
Untouched ==
    /\ UNCHANGED <<waiters, tasks, aborts, stop>>
    /\ \A c \in Callers : pass'[c].phase = pass[c].phase

LEMMA Untouching ==
    ASSUME IInv, Untouched, TypeOK'
    PROVE  IInv'
  BY DEF IInv, TypeOK, Task, Callers, Untouched, LockInv, TaskInv, BatchInv, StopInv, Holds

LEMMA ToggledRow ==
    ASSUME NEW o \in ObjectRow
    PROVE  [o EXCEPT !.enabled = ~@] \in ObjectRow
  BY DEF ObjectRow

LEMMA Bystanders ==
    ASSUME IInv, AdminStep \/ (\E t \in Targets : WorldShift(t) \/ Elapse(t))
                           \/ (\E s \in Sites : HoursShift(s))
    PROVE  IInv'
  <1> USE DEF IInv, TypeOK
  <1>1. ASSUME NEW t \in Targets, DeleteObject(t) PROVE TypeOK' /\ Untouched
    <2>1. object' \in [Targets -> ObjectRow]
      BY <1>1 DEF DeleteObject, ObjectRow
    <2>2. entry' \in [Sites -> Targets \cup {NoTarget}]
      BY <1>1 DEF DeleteObject
    <2>3. pass' \in [Callers -> PassState] /\ \A c \in Callers : pass'[c].phase = pass[c].phase
      BY <1>1, WatchProperties DEF DeleteObject
    <2> QED
      BY <1>1, <2>1, <2>2, <2>3 DEF DeleteObject, Admin, Untouched
  <1>2. ASSUME NEW t \in Targets, ToggleObject(t) PROVE TypeOK' /\ Untouched
    <2>1. [object[t] EXCEPT !.enabled = ~@] \in ObjectRow
      BY ToggledRow
    <2>2. object' \in [Targets -> ObjectRow]
      BY <1>2, <2>1 DEF ToggleObject
    <2>3. pass' \in [Callers -> PassState] /\ \A c \in Callers : pass'[c].phase = pass[c].phase
      BY <1>2, WatchProperties DEF ToggleObject
    <2> QED
      BY <1>2, <2>2, <2>3 DEF ToggleObject, Admin, Untouched
  <1>3. ASSUME NEW t \in Targets, SetSiteEntry(t) PROVE TypeOK' /\ Untouched
    <2>1. entry' \in [Sites -> Targets \cup {NoTarget}]
      BY <1>3 DEF SetSiteEntry
    <2>2. pass' \in [Callers -> PassState] /\ \A c \in Callers : pass'[c].phase = pass[c].phase
      BY <1>3, WatchProperties DEF SetSiteEntry
    <2> QED
      BY <1>3, <2>1, <2>2 DEF SetSiteEntry, Admin, Untouched
  <1>4. ASSUME NEW t \in Targets, WorldShift(t) PROVE TypeOK' /\ Untouched
    BY <1>4 DEF WorldShift, Shift, Untouched
  <1>5. ASSUME NEW t \in Targets, Elapse(t) PROVE TypeOK' /\ Untouched
    BY <1>5 DEF Elapse, ObjectRow, budgets, Untouched
  <1>6. ASSUME NEW s \in Sites, HoursShift(s) PROVE TypeOK' /\ Untouched
    <2>1. pass' \in [Callers -> PassState] /\ \A c \in Callers : pass'[c].phase = pass[c].phase
      BY <1>6, WatchProperties DEF HoursShift
    <2> QED
      BY <1>6, <2>1 DEF HoursShift, Shift, Untouched
  <1> QED
    BY <1>1, <1>2, <1>3, <1>4, <1>5, <1>6, Untouching DEF AdminStep

\* Asking for the lock, and the end of the loop.
LEMMA Requests ==
    ASSUME IInv, Wake \/ LoopEnds \/ TriggerAll \/ Stop
                 \/ (\E q \in Singles : RequestSingle(q))
    PROVE  IInv'
  <1>1. ASSUME NEW c \in Callers, NEW rest \in SUBSET Targets, SetPass(c, "queued", rest),
               pass[c].phase = "idle", Enqueue(c), ~stop,
               UNCHANGED <<data, tasks, aborts, queue, stop, budgets>>
        PROVE  IInv'
    <2>1. /\ pass' \in [Callers -> PassState] /\ pass'[c].phase = "queued"
          /\ \A d \in Callers : d # c => pass'[d] = pass[d]
      BY <1>1, SetPassProperties DEF IInv, Phases
    <2>2. /\ waiters' \in Seq(Callers) /\ waiters' # <<>>
          /\ waiters # <<>> => Head(waiters') = Head(waiters)
      BY <1>1, EnqueueProperties DEF IInv, TypeOK, Enqueue
    <2>3. TypeOK' /\ StopInv'
      BY <1>1, <2>1, <2>2 DEF IInv, TypeOK, StopInv, data, budgets
    <2>4. LockInv'
      BY <2>1, <2>2 DEF IInv, LockInv, Holds, Working
    <2>5. TaskInv' /\ BatchInv'
      BY <1>1, <2>1 DEF IInv, TypeOK, Task, TaskInv, BatchInv
    <2> QED
      BY <2>3, <2>4, <2>5 DEF IInv
  <1>2. "scan" \in Callers /\ "manual" \in Callers /\ Singles \subseteq Callers
    BY DEF Callers, Passes
  <1>3. CASE Wake
    BY <1>1, <1>2, <1>3 DEF Wake
  <1>4. CASE LoopEnds
    <2>1. /\ pass' \in [Callers -> PassState] /\ pass'["scan"].phase = "stopped"
          /\ \A d \in Callers : d # "scan" => pass'[d] = pass[d]
      BY <1>2, <1>4, SetPassProperties DEF IInv, Phases, LoopEnds
    <2>2. TypeOK'
      BY <1>4, <2>1 DEF LoopEnds, IInv, TypeOK, data, budgets
    <2>3. LockInv' /\ StopInv'
      BY <1>2, <1>4, <2>1, CallersAssumption
         DEF LoopEnds, IInv, LockInv, StopInv, Holds, Working
    <2>4. TaskInv' /\ BatchInv'
      BY <1>4, <2>1 DEF LoopEnds, IInv, TypeOK, Task, TaskInv, BatchInv
    <2> QED
      BY <2>2, <2>3, <2>4 DEF IInv
  <1>5. CASE TriggerAll
    BY <1>1, <1>2, <1>5 DEF TriggerAll
  <1>6. CASE Stop
    BY <1>6 DEF Stop, IInv, TypeOK, LockInv, TaskInv, BatchInv, StopInv, Holds, data, budgets
  <1>7. ASSUME NEW q \in Singles, RequestSingle(q) PROVE IInv'
    <2>1. PICK t \in Targets : SetPass(q, "queued", {t})
      BY <1>7 DEF RequestSingle
    <2>2. {t} \in SUBSET Targets
      OBVIOUS
    <2> QED
      BY <1>1, <1>2, <1>7, <2>1, <2>2 DEF RequestSingle
  <1> QED
    BY <1>3, <1>4, <1>5, <1>6, <1>7

\* The holder of the lock ends its pass; it has no current task.
LEMMA Endings ==
    ASSUME IInv, NEW c \in Callers, Holds(c), Current(c) = {},
           EndPass(c), UNCHANGED <<tasks, aborts, stop, data>>,
           ops' \in Nat, shifts' \in Nat
    PROVE  IInv'
  <1>1. /\ pass' \in [Callers -> PassState] /\ pass'[c].phase = "idle"
        /\ \A d \in Callers : d # c => pass'[d] = pass[d]
    BY IdleProperties DEF EndPass, IInv
  <1>2. waiters' \in Seq(Callers)
    BY ReleaseProperties DEF EndPass, Release, Holds, IInv, TypeOK
  <1>3. TypeOK'
    BY <1>1, <1>2 DEF EndPass, FinishBatch, IInv, TypeOK, data
  <1>4. LockInv' /\ StopInv'
    BY <1>1, CallersAssumption DEF IInv, LockInv, StopInv, Holds, Working, Callers
  <1>5. TaskInv' /\ BatchInv'
    BY <1>1 DEF IInv, TypeOK, Task, TaskInv, BatchInv, Current
  <1> QED
    BY <1>3, <1>4, <1>5 DEF IInv

\* The holder of the lock starts checks of different objects.
LEMMA Starts ==
    ASSUME IInv, NEW c \in Callers, Holds(c), Current(c) = {},
           NEW targets \in SUBSET Targets, NEW first \in BOOLEAN,
           stop => c \notin Singles,
           tasks' = tasks \cup NewTasks(c, targets, first),
           pass' \in [Callers -> PassState], pass'[c].phase \in {"entries", "regular"},
           \A d \in Callers : d # c => pass'[d] = pass[d],
           queue' \subseteq Targets,
           UNCHANGED <<waiters, aborts, stop, data, budgets>>
    PROVE  IInv'
  <1> USE DEF IInv
  <1>1. TypeOK'
    BY DEF TypeOK, NewTasks, Task, data, budgets
  <1>2. LockInv' /\ StopInv'
    BY DEF TypeOK, LockInv, StopInv, Working, Holds, Callers
  <1>3. TaskInv'
    BY DEF TypeOK, TaskInv, NewTasks, Task
  <1>4. BatchInv'
    BY DEF TypeOK, BatchInv, NewTasks, Task, Current
  <1> QED
    BY <1>1, <1>2, <1>3, <1>4

\* The holder of the lock goes on to the gate, or through it.
LEMMA ToGate ==
    ASSUME IInv, NEW c \in Callers, Holds(c), Current(c) = {}, c \notin Singles,
           pass' \in [Callers -> PassState], pass'[c].phase \in {"gate", "gated"},
           \A d \in Callers : d # c => pass'[d] = pass[d],
           queue' \subseteq Targets,
           UNCHANGED <<waiters, tasks, aborts, stop, data, budgets>>
    PROVE  IInv'
  <1>1. TypeOK'
    BY DEF IInv, TypeOK, data, budgets
  <1>2. LockInv' /\ StopInv'
    BY DEF IInv, TypeOK, LockInv, StopInv, Holds, Callers
  <1>3. TaskInv' /\ BatchInv'
    BY DEF IInv, TypeOK, Task, TaskInv, BatchInv, Current
  <1> QED
    BY <1>1, <1>2, <1>3 DEF IInv

\* The holder of the lock has no current task unless it waits for its tasks.
LEMMA NothingCurrent ==
    ASSUME IInv, NEW c \in Callers, pass[c].phase \notin {"entries", "regular"}
    PROVE  Current(c) = {}
  BY DEF IInv, TypeOK, TaskInv, Task, Current

\* A pass takes the lock: what it loads, and what becomes of its state.
LEMMA LoadProperties ==
    ASSUME IInv, NEW c \in Passes, Load(c), NEW entries,
           entries = {t \in Loaded(c) : IsEntry(t)}
    PROVE  /\ Loaded(c) \subseteq Targets
           /\ tasks' = tasks \cup NewTasks(c, entries, TRUE)
           /\ pass' \in [Callers -> PassState]
           /\ pass'[c].phase = IF entries = {} THEN "gate" ELSE "entries"
           /\ pass'[c].rest = Loaded(c) \ entries /\ pass'[c].open = OpenSites
           /\ \A d \in Callers : d # c => pass'[d] = pass[d]
           /\ queue' = IF c = "scan" THEN Loaded(c) ELSE queue
  <1> DEFINE new == [phase |-> IF entries = {} THEN "gate" ELSE "entries",
                     rest |-> Loaded(c) \ entries, shut |-> {}, open |-> OpenSites]
  <1>1. Loaded(c) \subseteq Targets /\ OpenSites \subseteq Sites /\ c \in Callers
    BY DEF Loaded, DueTargets, ActiveTargets, OpenSites, Callers
  <1>2. new \in PassState
    BY <1>1 DEF PassState, Phases
  <1>3. /\ tasks' = tasks \cup NewTasks(c, entries, TRUE)
        /\ pass' = [pass EXCEPT ![c] = new]
        /\ queue' = IF c = "scan" THEN Loaded(c) ELSE queue
    BY DEF Load
  <1>4. pass \in [Callers -> PassState]
    BY DEF IInv, TypeOK
  <1>5. /\ new.phase = IF entries = {} THEN "gate" ELSE "entries"
        /\ new.rest = Loaded(c) \ entries /\ new.open = OpenSites
    OBVIOUS
  <1> HIDE DEF new
  <1> QED
    BY <1>1, <1>2, <1>3, <1>4, <1>5

LEMMA ReadGateProperties ==
    ASSUME IInv, NEW c \in Passes, ReadGate(c)
    PROVE  /\ pass' \in [Callers -> PassState] /\ pass'[c].phase = "gated"
           /\ pass'[c].rest = pass[c].rest /\ pass'[c].open = pass[c].open
           /\ pass'[c].shut = {t \in pass[c].rest : Blocked(SiteOf[t])}
           /\ \A d \in Callers : d # c => pass'[d] = pass[d]
  <1> DEFINE shut == {t \in pass[c].rest : Blocked(SiteOf[t])}
             new == [pass[c] EXCEPT !.phase = "gated", !.shut = shut]
  <1>1. c \in Callers /\ pass \in [Callers -> PassState] /\ pass[c] \in PassState
    BY DEF IInv, TypeOK, Callers
  <1>2. shut \in SUBSET Targets
    BY <1>1 DEF PassState
  <1>3. pass' = [pass EXCEPT ![c] = new]
    BY DEF ReadGate
  <1>4. /\ new \in PassState /\ new.phase = "gated" /\ new.shut = shut
        /\ new.rest = pass[c].rest /\ new.open = pass[c].open
    <2> HIDE DEF shut
    <2> QED
      BY <1>1, <1>2 DEF PassState, Phases
  <1> HIDE DEF new
  <1> QED
    BY <1>1, <1>3, <1>4

LEMMA PassSteps ==
    ASSUME IInv, NEW c \in Passes, PassStep(c) \/ LoadFails(c)
    PROVE  IInv'
  <1>1. c \in Callers /\ c \notin Singles
    BY CallersAssumption DEF Callers, Passes
  <1>2. pass[c].phase \in Working => Holds(c)
    BY <1>1 DEF IInv, LockInv
  <1>3. CASE Load(c)
    <2> DEFINE entries == {t \in Loaded(c) : IsEntry(t)}
    <2>1. /\ Loaded(c) \subseteq Targets
          /\ tasks' = tasks \cup NewTasks(c, entries, TRUE)
          /\ pass' \in [Callers -> PassState]
          /\ pass'[c].phase = IF entries = {} THEN "gate" ELSE "entries"
          /\ \A d \in Callers : d # c => pass'[d] = pass[d]
          /\ queue' = IF c = "scan" THEN Loaded(c) ELSE queue
      BY <1>3, LoadProperties
    <2>2. Holds(c) /\ Current(c) = {} /\ UNCHANGED <<data, waiters, aborts, stop, budgets>>
      BY <1>1, <1>3, NothingCurrent DEF Load
    <2>3. queue' \subseteq Targets /\ entries \in SUBSET Targets
      BY <2>1 DEF IInv, TypeOK
    <2>4. NewTasks(c, {}, TRUE) = {}
      BY DEF NewTasks
    <2> HIDE DEF entries
    <2>5. CASE entries # {}
      BY <1>1, <2>1, <2>2, <2>3, <2>5, Starts
    <2>6. CASE entries = {}
      BY <1>1, <2>1, <2>2, <2>3, <2>4, <2>6, ToGate
    <2> QED
      BY <2>5, <2>6
  <1>4. CASE LoadNothing(c)
    BY <1>1, <1>4, NothingCurrent, Endings DEF LoadNothing, budgets, IInv, TypeOK
  <1>5. CASE EntriesDone(c)
    <2>1. Holds(c) /\ Current(c) = {}
      BY <1>2, <1>5 DEF EntriesDone, Working
    <2>2. CASE pass[c].rest = {}
      BY <1>1, <1>5, <2>1, <2>2, Endings DEF EntriesDone, budgets, IInv, TypeOK
    <2>3. CASE pass[c].rest # {}
      <3>1. pass[c].rest \in SUBSET Targets
        BY <1>1 DEF IInv, TypeOK, PassState
      <3>2. /\ pass' \in [Callers -> PassState] /\ pass'[c].phase = "gate"
            /\ \A d \in Callers : d # c => pass'[d] = pass[d]
        BY <1>1, <1>5, <2>3, <3>1, SetPassProperties DEF EntriesDone, IInv, Phases
      <3> QED
        BY <1>1, <1>5, <2>1, <2>3, <3>2, ToGate DEF EntriesDone, IInv, TypeOK
    <2> QED
      BY <2>2, <2>3
  <1>6. CASE ReadGate(c)
    <2>1. Holds(c) /\ Current(c) = {}
      BY <1>1, <1>2, <1>6, NothingCurrent DEF ReadGate, Working
    <2>2. queue' \subseteq Targets
      BY <1>6 DEF ReadGate, IInv, TypeOK
    <2> QED
      BY <1>1, <1>6, <2>1, <2>2, ReadGateProperties, ToGate DEF ReadGate
  <1>9. CASE StartRegular(c)
    <2> DEFINE allowed == pass[c].rest \ pass[c].shut
    <2>1. allowed \in SUBSET Targets /\ {} \in SUBSET Targets
      BY <1>1 DEF IInv, TypeOK, PassState
    <2>2. Holds(c) /\ Current(c) = {}
      BY <1>1, <1>2, <1>9, NothingCurrent DEF StartRegular, Working
    <2>3. CASE allowed = {}
      <3>1. EndPass(c) /\ tasks' = tasks
        BY <1>9, <2>3 DEF StartRegular, NewTasks
      <3> QED
        BY <1>1, <1>9, <2>2, <3>1, Endings DEF StartRegular, budgets, IInv, TypeOK
    <2>4. CASE allowed # {}
      <3>1. SetPass(c, "regular", {}) /\ tasks' = tasks \cup NewTasks(c, allowed, FALSE)
        BY <1>9, <2>4 DEF StartRegular
      <3>2. queue' \subseteq Targets /\ UNCHANGED waiters
        BY <1>9, <2>4 DEF StartRegular, IInv, TypeOK
      <3>3. /\ pass' \in [Callers -> PassState] /\ pass'[c].phase = "regular"
            /\ \A d \in Callers : d # c => pass'[d] = pass[d]
        BY <1>1, <2>1, <3>1, SetPassProperties DEF IInv, Phases
      <3> HIDE DEF allowed
      <3> QED
        BY <1>1, <1>9, <2>1, <2>2, <3>1, <3>2, <3>3, Starts DEF StartRegular
    <2> QED
      BY <2>3, <2>4
  <1>7. CASE PassDone(c)
    BY <1>1, <1>2, <1>7, Endings DEF PassDone, Working, budgets, IInv, TypeOK
  <1>8. CASE LoadFails(c)
    <2>1. Holds(c) /\ Current(c) = {}
      BY <1>1, <1>2, <1>8, NothingCurrent DEF LoadFails
    <2>2. EndPass(c) /\ ops' \in Nat /\ shifts' \in Nat
      BY <1>8 DEF LoadFails, IInv, TypeOK
    <2> QED
      BY <1>1, <1>8, <2>1, <2>2, Endings DEF LoadFails
  <1> QED
    BY <1>3, <1>4, <1>5, <1>6, <1>7, <1>8, <1>9 DEF PassStep

LEMMA SingleSteps ==
    ASSUME IInv, NEW q \in Singles, SingleStep(q)
    PROVE  IInv'
  <1>1. q \in Callers
    BY DEF Callers
  <1>2. pass[q].phase \in Working => Holds(q)
    BY <1>1 DEF IInv, LockInv
  <1>3. CASE StartSingle(q)
    <2>1. Holds(q) /\ Current(q) = {} /\ ~stop
      BY <1>1, <1>3, NothingCurrent DEF StartSingle, IInv, TypeOK, StopInv
    <2>2. PICK t \in pass[q].rest :
             IF Monitored(t) /\ (IsEntry(t) \/ ~Blocked(SiteOf[t]))
             THEN /\ tasks' = tasks \cup NewTasks(q, {t}, FALSE)
                  /\ SetPass(q, "regular", {})
                  /\ UNCHANGED <<waiters, queue>>
             ELSE EndPass(q) /\ UNCHANGED tasks
      BY <1>3 DEF StartSingle
    <2>3. t \in Targets
      BY <1>1 DEF IInv, TypeOK, PassState
    <2>4. CASE Monitored(t) /\ (IsEntry(t) \/ ~Blocked(SiteOf[t]))
      <3>1. {t} \in SUBSET Targets /\ {} \in SUBSET Targets
        BY <2>3
      <3>2. tasks' = tasks \cup NewTasks(q, {t}, FALSE) /\ SetPass(q, "regular", {})
        BY <2>2, <2>4
      <3>4. /\ pass' \in [Callers -> PassState] /\ pass'[q].phase = "regular"
            /\ \A d \in Callers : d # q => pass'[d] = pass[d]
        BY <1>1, <3>1, <3>2, SetPassProperties DEF IInv, Phases
      <3>3. queue' \subseteq Targets /\ UNCHANGED waiters
        BY <2>2, <2>4 DEF IInv, TypeOK
      <3> QED
        BY <1>1, <1>3, <2>1, <3>1, <3>2, <3>3, <3>4, Starts DEF StartSingle
    <2>5. CASE ~(Monitored(t) /\ (IsEntry(t) \/ ~Blocked(SiteOf[t])))
      BY <1>1, <1>3, <2>1, <2>2, <2>5, Endings DEF StartSingle, budgets, IInv, TypeOK
    <2> QED
      BY <2>4, <2>5
  <1>4. CASE PassDone(q)
    BY <1>1, <1>2, <1>4, Endings DEF PassDone, Working, budgets, IInv, TypeOK
  <1> QED
    BY <1>3, <1>4 DEF SingleStep

LEMMA SavedRow ==
    ASSUME NEW o \in ObjectRow, NEW status \in Statuses
    PROVE  [[o EXCEPT !.latest = status] EXCEPT !.due = FALSE] \in ObjectRow
  BY DEF ObjectRow

LEMMA TaskSteps ==
    ASSUME IInv, NEW k \in tasks, TaskStep(k) \/ SaveFails(k)
    PROVE  IInv'
  <1>1. /\ k \in Task /\ k.caller \in Callers /\ k.target \in Targets
        /\ aborts[k.caller] \in Nat
    BY DEF IInv, TypeOK, Task
  <1>8. ASSUME NEW phase \in {"probe", "after"}, Replace(k, phase), TypeOK',
               UNCHANGED <<waiters, aborts, stop>>,
               \A c \in Callers : pass'[c].phase = pass[c].phase
        PROVE  IInv'
    <2> DEFINE new == [k EXCEPT !.phase = phase]
    <2>1. /\ new.caller = k.caller /\ new.batch = k.batch
          /\ new.target = k.target /\ k \in tasks
      BY <1>1 DEF Task
    <2>2. tasks' = (tasks \ {k}) \cup {new} /\ \A m \in tasks : m.caller \in Callers
      BY <1>8 DEF Replace, IInv, TypeOK, Task
    <2> HIDE DEF new
    <2>3. TaskInv'
      BY <1>1, <1>8, <2>1, <2>2 DEF IInv, TaskInv
    <2>4. BatchInv'
      BY <1>8, <2>1, <2>2 DEF IInv, BatchInv
    <2>5. LockInv' /\ StopInv'
      BY <1>8 DEF IInv, LockInv, StopInv, Holds, Callers
    <2> QED
      BY <1>8, <2>3, <2>4, <2>5 DEF IInv
  <1>9. ASSUME NEW phase \in {"probe", "after"}, Replace(k, phase) PROVE tasks' \subseteq Task
    <2>1. [k EXCEPT !.phase = phase] \in Task
      BY <1>1 DEF Task
    <2> QED
      BY <1>9, <2>1 DEF Replace, IInv, TypeOK
  <1>10. CASE StartProbe(k)
    <2>1. TypeOK'
      BY <1>9, <1>10 DEF StartProbe, IInv, TypeOK, data, budgets
    <2> QED
      BY <1>8, <1>10, <2>1 DEF StartProbe
  <1>2. CASE SaveResult(k)
    <2>1. object' \in [Targets -> ObjectRow]
      <3> DEFINE t == k.target
                 saved == [[object[t] EXCEPT !.latest = world[t]] EXCEPT !.due = FALSE]
      <3>1. object[t] \in ObjectRow /\ world[t] \in Statuses
        BY <1>1 DEF IInv, TypeOK
      <3>2. saved \in ObjectRow
        BY <3>1, SavedRow
      <3>3. object' = IF Active(t) THEN [object EXCEPT ![t] = saved] ELSE object
        BY <1>1, <1>2 DEF SaveResult, IInv, TypeOK
      <3> HIDE DEF saved
      <3> QED
        BY <1>1, <3>2, <3>3 DEF IInv, TypeOK
    <2>2. /\ pass' \in [Callers -> PassState]
          /\ \A c \in Callers : pass'[c].phase = pass[c].phase
      <3>1. TypeOK /\ Watch({k})
        BY <1>2 DEF SaveResult, IInv
      <3> QED
        BY <3>1, WatchProperties
    <2>3. TypeOK'
      BY <1>2, <1>9, <2>1, <2>2 DEF SaveResult, budgets, IInv, TypeOK
    <2> QED
      BY <1>2, <1>8, <2>2, <2>3 DEF SaveResult
  <1>3. ASSUME tasks' = tasks \ {k}, queue' = MarkComplete(k),
               UNCHANGED <<data, waiters, pass, aborts, stop>>,
               ops' \in Nat, shifts' \in Nat
        PROVE  IInv'
    <2>1. TypeOK'
      BY <1>3 DEF IInv, TypeOK, MarkComplete, data
    <2> QED
      BY <1>3, <2>1 DEF IInv, LockInv, TaskInv, BatchInv, StopInv, Holds
  <1>4. ASSUME Abort(k), UNCHANGED <<data, stop>>, ops' \in Nat, shifts' \in Nat
        PROVE  IInv'
    <2>1. CASE k \in Current(k.caller)
      <3> DEFINE c == k.caller
      <3>1. /\ tasks' = tasks \ {k} /\ aborts' = [aborts EXCEPT ![c] = @ + 1]
            /\ waiters' = Tail(waiters)
            /\ queue' = IF c = "scan" THEN {} ELSE queue
        BY <1>4, <2>1 DEF Abort, EndPass, Release, FinishBatch
      <3>8. /\ pass' \in [Callers -> PassState] /\ pass'[c].phase = "idle"
            /\ \A d \in Callers : d # c => pass'[d] = pass[d]
        BY <1>1, <1>4, <2>1, IdleProperties DEF Abort, EndPass, IInv
      <3>2. Holds(c)
        BY <1>1, <2>1 DEF Current, IInv, TaskInv, LockInv, Working
      <3>3. TypeOK'
        <4>1. waiters' \in Seq(Callers)
          BY <3>1, <3>2, ReleaseProperties DEF IInv, TypeOK, Holds
        <4>2. aborts' \in [Callers -> Nat]
          BY <1>1, <3>1 DEF IInv, TypeOK
        <4> QED
          BY <1>4, <3>1, <3>8, <4>1, <4>2 DEF IInv, TypeOK, data
      <3>4. LockInv'
        BY <1>1, <3>1, <3>2, <3>8 DEF IInv, TypeOK, LockInv, Working, Holds
      <3>5. TaskInv'
        BY <1>1, <3>1, <3>8 DEF IInv, TypeOK, TaskInv, Task
      <3>6. BatchInv'
        BY <1>1, <3>1 DEF IInv, TypeOK, TaskInv, BatchInv, Task
      <3>7. StopInv'
        BY <1>1, <1>4, <3>1, <3>8 DEF IInv, TypeOK, StopInv, Callers
      <3> QED
        BY <3>3, <3>4, <3>5, <3>6, <3>7 DEF IInv
    <2>2. CASE k \notin Current(k.caller)
      BY <1>3, <1>4, <2>2 DEF Abort
    <2> QED
      BY <2>1, <2>2
  <1>5. CASE FinishTask(k)
    BY <1>3, <1>5 DEF FinishTask, budgets, IInv, TypeOK
  <1>6. CASE LoseTask(k)
    BY <1>4, <1>6 DEF LoseTask, budgets, IInv, TypeOK
  <1>7. CASE SaveFails(k)
    BY <1>4, <1>7 DEF SaveFails, IInv, TypeOK
  <1> QED
    BY <1>2, <1>5, <1>6, <1>7, <1>10 DEF TaskStep

-----------------------------------------------------------------------------
(* The theorems. *)

LEMMA Invariance == Spec => []IInv
  <1>1. IInv /\ [Next]_vars => IInv'
    <2> SUFFICES ASSUME IInv, [Next]_vars PROVE IInv'
      OBVIOUS
    <2>1. CASE Next
      BY <2>1, Bystanders, Requests, PassSteps, SingleSteps, TaskSteps
      DEF Next, WorldStep
    <2>2. CASE UNCHANGED vars
      <3>1. TypeOK' /\ Untouched
        BY <2>2 DEF vars, data, budgets, IInv, TypeOK, Untouched
      <3> QED
        BY <3>1, Untouching
    <2> QED
      BY <2>1, <2>2
  <1> QED
    BY Initial, <1>1, PTL DEF Spec

\* Every variable of the scheduler keeps its type: in particular the lock is
\* released only by its holder, and never when nobody holds it.
THEOREM SchedulerTypeCorrect == Spec => []TypeOK
  <1>1. IInv => TypeOK
    BY DEF IInv
  <1> QED
    BY <1>1, Invariance, PTL

\* For any number of objects, sites and requests, a check in flight outside the
\* lock is an orphan of a pass that ended by an exception.
THEOREM OrphansOnly == Spec => []OnlyOrphansOverlap
  <1>1. IInv => OnlyOrphansOverlap
    BY DEF IInv, TypeOK, TaskInv, LockInv, Working, Task, OnlyOrphansOverlap, Orphans
  <1> QED
    BY <1>1, Invariance, PTL

\* No object has two checks in flight unless one of them is an orphan.
THEOREM NoDoubleProbe == Spec => []OneProbePerObject
  <1>1. IInv => OneProbePerObject
    <2> SUFFICES ASSUME IInv, NEW k \in tasks, NEW m \in tasks,
                        k.target = m.target, k # m,
                        k \notin Orphans, m \notin Orphans
                 PROVE  FALSE
      BY DEF OneProbePerObject
    <2>1. /\ k.caller \in Callers /\ m.caller \in Callers
          /\ k.batch = aborts[k.caller] /\ m.batch = aborts[m.caller]
      BY DEF IInv, TypeOK, Task, Orphans
    <2>2. Holds(k.caller) /\ Holds(m.caller)
      BY <2>1 DEF IInv, TaskInv, LockInv, Working
    <2>3. k.caller = m.caller
      BY <2>2 DEF Holds
    <2> QED
      BY <2>1, <2>3 DEF IInv, BatchInv
  <1> QED
    BY <1>1, Invariance, PTL

\* After stop() has returned only orphans can still save a result.
THEOREM ShutdownDrains == Spec => []StopDrains
  <1>1. IInv => StopDrains
    <2> SUFFICES ASSUME IInv, stop, pass["scan"].phase = "stopped",
                        pass["manual"].phase = "idle", NEW k \in tasks
                 PROVE  k \in Orphans
      BY DEF StopDrains
    <2>1. k.caller \in Callers
      BY DEF IInv, TypeOK, Task
    <2>2. pass[k.caller].phase \notin {"entries", "regular"}
      BY <2>1 DEF IInv, StopInv, Callers, Passes
    <2> QED
      BY <2>1, <2>2 DEF IInv, TaskInv, Orphans
  <1> QED
    BY <1>1, Invariance, PTL
-----------------------------------------------------------------------------
(* The queue of Portal Health.  It is inductive only with Apart: a finished *)
(* check must not take an object that waits for the gate out of the queue.  *)
(* Every other caller works while the scan does not, when the queue is empty.*)

Unaborted == \A c \in Callers : aborts[c] = 0
ScanTargets == {k.target : k \in Current("scan")}
Waiting == IF pass["scan"].phase \in {"entries", "gate", "gated"} THEN pass["scan"].rest ELSE {}

\* No object that waits for the gate has a check of this scan in flight.
Apart == \A k \in Current("scan") : k.target \notin Waiting

QInv == (Unaborted => queue = ScanTargets \cup Waiting) /\ Apart

LEMMA ScanCalls == "scan" \in Callers /\ "manual" \in Callers /\ "scan" # "manual"
  BY DEF Callers, Passes

\* What is not a step of the scan leaves its tasks, its state and the queue.
LEMMA ForeignKeeps ==
    ASSUME QInv, UNCHANGED aborts, pass'["scan"].phase = pass["scan"].phase,
           pass'["scan"].rest = pass["scan"].rest,
           Current("scan")' = Current("scan"), Unaborted => queue' = queue
    PROVE  QInv'
  <1>1. ScanTargets' = ScanTargets /\ Waiting' = Waiting
    BY DEF ScanTargets, Waiting
  <1>2. Unaborted' = Unaborted
    BY DEF Unaborted
  <1> QED
    BY <1>1, <1>2 DEF QInv, Apart

\* While another caller works, the scan does not: the queue is empty.
LEMMA QuietQueue ==
    ASSUME IInv, QInv, NEW c \in Callers, c # "scan", Holds(c), Unaborted
    PROVE  queue = {}
  <1>1. pass["scan"].phase \notin Working
    BY ScanCalls DEF IInv, LockInv, Holds
  <1>2. Current("scan") = {}
    BY <1>1, ScanCalls, NothingCurrent DEF Working
  <1> QED
    BY <1>1, <1>2 DEF QInv, ScanTargets, Waiting, Working

\* The scan ends its pass.
LEMMA ScanEnds ==
    ASSUME IInv, EndPass("scan"), UNCHANGED <<tasks, aborts>>, Current("scan") = {}
    PROVE  QInv'
  <1>1. Current("scan")' = {}
    BY DEF Current
  <1>2. queue' = {} /\ pass'["scan"].phase = "idle"
    BY ScanCalls, IdleProperties DEF EndPass, FinishBatch, IInv
  <1> QED
    BY <1>1, <1>2 DEF QInv, ScanTargets, Waiting, Apart

\* The scan starts checks: of the entries before the gate, of the rest after it.
LEMMA ScanStarts ==
    ASSUME IInv, Current("scan") = {}, UNCHANGED aborts,
           NEW targets, NEW rest, NEW first,
           tasks' = tasks \cup NewTasks("scan", targets, first),
           pass'["scan"].rest = rest,
           pass'["scan"].phase \in {"entries", "gate", "gated"} \/ rest = {},
           targets \cap rest = {}, Unaborted => queue' = targets \cup rest
    PROVE  QInv'
  <1>1. Current("scan")' = NewTasks("scan", targets, first)
    <2> DEFINE new == NewTasks("scan", targets, first)
    <2>1. \A k \in new : k.caller = "scan" /\ k.batch = aborts["scan"]
      BY DEF NewTasks
    <2>2. \A k \in tasks : ~(k.caller = "scan" /\ k.batch = aborts["scan"])
      BY DEF Current
    <2>3. tasks' = tasks \cup new
      OBVIOUS
    <2> HIDE DEF new
    <2>4. Current("scan")' = new
      BY <2>1, <2>2, <2>3 DEF Current
    <2> QED
      BY <2>4 DEF new
  <1>2. ScanTargets' = targets
    <2>1. ScanTargets' = {k.target : k \in NewTasks("scan", targets, first)}
      BY <1>1 DEF ScanTargets
    <2> DEFINE check(t) == [caller |-> "scan", batch |-> aborts["scan"],
                            target |-> t, first |-> first, phase |-> "waiting"]
    <2>2. \A t : check(t).target = t
      OBVIOUS
    <2>3. NewTasks("scan", targets, first) = {check(t) : t \in targets}
      BY DEF NewTasks
    <2> HIDE DEF check
    <2>4. {k.target : k \in {check(t) : t \in targets}} = targets
      BY <2>2
    <2> QED
      BY <2>1, <2>3, <2>4
  <1>3. Waiting' = rest
    BY DEF Waiting
  <1>4. Apart'
    BY <1>1, <1>3 DEF Apart, NewTasks
  <1>5. Unaborted' = Unaborted
    BY DEF Unaborted
  <1> QED
    BY <1>2, <1>3, <1>4, <1>5 DEF QInv
\* Steps of the administrator, the world and the clock touch none of it.
LEMMA QueueUntouched ==
    ASSUME IInv, QInv, UNCHANGED <<tasks, aborts, queue>>,
           pass'["scan"].phase = pass["scan"].phase, pass'["scan"].rest = pass["scan"].rest
    PROVE  QInv'
  BY ForeignKeeps DEF Current

LEMMA QueueBystanders ==
    ASSUME IInv, QInv, AdminStep \/ (\E t \in Targets : WorldShift(t) \/ Elapse(t))
                             \/ (\E s \in Sites : HoursShift(s)) \/ Stop
    PROVE  QInv'
  <1>1. UNCHANGED <<tasks, aborts, queue>> /\ (UNCHANGED pass \/ Watch({}))
    BY DEF AdminStep, DeleteObject, ToggleObject, SetSiteEntry, WorldShift, Elapse,
           HoursShift, Stop
  <1>2. pass'["scan"].phase = pass["scan"].phase /\ pass'["scan"].rest = pass["scan"].rest
    BY <1>1, ScanCalls, WatchProperties DEF IInv
  <1> QED
    BY <1>1, <1>2, QueueUntouched

\* A request for the lock.
LEMMA QueueRequests ==
    ASSUME IInv, QInv, Wake \/ LoopEnds \/ TriggerAll
                       \/ (\E q \in Singles : RequestSingle(q))
    PROVE  QInv'
  <1>1. UNCHANGED <<tasks, aborts, queue>> /\ Current("scan")' = Current("scan")
    BY DEF Wake, LoopEnds, TriggerAll, RequestSingle, Current
  <1>2. CASE Wake \/ LoopEnds
    <2>1. pass["scan"].phase = "idle" /\ pass'["scan"].phase \in {"queued", "stopped"}
      BY <1>2, ScanCalls, SetPassProperties DEF Wake, LoopEnds, IInv, Phases
    <2>2. Waiting = {} /\ Waiting' = {}
      BY <2>1 DEF Waiting
    <2>3. ScanTargets' = ScanTargets /\ Unaborted' = Unaborted
      BY <1>1 DEF ScanTargets, Unaborted
    <2> QED
      BY <1>1, <2>2, <2>3 DEF QInv, Apart
  <1>3. CASE TriggerAll \/ (\E q \in Singles : RequestSingle(q))
    <2>1. pass'["scan"] = pass["scan"]
      BY <1>3, ScanCalls, CallersAssumption
      DEF TriggerAll, RequestSingle, SetPass, IInv, TypeOK
    <2> QED
      BY <1>1, <2>1, ForeignKeeps
  <1> QED
    BY <1>2, <1>3
\* A pass of the scan: what it loads is checked, waits for the gate, or is
\* blocked by it and leaves the queue with it.
LEMMA QueueScan ==
    ASSUME IInv, QInv, PassStep("scan") \/ LoadFails("scan")
    PROVE  QInv'
  <1>1. CASE Load("scan")
    <2> DEFINE entries == {t \in DueTargets : IsEntry(t)}
               rest == DueTargets \ entries
    <2>1. Current("scan") = {} /\ UNCHANGED aborts
      BY <1>1, ScanCalls, NothingCurrent DEF Load
    <2>2. /\ queue' = DueTargets /\ tasks' = tasks \cup NewTasks("scan", entries, TRUE)
          /\ pass'["scan"].phase \in {"entries", "gate"} /\ pass'["scan"].rest = rest
      BY <1>1, LoadProperties DEF Loaded, Passes
    <2>3. entries \cap rest = {} /\ entries \cup rest = DueTargets
      OBVIOUS
    <2> HIDE DEF entries, rest
    <2> QED
      BY <2>1, <2>2, <2>3, ScanStarts
  <1>2. CASE LoadNothing("scan") \/ LoadFails("scan")
    <2>1. Current("scan") = {}
      BY <1>2, ScanCalls, NothingCurrent DEF LoadNothing, LoadFails
    <2>2. EndPass("scan") /\ UNCHANGED <<tasks, aborts>>
      BY <1>2 DEF LoadNothing, LoadFails
    <2> QED
      BY <2>1, <2>2, ScanEnds
  <1>3. CASE EntriesDone("scan")
    <2>1. CASE pass["scan"].rest = {}
      BY <1>3, <2>1, ScanEnds DEF EntriesDone
    <2>2. CASE pass["scan"].rest # {}
      <3> DEFINE rest == pass["scan"].rest
      <3>1. SetPass("scan", "gate", rest) /\ UNCHANGED <<tasks, aborts, queue>>
            /\ Current("scan") = {}
        BY <1>3, <2>2 DEF EntriesDone
      <3>5. pass'["scan"].phase = "gate" /\ pass'["scan"].rest = rest
        <4>1. rest \in SUBSET Targets
          BY ScanCalls DEF IInv, TypeOK, PassState
        <4> QED
          BY <3>1, <4>1, ScanCalls, SetPassProperties DEF IInv, Phases
      <3>2. Waiting = rest /\ ScanTargets = {}
        BY <1>3 DEF EntriesDone, Waiting, ScanTargets
      <3>3. tasks' = tasks \cup NewTasks("scan", {}, FALSE)
        BY <3>1 DEF NewTasks
      <3>4. Unaborted => queue' = {} \cup rest
        BY <3>1, <3>2 DEF QInv
      <3> HIDE DEF rest
      <3> QED
        BY <3>1, <3>3, <3>4, <3>5, ScanStarts
    <2> QED
      BY <2>1, <2>2
  <1>6. CASE ReadGate("scan")
    <2>1. pass["scan"].phase = "gate" /\ pass'["scan"].phase = "gated"
          /\ pass'["scan"].rest = pass["scan"].rest
      BY <1>6, ReadGateProperties DEF ReadGate, Passes
    <2>2. Waiting' = Waiting
      BY <2>1 DEF Waiting
    <2>3. UNCHANGED <<tasks, aborts, queue>> /\ Current("scan")' = Current("scan")
      BY <1>6 DEF ReadGate, Current
    <2>4. ScanTargets' = ScanTargets /\ Unaborted' = Unaborted
      BY <2>3 DEF ScanTargets, Unaborted
    <2> QED
      BY <2>2, <2>3, <2>4 DEF QInv, Apart
  <1>4. CASE StartRegular("scan")
    <2> DEFINE allowed == pass["scan"].rest \ pass["scan"].shut
    <2>1. Current("scan") = {} /\ UNCHANGED aborts
      BY <1>4, ScanCalls, NothingCurrent DEF StartRegular
    <2>2. CASE allowed = {}
      <3>1. EndPass("scan") /\ tasks' = tasks
        BY <1>4, <2>2 DEF StartRegular, NewTasks
      <3> QED
        BY <2>1, <3>1, ScanEnds
    <2>3. CASE allowed # {}
      <3>1. /\ SetPass("scan", "regular", {})
            /\ tasks' = tasks \cup NewTasks("scan", allowed, FALSE)
            /\ queue' = queue \ pass["scan"].shut
        BY <1>4, <2>3 DEF StartRegular
      <3>2. Waiting = pass["scan"].rest /\ ScanTargets = {}
        BY <1>4, <2>1 DEF StartRegular, Waiting, ScanTargets
      <3>3. Unaborted => queue' = allowed \cup {}
        BY <3>1, <3>2 DEF QInv
      <3>4. pass'["scan"].rest = {}
        BY <3>1, ScanCalls, SetPassProperties DEF IInv, Phases
      <3> HIDE DEF allowed
      <3> QED
        BY <2>1, <3>1, <3>3, <3>4, ScanStarts
    <2> QED
      BY <2>2, <2>3
  <1>5. CASE PassDone("scan")
    BY <1>5, ScanEnds DEF PassDone
  <1> QED
    BY <1>1, <1>2, <1>3, <1>4, <1>5, <1>6 DEF PassStep

\* New checks of another caller are not checks of the scan.
LEMMA ForeignTasks ==
    ASSUME NEW c, c # "scan", NEW targets, NEW first, UNCHANGED aborts,
           tasks' = tasks \cup NewTasks(c, targets, first)
    PROVE  Current("scan")' = Current("scan")
  <1>1. \A k \in NewTasks(c, targets, first) : k.caller # "scan"
    BY DEF NewTasks
  <1> QED
    BY <1>1 DEF Current

\* Another caller ends its pass, or goes on with it.
LEMMA ForeignPass ==
    ASSUME IInv, QInv, NEW c \in Callers, c # "scan",
           \/ EndPass(c)
           \/ (\E new : pass' = [pass EXCEPT ![c] = new]) /\ (Unaborted => queue' = queue),
           UNCHANGED aborts, Current("scan")' = Current("scan")
    PROVE  QInv'
  <1>1. pass'["scan"] = pass["scan"] /\ (Unaborted => queue' = queue)
    BY ScanCalls DEF EndPass, FinishBatch, IInv, TypeOK
  <1> QED
    BY <1>1, ForeignKeeps

LEMMA QueueManual ==
    ASSUME IInv, QInv, PassStep("manual") \/ LoadFails("manual")
    PROVE  QInv'
  <1> DEFINE c == "manual"
  <1>1. c \in Callers /\ c # "scan" /\ UNCHANGED aborts
    BY ScanCalls DEF PassStep, Load, LoadNothing, EntriesDone, ReadGate,
           StartRegular, PassDone, LoadFails
  <1>2. Current("scan")' = Current("scan")
    <2>1. \/ tasks' = tasks
          \/ \E targets, first : tasks' = tasks \cup NewTasks(c, targets, first)
      BY DEF PassStep, Load, LoadNothing, EntriesDone, ReadGate,
           StartRegular, PassDone, LoadFails
    <2> QED
      BY <1>1, <2>1, ForeignTasks DEF Current
  <1>3. CASE Load(c)
    BY <1>1, <1>2, <1>3, ForeignPass DEF Load
  <1>4. CASE LoadNothing(c) \/ LoadFails(c) \/ PassDone(c)
    BY <1>1, <1>2, <1>4, ForeignPass DEF LoadNothing, LoadFails, PassDone
  <1>5. CASE EntriesDone(c)
    BY <1>1, <1>2, <1>5, ForeignPass DEF EntriesDone, SetPass
  <1>6. CASE ReadGate(c)
    BY <1>1, <1>2, <1>6, ForeignPass DEF ReadGate
  <1>7. CASE StartRegular(c)
    <2>1. Unaborted => queue = {}
      BY <1>1, <1>7, QuietQueue DEF StartRegular, IInv, LockInv, Working
    <2> QED
      BY <1>1, <1>2, <1>7, <2>1, ForeignPass DEF StartRegular, SetPass
  <1> QED
    BY <1>3, <1>4, <1>5, <1>6, <1>7 DEF PassStep

LEMMA QueueSingle ==
    ASSUME IInv, QInv, NEW q \in Singles, SingleStep(q)
    PROVE  QInv'
  <1>1. q \in Callers /\ q # "scan" /\ UNCHANGED aborts
    BY CallersAssumption DEF Callers, SingleStep, StartSingle, PassDone
  <1>2. Current("scan")' = Current("scan")
    <2>1. \/ tasks' = tasks
          \/ \E targets, first : tasks' = tasks \cup NewTasks(q, targets, first)
      BY DEF SingleStep, StartSingle, PassDone
    <2> QED
      BY <1>1, <2>1, ForeignTasks DEF Current
  <1>3. \/ EndPass(q)
        \/ (\E new : pass' = [pass EXCEPT ![q] = new]) /\ (Unaborted => queue' = queue)
    BY DEF SingleStep, StartSingle, PassDone, SetPass
  <1> QED
    BY <1>1, <1>2, <1>3, ForeignPass
\* A task moves on, ends, or takes its pass with it.
LEMMA QueueTasks ==
    ASSUME IInv, QInv, NEW k \in tasks, TaskStep(k) \/ SaveFails(k)
    PROVE  QInv'
  <1>1. /\ k \in Task /\ k.caller \in Callers /\ k.batch \in Nat
        /\ aborts[k.caller] \in Nat /\ k.batch <= aborts[k.caller]
    BY DEF IInv, TypeOK, Task, TaskInv
  <1>2. Unaborted => k \in Current(k.caller)
    BY <1>1 DEF Unaborted, Current
  <1>3. ASSUME NEW phase, Replace(k, phase), UNCHANGED <<aborts, queue>>,
               UNCHANGED pass \/ Watch({k})
        PROVE  QInv'
    <2> DEFINE after == [k EXCEPT !.phase = phase]
    <2>1. /\ after.caller = k.caller /\ after.batch = k.batch
          /\ after.target = k.target
      BY <1>1 DEF Task
    <2>2. /\ tasks' = (tasks \ {k}) \cup {after}
          /\ pass'["scan"].phase = pass["scan"].phase /\ pass'["scan"].rest = pass["scan"].rest
      BY <1>3, ScanCalls, WatchProperties DEF Replace, IInv
    <2> HIDE DEF after
    <2>3. CASE k \in Current("scan")
      <3>1. Current("scan")' = (Current("scan") \ {k}) \cup {after}
        BY <1>3, <2>1, <2>2, <2>3 DEF Current
      <3>2. ScanTargets' = ScanTargets /\ Waiting' = Waiting /\ Unaborted' = Unaborted
        BY <1>3, <2>1, <2>2, <2>3, <3>1 DEF ScanTargets, Waiting, Unaborted
      <3> QED
        BY <1>3, <2>1, <2>2, <2>3, <3>1, <3>2 DEF QInv, Apart
    <2>4. CASE k \notin Current("scan")
      <3>1. Current("scan")' = Current("scan")
        BY <1>3, <2>1, <2>2, <2>4 DEF Current
      <3> QED
        BY <1>3, <2>2, <3>1, ForeignKeeps
    <2> QED
      BY <2>3, <2>4
  <1>4. ASSUME tasks' = tasks \ {k}, queue' = MarkComplete(k), UNCHANGED <<pass, aborts>>
        PROVE  QInv'
    <2>1. CASE k \in Current("scan")
      <3>1. Current("scan")' = Current("scan") \ {k}
        BY <1>4, <2>1 DEF Current
      <3>2. queue' = queue \ {k.target}
        BY <1>4, <2>1 DEF MarkComplete, Current, Passes
      <3>3. \A m \in Current("scan") : m.target = k.target => m = k
        BY <2>1 DEF IInv, BatchInv, Current
      <3>4. ScanTargets' = ScanTargets \ {k.target}
        BY <2>1, <3>1, <3>3 DEF ScanTargets
      <3>5. Waiting' = Waiting /\ Unaborted' = Unaborted /\ k.target \notin Waiting
        BY <1>4, <2>1 DEF Waiting, Unaborted, QInv, Apart
      <3> QED
        BY <3>1, <3>2, <3>4, <3>5 DEF QInv, Apart
    <2>2. CASE k \notin Current("scan")
      <3>1. Current("scan")' = Current("scan")
        BY <1>4, <2>2 DEF Current
      <3>2. Unaborted => Holds(k.caller) /\ k.caller # "scan"
        BY <1>1, <1>2, <2>2 DEF IInv, LockInv, TaskInv, Working, Current
      <3>3. Unaborted => queue' = queue
        BY <1>1, <1>4, <3>2, QuietQueue DEF MarkComplete
      <3> QED
        BY <1>4, <3>1, <3>3, ForeignKeeps
    <2> QED
      BY <2>1, <2>2
  <1>5. ASSUME Abort(k) PROVE QInv'
    <2>1. CASE k \in Current(k.caller)
      <3>1. /\ tasks' = tasks \ {k} /\ aborts' = [aborts EXCEPT ![k.caller] = @ + 1]
            /\ EndPass(k.caller)
        BY <1>5, <2>1 DEF Abort
      <3>2. ~Unaborted'
        BY <1>1, <3>1 DEF Unaborted, IInv, TypeOK
      <3>3. CASE k.caller = "scan"
        <4>1. Current("scan")' = {}
          BY <1>1, <3>1, <3>3 DEF Current, IInv, TypeOK, TaskInv, Task
        <4> QED
          BY <3>2, <4>1 DEF QInv, Apart
      <3>4. CASE k.caller # "scan"
        <4>1. Current("scan")' = Current("scan")
          BY <1>1, <3>1, <3>4, ScanCalls DEF Current, IInv, TypeOK
        <4>2. Waiting' = Waiting
          BY <1>1, <3>1, <3>4, ScanCalls, IdleProperties DEF EndPass, Waiting, IInv
        <4> QED
          BY <3>2, <4>1, <4>2 DEF QInv, Apart
      <3> QED
        BY <3>3, <3>4
    <2>2. CASE k \notin Current(k.caller)
      BY <1>4, <1>5, <2>2 DEF Abort
    <2> QED
      BY <2>1, <2>2
  <1>6. CASE FinishTask(k)
    BY <1>4, <1>6 DEF FinishTask
  <1>7. CASE LoseTask(k) \/ SaveFails(k)
    BY <1>5, <1>7 DEF LoseTask, SaveFails
  <1>8. CASE StartProbe(k) \/ SaveResult(k)
    BY <1>3, <1>8 DEF StartProbe, SaveResult
  <1> QED
    BY <1>6, <1>7, <1>8 DEF TaskStep

\* While no pass has ended by an exception, the queue of Portal Health is
\* exactly the checks of the scan in flight and the objects at the gate, for
\* any number of objects, sites and requests and however manual checks of the
\* same objects come between.
THEOREM QueueIsTrue == Spec => []QueueIsOutstandingWork
  <1>1. Init => QInv
    BY ScanCalls DEF Init, QInv, Apart, ScanTargets, Waiting, Current, IdlePass
  <1>2. IInv /\ QInv /\ [Next]_vars => QInv'
    <2> SUFFICES ASSUME IInv, QInv, [Next]_vars PROVE QInv'
      OBVIOUS
    <2>1. CASE Next
      <3>1. ASSUME NEW c \in Passes, PassStep(c) \/ LoadFails(c) PROVE QInv'
        BY <3>1, QueueScan, QueueManual DEF Passes
      <3> QED
        BY <2>1, <3>1, QueueBystanders, QueueRequests, QueueSingle, QueueTasks
        DEF Next, WorldStep
    <2>2. CASE UNCHANGED vars
      BY <2>2, QueueUntouched DEF vars
    <2> QED
      BY <2>1, <2>2
  <1>3. QInv => QueueIsOutstandingWork
    BY DEF QInv, Unaborted, ScanTargets, Waiting, QueueIsOutstandingWork
  <1> QED
    BY <1>1, <1>2, <1>3, Invariance, PTL DEF Spec

-----------------------------------------------------------------------------
(* The gate.  What a pass has read in the thread may be out of date when it *)
(* uses it; the history keeps what was true at some moment of the pass.     *)

\* The sites that are open now are known to a pass that works.
Known(c) == pass[c].phase \in Working => OpenSites \subseteq pass[c].open

\* The answer of the gate was true at a moment of the pass.
Answered(c) ==
    pass[c].phase = "gated" =>
        \A t \in pass[c].rest \ pass[c].shut : SiteOf[t] \in pass[c].open

\* Entries are checked before the gate, siblings after it and only as it answered.
InTurn(c) ==
    \A k \in Current(c) :
        IF k.first THEN pass[c].phase = "entries"
        ELSE pass[c].phase = "regular" /\ SiteOf[k.target] \in pass[c].open

GInv == \A c \in Passes : Known(c) /\ Answered(c) /\ InTurn(c)

LEMMA PassesCall == \A c \in Passes : c \in Callers /\ c \notin Singles
  BY CallersAssumption DEF Callers, Passes

LEMMA GateUntouched ==
    ASSUME NEW c \in Passes, Known(c), Answered(c), InTurn(c),
           pass'[c] = pass[c], OpenSites' = OpenSites,
           \A m \in Current(c)' :
               \E k \in Current(c) : m.first = k.first /\ m.target = k.target
    PROVE  Known(c)' /\ Answered(c)' /\ InTurn(c)'
  <1>1. Known(c)' /\ Answered(c)'
    BY DEF Known, Answered
  <1>2. InTurn(c)'
    BY DEF InTurn
  <1> QED
    BY <1>1, <1>2

\* A pass that does not work has no checks, and nothing to hold.
LEMMA GateIdle ==
    ASSUME NEW c \in Passes, Current(c)' = {}, pass'[c].phase \notin Working
    PROVE  Known(c)' /\ Answered(c)' /\ InTurn(c)'
  BY DEF Known, Answered, InTurn, Working

\* A save, a page or the hours: what opens is noted, and only a result of an
\* entry of this pass takes its site out again, before any sibling starts.
LEMMA GateWatched ==
    ASSUME IInv, NEW c \in Passes, Known(c), Answered(c), InTurn(c),
           NEW saved, Watch(saved),
           \A m \in Current(c)' :
               \E k \in Current(c) : m.first = k.first /\ m.target = k.target
    PROVE  Known(c)' /\ Answered(c)' /\ InTurn(c)'
  <1> DEFINE gone == {SiteOf[k.target] : k \in {k \in saved \cap Current(c) : k.first}}
  <1>1. /\ pass'[c].phase = pass[c].phase /\ pass'[c].rest = pass[c].rest
        /\ pass'[c].shut = pass[c].shut
        /\ pass[c].phase \in Working =>
             pass'[c].open = (pass[c].open \ gone) \cup OpenSites'
    BY WatchProperties, PassesCall DEF IInv
  <1>2. pass[c].phase # "entries" => gone = {}
    BY DEF InTurn
  <1> HIDE DEF gone
  <1>3. Known(c)' /\ Answered(c)'
    BY <1>1, <1>2 DEF Known, Answered, Working
  <1>4. InTurn(c)'
    BY <1>1, <1>2 DEF InTurn, Working
  <1> QED
    BY <1>3, <1>4

\* The pass ends, with its checks done or turned into orphans.
LEMMA GateEnds ==
    ASSUME IInv, NEW c \in Passes, EndPass(c), Current(c)' = {}
    PROVE  Known(c)' /\ Answered(c)' /\ InTurn(c)'
  <1>1. pass'[c].phase = "idle"
    BY IdleProperties, PassesCall DEF EndPass, IInv
  <1> QED
    BY <1>1, GateIdle DEF Working

LEMMA SameSites == UNCHANGED data => OpenSites' = OpenSites
  BY DEF data, OpenSites, Blocked

LEMMA GateOwn ==
    ASSUME IInv, GInv, NEW c \in Passes, PassStep(c) \/ LoadFails(c)
    PROVE  Known(c)' /\ Answered(c)' /\ InTurn(c)'
  <1>1. c \in Callers /\ Known(c) /\ Answered(c) /\ InTurn(c)
    BY PassesCall DEF GInv
  <1>2. UNCHANGED <<data, aborts>> /\ OpenSites' = OpenSites
    BY SameSites DEF PassStep, LoadFails, Load, LoadNothing, EntriesDone, ReadGate,
                     StartRegular, PassDone
  <1>3. pass[c].phase \notin {"entries", "regular"} => Current(c) = {}
    BY <1>1, NothingCurrent
  <1>4. CASE Load(c)
    <2> DEFINE entries == {t \in Loaded(c) : IsEntry(t)}
    <2>1. /\ tasks' = tasks \cup NewTasks(c, entries, TRUE)
          /\ pass'[c].phase = IF entries = {} THEN "gate" ELSE "entries"
          /\ pass'[c].open = OpenSites
      BY <1>4, LoadProperties
    <2> HIDE DEF entries
    <2>2. Current(c) = {}
      BY <1>3, <1>4 DEF Load
    <2>3. \A m \in Current(c)' : m.first /\ entries # {}
      BY <1>2, <2>1, <2>2 DEF Current, NewTasks
    <2> QED
      BY <1>2, <2>1, <2>3 DEF Known, Answered, InTurn
  <1>5. CASE EndPass(c) /\ UNCHANGED tasks /\ Current(c) = {}
    <2>1. Current(c)' = {}
      BY <1>2, <1>5 DEF Current
    <2> QED
      BY <1>5, <2>1, GateEnds
  <1>6. CASE LoadNothing(c) \/ LoadFails(c) \/ PassDone(c)
    <2>1. EndPass(c) /\ UNCHANGED tasks /\ Current(c) = {}
      BY <1>3, <1>6 DEF LoadNothing, LoadFails, PassDone
    <2> QED
      BY <1>5, <2>1
  <1>7. CASE EntriesDone(c)
    <2>1. CASE pass[c].rest = {}
      BY <1>5, <1>7, <2>1 DEF EntriesDone
    <2>2. CASE pass[c].rest # {}
      <3>1. pass[c].rest \in SUBSET Targets /\ "gate" \in Phases
        BY <1>1 DEF IInv, TypeOK, PassState, Phases
      <3>2. pass'[c].phase = "gate" /\ pass'[c].open = pass[c].open
        BY <1>1, <1>7, <2>2, <3>1, SetPassProperties DEF EntriesDone, IInv
      <3>3. Current(c)' = {}
        BY <1>2, <1>7 DEF EntriesDone, Current
      <3> QED
        BY <1>1, <1>2, <1>7, <3>2, <3>3 DEF EntriesDone, Known, Answered, InTurn, Working
    <2> QED
      BY <2>1, <2>2
  <1>8. CASE ReadGate(c)
    <2>1. /\ pass'[c].phase = "gated" /\ pass'[c].rest = pass[c].rest
          /\ pass'[c].open = pass[c].open
          /\ pass'[c].shut = {t \in pass[c].rest : Blocked(SiteOf[t])}
      BY <1>8, ReadGateProperties
    <2>2. Current(c)' = {}
      BY <1>2, <1>3, <1>8 DEF ReadGate, Current
    <2>3. OpenSites \subseteq pass[c].open
      BY <1>1, <1>8 DEF ReadGate, Known, Working
    <2>4. \A t \in pass[c].rest : SiteOf[t] \in Sites
      BY <1>1, SiteAssumption DEF IInv, TypeOK, PassState
    <2>5. Answered(c)'
      BY <2>1, <2>3, <2>4 DEF Answered, OpenSites
    <2> QED
      BY <1>2, <2>1, <2>2, <2>3, <2>5 DEF Known, InTurn
  <1>9. CASE StartRegular(c)
    <2> DEFINE allowed == pass[c].rest \ pass[c].shut
    <2>1. /\ tasks' = tasks \cup NewTasks(c, allowed, FALSE)
          /\ Current(c) = {} /\ pass[c].phase = "gated"
          /\ IF allowed = {} THEN EndPass(c) ELSE SetPass(c, "regular", {})
      BY <1>3, <1>9 DEF StartRegular
    <2>2. \A t \in allowed : SiteOf[t] \in pass[c].open
      BY <1>1, <2>1 DEF Answered
    <2> HIDE DEF allowed
    <2>3. CASE allowed = {}
      <3>1. tasks' = tasks
        BY <2>1, <2>3 DEF NewTasks
      <3> QED
        BY <1>5, <2>1, <2>3, <3>1
    <2>4. CASE allowed # {}
      <3>1. "regular" \in Phases /\ {} \in SUBSET Targets
        BY DEF Phases
      <3>2. pass'[c].phase = "regular" /\ pass'[c].open = pass[c].open
        BY <1>1, <2>1, <2>4, <3>1, SetPassProperties DEF IInv
      <3>3. \A m \in Current(c)' : ~m.first /\ m.target \in allowed
        BY <1>2, <2>1 DEF Current, NewTasks
      <3> QED
        BY <1>1, <1>2, <2>1, <2>2, <3>2, <3>3 DEF Known, Answered, InTurn, Working
    <2> QED
      BY <2>3, <2>4
  <1> QED
    BY <1>4, <1>6, <1>7, <1>8, <1>9 DEF PassStep

LEMMA GateOthers ==
    ASSUME IInv, GInv, NEW c \in Passes, PassStep(c) \/ LoadFails(c),
           NEW d \in Passes, d # c
    PROVE  Known(d)' /\ Answered(d)' /\ InTurn(d)'
  <1>1. c \in Callers /\ d \in Callers
    BY PassesCall
  <1>2. UNCHANGED <<data, aborts>> /\ OpenSites' = OpenSites
    BY SameSites DEF PassStep, LoadFails, Load, LoadNothing, EntriesDone, ReadGate,
                     StartRegular, PassDone
  <1>3. \A k \in tasks' \ tasks : k.caller = c
    BY DEF PassStep, LoadFails, Load, LoadNothing, EntriesDone, ReadGate, StartRegular,
           PassDone, NewTasks
  <1>4. pass'[d] = pass[d]
    BY <1>1 DEF PassStep, LoadFails, Load, LoadNothing, EntriesDone, ReadGate,
       StartRegular, PassDone, EndPass, SetPass, IInv, TypeOK
  <1>5. \A m \in Current(d)' : m \in Current(d)
    BY <1>2, <1>3 DEF Current
  <1> QED
    BY <1>2, <1>4, <1>5, GateUntouched DEF GInv

LEMMA GatePass ==
    ASSUME IInv, GInv, NEW c \in Passes, PassStep(c) \/ LoadFails(c)
    PROVE  GInv'
  BY GateOwn, GateOthers DEF GInv
LEMMA GateBystanders ==
    ASSUME IInv, GInv, AdminStep \/ (\E t \in Targets : WorldShift(t) \/ Elapse(t))
                                 \/ (\E s \in Sites : HoursShift(s))
    PROVE  GInv'
  <1> SUFFICES ASSUME NEW c \in Passes PROVE Known(c)' /\ Answered(c)' /\ InTurn(c)'
    BY DEF GInv
  <1>1. Known(c) /\ Answered(c) /\ InTurn(c)
    BY DEF GInv
  <1>2. UNCHANGED <<tasks, aborts>>
    BY DEF AdminStep, DeleteObject, ToggleObject, SetSiteEntry, WorldShift, Elapse, HoursShift
  <1>3. Current(c)' = Current(c)
    BY <1>2 DEF Current
  <1>4. CASE AdminStep \/ \E s \in Sites : HoursShift(s)
    <2>1. Watch({})
      BY <1>4 DEF AdminStep, DeleteObject, ToggleObject, SetSiteEntry, HoursShift
    <2> QED
      BY <1>1, <1>3, <2>1, GateWatched
  <1>5. CASE \E t \in Targets : WorldShift(t) \/ Elapse(t)
    <2>1. UNCHANGED pass /\ \A x \in Sites : Blocked(x)' = Blocked(x)
      <3>1. CASE \E t \in Targets : WorldShift(t)
        BY <3>1 DEF WorldShift, Blocked
      <3>2. CASE \E t \in Targets : Elapse(t)
        <4>1. PICK t \in Targets : Elapse(t)
          BY <3>2
        <4>2. \A u \in Targets : /\ object'[u].exists = object[u].exists
                                 /\ object'[u].enabled = object[u].enabled
                                 /\ object'[u].latest = object[u].latest
          BY <4>1 DEF Elapse, IInv, TypeOK, ObjectRow
        <4>3. \A x \in Sites : Blocked(x)' = Blocked(x)
          BY <4>1, <4>2 DEF Elapse, Blocked, IInv, TypeOK
        <4> QED
          BY <4>1, <4>3 DEF Elapse
      <3> QED
        BY <1>5, <3>1, <3>2
    <2> QED
      BY <1>1, <1>3, <2>1, GateUntouched DEF OpenSites
  <1> QED
    BY <1>4, <1>5

\* Asking for the lock, the end of the loop and the shutdown leave a pass that
\* works as it is.
LEMMA GateRequests ==
    ASSUME IInv, GInv, \/ Wake \/ LoopEnds \/ TriggerAll \/ Stop
                       \/ \E q \in Singles : RequestSingle(q) \/ SingleStep(q)
    PROVE  GInv'
  <1> SUFFICES ASSUME NEW c \in Passes PROVE Known(c)' /\ Answered(c)' /\ InTurn(c)'
    BY DEF GInv
  <1>1. c \in Callers /\ c \notin Singles /\ Known(c) /\ Answered(c) /\ InTurn(c)
    BY PassesCall DEF GInv
  <1>2. UNCHANGED <<data, aborts>> /\ OpenSites' = OpenSites
    BY SameSites DEF Wake, LoopEnds, TriggerAll, Stop, RequestSingle, SingleStep, StartSingle,
                     PassDone
  <1>3. \A k \in tasks' \ tasks : k.caller # c
    BY <1>1 DEF Wake, LoopEnds, TriggerAll, Stop, RequestSingle, SingleStep, StartSingle,
                PassDone, NewTasks
  <1>4. \A m \in Current(c)' : m \in Current(c)
    BY <1>2, <1>3 DEF Current
  <1>5. CASE pass'[c] = pass[c]
    BY <1>1, <1>2, <1>4, <1>5, GateUntouched
  <1>6. CASE pass'[c] # pass[c]
    <2>1. pass[c].phase = "idle" /\ pass'[c].phase \notin Working
      <3>1. "queued" \in Phases /\ "stopped" \in Phases /\ {} \in SUBSET Targets
            /\ "queued" \notin Working /\ "stopped" \notin Working
        BY DEF Phases, Working
      <3>2. CASE Wake
        BY <1>1, <1>6, <3>1, <3>2, SetPassProperties, ScanCalls DEF Wake, IInv
      <3>3. CASE LoopEnds
        BY <1>1, <1>6, <3>1, <3>3, SetPassProperties, ScanCalls DEF LoopEnds, IInv
      <3>4. CASE TriggerAll
        BY <1>1, <1>6, <3>1, <3>4, SetPassProperties, ScanCalls DEF TriggerAll, IInv
      <3>5. ~Stop
        BY <1>6 DEF Stop
      <3>6. ASSUME NEW q \in Singles, RequestSingle(q) \/ SingleStep(q) PROVE FALSE
        BY <1>1, <1>6, <3>6 DEF RequestSingle, SingleStep, StartSingle, PassDone, EndPass,
           SetPass, IInv, TypeOK, Callers
      <3> QED
        BY <3>2, <3>3, <3>4, <3>5, <3>6
    <2>2. Current(c) = {}
      BY <1>1, <2>1, NothingCurrent
    <2> QED
      BY <1>4, <2>1, <2>2, GateIdle
  <1> QED
    BY <1>5, <1>6

LEMMA GateTasks ==
    ASSUME IInv, GInv, NEW k \in tasks, TaskStep(k) \/ SaveFails(k)
    PROVE  GInv'
  <1> SUFFICES ASSUME NEW c \in Passes PROVE Known(c)' /\ Answered(c)' /\ InTurn(c)'
    BY DEF GInv
  <1>1. /\ c \in Callers /\ Known(c) /\ Answered(c) /\ InTurn(c)
        /\ k \in Task /\ aborts \in [Callers -> Nat]
    BY PassesCall DEF GInv, IInv, TypeOK
  <1>2. ASSUME NEW phase \in {"probe", "after"}, Replace(k, phase), UNCHANGED aborts,
               NEW m \in Current(c)'
        PROVE  \E n \in Current(c) : m.first = n.first /\ m.target = n.target
    <2> DEFINE new == [k EXCEPT !.phase = phase]
    <2>1. /\ new.caller = k.caller /\ new.batch = k.batch
          /\ new.target = k.target /\ new.first = k.first
      BY <1>1 DEF Task
    <2>2. tasks' = (tasks \ {k}) \cup {new}
      BY <1>2 DEF Replace
    <2> HIDE DEF new
    <2> QED
      BY <1>2, <2>1, <2>2 DEF Current
  <1>3. CASE StartProbe(k)
    <2>1. Replace(k, "probe") /\ UNCHANGED <<data, pass, aborts>>
      BY <1>3 DEF StartProbe
    <2> QED
      BY <1>1, <1>2, <2>1, SameSites, GateUntouched
  <1>4. CASE SaveResult(k)
    <2>1. Replace(k, "after") /\ Watch({k}) /\ UNCHANGED aborts
      BY <1>4 DEF SaveResult
    <2> QED
      BY <1>1, <1>2, <2>1, GateWatched
  <1>5. CASE FinishTask(k)
    <2>1. tasks' = tasks \ {k} /\ UNCHANGED <<data, pass, aborts>>
      BY <1>5 DEF FinishTask
    <2>2. \A m \in Current(c)' : m \in Current(c)
      BY <2>1 DEF Current
    <2> QED
      BY <1>1, <2>1, <2>2, SameSites, GateUntouched
  <1>6. CASE LoseTask(k) \/ SaveFails(k)
    <2>1. Abort(k) /\ UNCHANGED data /\ tasks' = tasks \ {k}
      BY <1>6 DEF LoseTask, SaveFails, Abort
    <2>2. CASE k \in Current(k.caller) /\ k.caller = c
      <3>1. EndPass(c) /\ aborts'[c] = aborts[c] + 1
        BY <1>1, <2>1, <2>2 DEF Abort
      <3>2. Current(c)' = {}
        BY <1>1, <2>1, <3>1 DEF Current, IInv, TypeOK, TaskInv, Task
      <3> QED
        BY <3>1, <3>2, GateEnds
    <2>3. CASE ~(k \in Current(k.caller) /\ k.caller = c)
      <3>1. pass'[c] = pass[c] /\ aborts'[c] = aborts[c]
        BY <1>1, <2>1, <2>3 DEF Abort, EndPass, IInv, TypeOK
      <3>2. \A m \in Current(c)' : m \in Current(c)
        BY <2>1, <3>1 DEF Current
      <3> QED
        BY <1>1, <2>1, <3>1, <3>2, SameSites, GateUntouched
    <2> QED
      BY <2>2, <2>3
  <1> QED
    BY <1>3, <1>4, <1>5, <1>6 DEF TaskStep

\* For any number of objects, sites and requests, and however saves of leftovers,
\* pages and the hours come between the gate and the checks: a pass checks an object
\* behind an entry only where the site was open at a moment of that pass, after the
\* result of the entry that the pass itself saved.
THEOREM SiblingsFollow == Spec => []SiblingsFollowTheirEntry
  <1>1. Init => GInv
    BY ScanCalls, PassesCall DEF Init, GInv, Known, Answered, InTurn, Current, IdlePass, Working
  <1>2. IInv /\ GInv /\ [Next]_vars => GInv'
    <2> SUFFICES ASSUME IInv, GInv, [Next]_vars PROVE GInv'
      OBVIOUS
    <2>1. CASE Next
      BY <2>1, GatePass, GateBystanders, GateRequests, GateTasks DEF Next, WorldStep
    <2>2. CASE UNCHANGED vars
      <3>1. UNCHANGED <<data, pass, tasks, aborts>>
        BY <2>2 DEF vars, data
      <3>2. \A c \in Passes : Current(c)' = Current(c)
        BY <3>1 DEF Current
      <3> QED
        BY <3>1, <3>2, SameSites, GateUntouched DEF GInv
    <2> QED
      BY <2>1, <2>2
  <1>3. GInv => SiblingsFollowTheirEntry
    BY DEF GInv, InTurn, SiblingsFollowTheirEntry
  <1> QED
    BY <1>1, <1>2, <1>3, Invariance, PTL DEF Spec
=============================================================================
