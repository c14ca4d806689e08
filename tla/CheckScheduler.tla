--------------------------- MODULE CheckScheduler ---------------------------
(***************************************************************************)
(* The embedded scheduler: services/scheduler.py, its due-target query in  *)
(* services/monitoring.py, the site-entry gate of services/site_entry.py   *)
(* and the queue of services/scheduler_metrics.py.                         *)
(* Three kinds of callers take one asyncio lock: the scan loop, the manual *)
(* pass over all objects, and requests to check one object now.  A pass    *)
(* checks the due site entries first, then reads in a thread which sites   *)
(* are blocked, and, back in the event loop, starts the checks of the rest. *)
(* Every check is a task of its own and waits for the common semaphore      *)
(* before it probes; asyncio.gather hands the first exception of a task to *)
(* the pass and lets the other tasks run on: after an abort they are       *)
(* orphans.  Their saves, the pages and the clock of the working hours may *)
(* open or block a site between any two of these steps.                    *)
(***************************************************************************)
EXTENDS Integers, Sequences, FiniteSets

CONSTANTS Targets, Sites,
          SiteOf,        \* the site of every object
          NoTarget,
          Singles,       \* requests of run_target_now
          MaxOps,        \* bound: actions of the administrator
          MaxShifts      \* bound: changes of the world, faults of the database

ASSUME SiteAssumption == SiteOf \in [Targets -> Sites]
ASSUME NoTargetAssumption == NoTarget \notin Targets
ASSUME CallersAssumption == {"scan", "manual"} \cap Singles = {}
ASSUME BoundsAssumption == MaxOps \in Nat /\ MaxShifts \in Nat

Passes == {"scan", "manual"}
Callers == Passes \cup Singles
Statuses == {"up", "down", "unknown"}
Phases == {"idle", "queued", "entries", "gate", "gated", "regular", "stopped"}
Working == {"entries", "gate", "gated", "regular"}

VARIABLES
    object,    \* the rows of MonitorTarget, with the newest primary result
    entry,     \* the entry object of every site (is_site_entry)
    hours,     \* whether the schedule of a site is in working hours
    world,     \* what a probe of each object would report now
    waiters,   \* _check_lock: its holder first, then its FIFO of waiters
    pass,      \* the state of every caller
    tasks,     \* the checks in flight
    aborts,    \* how many passes of each caller ended by an exception
    queue,     \* the metric _current_due
    stop,      \* the event _stop
    ops, shifts

vars == <<object, entry, hours, world, waiters, pass, tasks, aborts, queue,
          stop, ops, shifts>>
data == <<object, entry, hours, world>>
budgets == <<ops, shifts>>

ObjectRow == [exists: BOOLEAN, enabled: BOOLEAN, due: BOOLEAN,
              latest: Statuses \cup {"none"}]
\* batch is the abort count of the caller when the task was created; first: the pass
\* loaded the object as the entry of its site.
Task == [caller: Callers, batch: Nat, target: Targets, first: BOOLEAN,
         phase: {"waiting", "probe", "after"}]
\* shut: the objects of the sites that the pass has read as blocked.  open, history: the
\* sites that were open at a moment since the pass loaded its objects and, where it checks
\* their entry, since that result was saved.
PassState == [phase: Phases, rest: SUBSET Targets, shut: SUBSET Targets,
              open: SUBSET Sites]
IdlePass == [phase |-> "idle", rest |-> {}, shut |-> {}, open |-> {}]

-----------------------------------------------------------------------------
(* Queries. *)

IsEntry(t) == entry[SiteOf[t]] = t
Monitored(t) == object[t].exists /\ object[t].enabled
Active(t) == Monitored(t) /\ hours[SiteOf[t]]
DueTargets == {t \in Targets : Active(t) /\ object[t].due}
ActiveTargets == {t \in Targets : Active(t)}

\* Outside working hours a stale DOWN of the entry blocks nothing.
Blocked(s) ==
    /\ entry[s] # NoTarget
    /\ object[entry[s]].exists /\ object[entry[s]].enabled
    /\ object[entry[s]].latest = "down"
    /\ hours[s]

OpenSites == {s \in Sites : ~Blocked(s)}

-----------------------------------------------------------------------------
(* The lock and the tasks of a pass. *)

\* Mutant: every caller that asked for the lock goes on.
HoldsWaiting(c) == \E k \in DOMAIN waiters : waiters[k] = c

Holds(c) == waiters # <<>> /\ Head(waiters) = c
Enqueue(c) == waiters' = Append(waiters, c)
Release == waiters' = Tail(waiters)

Current(c) == {k \in tasks : k.caller = c /\ k.batch = aborts[c]}
Orphans == {k \in tasks : k.batch # aborts[k.caller]}
\* Mutant: the batch number is off by one.
NewTasksEarlyBatch(c, targets, first) ==
    {[caller |-> c, batch |-> aborts[c] - 1, target |-> t, first |-> first,
      phase |-> "waiting"] : t \in targets}

NewTasks(c, targets, first) ==
    {[caller |-> c, batch |-> aborts[c], target |-> t, first |-> first,
      phase |-> "waiting"] : t \in targets}

SetPass(c, phase, rest) ==
    pass' = [pass EXCEPT ![c] = [@ EXCEPT !.phase = phase, !.rest = rest, !.shut = {}]]

\* The history of every pass after a step that may open or block a site; saved: the
\* task whose result the step saves.
Watched(c, saved) ==
    [pass[c] EXCEPT !.open =
        (@ \ {SiteOf[k.target] : k \in {k \in saved \cap Current(c) : k.first}})
            \cup OpenSites']

Watch(saved) ==
    pass' = [c \in Callers |-> IF c \in Passes /\ pass[c].phase \in Working
                               THEN Watched(c, saved) ELSE pass[c]]

\* finish_batch runs at the end of a scan, however it ends.
FinishBatch(c) == queue' = IF c = "scan" THEN {} ELSE queue

EndPass(c) ==
    /\ pass' = [pass EXCEPT ![c] = IdlePass]
    /\ Release /\ FinishBatch(c)

-----------------------------------------------------------------------------
(* The scan loop, the manual pass, and the check of one object. *)

\* Mutant: the loop does not look at the stop event.
WakeAlways ==
    /\ pass["scan"].phase = "idle"
    /\ SetPass("scan", "queued", {}) /\ Enqueue("scan")
    /\ UNCHANGED <<data, tasks, aborts, queue, stop, budgets>>

\* The loop wakes up after poll_seconds and asks for the lock.
Wake ==
    /\ pass["scan"].phase = "idle" /\ ~stop
    /\ SetPass("scan", "queued", {}) /\ Enqueue("scan")
    /\ UNCHANGED <<data, tasks, aborts, queue, stop, budgets>>

\* Mutant: stop() cancels the loop instead of waiting for its pass.
LoopCancelled ==
    /\ stop /\ pass["scan"].phase # "stopped"
    /\ SetPass("scan", "stopped", {})
    /\ UNCHANGED <<data, waiters, tasks, aborts, queue, stop, budgets>>

\* The loop sees the stop event.
LoopEnds ==
    /\ pass["scan"].phase = "idle" /\ stop
    /\ SetPass("scan", "stopped", {})
    /\ UNCHANGED <<data, waiters, tasks, aborts, queue, stop, budgets>>

\* trigger_all; while a manual pass is not done it refuses.
TriggerAll ==
    /\ ~stop
    /\ pass["manual"].phase = "idle"
    /\ SetPass("manual", "queued", {}) /\ Enqueue("manual")
    /\ UNCHANGED <<data, tasks, aborts, queue, stop, budgets>>

RequestSingle(q) ==
    /\ ~stop
    /\ pass[q].phase = "idle"
    /\ \E t \in Targets : SetPass(q, "queued", {t})
    /\ Enqueue(q)
    /\ UNCHANGED <<data, tasks, aborts, queue, stop, budgets>>

Loaded(c) == IF c = "scan" THEN DueTargets ELSE ActiveTargets

\* Mutant: the gate is asked at once, and the entries are checked beside the others.
LoadGated(c) ==
    LET loaded == Loaded(c)
        entries == {t \in loaded : IsEntry(t)}
    IN  /\ Holds(c) /\ pass[c].phase = "queued"
        /\ loaded # {}
        /\ pass' = [pass EXCEPT ![c] = [phase |-> "regular", rest |-> {}, shut |-> {},
                                       open |-> OpenSites]]
        /\ tasks' = tasks \cup NewTasks(c, entries, TRUE)
                         \cup NewTasks(c, {t \in loaded \ entries : ~Blocked(SiteOf[t])}, FALSE)
        /\ queue' = IF c = "scan" THEN loaded ELSE queue
        /\ UNCHANGED <<data, waiters, aborts, stop, budgets>>

\* The pass has the lock and loads its objects; the entries are checked first.
Load(c) ==
    LET loaded == Loaded(c)
        entries == {t \in loaded : IsEntry(t)}
    IN  /\ Holds(c) /\ pass[c].phase = "queued"
        /\ loaded # {}
        /\ pass' = [pass EXCEPT ![c] =
                       [phase |-> IF entries = {} THEN "gate" ELSE "entries",
                        rest |-> loaded \ entries, shut |-> {}, open |-> OpenSites]]
        /\ tasks' = tasks \cup NewTasks(c, entries, TRUE)
        /\ queue' = IF c = "scan" THEN loaded ELSE queue
        /\ UNCHANGED <<data, waiters, aborts, stop, budgets>>

LoadNothing(c) ==
    /\ Holds(c) /\ pass[c].phase = "queued"
    /\ Loaded(c) = {}
    /\ EndPass(c)
    /\ UNCHANGED <<data, tasks, aborts, stop, budgets>>

\* Mutant: the lock is not released when a query fails.
LoadFailsKeepsLock(c) ==
    /\ shifts < MaxShifts /\ shifts' = shifts + 1
    /\ Holds(c) /\ pass[c].phase \in {"queued", "gate"}
    /\ pass' = [pass EXCEPT ![c] = IdlePass] /\ FinishBatch(c)
    /\ UNCHANGED <<data, waiters, tasks, aborts, stop, ops>>

\* The database fails while the pass reads it: the exception is logged.
LoadFails(c) ==
    /\ shifts < MaxShifts /\ shifts' = shifts + 1
    /\ Holds(c) /\ pass[c].phase \in {"queued", "gate"}
    /\ EndPass(c)
    /\ UNCHANGED <<data, tasks, aborts, stop, ops>>

EntriesDone(c) ==
    /\ pass[c].phase = "entries" /\ Current(c) = {}
    /\ IF pass[c].rest = {} THEN EndPass(c)
       ELSE /\ SetPass(c, "gate", pass[c].rest)
            /\ UNCHANGED <<waiters, queue>>
    /\ UNCHANGED <<data, tasks, aborts, stop, budgets>>

\* A thread reads which sites are blocked ...
ReadGate(c) ==
    /\ pass[c].phase = "gate"
    /\ pass' = [pass EXCEPT ![c] = [@ EXCEPT !.phase = "gated",
                    !.shut = {t \in pass[c].rest : Blocked(SiteOf[t])}]]
    /\ UNCHANGED <<data, waiters, tasks, aborts, queue, stop, budgets>>

\* ... and the pass goes on with that answer: the objects of these sites are marked
\* complete without a check.
StartRegular(c) ==
    LET allowed == pass[c].rest \ pass[c].shut
    IN  /\ pass[c].phase = "gated"
        /\ tasks' = tasks \cup NewTasks(c, allowed, FALSE)
        /\ IF allowed = {} THEN EndPass(c)
           ELSE /\ SetPass(c, "regular", {})
                /\ queue' = queue \ pass[c].shut
                /\ UNCHANGED waiters
        /\ UNCHANGED <<data, aborts, stop, budgets>>

\* Mutant: the pass does not wait for its tasks.
PassDoneEarly(c) ==
    /\ pass[c].phase = "regular"
    /\ EndPass(c)
    /\ UNCHANGED <<data, tasks, aborts, stop, budgets>>

PassDone(c) ==
    /\ pass[c].phase = "regular" /\ Current(c) = {}
    /\ EndPass(c)
    /\ UNCHANGED <<data, tasks, aborts, stop, budgets>>

\* run_target_now under the lock: a lost, disabled or blocked object is not
\* checked.
StartSingle(q) ==
    /\ Holds(q) /\ pass[q].phase = "queued"
    /\ \E t \in pass[q].rest :
          IF Monitored(t) /\ (IsEntry(t) \/ ~Blocked(SiteOf[t]))
          THEN /\ tasks' = tasks \cup NewTasks(q, {t}, FALSE)
               /\ SetPass(q, "regular", {})
               /\ UNCHANGED <<waiters, queue>>
          ELSE EndPass(q) /\ UNCHANGED tasks
    /\ UNCHANGED <<data, aborts, stop, budgets>>

-----------------------------------------------------------------------------
(* One task: probe and save, then letters, service checks and SNMP. *)

Replace(k, phase) == tasks' = (tasks \ {k}) \cup {[k EXCEPT !.phase = phase]}

\* The semaphore lets the task probe.
StartProbe(k) ==
    /\ k.phase = "waiting"
    /\ Replace(k, "probe")
    /\ UNCHANGED <<data, waiters, pass, aborts, queue, stop, budgets>>

SaveResult(k) ==
    /\ k.phase = "probe"
    /\ object[k.target].exists
    /\ object' = IF Active(k.target)
                 THEN [object EXCEPT ![k.target].latest = world[k.target],
                                     ![k.target].due = FALSE]
                 ELSE object
    /\ UNCHANGED <<entry, hours, world>>
    /\ Replace(k, "after") /\ Watch({k})
    /\ UNCHANGED <<waiters, aborts, queue, stop, budgets>>

\* Mutant: a finished check stays in the queue.
MarkCompleteNever(k) == queue

MarkComplete(k) ==
    IF k.caller \in Passes THEN queue \ {k.target} ELSE queue

FinishTask(k) ==
    /\ k.phase = "after"
    /\ tasks' = tasks \ {k}
    /\ queue' = MarkComplete(k)
    /\ UNCHANGED <<data, waiters, pass, aborts, stop, budgets>>

\* Mutant: an exception leaves the pass without releasing the lock.
AbortKeepsLock(k) ==
    /\ tasks' = tasks \ {k}
    /\ IF k \in Current(k.caller)
       THEN /\ pass' = [pass EXCEPT ![k.caller] = IdlePass] /\ FinishBatch(k.caller)
            /\ aborts' = [aborts EXCEPT ![k.caller] = @ + 1]
            /\ UNCHANGED waiters
       ELSE queue' = MarkComplete(k) /\ UNCHANGED <<waiters, pass, aborts>>

\* A task ends by an exception.  A pass that waits for it ends with the same
\* exception and releases the lock; its other tasks go on.
Abort(k) ==
    /\ tasks' = tasks \ {k}
    /\ IF k \in Current(k.caller)
       THEN /\ EndPass(k.caller)
            /\ aborts' = [aborts EXCEPT ![k.caller] = @ + 1]
       ELSE /\ queue' = MarkComplete(k)
            /\ UNCHANGED <<waiters, pass, aborts>>

\* save_result raises LookupError: its object was deleted during the probe.
LoseTask(k) ==
    /\ k.phase = "probe" /\ ~object[k.target].exists
    /\ Abort(k)
    /\ UNCHANGED <<data, stop, budgets>>

\* The database refuses one of the saves of the task.
SaveFails(k) ==
    /\ k.phase # "waiting"
    /\ shifts < MaxShifts /\ shifts' = shifts + 1
    /\ Abort(k)
    /\ UNCHANGED <<data, stop, ops>>

-----------------------------------------------------------------------------
(* The administrator, the world, the clock, and the shutdown. *)

Admin == ops < MaxOps /\ ops' = ops + 1

DeleteObject(t) ==
    /\ Admin /\ object[t].exists
    /\ object' = [object EXCEPT ![t] = [exists |-> FALSE, enabled |-> FALSE,
                                        due |-> FALSE, latest |-> "none"]]
    /\ entry' = [s \in Sites |-> IF entry[s] = t THEN NoTarget ELSE entry[s]]
    /\ UNCHANGED <<hours, world>> /\ Watch({})
    /\ UNCHANGED <<waiters, tasks, aborts, queue, stop, shifts>>

ToggleObject(t) ==
    /\ Admin /\ object[t].exists
    /\ object' = [object EXCEPT ![t].enabled = ~@]
    /\ UNCHANGED <<entry, hours, world>> /\ Watch({})
    /\ UNCHANGED <<waiters, tasks, aborts, queue, stop, shifts>>

\* A new entry of a site replaces the previous one.
SetSiteEntry(t) ==
    /\ Admin /\ object[t].exists
    /\ entry' = [entry EXCEPT ![SiteOf[t]] = IF @ = t THEN NoTarget ELSE t]
    /\ UNCHANGED <<object, hours, world>> /\ Watch({})
    /\ UNCHANGED <<waiters, tasks, aborts, queue, stop, shifts>>

Shift == shifts < MaxShifts /\ shifts' = shifts + 1

WorldShift(t) ==
    /\ Shift /\ \E v \in Statuses \ {world[t]} : world' = [world EXCEPT ![t] = v]
    /\ UNCHANGED <<object, entry, hours, waiters, pass, tasks, aborts, queue,
                   stop, ops>>

HoursShift(s) ==
    /\ Shift /\ hours' = [hours EXCEPT ![s] = ~@]
    /\ UNCHANGED <<object, entry, world>> /\ Watch({})
    /\ UNCHANGED <<waiters, tasks, aborts, queue, stop, ops>>

\* interval_seconds have passed since the newest result.
Elapse(t) ==
    /\ object[t].exists /\ ~object[t].due
    /\ object' = [object EXCEPT ![t].due = TRUE]
    /\ UNCHANGED <<entry, hours, world, waiters, pass, tasks, aborts, queue,
                   stop, budgets>>

\* The server has answered its requests and calls scheduler.stop().
Stop ==
    /\ ~stop /\ \A q \in Singles : pass[q].phase = "idle"
    /\ stop' = TRUE
    /\ UNCHANGED <<data, waiters, pass, tasks, aborts, queue, budgets>>

-----------------------------------------------------------------------------
Init ==
    /\ object = [t \in Targets |-> [exists |-> TRUE, enabled |-> TRUE,
                                    due |-> TRUE, latest |-> "none"]]
    /\ entry \in {e \in [Sites -> Targets \cup {NoTarget}] :
                     \A s \in Sites : e[s] # NoTarget => SiteOf[e[s]] = s}
    /\ hours = [s \in Sites |-> TRUE]
    /\ world \in [Targets -> {"up", "down"}]
    /\ waiters = <<>>
    /\ pass = [c \in Callers |-> IdlePass]
    /\ tasks = {}
    /\ aborts = [c \in Callers |-> 0]
    /\ queue = {}
    /\ stop = FALSE
    /\ ops = 0
    /\ shifts = 0

PassStep(c) == Load(c) \/ LoadNothing(c) \/ EntriesDone(c) \/ ReadGate(c)
               \/ StartRegular(c) \/ PassDone(c)
SingleStep(q) == StartSingle(q) \/ PassDone(q)
TaskStep(k) == StartProbe(k) \/ SaveResult(k) \/ FinishTask(k) \/ LoseTask(k)

AdminStep == \E t \in Targets :
                 DeleteObject(t) \/ ToggleObject(t) \/ SetSiteEntry(t)
WorldStep == \/ \E t \in Targets : WorldShift(t) \/ Elapse(t)
             \/ \E s \in Sites : HoursShift(s)
             \/ \E c \in Passes : LoadFails(c)
             \/ \E k \in tasks : SaveFails(k)

Next ==
    \/ Wake \/ LoopEnds \/ TriggerAll \/ Stop
    \/ \E c \in Passes : PassStep(c)
    \/ \E q \in Singles : RequestSingle(q) \/ SingleStep(q)
    \/ \E k \in tasks : TaskStep(k)
    \/ AdminStep \/ WorldStep

Spec == Init /\ [][Next]_vars

\* The event loop runs every ready coroutine; probes and saves time out.
Fairness ==
    /\ WF_vars(Wake) /\ WF_vars(LoopEnds)
    /\ \A c \in Passes : WF_vars(PassStep(c))
    /\ \A q \in Singles : WF_vars(SingleStep(q))
    /\ \A c \in Callers, t \in Targets :
          WF_vars(\E k \in tasks : /\ k.caller = c /\ k.target = t
                                   /\ TaskStep(k))

FairSpec == Spec /\ Fairness

-----------------------------------------------------------------------------
(* Invariants. *)

\* Every variable keeps its type.
TypeOK ==
    /\ object \in [Targets -> ObjectRow]
    /\ entry \in [Sites -> Targets \cup {NoTarget}]
    /\ hours \in [Sites -> BOOLEAN]
    /\ world \in [Targets -> Statuses]
    /\ waiters \in Seq(Callers)
    /\ pass \in [Callers -> PassState]
    /\ tasks \subseteq Task
    /\ aborts \in [Callers -> Nat]
    /\ queue \subseteq Targets
    /\ stop \in BOOLEAN
    /\ ops \in Nat
    /\ shifts \in Nat

\* A check in flight whose caller does not hold the lock is an orphan of a pass
\* that ended by an exception: without one, passes never overlap.
OnlyOrphansOverlap ==
    \A k \in tasks : k \in Orphans \/ Holds(k.caller)

\* Two checks of one object are in flight together only if one is an orphan.
OneProbePerObject ==
    \A k, m \in tasks :
        k.target = m.target /\ k # m => k \in Orphans \/ m \in Orphans

\* While no pass has ended by an exception, the queue that Portal Health shows
\* is exactly the work the scan has left: its checks in flight, and the objects
\* that wait for the gate.
QueueIsOutstandingWork ==
    (\A c \in Callers : aborts[c] = 0) =>
        queue = {k.target : k \in Current("scan")}
                \cup (IF pass["scan"].phase \in {"entries", "gate", "gated"}
                      THEN pass["scan"].rest ELSE {})

\* Once stop() has returned, only orphans of an aborted pass can still run.
StopDrains ==
    stop /\ pass["scan"].phase = "stopped" /\ pass["manual"].phase = "idle"
    => tasks \subseteq Orphans

\* A pass checks an object behind an entry only if the site was open at a moment since the
\* pass began and, where it checked the entry itself, since it saved that result: a DOWN
\* found in a pass suppresses the siblings in that pass, unless a leftover's later result, a
\* page or the hours lift it before the gate is read.
SiblingsFollowTheirEntry ==
    \A c \in Passes : \A k \in Current(c) : ~k.first => SiteOf[k.target] \in pass[c].open

\* The planned and the manual pass never run together.
PassesNeverOverlap ==
    ~ \E k, m \in tasks : k.caller = "scan" /\ m.caller = "manual"

-----------------------------------------------------------------------------
(* What must happen. *)

\* A due object is checked, or stops being one the scheduler must check: an
\* aborted pass, a failed query or a queue of manual requests delays it only.
DueIsChecked ==
    \A t \in Targets :
        object[t].due ~> \/ ~object[t].due
                         \/ ~Active(t)
                         \/ Blocked(SiteOf[t]) /\ ~IsEntry(t)
                         \/ stop

\* Whoever asked for the lock is answered: every pass and every request ends, and stop(),
\* which waits for the loop and the manual pass, returns.
CallersEnd ==
    /\ \A c \in Callers : pass[c].phase # "idle" ~> pass[c].phase \in {"idle", "stopped"}
    /\ stop ~> pass["scan"].phase = "stopped" /\ pass["manual"].phase = "idle"
=============================================================================
