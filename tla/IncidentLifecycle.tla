-------------------------- MODULE IncidentLifecycle --------------------------
(***************************************************************************)
(* Incidents of one monitored object: services/incidents.py, the two save  *)
(* transactions of services/monitoring.py, the unstable-link marker, and   *)
(* the administrator's actions that change what is monitored.  A run of    *)
(* the scheduler probes the primary check, saves its result, and after an  *)
(* UP probes and saves every enabled service check.  The configuration of  *)
(* a run is read when it starts, so an administrator's action may fall     *)
(* between a probe and the save of its result.  A transaction is one step  *)
(* here; ResultTransactions splits it.                                     *)
(***************************************************************************)
EXTENDS Integers, Sequences, FiniteSets

CONSTANTS Checks,         \* the service checks (TargetCheck, is_primary = FALSE)
          Primary,        \* the primary check of the object
          Runs,           \* runs of the scheduler that may overlap
          Addresses,      \* values of MonitorTarget.address
          Thresholds,     \* values of failures_before_incident, after the clamp
          HistoryWindow,  \* results kept per check, the largest threshold
          MaxIncidents,   \* bound: rows of the table of incidents
          MaxOps,         \* bound: actions of the administrator
          MaxShifts       \* bound: changes of the monitored world

Detached == "detached"    \* the source of an incident whose check was deleted

ASSUME SourcesAssumption ==
    /\ Primary \notin Checks
    /\ Detached \notin Checks \cup {Primary}
ASSUME ThresholdAssumption ==
    /\ HistoryWindow \in Nat \ {0}
    /\ Thresholds \subseteq 1..HistoryWindow
ASSUME BoundsAssumption ==
    MaxIncidents \in Nat /\ MaxOps \in Nat /\ MaxShifts \in Nat

VARIABLES
    target,     \* the row of MonitorTarget
    site,       \* the row of Site and whether its schedule is in working hours
    threshold,  \* the setting failures_before_incident
    check,      \* the rows of TargetCheck
    history,    \* the newest results of every check, oldest first
    marker,     \* unstable_pending_down and unstable_until of every check
    ledger,     \* the rows of Incident, with the letters each has caused
    run,        \* runs of the scheduler in flight
    world,      \* what a probe of each check would report now
    cert,       \* the certificate a probe of an HTTPS check would see
    ops, shifts \* how much of the two budgets is spent

vars == <<target, site, threshold, check, history, marker, ledger, run,
          world, cert, ops, shifts>>
config == <<target, site, threshold, check>>
environment == <<world, cert, shifts>>

Sources == {Primary} \cup Checks
Statuses == {"up", "down", "unknown"}
CheckTypes == {"plain", "https", "directory"}
CertStates == {"absent", "ok", "warning", "critical"}
Ids == 1..MaxIncidents

Row == [status: {"free", "open", "resolved", "deleted"},
        kind: {"availability", "check", "check_tls"},
        source: Sources \cup {Detached},
        severity: {"none", "warning", "critical"},
        openTried: BOOLEAN, recoveryTried: BOOLEAN,
        opened: Nat, escalated: Nat, recovered: Nat]
Result == [status: Statuses, version: Nat, probed: Nat]
Marker == [pending: BOOLEAN, shown: BOOLEAN]
CheckRow == [exists: BOOLEAN, enabled: BOOLEAN, version: Nat,
             type: CheckTypes, tls: BOOLEAN]
RunState == [phase: {"idle", "primary", "secondary"}, version: [Checks -> Nat],
             todo: SUBSET Checks]

EmptyRow == [status |-> "free", kind |-> "availability", source |-> Primary,
             severity |-> "none", openTried |-> FALSE, recoveryTried |-> FALSE,
             opened |-> 0, escalated |-> 0, recovered |-> 0]
NoMarker == [pending |-> FALSE, shown |-> FALSE]

-----------------------------------------------------------------------------
(* The table of incidents: queries and updates of IncidentService. *)

\* Mutant: the query also asks that no opening letter was tried.
OpenIdsUnannounced(L, kind, s) ==
    {i \in Ids : /\ L[i].status = "open" /\ L[i].kind = kind
                 /\ L[i].source = s /\ ~L[i].openTried}
OpenIds(L, kind, s) ==
    {i \in Ids : L[i].status = "open" /\ L[i].kind = kind /\ L[i].source = s}
HasOpen(L, kind, s) == OpenIds(L, kind, s) # {}
Newest(L, kind, s) ==
    CHOOSE i \in OpenIds(L, kind, s) : \A j \in OpenIds(L, kind, s) : j <= i

FreeIds(L) == {i \in Ids : L[i].status = "free"}
NextId(L) == CHOOSE i \in FreeIds(L) : \A j \in FreeIds(L) : i <= j
HasRoom(L) == \E i, j \in FreeIds(L) : i # j

Insert(L, kind, s, severity) ==
    [L EXCEPT ![NextId(L)] = [EmptyRow EXCEPT !.status = "open", !.kind = kind,
                                  !.source = s, !.severity = severity]]

OpeningNotification(L, i, quiet) ==
    IF quiet \/ L[i].openTried THEN L
    ELSE [L EXCEPT ![i].openTried = TRUE, ![i].opened = @ + 1]

\* Mutant: the recovery letter does not ask whether the opening one was tried.
RecoveryNotificationUnpaired(L, i, quiet) ==
    IF quiet \/ L[i].recoveryTried THEN L
    ELSE [L EXCEPT ![i].recoveryTried = TRUE, ![i].recovered = @ + 1]

\* Mutant: the recovery letter does not ask whether letters are muted.
RecoveryNotificationLoud(L, i, quiet) ==
    IF ~L[i].openTried \/ L[i].recoveryTried THEN L
    ELSE [L EXCEPT ![i].recoveryTried = TRUE, ![i].recovered = @ + 1]

RecoveryNotification(L, i, quiet) ==
    IF quiet \/ ~L[i].openTried \/ L[i].recoveryTried THEN L
    ELSE [L EXCEPT ![i].recoveryTried = TRUE, ![i].recovered = @ + 1]

Raise(L, kind, s, severity, quiet) ==
    OpeningNotification(Insert(L, kind, s, severity), NextId(L), quiet)

\* Mutant: the early return of _recovery_notification comes before the close.
ResolveAfterLetter(L, i, quiet) ==
    IF ~L[i].openTried THEN L
    ELSE RecoveryNotification([L EXCEPT ![i].status = "resolved"], i, quiet)

Resolve(L, i, quiet) ==
    RecoveryNotification([L EXCEPT ![i].status = "resolved"], i, quiet)

\* Mutant: every result but DOWN closes the incident.
ProcessOutcomeClosesOnUnknown(L, kind, s, severity, status, confirmed, quiet) ==
    CASE status = "down" /\ HasOpen(L, kind, s) ->
            OpeningNotification(L, Newest(L, kind, s), quiet)
      [] status = "down" /\ ~HasOpen(L, kind, s) /\ confirmed ->
            Raise(L, kind, s, severity, quiet)
      [] status # "down" /\ HasOpen(L, kind, s) ->
            Resolve(L, Newest(L, kind, s), quiet)
      [] OTHER -> L

\* Mutant: the opening letter is tried only when the incident is created.
ProcessOutcomeAnnouncesOnce(L, kind, s, severity, status, confirmed, quiet) ==
    CASE status = "down" /\ ~HasOpen(L, kind, s) /\ confirmed ->
            Raise(L, kind, s, severity, quiet)
      [] status = "up" /\ HasOpen(L, kind, s) ->
            Resolve(L, Newest(L, kind, s), quiet)
      [] OTHER -> L

\* An availability or service outcome: the branches of process_result and of
\* process_target_check_result.
ProcessOutcome(L, kind, s, severity, status, confirmed, quiet) ==
    CASE status = "down" /\ HasOpen(L, kind, s) ->
            OpeningNotification(L, Newest(L, kind, s), quiet)
      [] status = "down" /\ ~HasOpen(L, kind, s) /\ confirmed ->
            Raise(L, kind, s, severity, quiet)
      [] status = "up" /\ HasOpen(L, kind, s) ->
            Resolve(L, Newest(L, kind, s), quiet)
      [] OTHER -> L

Escalate(L, i, health, quiet) ==
    [L EXCEPT ![i].severity = health,
              ![i].escalated =
                  IF L[i].severity = "warning" /\ health = "critical" /\ ~quiet
                  THEN @ + 1 ELSE @]

\* Mutant: a healthy certificate without an incident raises one.
ApplyTlsHealthRaisesOnOk(L, c, health, quiet) ==
    IF HasOpen(L, "check_tls", c)
    THEN Resolve(L, Newest(L, "check_tls", c), quiet)
    ELSE Raise(L, "check_tls", c, health, quiet)

ApplyTlsHealth(L, c, health, quiet) ==
    CASE health = "ok" /\ HasOpen(L, "check_tls", c) ->
            Resolve(L, Newest(L, "check_tls", c), quiet)
      [] health \in {"warning", "critical"} /\ ~HasOpen(L, "check_tls", c) ->
            Raise(L, "check_tls", c, health, quiet)
      [] health \in {"warning", "critical"} /\ HasOpen(L, "check_tls", c) ->
            Escalate(L, Newest(L, "check_tls", c), health, quiet)
      [] OTHER -> L

\* Mutant: the administrator's action closes only the service incident.
ResolveSilentlyServiceOnly(L, c, kinds) ==
    [i \in Ids |->
        IF L[i].status = "open" /\ L[i].kind = "check" /\ L[i].source = c
        THEN [L[i] EXCEPT !.status = "resolved"] ELSE L[i]]

ResolveSilently(L, c, kinds) ==
    [i \in Ids |->
        IF L[i].status = "open" /\ L[i].kind \in kinds /\ L[i].source = c
        THEN [L[i] EXCEPT !.status = "resolved"] ELSE L[i]]

\* The foreign key Incident.check_id, ON DELETE SET NULL.
Detach(L, c) ==
    [i \in Ids |->
        IF L[i].source = c THEN [L[i] EXCEPT !.source = Detached] ELSE L[i]]

DeleteRows(L, ids) ==
    [i \in Ids |-> IF i \in ids THEN [L[i] EXCEPT !.status = "deleted"]
                                ELSE L[i]]
Existing(L) == {i \in Ids : L[i].status \in {"open", "resolved"}}

-----------------------------------------------------------------------------
(* Results, the confirmation of a failure, and the unstable-link marker. *)

Record(h, r) ==
    LET longer == Append(h, r)
    IN  IF Len(longer) > HistoryWindow THEN Tail(longer) ELSE longer

LastDown(h, n) ==
    /\ Len(h) >= n
    /\ \A k \in (Len(h) - n + 1)..Len(h) : h[k].status = "down"

\* A primary series has no version; a service series is made of the newest
\* results that are stored under the version given.
ConfirmedFailure(h) == LastDown(h, threshold)
ConfirmedCheckFailure(h, version) ==
    LET own == {k \in DOMAIN h : h[k].version = version}
        series == {k \in own : Cardinality({j \in own : j >= k}) <= threshold}
    IN  /\ Cardinality(own) >= threshold
        /\ \A k \in series : h[k].status = "down"

\* Mutant: a confirmed DOWN is pending like an unconfirmed one.
MarkOutcomeKeepsPending(m, status, before, after) ==
    CASE status = "down" -> [m EXCEPT !.pending = TRUE]
      [] status = "up" /\ before -> [m EXCEPT !.pending = FALSE]
      [] status = "up" /\ ~before /\ m.pending ->
            [pending |-> FALSE, shown |-> TRUE]
      [] OTHER -> m

MarkOutcome(m, status, before, after) ==
    CASE status = "down" /\ ~after -> [m EXCEPT !.pending = TRUE]
      [] status = "down" /\ after -> NoMarker
      [] status = "up" /\ before -> [m EXCEPT !.pending = FALSE]
      [] status = "up" /\ ~before /\ m.pending ->
            [pending |-> FALSE, shown |-> TRUE]
      [] OTHER -> m

-----------------------------------------------------------------------------
(* A run of the scheduler over the object. *)

Active == target.exists /\ target.enabled /\ site.enabled /\ site.working
Watched(c) == check[c].exists /\ check[c].enabled

\* The object and its enabled checks are loaded; the primary probe starts.
StartRun(r) ==
    /\ run[r].phase = "idle"
    /\ Active
    /\ run' = [run EXCEPT ![r] =
                  [phase |-> "primary",
                   version |-> [c \in Checks |-> check[c].version],
                   todo |-> {c \in Checks : Watched(c)}]]
    /\ UNCHANGED <<config, history, marker, ledger, environment, ops>>

Finished(s) == [s EXCEPT !.phase = "idle", !.todo = {}]
AfterPrimary(s, status) ==
    IF status = "up" /\ s.todo # {} THEN [s EXCEPT !.phase = "secondary"]
                                    ELSE Finished(s)
AfterCheck(s, c) ==
    IF s.todo = {c} THEN Finished(s) ELSE [s EXCEPT !.todo = @ \ {c}]

\* save_result raises LookupError: the object was deleted under the probe.
LosePrimary(r) ==
    /\ run[r].phase = "primary"
    /\ ~target.exists
    /\ run' = [run EXCEPT ![r] = Finished(@)]
    /\ UNCHANGED <<config, history, marker, ledger, environment, ops>>

\* save_result returns [] for what is no longer monitored; an UP outcome
\* still leads to the service checks.
IgnorePrimary(r) ==
    /\ run[r].phase = "primary"
    /\ target.exists /\ ~Active
    /\ run' = [run EXCEPT ![r] = AfterPrimary(@, world[Primary])]
    /\ UNCHANGED <<config, history, marker, ledger, environment, ops>>

SavePrimary(r) ==
    LET status == world[Primary]
        h == Record(history[Primary],
                    [status |-> status, version |-> 0, probed |-> 0])
        L == ProcessOutcome(ledger, "availability", Primary, "none", status,
                            ConfirmedFailure(h), target.suppressed)
    IN  /\ run[r].phase = "primary"
        /\ Active /\ HasRoom(ledger)
        /\ history' = [history EXCEPT ![Primary] = h]
        /\ ledger' = L
        /\ marker' = [marker EXCEPT ![Primary] =
                         MarkOutcome(@, status,
                                     HasOpen(ledger, "availability", Primary),
                                     HasOpen(L, "availability", Primary))]
        /\ run' = [run EXCEPT ![r] = AfterPrimary(@, status)]
        /\ UNCHANGED <<config, environment, ops>>

\* Mutant: the version of the configuration is not compared.
AcceptsStale(r, c) == Active /\ Watched(c)

Accepts(r, c) ==
    Active /\ Watched(c) /\ check[c].version = run[r].version[c]

\* save_target_check_result returns []: the check is gone, was changed since
\* the run started, or is not monitored now.
IgnoreCheck(r, c) ==
    /\ run[r].phase = "secondary" /\ c \in run[r].todo
    /\ ~Accepts(r, c)
    /\ run' = [run EXCEPT ![r] = AfterCheck(@, c)]
    /\ UNCHANGED <<config, history, marker, ledger, environment, ops>>

SaveCheck(r, c) ==
    LET status == world[c]
        h == Record(history[c],
                    [status |-> status, version |-> check[c].version,
                     probed |-> run[r].version[c]])
        L == ProcessOutcome(ledger, "check", c, "critical", status,
                            ConfirmedCheckFailure(h, check[c].version),
                            target.suppressed)
        tlsSeen == check[c].type = "https" /\ check[c].tls /\ cert[c] # "absent"
    IN  /\ run[r].phase = "secondary" /\ c \in run[r].todo
        /\ Accepts(r, c) /\ HasRoom(ledger)
        /\ history' = [history EXCEPT ![c] = h]
        /\ ledger' = IF tlsSeen
                     THEN ApplyTlsHealth(L, c, cert[c], target.suppressed)
                     ELSE L
        /\ marker' = IF check[c].type = "directory" THEN marker
                     ELSE [marker EXCEPT ![c] =
                              MarkOutcome(@, status,
                                          HasOpen(ledger, "check", c),
                                          HasOpen(L, "check", c))]
        /\ run' = [run EXCEPT ![r] = AfterCheck(@, c)]
        /\ UNCHANGED <<config, environment, ops>>

-----------------------------------------------------------------------------
(* The administrator. *)

Admin == ops < MaxOps /\ ops' = ops + 1
ClearMarkers == marker' = [s \in Sources |-> NoMarker]

TargetToggle ==
    /\ Admin /\ target.exists
    /\ target' = [target EXCEPT !.enabled = ~@]
    /\ ClearMarkers
    /\ UNCHANGED <<site, threshold, check, history, ledger, run, environment>>

IncidentTargetDisable ==
    /\ Admin /\ target.enabled
    /\ Existing(ledger) # {}
    /\ target' = [target EXCEPT !.enabled = FALSE]
    /\ ClearMarkers
    /\ UNCHANGED <<site, threshold, check, history, ledger, run, environment>>

\* The form of the object: its address and the flag that mutes its letters.
TargetUpdate ==
    /\ Admin /\ target.exists
    /\ \E a \in Addresses, quiet \in BOOLEAN :
          /\ target' = [target EXCEPT !.address = a, !.suppressed = quiet]
          /\ target' # target
          /\ marker' = IF a = target.address THEN marker
                       ELSE [marker EXCEPT ![Primary] = NoMarker]
    /\ UNCHANGED <<site, threshold, check, history, ledger, run, environment>>

\* The rows of results, checks and incidents go with the object.
TargetDelete ==
    /\ Admin /\ target.exists
    /\ target' = [target EXCEPT !.exists = FALSE, !.enabled = FALSE]
    /\ check' = [c \in Checks |->
                    [check[c] EXCEPT !.exists = FALSE, !.enabled = FALSE]]
    /\ history' = [s \in Sources |-> <<>>]
    /\ ledger' = DeleteRows(ledger, Existing(ledger))
    /\ ClearMarkers
    /\ UNCHANGED <<site, threshold, run, environment>>

SiteToggle ==
    /\ Admin /\ site' = [site EXCEPT !.enabled = ~@]
    /\ UNCHANGED <<target, threshold, check, history, marker, ledger, run,
                   environment>>

SetThreshold ==
    /\ Admin /\ threshold' \in Thresholds \ {threshold}
    /\ UNCHANGED <<target, site, check, history, marker, ledger, run,
                   environment>>

CheckCreate(c) ==
    /\ Admin /\ target.exists
    /\ ~check[c].exists /\ check[c].version = 0
    /\ \E t \in CheckTypes, tls \in BOOLEAN :
          /\ tls => t = "https"
          /\ check' = [check EXCEPT ![c] =
                          [exists |-> TRUE, enabled |-> TRUE, version |-> 1,
                           type |-> t, tls |-> tls]]
    /\ UNCHANGED <<target, site, threshold, history, marker, ledger, run,
                   environment>>

\* A change of any field of check_execution_signature is a new version.
CheckUpdate(c) ==
    /\ Admin /\ check[c].exists
    /\ \E t \in CheckTypes, tls \in BOOLEAN :
          /\ tls => t = "https"
          /\ check' = [check EXCEPT ![c].type = t, ![c].tls = tls,
                                    ![c].version = @ + 1]
          /\ ledger' = IF \/ check[c].tls /\ ~tls
                          \/ check[c].type = "https" /\ t # "https"
                       THEN ResolveSilently(ledger, c, {"check_tls"})
                       ELSE ledger
    /\ marker' = [marker EXCEPT ![c] = NoMarker]
    /\ UNCHANGED <<target, site, threshold, history, run, environment>>

CheckToggle(c) ==
    /\ Admin /\ check[c].exists
    /\ check' = [check EXCEPT ![c].enabled = ~@, ![c].version = @ + 1]
    /\ marker' = [marker EXCEPT ![c] = NoMarker]
    /\ ledger' = IF check[c].enabled
                 THEN ResolveSilently(ledger, c, {"check", "check_tls"})
                 ELSE ledger
    /\ UNCHANGED <<target, site, threshold, history, run, environment>>

CheckDelete(c) ==
    /\ Admin /\ check[c].exists
    /\ check' = [check EXCEPT ![c].exists = FALSE, ![c].enabled = FALSE]
    /\ ledger' = Detach(ResolveSilently(ledger, c, {"check", "check_tls"}), c)
    /\ history' = [history EXCEPT ![c] = <<>>]
    /\ marker' = [marker EXCEPT ![c] = NoMarker]
    /\ UNCHANGED <<target, site, threshold, run, environment>>

\* One incident, all of them, or all the resolved ones.
IncidentsDelete ==
    /\ Admin
    /\ \E ids \in {{i} : i \in Existing(ledger)} \cup
                  {Existing(ledger),
                   {i \in Ids : ledger[i].status = "resolved"}} :
          /\ ids # {}
          /\ ledger' = DeleteRows(ledger, ids)
    /\ UNCHANGED <<config, history, marker, run, environment>>

-----------------------------------------------------------------------------
(* The monitored world and the clock. *)

Shift == shifts < MaxShifts /\ shifts' = shifts + 1

WorldShift(s) ==
    /\ Shift /\ \E v \in Statuses \ {world[s]} : world' = [world EXCEPT ![s] = v]
    /\ UNCHANGED <<config, history, marker, ledger, run, cert, ops>>

CertShift(c) ==
    /\ Shift /\ \E v \in CertStates \ {cert[c]} : cert' = [cert EXCEPT ![c] = v]
    /\ UNCHANGED <<config, history, marker, ledger, run, world, ops>>

\* Working hours of the site begin or end.
HoursShift ==
    /\ Shift /\ site' = [site EXCEPT !.working = ~@]
    /\ UNCHANGED <<target, threshold, check, history, marker, ledger, run,
                   world, cert, ops>>

-----------------------------------------------------------------------------
InitialCheck == [exists |-> TRUE, enabled |-> TRUE, version |-> 1,
                 type |-> "https", tls |-> TRUE]

Init ==
    /\ target \in [exists: {TRUE}, enabled: {TRUE}, suppressed: BOOLEAN, address: Addresses]
    /\ run = [r \in Runs |-> [phase |-> "idle", version |-> [c \in Checks |-> 0], todo |-> {}]]
    /\ site = [enabled |-> TRUE, working |-> TRUE]
    /\ threshold \in Thresholds
    /\ check \in [Checks -> {InitialCheck,
                     [InitialCheck EXCEPT !.exists = FALSE, !.enabled = FALSE,
                         !.version = 0, !.type = "plain", !.tls = FALSE]}]
    /\ history = [s \in Sources |-> <<>>]
    /\ marker = [s \in Sources |-> NoMarker]
    /\ ledger = [i \in Ids |-> EmptyRow]
    /\ world = [s \in Sources |-> "up"]
    /\ cert = [c \in Checks |-> "ok"]
    /\ ops = 0
    /\ shifts = 0

RunStep(r) ==
    \/ StartRun(r) \/ LosePrimary(r) \/ IgnorePrimary(r) \/ SavePrimary(r)
    \/ \E c \in Checks : IgnoreCheck(r, c) \/ SaveCheck(r, c)

AdminStep ==
    \/ TargetToggle \/ IncidentTargetDisable \/ TargetUpdate \/ TargetDelete
    \/ SiteToggle \/ SetThreshold \/ IncidentsDelete
    \/ \E c \in Checks : \/ CheckCreate(c) \/ CheckUpdate(c)
                         \/ CheckToggle(c) \/ CheckDelete(c)

WorldStep ==
    \/ \E s \in Sources : WorldShift(s)
    \/ \E c \in Checks : CertShift(c)
    \/ HoursShift

Next == (\E r \in Runs : RunStep(r)) \/ AdminStep \/ WorldStep

Spec == Init /\ [][Next]_vars

\* The scheduler comes round to every due object, and the asyncio.gather over
\* the checks of an object lets each of them finish.
FairSpec ==
    /\ Spec
    /\ \A r \in Runs :
          /\ WF_vars(StartRun(r))
          /\ WF_vars(LosePrimary(r) \/ IgnorePrimary(r) \/ SavePrimary(r))
          /\ \A c \in Checks : WF_vars(IgnoreCheck(r, c) \/ SaveCheck(r, c))
-----------------------------------------------------------------------------
(* Invariants. *)

\* Every variable keeps its type.
TypeOK ==
    /\ target \in [exists: BOOLEAN, enabled: BOOLEAN, suppressed: BOOLEAN,
                   address: Addresses]
    /\ site \in [enabled: BOOLEAN, working: BOOLEAN]
    /\ threshold \in Thresholds
    /\ check \in [Checks -> CheckRow]
    /\ history \in [Sources -> Seq(Result)]
    /\ marker \in [Sources -> Marker]
    /\ ledger \in [Ids -> Row]
    /\ run \in [Runs -> RunState]
    /\ world \in [Sources -> Statuses]
    /\ cert \in [Checks -> CertStates]
    /\ ops \in Nat
    /\ shifts \in Nat

\* An object has at most one open availability incident, and each of its
\* service checks at most one open service and one open TLS incident, however
\* results, toggles, edits and deletions of incidents interleave.
AtMostOneOpen ==
    \A i, j \in Ids :
        /\ ledger[i].status = "open" /\ ledger[j].status = "open"
        /\ ledger[i].kind = ledger[j].kind
        /\ ledger[i].source = ledger[j].source
        => i = j

\* A service check that is disabled or deleted has no open incident, and a TLS
\* incident is open only on an HTTPS check whose certificate is watched: a
\* probe in flight when the administrator acts never brings one back.
OpenIncidentIsWatched ==
    \A i \in Ids : \A c \in Checks :
        ledger[i].status = "open" /\ ledger[i].source = c =>
            /\ Watched(c)
            /\ ledger[i].kind = "check_tls" =>
                  check[c].type = "https" /\ check[c].tls

\* An incident causes at most one opening and one recovery letter, the recovery
\* only after the opening one, and only once the incident is no longer open.
LettersPaired ==
    \A i \in Ids :
        /\ ledger[i].opened <= 1
        /\ ledger[i].recovered <= ledger[i].opened
        /\ ledger[i].recovered = 1 => ledger[i].status \in {"resolved", "deleted"}

\* While a confirmed outage is open its check shows no unstable-link marker and
\* has no unconfirmed DOWN pending.
OutageExcludesUnstable ==
    \A i \in Ids :
        /\ ledger[i].status = "open"
        /\ ledger[i].kind \in {"availability", "check"}
        => marker[ledger[i].source] = NoMarker

-----------------------------------------------------------------------------
(* What no step may do. *)

Evidence(h, n) == {h[k] : k \in (Len(h) - n + 1)..Len(h)}

\* An availability or service incident opens only on threshold consecutive DOWN
\* results.  Those of a service check were all probed under the version that is
\* current then; a primary series has no version, and failures of an address the
\* object had before count in it.
OpenedByOwnSeries ==
    [][\A i \in Ids :
          LET s == ledger'[i].source IN
          /\ ledger[i].status = "free"
          /\ ledger'[i].status = "open"
          /\ ledger'[i].kind \in {"availability", "check"}
          => /\ Len(history'[s]) >= threshold
             /\ \A e \in Evidence(history'[s], threshold) :
                   /\ e.status = "down"
                   /\ s \in Checks => e.probed = check[s].version]_vars

\* An open incident is resolved only by an UP result of its own check (a good
\* certificate, for TLS), or because its check is no longer watched that way:
\* an unknown result, or the result of another check, never closes it.
ResolvedForCause ==
    [][\A i \in Ids : \A s \in Sources :
          /\ ledger[i].status = "open" /\ ledger[i].source = s
          /\ ledger'[i].status = "resolved"
          => IF ledger[i].kind = "check_tls"
             THEN ~Watched(s)' \/ ~check'[s].tls \/ cert[s] = "ok"
             ELSE \/ s \in Checks /\ ~Watched(s)'
                  \/ /\ history'[s] # <<>>
                     /\ history'[s][Len(history'[s])].status = "up"]_vars

-----------------------------------------------------------------------------
(* Liveness. *)

Kind(s) == IF s = Primary THEN "availability" ELSE "check"
Reachable(s) ==
    /\ Active
    /\ s # Primary => Watched(s) /\ world[Primary] = "up"

\* A check that stays DOWN while it is monitored ends with an open incident
\* whose opening letter was sent, even if the letters were muted at first.
OutageIsReported ==
    \A s \in Sources :
        <>[](Reachable(s) /\ world[s] = "down" /\ ~target.suppressed)
        => <>[](\E i \in OpenIds(ledger, Kind(s), s) : ledger[i].opened = 1)

\* A check that stays UP while it is monitored ends without an open incident.
RecoveryCloses ==
    \A s \in Sources :
        <>[](Reachable(s) /\ world[s] = "up")
        => <>[](~HasOpen(ledger, Kind(s), s))
=============================================================================
