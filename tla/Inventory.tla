-------------------------------- MODULE Inventory --------------------------------
(***************************************************************************)
(* Work schedules, sites and monitored objects as the pages of              *)
(* web/admin_routes.py edit them: models/site.py, models/target.py,         *)
(* models/work_schedule.py, services/target_clone.py and set_site_entry of  *)
(* services/site_entry.py.                                                  *)
(*                                                                         *)
(* A request of a page is three steps: its session and CSRF token are       *)
(* checked, it reads the rows and decides (its plan), and it commits.       *)
(* PostgreSQL runs it in READ COMMITTED: two requests that overlap read the *)
(* same rows, and SQLAlchemy writes the attributes that the handler changed *)
(* onto whatever row has that id by then.  The ids of a table come from its *)
(* sequence, which no rollback takes back and which a restore (module       *)
(* Backups) sets back, whether it commits or not.                           *)
(***************************************************************************)
EXTENDS Naturals, FiniteSets, FiniteSetsExt

CONSTANTS Admins,        \* administrators, who may edit
          SiteNames, TargetNames,
          Suitable,      \* kinds of object that may be the entry of a site
          Kinds,         \* the kinds of object that occur
          Parts,         \* what can be configured on an object: checks, SNMP, thresholds
          MaxSubmits,    \* bound: requests and saved results
          MaxLogins      \* bound: logins; the administrators start in the first

ASSUME KindsAssumption == Suitable \subseteq Kinds
ASSUME InventoryBoundsAssumption == MaxSubmits \in Nat /\ MaxLogins \in Nat \ {0}

Tables == {"schedules", "sites", "targets"}
Hours == {"always", "weekdays"}
BuiltIn == 0      \* the id of the schedule that is always there

Schedule == [id: Nat, uid: Nat, hours: Hours]
Site == [id: Nat, uid: Nat, name: SiteNames, schedule: Nat, enabled: BOOLEAN]
Target == [id: Nat \ {0}, uid: Nat, site: Nat, name: TargetNames, kind: Kinds, enabled: BOOLEAN,
           entry: BOOLEAN, parts: SUBSET Parts, runtime: BOOLEAN, raced: BOOLEAN]

VARIABLES db,        \* the committed rows of each table, and the objects that have results
          sequence,  \* the next id of each table
          behind,    \* history: the tables whose sequence a restore has set back, and no
                     \* restore has committed since
          born,      \* history: the next uid; a uid, unlike an id, is never given twice
          session,   \* the login under which an administrator works; 0 is none
          logins,    \* the last login
          page,      \* the page an administrator has open: the row it edits and the login
          request,   \* the request an administrator has sent
          submits,   \* requests so far
          job        \* the creation or the restore of a backup (module Backups)

inventoryVars == <<db, sequence, behind, born, session, logins, page, request, submits>>
Rows(table) == db[table]
With(table, id) == {row \in db[table] : row.id = id}
Idle == [stage |-> "idle"]
NoPage == [login |-> 0, table |-> "new", id |-> 0, uid |-> 0]
NoJob == [kind |-> "none"]
-----------------------------------------------------------------------------
(* What a request does when it commits.  A change names the row as it was   *)
(* read and as the handler left it; emptied is a site whose objects go.     *)
Plan(changes, inserts, deletes) ==
    [changes |-> changes, inserts |-> inserts, deletes |-> deletes, emptied |-> {}]
Change(table, seen, want) == [table |-> table, seen |-> seen, want |-> want]
Changing(table, seen, want) == Plan({Change(table, seen, want)}, {}, {})
Inserting(table, row) == Plan({}, {[table |-> table, row |-> row]}, {})
Deleting(table, row) == Plan({}, {}, {[table |-> table, id |-> row.id]})

\* schedule_create: names are not told apart.
PlansOfScheduleCreate == {Inserting("schedules", [hours |-> h]) : h \in Hours}

ScheduleUpdate(schedule) ==
    IF schedule.id = BuiltIn THEN {}
    ELSE {Changing("schedules", schedule, [schedule EXCEPT !.hours = h]) : h \in Hours}

UsesOf(schedule) == {site \in Rows("sites") : site.schedule = schedule.id}

\* Mutant: the page deletes the built-in schedule like any other.
ScheduleDeleteAny(schedule) ==
    IF UsesOf(schedule) # {} THEN {} ELSE {Deleting("schedules", schedule)}

ScheduleDelete(schedule) ==
    IF schedule.id = BuiltIn \/ UsesOf(schedule) # {} THEN {}
    ELSE {Deleting("schedules", schedule)}

FreeNames(id) == SiteNames \ {site.name : site \in {s \in Rows("sites") : s.id # id}}
PlansOfSiteCreate ==
    {Inserting("sites", [name |-> n, schedule |-> schedule.id, enabled |-> TRUE]) :
        n \in FreeNames(0), schedule \in Rows("schedules")}

SiteUpdate(site) ==
    {Changing("sites", site, [site EXCEPT !.name = c.name, !.schedule = c.schedule.id]) :
        c \in [name: FreeNames(site.id), schedule: Rows("schedules")]}

SiteToggle(site) == {Changing("sites", site, [site EXCEPT !.enabled = ~@])}

TargetsOf(site) == {target \in Rows("targets") : target.site = site.id}
SiteDelete(site) == IF TargetsOf(site) # {} THEN {} ELSE {Deleting("sites", site)}

\* site_targets_delete_all: what is deleted is found when the statements run.
SiteEmpty(site) == {[Plan({}, {}, {}) EXCEPT !.emptied = {site.id}]}
-----------------------------------------------------------------------------
(* The entry of a site.                                                     *)

\* The entry that a new one replaces: the first of another object, if there is one.
Previous(siteId, id) ==
    LET others == {t \in Rows("targets") : t.site = siteId /\ t.entry /\ t.id # id}
    IN  {t \in others : \A u \in others : t.id <= u.id}

NoEntry(target) == [target EXCEPT !.entry = FALSE, !.raced = FALSE]

\* Mutant: the previous entry is looked for only among the objects with a greater id.
ReplacedLater(siteId, id, entry) ==
    IF entry
    THEN {Change("targets", t, NoEntry(t)) : t \in {u \in Previous(siteId, id) : u.id > id}}
    ELSE {}

\* set_site_entry: the change of the previous entry.
Replaced(siteId, id, entry) ==
    IF entry THEN {Change("targets", t, NoEntry(t)) : t \in Previous(siteId, id)} ELSE {}

EntryAllowed(kind, entry) == entry => kind \in Suitable

\* clone_target_configuration: thresholds only go with what they watch; the state of the
\* object, and whether it is an entry, stay behind.
ClonedThresholds(source) ==
    IF "metric" \in source.parts THEN source.parts \cap {"threshold"} ELSE {}
Cloned(source) == (source.parts \ {"threshold"}) \cup ClonedThresholds(source)

\* Whether an object with this configuration is already there.
Duplicate(site, name, kind) ==
    \E t \in TargetsOf(site) : t.name = name /\ t.kind = kind

\* target_create, of a fresh object or of a copy.
NewTarget(site, name, kind, entry, copy) ==
    [site |-> site.id, name |-> name, kind |-> kind, entry |-> entry, runtime |-> FALSE,
     enabled |-> copy = {} \/ (\E t \in copy : t.enabled),
     parts |-> UNION {Cloned(t) : t \in copy}, raced |-> FALSE]

TargetCreate(site) ==
    {Plan(Replaced(site.id, 0, c.entry),
          {[table |-> "targets", row |-> NewTarget(site, c.name, c.kind, c.entry, c.copy)]}, {}) :
      c \in {d \in [name: TargetNames, kind: Kinds, entry: BOOLEAN,
                    copy: {{}} \cup {{t} : t \in Rows("targets")}] :
                EntryAllowed(d.kind, d.entry) /\ ~Duplicate(site, d.name, d.kind)}}

\* target_update: an object may move to another site.
TargetUpdate(target) ==
    {Plan({Change("targets", target,
                  [target EXCEPT !.site = c.site.id, !.kind = c.kind, !.entry = c.entry,
                                 !.raced = FALSE])}
            \cup Replaced(c.site.id, target.id, c.entry), {}, {}) :
      c \in {d \in [site: Rows("sites"), kind: Kinds, entry: BOOLEAN] :
                EntryAllowed(d.kind, d.entry)}}

\* target_toggle: the markers of the object start afresh.
TargetToggle(target) ==
    {Changing("targets", target, [target EXCEPT !.enabled = ~@, !.runtime = FALSE])}

TargetDelete(target) == {Deleting("targets", target)}
-----------------------------------------------------------------------------
\* What the handlers that a page leads to may decide about the row it shows.
PlansFor(p) ==
    CASE p.table = "new" -> PlansOfScheduleCreate \cup PlansOfSiteCreate
      [] p.table = "schedules" ->
            UNION {ScheduleUpdate(s) \cup ScheduleDelete(s) : s \in With("schedules", p.id)}
      [] p.table = "sites" ->
            UNION {SiteUpdate(s) \cup SiteToggle(s) \cup SiteDelete(s) \cup SiteEmpty(s)
                     \cup TargetCreate(s) : s \in With("sites", p.id)}
      [] p.table = "targets" ->
            UNION {TargetUpdate(t) \cup TargetToggle(t) \cup TargetDelete(t) :
                     t \in With("targets", p.id)}

Login(a) ==
    /\ session[a] = 0 /\ logins < MaxLogins
    /\ logins' = logins + 1
    /\ session' = [session EXCEPT ![a] = logins']
    /\ UNCHANGED <<db, sequence, behind, born, page, request, submits, job>>

\* A page shows a row, or the form for a new one, and carries the CSRF token of the login.
OpenPage(a) ==
    /\ session[a] # 0 /\ page[a] = NoPage /\ request[a] = Idle /\ submits < MaxSubmits
    /\ \/ page' = [page EXCEPT ![a].login = session[a]]
       \/ \E table \in Tables : \E row \in Rows(table) :
             page' = [page EXCEPT ![a] = [login |-> session[a], table |-> table,
                                          id |-> row.id, uid |-> row.uid]]
    /\ UNCHANGED <<db, sequence, behind, born, session, logins, request, submits, job>>

\* AdminAuth and require_csrf.
Authorised(a) == session[a] # 0 /\ page[a].login = session[a]

Submit(a) ==
    /\ page[a] # NoPage /\ submits < MaxSubmits
    /\ Authorised(a)
    /\ submits' = submits + 1
    /\ request' = [request EXCEPT ![a] = [stage |-> "admitted", page |-> page[a],
                                          overtaken |-> FALSE]]
    /\ page' = [page EXCEPT ![a] = NoPage]
    /\ UNCHANGED <<db, sequence, behind, born, session, logins, job>>

\* The handler reads and decides; a row that is gone or a refusal ends the request.
Decide(a) ==
    /\ request[a].stage = "admitted"
    /\ \/ \E plan \in PlansFor(request[a].page) :
             request' = [request EXCEPT ![a] =
                 [stage |-> "decided", page |-> request[a].page, plan |-> plan,
                  overtaken |-> request[a].overtaken, overlapped |-> FALSE]]
       \/ /\ PlansFor(request[a].page) = {}
          /\ request' = [request EXCEPT ![a] = Idle]
    /\ UNCHANGED <<db, sequence, behind, born, session, logins, page, submits, job>>
-----------------------------------------------------------------------------
(* The commit of a plan.                                                    *)

\* Only the attributes that the handler changed are written.
Written(now, c) ==
    [f \in DOMAIN now |-> IF c.want[f] # c.seen[f] THEN c.want[f] ELSE now[f]]

ChangesOf(plan, table, row) ==
    {c \in plan.changes : c.table = table /\ c.seen.id = row.id}
Gone(plan, table, row) ==
    \/ [table |-> table, id |-> row.id] \in plan.deletes
    \/ table = "targets" /\ row.site \in plan.emptied
NewRow(plan, table) == {i.row : i \in {j \in plan.inserts : j.table = table}}
Numbered(row, table) ==
    [f \in DOMAIN row \cup {"id", "uid"} |->
        CASE f = "id" -> sequence[table] [] f = "uid" -> born [] OTHER -> row[f]]

After(plan, table) ==
    {IF ChangesOf(plan, table, row) = {} THEN row
     ELSE Written(row, CHOOSE c \in ChangesOf(plan, table, row) : TRUE) :
        row \in {r \in Rows(table) : ~Gone(plan, table, r)}}
    \cup {Numbered(row, table) : row \in NewRow(plan, table)}

\* History: requests that overlapped may leave an entry beside another, or unsuitable, and
\* as long as one of those is left the next request leaves its entry beside it.
MarkRaced(targets, sites) ==
    {IF t.entry /\ t.site \in sites THEN [t EXCEPT !.raced = TRUE] ELSE t : t \in targets}
StillRaced(targets) == {t.site : t \in {u \in targets : u.entry /\ u.raced}}
Touched(plan, targets) ==
    {t.site : t \in {u \in targets : ChangesOf(plan, "targets", u) # {} \/ u.id = sequence.targets}}
SitesToMark(a, targets) ==
    StillRaced(targets)
      \cup (IF request[a].overlapped THEN Touched(request[a].plan, targets) ELSE {})

Committed(a) ==
    LET plan == request[a].plan
        targets == After(plan, "targets")
    IN  [schedules |-> After(plan, "schedules"), sites |-> After(plan, "sites"),
         targets |-> MarkRaced(targets, SitesToMark(a, targets)),
         results |-> db.results \cap {t.id : t \in targets}]

\* Foreign keys and unique names.  A row to change must still be there.
ForeignKeys(d) ==
    /\ \A site \in d.sites : \E s \in d.schedules : s.id = site.schedule
    /\ \A target \in d.targets : \E s \in d.sites : s.id = target.site
    /\ d.results \subseteq {t.id : t \in d.targets}
UniqueNames(d) == \A s, t \in d.sites : s.name = t.name => s = t
\* An entry that no race has left is suitable and the only one of its site.
SoleEntries(targets) ==
    \A t, u \in targets :
        t.entry /\ u.entry /\ t.site = u.site /\ ~t.raced => t = u /\ t.kind \in Suitable
UniqueIds(d) == \A table \in Tables : \A r, s \in d[table] : r.id = s.id => r = s
Constraints(d) == UniqueIds(d) /\ UniqueNames(d) /\ ForeignKeys(d)
Accepted(a) ==
    /\ \A c \in request[a].plan.changes : With(c.table, c.seen.id) # {}
    /\ Constraints(Committed(a))

\* A restore in progress has deleted these rows and not committed.
Locked(table, id) ==
    job.kind = "restore" /\ \E row \in job.cleared[table] : row.id = id
\* The unique index of the names knows the sites it has deleted and inserted.
LockedName(name) ==
    /\ job.kind = "restore"
    /\ \/ \E site \in job.cleared.sites : site.name = name
       \/ job.set /\ \E site \in job.file.rows.sites : site.name = name
Waits(plan) ==
    \/ \E i \in plan.inserts : Locked(i.table, sequence[i.table])
    \/ \E i \in plan.inserts : i.table = "sites" /\ LockedName(i.row.name)
    \/ \E c \in plan.changes :
          c.table = "sites" /\ c.want.name # c.seen.name /\ LockedName(c.want.name)
    \/ \E c \in plan.changes : Locked(c.table, c.seen.id)
    \/ \E c \in plan.changes : c.table = "sites" /\ Locked("schedules", c.want.schedule)
    \/ \E c \in plan.changes : c.table = "targets" /\ Locked("sites", c.want.site)
    \/ \E d \in plan.deletes : Locked(d.table, d.id)
    \/ \E i \in plan.inserts : i.table = "sites" /\ Locked("schedules", i.row.schedule)
    \/ \E i \in plan.inserts : i.table = "targets" /\ Locked("sites", i.row.site)
    \/ \E s \in plan.emptied, t \in Rows("targets") : t.site = s /\ Locked("targets", t.id)

Disturbed == IF job.kind \in {"none", "lost"} THEN job ELSE [job EXCEPT !.disturbed = TRUE]

\* The sequences after the inserts of a plan.
Taken(plan) ==
    [t \in Tables |-> IF NewRow(plan, t) = {} THEN sequence[t] ELSE sequence[t] + 1]

Commit(a) ==
    /\ request[a].stage = "decided" /\ ~Waits(request[a].plan)
    /\ Accepted(a)
    /\ db' = Committed(a)
    /\ sequence' = Taken(request[a].plan)
    /\ born' = IF request[a].plan.inserts = {} THEN born ELSE born + 1
    /\ request' = [b \in Admins |->
                      CASE b = a -> Idle
                        [] b # a /\ request[b].stage = "decided" ->
                             [request[b] EXCEPT !.overlapped = TRUE]
                        [] OTHER -> request[b]]
    /\ job' = Disturbed
    /\ UNCHANGED <<behind, session, logins, page, submits>>

\* A constraint or a vanished row ends the request with an error and no change; so may, for
\* a request that a restore overtook, a row that the restore deleted while it waited.  The
\* ids of rows that it got to insert are spent.
Fail(a) ==
    /\ request[a].stage = "decided" /\ ~Waits(request[a].plan)
    /\ ~Accepted(a) \/ request[a].overtaken
    /\ sequence' \in {sequence, Taken(request[a].plan)}
    /\ request' = [request EXCEPT ![a] = Idle]
    /\ UNCHANGED <<db, behind, born, session, logins, page, submits, job>>

\* The scheduler saves a result, and the markers of its object with it.
SaveResult(target) ==
    /\ ~Locked("targets", target.id) /\ target.enabled
    /\ target.id \notin db.results /\ submits < MaxSubmits
    /\ submits' = submits + 1
    /\ db' = [db EXCEPT !.results = @ \cup {target.id},
                        !.targets = {t \in @ : t # target} \cup {[target EXCEPT !.runtime = TRUE]}]
    /\ job' = Disturbed
    /\ UNCHANGED <<sequence, behind, born, session, logins, page, request>>

InventoryNext ==
    \/ \E a \in Admins : Login(a) \/ OpenPage(a) \/ Submit(a) \/ Decide(a) \/ Commit(a) \/ Fail(a)
    \/ \E target \in Rows("targets") : SaveResult(target)
=============================================================================
