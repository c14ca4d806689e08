-------------------------- MODULE BackupsProofs --------------------------
(***************************************************************************)
(* The inventory beside backups and restores, for every set of names,      *)
(* archives and administrators.  An id means one row for as long as a login*)
(* lasts, because a sequence only goes up until a restore sets it back, and*)
(* a restore that commits ends every login: only the tables of a restore   *)
(* that has not committed are left out.  A site keeps one entry because    *)
(* what a request has decided stays right until another request or a       *)
(* restore commits, which marks it.  And an undisturbed backup holds what  *)
(* the database held, in order and whole, so that nothing can refuse its   *)
(* restore.                                                                *)
(***************************************************************************)
EXTENDS Backups, NaturalsInduction, WellFoundedInduction, TLAPS

-----------------------------------------------------------------------------
(* What a change of a row writes. *)

LEMMA WrittenSchedule ==
    ASSUME NEW now \in Schedule, NEW c, c.seen \in Schedule, c.want \in Schedule,
           c.want.id = c.seen.id, c.want.uid = c.seen.uid
    PROVE  Written(now, c) \in Schedule /\ Written(now, c).id = now.id
             /\ Written(now, c).uid = now.uid
  BY DEF Written, Schedule

LEMMA WrittenSite ==
    ASSUME NEW now \in Site, NEW c, c.seen \in Site, c.want \in Site,
           c.want.id = c.seen.id, c.want.uid = c.seen.uid
    PROVE  Written(now, c) \in Site /\ Written(now, c).id = now.id
             /\ Written(now, c).uid = now.uid
  BY DEF Written, Site

LEMMA WrittenTarget ==
    ASSUME NEW now \in Target, NEW c, c.seen \in Target, c.want \in Target,
           c.want.id = c.seen.id, c.want.uid = c.seen.uid
    PROVE  /\ Written(now, c) \in Target /\ Written(now, c).id = now.id
           /\ Written(now, c).uid = now.uid
           /\ Written(now, c).site = IF c.want.site # c.seen.site THEN c.want.site ELSE now.site
           /\ Written(now, c).kind = IF c.want.kind # c.seen.kind THEN c.want.kind ELSE now.kind
           /\ Written(now, c).entry = IF c.want.entry # c.seen.entry THEN c.want.entry ELSE now.entry
           /\ Written(now, c).raced = IF c.want.raced # c.seen.raced THEN c.want.raced ELSE now.raced
  BY DEF Written, Target

LEMMA NumberedTarget ==
    ASSUME NEW row \in [site: Nat, name: TargetNames, kind: Kinds, entry: BOOLEAN, runtime: BOOLEAN,
                        enabled: BOOLEAN, parts: SUBSET Parts, raced: BOOLEAN],
           sequence.targets \in Nat \ {0}, born \in Nat
    PROVE  /\ Numbered(row, "targets") \in Target
           /\ Numbered(row, "targets").id = sequence.targets
           /\ Numbered(row, "targets").uid = born
           /\ Numbered(row, "targets").site = row.site
           /\ Numbered(row, "targets").kind = row.kind
           /\ Numbered(row, "targets").entry = row.entry
           /\ Numbered(row, "targets").raced = row.raced
  BY DEF Numbered, Target
LEMMA NumberedSchedule ==
    ASSUME NEW row \in [hours: Hours], sequence.schedules \in Nat, born \in Nat
    PROVE  /\ Numbered(row, "schedules") \in Schedule
           /\ Numbered(row, "schedules").id = sequence.schedules
           /\ Numbered(row, "schedules").uid = born
  BY DEF Numbered, Schedule

LEMMA NumberedSite ==
    ASSUME NEW row \in [name: SiteNames, schedule: Nat, enabled: BOOLEAN],
           sequence.sites \in Nat, born \in Nat
    PROVE  /\ Numbered(row, "sites") \in Site
           /\ Numbered(row, "sites").id = sequence.sites
           /\ Numbered(row, "sites").uid = born
  BY DEF Numbered, Site

-----------------------------------------------------------------------------
(* Plans: a change keeps the identity of its row, and at most one row is new. *)

NewObject == [site: Nat, name: TargetNames, kind: Kinds, entry: BOOLEAN, runtime: BOOLEAN,
              enabled: BOOLEAN, parts: SUBSET Parts, raced: BOOLEAN]

Changes ==
    {c \in [table: {"schedules"}, seen: Schedule, want: Schedule]
           \cup [table: {"sites"}, seen: Site, want: Site]
           \cup [table: {"targets"}, seen: Target, want: Target] :
        c.want.id = c.seen.id /\ c.want.uid = c.seen.uid}
Inserts ==
    [table: {"schedules"}, row: [hours: Hours]]
      \cup [table: {"sites"}, row: [name: SiteNames, schedule: Nat, enabled: BOOLEAN]]
      \cup [table: {"targets"}, row: NewObject]
Plans ==
    {p \in [changes: SUBSET Changes, inserts: SUBSET Inserts,
            deletes: SUBSET [table: Tables, id: Nat], emptied: SUBSET Nat] :
        \A i, j \in p.inserts : i = j}

\* The ids of a database or an archive have a last one.
Bounded(rows) ==
    \A table \in Tables : \E bound \in Nat : \A row \in rows[table] : row.id <= bound

\* The committed rows, and the ids still to be given.
DbShapes ==
    /\ db \in Database /\ sequence \in [Tables -> Nat \ {0}] /\ born \in Nat
    /\ behind \in SUBSET Tables /\ UniqueIds(db) /\ Bounded(db)
    /\ \A table \in Tables \ behind : \A row \in db[table] : row.id < sequence[table]

LEMMA TablesAre ==
    ASSUME NEW d \in Database
    PROVE  /\ d["schedules"] \in SUBSET Schedule /\ d["sites"] \in SUBSET Site
           /\ d["targets"] \in SUBSET Target /\ d["results"] \in SUBSET Nat
           /\ d.schedules = d["schedules"] /\ d.sites = d["sites"] /\ d.targets = d["targets"]
           /\ \A table \in Tables : \A row \in d[table] : row.id \in Nat /\ row.uid \in Nat
  BY DEF Database, Tables, Schedule, Site, Target

\* The row that a commit makes of a row.
Image(plan, table, row) ==
    IF ChangesOf(plan, table, row) = {} THEN row
    ELSE Written(row, CHOOSE c \in ChangesOf(plan, table, row) : TRUE)

LEMMA AfterImages ==
    ASSUME NEW plan, NEW table
    PROVE  After(plan, table)
             = {Image(plan, table, row) : row \in {r \in db[table] : ~Gone(plan, table, r)}}
                 \cup {Numbered(row, table) : row \in NewRow(plan, table)}
  BY DEF After, Image, Rows

LEMMA ImageTyped ==
    ASSUME NEW plan \in Plans, DbShapes
    PROVE  /\ \A row \in db.schedules : Image(plan, "schedules", row) \in Schedule
           /\ \A row \in db.sites : Image(plan, "sites", row) \in Site
           /\ \A row \in db.targets : Image(plan, "targets", row) \in Target
           /\ \A table \in Tables : \A row \in db[table] :
                 /\ Image(plan, table, row).id = row.id /\ Image(plan, table, row).uid = row.uid
  <1>1. /\ db.schedules \subseteq Schedule /\ db.sites \subseteq Site /\ db.targets \subseteq Target
        /\ db.schedules = db["schedules"] /\ db.sites = db["sites"] /\ db.targets = db["targets"]
    BY TablesAre DEF DbShapes
  <1>2. \A c \in plan.changes : c \in Changes
    BY DEF Plans
  <1>3. ASSUME NEW row \in db.schedules
        PROVE  /\ Image(plan, "schedules", row) \in Schedule
               /\ Image(plan, "schedules", row).id = row.id
               /\ Image(plan, "schedules", row).uid = row.uid
    <2>1. CASE ChangesOf(plan, "schedules", row) = {}
      BY <1>1, <2>1 DEF Image
    <2>2. CASE ChangesOf(plan, "schedules", row) # {}
      <3> DEFINE c == CHOOSE c \in ChangesOf(plan, "schedules", row) : TRUE
      <3>1. c \in Changes /\ c.table = "schedules"
        BY <1>2, <2>2 DEF ChangesOf
      <3>2. Image(plan, "schedules", row) = Written(row, c)
        BY <2>2 DEF Image
      <3> HIDE DEF c
      <3>3. /\ c.seen \in Schedule /\ c.want \in Schedule
            /\ c.want.id = c.seen.id /\ c.want.uid = c.seen.uid
        BY <3>1 DEF Changes
      <3> QED
        BY <1>1, <3>2, <3>3, WrittenSchedule
    <2> QED
      BY <2>1, <2>2
  <1>4. ASSUME NEW row \in db.sites
        PROVE  /\ Image(plan, "sites", row) \in Site
               /\ Image(plan, "sites", row).id = row.id
               /\ Image(plan, "sites", row).uid = row.uid
    <2>1. CASE ChangesOf(plan, "sites", row) = {}
      BY <1>1, <2>1 DEF Image
    <2>2. CASE ChangesOf(plan, "sites", row) # {}
      <3> DEFINE c == CHOOSE c \in ChangesOf(plan, "sites", row) : TRUE
      <3>1. c \in Changes /\ c.table = "sites"
        BY <1>2, <2>2 DEF ChangesOf
      <3>2. Image(plan, "sites", row) = Written(row, c)
        BY <2>2 DEF Image
      <3> HIDE DEF c
      <3>3. /\ c.seen \in Site /\ c.want \in Site
            /\ c.want.id = c.seen.id /\ c.want.uid = c.seen.uid
        BY <3>1 DEF Changes
      <3> QED
        BY <1>1, <3>2, <3>3, WrittenSite
    <2> QED
      BY <2>1, <2>2
  <1>5. ASSUME NEW row \in db.targets
        PROVE  /\ Image(plan, "targets", row) \in Target
               /\ Image(plan, "targets", row).id = row.id
               /\ Image(plan, "targets", row).uid = row.uid
    <2>1. CASE ChangesOf(plan, "targets", row) = {}
      BY <1>1, <2>1 DEF Image
    <2>2. CASE ChangesOf(plan, "targets", row) # {}
      <3> DEFINE c == CHOOSE c \in ChangesOf(plan, "targets", row) : TRUE
      <3>1. c \in Changes /\ c.table = "targets"
        BY <1>2, <2>2 DEF ChangesOf
      <3>2. Image(plan, "targets", row) = Written(row, c)
        BY <2>2 DEF Image
      <3> HIDE DEF c
      <3>3. /\ c.seen \in Target /\ c.want \in Target
            /\ c.want.id = c.seen.id /\ c.want.uid = c.seen.uid
        BY <3>1 DEF Changes
      <3> QED
        BY <1>1, <3>2, <3>3, WrittenTarget
    <2> QED
      BY <2>1, <2>2
  <1> QED
    BY <1>1, <1>3, <1>4, <1>5 DEF Tables
\* What is inserted, once it is numbered.
LEMMA NewRows ==
    ASSUME NEW plan \in Plans, DbShapes
    PROVE  /\ \A row \in NewRow(plan, "schedules") : Numbered(row, "schedules") \in Schedule
           /\ \A row \in NewRow(plan, "sites") : Numbered(row, "sites") \in Site
           /\ \A row \in NewRow(plan, "targets") :
                 row \in NewObject /\ Numbered(row, "targets") \in Target
           /\ \A table \in Tables : \A row \in NewRow(plan, table) :
                 /\ Numbered(row, table).id = sequence[table]
                 /\ Numbered(row, table).uid = born
           /\ \A table : \A row, other \in NewRow(plan, table) : row = other
  <1>1. /\ sequence.schedules \in Nat \ {0} /\ sequence.sites \in Nat \ {0}
        /\ sequence.targets \in Nat \ {0} /\ born \in Nat
    BY DEF DbShapes, Tables
  <1>2. \A i \in plan.inserts : i \in Inserts
    BY DEF Plans
  <1>3. \A i, j \in plan.inserts : i = j
    BY DEF Plans
  <1>4. \A row \in NewRow(plan, "schedules") : row \in [hours: Hours]
    BY <1>2 DEF NewRow, Inserts
  <1>5. \A row \in NewRow(plan, "sites") :
           row \in [name: SiteNames, schedule: Nat, enabled: BOOLEAN]
    BY <1>2 DEF NewRow, Inserts
  <1>6. \A row \in NewRow(plan, "targets") : row \in NewObject
    BY <1>2 DEF NewRow, Inserts
  <1>7. ASSUME NEW row \in NewRow(plan, "targets")
        PROVE  /\ Numbered(row, "targets") \in Target
               /\ Numbered(row, "targets").id = sequence["targets"]
               /\ Numbered(row, "targets").uid = born
    BY <1>1, <1>6, NumberedTarget DEF NewObject
  <1>8. ASSUME NEW row \in NewRow(plan, "sites")
        PROVE  /\ Numbered(row, "sites") \in Site
               /\ Numbered(row, "sites").id = sequence["sites"]
               /\ Numbered(row, "sites").uid = born
    BY <1>1, <1>5, NumberedSite
  <1>9. ASSUME NEW row \in NewRow(plan, "schedules")
        PROVE  /\ Numbered(row, "schedules") \in Schedule
               /\ Numbered(row, "schedules").id = sequence["schedules"]
               /\ Numbered(row, "schedules").uid = born
    BY <1>1, <1>4, NumberedSchedule
  <1>10. \A table : \A row, other \in NewRow(plan, table) : row = other
    BY <1>3 DEF NewRow
  <1>11. \A table \in Tables : \A row \in NewRow(plan, table) :
            /\ Numbered(row, table).id = sequence[table]
            /\ Numbered(row, table).uid = born
    BY <1>7, <1>8, <1>9 DEF Tables
  <1> QED
    BY <1>6, <1>7, <1>8, <1>9, <1>10, <1>11

\* A row after a commit is a row of before, or the new one.
LEMMA AfterRows ==
    ASSUME NEW plan \in Plans, DbShapes, NEW table \in Tables
    PROVE  /\ \A r \in After(plan, table) :
                 \/ \E row \in db[table] : r.id = row.id /\ r.uid = row.uid
                 \/ NewRow(plan, table) # {} /\ r.id = sequence[table] /\ r.uid = born
           /\ table \notin behind => \A r \in After(plan, table) :
                 r.id < (IF NewRow(plan, table) = {} THEN sequence[table] ELSE sequence[table] + 1)
  <1>1. \A row \in db[table] :
           Image(plan, table, row).id = row.id /\ Image(plan, table, row).uid = row.uid
    BY ImageTyped
  <1>2. \A row \in NewRow(plan, table) :
           /\ Numbered(row, table).id = sequence[table] /\ Numbered(row, table).uid = born
           /\ \A other \in NewRow(plan, table) : row = other
    BY NewRows
  <1>3. \A row \in db[table] : row.id \in Nat
    BY TablesAre DEF DbShapes
  <1>4. table \notin behind => \A row \in db[table] : row.id < sequence[table]
    BY DEF DbShapes
  <1>5. sequence[table] \in Nat
    BY DEF DbShapes
  <1>6. ASSUME NEW r \in After(plan, table)
        PROVE  \/ \E row \in db[table] : r = Image(plan, table, row)
               \/ \E row \in NewRow(plan, table) : r = Numbered(row, table)
    BY AfterImages
  <1>7. ASSUME NEW r \in After(plan, table)
        PROVE  \/ \E row \in db[table] : r.id = row.id /\ r.uid = row.uid
               \/ NewRow(plan, table) # {} /\ r.id = sequence[table] /\ r.uid = born
    BY <1>1, <1>2, <1>6
  <1>8. ASSUME table \notin behind, NEW r \in After(plan, table)
        PROVE  r.id < (IF NewRow(plan, table) = {} THEN sequence[table] ELSE sequence[table] + 1)
    BY <1>3, <1>4, <1>5, <1>7, <1>8
  <1> QED
    BY <1>7, <1>8

LEMMA AfterTyped ==
    ASSUME NEW plan \in Plans, DbShapes
    PROVE  /\ After(plan, "schedules") \in SUBSET Schedule
           /\ After(plan, "sites") \in SUBSET Site
           /\ After(plan, "targets") \in SUBSET Target
  <1>1. db.schedules = db["schedules"] /\ db.sites = db["sites"] /\ db.targets = db["targets"]
    BY TablesAre DEF DbShapes
  <1> QED
    BY <1>1, ImageTyped, NewRows, AfterImages

\* A mark changes nothing else.
Mark(t, sites) == IF t.entry /\ t.site \in sites THEN [t EXCEPT !.raced = TRUE] ELSE t

LEMMA Marks ==
    ASSUME NEW targets \in SUBSET Target, NEW sites
    PROVE  /\ MarkRaced(targets, sites) \in SUBSET Target
           /\ \A m \in MarkRaced(targets, sites) : \E t \in targets :
                 /\ m = Mark(t, sites) /\ m.id = t.id /\ m.uid = t.uid
                 /\ m.site = t.site /\ m.kind = t.kind /\ m.entry = t.entry
                 /\ m.raced = (t.raced \/ (t.entry /\ t.site \in sites))
  <1>1. ASSUME NEW t \in targets
        PROVE  LET m == Mark(t, sites)
               IN  /\ m \in Target /\ m.id = t.id /\ m.uid = t.uid
                   /\ m.site = t.site /\ m.kind = t.kind /\ m.entry = t.entry
                   /\ m.raced = (t.raced \/ (t.entry /\ t.site \in sites))
    BY DEF Mark, Target
  <1>2. MarkRaced(targets, sites) = {Mark(t, sites) : t \in targets}
    BY DEF MarkRaced, Mark
  <1> QED
    BY <1>1, <1>2
-----------------------------------------------------------------------------
(* What the pages decide are plans. *)

LEMMA ChangingIsPlan ==
    ASSUME NEW table, NEW seen, NEW want, Change(table, seen, want) \in Changes
    PROVE  Changing(table, seen, want) \in Plans
  BY DEF Changing, Plan, Plans

LEMMA InsertingIsPlan ==
    ASSUME NEW table, NEW row, [table |-> table, row |-> row] \in Inserts
    PROVE  Inserting(table, row) \in Plans
  BY DEF Inserting, Plan, Plans

LEMMA DeletingIsPlan ==
    ASSUME NEW table \in Tables, NEW row, row.id \in Nat
    PROVE  Deleting(table, row) \in Plans
  BY DEF Deleting, Plan, Plans

LEMMA SchedulePlans ==
    ASSUME DbShapes, NEW s \in db["schedules"]
    PROVE  ScheduleUpdate(s) \cup ScheduleDelete(s) \subseteq Plans
  <1>1. s \in Schedule /\ s.id \in Nat
    BY TablesAre DEF DbShapes, Schedule
  <1>2. ScheduleDelete(s) \subseteq Plans
    BY <1>1, DeletingIsPlan DEF ScheduleDelete, Tables
  <1>3. ASSUME NEW h \in Hours
        PROVE  Change("schedules", s, [s EXCEPT !.hours = h]) \in Changes
    BY <1>1 DEF Change, Changes, Schedule
  <1>4. ScheduleUpdate(s) \subseteq Plans
    BY <1>3, ChangingIsPlan DEF ScheduleUpdate
  <1> QED
    BY <1>2, <1>4

LEMMA NewPlans ==
    ASSUME DbShapes
    PROVE  PlansOfScheduleCreate \cup PlansOfSiteCreate \subseteq Plans
  <1>1. ASSUME NEW h \in Hours
        PROVE  [table |-> "schedules", row |-> [hours |-> h]] \in Inserts
    BY DEF Inserts
  <1>2. PlansOfScheduleCreate \subseteq Plans
    BY <1>1, InsertingIsPlan DEF PlansOfScheduleCreate
  <1>3. ASSUME NEW n \in FreeNames(0), NEW s \in Rows("schedules")
        PROVE  [table |-> "sites", row |-> [name |-> n, schedule |-> s.id, enabled |-> TRUE]]
                  \in Inserts
    <2>1. n \in SiteNames
      BY DEF FreeNames
    <2>2. s.id \in Nat
      BY TablesAre DEF DbShapes, Rows, Tables
    <2> QED
      BY <2>1, <2>2 DEF Inserts
  <1>4. ASSUME NEW plan \in PlansOfSiteCreate
        PROVE  plan \in Plans
    <2>1. PICK n \in FreeNames(0), schedule \in Rows("schedules") :
             plan = Inserting("sites", [name |-> n, schedule |-> schedule.id, enabled |-> TRUE])
      BY DEF PlansOfSiteCreate
    <2> QED
      BY <1>3, <2>1, InsertingIsPlan
  <1> QED
    BY <1>2, <1>4

LEMMA SitePlans ==
    ASSUME DbShapes, NEW s \in db["sites"]
    PROVE  SiteUpdate(s) \cup SiteToggle(s) \cup SiteDelete(s) \cup SiteEmpty(s) \subseteq Plans
  <1>1. s \in Site /\ s.id \in Nat
    BY TablesAre DEF DbShapes, Site
  <1>2. SiteDelete(s) \subseteq Plans
    BY <1>1, DeletingIsPlan DEF SiteDelete, Tables
  <1>3. ASSUME NEW plan \in SiteUpdate(s)
        PROVE  plan \in Plans
    <2>1. PICK c \in [name: FreeNames(s.id), schedule: Rows("schedules")] :
             plan = Changing("sites", s, [s EXCEPT !.name = c.name, !.schedule = c.schedule.id])
      BY DEF SiteUpdate
    <2> DEFINE want == [s EXCEPT !.name = c.name, !.schedule = c.schedule.id]
    <2>2. c.name \in SiteNames
      BY DEF FreeNames
    <2>3. c.schedule.id \in Nat
      BY TablesAre DEF DbShapes, Rows, Tables
    <2>4. Change("sites", s, want) \in Changes
      BY <1>1, <2>2, <2>3 DEF Change, Changes, Site
    <2>5. plan = Changing("sites", s, want)
      BY <2>1
    <2> HIDE DEF want
    <2> QED
      BY <2>4, <2>5, ChangingIsPlan
  <1>4. Change("sites", s, [s EXCEPT !.enabled = ~@]) \in Changes
    BY <1>1 DEF Change, Changes, Site
  <1>5. SiteToggle(s) \subseteq Plans
    BY <1>4, ChangingIsPlan DEF SiteToggle
  <1>6. SiteEmpty(s) \subseteq Plans
    BY <1>1 DEF SiteEmpty, Plan, Plans
  <1> QED
    BY <1>2, <1>3, <1>5, <1>6

LEMMA ReplacedChanges ==
    ASSUME DbShapes, NEW site, NEW id, NEW entry
    PROVE  Replaced(site, id, entry) \subseteq Changes
  <1>1. \A t \in Previous(site, id) : t \in Target
    BY TablesAre DEF DbShapes, Previous, Rows
  <1>2. ASSUME NEW t \in Target
        PROVE  Change("targets", t, NoEntry(t)) \in Changes
    BY DEF Change, NoEntry, Changes, Target
  <1> QED
    BY <1>1, <1>2 DEF Replaced

LEMMA NewTargetTyped ==
    ASSUME DbShapes, NEW s \in db["sites"], NEW name \in TargetNames, NEW kind \in Kinds,
           NEW entry \in BOOLEAN, NEW copy \in {{}} \cup {{t} : t \in Rows("targets")}
    PROVE  NewTarget(s, name, kind, entry, copy) \in NewObject
  <1>1. s.id \in Nat
    BY TablesAre DEF DbShapes, Tables
  <1>2. \A t \in copy : t \in Target
    BY TablesAre DEF DbShapes, Rows
  <1>3. \A t \in copy : Cloned(t) \subseteq Parts
    BY <1>2 DEF Cloned, ClonedThresholds, Target
  <1>4. UNION {Cloned(t) : t \in copy} \in SUBSET Parts
    BY <1>3
  <1>5. (copy = {} \/ (\E t \in copy : t.enabled)) \in BOOLEAN
    OBVIOUS
  <1> DEFINE P == UNION {Cloned(t) : t \in copy}
             E == copy = {} \/ (\E t \in copy : t.enabled)
  <1>6. P \in SUBSET Parts /\ E \in BOOLEAN
    BY <1>4, <1>5
  <1>7. NewTarget(s, name, kind, entry, copy)
          = [site |-> s.id, name |-> name, kind |-> kind, entry |-> entry, runtime |-> FALSE,
             enabled |-> E, parts |-> P, raced |-> FALSE]
    BY DEF NewTarget
  <1> HIDE DEF P, E
  <1> QED
    BY <1>1, <1>6, <1>7 DEF NewObject

LEMMA CreatePlans ==
    ASSUME DbShapes, NEW s \in db["sites"]
    PROVE  TargetCreate(s) \subseteq Plans
  <1>1. ASSUME NEW plan \in TargetCreate(s)
        PROVE  plan \in Plans
    <2>1. PICK c \in [name: TargetNames, kind: Kinds, entry: BOOLEAN,
                      copy: {{}} \cup {{t} : t \in Rows("targets")}] :
             plan = Plan(Replaced(s.id, 0, c.entry),
                         {[table |-> "targets",
                           row |-> NewTarget(s, c.name, c.kind, c.entry, c.copy)]}, {})
      BY DEF TargetCreate
    <2>2. NewTarget(s, c.name, c.kind, c.entry, c.copy) \in NewObject
      BY NewTargetTyped
    <2>3. [table |-> "targets", row |-> NewTarget(s, c.name, c.kind, c.entry, c.copy)] \in Inserts
      BY <2>2 DEF Inserts
    <2>4. Replaced(s.id, 0, c.entry) \subseteq Changes
      BY ReplacedChanges
    <2> QED
      BY <2>1, <2>3, <2>4 DEF Plan, Plans
  <1> QED
    BY <1>1

LEMMA TargetPlans ==
    ASSUME DbShapes, NEW t \in db["targets"]
    PROVE  TargetUpdate(t) \cup TargetToggle(t) \cup TargetDelete(t) \subseteq Plans
  <1>1. t \in Target /\ t.id \in Nat
    BY TablesAre DEF DbShapes, Target
  <1>2. TargetDelete(t) \subseteq Plans
    BY <1>1, DeletingIsPlan DEF TargetDelete, Tables
  <1>3. Change("targets", t, [t EXCEPT !.enabled = ~@, !.runtime = FALSE]) \in Changes
    BY <1>1 DEF Change, Changes, Target
  <1>4. TargetToggle(t) \subseteq Plans
    BY <1>3, ChangingIsPlan DEF TargetToggle
  <1>5. ASSUME NEW plan \in TargetUpdate(t)
        PROVE  plan \in Plans
    <2>1. PICK c \in [site: Rows("sites"), kind: Kinds, entry: BOOLEAN] :
             plan = Plan({Change("targets", t,
                              [t EXCEPT !.site = c.site.id, !.kind = c.kind, !.entry = c.entry,
                                        !.raced = FALSE])}
                           \cup Replaced(c.site.id, t.id, c.entry), {}, {})
      BY DEF TargetUpdate
    <2>2. c.site.id \in Nat
      BY TablesAre DEF DbShapes, Rows, Tables
    <2>3. Change("targets", t, [t EXCEPT !.site = c.site.id, !.kind = c.kind, !.entry = c.entry,
                                         !.raced = FALSE]) \in Changes
      BY <1>1, <2>2 DEF Change, Changes, Target
    <2>4. Replaced(c.site.id, t.id, c.entry) \subseteq Changes
      BY ReplacedChanges
    <2> QED
      BY <2>1, <2>3, <2>4 DEF Plan, Plans
  <1> QED
    BY <1>2, <1>4, <1>5

Pages == [login: Nat, table: Tables \cup {"new"}, id: Nat, uid: Nat]

LEMMA PlansForAre ==
    ASSUME DbShapes, NEW p \in Pages
    PROVE  PlansFor(p) \subseteq Plans
  <1>1. CASE p.table = "new"
    BY <1>1, NewPlans DEF PlansFor
  <1>2. CASE p.table = "schedules"
    BY <1>2, SchedulePlans DEF PlansFor, With
  <1>3. CASE p.table = "sites"
    BY <1>3, SitePlans, CreatePlans DEF PlansFor, With
  <1>4. CASE p.table = "targets"
    BY <1>4, TargetPlans DEF PlansFor, With
  <1> QED
    BY <1>1, <1>2, <1>3, <1>4 DEF Pages, Tables
-----------------------------------------------------------------------------
(* The shapes of what the pages and the backups keep. *)

Admitted == [stage: {"admitted"}, page: Pages, overtaken: BOOLEAN]
DecidedOnes == [stage: {"decided"}, page: Pages, plan: Plans,
                overtaken: BOOLEAN, overlapped: BOOLEAN]

BackupJobs ==
    {j \in [kind: {"backup"}, full: BOOLEAN, left: Seq(Tables \cup {"results"}),
            rows: Database, truth: Database, disturbed: BOOLEAN] : Bounded(j.rows)}
RestoreJobs ==
    {j \in [kind: {"restore"}, file: Archives, cleared: Database, left: Seq(Tables),
            set: BOOLEAN, disturbed: BOOLEAN] : Bounded(j.file.rows)}
Lost == [kind |-> "lost"]

PageShapes ==
    /\ session \in [Admins -> 0 .. MaxLogins] /\ logins \in 0 .. MaxLogins
    /\ page \in [Admins -> Pages] /\ submits \in 0 .. MaxSubmits
RequestShapes == request \in [Admins -> {Idle} \cup Admitted \cup DecidedOnes]
JobShapes ==
    /\ jobs \in 0 .. MaxJobs
    /\ files \in SUBSET Archives /\ \A file \in files : Bounded(file.rows)
    /\ job \in {NoJob, Lost} \cup BackupJobs \cup RestoreJobs
Shapes == DbShapes /\ PageShapes /\ RequestShapes /\ JobShapes

LEMMA DecidedIsDecided ==
    ASSUME RequestShapes, NEW a \in Admins, request[a].stage = "decided"
    PROVE  request[a] \in DecidedOnes
  BY DEF RequestShapes, Idle, Admitted, DecidedOnes

LEMMA AdmittedIsAdmitted ==
    ASSUME RequestShapes, NEW a \in Admins, request[a].stage = "admitted"
    PROVE  request[a] \in Admitted
  BY DEF RequestShapes, Idle, Admitted, DecidedOnes

LEMMA RestoreJobIs ==
    ASSUME JobShapes, job.kind = "restore"
    PROVE  job \in RestoreJobs
  BY DEF JobShapes, NoJob, Lost, BackupJobs, RestoreJobs

LEMMA BackupJobIs ==
    ASSUME JobShapes, job.kind = "backup"
    PROVE  job \in BackupJobs
  BY DEF JobShapes, NoJob, Lost, BackupJobs, RestoreJobs

\* Rows go or keep their identity, and what is new has an id that none had.
Grows ==
    \A table \in Tables :
        /\ sequence[table] <= sequence'[table]
        /\ \A r \in db'[table] :
              \/ \E row \in db[table] : r.id = row.id /\ r.uid = row.uid
              \/ r.id = sequence[table] /\ r.id < sequence'[table]

LEMMA TakenSequence ==
    ASSUME DbShapes, NEW plan
    PROVE  /\ Taken(plan) \in [Tables -> Nat \ {0}]
           /\ \A table \in Tables :
                 /\ sequence[table] <= Taken(plan)[table]
                 /\ Taken(plan)[table] =
                      IF NewRow(plan, table) = {} THEN sequence[table] ELSE sequence[table] + 1
  BY DEF DbShapes, Taken

LEMMA BoundedGrows ==
    ASSUME DbShapes, db' \in Database, Grows
    PROVE  Bounded(db)'
  <1>1. ASSUME NEW table \in Tables
        PROVE  \E bound \in Nat : \A row \in db'[table] : row.id <= bound
    <2>1. PICK bound \in Nat : \A row \in db[table] : row.id <= bound
      BY DEF DbShapes, Bounded
    <2>2. sequence[table] \in Nat
      BY DEF DbShapes
    <2>3. \A row \in db'[table] : row.id \in Nat
      BY TablesAre
    <2>4. \A row \in db'[table] : row.id <= bound \/ row.id = sequence[table]
      BY <2>1 DEF Grows
    <2>5. bound + sequence[table] \in Nat
      BY <2>1, <2>2
    <2>6. \A row \in db'[table] : row.id <= bound + sequence[table]
      BY <2>1, <2>2, <2>3, <2>4
    <2> QED
      BY <2>5, <2>6
  <1> QED
    BY <1>1 DEF Bounded

LEMMA CommitDb ==
    ASSUME DbShapes, NEW a \in Admins, request[a] \in DecidedOnes, Commit(a)
    PROVE  DbShapes' /\ Grows
  <1> DEFINE plan == request[a].plan
             T == After(plan, "targets")
             sites == SitesToMark(a, T)
  <1>1. plan \in Plans
    BY DEF DecidedOnes
  <1>2. /\ db' = Committed(a) /\ UniqueIds(Committed(a)) /\ behind' = behind
        /\ sequence' = [t \in Tables |-> IF NewRow(plan, t) = {} THEN sequence[t]
                                         ELSE sequence[t] + 1]
        /\ born' = IF plan.inserts = {} THEN born ELSE born + 1
    BY DEF Commit, Taken, Accepted, Constraints
  <1> HIDE DEF plan
  <1>3. db' = [schedules |-> After(plan, "schedules"), sites |-> After(plan, "sites"),
               targets |-> MarkRaced(T, sites), results |-> db.results \cap {t.id : t \in T}]
    BY <1>2 DEF Committed, plan
  <1>4. /\ After(plan, "schedules") \in SUBSET Schedule /\ After(plan, "sites") \in SUBSET Site
        /\ T \in SUBSET Target
    BY <1>1, AfterTyped
  <1>5. \A table \in Tables :
           /\ \A r \in After(plan, table) :
                 \/ \E row \in db[table] : r.id = row.id /\ r.uid = row.uid
                 \/ NewRow(plan, table) # {} /\ r.id = sequence[table] /\ r.uid = born
           /\ table \notin behind => \A r \in After(plan, table) :
                 r.id < (IF NewRow(plan, table) = {} THEN sequence[table] ELSE sequence[table] + 1)
    BY <1>1, AfterRows
  <1> HIDE DEF T, sites
  <1>6. /\ MarkRaced(T, sites) \in SUBSET Target
        /\ \A m \in MarkRaced(T, sites) : \E t \in T :
              m = Mark(t, sites) /\ m.id = t.id /\ m.uid = t.uid
    BY <1>4, Marks
  <1>7. db.results \in SUBSET Nat
    BY TablesAre DEF DbShapes
  <1>8. db' \in Database
    BY <1>3, <1>4, <1>6, <1>7 DEF Database
  <1>9. \A table \in Tables : sequence[table] \in Nat \ {0}
    BY DEF DbShapes
  <1>10. sequence' \in [Tables -> Nat \ {0}] /\ born' \in Nat
    BY <1>2, <1>9 DEF DbShapes
  <1>11. ASSUME NEW table \in Tables
         PROVE  \A r \in db'[table] : \E t \in After(plan, table) : r.id = t.id /\ r.uid = t.uid
    <2>1. CASE table = "targets"
      <3>1. db'[table] = MarkRaced(T, sites)
        BY <1>3, <2>1
      <3> QED
        BY <1>6, <2>1, <3>1 DEF T
    <2>2. CASE table # "targets"
      <3>1. db'[table] = After(plan, table)
        BY <1>3, <2>2 DEF Tables
      <3> QED
        BY <3>1
    <2> QED
      BY <2>1, <2>2
  <1>12. UniqueIds(db)'
    BY <1>2 DEF UniqueIds
  <1>13. \A table \in Tables \ behind : \A row \in db'[table] : row.id < sequence'[table]
    BY <1>2, <1>5, <1>11
  <1>14. Grows
    BY <1>2, <1>5, <1>9, <1>11 DEF Grows
  <1>15. Bounded(db)'
    BY <1>8, <1>14, BoundedGrows
  <1> QED
    BY <1>2, <1>8, <1>10, <1>12, <1>13, <1>14, <1>15 DEF DbShapes

LEMMA SaveDb ==
    ASSUME DbShapes, NEW target \in Rows("targets"), SaveResult(target)
    PROVE  DbShapes' /\ Grows
  <1> DEFINE saved == [target EXCEPT !.runtime = TRUE]
             others == {t \in db.targets : t # target}
  <1>1. /\ db.targets = db["targets"] /\ db.targets \in SUBSET Target
        /\ db.results \in SUBSET Nat /\ db \in Database
    BY TablesAre DEF DbShapes
  <1>2. target \in db.targets /\ target \in Target
    BY <1>1 DEF Rows
  <1>3. /\ saved \in Target /\ saved.id = target.id /\ saved.uid = target.uid
    BY <1>2 DEF Target
  <1>4. /\ db' = [db EXCEPT !.results = @ \cup {target.id}, !.targets = others \cup {saved}]
        /\ sequence' = sequence /\ born' = born /\ behind' = behind
    BY DEF SaveResult
  <1>5. target.id \in Nat
    BY <1>2 DEF Target
  <1>6. others \cup {saved} \in SUBSET Target
    BY <1>1, <1>3
  <1>7. \A r \in others \cup {saved} : \E row \in db.targets : r.id = row.id /\ r.uid = row.uid
    BY <1>2, <1>3
  <1>8. \A r, s \in db.targets : r.id = s.id => r = s
    BY <1>1 DEF DbShapes, UniqueIds, Tables
  <1>9. \A r, s \in others \cup {saved} : r.id = s.id => r = s
    BY <1>2, <1>3, <1>8
  <1> HIDE DEF saved, others
  <1>10. db' \in Database /\ db'["targets"] = others \cup {saved}
         /\ db'["sites"] = db["sites"] /\ db'["schedules"] = db["schedules"]
    BY <1>1, <1>4, <1>5, <1>6 DEF Database
  <1>11. UniqueIds(db)'
    BY <1>9, <1>10 DEF DbShapes, UniqueIds, Tables
  <1>12. ASSUME NEW table \in Tables
         PROVE  \A r \in db'[table] : \E row \in db[table] : r.id = row.id /\ r.uid = row.uid
    BY <1>1, <1>7, <1>10 DEF Tables
  <1>13. \A table \in Tables : sequence[table] \in Nat
    BY DEF DbShapes
  <1>14. Grows
    BY <1>4, <1>12, <1>13 DEF Grows
  <1>15. \A table \in Tables \ behind : \A row \in db'[table] : row.id < sequence'[table]
    BY <1>4, <1>12 DEF DbShapes
  <1>16. Bounded(db)'
    BY <1>10, <1>14, BoundedGrows
  <1> QED
    BY <1>4, <1>10, <1>11, <1>14, <1>15, <1>16 DEF DbShapes
Less == OpToRel(<, Nat)

LEMMA LeastElement ==
    ASSUME NEW S \in SUBSET Nat, S # {}
    PROVE  \E i \in S : \A j \in S : i <= j
  <1>1. IsWellFoundedOn(Less, Nat)
    BY NatLessThanWellFounded DEF Less
  <1>2. \A p, q \in Nat : <<p, q>> \notin Less => q <= p
    <2>1. \A p, q \in Nat : p < q => <<p, q>> \in Less
      BY DEF Less, OpToRel
    <2> QED
      BY <2>1
  <1> HIDE DEF Less
  <1>3. \E i \in S : \A j \in S : ~(<<j, i>> \in Less)
    BY <1>1, WFMin
  <1> QED
    BY <1>2, <1>3

\* Numbers below a bound have a last one, and Max is that one.
LEMMA MaxOfBounded ==
    ASSUME NEW S \in SUBSET Nat, S # {}, NEW bound \in Nat, \A x \in S : x <= bound
    PROVE  Max(S) \in S /\ \A y \in S : y <= Max(S)
  <1> DEFINE T == {bound - x : x \in S}
  <1>1. T \in SUBSET Nat /\ T # {}
    <2>1. \A x \in S : bound - x \in Nat
      OBVIOUS
    <2> QED
      BY <2>1
  <1>2. PICK i \in T : \A j \in T : i <= j
    BY <1>1, LeastElement
  <1>3. PICK x \in S : i = bound - x
    BY <1>2
  <1>4. \A y \in S : y <= x
    <2> TAKE y \in S
    <2>1. bound - x <= bound - y
      BY <1>2, <1>3
    <2> QED
      BY <2>1
  <1>5. \A y \in S : x >= y
    BY <1>4
  <1> QED
    BY <1>5 DEF Max

\* What a restore leaves, if it commits now.
LEMMA RestoredTyped ==
    ASSUME DbShapes, JobShapes, job.kind = "restore"
    PROVE  /\ Restored \in Database
           /\ \A table \in Tables : \A row \in Restored[table] :
                 \/ \E r \in Survivors(table) : row.id = r.id
                 \/ \E r \in job.file.rows[table] : row.id = r.id
           /\ \A table : Survivors(table) \subseteq db[table]
           /\ Bounded(job.file.rows)
  <1> DEFINE here == Survivors("targets")
             there == job.file.rows.targets
             shared == SharedSites(here, there)
             archived == job.file.rows
             results == (db.results \cap {t.id : t \in Survivors("targets")}) \cup archived.results
  <1>1. job \in RestoreJobs
    BY RestoreJobIs
  <1>2. archived \in Database /\ Bounded(archived)
    BY <1>1 DEF RestoreJobs, Archives
  <1>3. /\ Survivors("schedules") \in SUBSET Schedule /\ Survivors("sites") \in SUBSET Site
        /\ here \in SUBSET Target /\ db.results \in SUBSET Nat
        /\ \A table : Survivors(table) \subseteq db[table]
    BY TablesAre DEF DbShapes, Survivors
  <1>4. /\ archived.schedules \in SUBSET Schedule /\ archived.sites \in SUBSET Site
        /\ there \in SUBSET Target /\ archived.results \in SUBSET Nat
        /\ archived.schedules = archived["schedules"] /\ archived.sites = archived["sites"]
        /\ there = archived["targets"]
    BY <1>2, TablesAre
  <1>5. Restored = [schedules |-> Survivors("schedules") \cup archived.schedules,
                    sites |-> Survivors("sites") \cup archived.sites,
                    targets |-> MarkRaced(here \cup there, shared), results |-> results]
    BY DEF Restored
  <1>6. results \in SUBSET Nat
    BY <1>3, <1>4
  <1> HIDE DEF here, there, shared, archived, results
  <1>7. here \cup there \in SUBSET Target
    BY <1>3, <1>4
  <1>8. /\ MarkRaced(here \cup there, shared) \in SUBSET Target
        /\ \A m \in MarkRaced(here \cup there, shared) : \E t \in here \cup there : m.id = t.id
    BY <1>7, Marks
  <1>9. Restored \in Database
    BY <1>3, <1>4, <1>5, <1>6, <1>8 DEF Database
  <1>10. ASSUME NEW table \in Tables, NEW row \in Restored[table]
         PROVE  \/ \E r \in Survivors(table) : row.id = r.id
                \/ \E r \in archived[table] : row.id = r.id
    <2>1. CASE table = "targets"
      BY <1>4, <1>5, <1>8, <2>1 DEF here
    <2>2. CASE table = "sites"
      BY <1>4, <1>5, <2>2
    <2>3. CASE table = "schedules"
      BY <1>4, <1>5, <2>3
    <2> QED
      BY <2>1, <2>2, <2>3 DEF Tables
  <1> QED
    BY <1>2, <1>3, <1>9, <1>10 DEF archived

LEMMA RestoredKeeps ==
    ASSUME DbShapes, JobShapes, job.kind = "restore", NEW table \in Tables,
           NEW row \in Survivors(table) \cup job.file.rows[table]
    PROVE  \E r \in Restored[table] : r.id = row.id
  <1> DEFINE all == Survivors("targets") \cup job.file.rows.targets
             shared == SharedSites(Survivors("targets"), job.file.rows.targets)
  <1>1. /\ Restored["targets"] = MarkRaced(all, shared)
        /\ Restored["sites"] = Survivors("sites") \cup job.file.rows.sites
        /\ Restored["schedules"] = Survivors("schedules") \cup job.file.rows.schedules
    BY DEF Restored
  <1>2. job.file.rows \in Database
    BY RestoreJobIs DEF RestoreJobs, Archives
  <1>3. all \in SUBSET Target
    BY <1>2, TablesAre DEF DbShapes, Survivors
  <1>4. CASE table = "targets"
    <2>1. row \in all
      BY <1>4
    <2> HIDE DEF all, shared
    <2>2. Mark(row, shared) \in Restored[table] /\ Mark(row, shared).id = row.id
      BY <1>1, <1>3, <1>4, <2>1 DEF MarkRaced, Mark, Target
    <2> QED
      BY <2>2
  <1>5. CASE table = "sites"
    BY <1>1, <1>5
  <1>6. CASE table = "schedules"
    BY <1>1, <1>6
  <1> QED
    BY <1>4, <1>5, <1>6 DEF Tables

\* Once a restore has set the sequences, they stay above all that it leaves.
Above ==
    job.kind = "restore" /\ job.set =>
        \A table \in Tables :
            /\ \A row \in Survivors(table) : row.id < sequence[table]
            /\ \A row \in job.file.rows[table] : row.id < sequence[table]

LEMMA RestoreDb ==
    ASSUME DbShapes, JobShapes, Above, CommitRestore
    PROVE  DbShapes'
  <1>1. /\ job.kind = "restore" /\ job.set /\ db' = Restored /\ behind' = {} /\ UniqueIds(Restored)
        /\ UNCHANGED <<sequence, born>>
    BY DEF CommitRestore, Integrity, Constraints
  <1>2. /\ Restored \in Database
        /\ \A table \in Tables : \A row \in Restored[table] :
              \/ \E r \in Survivors(table) : row.id = r.id
              \/ \E r \in job.file.rows[table] : row.id = r.id
    BY <1>1, RestoredTyped
  <1>3. \A table \in Tables : \A row \in db'[table] : row.id < sequence'[table]
    BY <1>1, <1>2 DEF Above
  <1>4. \A table \in Tables : sequence[table] \in Nat
    BY DEF DbShapes
  <1>5. Bounded(db)'
    <2>1. ASSUME NEW table \in Tables
          PROVE  \E bound \in Nat : \A row \in db'[table] : row.id <= bound
      <3>1. \A row \in db'[table] : row.id \in Nat
        BY <1>1, <1>2, TablesAre
      <3> QED
        BY <1>1, <1>3, <1>4, <3>1
    <2> QED
      BY <2>1 DEF Bounded
  <1>6. UniqueIds(db)'
    BY <1>1 DEF UniqueIds
  <1> QED
    BY <1>1, <1>2, <1>3, <1>5, <1>6 DEF DbShapes

LEMMA NextIdsAbove ==
    ASSUME DbShapes, JobShapes, job.kind = "restore"
    PROVE  /\ NextIds(Restored) \in [Tables -> Nat \ {0}]
           /\ \A table \in Tables : \A row \in Restored[table] :
                 row.id < NextIds(Restored)[table]
  <1>1. /\ Restored \in Database /\ Bounded(job.file.rows)
        /\ \A table \in Tables : \A row \in Restored[table] :
              \/ \E r \in Survivors(table) : row.id = r.id
              \/ \E r \in job.file.rows[table] : row.id = r.id
        /\ \A table : Survivors(table) \subseteq db[table]
    BY RestoredTyped
  <1>2. ASSUME NEW table \in Tables
        PROVE  LET next == Max({0} \cup {row.id : row \in Restored[table]}) + 1
               IN  next \in Nat \ {0} /\ \A row \in Restored[table] : row.id < next
    <2> DEFINE ids == {0} \cup {row.id : row \in Restored[table]}
    <2>1. PICK bound \in Nat : \A row \in job.file.rows[table] : row.id <= bound
      BY <1>1 DEF Bounded
    <2>2. PICK last \in Nat : \A row \in db[table] : row.id <= last
      BY DEF DbShapes, Bounded
    <2>3. \A row \in Restored[table] : row.id \in Nat
      BY <1>1, TablesAre
    <2>4. ids \in SUBSET Nat /\ ids # {} /\ bound + last \in Nat
      BY <2>3
    <2>5. \A x \in ids : x <= bound + last
      <3>1. \A row \in Restored[table] : row.id <= bound \/ row.id <= last
        BY <1>1, <2>1, <2>2
      <3> QED
        BY <2>3, <3>1
    <2>6. \A row \in Restored[table] : row.id \in ids
      OBVIOUS
    <2> HIDE DEF ids
    <2>7. Max(ids) \in ids /\ \A y \in ids : y <= Max(ids)
      BY <2>4, <2>5, MaxOfBounded
    <2>8. Max(ids) \in Nat
      BY <2>4, <2>7
    <2>9. \A row \in Restored[table] : row.id < Max(ids) + 1
      BY <2>3, <2>6, <2>7, <2>8
    <2> QED
      BY <2>8, <2>9 DEF ids
  <1> QED
    BY <1>2 DEF NextIds

LEMMA SetDb ==
    ASSUME DbShapes, JobShapes, SetSequences
    PROVE  /\ DbShapes' /\ Above' /\ job' \in RestoreJobs
           /\ \A table \in Tables \ behind' : sequence[table] <= sequence'[table]
  <1>1. /\ job.kind = "restore" /\ sequence' = NextIds(Restored) /\ UNCHANGED <<db, born>>
        /\ behind' = behind \cup {t \in Tables : sequence'[t] < sequence[t]}
        /\ job' = [job EXCEPT !.set = TRUE]
    BY DEF SetSequences
  <1>2. /\ sequence' \in [Tables -> Nat \ {0}]
        /\ \A table \in Tables : \A row \in Restored[table] : row.id < sequence'[table]
    BY <1>1, NextIdsAbove
  <1>3. \A table \in Tables : sequence[table] \in Nat /\ sequence'[table] \in Nat
    BY <1>2 DEF DbShapes
  <1>4. \A table \in Tables \ behind' : sequence[table] <= sequence'[table]
    BY <1>1, <1>3
  <1>5. \A table \in Tables \ behind' : \A row \in db'[table] : row.id < sequence'[table]
    <2>1. \A table \in Tables : \A row \in db[table] : row.id \in Nat
      BY TablesAre DEF DbShapes
    <2>2. \A table \in Tables \ behind : \A row \in db[table] : row.id < sequence[table]
      BY DEF DbShapes
    <2> QED
      BY <1>1, <1>3, <1>4, <2>1, <2>2
  <1>6. DbShapes'
    BY <1>1, <1>2, <1>5 DEF DbShapes, UniqueIds, Bounded
  <1>7. job \in RestoreJobs
    BY <1>1, RestoreJobIs
  <1>8. job' \in RestoreJobs /\ job'.kind = "restore" /\ job'.file = job.file
        /\ job'.cleared = job.cleared
    BY <1>1, <1>7 DEF RestoreJobs
  <1>9. Above'
    <2>1. ASSUME NEW table \in Tables
          PROVE  \A row \in Survivors(table) \cup job.file.rows[table] :
                    \E r \in Restored[table] : r.id = row.id
      BY <1>1, RestoredKeeps
    <2>2. \A table : Survivors(table)' = Survivors(table)
      BY <1>1, <1>8 DEF Survivors, Locked
    <2> QED
      BY <1>2, <1>8, <2>1, <2>2 DEF Above
  <1> QED
    BY <1>4, <1>6, <1>8, <1>9

LEMMA AboveKept ==
    ASSUME Above, DbShapes, DbShapes', JobShapes, Grows, job' = job \/ job' = Disturbed
    PROVE  Above'
  <1> SUFFICES ASSUME job'.kind = "restore", job'.set, NEW table \in Tables
               PROVE  /\ \A row \in Survivors(table)' : row.id < sequence'[table]
                      /\ \A row \in job'.file.rows[table] : row.id < sequence'[table]
    BY DEF Above
  <1>1. /\ job.kind = "restore" /\ job.set /\ job \in RestoreJobs
        /\ job'.file = job.file /\ job'.cleared = job.cleared
    <2>1. CASE job' = job
      BY <2>1, RestoreJobIs
    <2>2. CASE job' # job
      <3>1. job' = [job EXCEPT !.disturbed = TRUE] /\ job \in BackupJobs \cup RestoreJobs
        BY <2>2 DEF Disturbed, JobShapes, NoJob, Lost
      <3>2. job \in RestoreJobs
        BY <3>1 DEF BackupJobs
      <3> QED
        BY <3>1, <3>2 DEF RestoreJobs
    <2> QED
      BY <2>1, <2>2
  <1>2. sequence[table] \in Nat /\ sequence'[table] \in Nat /\ sequence[table] <= sequence'[table]
    BY DEF DbShapes, Grows
  <1>3. /\ \A row \in Survivors(table) : row.id < sequence[table]
        /\ \A row \in job.file.rows[table] : row.id < sequence[table]
    BY <1>1 DEF Above
  <1>4. /\ \A row \in db[table] : row.id \in Nat
        /\ \A row \in job.file.rows[table] : row.id \in Nat
    BY <1>1, TablesAre DEF DbShapes, RestoreJobs, Archives
  <1>5. ASSUME NEW row \in Survivors(table)'
        PROVE  row.id < sequence'[table]
    <2>1. row \in db'[table] /\ ~Locked(table, row.id)'
      BY DEF Survivors
    <2>2. ~Locked(table, row.id)
      BY <1>1, <2>1 DEF Locked
    <2>3. CASE row.id < sequence'[table]
      BY <2>3
    <2>4. ASSUME NEW r \in db[table], row.id = r.id
          PROVE  row.id < sequence'[table]
      <3>1. r \in Survivors(table)
        BY <2>2, <2>4 DEF Survivors
      <3> QED
        BY <1>2, <1>3, <1>4, <2>4, <3>1
    <2> QED
      BY <2>1, <2>3, <2>4 DEF Grows
  <1>6. \A row \in job'.file.rows[table] : row.id < sequence'[table]
    BY <1>1, <1>2, <1>3, <1>4
  <1> QED
    BY <1>5, <1>6

LEMMA DisturbedShape ==
    ASSUME JobShapes
    PROVE  Disturbed \in {NoJob, Lost} \cup BackupJobs \cup RestoreJobs
  <1>1. CASE job \in {NoJob, Lost}
    BY <1>1 DEF Disturbed, NoJob, Lost
  <1>2. CASE job \in BackupJobs
    <2>1. Disturbed = [job EXCEPT !.disturbed = TRUE]
      BY <1>2 DEF Disturbed, BackupJobs
    <2> QED
      BY <1>2, <2>1 DEF BackupJobs
  <1>3. CASE job \in RestoreJobs
    <2>1. Disturbed = [job EXCEPT !.disturbed = TRUE]
      BY <1>3 DEF Disturbed, RestoreJobs
    <2> QED
      BY <1>3, <2>1 DEF RestoreJobs
  <1> QED
    BY <1>1, <1>2, <1>3 DEF JobShapes

LEMMA SameDb ==
    ASSUME DbShapes, UNCHANGED <<db, sequence, born, behind>>
    PROVE  DbShapes' /\ Grows
  <1>1. \A table \in Tables : sequence[table] \in Nat
    BY DEF DbShapes
  <1> QED
    BY <1>1 DEF DbShapes, UniqueIds, Bounded, Grows

LEMMA SameJobs ==
    ASSUME JobShapes, UNCHANGED <<job, files, jobs>>
    PROVE  JobShapes'
  BY DEF JobShapes

\* A request that fails may have spent an id.
LEMMA FailDb ==
    ASSUME DbShapes, NEW a \in Admins, Fail(a)
    PROVE  DbShapes' /\ Grows
  <1> DEFINE taken == Taken(request[a].plan)
  <1>1. /\ UNCHANGED <<db, born, behind>> /\ sequence' \in {sequence, taken}
    BY DEF Fail
  <1>2. taken \in [Tables -> Nat \ {0}] /\ \A table \in Tables : sequence[table] <= taken[table]
    BY TakenSequence
  <1> HIDE DEF taken
  <1>3. /\ sequence' \in [Tables -> Nat \ {0}]
        /\ \A table \in Tables : sequence[table] \in Nat /\ sequence[table] <= sequence'[table]
    BY <1>1, <1>2 DEF DbShapes
  <1>4. Grows
    BY <1>1, <1>3 DEF Grows
  <1>5. \A table \in Tables \ behind' : \A row \in db'[table] : row.id < sequence'[table]
    <2>1. \A table \in Tables : \A row \in db[table] : row.id \in Nat
      BY TablesAre DEF DbShapes
    <2>2. \A table \in Tables \ behind : \A row \in db[table] : row.id < sequence[table]
      BY DEF DbShapes
    <2>3. \A table \in Tables : sequence'[table] \in Nat
      BY <1>3
    <2> QED
      BY <1>1, <1>3, <2>1, <2>2, <2>3
  <1> QED
    BY <1>1, <1>3, <1>4, <1>5 DEF DbShapes, UniqueIds, Bounded

LEMMA InventoryShapes ==
    ASSUME Shapes, InventoryNext, UNCHANGED <<files, jobs>>
    PROVE  Shapes' /\ Grows
  <1> USE DEF Shapes
  <1>1. ASSUME NEW a \in Admins, Login(a)
        PROVE  Shapes' /\ Grows
    <2>1. PageShapes'
      BY <1>1, InventoryBoundsAssumption DEF Login, PageShapes
    <2>2. RequestShapes'
      BY <1>1 DEF Login, RequestShapes
    <2> QED
      BY <1>1, <2>1, <2>2, SameDb, SameJobs DEF Login
  <1>2. ASSUME NEW a \in Admins, OpenPage(a)
        PROVE  Shapes' /\ Grows
    <2>1. session[a] \in Nat /\ page[a] \in Pages
      BY DEF PageShapes
    <2>2. page' \in [Admins -> Pages]
      <3>1. CASE page' = [page EXCEPT ![a].login = session[a]]
        BY <2>1, <3>1 DEF PageShapes, Pages
      <3>2. ASSUME NEW table \in Tables, NEW row \in Rows(table),
                   page' = [page EXCEPT ![a] = [login |-> session[a], table |-> table,
                                                id |-> row.id, uid |-> row.uid]]
            PROVE  page' \in [Admins -> Pages]
        <4>1. row.id \in Nat /\ row.uid \in Nat
          BY TablesAre DEF DbShapes, Rows
        <4>2. [login |-> session[a], table |-> table, id |-> row.id, uid |-> row.uid] \in Pages
          BY <2>1, <4>1 DEF Pages
        <4> QED
          BY <3>2, <4>2 DEF PageShapes
      <3> QED
        BY <1>2, <3>1, <3>2 DEF OpenPage
    <2>3. PageShapes'
      BY <1>2, <2>2 DEF OpenPage, PageShapes
    <2>4. RequestShapes'
      BY <1>2 DEF OpenPage, RequestShapes
    <2> QED
      BY <1>2, <2>3, <2>4, SameDb, SameJobs DEF OpenPage
  <1>3. ASSUME NEW a \in Admins, Submit(a)
        PROVE  Shapes' /\ Grows
    <2>1. page[a] \in Pages /\ NoPage \in Pages
      BY DEF PageShapes, NoPage, Pages
    <2>2. submits' \in 0 .. MaxSubmits
      BY <1>3, InventoryBoundsAssumption DEF Submit, PageShapes
    <2>3. PageShapes'
      BY <1>3, <2>1, <2>2 DEF Submit, PageShapes
    <2>4. RequestShapes'
      BY <1>3, <2>1 DEF Submit, RequestShapes, Admitted
    <2> QED
      BY <1>3, <2>3, <2>4, SameDb, SameJobs DEF Submit
  <1>4. ASSUME NEW a \in Admins, Decide(a)
        PROVE  Shapes' /\ Grows
    <2>1. request[a] \in Admitted
      BY <1>4, AdmittedIsAdmitted DEF Decide
    <2>2. PlansFor(request[a].page) \subseteq Plans
      BY <2>1, PlansForAre DEF Admitted
    <2>3. request' \in [Admins -> {Idle} \cup Admitted \cup DecidedOnes]
      <3>1. ASSUME NEW plan \in PlansFor(request[a].page),
                   request' = [request EXCEPT ![a] =
                     [stage |-> "decided", page |-> request[a].page, plan |-> plan,
                      overtaken |-> request[a].overtaken, overlapped |-> FALSE]]
            PROVE  request' \in [Admins -> {Idle} \cup Admitted \cup DecidedOnes]
        <4>1. [stage |-> "decided", page |-> request[a].page, plan |-> plan,
               overtaken |-> request[a].overtaken, overlapped |-> FALSE] \in DecidedOnes
          BY <2>1, <2>2 DEF Admitted, DecidedOnes
        <4> QED
          BY <3>1, <4>1 DEF RequestShapes
      <3>2. CASE request' = [request EXCEPT ![a] = Idle]
        BY <3>2 DEF RequestShapes
      <3> QED
        BY <1>4, <3>1, <3>2 DEF Decide
    <2>4. PageShapes'
      BY <1>4 DEF Decide, PageShapes
    <2> QED
      BY <1>4, <2>3, <2>4, SameDb, SameJobs DEF Decide, RequestShapes
  <1>5. ASSUME NEW a \in Admins, Commit(a)
        PROVE  Shapes' /\ Grows
    <2>1. request[a] \in DecidedOnes
      BY <1>5, DecidedIsDecided DEF Commit
    <2>2. DbShapes' /\ Grows
      BY <1>5, <2>1, CommitDb
    <2>3. PageShapes'
      BY <1>5 DEF Commit, PageShapes
    <2>4. job' = Disturbed
      BY <1>5 DEF Commit
    <2>5. JobShapes'
      BY <2>4, DisturbedShape DEF JobShapes
    <2>6. ASSUME NEW b \in Admins
          PROVE  request'[b] \in {Idle} \cup Admitted \cup DecidedOnes
      <3>1. request'[b] = CASE b = a -> Idle
                            [] b # a /\ request[b].stage = "decided" ->
                                 [request[b] EXCEPT !.overlapped = TRUE]
                            [] OTHER -> request[b]
        BY <1>5 DEF Commit
      <3>2. CASE b # a /\ request[b].stage = "decided"
        <4>1. request[b] \in DecidedOnes
          BY <3>2, DecidedIsDecided
        <4> QED
          BY <3>1, <3>2, <4>1 DEF DecidedOnes
      <3>3. CASE ~(b # a /\ request[b].stage = "decided")
        BY <3>1, <3>3 DEF RequestShapes
      <3> QED
        BY <3>2, <3>3
    <2>7. request' = [b \in Admins |-> request'[b]]
      BY <1>5 DEF Commit
    <2>8. RequestShapes'
      BY <2>6, <2>7 DEF RequestShapes
    <2> QED
      BY <2>2, <2>3, <2>5, <2>8
  <1>6. ASSUME NEW a \in Admins, Fail(a)
        PROVE  Shapes' /\ Grows
    <2>1. RequestShapes'
      BY <1>6 DEF Fail, RequestShapes
    <2>2. PageShapes'
      BY <1>6 DEF Fail, PageShapes
    <2>3. DbShapes' /\ Grows
      BY <1>6, FailDb
    <2> QED
      BY <1>6, <2>1, <2>2, <2>3, SameJobs DEF Fail
  <1>7. ASSUME NEW target \in Rows("targets"), SaveResult(target)
        PROVE  Shapes' /\ Grows
    <2>1. DbShapes' /\ Grows
      BY <1>7, SaveDb
    <2>2. PageShapes'
      BY <1>7, InventoryBoundsAssumption DEF SaveResult, PageShapes
    <2>3. RequestShapes'
      BY <1>7 DEF SaveResult, RequestShapes
    <2>4. job' = Disturbed
      BY <1>7 DEF SaveResult
    <2>5. JobShapes'
      BY <2>4, DisturbedShape DEF JobShapes
    <2> QED
      BY <2>1, <2>2, <2>3, <2>5
  <1> QED
    BY <1>1, <1>2, <1>3, <1>4, <1>5, <1>6, <1>7 DEF InventoryNext
\* What a backup reads of a table.
LEMMA SectionTyped ==
    ASSUME DbShapes, NEW full \in BOOLEAN
    PROVE  /\ SectionOf("schedules", full) \in SUBSET Schedule
           /\ SectionOf("sites", full) \in SUBSET Site
           /\ SectionOf("targets", full) \in SUBSET Target
           /\ SectionOf("results", full) \in SUBSET Nat
           /\ \A table \in Tables : \E bound \in Nat :
                 \A row \in SectionOf(table, full) : row.id <= bound
  <1>1. /\ db["schedules"] \in SUBSET Schedule /\ db["sites"] \in SUBSET Site
        /\ db["targets"] \in SUBSET Target /\ db["results"] \in SUBSET Nat
        /\ db.targets = db["targets"]
    BY TablesAre DEF DbShapes
  <1>2. \A t \in db.targets : [t EXCEPT !.runtime = FALSE] \in Target /\
                              [t EXCEPT !.runtime = FALSE].id = t.id
    BY <1>1 DEF Target
  <1>3. Clean(db.targets) \in SUBSET Target
    BY <1>2 DEF Clean
  <1>4. \A row \in Clean(db.targets) : \E t \in db.targets : row.id = t.id
    BY <1>2 DEF Clean
  <1>6. ASSUME NEW table \in Tables
        PROVE  \E bound \in Nat : \A row \in SectionOf(table, full) : row.id <= bound
    <2>1. \A row \in SectionOf(table, full) : \E t \in db[table] : row.id = t.id
      BY <1>1, <1>4 DEF SectionOf
    <2>2. PICK bound \in Nat : \A t \in db[table] : t.id <= bound
      BY DEF DbShapes, Bounded
    <2> QED
      BY <2>1, <2>2
  <1> QED
    BY <1>1, <1>3, <1>6 DEF SectionOf

LEMMA ReadShapes ==
    ASSUME DbShapes, JobShapes, ReadSection
    PROVE  job' \in BackupJobs
  <1> DEFINE table == Head(job.left)
             section == SectionOf(table, job.full)
             rows == [job.rows EXCEPT ![table] = section]
  <1>1. job \in BackupJobs /\ job.left # <<>>
    BY BackupJobIs DEF ReadSection
  <1>2. /\ job.full \in BOOLEAN /\ job.left \in Seq(Tables \cup {"results"})
        /\ job.rows \in Database /\ Bounded(job.rows)
    BY <1>1 DEF BackupJobs
  <1>3. table \in Tables \cup {"results"} /\ Tail(job.left) \in Seq(Tables \cup {"results"})
    BY <1>1, <1>2
  <1>4. job' = [job EXCEPT !.left = Tail(@), !.rows[table] = section]
    BY DEF ReadSection
  <1> HIDE DEF table, section
  <1>5. /\ (table = "schedules" => section \in SUBSET Schedule)
        /\ (table = "sites" => section \in SUBSET Site)
        /\ (table = "targets" => section \in SUBSET Target)
        /\ (table = "results" => section \in SUBSET Nat)
        /\ (table \in Tables => \E bound \in Nat : \A row \in section : row.id <= bound)
    BY <1>2, SectionTyped DEF section
  <1>6. rows \in Database
    BY <1>2, <1>3, <1>5 DEF Database, Tables
  <1>7. ASSUME NEW t \in Tables
        PROVE  \E bound \in Nat : \A row \in rows[t] : row.id <= bound
    <2>1. CASE t = table
      <3>1. rows[t] = section
        BY <1>2, <1>3, <2>1 DEF Database, Tables
      <3> QED
        BY <1>5, <2>1, <3>1
    <2>2. CASE t # table
      <3>1. rows[t] = job.rows[t]
        BY <1>2, <2>2 DEF Database, Tables
      <3> QED
        BY <1>2, <3>1 DEF Bounded
    <2> QED
      BY <2>1, <2>2
  <1>8. job' = [job EXCEPT !.left = Tail(@), !.rows = rows]
    BY <1>1, <1>4 DEF BackupJobs
  <1>9. Bounded(rows)
    BY <1>7 DEF Bounded
  <1> HIDE DEF rows
  <1> QED
    BY <1>1, <1>3, <1>6, <1>8, <1>9 DEF BackupJobs

LEMMA UploadsBounded ==
    ASSUME NEW file \in Uploads
    PROVE  file \in Archives /\ Bounded(file.rows)
  <1>1. file \in Archives
    BY UploadsAssumption
  <1>2. file.rows \in Database
    BY <1>1 DEF Archives
  <1>3. ASSUME NEW table \in Tables
        PROVE  \E bound \in Nat : \A row \in file.rows[table] : row.id <= bound
    <2>1. CASE file.rows[table] = {}
      BY <2>1
    <2>2. CASE file.rows[table] # {}
      <3>1. PICK last \in file.rows[table] : \A row \in file.rows[table] : row.id <= last.id
        BY <2>2, UploadsAssumption
      <3>2. last.id \in Nat
        BY <1>2, TablesAre
      <3> QED
        BY <3>1, <3>2
    <2> QED
      BY <2>1, <2>2
  <1> QED
    BY <1>1, <1>3 DEF Bounded

LEMMA BackupsShapes ==
    ASSUME Shapes, Above, Next, ~(InventoryNext /\ UNCHANGED <<files, jobs>>)
    PROVE  Shapes'
  <1> USE DEF Shapes
  <1>1. ASSUME UNCHANGED inventoryVars
        PROVE  DbShapes' /\ Grows /\ PageShapes' /\ RequestShapes'
    BY <1>1, SameDb DEF inventoryVars, PageShapes, RequestShapes
  <1>2. ASSUME jobs < MaxJobs, jobs' = jobs + 1
        PROVE  jobs' \in 0 .. MaxJobs
    BY <1>2, MaxJobsAssumption DEF JobShapes
  <1>3. ASSUME NEW full \in BOOLEAN, StartBackup(full)
        PROVE  JobShapes' /\ UNCHANGED inventoryVars
    <2>1. NoRows \in Database
      BY DEF NoRows, Database
    <2>2. Bounded(NoRows)
      <3>1. \A table \in Tables : NoRows[table] = {}
        BY DEF NoRows, Tables
      <3> QED
        BY <3>1 DEF Bounded
    <2>3. Sections(full) \in Seq(Tables \cup {"results"})
      <3>1. <<"schedules", "sites", "targets", "results">> \in Seq(Tables \cup {"results"})
        BY DEF Tables
      <3>2. <<"schedules", "sites", "targets">> \in Seq(Tables \cup {"results"})
        BY DEF Tables
      <3> QED
        BY <3>1, <3>2 DEF Sections
    <2>4. [kind |-> "backup", full |-> full, left |-> Sections(full), rows |-> NoRows,
           truth |-> db, disturbed |-> FALSE] \in BackupJobs
      BY <2>1, <2>2, <2>3 DEF BackupJobs, DbShapes
    <2> QED
      BY <1>2, <1>3, <2>4 DEF StartBackup, JobShapes
  <1>4. CASE ReadSection
    <2>1. job' \in BackupJobs
      BY <1>4, ReadShapes
    <2>2. JobShapes'
      BY <1>4, <2>1 DEF ReadSection, JobShapes
    <2> QED
      BY <1>1, <1>4, <2>2 DEF ReadSection
  <1>5. CASE FinishBackup
    <2>1. job \in BackupJobs
      BY <1>5, BackupJobIs DEF FinishBackup
    <2>2. Archive(job.full, job.rows, ~job.disturbed, job.truth) \in Archives
      BY <2>1 DEF BackupJobs, Archive, Archives
    <2>3. Bounded(Archive(job.full, job.rows, ~job.disturbed, job.truth).rows)
      BY <2>1 DEF BackupJobs, Archive
    <2>4. JobShapes'
      BY <1>5, <2>2, <2>3 DEF FinishBackup, JobShapes
    <2> QED
      BY <1>1, <1>5, <2>4 DEF FinishBackup
  <1>6. ASSUME NEW file \in Uploads, Upload(file)
        PROVE  JobShapes' /\ UNCHANGED inventoryVars
    <2>1. file \in Archives
      BY UploadsAssumption
    <2>2. file.rows \in Database
      BY <2>1 DEF Archives
    <2>3. Bounded(file.rows)
      BY UploadsBounded
    <2> QED
      BY <1>2, <1>6, <2>1, <2>3 DEF Upload, JobShapes
  <1>7. ASSUME NEW file \in files, DeleteFile(file)
        PROVE  JobShapes' /\ UNCHANGED inventoryVars
    BY <1>7, DisturbedShape DEF DeleteFile, JobShapes
  <1>8. ASSUME NEW file \in files, StartRestore(file)
        PROVE  JobShapes' /\ UNCHANGED inventoryVars
    <2>1. NoRows \in Database
      BY DEF NoRows, Database
    <2>2. <<"targets", "sites", "schedules">> \in Seq(Tables)
      BY DEF Tables
    <2>3. file \in Archives /\ Bounded(file.rows)
      BY DEF JobShapes
    <2>4. [kind |-> "restore", file |-> file, cleared |-> NoRows,
           left |-> <<"targets", "sites", "schedules">>, set |-> FALSE,
           disturbed |-> FALSE] \in RestoreJobs
      BY <2>1, <2>2, <2>3 DEF RestoreJobs
    <2> QED
      BY <1>2, <1>8, <2>4 DEF StartRestore, JobShapes
  <1>9. CASE ClearTable
    <2> DEFINE table == Head(job.left)
               cleared == [job.cleared EXCEPT ![table] = db[table]]
    <2>1. job \in RestoreJobs /\ job.left # <<>>
      BY <1>9, RestoreJobIs DEF ClearTable
    <2>2. job.left \in Seq(Tables) /\ job.cleared \in Database
      BY <2>1 DEF RestoreJobs
    <2>3. table \in Tables /\ Tail(job.left) \in Seq(Tables)
      BY <2>1, <2>2
    <2>4. job' = [job EXCEPT !.left = Tail(@), !.cleared[table] = db[table]]
      BY <1>9 DEF ClearTable
    <2> HIDE DEF table
    <2>5. cleared \in Database
      BY <2>2, <2>3, TablesAre DEF Database, Tables, DbShapes
    <2>6. job' = [job EXCEPT !.left = Tail(@), !.cleared = cleared]
      BY <2>1, <2>4 DEF RestoreJobs
    <2> HIDE DEF cleared
    <2>7. job' \in RestoreJobs
      BY <2>1, <2>3, <2>5, <2>6 DEF RestoreJobs
    <2>8. JobShapes'
      BY <1>9, <2>7 DEF ClearTable, JobShapes
    <2> QED
      BY <1>1, <1>9, <2>8 DEF ClearTable
  <1>10. CASE CommitRestore
    <2>1. DbShapes'
      BY <1>10, RestoreDb
    <2>2. PageShapes'
      <3>1. session' \in [Admins -> 0 .. MaxLogins]
        <4>1. 0 \in 0 .. MaxLogins
          BY InventoryBoundsAssumption
        <4>2. session' = [a \in Admins |-> 0]
          BY <1>10 DEF CommitRestore, SessionsAfterRestore
        <4> QED
          BY <4>1, <4>2
      <3> QED
        BY <1>10, <3>1 DEF CommitRestore, PageShapes
    <2>3. JobShapes'
      BY <1>10 DEF CommitRestore, JobShapes
    <2>4. ASSUME NEW a \in Admins
          PROVE  request'[a] \in {Idle} \cup Admitted \cup DecidedOnes
      <3>1. request'[a] = CASE request[a].stage = "admitted" ->
                                 [request[a] EXCEPT !.overtaken = TRUE]
                            [] request[a].stage = "decided" ->
                                 [request[a] EXCEPT !.overtaken = TRUE, !.overlapped = TRUE]
                            [] OTHER -> Idle
        BY <1>10 DEF CommitRestore
      <3>2. CASE request[a].stage = "admitted"
        <4>1. request[a] \in Admitted
          BY <3>2, AdmittedIsAdmitted
        <4> QED
          BY <3>1, <3>2, <4>1 DEF Admitted
      <3>3. CASE request[a].stage = "decided"
        <4>1. request[a] \in DecidedOnes
          BY <3>3, DecidedIsDecided
        <4> QED
          BY <3>1, <3>3, <4>1 DEF DecidedOnes
      <3> QED
        BY <3>1, <3>2, <3>3
    <2>5. request' = [a \in Admins |-> request'[a]]
      BY <1>10 DEF CommitRestore
    <2>6. RequestShapes'
      BY <2>4, <2>5 DEF RequestShapes
    <2> QED
      BY <1>10, <2>1, <2>2, <2>3, <2>6
  <1>11. CASE RefuseRestore
    <2>1. JobShapes'
      BY <1>11 DEF RefuseRestore, JobShapes
    <2> QED
      BY <1>1, <1>11, <2>1 DEF RefuseRestore
  <1>12. CASE SetSequences
    <2>1. DbShapes' /\ job' \in RestoreJobs
      BY <1>12, SetDb
    <2>2. PageShapes' /\ RequestShapes'
      BY <1>12 DEF SetSequences, PageShapes, RequestShapes
    <2>3. JobShapes'
      BY <1>12, <2>1 DEF SetSequences, JobShapes
    <2> QED
      BY <2>1, <2>2, <2>3
  <1>13. CASE LoseRestore \/ ForgetRestore
    <2>1. job' \in {NoJob, Lost}
      BY <1>13 DEF LoseRestore, ForgetRestore, Lost
    <2>2. UNCHANGED inventoryVars /\ UNCHANGED <<files, jobs>>
      BY <1>13 DEF LoseRestore, ForgetRestore
    <2>3. JobShapes'
      BY <2>1, <2>2 DEF JobShapes
    <2> QED
      BY <1>1, <2>2, <2>3
  <1> QED
    BY <1>1, <1>3, <1>4, <1>5, <1>6, <1>7, <1>8, <1>9, <1>10, <1>11, <1>12, <1>13 DEF Next

LEMMA AboveNext ==
    ASSUME Shapes, Shapes', Above, Next
    PROVE  Above'
  <1>1. DbShapes /\ DbShapes' /\ JobShapes /\ JobShapes'
    BY DEF Shapes
  <1>2. CASE InventoryNext /\ UNCHANGED <<files, jobs>>
    <2>1. Grows
      BY <1>2, InventoryShapes
    <2>2. job' = job \/ job' = Disturbed
      BY <1>2 DEF InventoryNext, Login, OpenPage, Submit, Decide, Commit, Fail, SaveResult
    <2> QED
      BY <1>1, <2>1, <2>2, AboveKept
  <1>3. CASE (\E file \in Uploads : Upload(file)) \/ (\E file \in files : DeleteFile(file))
    <2>1. UNCHANGED inventoryVars /\ (job' = job \/ job' = Disturbed)
      BY <1>3 DEF Upload, DeleteFile
    <2>2. Grows
      BY <1>1, <2>1, SameDb DEF inventoryVars
    <2> QED
      BY <1>1, <2>1, <2>2, AboveKept
  <1>4. CASE ReadSection
    BY <1>1, <1>4, ReadShapes DEF Above, BackupJobs
  <1>5. CASE ClearTable
    <2> DEFINE table == Head(job.left)
               cleared == [job.cleared EXCEPT ![table] = db[table]]
    <2>1. job \in RestoreJobs /\ job.left # <<>>
      BY <1>1, <1>5, RestoreJobIs DEF ClearTable
    <2>2. job.left \in Seq(Tables) /\ job.cleared \in Database
      BY <2>1 DEF RestoreJobs
    <2>3. table \in Tables
      BY <2>1, <2>2
    <2>4. job' = [job EXCEPT !.left = Tail(@), !.cleared[table] = db[table]]
      BY <1>5 DEF ClearTable
    <2> HIDE DEF table
    <2>5. job' = [job EXCEPT !.left = Tail(@), !.cleared = cleared]
      BY <2>1, <2>4 DEF RestoreJobs
    <2>6. \A t \in Tables : cleared[t] = IF t = table THEN db[table] ELSE job.cleared[t]
      BY <2>2, <2>3 DEF Database, Tables
    <2> HIDE DEF cleared
    <2>7. /\ job'.kind = "restore" /\ job.kind = "restore" /\ job'.set = job.set
          /\ job'.file = job.file /\ job'.cleared = cleared
      BY <2>1, <2>5 DEF RestoreJobs
    <2>8. db' = db /\ sequence' = sequence
      BY <1>5 DEF ClearTable, inventoryVars
    <2>9. ASSUME NEW t \in Tables
          PROVE  Survivors(t)' \subseteq Survivors(t)
      <3>1. CASE t = table
        BY <2>6, <2>7, <2>8, <3>1 DEF Survivors, Locked
      <3>2. CASE t # table
        BY <2>6, <2>7, <2>8, <3>2 DEF Survivors, Locked
      <3> QED
        BY <3>1, <3>2
    <2> QED
      BY <2>7, <2>8, <2>9 DEF Above
  <1>6. CASE SetSequences
    BY <1>1, <1>6, SetDb
  <1>7. CASE (\E full \in BOOLEAN : StartBackup(full)) \/ FinishBackup
               \/ (\E file \in files : StartRestore(file))
    BY <1>7 DEF StartBackup, FinishBackup, StartRestore, NoJob, Above
  <1>8. CASE CommitRestore \/ RefuseRestore \/ LoseRestore \/ ForgetRestore
    <2>1. CommitRestore => job' = NoJob
      BY DEF CommitRestore
    <2>2. RefuseRestore => job' = NoJob
      BY DEF RefuseRestore
    <2>3. LoseRestore => job' = [kind |-> "lost"]
      BY DEF LoseRestore
    <2>4. ForgetRestore => job' = NoJob
      BY DEF ForgetRestore
    <2>5. job'.kind # "restore"
      BY <1>8, <2>1, <2>2, <2>3, <2>4 DEF NoJob
    <2> QED
      BY <2>5 DEF Above
  <1> QED
    BY <1>2, <1>3, <1>4, <1>5, <1>6, <1>7, <1>8 DEF Next
-----------------------------------------------------------------------------
(* An id means one row. *)

\* The row that a page shows, wherever it is by now, has the id of the page and no other has,
\* unless a restore has set the sequence of its table back and not committed.
Means(p) ==
    p.table \in Tables \ behind =>
        /\ p.id < sequence[p.table]
        /\ \A row \in With(p.table, p.id) : row.uid = p.uid

LoginsCount == \A a \in Admins : session[a] <= logins /\ page[a].login <= logins
PagesMean ==
    \A a \in Admins : session[a] # 0 /\ page[a].login = session[a] => Means(page[a])
RequestsMean ==
    \A a \in Admins : request[a] # Idle /\ ~request[a].overtaken => Means(request[a].page)
MeaningInv == Shapes /\ Above /\ LoginsCount /\ PagesMean /\ RequestsMean

LEMMA MeaningKept ==
    ASSUME DbShapes, DbShapes', Grows, behind' = behind, NEW p \in Pages, Means(p)
    PROVE  Means(p)'
  <1>1. SUFFICES ASSUME p.table \in Tables \ behind
                 PROVE  /\ p.id < sequence'[p.table]
                        /\ \A row \in db'[p.table] : row.id = p.id => row.uid = p.uid
    BY DEF Means, With
  <1>2. /\ p.id < sequence[p.table] /\ p.id \in Nat
        /\ \A row \in db[p.table] : row.id = p.id => row.uid = p.uid
    BY <1>1 DEF Means, With, Pages
  <1>3. sequence[p.table] \in Nat /\ sequence'[p.table] \in Nat
    BY <1>1 DEF DbShapes
  <1> QED
    BY <1>1, <1>2, <1>3 DEF Grows

\* Setting sequences back leaves out their tables.
LEMMA MeaningSet ==
    ASSUME DbShapes, JobShapes, SetSequences, NEW p \in Pages, Means(p)
    PROVE  Means(p)'
  <1>1. /\ DbShapes' /\ \A table \in Tables \ behind' : sequence[table] <= sequence'[table]
    BY SetDb
  <1>2. db' = db /\ behind \subseteq behind'
    BY DEF SetSequences
  <1>3. SUFFICES ASSUME p.table \in Tables \ behind'
                 PROVE  /\ p.id < sequence'[p.table]
                        /\ \A row \in db'[p.table] : row.id = p.id => row.uid = p.uid
    BY DEF Means, With
  <1>4. /\ p.id < sequence[p.table] /\ p.id \in Nat
        /\ \A row \in db[p.table] : row.id = p.id => row.uid = p.uid
    BY <1>2, <1>3 DEF Means, With, Pages
  <1>5. sequence[p.table] \in Nat /\ sequence'[p.table] \in Nat
    BY <1>1, <1>3 DEF DbShapes
  <1> QED
    BY <1>1, <1>2, <1>3, <1>4, <1>5

LEMMA MeaningStart == Init => MeaningInv
  <1> SUFFICES ASSUME Init PROVE MeaningInv
    OBVIOUS
  <1>1. PICK s \in Start :
           /\ db = s.db /\ sequence = s.sequence /\ born = s.born
           /\ submits = s.submits /\ jobs = s.jobs /\ page = s.page /\ files = s.files
    BY DEF Init
  <1>2. /\ session = [a \in Admins |-> 1] /\ logins = 1
        /\ request = [a \in Admins |-> Idle] /\ job = NoJob /\ behind = {}
    BY DEF Init
  <1>3. /\ db \in Database /\ sequence \in [Tables -> Nat \ {0}] /\ born \in Nat
        /\ UniqueIds(db)
        /\ \A table \in Tables : \A row \in db[table] : row.id < sequence[table]
    BY <1>1, StartAssumption DEF Integrity, Constraints
  <1>4. Bounded(db)
    <2>1. ASSUME NEW table \in Tables
          PROVE  \E bound \in Nat : \A row \in db[table] : row.id <= bound
      <3>1. sequence[table] \in Nat /\ \A row \in db[table] : row.id \in Nat
        BY <1>3, TablesAre
      <3> QED
        BY <1>3, <3>1
    <2> QED
      BY <2>1 DEF Bounded
  <1>5. DbShapes
    BY <1>2, <1>3, <1>4 DEF DbShapes
  <1>6. page \in [Admins -> [login: {0, 1}, table: Tables \cup {"new"}, id: Nat, uid: Nat]]
    BY <1>1, StartAssumption
  <1>7. PageShapes
    <2>1. page \in [Admins -> Pages]
      BY <1>6 DEF Pages
    <2> QED
      BY <1>1, <1>2, <2>1, StartAssumption, InventoryBoundsAssumption DEF PageShapes
  <1>8. RequestShapes
    BY <1>2 DEF RequestShapes
  <1>9. JobShapes
    <2>1. files \subseteq Uploads /\ jobs \in 0 .. MaxJobs
      BY <1>1, StartAssumption
    <2> QED
      BY <1>2, <2>1, UploadsBounded DEF JobShapes
  <1>10. PagesMean
    <2>1. ASSUME NEW a \in Admins, page[a].table \in Tables
          PROVE  /\ page[a].id < sequence[page[a].table]
                 /\ \A row \in db[page[a].table] : row.id = page[a].id => row.uid = page[a].uid
      <3>1. page[a].table \in Tables \cap {page[a].table}
        BY <2>1
      <3> QED
        BY <1>1, <3>1, StartAssumption
    <2> QED
      BY <2>1 DEF PagesMean, Means, With
  <1>11. RequestsMean /\ Above
    BY <1>2 DEF RequestsMean, Above, NoJob
  <1>12. LoginsCount
    BY <1>2, <1>6 DEF LoginsCount
  <1> QED
    BY <1>5, <1>7, <1>8, <1>9, <1>10, <1>11, <1>12 DEF MeaningInv, Shapes

LEMMA MeaningSame ==
    ASSUME UNCHANGED <<db, sequence, behind>>, NEW p
    PROVE  Means(p)' <=> Means(p)
  BY DEF Means, With

\* A commit or a saved result: what a page or a request means is kept.
LEMMA MeaningOfRest ==
    ASSUME MeaningInv, Shapes', Above', \A p \in Pages : Means(p) => Means(p)',
           UNCHANGED <<session, logins, page>>,
           \A a \in Admins : request'[a] # Idle =>
              /\ request[a] # Idle /\ request'[a].page = request[a].page
              /\ request'[a].overtaken = request[a].overtaken
    PROVE  MeaningInv'
  <1>1. \A p \in Pages : Means(p) => Means(p)'
    OBVIOUS
  <1>2. \A a \in Admins : page[a] \in Pages
    BY DEF MeaningInv, Shapes, PageShapes
  <1>3. \A a \in Admins : request[a] # Idle => request[a].page \in Pages
    BY DEF MeaningInv, Shapes, RequestShapes, Admitted, DecidedOnes
  <1>4. LoginsCount'
    BY DEF MeaningInv, LoginsCount
  <1>5. PagesMean'
    BY <1>1, <1>2 DEF MeaningInv, PagesMean, Means
  <1>6. ASSUME NEW a \in Admins, request'[a] # Idle, ~request'[a].overtaken
        PROVE  Means(request[a].page)'
    <2>1. /\ request[a] # Idle /\ request'[a].page = request[a].page /\ ~request[a].overtaken
      BY <1>6
    <2>2. Means(request[a].page)
      BY <2>1 DEF MeaningInv, RequestsMean
    <2>3. PICK p \in Pages : p = request[a].page
      BY <1>3, <2>1
    <2>4. Means(p)'
      BY <1>1, <2>2, <2>3
    <2>5. p = request'[a].page
      BY <2>1, <2>3
    <2> QED
      BY <2>4, <2>5 DEF Means
  <1>7. RequestsMean'
    BY <1>6 DEF RequestsMean
  <1> QED
    BY <1>4, <1>5, <1>7 DEF MeaningInv

LEMMA MeaningNext ==
    ASSUME MeaningInv, [Next]_vars
    PROVE  MeaningInv'
  <1>1. Shapes /\ Above /\ LoginsCount /\ PagesMean /\ RequestsMean
    BY DEF MeaningInv
  <1>2. CASE UNCHANGED vars
    BY <1>1, <1>2 DEF vars, MeaningInv, Shapes, DbShapes, UniqueIds, Bounded, PageShapes,
                      RequestShapes, JobShapes, Above, Survivors, Locked, LoginsCount, PagesMean,
                      RequestsMean, Means, With
  <1>3. CASE CommitRestore
    <2>1. Shapes' /\ Above'
      BY <1>1, <1>3, BackupsShapes, InventoryShapes, AboveNext DEF Next
    <2>2. session' = [a \in Admins |-> 0] /\ UNCHANGED <<logins, page>>
      BY <1>3 DEF CommitRestore, SessionsAfterRestore
    <2>3. \A a \in Admins : request'[a] # Idle => request'[a].overtaken
      <3>1. ASSUME NEW a \in Admins, request'[a] # Idle
            PROVE  request'[a].overtaken
        <4>1. request'[a] = CASE request[a].stage = "admitted" ->
                                   [request[a] EXCEPT !.overtaken = TRUE]
                              [] request[a].stage = "decided" ->
                                   [request[a] EXCEPT !.overtaken = TRUE, !.overlapped = TRUE]
                              [] OTHER -> Idle
          BY <1>3 DEF CommitRestore
        <4>2. CASE request[a].stage = "admitted"
          <5>1. request[a] \in Admitted
            BY <1>1, <4>2, AdmittedIsAdmitted DEF Shapes
          <5> QED
            BY <4>1, <4>2, <5>1 DEF Admitted
        <4>3. CASE request[a].stage = "decided"
          <5>1. request[a] \in DecidedOnes
            BY <1>1, <4>3, DecidedIsDecided DEF Shapes
          <5> QED
            BY <4>1, <4>3, <5>1 DEF DecidedOnes
        <4> QED
          BY <3>1, <4>1, <4>2, <4>3
      <3> QED
        BY <3>1
    <2>4. LoginsCount'
      <3>1. logins \in Nat
        BY <1>1 DEF Shapes, PageShapes
      <3> QED
        BY <1>1, <2>2, <3>1 DEF LoginsCount
    <2> QED
      BY <2>1, <2>2, <2>3, <2>4 DEF MeaningInv, PagesMean, RequestsMean
  <1>4. CASE InventoryNext /\ UNCHANGED <<files, jobs>>
    <2>1. Shapes' /\ Grows /\ Above'
      BY <1>1, <1>4, InventoryShapes, AboveNext DEF Next
    <2>0. \A p \in Pages : Means(p) => Means(p)'
      <3>1. behind' = behind
        BY <1>4 DEF InventoryNext, Login, OpenPage, Submit, Decide, Commit, Fail, SaveResult
      <3> QED
        BY <1>1, <2>1, <3>1, MeaningKept DEF Shapes
    <2>2. ASSUME NEW a \in Admins, Login(a)
          PROVE  MeaningInv'
      <3>1. /\ logins' = logins + 1 /\ session' = [session EXCEPT ![a] = logins']
            /\ UNCHANGED <<db, sequence, behind, page, request>>
        BY <2>2 DEF Login
      <3>2. logins \in Nat /\ session \in [Admins -> Nat]
            /\ \A b \in Admins : page[b].login \in Nat
        BY <1>1 DEF Shapes, PageShapes, Pages
      <3>3. LoginsCount'
        BY <1>1, <3>1, <3>2 DEF LoginsCount
      <3>4. ASSUME NEW b \in Admins, session'[b] # 0, page'[b].login = session'[b]
            PROVE  Means(page[b])
        <4>1. b # a
          BY <1>1, <3>1, <3>2, <3>4 DEF LoginsCount
        <4> QED
          BY <1>1, <3>1, <3>2, <3>4, <4>1 DEF PagesMean
      <3>5. \A p : Means(p)' <=> Means(p)
        BY <3>1, MeaningSame
      <3>6. PagesMean'
        BY <3>1, <3>4, <3>5 DEF PagesMean, Means
      <3>7. RequestsMean'
        BY <1>1, <3>1, <3>5 DEF RequestsMean, Means
      <3> QED
        BY <2>1, <3>3, <3>6, <3>7 DEF MeaningInv
    <2>3. ASSUME NEW a \in Admins, OpenPage(a)
          PROVE  MeaningInv'
      <3>1. /\ session[a] # 0 /\ page[a] = NoPage
            /\ UNCHANGED <<db, sequence, behind, session, logins, request>>
        BY <2>3 DEF OpenPage
      <3>2. /\ page'[a].login = session[a] /\ (\A b \in Admins \ {a} : page'[b] = page[b])
            /\ Means(page'[a])
        <4>1. CASE page' = [page EXCEPT ![a].login = session[a]]
          <5>1. page'[a] = [NoPage EXCEPT !.login = session[a]]
            BY <1>1, <3>1, <4>1 DEF Shapes, PageShapes
          <5>2. page'[a].login = session[a] /\ page'[a].table = "new"
            BY <5>1 DEF NoPage
          <5>3. Means(page'[a])
            BY <5>2 DEF Means, Tables
          <5> QED
            BY <1>1, <4>1, <5>2, <5>3 DEF Shapes, PageShapes
        <4>2. ASSUME NEW table \in Tables, NEW row \in Rows(table),
                     page' = [page EXCEPT ![a] = [login |-> session[a], table |-> table,
                                                  id |-> row.id, uid |-> row.uid]]
              PROVE  /\ page'[a].login = session[a] /\ (\A b \in Admins \ {a} : page'[b] = page[b])
                     /\ Means(page'[a])
          <5>1. page'[a] = [login |-> session[a], table |-> table, id |-> row.id, uid |-> row.uid]
            BY <1>1, <4>2 DEF Shapes, PageShapes
          <5>2. row \in db[table] /\ (table \notin behind => row.id < sequence[table])
                /\ \A other \in db[table] : other.id = row.id => other = row
            BY <1>1 DEF Shapes, DbShapes, UniqueIds, Rows
          <5>3. Means(page'[a])
            BY <5>1, <5>2 DEF Means, With
          <5> QED
            BY <1>1, <4>2, <5>1, <5>3 DEF Shapes, PageShapes
        <4> QED
          BY <2>3, <4>1, <4>2 DEF OpenPage
      <3>3. \A p : Means(p)' <=> Means(p)
        BY <3>1, MeaningSame
      <3>4. LoginsCount'
        BY <1>1, <3>1, <3>2 DEF LoginsCount
      <3>5. PagesMean'
        BY <1>1, <3>1, <3>2, <3>3 DEF PagesMean, Means
      <3>6. RequestsMean'
        BY <1>1, <3>1, <3>3 DEF RequestsMean, Means
      <3> QED
        BY <2>1, <3>4, <3>5, <3>6 DEF MeaningInv
    <2>4. ASSUME NEW a \in Admins, Submit(a)
          PROVE  MeaningInv'
      <3>1. /\ session[a] # 0 /\ page[a].login = session[a]
            /\ request' = [request EXCEPT ![a] = [stage |-> "admitted", page |-> page[a],
                                                  overtaken |-> FALSE]]
            /\ page' = [page EXCEPT ![a] = NoPage]
            /\ UNCHANGED <<db, sequence, behind, session, logins>>
        BY <2>4 DEF Submit, Authorised
      <3>2. Means(page[a])
        BY <1>1, <3>1 DEF PagesMean
      <3>3. \A p : Means(p)' <=> Means(p)
        BY <3>1, MeaningSame
      <3>4. LoginsCount'
        BY <1>1, <3>1 DEF Shapes, PageShapes, LoginsCount, NoPage
      <3>5. ASSUME NEW b \in Admins, session'[b] # 0, page'[b].login = session'[b]
            PROVE  Means(page'[b])
        BY <1>1, <3>1, <3>5 DEF Shapes, PageShapes, PagesMean, NoPage, Means, Tables
      <3>6. PagesMean'
        BY <3>1, <3>3, <3>5 DEF PagesMean, Means
      <3>7. ASSUME NEW b \in Admins, request'[b] # Idle, ~request'[b].overtaken
            PROVE  Means(request'[b].page)
        <4>1. CASE b = a
          <5>1. request'[b].page = page[a]
            BY <1>1, <3>1, <4>1 DEF Shapes, RequestShapes
          <5> QED
            BY <3>2, <5>1
        <4>2. CASE b # a
          <5>1. request'[b] = request[b]
            BY <1>1, <3>1, <4>2 DEF Shapes, RequestShapes
          <5> QED
            BY <1>1, <3>7, <5>1 DEF RequestsMean
        <4> QED
          BY <4>1, <4>2
      <3>8. RequestsMean'
        BY <3>1, <3>3, <3>7 DEF RequestsMean, Means
      <3> QED
        BY <2>1, <3>4, <3>6, <3>8 DEF MeaningInv
    <2>5. ASSUME NEW a \in Admins, Decide(a)
          PROVE  MeaningInv'
      <3>1. request[a] \in Admitted /\ request[a] # Idle
        BY <1>1, <2>5, AdmittedIsAdmitted DEF Decide, Shapes, Admitted, Idle
      <3>2. ASSUME NEW b \in Admins, request'[b] # Idle
            PROVE  /\ request[b] # Idle /\ request'[b].page = request[b].page
                   /\ request'[b].overtaken = request[b].overtaken
        BY <1>1, <2>5, <3>1, <3>2 DEF Decide, Shapes, RequestShapes
      <3> QED
        BY <2>0, <2>1, <2>5, <3>2, MeaningOfRest DEF Decide
    <2>6. ASSUME NEW a \in Admins, Commit(a)
          PROVE  MeaningInv'
      <3>1. ASSUME NEW b \in Admins, request'[b] # Idle
            PROVE  /\ request[b] # Idle /\ request'[b].page = request[b].page
                   /\ request'[b].overtaken = request[b].overtaken
        <4>1. request'[b] = CASE b = a -> Idle
                              [] b # a /\ request[b].stage = "decided" ->
                                   [request[b] EXCEPT !.overlapped = TRUE]
                              [] OTHER -> request[b]
          BY <2>6 DEF Commit
        <4>2. CASE b # a /\ request[b].stage = "decided"
          <5>1. request[b] \in DecidedOnes
            BY <1>1, <4>2, DecidedIsDecided DEF Shapes
          <5> QED
            BY <4>1, <4>2, <5>1 DEF DecidedOnes, Idle
        <4>3. CASE b # a /\ request[b].stage # "decided"
          BY <3>1, <4>1, <4>3
        <4>4. CASE b = a
          BY <3>1, <4>1, <4>4
        <4> QED
          BY <4>2, <4>3, <4>4
      <3> QED
        BY <2>0, <2>1, <2>6, <3>1, MeaningOfRest DEF Commit
    <2>7. ASSUME NEW a \in Admins, Fail(a)
          PROVE  MeaningInv'
      <3>1. ASSUME NEW b \in Admins, request'[b] # Idle
            PROVE  request'[b] = request[b]
        BY <1>1, <2>7, <3>1 DEF Fail, Shapes, RequestShapes
      <3> QED
        BY <2>0, <2>1, <2>7, <3>1, MeaningOfRest DEF Fail
    <2>8. ASSUME NEW target \in Rows("targets"), SaveResult(target)
          PROVE  MeaningInv'
      BY <2>0, <2>1, <2>8, MeaningOfRest DEF SaveResult
    <2> QED
      BY <1>4, <2>2, <2>3, <2>4, <2>5, <2>6, <2>7, <2>8 DEF InventoryNext
  <1>5. CASE SetSequences
    <2>1. Shapes' /\ Above'
      BY <1>1, <1>5, BackupsShapes, InventoryShapes, AboveNext DEF Next
    <2>2. \A p \in Pages : Means(p) => Means(p)'
      BY <1>1, <1>5, MeaningSet DEF Shapes
    <2> QED
      BY <1>5, <2>1, <2>2, MeaningOfRest DEF SetSequences
  <1>6. CASE /\ Next /\ ~(InventoryNext /\ UNCHANGED <<files, jobs>>)
             /\ ~CommitRestore /\ ~SetSequences
    <2>1. Shapes' /\ Above'
      BY <1>1, <1>6, BackupsShapes, AboveNext
    <2>2. UNCHANGED inventoryVars
      BY <1>6 DEF Next, StartBackup, ReadSection, FinishBackup, Upload, DeleteFile, StartRestore,
                  ClearTable, RefuseRestore, LoseRestore, ForgetRestore
    <2>3. UNCHANGED <<db, sequence, behind, born, session, logins, page, request>>
      BY <2>2 DEF inventoryVars
    <2> QED
      BY <1>1, <2>1, <2>3 DEF MeaningInv, LoginsCount, PagesMean, RequestsMean, Means, With
  <1> QED
    BY <1>2, <1>3, <1>4, <1>5, <1>6 DEF Next

\* The type invariant, for every set of rows, archives and administrators.
THEOREM TypeCorrect == Spec => []TypeOK
  <1>1. MeaningInv => TypeOK
    <2> SUFFICES ASSUME MeaningInv PROVE TypeOK
      OBVIOUS
    <2>1. Shapes
      BY DEF MeaningInv
    <2>2. job.kind \in {"none", "backup", "restore", "lost"}
      BY <2>1 DEF Shapes, JobShapes, NoJob, Lost, BackupJobs, RestoreJobs
    <2>3. \A file \in files : file.rows \in Database
      BY <2>1 DEF Shapes, JobShapes, Archives
    <2> QED
      BY <2>1, <2>2, <2>3 DEF Shapes, DbShapes, PageShapes, JobShapes, TypeOK
  <1> QED
    BY <1>1, MeaningStart, MeaningNext, PTL DEF Spec

\* A request never changes another row than its page showed, unless a restore committed
\* after it was admitted, or one that has not committed set the sequence of its table back:
\* PageMeansRow.
THEOREM PagesMeanTheirRow == Spec => []PageMeansRow
  <1>1. MeaningInv => PageMeansRow
    BY DEF MeaningInv, RequestsMean, Means, PageMeansRow
  <1> QED
    BY <1>1, MeaningStart, MeaningNext, PTL DEF Spec
-----------------------------------------------------------------------------
(* One entry for each site. *)

\* What a commit of a plan must leave so that the marks of raced entries tell the rest.
Fine(targets) ==
    \A t, u \in targets :
        t.entry /\ u.entry /\ t.site = u.site /\ ~t.raced /\ ~u.raced
            => t.id = u.id /\ t.kind \in Suitable
\* The rows of the objects that a plan keeps, as it leaves them; what it adds comes beside no
\* entry of theirs, whatever id it will get.
Kept(plan) ==
    {Image(plan, "targets", row) : row \in {r \in db["targets"] : ~Gone(plan, "targets", r)}}
Apart(plan) ==
    \A new \in NewRow(plan, "targets") : new.entry =>
        /\ new.kind \in Suitable
        /\ \A t \in Kept(plan) : t.entry /\ ~t.raced => t.site # new.site
FinePlan(plan) == Fine(Kept(plan)) /\ Apart(plan)
PlansFine ==
    \A a \in Admins, plan \in Plans :
        request[a].stage = "decided" /\ ~request[a].overlapped /\ request[a].plan = plan
            => FinePlan(plan)
ArchivesSole ==
    /\ \A file \in files : SoleEntries(file.rows.targets)
    /\ job.kind = "backup" => SoleEntries(job.rows.targets)
    /\ job.kind = "restore" => SoleEntries(job.file.rows.targets)
EntryInv == MeaningInv /\ EntryOfSite /\ PlansFine /\ ArchivesSole

\* What a row is to the entries of its site.
SameEntry(r, s) ==
    r.id = s.id /\ r.site = s.site /\ r.kind = s.kind /\ r.entry = s.entry /\ r.raced = s.raced

LEMMA FineOfSame ==
    ASSUME NEW T, NEW U, Fine(U), \A t \in T : \E u \in U : SameEntry(t, u)
    PROVE  Fine(T)
  BY DEF Fine, SameEntry

LEMMA FineOfSole ==
    ASSUME NEW T, SoleEntries(T)
    PROVE  Fine(T)
  BY DEF Fine, SoleEntries

LEMMA MarkedSole ==
    ASSUME NEW T \in SUBSET Target, NEW sites,
           \A t, u \in T :
              t.entry /\ u.entry /\ t.site = u.site /\ ~t.raced /\ t.site \notin sites
                  => t = u /\ t.kind \in Suitable
    PROVE  SoleEntries(MarkRaced(T, sites))
  <1>1. SUFFICES ASSUME NEW m \in MarkRaced(T, sites), NEW n \in MarkRaced(T, sites),
                        m.entry, n.entry, m.site = n.site, ~m.raced
                 PROVE  m = n /\ m.kind \in Suitable
    BY DEF SoleEntries
  <1>2. PICK t \in T : /\ m = Mark(t, sites) /\ m.site = t.site /\ m.kind = t.kind
                       /\ m.entry = t.entry /\ m.raced = (t.raced \/ (t.entry /\ t.site \in sites))
    BY Marks
  <1>3. PICK u \in T : n = Mark(u, sites) /\ n.site = u.site /\ n.entry = u.entry
    BY Marks
  <1>4. t.entry /\ u.entry /\ t.site = u.site /\ ~t.raced /\ t.site \notin sites
    BY <1>1, <1>2, <1>3
  <1>5. t = u /\ t.kind \in Suitable
    BY <1>4
  <1> QED
    BY <1>2, <1>3, <1>5

LEMMA KeptAndNew ==
    ASSUME NEW plan
    PROVE  After(plan, "targets")
             = Kept(plan) \cup {Numbered(row, "targets") : row \in NewRow(plan, "targets")}
  BY AfterImages DEF Kept

LEMMA FineWithoutNew ==
    ASSUME NEW plan, Fine(After(plan, "targets")), NewRow(plan, "targets") = {}
    PROVE  FinePlan(plan)
  BY KeptAndNew DEF FinePlan, Fine, Apart

\* A plan that is fine leaves fine rows.
LEMMA AfterFinePlan ==
    ASSUME DbShapes, NEW plan \in Plans, FinePlan(plan)
    PROVE  Fine(After(plan, "targets"))
  <1>1. ASSUME NEW r \in After(plan, "targets")
        PROVE  \/ r \in Kept(plan)
               \/ \E new \in NewRow(plan, "targets") :
                     /\ r = Numbered(new, "targets") /\ r.entry = new.entry /\ r.site = new.site
                     /\ r.kind = new.kind
    <2>1. CASE r \in Kept(plan)
      BY <2>1
    <2>2. ASSUME NEW new \in NewRow(plan, "targets"), r = Numbered(new, "targets")
          PROVE  r.entry = new.entry /\ r.site = new.site /\ r.kind = new.kind
      <3>1. new \in NewObject
        BY NewRows
      <3> QED
        BY <2>2, <3>1, NumberedTarget DEF NewObject, DbShapes, Tables
    <2> QED
      BY <2>1, <2>2, KeptAndNew
  <1>2. \A new, other \in NewRow(plan, "targets") : new = other
    BY NewRows
  <1>3. /\ \A t, u \in Kept(plan) :
              t.entry /\ u.entry /\ t.site = u.site /\ ~t.raced /\ ~u.raced
                 => t.id = u.id /\ t.kind \in Suitable
        /\ \A new \in NewRow(plan, "targets") : new.entry =>
              /\ new.kind \in Suitable
              /\ \A t \in Kept(plan) : t.entry /\ ~t.raced => t.site # new.site
    BY DEF FinePlan, Fine, Apart
  <1> QED
    BY <1>1, <1>2, <1>3 DEF Fine

\* An entry is one of before that is not replaced, or the own one of a request.
Beside(T, site, id, own, entry, kind) ==
    \A r \in T : r.entry /\ ~r.raced =>
        \/ r \in db.targets /\ r.id # id /\ ~(entry /\ r \in Previous(site, id))
        \/ entry /\ r.id = own /\ r.site = site /\ r.kind = kind

\* The only entry of a site, unless a race left more, is the one that a new one replaces.
LEMMA ReplacesAll ==
    ASSUME EntryOfSite, DbShapes, NEW site, NEW id, NEW u \in db.targets, u.id # id, u.entry,
           ~u.raced, u.site = site
    PROVE  u \in Previous(site, id)
  <1>1. \A t, v \in db.targets :
           t.entry /\ v.entry /\ t.site = v.site /\ ~t.raced => t = v /\ t.kind \in Suitable
    BY DEF EntryOfSite, SoleEntries, Rows
  <1>2. /\ u \in Rows("targets")
        /\ \A v \in Rows("targets") : v.site = site /\ v.entry => v = u
    BY <1>1 DEF Rows
  <1>3. \A v \in {t \in Rows("targets") : t.site = site /\ t.entry /\ t.id # id} : v = u
    BY <1>2
  <1>4. u.id \in Nat
    BY TablesAre DEF DbShapes, Target
  <1> QED
    BY <1>2, <1>3, <1>4 DEF Previous

\* An object that becomes the entry of a site, beside the entries of others.
LEMMA NewEntryFine ==
    ASSUME EntryOfSite, DbShapes, NEW T, NEW site, NEW id, NEW own, NEW entry, NEW kind,
           entry => kind \in Suitable, Beside(T, site, id, own, entry, kind)
    PROVE  Fine(T)
  <1> DEFINE Old(r) == r \in db.targets /\ r.id # id /\ ~(entry /\ r \in Previous(site, id))
             New(r) == entry /\ r.id = own /\ r.site = site /\ r.kind = kind
  <1>1. \A t, u \in db.targets :
           t.entry /\ u.entry /\ t.site = u.site /\ ~t.raced => t = u /\ t.kind \in Suitable
    BY DEF EntryOfSite, SoleEntries, Rows
  <1>2. ASSUME NEW u, Old(u), u.entry, ~u.raced, u.site = site, entry
        PROVE  FALSE
    BY <1>2, ReplacesAll
  <1> QED
    BY <1>1, <1>2 DEF Fine, Beside

LEMMA PreviousIs ==
    ASSUME DbShapes, NEW site, NEW id, NEW t \in Previous(site, id)
    PROVE  t \in db.targets /\ t \in Target /\ t.entry = TRUE /\ t.id # id
  BY TablesAre DEF DbShapes, Previous, Rows, Target

\* The image of a row of the objects, by the change that it gets.
LEMMA TargetImage ==
    ASSUME DbShapes, NEW plan \in Plans, NEW row \in db.targets
    PROVE  \/ ChangesOf(plan, "targets", row) = {} /\ Image(plan, "targets", row) = row
           \/ \E c \in plan.changes :
                 /\ c.table = "targets" /\ c.seen \in Target /\ c.want \in Target
                 /\ c.seen.id = row.id /\ c.want.id = c.seen.id /\ c.want.uid = c.seen.uid
                 /\ Image(plan, "targets", row) = Written(row, c)
                 /\ c = CHOOSE x \in ChangesOf(plan, "targets", row) : TRUE
  <1>1. CASE ChangesOf(plan, "targets", row) = {}
    BY <1>1 DEF Image
  <1>2. CASE ChangesOf(plan, "targets", row) # {}
    <2> DEFINE c == CHOOSE x \in ChangesOf(plan, "targets", row) : TRUE
    <2>1. c \in plan.changes /\ c.table = "targets" /\ c.seen.id = row.id
      BY <1>2 DEF ChangesOf
    <2>2. c \in Changes
      BY <2>1 DEF Plans
    <2>3. Image(plan, "targets", row) = Written(row, c)
      BY <1>2 DEF Image
    <2>4. c = CHOOSE x \in ChangesOf(plan, "targets", row) : TRUE
      OBVIOUS
    <2> HIDE DEF c
    <2>5. /\ c.seen \in Target /\ c.want \in Target
          /\ c.want.id = c.seen.id /\ c.want.uid = c.seen.uid
      BY <2>1, <2>2 DEF Changes
    <2> QED
      BY <2>1, <2>3, <2>4, <2>5
  <1> QED
    BY <1>1, <1>2

LEMMA AfterTargets ==
    ASSUME DbShapes, NEW plan \in Plans, NEW r \in After(plan, "targets")
    PROVE  \/ \E row \in db.targets : r = Image(plan, "targets", row)
           \/ \E row \in NewRow(plan, "targets") : r = Numbered(row, "targets")
  <1>1. db.targets = db["targets"]
    BY TablesAre DEF DbShapes
  <1> QED
    BY <1>1, AfterImages

\* A plan that leaves what the objects are to their sites.
LEMMA QuietPlanFine ==
    ASSUME EntryOfSite, DbShapes, NEW plan \in Plans, NewRow(plan, "targets") = {},
           \A c \in plan.changes : c.table = "targets" =>
              /\ c.want.site = c.seen.site /\ c.want.kind = c.seen.kind
              /\ c.want.entry = c.seen.entry /\ c.want.raced = c.seen.raced
    PROVE  Fine(After(plan, "targets"))
  <1>1. ASSUME NEW r \in After(plan, "targets")
        PROVE  \E row \in db.targets : SameEntry(r, row)
    <2>1. PICK row \in db.targets : r = Image(plan, "targets", row)
      BY <1>1, AfterTargets
    <2>2. row \in Target
      BY TablesAre DEF DbShapes
    <2>3. CASE Image(plan, "targets", row) = row
      BY <2>1, <2>3 DEF SameEntry
    <2>4. CASE Image(plan, "targets", row) # row
      <3>1. PICK c \in plan.changes :
               /\ c.table = "targets" /\ c.seen \in Target /\ c.want \in Target
               /\ c.want.id = c.seen.id /\ c.want.uid = c.seen.uid
               /\ Image(plan, "targets", row) = Written(row, c)
        BY <2>4, TargetImage
      <3>2. SameEntry(Written(row, c), row)
        BY <2>2, <3>1, WrittenTarget DEF SameEntry
      <3> QED
        BY <2>1, <3>1, <3>2
    <2> QED
      BY <2>3, <2>4
  <1>2. Fine(db.targets)
    BY FineOfSole DEF EntryOfSite, Rows
  <1> QED
    BY <1>1, <1>2, FineOfSame
LEMMA OtherPlansFine ==
    ASSUME EntryOfSite, DbShapes, NEW p \in Pages, NEW plan \in PlansFor(p),
           \A s \in db["sites"] : plan \notin TargetCreate(s),
           \A t \in db["targets"] : plan \notin TargetUpdate(t)
    PROVE  FinePlan(plan)
  <1>1. plan \in Plans
    BY PlansForAre
  <1>2. SUFFICES /\ NewRow(plan, "targets") = {}
                 /\ \A c \in plan.changes : c.table = "targets" =>
                       /\ c.want.site = c.seen.site /\ c.want.kind = c.seen.kind
                       /\ c.want.entry = c.seen.entry /\ c.want.raced = c.seen.raced
    BY <1>1, QuietPlanFine, FineWithoutNew
  <1>3. ASSUME NEW table \in Tables, NEW row, plan = Deleting(table, row)
        PROVE  plan.inserts = {} /\ plan.changes = {}
    BY <1>3 DEF Deleting, Plan
  <1>4. ASSUME NEW table \in {"schedules", "sites"}, NEW seen, NEW want,
               plan = Changing(table, seen, want)
        PROVE  plan.inserts = {} /\ \A c \in plan.changes : c.table # "targets"
    BY <1>4 DEF Changing, Change, Plan
  <1>5. ASSUME NEW table \in {"schedules", "sites"}, NEW row, plan = Inserting(table, row)
        PROVE  plan.changes = {} /\ \A i \in plan.inserts : i.table # "targets"
    BY <1>5 DEF Inserting, Plan
  <1>6. CASE p.table = "new"
    <2>1. \/ plan \in PlansOfScheduleCreate
          \/ plan \in PlansOfSiteCreate
      BY <1>6 DEF PlansFor
    <2>2. CASE plan \in PlansOfScheduleCreate
      <3>1. PICK h \in Hours : plan = Inserting("schedules", [hours |-> h])
        BY <2>2 DEF PlansOfScheduleCreate
      <3> QED
        BY <1>5, <3>1 DEF NewRow
    <2>3. CASE plan \in PlansOfSiteCreate
      <3>1. PICK n \in FreeNames(0), schedule \in Rows("schedules") :
               plan = Inserting("sites", [name |-> n, schedule |-> schedule.id, enabled |-> TRUE])
        BY <2>3 DEF PlansOfSiteCreate
      <3> QED
        BY <1>5, <3>1 DEF NewRow
    <2> QED
      BY <2>1, <2>2, <2>3
  <1>7. CASE p.table = "schedules"
    <2>1. PICK s \in db["schedules"] : plan \in ScheduleUpdate(s) \cup ScheduleDelete(s)
      BY <1>7 DEF PlansFor, With
    <2>2. CASE plan \in ScheduleUpdate(s)
      <3>1. \E want : plan = Changing("schedules", s, want)
        BY <2>2 DEF ScheduleUpdate
      <3> QED
        BY <1>4, <3>1 DEF NewRow
    <2>3. CASE plan \in ScheduleDelete(s)
      <3>1. plan = Deleting("schedules", s)
        BY <2>3 DEF ScheduleDelete
      <3> QED
        BY <1>3, <3>1 DEF NewRow, Tables
    <2> QED
      BY <2>1, <2>2, <2>3
  <1>8. CASE p.table = "sites"
    <2>1. PICK s \in db["sites"] :
             plan \in SiteUpdate(s) \cup SiteToggle(s) \cup SiteDelete(s) \cup SiteEmpty(s)
      BY <1>8 DEF PlansFor, With
    <2>2. CASE plan \in SiteUpdate(s) \cup SiteToggle(s)
      <3>1. \E want : plan = Changing("sites", s, want)
        BY <2>2 DEF SiteUpdate, SiteToggle
      <3> QED
        BY <1>4, <3>1 DEF NewRow
    <2>3. CASE plan \in SiteDelete(s)
      <3>1. plan = Deleting("sites", s)
        BY <2>3 DEF SiteDelete
      <3> QED
        BY <1>3, <3>1 DEF NewRow, Tables
    <2>4. CASE plan \in SiteEmpty(s)
      BY <2>4 DEF SiteEmpty, Plan, NewRow
    <2> QED
      BY <2>1, <2>2, <2>3, <2>4
  <1>9. CASE p.table = "targets"
    <2>1. PICK t \in db["targets"] : plan \in TargetToggle(t) \cup TargetDelete(t)
      BY <1>9 DEF PlansFor, With
    <2>2. CASE plan \in TargetToggle(t)
      <3> DEFINE want == [t EXCEPT !.enabled = ~@, !.runtime = FALSE]
      <3>1. t \in Target
        BY TablesAre DEF DbShapes
      <3>2. /\ want.site = t.site /\ want.kind = t.kind /\ want.entry = t.entry
            /\ want.raced = t.raced
        BY <3>1 DEF Target
      <3>3. plan = Changing("targets", t, want)
        BY <2>2 DEF TargetToggle
      <3> HIDE DEF want
      <3> QED
        BY <3>2, <3>3 DEF Changing, Change, Plan, NewRow
    <2>3. CASE plan \in TargetDelete(t)
      <3>1. plan = Deleting("targets", t)
        BY <2>3 DEF TargetDelete
      <3> QED
        BY <1>3, <3>1 DEF NewRow, Tables
    <2> QED
      BY <2>1, <2>2, <2>3
  <1> QED
    BY <1>6, <1>7, <1>8, <1>9 DEF Pages, Tables

\* The entry that a request replaces is an entry no longer, and stays where it was.
LEMMA ReplacedImage ==
    ASSUME DbShapes, NEW site, NEW id, NEW entry, NEW row \in db.targets,
           NEW c \in Replaced(site, id, entry), c.seen.id = row.id
    PROVE  ~Written(row, c).entry
  <1>1. PICK t \in Previous(site, id) : c = Change("targets", t, NoEntry(t))
    BY DEF Replaced
  <1>2. t \in db.targets /\ t \in Target /\ t.entry = TRUE /\ t.id # id
    BY PreviousIs
  <1>3. /\ NoEntry(t) \in Target /\ NoEntry(t).entry = FALSE
        /\ NoEntry(t).id = t.id /\ NoEntry(t).uid = t.uid
    BY <1>2 DEF NoEntry, Target
  <1>4. c.seen = t /\ c.want = NoEntry(t)
    BY <1>1 DEF Change
  <1>5. row \in Target
    BY TablesAre DEF DbShapes
  <1> QED
    BY <1>2, <1>3, <1>4, <1>5, WrittenTarget

LEMMA OnlyRow ==
    ASSUME NEW plan, NEW row, plan.inserts = {[table |-> "targets", row |-> row]}
    PROVE  NewRow(plan, "targets") = {row}
  <1>1. \A j \in plan.inserts : j.table = "targets" /\ j.row = row
    OBVIOUS
  <1>2. {j \in plan.inserts : j.table = "targets"} = plan.inserts /\ plan.inserts # {}
    BY <1>1
  <1>3. NewRow(plan, "targets") = {j.row : j \in plan.inserts}
    BY <1>2 DEF NewRow
  <1> QED
    BY <1>1, <1>2, <1>3

LEMMA FreshFine ==
    ASSUME EntryOfSite, DbShapes, NEW plan \in Plans, NEW fresh \in NewObject,
           NewRow(plan, "targets") = {fresh},
           plan.changes = Replaced(fresh.site, 0, fresh.entry),
           fresh.entry => fresh.kind \in Suitable
    PROVE  FinePlan(plan)
  <1>1. /\ Numbered(fresh, "targets").id = sequence.targets
        /\ Numbered(fresh, "targets").site = fresh.site
        /\ Numbered(fresh, "targets").kind = fresh.kind
        /\ Numbered(fresh, "targets").entry = fresh.entry
    BY NumberedTarget DEF NewObject, DbShapes, Tables
  <1>2. ASSUME NEW r \in Kept(plan), r.entry, ~r.raced
        PROVE  r \in db.targets /\ r.id # 0 /\ ~(fresh.entry /\ r \in Previous(fresh.site, 0))
    <2>1. PICK row \in db.targets : r = Image(plan, "targets", row)
      BY TablesAre DEF Kept, DbShapes
    <2>2. row \in Target
      BY TablesAre DEF DbShapes
    <2>3. CASE ChangesOf(plan, "targets", row) = {} /\ r = row
      <3>1. row.id # 0
        BY <2>2 DEF Target
      <3>2. ASSUME fresh.entry, row \in Previous(fresh.site, 0)
            PROVE  FALSE
        <4>1. Change("targets", row, NoEntry(row)) \in plan.changes
          BY <3>2 DEF Replaced
        <4>2. Change("targets", row, NoEntry(row)) \in ChangesOf(plan, "targets", row)
          BY <4>1 DEF ChangesOf, Change
        <4> QED
          BY <2>3, <4>2
      <3> QED
        BY <2>3, <3>1, <3>2
    <2>4. ASSUME NEW x \in plan.changes, x.seen.id = row.id, r = Written(row, x)
          PROVE  FALSE
      <3>1. x \in Replaced(fresh.site, 0, fresh.entry)
        OBVIOUS
      <3>2. ~Written(row, x).entry
        BY <2>4, <3>1, ReplacedImage
      <3> QED
        BY <1>2, <2>4, <3>2
    <2> QED
      BY <2>1, <2>3, <2>4, TargetImage
  <1>3. ASSUME NEW r \in After(plan, "targets"), r.entry, ~r.raced
        PROVE  \/ r \in db.targets /\ r.id # 0
                    /\ ~(fresh.entry /\ r \in Previous(fresh.site, 0))
               \/ /\ fresh.entry /\ r.id = sequence.targets
                  /\ r.site = fresh.site /\ r.kind = fresh.kind
    <2>1. CASE r = Numbered(fresh, "targets")
      BY <1>1, <1>3, <2>1
    <2>2. CASE r \in Kept(plan)
      BY <1>2, <1>3, <2>2
    <2> QED
      BY <2>1, <2>2, KeptAndNew
  <1>4. Beside(After(plan, "targets"), fresh.site, 0, sequence.targets, fresh.entry, fresh.kind)
    BY <1>3 DEF Beside
  <1>5. Fine(After(plan, "targets"))
    BY <1>4, NewEntryFine
  <1>6. Fine(Kept(plan))
    BY <1>5, KeptAndNew DEF Fine
  <1>7. \A t \in Kept(plan) : fresh.entry /\ t.entry /\ ~t.raced => t.site # fresh.site
    BY <1>2, ReplacesAll
  <1>8. Apart(plan)
    BY <1>7 DEF Apart
  <1> QED
    BY <1>6, <1>8 DEF FinePlan

LEMMA CreateFine ==
    ASSUME EntryOfSite, DbShapes, NEW s \in db["sites"], NEW plan \in TargetCreate(s)
    PROVE  FinePlan(plan)
  <1>1. plan \in Plans
    BY CreatePlans
  <1>2. PICK c \in [name: TargetNames, kind: Kinds, entry: BOOLEAN,
                    copy: {{}} \cup {{t} : t \in Rows("targets")}] :
           /\ EntryAllowed(c.kind, c.entry)
           /\ plan = Plan(Replaced(s.id, 0, c.entry),
                          {[table |-> "targets",
                            row |-> NewTarget(s, c.name, c.kind, c.entry, c.copy)]}, {})
    BY DEF TargetCreate
  <1> DEFINE fresh == NewTarget(s, c.name, c.kind, c.entry, c.copy)
  <1>3. fresh \in NewObject
    BY NewTargetTyped
  <1>4. fresh.site = s.id /\ fresh.kind = c.kind /\ fresh.entry = c.entry
    BY DEF NewTarget
  <1>5. /\ plan.changes = Replaced(s.id, 0, c.entry)
        /\ plan.inserts = {[table |-> "targets", row |-> fresh]}
    BY <1>2 DEF Plan
  <1>6. fresh.entry => fresh.kind \in Suitable
    BY <1>2, <1>4 DEF EntryAllowed
  <1> HIDE DEF fresh
  <1>7. NewRow(plan, "targets") = {fresh}
    BY <1>5, OnlyRow
  <1>8. plan.changes = Replaced(fresh.site, 0, fresh.entry)
    BY <1>4, <1>5
  <1> QED
    BY <1>1, <1>3, <1>6, <1>7, <1>8, FreshFine

LEMMA UpdateFine ==
    ASSUME EntryOfSite, DbShapes, NEW t \in db["targets"], NEW plan \in TargetUpdate(t)
    PROVE  FinePlan(plan)
  <1>1. plan \in Plans
    BY TargetPlans
  <1>2. PICK c \in [site: Rows("sites"), kind: Kinds, entry: BOOLEAN] :
           /\ EntryAllowed(c.kind, c.entry)
           /\ plan = Plan({Change("targets", t,
                              [t EXCEPT !.site = c.site.id, !.kind = c.kind, !.entry = c.entry,
                                        !.raced = FALSE])}
                            \cup Replaced(c.site.id, t.id, c.entry), {}, {})
    BY DEF TargetUpdate
  <1> DEFINE want == [t EXCEPT !.site = c.site.id, !.kind = c.kind, !.entry = c.entry,
                               !.raced = FALSE]
             own == Change("targets", t, want)
  <1>3. t \in Target /\ t \in db.targets
    BY TablesAre DEF DbShapes
  <1>4. c.site.id \in Nat
    BY TablesAre DEF DbShapes, Rows, Tables
  <1>5. /\ want \in Target /\ want.id = t.id /\ want.uid = t.uid /\ want.site = c.site.id
        /\ want.kind = c.kind /\ want.entry = c.entry /\ want.raced = FALSE
    BY <1>3, <1>4 DEF Target
  <1>6. /\ plan.changes = {own} \cup Replaced(c.site.id, t.id, c.entry)
        /\ NewRow(plan, "targets") = {}
    BY <1>2 DEF Plan, NewRow
  <1>7. own.table = "targets" /\ own.seen = t /\ own.want = want
    BY DEF Change
  <1> HIDE DEF want, own
  <1>8. /\ Written(t, own).id = t.id /\ Written(t, own).site = c.site.id
        /\ Written(t, own).kind = c.kind /\ Written(t, own).entry = c.entry
    BY <1>3, <1>5, <1>7, WrittenTarget
  <1>9. ASSUME NEW x \in Replaced(c.site.id, t.id, c.entry)
        PROVE  x.seen.id # t.id
    <2>1. PICK u \in Previous(c.site.id, t.id) : x = Change("targets", u, NoEntry(u))
      BY DEF Replaced
    <2>2. u.id # t.id
      BY PreviousIs
    <2> QED
      BY <2>1, <2>2 DEF Change
  <1>10. \A row \in db.targets : row.id = t.id => row = t
    BY <1>3 DEF DbShapes, UniqueIds, Tables
  <1>11. ASSUME NEW r \in After(plan, "targets"), r.entry, ~r.raced
         PROVE  \/ r \in db.targets /\ r.id # t.id
                     /\ ~(c.entry /\ r \in Previous(c.site.id, t.id))
                \/ c.entry /\ r.id = t.id /\ r.site = c.site.id /\ r.kind = c.kind
    <2>1. PICK row \in db.targets : r = Image(plan, "targets", row)
      BY <1>1, <1>6, <1>11, AfterTargets
    <2>2. CASE ChangesOf(plan, "targets", row) = {} /\ r = row
      <3>1. row.id # t.id
        <4>1. own \notin ChangesOf(plan, "targets", row)
          BY <2>2
        <4> QED
          BY <1>6, <1>7, <4>1 DEF ChangesOf
      <3>2. ASSUME c.entry, row \in Previous(c.site.id, t.id)
            PROVE  FALSE
        <4>1. Change("targets", row, NoEntry(row)) \in plan.changes
          BY <1>6, <3>2 DEF Replaced
        <4>2. Change("targets", row, NoEntry(row)) \in ChangesOf(plan, "targets", row)
          BY <4>1 DEF ChangesOf, Change
        <4> QED
          BY <2>2, <4>2
      <3> QED
        BY <2>2, <3>1, <3>2
    <2>3. ASSUME NEW x \in plan.changes, x.seen.id = row.id, r = Written(row, x)
          PROVE  c.entry /\ r.id = t.id /\ r.site = c.site.id /\ r.kind = c.kind
      <3>1. CASE x \in Replaced(c.site.id, t.id, c.entry)
        BY <1>11, <2>3, <3>1, ReplacedImage
      <3>2. CASE x = own
        <4>1. row = t
          BY <1>7, <1>10, <2>3, <3>2
        <4> QED
          BY <1>8, <1>11, <2>3, <3>2, <4>1
      <3> QED
        BY <1>6, <3>1, <3>2
    <2> QED
      BY <1>1, <2>1, <2>2, <2>3, TargetImage
  <1>12. Beside(After(plan, "targets"), c.site.id, t.id, t.id, c.entry, c.kind)
    BY <1>11 DEF Beside
  <1>13. c.entry => c.kind \in Suitable
    BY <1>2 DEF EntryAllowed
  <1> QED
    BY <1>6, <1>12, <1>13, NewEntryFine, FineWithoutNew
LEMMA DecidedFine ==
    ASSUME EntryOfSite, DbShapes, NEW p \in Pages, NEW plan \in PlansFor(p)
    PROVE  FinePlan(plan)
  BY OtherPlansFine, CreateFine, UpdateFine

-----------------------------------------------------------------------------
(* The steps that write objects. *)

LEMMA CommitEntry ==
    ASSUME EntryInv, NEW a \in Admins, Commit(a)
    PROVE  EntryOfSite'
  <1> DEFINE plan == request[a].plan
             T == After(plan, "targets")
             sites == SitesToMark(a, T)
  <1>1. request[a] \in DecidedOnes /\ DbShapes
    BY DecidedIsDecided DEF EntryInv, MeaningInv, Shapes, Commit
  <1>2. plan \in Plans
    BY <1>1 DEF DecidedOnes
  <1>3. db'.targets = MarkRaced(T, sites)
    BY DEF Commit, Committed
  <1>4. T \in SUBSET Target
    BY <1>1, <1>2, AfterTyped
  <1>5. ASSUME NEW t \in T, NEW u \in T, t.id = u.id, t.site \notin sites, u.site \notin sites
        PROVE  t = u
    <2>1. UniqueIds(Committed(a)) /\ Committed(a)["targets"] = MarkRaced(T, sites)
      BY DEF Commit, Accepted, Constraints, Committed
    <2>2. \A r, s \in MarkRaced(T, sites) : r.id = s.id => r = s
      BY <2>1 DEF UniqueIds, Tables
    <2> HIDE DEF T, sites
    <2>3. t \in MarkRaced(T, sites) /\ u \in MarkRaced(T, sites)
      BY <1>5 DEF MarkRaced
    <2> QED
      BY <1>5, <2>2, <2>3
  <1>6. \A t, u \in db.targets :
           t.entry /\ u.entry /\ t.site = u.site /\ ~t.raced => t = u /\ t.kind \in Suitable
    BY DEF EntryInv, EntryOfSite, SoleEntries, Rows
  <1>7. \A t \in T : t.site \notin sites => ~(t.entry /\ t.raced)
    BY DEF SitesToMark, StillRaced
  <1>8. ASSUME NEW t \in T, NEW u \in T, t.entry, u.entry, t.site = u.site, ~t.raced,
               t.site \notin sites
        PROVE  t = u /\ t.kind \in Suitable
    <2>1. ~u.raced
      BY <1>7, <1>8
    <2>2. CASE ~request[a].overlapped
      <3>1. Fine(T)
        <4>1. FinePlan(plan)
          BY <1>1, <1>2, <2>2 DEF EntryInv, PlansFine, DecidedOnes
        <4> QED
          BY <1>1, <1>2, <4>1, AfterFinePlan
      <3>2. t.id = u.id /\ t.kind \in Suitable
        BY <1>8, <2>1, <3>1 DEF Fine
      <3> QED
        BY <1>5, <1>8, <3>2
    <2>3. CASE request[a].overlapped
      <3>1. ASSUME NEW v \in T, v.site \notin sites
            PROVE  v \in db.targets
        <4>1. v.site \notin Touched(plan, T)
          BY <2>3, <3>1 DEF SitesToMark
        <4>2. ChangesOf(plan, "targets", v) = {} /\ v.id # sequence.targets
          BY <4>1 DEF Touched
        <4>3. ASSUME NEW row \in NewRow(plan, "targets"), v = Numbered(row, "targets")
              PROVE  FALSE
          BY <1>1, <1>2, <4>2, <4>3, NewRows DEF Tables
        <4>4. PICK row \in db.targets : v = Image(plan, "targets", row)
          BY <1>1, <1>2, <4>3, AfterTargets
        <4>5. v.id = row.id
          BY <1>1, <1>2, <4>4, ImageTyped, TablesAre DEF DbShapes, Tables
        <4>6. ChangesOf(plan, "targets", row) = {}
          BY <4>2, <4>5 DEF ChangesOf
        <4> QED
          BY <4>4, <4>6 DEF Image
      <3>2. t \in db.targets /\ u \in db.targets
        BY <1>8, <3>1
      <3> QED
        BY <1>6, <1>8, <3>2
    <2> QED
      BY <2>2, <2>3
  <1> HIDE DEF T, sites
  <1>9. SoleEntries(MarkRaced(T, sites))
    BY <1>4, <1>8, MarkedSole
  <1> QED
    BY <1>3, <1>9 DEF EntryOfSite, Rows

LEMMA RestoreEntry ==
    ASSUME EntryInv, CommitRestore
    PROVE  EntryOfSite'
  <1> DEFINE here == Survivors("targets")
             there == job.file.rows.targets
             sites == SharedSites(here, there)
  <1>1. job \in RestoreJobs /\ DbShapes
    BY RestoreJobIs DEF EntryInv, MeaningInv, Shapes, CommitRestore
  <1>2. there \in SUBSET Target
    BY <1>1, TablesAre DEF RestoreJobs, Archives
  <1>3. here \in SUBSET Target /\ here \subseteq db["targets"]
    BY <1>1, TablesAre DEF DbShapes, Survivors
  <1>4. \A t, u \in here :
           t.entry /\ u.entry /\ t.site = u.site /\ ~t.raced => t = u /\ t.kind \in Suitable
    BY <1>3, TablesAre DEF EntryInv, EntryOfSite, SoleEntries, Rows, DbShapes
  <1>5. \A t, u \in there :
           t.entry /\ u.entry /\ t.site = u.site /\ ~t.raced => t = u /\ t.kind \in Suitable
    BY <1>1 DEF EntryInv, ArchivesSole, SoleEntries, RestoreJobs
  <1>6. \A t \in here, u \in there : t.entry /\ u.entry /\ t.site = u.site => t.site \in sites
    BY DEF SharedSites
  <1>7. db'.targets = MarkRaced(here \cup there, sites)
    BY DEF CommitRestore, Restored
  <1> HIDE DEF here, there, sites
  <1>8. ASSUME NEW t \in here \cup there, NEW u \in here \cup there, t.entry, u.entry,
               t.site = u.site, ~t.raced, t.site \notin sites
        PROVE  t = u /\ t.kind \in Suitable
    <2>1. CASE t \in here /\ u \in here
      BY <1>4, <1>8, <2>1
    <2>2. CASE t \in there /\ u \in there
      BY <1>5, <1>8, <2>2
    <2> QED
      BY <1>6, <1>8, <2>1, <2>2
  <1>9. here \cup there \in SUBSET Target
    BY <1>2, <1>3
  <1>10. SoleEntries(MarkRaced(here \cup there, sites))
    BY <1>8, <1>9, MarkedSole
  <1> QED
    BY <1>7, <1>10 DEF EntryOfSite, Rows
LEMMA SavedTargets ==
    ASSUME DbShapes, NEW target \in Rows("targets"), SaveResult(target)
    PROVE  /\ \A r \in db'.targets : \E t \in db.targets : SameEntry(r, t) /\ r \in Target
           /\ \A r, s \in db'.targets : r.id = s.id => r = s
  <1> DEFINE saved == [target EXCEPT !.runtime = TRUE]
             others == {t \in db.targets : t # target}
  <1>1. DbShapes'
    BY SaveDb
  <1>2. target \in db.targets /\ target \in Target /\ db.targets \subseteq Target
    BY TablesAre DEF Rows, DbShapes
  <1>3. SameEntry(saved, target) /\ saved \in Target
    BY <1>2 DEF SameEntry, Target
  <1>4. db' = [db EXCEPT !.results = @ \cup {target.id}, !.targets = others \cup {saved}]
    BY DEF SaveResult
  <1>5. \A r \in others \cup {saved} : \E t \in db.targets : SameEntry(r, t) /\ r \in Target
    BY <1>2, <1>3 DEF SameEntry
  <1> HIDE DEF saved, others
  <1>6. db'.targets = others \cup {saved}
    BY <1>4 DEF DbShapes, Database
  <1>7. db'.targets = db'["targets"]
    BY <1>1, TablesAre DEF DbShapes
  <1>8. \A r, s \in db'.targets : r.id = s.id => r = s
    BY <1>1, <1>7 DEF DbShapes, UniqueIds, Tables
  <1> QED
    BY <1>5, <1>6, <1>8

LEMMA SaveEntry ==
    ASSUME EntryInv, NEW target \in Rows("targets"), SaveResult(target)
    PROVE  EntryOfSite'
  <1>1. DbShapes
    BY DEF EntryInv, MeaningInv, Shapes
  <1>2. /\ \A r \in db'.targets : \E t \in db.targets : SameEntry(r, t)
        /\ \A r, s \in db'.targets : r.id = s.id => r = s
    BY <1>1, SavedTargets
  <1>3. \A t, u \in db.targets :
           t.entry /\ u.entry /\ t.site = u.site /\ ~t.raced => t = u /\ t.kind \in Suitable
    BY DEF EntryInv, EntryOfSite, SoleEntries, Rows
  <1>4. \A r, s \in db'.targets :
           r.entry /\ s.entry /\ r.site = s.site /\ ~r.raced => r = s /\ r.kind \in Suitable
    BY <1>2, <1>3 DEF SameEntry
  <1> QED
    BY <1>4 DEF EntryOfSite, SoleEntries, Rows

\* A saved result touches nothing that a decided plan writes.
LEMMA SavePlans ==
    ASSUME DbShapes, NEW target \in Rows("targets"), SaveResult(target), NEW plan \in Plans,
           FinePlan(plan)
    PROVE  FinePlan(plan)'
  <1>1. DbShapes'
    BY SaveDb
  <1>2. /\ db.targets \subseteq Target /\ db.targets = db["targets"]
        /\ db'.targets = db'["targets"]
    BY <1>1, TablesAre DEF DbShapes
  <1>3. Kept(plan)' =
           {Image(plan, "targets", row) : row \in {r \in db'["targets"] : ~Gone(plan, "targets", r)}}
    BY DEF Kept, Image
  <1>4. ASSUME NEW row \in db'.targets, ~Gone(plan, "targets", row)
        PROVE  \E s \in Kept(plan) : SameEntry(Image(plan, "targets", row), s)
    <2>1. PICK t \in db.targets : SameEntry(row, t) /\ row \in Target
      BY SavedTargets
    <2>2. ~Gone(plan, "targets", t)
      BY <1>4, <2>1 DEF Gone, SameEntry
    <2>3. Image(plan, "targets", t) \in Kept(plan)
      BY <1>2, <2>2 DEF Kept
    <2>4. ChangesOf(plan, "targets", row) = ChangesOf(plan, "targets", t)
      BY <2>1 DEF ChangesOf, SameEntry
    <2>5. SameEntry(Image(plan, "targets", row), Image(plan, "targets", t))
      <3>1. CASE ChangesOf(plan, "targets", t) = {}
        BY <2>1, <2>4, <3>1 DEF Image
      <3>2. CASE ChangesOf(plan, "targets", t) # {}
        <4>1. PICK c \in plan.changes :
                 /\ c.seen \in Target /\ c.want \in Target
                 /\ c.want.id = c.seen.id /\ c.want.uid = c.seen.uid
                 /\ Image(plan, "targets", t) = Written(t, c)
                 /\ c = CHOOSE x \in ChangesOf(plan, "targets", t) : TRUE
          BY <3>2, TargetImage
        <4>2. Image(plan, "targets", row) = Written(row, c)
          BY <2>4, <3>2, <4>1 DEF Image
        <4>3. SameEntry(Written(row, c), Written(t, c))
          BY <1>2, <2>1, <4>1, WrittenTarget DEF SameEntry
        <4> QED
          BY <4>1, <4>2, <4>3
      <3> QED
        BY <3>1, <3>2
    <2> QED
      BY <2>3, <2>5
  <1> DEFINE T == Kept(plan)'
             U == Kept(plan)
  <1>5. \A t \in T : \E u \in U : SameEntry(t, u)
    BY <1>2, <1>3, <1>4
  <1>6. /\ Fine(U)
        /\ \A new \in NewRow(plan, "targets") : new.entry =>
              new.kind \in Suitable /\ \A u \in U : u.entry /\ ~u.raced => u.site # new.site
    BY DEF FinePlan, Apart
  <1> HIDE DEF T, U
  <1>7. Fine(T)
    BY <1>5, <1>6, FineOfSame
  <1>8. \A new \in NewRow(plan, "targets") : new.entry =>
           new.kind \in Suitable /\ \A t \in T : t.entry /\ ~t.raced => t.site # new.site
    BY <1>5, <1>6 DEF SameEntry
  <1>9. /\ Fine(T) <=> Fine(Kept(plan))'
        /\ NewRow(plan, "targets")' = NewRow(plan, "targets")
    BY DEF T, Fine, NewRow
  <1>10. Apart(plan)'
    BY <1>8, <1>9 DEF Apart, T
  <1> QED
    BY <1>7, <1>9, <1>10 DEF FinePlan
-----------------------------------------------------------------------------
(* The invariant of the entries. *)

LEMMA SameFinePlan ==
    ASSUME UNCHANGED db, NEW plan
    PROVE  FinePlan(plan)' <=> FinePlan(plan)
  <1>1. Kept(plan)' = Kept(plan) /\ NewRow(plan, "targets")' = NewRow(plan, "targets")
    BY DEF Kept, Image, Gone, NewRow
  <1> QED
    BY <1>1 DEF FinePlan, Apart, Fine

\* Nothing commits: what was decided before is as it was, and what is decided now is fine.
LEMMA EntryOfRest ==
    ASSUME EntryInv, MeaningInv', UNCHANGED db, ArchivesSole',
           \A a \in Admins, plan \in Plans :
              /\ request'[a].stage = "decided" /\ ~request'[a].overlapped
              /\ request'[a].plan = plan
              => \/ /\ request[a].stage = "decided" /\ ~request[a].overlapped
                    /\ request[a].plan = plan
                 \/ \E p \in Pages : plan \in PlansFor(p)
    PROVE  EntryInv'
  <1>1. \A plan \in Plans : FinePlan(plan) => FinePlan(plan)'
    BY SameFinePlan
  <1>2. \A p \in Pages : \A plan \in PlansFor(p) : FinePlan(plan)
    BY DecidedFine DEF EntryInv, MeaningInv, Shapes
  <1>3. PlansFine'
    BY <1>1, <1>2 DEF EntryInv, PlansFine
  <1>4. EntryOfSite'
    BY DEF EntryInv, EntryOfSite, Rows
  <1> QED
    BY <1>3, <1>4 DEF EntryInv

LEMMA SameArchives ==
    ASSUME ArchivesSole, UNCHANGED files, job' = job \/ job' = Disturbed \/ job' = NoJob, JobShapes
    PROVE  ArchivesSole'
  <1>1. CASE job' = job \/ job' = NoJob
    BY <1>1 DEF ArchivesSole, NoJob
  <1>2. CASE job' = Disturbed /\ job' # job
    <2>1. job' = [job EXCEPT !.disturbed = TRUE] /\ job \in BackupJobs \cup RestoreJobs
      BY <1>2 DEF Disturbed, JobShapes, NoJob, Lost
    <2>2. CASE job \in BackupJobs
      <3>1. job'.kind = "backup" /\ job'.rows = job.rows /\ job.kind = "backup"
        BY <2>1, <2>2 DEF BackupJobs
      <3> QED
        BY <3>1 DEF ArchivesSole
    <2>3. CASE job \in RestoreJobs
      <3>1. job'.kind = "restore" /\ job'.file = job.file /\ job.kind = "restore"
        BY <2>1, <2>3 DEF RestoreJobs
      <3> QED
        BY <3>1 DEF ArchivesSole
    <2> QED
      BY <2>1, <2>2, <2>3
  <1> QED
    BY <1>1, <1>2

LEMMA ReadSole ==
    ASSUME EntryInv, ReadSection
    PROVE  ArchivesSole'
  <1> DEFINE table == Head(job.left)
             section == SectionOf(table, job.full)
             rows == [job.rows EXCEPT ![table] = section]
  <1>1. job \in BackupJobs /\ job' \in BackupJobs /\ DbShapes
    BY BackupJobIs, ReadShapes DEF ReadSection, EntryInv, MeaningInv, Shapes
  <1>2. SoleEntries(db.targets)
    BY DEF EntryInv, EntryOfSite, Rows
  <1>3. SoleEntries(Clean(db.targets))
    <2>1. db.targets \subseteq Target
      BY <1>1, TablesAre DEF DbShapes
    <2>2. SUFFICES ASSUME NEW t \in Clean(db.targets), NEW u \in Clean(db.targets),
                          t.entry, u.entry, t.site = u.site, ~t.raced
                   PROVE  t = u /\ t.kind \in Suitable
      BY DEF SoleEntries
    <2>3. PICK r \in db.targets : t = [r EXCEPT !.runtime = FALSE]
      BY DEF Clean
    <2>4. PICK s \in db.targets : u = [s EXCEPT !.runtime = FALSE]
      BY DEF Clean
    <2>5. /\ r.entry /\ s.entry /\ r.site = s.site /\ ~r.raced /\ t.kind = r.kind
      BY <2>1, <2>2, <2>3, <2>4 DEF Target
    <2> QED
      BY <1>2, <2>3, <2>4, <2>5 DEF SoleEntries
  <1>4. table = "targets" => SoleEntries(section)
    BY <1>1, <1>2, <1>3, TablesAre DEF SectionOf, DbShapes
  <1>5. SoleEntries(job.rows.targets)
    BY <1>1 DEF EntryInv, ArchivesSole, BackupJobs
  <1>6. job.left \in Seq(Tables \cup {"results"}) /\ job.left # <<>> /\ job.rows \in Database
    BY <1>1 DEF BackupJobs, ReadSection
  <1>7. table \in {"schedules", "sites", "targets", "results"}
    BY <1>6 DEF Tables
  <1>8. job' = [job EXCEPT !.left = Tail(@), !.rows[table] = section]
    BY DEF ReadSection
  <1> HIDE DEF table, section
  <1>9. SoleEntries(rows.targets)
    <2>1. rows.targets = IF table = "targets" THEN section ELSE job.rows.targets
      BY <1>6, <1>7 DEF Database
    <2> QED
      BY <1>4, <1>5, <2>1
  <1>10. job'.rows = rows
    BY <1>1, <1>8 DEF BackupJobs
  <1> HIDE DEF rows
  <1> QED
    BY <1>1, <1>9, <1>10 DEF ReadSection, EntryInv, ArchivesSole, BackupJobs

LEMMA EntryStart == Init => EntryInv
  <1> SUFFICES ASSUME Init PROVE EntryInv
    OBVIOUS
  <1>1. EntryOfSite
    BY StartAssumption DEF Init, EntryOfSite, Rows
  <1>2. PlansFine
    BY DEF Init, PlansFine, Idle
  <1>3. ArchivesSole
    <2>1. files \subseteq Uploads /\ job = NoJob
      BY StartAssumption DEF Init
    <2> QED
      BY <2>1, UploadsAssumption DEF ArchivesSole, NoJob
  <1> QED
    BY <1>1, <1>2, <1>3, MeaningStart DEF EntryInv

LEMMA EntryNext ==
    ASSUME EntryInv, [Next]_vars
    PROVE  EntryInv'
  <1>1. /\ MeaningInv /\ MeaningInv' /\ Shapes /\ DbShapes /\ RequestShapes /\ JobShapes
        /\ EntryOfSite /\ PlansFine /\ ArchivesSole
    BY MeaningNext DEF EntryInv, MeaningInv, Shapes
  <1>2. ASSUME UNCHANGED <<db, request>>, ArchivesSole'
        PROVE  EntryInv'
    BY <1>1, <1>2, EntryOfRest
  <1>3. CASE UNCHANGED vars
    <2>1. UNCHANGED <<db, request, files, job>>
      BY <1>3 DEF vars
    <2> QED
      BY <1>1, <1>2, <2>1, SameArchives
  <1>4. CASE InventoryNext /\ UNCHANGED <<files, jobs>>
    <2>1. ASSUME NEW a \in Admins, Login(a) \/ OpenPage(a)
          PROVE  EntryInv'
      BY <1>1, <1>2, <1>4, <2>1, SameArchives DEF Login, OpenPage
    <2>2. ASSUME NEW a \in Admins, Submit(a)
          PROVE  EntryInv'
      <3>1. \A b \in Admins : request'[b].stage = "decided" => request'[b] = request[b]
        BY <1>1, <2>2 DEF Submit, RequestShapes
      <3> QED
        BY <1>1, <1>4, <2>2, <3>1, EntryOfRest, SameArchives DEF Submit
    <2>3. ASSUME NEW a \in Admins, Fail(a)
          PROVE  EntryInv'
      <3>1. \A b \in Admins : request'[b].stage = "decided" => request'[b] = request[b]
        BY <1>1, <2>3 DEF Fail, RequestShapes, Idle
      <3> QED
        BY <1>1, <1>4, <2>3, <3>1, EntryOfRest, SameArchives DEF Fail
    <2>4. ASSUME NEW a \in Admins, Decide(a)
          PROVE  EntryInv'
      <3>1. request[a] \in Admitted /\ request[a].page \in Pages
        BY <1>1, <2>4, AdmittedIsAdmitted DEF Decide, Admitted
      <3>2. ASSUME NEW b \in Admins, NEW plan \in Plans, request'[b].stage = "decided",
                   ~request'[b].overlapped, request'[b].plan = plan
            PROVE  \/ /\ request[b].stage = "decided" /\ ~request[b].overlapped
                      /\ request[b].plan = plan
                   \/ \E p \in Pages : plan \in PlansFor(p)
        <4>1. CASE b # a
          <5>1. request'[b] = request[b]
            BY <1>1, <2>4, <4>1 DEF Decide, RequestShapes
          <5> QED
            BY <3>2, <5>1
        <4>2. CASE b = a
          <5>1. PICK chosen \in PlansFor(request[a].page) :
                   request' = [request EXCEPT ![a] =
                      [stage |-> "decided", page |-> request[a].page, plan |-> chosen,
                       overtaken |-> request[a].overtaken, overlapped |-> FALSE]]
            <6>1. request' # [request EXCEPT ![a] = Idle]
              BY <1>1, <3>2, <4>2 DEF RequestShapes, Idle
            <6> QED
              BY <2>4, <6>1 DEF Decide
          <5>2. request'[a].plan = chosen
            BY <1>1, <5>1 DEF RequestShapes
          <5> QED
            BY <3>1, <3>2, <4>2, <5>1, <5>2
        <4> QED
          BY <4>1, <4>2
      <3> QED
        BY <1>1, <1>4, <2>4, <3>2, EntryOfRest, SameArchives DEF Decide
    <2>5. ASSUME NEW a \in Admins, Commit(a)
          PROVE  EntryInv'
      <3>1. EntryOfSite'
        BY <2>5, CommitEntry
      <3>2. ASSUME NEW b \in Admins, request'[b].stage = "decided"
            PROVE  request'[b].overlapped
        <4>1. request'[b] = CASE b = a -> Idle
                              [] b # a /\ request[b].stage = "decided" ->
                                   [request[b] EXCEPT !.overlapped = TRUE]
                              [] OTHER -> request[b]
          BY <2>5 DEF Commit
        <4>2. b # a /\ request[b].stage = "decided"
          BY <3>2, <4>1 DEF Idle
        <4>3. request[b] \in DecidedOnes
          BY <1>1, <4>2, DecidedIsDecided
        <4> QED
          BY <4>1, <4>2, <4>3 DEF DecidedOnes
      <3>3. PlansFine'
        BY <3>2 DEF PlansFine
      <3> QED
        BY <1>1, <1>4, <2>5, <3>1, <3>3, SameArchives DEF Commit, EntryInv
    <2>6. ASSUME NEW target \in Rows("targets"), SaveResult(target)
          PROVE  EntryInv'
      <3>1. EntryOfSite'
        BY <2>6, SaveEntry
      <3>2. \A plan \in Plans : FinePlan(plan) => FinePlan(plan)'
        BY <1>1, <2>6, SavePlans
      <3>3. request' = request
        BY <2>6 DEF SaveResult
      <3>4. PlansFine'
        BY <1>1, <3>2, <3>3 DEF PlansFine
      <3> QED
        BY <1>1, <1>4, <2>6, <3>1, <3>4, SameArchives DEF SaveResult, EntryInv
    <2> QED
      BY <1>4, <2>1, <2>2, <2>3, <2>4, <2>5, <2>6 DEF InventoryNext
  <1>5. ASSUME UNCHANGED inventoryVars, ArchivesSole'
        PROVE  EntryInv'
    BY <1>2, <1>5 DEF inventoryVars
  <1>6. ASSUME NEW full \in BOOLEAN, StartBackup(full)
        PROVE  EntryInv'
    <2>1. SoleEntries(NoRows.targets)
      BY DEF NoRows, SoleEntries
    <2>2. ArchivesSole'
      BY <1>1, <1>6, <2>1 DEF StartBackup, ArchivesSole
    <2> QED
      BY <1>5, <1>6, <2>2 DEF StartBackup
  <1>7. CASE ReadSection
    BY <1>5, <1>7, ReadSole DEF ReadSection
  <1>8. CASE FinishBackup
    <2>1. SoleEntries(job.rows.targets)
      BY <1>1, <1>8 DEF FinishBackup, ArchivesSole
    <2>2. ArchivesSole'
      BY <1>1, <1>8, <2>1 DEF FinishBackup, ArchivesSole, Archive, NoJob
    <2> QED
      BY <1>5, <1>8, <2>2 DEF FinishBackup
  <1>9. ASSUME NEW file \in Uploads, Upload(file)
        PROVE  EntryInv'
    <2>1. ArchivesSole'
      BY <1>1, <1>9, UploadsAssumption DEF Upload, ArchivesSole
    <2> QED
      BY <1>5, <1>9, <2>1 DEF Upload
  <1>10. ASSUME NEW file \in files, DeleteFile(file)
         PROVE  EntryInv'
    <2>1. ArchivesSole'
      <3>1. \A f \in files' : SoleEntries(f.rows.targets)
        BY <1>1, <1>10 DEF DeleteFile, ArchivesSole
      <3>2. /\ job'.kind = job.kind
            /\ job.kind = "backup" => job'.rows = job.rows
            /\ job.kind = "restore" => job'.file = job.file
        <4>1. \/ job' = job
              \/ job' = [job EXCEPT !.disturbed = TRUE] /\ job \in BackupJobs \cup RestoreJobs
          BY <1>1, <1>10 DEF DeleteFile, Disturbed, JobShapes, NoJob, Lost
        <4> QED
          BY <4>1 DEF BackupJobs, RestoreJobs
      <3> QED
        BY <1>1, <3>1, <3>2 DEF ArchivesSole
    <2> QED
      BY <1>5, <1>10, <2>1 DEF DeleteFile
  <1>11. ASSUME NEW file \in files, StartRestore(file)
         PROVE  EntryInv'
    <2>1. ArchivesSole'
      BY <1>1, <1>11 DEF StartRestore, ArchivesSole
    <2> QED
      BY <1>5, <1>11, <2>1 DEF StartRestore
  <1>12. CASE ClearTable
    <2>1. job \in RestoreJobs /\ SoleEntries(job.file.rows.targets)
      BY <1>1, <1>12, RestoreJobIs DEF ClearTable, ArchivesSole
    <2>2. job'.kind = "restore" /\ job'.file = job.file
      BY <1>12, <2>1 DEF ClearTable, RestoreJobs
    <2>3. ArchivesSole'
      BY <1>1, <1>12, <2>1, <2>2 DEF ClearTable, ArchivesSole
    <2> QED
      BY <1>5, <1>12, <2>3 DEF ClearTable
  <1>13. CASE CommitRestore
    <2>1. EntryOfSite'
      BY <1>13, RestoreEntry
    <2>2. ASSUME NEW a \in Admins, request'[a].stage = "decided"
          PROVE  request'[a].overlapped
      <3>1. request'[a] = CASE request[a].stage = "admitted" ->
                                 [request[a] EXCEPT !.overtaken = TRUE]
                            [] request[a].stage = "decided" ->
                                 [request[a] EXCEPT !.overtaken = TRUE, !.overlapped = TRUE]
                            [] OTHER -> Idle
        BY <1>13 DEF CommitRestore
      <3>2. CASE request[a].stage = "admitted"
        <4>1. request[a] \in Admitted
          BY <1>1, <3>2, AdmittedIsAdmitted
        <4>2. request'[a].stage = "admitted"
          BY <3>1, <3>2, <4>1 DEF Admitted
        <4> QED
          BY <2>2, <4>2
      <3>3. CASE request[a].stage = "decided"
        <4>1. request[a] \in DecidedOnes
          BY <1>1, <3>3, DecidedIsDecided
        <4> QED
          BY <3>1, <3>3, <4>1 DEF DecidedOnes
      <3>4. CASE request[a].stage \notin {"admitted", "decided"}
        BY <2>2, <3>1, <3>4 DEF Idle
      <3> QED
        BY <3>2, <3>3, <3>4
    <2>3. PlansFine'
      BY <2>2 DEF PlansFine
    <2> QED
      BY <1>1, <1>13, <2>1, <2>3, SameArchives DEF CommitRestore, EntryInv
  <1>14. CASE RefuseRestore \/ ForgetRestore
    BY <1>1, <1>5, <1>14, SameArchives DEF RefuseRestore, ForgetRestore
  <1>15. CASE LoseRestore
    <2>1. ArchivesSole'
      BY <1>1, <1>15 DEF LoseRestore, ArchivesSole
    <2> QED
      BY <1>5, <1>15, <2>1 DEF LoseRestore
  <1>16. CASE SetSequences
    <2>1. job \in RestoreJobs /\ job' = [job EXCEPT !.set = TRUE]
      BY <1>1, <1>16, RestoreJobIs DEF SetSequences
    <2>2. job'.kind = "restore" /\ job.kind = "restore" /\ job'.file = job.file
      BY <2>1 DEF RestoreJobs
    <2>3. ArchivesSole'
      BY <1>1, <1>16, <2>2 DEF SetSequences, ArchivesSole
    <2> QED
      BY <1>2, <1>16, <2>3 DEF SetSequences
  <1> QED
    BY <1>3, <1>4, <1>6, <1>7, <1>8, <1>9, <1>10, <1>11, <1>12, <1>13, <1>14, <1>15, <1>16 DEF Next

\* An entry that no race has left is of a suitable kind and the only one of its site, whatever
\* is created, copied, moved, restored and deleted: EntryOfSite.
THEOREM SiteHasOneEntry == Spec => []EntryOfSite
  <1>1. EntryInv => EntryOfSite
    BY DEF EntryInv
  <1> QED
    BY <1>1, EntryStart, EntryNext, PTL DEF Spec
-----------------------------------------------------------------------------
(* What a backup holds is what the database held, and passes its check. *)

SparesBuiltIn(plan) ==
    /\ \A c \in plan.changes : c.table = "schedules" => c.seen.id # BuiltIn
    /\ [table |-> "schedules", id |-> BuiltIn] \notin plan.deletes
BuiltInSpared ==
    \A a \in Admins : request[a].stage = "decided" => SparesBuiltIn(request[a].plan)

Faithful(file) ==
    file.quiet => Integrity(file.truth) /\ file.rows = Expected(file) /\ file.administered
ArchivesFaithful ==
    /\ \A file \in files : Faithful(file)
    /\ job.kind = "restore" => Faithful(job.file)

Pending(left) == {left[i] : i \in DOMAIN left}
Covered(full) == IF full THEN Tables \cup {"results"} ELSE Tables

\* A backup that nothing has disturbed has read the rows that are there.
BackupTrue ==
    job.kind = "backup" =>
        /\ Pending(job.left) \subseteq Covered(job.full)
        /\ ~job.full => job.rows.results = {}
        /\ ~job.disturbed =>
              /\ job.truth = db
              /\ \A table \in Covered(job.full) \ Pending(job.left) :
                    job.rows[table] = SectionOf(table, job.full)

\* A restore that nothing has disturbed has cleared the rows that are there.
Clearings ==
    {<<"targets", "sites", "schedules">>, <<"sites", "schedules">>, <<"schedules">>, <<>>}
RestoreTrue ==
    job.kind = "restore" =>
        /\ job.left \in Clearings /\ (job.set => job.left = <<>>)
        /\ ~job.disturbed =>
              /\ job.file \in files
              /\ \A table \in Tables \ Pending(job.left) : job.cleared[table] = db[table]

QuietInv ==
    MeaningInv /\ Integrity(db) /\ BuiltInSpared /\ ArchivesFaithful /\ BackupTrue /\ RestoreTrue

LEMMA PlansSpareBuiltIn ==
    ASSUME DbShapes, NEW p \in Pages, NEW plan \in PlansFor(p)
    PROVE  SparesBuiltIn(plan)
  <1>1. ASSUME NEW table \in {"sites", "targets"}, NEW seen, NEW want,
               plan = Changing(table, seen, want)
        PROVE  SparesBuiltIn(plan)
    BY <1>1 DEF Changing, Change, Plan, SparesBuiltIn
  <1>2. ASSUME NEW table, NEW row, plan = Inserting(table, row)
        PROVE  SparesBuiltIn(plan)
    BY <1>2 DEF Inserting, Plan, SparesBuiltIn
  <1>3. ASSUME NEW table, NEW row, plan = Deleting(table, row),
               table # "schedules" \/ row.id # BuiltIn
        PROVE  SparesBuiltIn(plan)
    BY <1>3 DEF Deleting, Plan, SparesBuiltIn
  <1>4. \A site, id, entry : \A c \in Replaced(site, id, entry) : c.table = "targets"
    BY DEF Replaced, Change
  <1>5. CASE p.table = "new"
    <2>1. \/ plan \in PlansOfScheduleCreate
          \/ plan \in PlansOfSiteCreate
      BY <1>5 DEF PlansFor
    <2>2. CASE plan \in PlansOfScheduleCreate
      <3>1. PICK h \in Hours : plan = Inserting("schedules", [hours |-> h])
        BY <2>2 DEF PlansOfScheduleCreate
      <3> QED
        BY <1>2, <3>1
    <2>3. CASE plan \in PlansOfSiteCreate
      <3>1. PICK n \in FreeNames(0), schedule \in Rows("schedules") :
               plan = Inserting("sites", [name |-> n, schedule |-> schedule.id, enabled |-> TRUE])
        BY <2>3 DEF PlansOfSiteCreate
      <3> QED
        BY <1>2, <3>1
    <2> QED
      BY <2>1, <2>2, <2>3
  <1>6. CASE p.table = "schedules"
    <2>1. PICK s \in db["schedules"] : plan \in ScheduleUpdate(s) \cup ScheduleDelete(s)
      BY <1>6 DEF PlansFor, With
    <2>2. CASE plan \in ScheduleUpdate(s)
      <3>1. s.id # BuiltIn
        BY <2>2 DEF ScheduleUpdate
      <3>2. PICK h \in Hours : plan = Changing("schedules", s, [s EXCEPT !.hours = h])
        BY <2>2, <3>1 DEF ScheduleUpdate
      <3> QED
        BY <3>1, <3>2 DEF Changing, Change, Plan, SparesBuiltIn
    <2>3. CASE plan \in ScheduleDelete(s)
      <3>1. plan = Deleting("schedules", s) /\ s.id # BuiltIn
        BY <2>3 DEF ScheduleDelete
      <3> QED
        BY <1>3, <3>1
    <2> QED
      BY <2>1, <2>2, <2>3
  <1>7. CASE p.table = "sites"
    <2>1. PICK s \in db["sites"] :
             plan \in SiteUpdate(s) \cup SiteToggle(s) \cup SiteDelete(s) \cup SiteEmpty(s)
                        \cup TargetCreate(s)
      BY <1>7 DEF PlansFor, With
    <2>2. CASE plan \in SiteUpdate(s) \cup SiteToggle(s)
      <3>1. \E want : plan = Changing("sites", s, want)
        BY <2>2 DEF SiteUpdate, SiteToggle
      <3> QED
        BY <1>1, <3>1
    <2>3. CASE plan \in SiteDelete(s)
      <3>1. plan = Deleting("sites", s)
        BY <2>3 DEF SiteDelete
      <3> QED
        BY <1>3, <3>1
    <2>4. CASE plan \in SiteEmpty(s)
      BY <2>4 DEF SiteEmpty, Plan, SparesBuiltIn
    <2>5. CASE plan \in TargetCreate(s)
      <3>1. PICK c \in [name: TargetNames, kind: Kinds, entry: BOOLEAN,
                        copy: {{}} \cup {{t} : t \in Rows("targets")}] :
               plan = Plan(Replaced(s.id, 0, c.entry),
                           {[table |-> "targets",
                             row |-> NewTarget(s, c.name, c.kind, c.entry, c.copy)]}, {})
        BY <2>5 DEF TargetCreate
      <3>2. plan.changes = Replaced(s.id, 0, c.entry) /\ plan.deletes = {}
        BY <3>1 DEF Plan
      <3> QED
        BY <1>4, <3>2 DEF SparesBuiltIn
    <2> QED
      BY <2>1, <2>2, <2>3, <2>4, <2>5
  <1>8. CASE p.table = "targets"
    <2>1. PICK t \in db["targets"] : plan \in TargetUpdate(t) \cup TargetToggle(t) \cup TargetDelete(t)
      BY <1>8 DEF PlansFor, With
    <2>2. CASE plan \in TargetToggle(t)
      <3>1. \E want : plan = Changing("targets", t, want)
        BY <2>2 DEF TargetToggle
      <3> QED
        BY <1>1, <3>1
    <2>3. CASE plan \in TargetDelete(t)
      <3>1. plan = Deleting("targets", t)
        BY <2>3 DEF TargetDelete
      <3> QED
        BY <1>3, <3>1
    <2>4. CASE plan \in TargetUpdate(t)
      <3>1. PICK c \in [site: Rows("sites"), kind: Kinds, entry: BOOLEAN] :
               plan = Plan({Change("targets", t,
                                [t EXCEPT !.site = c.site.id, !.kind = c.kind, !.entry = c.entry,
                                          !.raced = FALSE])}
                             \cup Replaced(c.site.id, t.id, c.entry), {}, {})
        BY <2>4 DEF TargetUpdate
      <3>2. /\ plan.deletes = {}
            /\ \A x \in plan.changes : \/ x.table = "targets"
                                       \/ x \in Replaced(c.site.id, t.id, c.entry)
        BY <3>1 DEF Plan, Change
      <3> QED
        BY <1>4, <3>2 DEF SparesBuiltIn
    <2> QED
      BY <2>1, <2>2, <2>3, <2>4
  <1> QED
    BY <1>5, <1>6, <1>7, <1>8 DEF Pages, Tables
LEMMA CommitIntegrity ==
    ASSUME DbShapes, DbShapes', Integrity(db), NEW a \in Admins, request[a] \in DecidedOnes,
           SparesBuiltIn(request[a].plan), Commit(a)
    PROVE  Integrity(db)'
  <1> DEFINE plan == request[a].plan
  <1>1. db' = Committed(a) /\ ForeignKeys(Committed(a)) /\ UniqueNames(Committed(a))
    BY DEF Commit, Accepted, Constraints
  <1>2. PICK s \in db.schedules : s.id = BuiltIn /\ s.hours = "always"
    BY DEF Integrity
  <1>3. db'.schedules = After(plan, "schedules")
    BY <1>1 DEF Committed
  <1>4. ~Gone(plan, "schedules", s) /\ ChangesOf(plan, "schedules", s) = {}
    BY <1>2 DEF SparesBuiltIn, Gone, ChangesOf
  <1>5. s \in db["schedules"]
    BY <1>2, TablesAre DEF DbShapes
  <1>6. s \in After(plan, "schedules")
    BY <1>4, <1>5, AfterImages DEF Image
  <1>7. UniqueIds(db)' /\ UniqueNames(db)' /\ ForeignKeys(db)'
    BY <1>1 DEF DbShapes, UniqueNames, ForeignKeys
  <1> QED
    BY <1>2, <1>3, <1>6, <1>7 DEF Integrity, Constraints

LEMMA SaveIntegrity ==
    ASSUME DbShapes, DbShapes', Integrity(db), NEW target \in Rows("targets"), SaveResult(target)
    PROVE  Integrity(db)'
  <1> DEFINE saved == [target EXCEPT !.runtime = TRUE]
             others == {t \in db.targets : t # target}
  <1>1. target \in db.targets /\ target \in Target
    BY TablesAre DEF Rows, DbShapes
  <1>2. saved.id = target.id /\ saved.site = target.site
    BY <1>1 DEF Target
  <1>3. db' = [db EXCEPT !.results = @ \cup {target.id}, !.targets = others \cup {saved}]
    BY DEF SaveResult
  <1>4. /\ \A t \in others \cup {saved} : \E r \in db.targets : t.id = r.id /\ t.site = r.site
        /\ \A r \in db.targets : \E t \in others \cup {saved} : t.id = r.id
    BY <1>1, <1>2
  <1>5. \E t \in others \cup {saved} : t.id = target.id
    BY <1>2
  <1> HIDE DEF saved, others
  <1>6. /\ db'.schedules = db.schedules /\ db'.sites = db.sites
        /\ db'.targets = others \cup {saved} /\ db'.results = db.results \cup {target.id}
    BY <1>3 DEF DbShapes, Database
  <1>7. /\ \A site \in db.sites : \E s \in db.schedules : s.id = site.schedule
        /\ \A t \in db.targets : \E s \in db.sites : s.id = t.site
        /\ db.results \subseteq {t.id : t \in db.targets}
        /\ UniqueNames(db) /\ \E s \in db.schedules : s.id = BuiltIn /\ s.hours = "always"
    BY DEF Integrity, Constraints, ForeignKeys
  <1>8. \A site \in db'.sites : \E s \in db'.schedules : s.id = site.schedule
    BY <1>6, <1>7
  <1>9. \A t \in db'.targets : \E s \in db'.sites : s.id = t.site
    BY <1>4, <1>6, <1>7
  <1>10. db'.results \subseteq {t.id : t \in db'.targets}
    BY <1>4, <1>5, <1>6, <1>7
  <1>11. ForeignKeys(db)'
    BY <1>8, <1>9, <1>10 DEF ForeignKeys
  <1>12. UniqueIds(db)' /\ UniqueNames(db)'
    BY <1>6, <1>7 DEF DbShapes, UniqueNames
  <1> QED
    BY <1>6, <1>7, <1>11, <1>12 DEF Integrity, Constraints

\* What a backup leaves out, no row refers to.
LEMMA ExpectedIntegrity ==
    ASSUME NEW file \in Archives, Integrity(file.truth)
    PROVE  Integrity(Expected(file))
  <1> DEFINE d == file.truth
             e == [d EXCEPT !.targets = Clean(@), !.results = {}]
  <1>1. CASE file.full
    BY <1>1 DEF Expected
  <1>2. CASE ~file.full
    <2>1. d \in Database
      BY DEF Archives
    <2>2. \A t \in d.targets :
             [t EXCEPT !.runtime = FALSE].id = t.id /\ [t EXCEPT !.runtime = FALSE].site = t.site
      BY <2>1 DEF Database, Target
    <2>3. \A t \in Clean(d.targets) : \E r \in d.targets :
             t = [r EXCEPT !.runtime = FALSE] /\ t.id = r.id /\ t.site = r.site
      BY <2>2 DEF Clean
    <2>4. /\ e.schedules = d.schedules /\ e.sites = d.sites /\ e.targets = Clean(d.targets)
          /\ e.results = {}
          /\ e["schedules"] = d["schedules"] /\ e["sites"] = d["sites"]
          /\ e["targets"] = Clean(d["targets"])
      BY <2>1 DEF Database
    <2>5. Expected(file) = e
      BY <1>2 DEF Expected
    <2> HIDE DEF d, e
    <2>6. UniqueIds(e)
      <3>1. \A table \in Tables : \A r, s \in d[table] : r.id = s.id => r = s
        BY DEF Integrity, Constraints, UniqueIds, d
      <3>2. d.targets = d["targets"]
        OBVIOUS
      <3>3. ASSUME NEW t \in Clean(d.targets), NEW u \in Clean(d.targets), t.id = u.id
            PROVE  t = u
        <4>1. PICK r \in d.targets : t = [r EXCEPT !.runtime = FALSE] /\ t.id = r.id
          BY <2>3
        <4>2. PICK s \in d.targets : u = [s EXCEPT !.runtime = FALSE] /\ u.id = s.id
          BY <2>3
        <4>3. r = s
          BY <3>1, <3>2, <3>3, <4>1, <4>2 DEF Tables
        <4> QED
          BY <4>1, <4>2, <4>3
      <3> QED
        BY <2>4, <3>1, <3>2, <3>3 DEF UniqueIds, Tables
    <2>7. ForeignKeys(e)
      BY <2>3, <2>4 DEF Integrity, Constraints, ForeignKeys, d
    <2>8. UniqueNames(e) /\ \E s \in e.schedules : s.id = BuiltIn /\ s.hours = "always"
      BY <2>4 DEF Integrity, Constraints, UniqueNames, d
    <2> QED
      BY <2>5, <2>6, <2>7, <2>8 DEF Integrity, Constraints
  <1> QED
    BY <1>1, <1>2

\* The rest of a list.
LEMMA PendingTail ==
    ASSUME NEW S, NEW left \in Seq(S), left # <<>>
    PROVE  /\ Pending(left) = {Head(left)} \cup Pending(Tail(left))
           /\ Tail(left) \in Seq(S)
  <1>1. Len(left) \in Nat /\ Len(left) > 0 /\ DOMAIN left = 1 .. Len(left) /\ Head(left) = left[1]
    OBVIOUS
  <1>2. /\ DOMAIN Tail(left) = 1 .. (Len(left) - 1)
        /\ \A i \in 1 .. (Len(left) - 1) : Tail(left)[i] = left[i + 1]
    OBVIOUS
  <1>3. ASSUME NEW x \in Pending(left)
        PROVE  x \in {Head(left)} \cup Pending(Tail(left))
    <2>1. PICK i \in 1 .. Len(left) : x = left[i]
      BY <1>1 DEF Pending
    <2>2. CASE i = 1
      BY <1>1, <2>1, <2>2
    <2>3. CASE i # 1
      <3>1. i - 1 \in 1 .. (Len(left) - 1) /\ (i - 1) + 1 = i
        BY <1>1, <2>3
      <3>2. Tail(left)[i - 1] = x
        BY <1>2, <2>1, <3>1
      <3> QED
        BY <1>2, <3>1, <3>2 DEF Pending
    <2> QED
      BY <2>2, <2>3
  <1>4. Pending(Tail(left)) \subseteq Pending(left)
    <2>1. \A i \in 1 .. (Len(left) - 1) : i + 1 \in 1 .. Len(left)
      BY <1>1
    <2> QED
      BY <1>1, <1>2, <2>1 DEF Pending
  <1>5. Head(left) \in Pending(left)
    <2>1. 1 \in 1 .. Len(left)
      BY <1>1
    <2> QED
      BY <1>1, <2>1 DEF Pending
  <1> QED
    BY <1>3, <1>4, <1>5

LEMMA ClearingTails ==
    /\ Tail(<<"targets", "sites", "schedules">>) = <<"sites", "schedules">>
    /\ Tail(<<"sites", "schedules">>) = <<"schedules">>
    /\ Tail(<<"schedules">>) = <<>>
    /\ Head(<<"targets", "sites", "schedules">>) = "targets"
    /\ Head(<<"sites", "schedules">>) = "sites"
    /\ Head(<<"schedules">>) = "schedules"
    /\ Pending(<<"targets", "sites", "schedules">>) = Tables
    /\ Pending(<<"sites", "schedules">>) = {"sites", "schedules"}
    /\ Pending(<<"schedules">>) = {"schedules"}
    /\ Pending(<<>>) = {}
  BY DEF Pending, Tables
LEMMA SameRows ==
    ASSUME NEW d \in Database, NEW e \in Database, d.schedules = e.schedules, d.sites = e.sites,
           d.targets = e.targets, d.results = e.results
    PROVE  d = e
  BY DEF Database

LEMMA UndisturbedJob ==
    ASSUME BackupTrue, RestoreTrue, ArchivesFaithful, UNCHANGED <<db, files, job>>
    PROVE  BackupTrue' /\ RestoreTrue' /\ ArchivesFaithful'
  BY DEF BackupTrue, RestoreTrue, ArchivesFaithful, SectionOf

LEMMA DisturbedJob ==
    ASSUME JobShapes, BackupTrue, RestoreTrue, ArchivesFaithful, job' = Disturbed, files' \subseteq files
    PROVE  BackupTrue' /\ RestoreTrue' /\ ArchivesFaithful'
  <1>1. CASE job \in {NoJob, Lost}
    <2>1. job'.kind \in {"none", "lost"}
      BY <1>1 DEF Disturbed, NoJob, Lost
    <2> QED
      BY <2>1 DEF BackupTrue, RestoreTrue, ArchivesFaithful
  <1>2. CASE job \in BackupJobs
    <2>1. /\ job.kind = "backup" /\ job'.kind = "backup" /\ job'.disturbed
          /\ job'.left = job.left /\ job'.full = job.full /\ job'.rows = job.rows
      BY <1>2 DEF Disturbed, BackupJobs
    <2> QED
      BY <2>1 DEF BackupTrue, RestoreTrue, ArchivesFaithful
  <1>3. CASE job \in RestoreJobs
    <2>1. /\ job.kind = "restore" /\ job'.kind = "restore" /\ job'.disturbed
          /\ job'.left = job.left /\ job'.file = job.file /\ job'.set = job.set
      BY <1>3 DEF Disturbed, RestoreJobs
    <2> QED
      BY <2>1 DEF BackupTrue, RestoreTrue, ArchivesFaithful
  <1> QED
    BY <1>1, <1>2, <1>3 DEF JobShapes

LEMMA ReadTrue ==
    ASSUME DbShapes, JobShapes, BackupTrue, ReadSection
    PROVE  BackupTrue' /\ job'.kind = "backup"
  <1> DEFINE table == Head(job.left)
             section == SectionOf(table, job.full)
             rows == [job.rows EXCEPT ![table] = section]
  <1>1. job \in BackupJobs /\ job.left # <<>> /\ job.kind = "backup"
    BY BackupJobIs DEF ReadSection
  <1>2. /\ job.full \in BOOLEAN /\ job.left \in Seq(Tables \cup {"results"})
        /\ job.rows \in Database
    BY <1>1 DEF BackupJobs
  <1>3. Pending(job.left) = {table} \cup Pending(Tail(job.left))
    BY <1>1, <1>2, PendingTail
  <1>4. job' = [job EXCEPT !.left = Tail(@), !.rows[table] = section] /\ db' = db
    BY DEF ReadSection, inventoryVars
  <1>5. /\ Pending(job.left) \subseteq Covered(job.full)
        /\ ~job.full => job.rows.results = {}
        /\ ~job.disturbed =>
              /\ job.truth = db
              /\ \A t \in Covered(job.full) \ Pending(job.left) :
                    job.rows[t] = SectionOf(t, job.full)
    BY <1>1 DEF BackupTrue
  <1> HIDE DEF table, section
  <1>6. /\ table \in DOMAIN job.rows
        /\ rows.results = IF table = "results" THEN section ELSE job.rows.results
        /\ DOMAIN job.rows = Tables \cup {"results"}
    BY <1>2, <1>3, <1>5 DEF Database, Tables, Covered
  <1>7. \A t \in Tables \cup {"results"} :
           rows[t] = IF t = table THEN section ELSE job.rows[t]
    BY <1>6
  <1>8. ~job.full => rows.results = {}
    BY <1>3, <1>5, <1>6 DEF Covered, Tables
  <1>9. /\ job'.kind = "backup" /\ job'.full = job.full /\ job'.left = Tail(job.left)
         /\ job'.rows = rows /\ job'.disturbed = job.disturbed /\ job'.truth = job.truth
    BY <1>1, <1>4 DEF BackupJobs
  <1> HIDE DEF rows
  <1>10. ASSUME ~job.disturbed, NEW t \in Covered(job.full) \ Pending(Tail(job.left))
         PROVE  rows[t] = SectionOf(t, job.full)
    <2>1. t \in Tables \cup {"results"}
      BY DEF Covered
    <2>2. CASE t = table
      BY <1>7, <2>1, <2>2 DEF section
    <2>3. CASE t # table
      <3>1. t \in Covered(job.full) \ Pending(job.left)
        BY <1>3, <2>3
      <3> QED
        BY <1>5, <1>7, <1>10, <2>1, <2>3, <3>1
    <2> QED
      BY <2>2, <2>3
  <1>11. \A t : SectionOf(t, job.full)' = SectionOf(t, job.full)
    BY <1>4, <1>9 DEF SectionOf
  <1>12. BackupTrue'
    <2>1. Pending(job'.left) \subseteq Covered(job'.full)
      BY <1>3, <1>5, <1>9
    <2>2. ~job'.full => job'.rows.results = {}
      BY <1>8, <1>9
    <2>3. ~job'.disturbed => job'.truth = db'
      BY <1>4, <1>5, <1>9
    <2>4. ~job'.disturbed => \A t \in Covered(job'.full) \ Pending(job'.left) :
             job'.rows[t] = SectionOf(t, job.full)'
      BY <1>9, <1>10, <1>11
    <2> QED
      BY <2>1, <2>2, <2>3, <2>4 DEF BackupTrue
  <1> QED
    BY <1>9, <1>12

LEMMA FinishFaithful ==
    ASSUME DbShapes, JobShapes, BackupTrue, Integrity(db), FinishBackup
    PROVE  Faithful(Archive(job.full, job.rows, ~job.disturbed, job.truth))
  <1> DEFINE file == Archive(job.full, job.rows, ~job.disturbed, job.truth)
  <1>1. job \in BackupJobs /\ job.left = <<>> /\ job.kind = "backup"
    BY BackupJobIs DEF FinishBackup
  <1>2. /\ job.full \in BOOLEAN /\ job.rows \in Database /\ job.truth \in Database
        /\ job.disturbed \in BOOLEAN
    BY <1>1 DEF BackupJobs
  <1>3. /\ file.full = job.full /\ file.rows = job.rows /\ file.quiet = ~job.disturbed
        /\ file.truth = job.truth
    BY DEF Archive
  <1> HIDE DEF file
  <1>4. SUFFICES ASSUME ~job.disturbed
                 PROVE  Integrity(file.truth) /\ file.rows = Expected(file)
    BY <1>3 DEF Faithful, Archive, file
  <1>5. /\ job.truth = db
        /\ \A table \in Covered(job.full) : job.rows[table] = SectionOf(table, job.full)
        /\ ~job.full => job.rows.results = {}
    BY <1>1, <1>4, ClearingTails DEF BackupTrue
  <1>6. db \in Database
    BY DEF DbShapes
  <1>7. /\ job.rows.schedules = job.rows["schedules"] /\ job.rows.sites = job.rows["sites"]
        /\ job.rows.targets = job.rows["targets"] /\ job.rows.results = job.rows["results"]
        /\ db.schedules = db["schedules"] /\ db.sites = db["sites"]
        /\ db.targets = db["targets"] /\ db.results = db["results"]
    OBVIOUS
  <1>8. job.rows.schedules = db.schedules /\ job.rows.sites = db.sites
    BY <1>5, <1>7 DEF Covered, Tables, SectionOf
  <1>9. CASE job.full
    <2>1. job.rows.targets = db.targets /\ job.rows.results = db.results
      BY <1>5, <1>7, <1>9 DEF Covered, Tables, SectionOf
    <2>2. job.rows = db
      BY <1>2, <1>6, <1>8, <2>1, SameRows
    <2> QED
      BY <1>3, <1>5, <1>9, <2>2 DEF Expected
  <1>10. CASE ~job.full
    <2> DEFINE e == [db EXCEPT !.targets = Clean(@), !.results = {}]
    <2>1. job.rows.targets = Clean(db.targets) /\ job.rows.results = {}
      BY <1>5, <1>7, <1>10 DEF Covered, Tables, SectionOf
    <2>2. /\ e.schedules = db.schedules /\ e.sites = db.sites /\ e.targets = Clean(db.targets)
          /\ e.results = {}
      BY <1>6 DEF Database
    <2>3. Clean(db.targets) \in SUBSET Target
      BY <1>2, <2>1 DEF Database
    <2>4. e \in Database
      BY <1>6, <2>3 DEF Database
    <2>5. Expected(file) = e
      BY <1>3, <1>5, <1>10 DEF Expected
    <2> HIDE DEF e
    <2>6. job.rows = e
      BY <1>2, <1>8, <2>1, <2>2, <2>4, SameRows
    <2> QED
      BY <1>3, <1>5, <2>5, <2>6
  <1> QED
    BY <1>9, <1>10

LEMMA ClearTrue ==
    ASSUME JobShapes, DbShapes, RestoreTrue, ClearTable
    PROVE  RestoreTrue' /\ job'.kind = "restore" /\ job'.file = job.file
  <1> DEFINE table == Head(job.left)
             cleared == [job.cleared EXCEPT ![table] = db[table]]
  <1>1. job \in RestoreJobs /\ job.left # <<>> /\ job.kind = "restore"
    BY RestoreJobIs DEF ClearTable
  <1>2. job.left \in Seq(Tables) /\ job.cleared \in Database
    BY <1>1 DEF RestoreJobs
  <1>3. Pending(job.left) = {table} \cup Pending(Tail(job.left)) /\ table \in Tables
    BY <1>1, <1>2, PendingTail
  <1>4. job' = [job EXCEPT !.left = Tail(@), !.cleared[table] = db[table]]
        /\ db' = db /\ files' = files
    BY DEF ClearTable, inventoryVars
  <1>5. /\ job.left \in Clearings /\ ~job.set
        /\ ~job.disturbed =>
              /\ job.file \in files
              /\ \A t \in Tables \ Pending(job.left) : job.cleared[t] = db[t]
    BY <1>1 DEF RestoreTrue, RestoreJobs
  <1>6. Tail(job.left) \in Clearings
    BY <1>1, <1>5, ClearingTails DEF Clearings
  <1> HIDE DEF table
  <1>7. \A t \in Tables : cleared[t] = IF t = table THEN db[table] ELSE job.cleared[t]
    BY <1>2, <1>3 DEF Database, Tables
  <1>8. /\ job'.kind = "restore" /\ job'.file = job.file /\ job'.left = Tail(job.left)
        /\ job'.cleared = cleared /\ job'.disturbed = job.disturbed /\ job'.set = job.set
    BY <1>1, <1>4 DEF RestoreJobs
  <1> HIDE DEF cleared
  <1>9. ASSUME ~job.disturbed, NEW t \in Tables \ Pending(Tail(job.left))
        PROVE  cleared[t] = db[t]
    BY <1>3, <1>5, <1>7, <1>9
  <1>10. RestoreTrue'
    <2>1. job'.left \in Clearings /\ ~job'.set
      BY <1>5, <1>6, <1>8
    <2>2. ~job'.disturbed => job'.file \in files'
      BY <1>4, <1>5, <1>8
    <2>3. ~job'.disturbed => \A t \in Tables \ Pending(job'.left) : job'.cleared[t] = db'[t]
      BY <1>4, <1>8, <1>9
    <2> QED
      BY <2>1, <2>2, <2>3 DEF RestoreTrue
  <1> QED
    BY <1>8, <1>10
LEMMA QuietStart == Init => QuietInv
  <1> SUFFICES ASSUME Init PROVE QuietInv
    OBVIOUS
  <1>1. Integrity(db)
    BY StartAssumption DEF Init
  <1>2. request = [a \in Admins |-> Idle] /\ files \subseteq Uploads /\ job = NoJob
    BY StartAssumption DEF Init
  <1>3. ArchivesFaithful
    BY <1>2, UploadsAssumption DEF ArchivesFaithful, Faithful, NoJob
  <1>4. BuiltInSpared /\ BackupTrue /\ RestoreTrue
    BY <1>2 DEF BuiltInSpared, BackupTrue, RestoreTrue, Idle, NoJob
  <1> QED
    BY <1>1, <1>3, <1>4, MeaningStart DEF QuietInv

LEMMA QuietInventory ==
    ASSUME QuietInv, MeaningInv', InventoryNext, UNCHANGED <<files, jobs>>
    PROVE  QuietInv'
  <1>1. /\ DbShapes /\ DbShapes' /\ RequestShapes /\ JobShapes /\ Integrity(db)
        /\ BuiltInSpared /\ ArchivesFaithful /\ BackupTrue /\ RestoreTrue
    BY DEF QuietInv, MeaningInv, Shapes
  <1>2. ASSUME UNCHANGED <<db, job>>, BuiltInSpared'
        PROVE  QuietInv'
    BY <1>1, <1>2, UndisturbedJob DEF QuietInv
  <1>3. ASSUME job' = Disturbed, Integrity(db)', BuiltInSpared'
        PROVE  QuietInv'
    BY <1>1, <1>3, DisturbedJob DEF QuietInv
  <1>4. ASSUME \A a \in Admins : request'[a].stage = "decided" =>
                   request[a].stage = "decided" /\ request'[a].plan = request[a].plan
        PROVE  BuiltInSpared'
    BY <1>1, <1>4 DEF BuiltInSpared, SparesBuiltIn
  <1>5. ASSUME NEW a \in Admins, Login(a) \/ OpenPage(a)
        PROVE  QuietInv'
    <2>1. UNCHANGED <<db, job, request>>
      BY <1>5 DEF Login, OpenPage
    <2> QED
      BY <1>2, <1>4, <2>1
  <1>6. ASSUME NEW a \in Admins, Submit(a)
        PROVE  QuietInv'
    <2>1. UNCHANGED <<db, job>> /\ \A b \in Admins : request'[b].stage = "decided" => request'[b] = request[b]
      BY <1>1, <1>6 DEF Submit, RequestShapes
    <2> QED
      BY <1>2, <1>4, <2>1
  <1>7. ASSUME NEW a \in Admins, Fail(a)
        PROVE  QuietInv'
    <2>1. UNCHANGED <<db, job>> /\ \A b \in Admins : request'[b].stage = "decided" => request'[b] = request[b]
      BY <1>1, <1>7 DEF Fail, RequestShapes, Idle
    <2> QED
      BY <1>2, <1>4, <2>1
  <1>8. ASSUME NEW a \in Admins, Decide(a)
        PROVE  QuietInv'
    <2>1. request[a] \in Admitted /\ request[a].page \in Pages
      BY <1>1, <1>8, AdmittedIsAdmitted DEF Decide, Admitted
    <2>2. ASSUME NEW b \in Admins, request'[b].stage = "decided"
          PROVE  SparesBuiltIn(request'[b].plan)
      <3>1. CASE b # a
        <4>1. request'[b] = request[b]
          BY <1>1, <1>8, <3>1 DEF Decide, RequestShapes
        <4> QED
          BY <1>1, <2>2, <4>1 DEF BuiltInSpared
      <3>2. CASE b = a
        <4>1. PICK chosen \in PlansFor(request[a].page) :
                 request' = [request EXCEPT ![a] =
                    [stage |-> "decided", page |-> request[a].page, plan |-> chosen,
                     overtaken |-> request[a].overtaken, overlapped |-> FALSE]]
          <5>1. request' # [request EXCEPT ![a] = Idle]
            BY <1>1, <2>2, <3>2 DEF RequestShapes, Idle
          <5> QED
            BY <1>8, <5>1 DEF Decide
        <4>2. request'[a].plan = chosen
          BY <1>1, <4>1 DEF RequestShapes
        <4>3. SparesBuiltIn(chosen)
          BY <1>1, <2>1, PlansSpareBuiltIn
        <4> QED
          BY <3>2, <4>2, <4>3
      <3> QED
        BY <3>1, <3>2
    <2>3. BuiltInSpared'
      BY <2>2 DEF BuiltInSpared, SparesBuiltIn
    <2> QED
      BY <1>2, <1>8, <2>3 DEF Decide
  <1>9. ASSUME NEW a \in Admins, Commit(a)
        PROVE  QuietInv'
    <2>1. request[a] \in DecidedOnes /\ SparesBuiltIn(request[a].plan)
      BY <1>1, <1>9, DecidedIsDecided DEF Commit, BuiltInSpared
    <2>2. Integrity(db)'
      BY <1>1, <1>9, <2>1, CommitIntegrity
    <2>3. ASSUME NEW b \in Admins, request'[b].stage = "decided"
          PROVE  request[b].stage = "decided" /\ request'[b].plan = request[b].plan
      <3>1. request'[b] = CASE b = a -> Idle
                            [] b # a /\ request[b].stage = "decided" ->
                                 [request[b] EXCEPT !.overlapped = TRUE]
                            [] OTHER -> request[b]
        BY <1>9 DEF Commit
      <3>2. b # a /\ request[b].stage = "decided"
        BY <2>3, <3>1 DEF Idle
      <3>3. request[b] \in DecidedOnes
        BY <1>1, <3>2, DecidedIsDecided
      <3> QED
        BY <3>1, <3>2, <3>3 DEF DecidedOnes
    <2>4. BuiltInSpared'
      BY <1>4, <2>3
    <2> QED
      BY <1>3, <1>9, <2>2, <2>4 DEF Commit
  <1>10. ASSUME NEW target \in Rows("targets"), SaveResult(target)
         PROVE  QuietInv'
    <2>1. Integrity(db)'
      BY <1>1, <1>10, SaveIntegrity
    <2>2. job' = Disturbed /\ UNCHANGED request
      BY <1>10 DEF SaveResult
    <2> QED
      BY <1>3, <1>4, <2>1, <2>2
  <1> QED
    BY <1>5, <1>6, <1>7, <1>8, <1>9, <1>10 DEF InventoryNext

LEMMA QuietNext ==
    ASSUME QuietInv, [Next]_vars
    PROVE  QuietInv'
  <1>1. /\ DbShapes /\ RequestShapes /\ JobShapes /\ Integrity(db) /\ MeaningInv'
        /\ BuiltInSpared /\ ArchivesFaithful /\ BackupTrue /\ RestoreTrue
    BY MeaningNext DEF QuietInv, MeaningInv, Shapes
  <1>2. ASSUME UNCHANGED <<db, request>>, BackupTrue', RestoreTrue', ArchivesFaithful'
        PROVE  QuietInv'
    BY <1>1, <1>2 DEF QuietInv, BuiltInSpared
  <1>3. ASSUME UNCHANGED inventoryVars, BackupTrue', RestoreTrue', ArchivesFaithful'
        PROVE  QuietInv'
    BY <1>2, <1>3 DEF inventoryVars
  <1>4. CASE UNCHANGED vars
    <2>1. UNCHANGED <<db, request, files, job>>
      BY <1>4 DEF vars
    <2> QED
      BY <1>1, <1>2, <2>1, UndisturbedJob
  <1>5. CASE InventoryNext /\ UNCHANGED <<files, jobs>>
    BY <1>1, <1>5, QuietInventory
  <1>6. ASSUME NEW full \in BOOLEAN, StartBackup(full)
        PROVE  QuietInv'
    <2>1. /\ job' = [kind |-> "backup", full |-> full, left |-> Sections(full), rows |-> NoRows,
                     truth |-> db, disturbed |-> FALSE]
          /\ UNCHANGED <<db, files>> /\ UNCHANGED inventoryVars
      BY <1>6 DEF StartBackup, inventoryVars
    <2>2. Pending(Sections(full)) = Covered(full)
      <3>1. Pending(<<"schedules", "sites", "targets", "results">>) = Tables \cup {"results"}
        BY DEF Pending, Tables
      <3>2. Pending(<<"schedules", "sites", "targets">>) = Tables
        BY DEF Pending, Tables
      <3> QED
        BY <3>1, <3>2 DEF Sections, Covered
    <2>3. /\ job'.kind = "backup" /\ job'.full = full /\ job'.left = Sections(full)
          /\ job'.rows.results = {} /\ job'.truth = db
      BY <2>1 DEF NoRows
    <2>4. BackupTrue'
      BY <2>1, <2>2, <2>3 DEF BackupTrue
    <2>5. RestoreTrue' /\ ArchivesFaithful'
      BY <1>1, <2>1, <2>3 DEF RestoreTrue, ArchivesFaithful
    <2> QED
      BY <1>3, <2>1, <2>4, <2>5
  <1>7. CASE ReadSection
    <2>1. BackupTrue' /\ job'.kind = "backup"
      BY <1>1, <1>7, ReadTrue
    <2>2. RestoreTrue' /\ ArchivesFaithful'
      BY <1>1, <1>7, <2>1 DEF ReadSection, RestoreTrue, ArchivesFaithful
    <2> QED
      BY <1>3, <1>7, <2>1, <2>2 DEF ReadSection
  <1>8. CASE FinishBackup
    <2>1. Faithful(Archive(job.full, job.rows, ~job.disturbed, job.truth))
      BY <1>1, <1>8, FinishFaithful
    <2>2. /\ files' = files \cup {Archive(job.full, job.rows, ~job.disturbed, job.truth)}
          /\ job'.kind = "none" /\ UNCHANGED inventoryVars
      BY <1>8 DEF FinishBackup, NoJob
    <2>3. BackupTrue' /\ RestoreTrue' /\ ArchivesFaithful'
      BY <1>1, <2>1, <2>2 DEF BackupTrue, RestoreTrue, ArchivesFaithful
    <2> QED
      BY <1>3, <2>2, <2>3
  <1>9. ASSUME NEW file \in Uploads, Upload(file)
        PROVE  QuietInv'
    <2>1. Faithful(file)
      BY UploadsAssumption DEF Faithful
    <2>2. files' = files \cup {file} /\ job' = job /\ UNCHANGED inventoryVars /\ db' = db
      BY <1>9 DEF Upload, inventoryVars
    <2>3. ArchivesFaithful'
      BY <1>1, <2>1, <2>2 DEF ArchivesFaithful
    <2>4. BackupTrue'
      BY <1>1, <2>2 DEF BackupTrue, SectionOf
    <2>5. RestoreTrue'
      BY <1>1, <2>2 DEF RestoreTrue
    <2> QED
      BY <1>3, <2>2, <2>3, <2>4, <2>5
  <1>10. ASSUME NEW file \in files, DeleteFile(file)
         PROVE  QuietInv'
    <2>1. job' = Disturbed /\ files' \subseteq files /\ UNCHANGED inventoryVars
      BY <1>10 DEF DeleteFile
    <2> QED
      BY <1>1, <1>3, <2>1, DisturbedJob
  <1>11. ASSUME NEW file \in files, StartRestore(file)
         PROVE  QuietInv'
    <2>1. /\ job' = [kind |-> "restore", file |-> file, cleared |-> NoRows,
                     left |-> <<"targets", "sites", "schedules">>, set |-> FALSE,
                     disturbed |-> FALSE]
          /\ UNCHANGED files /\ UNCHANGED inventoryVars
      BY <1>11 DEF StartRestore
    <2>2. /\ job'.kind = "restore" /\ job'.file = file /\ ~job'.set
          /\ job'.left = <<"targets", "sites", "schedules">>
      BY <2>1
    <2>3. RestoreTrue'
      BY <2>1, <2>2, ClearingTails DEF RestoreTrue, Clearings
    <2>4. BackupTrue' /\ ArchivesFaithful'
      BY <1>1, <2>1, <2>2 DEF BackupTrue, ArchivesFaithful
    <2> QED
      BY <1>3, <2>1, <2>3, <2>4
  <1>12. CASE ClearTable
    <2>1. RestoreTrue' /\ job'.kind = "restore" /\ job'.file = job.file
      BY <1>1, <1>12, ClearTrue
    <2>2. BackupTrue' /\ ArchivesFaithful'
      BY <1>1, <1>12, <2>1 DEF ClearTable, BackupTrue, ArchivesFaithful
    <2> QED
      BY <1>3, <1>12, <2>1, <2>2 DEF ClearTable
  <1>13. CASE CommitRestore
    <2>1. db' = Restored /\ Integrity(Restored) /\ files' = files /\ job'.kind = "none"
      BY <1>13 DEF CommitRestore, NoJob
    <2>2. Integrity(db)'
      BY <2>1 DEF Integrity, Constraints, UniqueIds, UniqueNames, ForeignKeys
    <2>3. ASSUME NEW a \in Admins, request'[a].stage = "decided"
          PROVE  request[a].stage = "decided" /\ request'[a].plan = request[a].plan
      <3>1. request'[a] = CASE request[a].stage = "admitted" ->
                                 [request[a] EXCEPT !.overtaken = TRUE]
                            [] request[a].stage = "decided" ->
                                 [request[a] EXCEPT !.overtaken = TRUE, !.overlapped = TRUE]
                            [] OTHER -> Idle
        BY <1>13 DEF CommitRestore
      <3>2. CASE request[a].stage = "admitted"
        <4>1. request[a] \in Admitted
          BY <1>1, <3>2, AdmittedIsAdmitted
        <4>2. request'[a].stage = "admitted"
          BY <3>1, <3>2, <4>1 DEF Admitted
        <4> QED
          BY <2>3, <4>2
      <3>3. CASE request[a].stage = "decided"
        <4>1. request[a] \in DecidedOnes
          BY <1>1, <3>3, DecidedIsDecided
        <4> QED
          BY <3>1, <3>3, <4>1 DEF DecidedOnes
      <3>4. CASE request[a].stage \notin {"admitted", "decided"}
        BY <2>3, <3>1, <3>4 DEF Idle
      <3> QED
        BY <3>2, <3>3, <3>4
    <2>4. BuiltInSpared'
      BY <1>1, <2>3 DEF BuiltInSpared, SparesBuiltIn
    <2>5. BackupTrue' /\ RestoreTrue' /\ ArchivesFaithful'
      BY <1>1, <2>1 DEF BackupTrue, RestoreTrue, ArchivesFaithful
    <2> QED
      BY <1>1, <2>2, <2>4, <2>5 DEF QuietInv
  <1>14. CASE RefuseRestore \/ LoseRestore \/ ForgetRestore
    <2>1. job'.kind \in {"none", "lost"} /\ files' = files /\ UNCHANGED inventoryVars
      BY <1>14 DEF RefuseRestore, LoseRestore, ForgetRestore, NoJob
    <2>2. BackupTrue' /\ RestoreTrue' /\ ArchivesFaithful'
      BY <1>1, <2>1 DEF BackupTrue, RestoreTrue, ArchivesFaithful
    <2> QED
      BY <1>3, <2>1, <2>2
  <1>15. CASE SetSequences
    <2>1. /\ job.left = <<>> /\ job' = [job EXCEPT !.set = TRUE] /\ UNCHANGED <<db, request, files>>
          /\ job.kind = "restore" /\ job \in RestoreJobs
      BY <1>1, <1>15, RestoreJobIs DEF SetSequences
    <2>2. /\ job'.kind = "restore" /\ job'.file = job.file /\ job'.left = job.left
          /\ job'.cleared = job.cleared /\ job'.disturbed = job.disturbed
      BY <2>1 DEF RestoreJobs
    <2>3. BackupTrue' /\ RestoreTrue' /\ ArchivesFaithful'
      BY <1>1, <2>1, <2>2 DEF BackupTrue, RestoreTrue, ArchivesFaithful
    <2> QED
      BY <1>2, <2>1, <2>3
  <1> QED
    BY <1>4, <1>5, <1>6, <1>7, <1>8, <1>9, <1>10, <1>11, <1>12, <1>13, <1>14, <1>15 DEF Next

\* Once an undisturbed restore has cleared the tables, only the rows of its archive are left.
LEMMA OnlyArchiveLeft ==
    ASSUME JobShapes, RestoreTrue, job.kind = "restore", ~job.disturbed, job.left = <<>>
    PROVE  Restored = job.file.rows
  <1>1. job \in RestoreJobs
    BY RestoreJobIs
  <1>2. job.file.rows \in Database
    BY <1>1 DEF RestoreJobs, Archives
  <1>3. \A table \in Tables : Survivors(table) = {}
    BY ClearingTails DEF RestoreTrue, Survivors, Locked
  <1> DEFINE T == job.file.rows.targets
  <1>4. SharedSites({}, T) = {}
    BY DEF SharedSites
  <1>5. MarkRaced({} \cup T, {}) = T
    BY DEF MarkRaced
  <1>6. /\ Survivors("schedules") = {} /\ Survivors("sites") = {} /\ Survivors("targets") = {}
    BY <1>3 DEF Tables
  <1> HIDE DEF T
  <1>7. Restored = [schedules |-> {} \cup job.file.rows.schedules,
                    sites |-> {} \cup job.file.rows.sites, targets |-> T,
                    results |-> job.file.rows.results]
    <2>1. (db.results \cap {t.id : t \in {}}) \cup job.file.rows.results = job.file.rows.results
      OBVIOUS
    <2> QED
      BY <1>4, <1>5, <1>6, <2>1 DEF Restored, T
  <1> QED
    BY <1>2, <1>7 DEF Database, T

\* A backup that was created while nothing was written can be restored, gives back what the
\* database held then and ends every session, unless the restore is disturbed or lost:
\* QuietBackupRestores.
THEOREM QuietBackupIsRestored == Spec => QuietBackupRestores
  <1> DEFINE Restores ==
               job.kind = "restore" /\ job' = NoJob /\ job.file.quiet /\ ~job.disturbed
                 => db' = Expected(job.file) /\ \A a \in Admins : session'[a] = 0
  <1>1. ASSUME QuietInv, [Next]_vars
        PROVE  Restores
    <2>1. SUFFICES ASSUME job.kind = "restore", job' = NoJob, job.file.quiet, ~job.disturbed
                   PROVE  db' = Expected(job.file) /\ \A a \in Admins : session'[a] = 0
      OBVIOUS
    <2>2. /\ JobShapes /\ DbShapes /\ RestoreTrue /\ ArchivesFaithful /\ job \in RestoreJobs
      BY <1>1, <2>1, RestoreJobIs DEF QuietInv, MeaningInv, Shapes
    <2>3. /\ Integrity(job.file.truth) /\ job.file.rows = Expected(job.file)
          /\ job.file.administered
      BY <2>1, <2>2 DEF ArchivesFaithful, Faithful
    <2>4. Integrity(job.file.rows)
      BY <2>2, <2>3, ExpectedIntegrity DEF RestoreJobs
    <2>5. job.left \in Clearings /\ job.file \in files /\ (job.set => job.left = <<>>)
          /\ \A table \in Tables \ Pending(job.left) : job.cleared[table] = db[table]
      BY <2>1, <2>2 DEF RestoreTrue
    <2>6. job # NoJob /\ NoJob.kind = "none"
      BY <2>1 DEF NoJob
    <2>7. Disturbed # NoJob
      <3>1. Disturbed.kind = "restore"
        BY <2>1, <2>2 DEF Disturbed, RestoreJobs
      <3> QED
        BY <2>6, <3>1
    <2>8. CASE CommitRestore
      <3>1. db' = Restored /\ job.left = <<>> /\ session' = [a \in Admins |-> 0]
        BY <2>5, <2>8 DEF CommitRestore, SessionsAfterRestore
      <3>2. Restored = job.file.rows
        BY <2>1, <2>2, <3>1, OnlyArchiveLeft
      <3> QED
        BY <2>3, <3>1, <3>2
    <2>9. CASE RefuseRestore
      <3>1. CASE job.left = <<>>
        <4>1. Restored = job.file.rows
          BY <2>1, <2>2, <3>1, OnlyArchiveLeft
        <4>2. Integrity(Restored) /\ Constraints(Restored)
          BY <2>4, <4>1 DEF Integrity
        <4> QED
          BY <2>3, <2>5, <2>9, <3>1, <4>2 DEF RefuseRestore, Stored
      <3>2. CASE job.left # <<>>
        <4>1. StillReferred(Head(job.left))
          BY <2>5, <2>9, <3>2 DEF RefuseRestore
        <4>2. CASE job.left = <<"targets", "sites", "schedules">>
          BY <4>1, <4>2, ClearingTails DEF StillReferred
        <4>3. CASE job.left = <<"sites", "schedules">>
          <5>1. Survivors("targets") = {}
            BY <2>1, <2>5, <4>3, ClearingTails DEF Survivors, Locked, Tables
          <5> QED
            BY <4>1, <4>3, <5>1, ClearingTails DEF StillReferred
        <4>4. CASE job.left = <<"schedules">>
          <5>1. Survivors("sites") = {}
            BY <2>1, <2>5, <4>4, ClearingTails DEF Survivors, Locked, Tables
          <5> QED
            BY <4>1, <4>4, <5>1, ClearingTails DEF StillReferred
        <4> QED
          BY <2>5, <3>2, <4>2, <4>3, <4>4 DEF Clearings
      <3> QED
        BY <3>1, <3>2
    <2>10. CASE ClearTable
      <3>1. job'.kind = "restore"
        BY <2>2, <2>10, ClearTrue
      <3> QED
        BY <2>1, <2>6, <3>1
    <2>11. CASE InventoryNext
      <3>1. job' = job \/ job' = Disturbed
        BY <2>11 DEF InventoryNext, Login, OpenPage, Submit, Decide, Commit, Fail, SaveResult
      <3> QED
        BY <2>1, <2>6, <2>7, <3>1
    <2>12. CASE UNCHANGED vars
      BY <2>1, <2>6, <2>12 DEF vars
    <2>13. CASE SetSequences
      <3>1. job'.kind = "restore"
        BY <2>2, <2>13 DEF SetSequences, RestoreJobs
      <3> QED
        BY <2>1, <2>6, <3>1
    <2>14. CASE LoseRestore \/ ForgetRestore
      BY <2>1, <2>6, <2>14 DEF LoseRestore, ForgetRestore
    <2> QED
      BY <1>1, <2>1, <2>6, <2>7, <2>8, <2>9, <2>10, <2>11, <2>12, <2>13, <2>14
         DEF Next, StartBackup, ReadSection, FinishBackup, Upload, DeleteFile, StartRestore
  <1>2. QuietBackupRestores <=> [][Restores]_vars
    BY DEF QuietBackupRestores
  <1>3. QuietInv /\ [Next]_vars => [Restores]_vars
    BY <1>1
  <1> HIDE DEF Restores
  <1> QED
    BY <1>2, <1>3, QuietStart, QuietNext, PTL DEF Spec
=============================================================================
