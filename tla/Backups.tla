--------------------------------- MODULE Backups ---------------------------------
(***************************************************************************)
(* Creation, upload and restore of backups, services/backups.py, beside the *)
(* pages of module Inventory.                                               *)
(*                                                                         *)
(* A backup reads one table after another, each as committed by then.  A    *)
(* restore is one transaction: it deletes the tables one after another,     *)
(* each as committed by then, inserts the rows of the archive, sets the     *)
(* sequences, and commits if the database passes its integrity check.  The  *)
(* sequences are set at once and for all sessions, and stay as they are set *)
(* when the restore is refused or lost.                                     *)
(***************************************************************************)
EXTENDS Inventory, Sequences

CONSTANTS Start,       \* situations to start in: rows, sequences, open pages, archives
          Uploads,     \* archives that an administrator brings along
          MaxJobs      \* bound: backups created, uploaded and restored

ASSUME MaxJobsAssumption == MaxJobs \in Nat

VARIABLES files,   \* the archives that are stored or staged
          jobs     \* backups created, uploaded or restored so far

vars == <<db, sequence, behind, born, session, logins, page, request, submits, job, files, jobs>>

NoRows == [schedules |-> {}, sites |-> {}, targets |-> {}, results |-> {}]
Database == [schedules: SUBSET Schedule, sites: SUBSET Site, targets: SUBSET Target,
             results: SUBSET Nat]

\* An archive: its rows, whether one of its users is an active administrator, and as history
\* whether nothing was written while they were read, and what the database held at the first.
Archive(full, rows, quiet, truth) ==
    [full |-> full, rows |-> rows, compatible |-> TRUE, administered |-> TRUE,
     quiet |-> quiet, truth |-> truth]
Archives == [full: BOOLEAN, rows: Database, compatible: BOOLEAN, administered: BOOLEAN,
             quiet: BOOLEAN, truth: Database]
-----------------------------------------------------------------------------
(* create_backup.                                                           *)
Clean(targets) == {[t EXCEPT !.runtime = FALSE] : t \in targets}

\* CONFIGURATION_TABLES and FULL_TABLES, in their order.
Sections(full) ==
    IF full THEN <<"schedules", "sites", "targets", "results">>
    ELSE <<"schedules", "sites", "targets">>

\* A configuration leaves out what monitoring has learnt.
SectionOf(table, full) ==
    IF table = "targets" /\ ~full THEN Clean(db.targets) ELSE db[table]

\* inspect_backup: the checksums hold, and the version is the one that runs.
Compatible(file) == file.compatible

\* safe_stored_backup_path, staged_backup_path
Stored(file) == file \in files

\* AdminAuth
Busy == \E a \in Admins : session[a] # 0

StartBackup(full) ==
    /\ Busy /\ job = NoJob /\ jobs < MaxJobs
    /\ jobs' = jobs + 1
    /\ job' = [kind |-> "backup", full |-> full, left |-> Sections(full), rows |-> NoRows,
               truth |-> db, disturbed |-> FALSE]
    /\ UNCHANGED <<inventoryVars, files>>

ReadSection ==
    /\ job.kind = "backup" /\ job.left # <<>>
    /\ job' = [job EXCEPT !.left = Tail(@),
                          !.rows[Head(job.left)] = SectionOf(Head(job.left), job.full)]
    /\ UNCHANGED <<inventoryVars, files, jobs>>

\* The archive gets its name when it is complete.
FinishBackup ==
    /\ job.kind = "backup" /\ job.left = <<>>
    /\ files' = files \cup {Archive(job.full, job.rows, ~job.disturbed, job.truth)}
    /\ job' = NoJob
    /\ UNCHANGED <<inventoryVars, jobs>>

\* settings_backup_upload: only an archive that is whole is kept.
Upload(file) ==
    /\ Busy /\ ~Stored(file) /\ jobs < MaxJobs
    /\ jobs' = jobs + 1
    /\ files' = files \cup {file}
    /\ UNCHANGED <<inventoryVars, job>>

\* settings_backup_delete, and the cleanup of staged archives.
DeleteFile(file) ==
    /\ Busy /\ Stored(file)
    /\ files' = files \ {file}
    /\ job' = Disturbed
    /\ UNCHANGED <<inventoryVars, jobs>>
-----------------------------------------------------------------------------
(* restore_backup.                                                          *)

StartRestore(file) ==
    /\ Busy /\ job = NoJob /\ jobs < MaxJobs /\ Stored(file) /\ Compatible(file)
    /\ jobs' = jobs + 1
    /\ job' = [kind |-> "restore", file |-> file, cleared |-> NoRows,
               left |-> <<"targets", "sites", "schedules">>, set |-> FALSE,
               disturbed |-> FALSE]
    /\ UNCHANGED <<inventoryVars, files>>

\* Rows that were committed after their table was cleared.
Survivors(table) == {row \in db[table] : ~Locked(table, row.id)}

\* The foreign keys keep a row that a row committed meanwhile refers to.
StillReferred(table) ==
    \/ table = "sites" /\ Survivors("targets") # {}
    \/ table = "schedules" /\ Survivors("sites") # {}

\* CLEAR_ORDER: the results go with their objects.
ClearTable ==
    /\ job.kind = "restore" /\ job.left # <<>>
    /\ ~StillReferred(Head(job.left))
    /\ job' = [job EXCEPT !.left = Tail(@), !.cleared[Head(job.left)] = db[Head(job.left)]]
    /\ UNCHANGED <<inventoryVars, files, jobs>>

\* History: an entry that was committed meanwhile may come into a site of the archive.
SharedSites(here, there) ==
    {t.site : t \in {u \in here : u.entry}} \cap {t.site : t \in {u \in there : u.entry}}

\* INSERT_ORDER.
Restored ==
    [schedules |-> Survivors("schedules") \cup job.file.rows.schedules,
     sites |-> Survivors("sites") \cup job.file.rows.sites,
     targets |-> MarkRaced(Survivors("targets") \cup job.file.rows.targets,
                           SharedSites(Survivors("targets"), job.file.rows.targets)),
     results |-> (db.results \cap {t.id : t \in Survivors("targets")})
                   \cup job.file.rows.results]

\* check_database_integrity, and the constraints of the tables before it.
Integrity(d) == Constraints(d) /\ \E s \in d.schedules : s.id = BuiltIn /\ s.hours = "always"

\* _reset_postgres_sequences
NextIds(d) == [t \in Tables |-> Max({0} \cup {row.id : row \in d[t]}) + 1]

\* The rows of the archive go in and the sequences after them.  setval waits for no commit
\* and knows no rollback: whoever inserts a row next gets an id of the new count.
SetSequences ==
    /\ job.kind = "restore" /\ job.left = <<>> /\ ~job.set
    /\ Stored(job.file) /\ Constraints(Restored)
    /\ job' = [job EXCEPT !.set = TRUE]
    /\ sequence' = NextIds(Restored)
    /\ behind' = behind \cup {t \in Tables : sequence'[t] < sequence[t]}
    /\ UNCHANGED <<db, born, session, logins, page, request, submits, files, jobs>>

\* Mutant: the restore leaves the sessions alone.
SessionsAfterRestoreKept == session

\* The sessions are among the tables that are cleared and not restored.
SessionsAfterRestore == [a \in Admins |-> 0]

CommitRestore ==
    /\ job.kind = "restore" /\ job.set
    /\ Integrity(Restored) /\ job.file.administered
    /\ db' = Restored /\ behind' = {}
    /\ session' = SessionsAfterRestore
    /\ request' = [a \in Admins |->
                      CASE request[a].stage = "admitted" ->
                             [request[a] EXCEPT !.overtaken = TRUE]
                        [] request[a].stage = "decided" ->
                             [request[a] EXCEPT !.overtaken = TRUE, !.overlapped = TRUE]
                        [] OTHER -> Idle]
    /\ job' = NoJob
    /\ UNCHANGED <<sequence, born, logins, page, submits, files, jobs>>

\* Any error rolls the transaction back; the sequences stay as they are.
RefuseRestore ==
    /\ job.kind = "restore"
    /\ \/ job.left # <<>> /\ StillReferred(Head(job.left))
       \/ job.left = <<>> /\ ~job.set /\ ~(Stored(job.file) /\ Constraints(Restored))
       \/ job.set /\ ~(Integrity(Restored) /\ job.file.administered)
    /\ job' = NoJob
    /\ UNCHANGED <<inventoryVars, files, jobs>>

\* The connection breaks, or the program stops, and PostgreSQL rolls back.
LoseRestore ==
    /\ job.kind = "restore"
    /\ job' = [kind |-> "lost"]
    /\ UNCHANGED <<inventoryVars, files, jobs>>

ForgetRestore ==
    /\ job.kind = "lost"
    /\ job' = NoJob
    /\ UNCHANGED <<inventoryVars, files, jobs>>
-----------------------------------------------------------------------------
\* What a backup of an undisturbed database gives back.
Expected(file) ==
    IF file.full THEN file.truth
    ELSE [file.truth EXCEPT !.targets = Clean(@), !.results = {}]

\* What the program starts with, where a page may be left of a row that is gone, and the
\* archives that it made elsewhere.
ASSUME StartAssumption ==
    \A s \in Start :
        /\ s.db \in Database /\ s.sequence \in [Tables -> Nat \ {0}] /\ s.born \in Nat
        /\ s.submits \in 0 .. MaxSubmits /\ s.jobs \in 0 .. MaxJobs /\ s.files \subseteq Uploads
        /\ s.page \in [Admins -> [login: {0, 1}, table: Tables \cup {"new"}, id: Nat, uid: Nat]]
        /\ \A a \in Admins : \A table \in Tables \cap {s.page[a].table} :
              /\ s.page[a].id < s.sequence[table]
              /\ \A row \in s.db[table] : row.id = s.page[a].id => row.uid = s.page[a].uid
        /\ Integrity(s.db) /\ SoleEntries(s.db.targets)
        /\ \A table \in Tables : \A row \in s.db[table] : row.id < s.sequence[table]
ASSUME UploadsAssumption ==
    \A file \in Uploads :
        /\ file \in Archives /\ SoleEntries(file.rows.targets)
        /\ file.quiet => /\ Integrity(file.truth) /\ file.rows = Expected(file)
                         /\ file.administered
        /\ \A table \in Tables :
              \/ file.rows[table] = {}
              \/ \E last \in file.rows[table] : \A row \in file.rows[table] : row.id <= last.id

Init ==
    /\ \E s \in Start :
          /\ db = s.db /\ sequence = s.sequence /\ born = s.born
          /\ submits = s.submits /\ jobs = s.jobs /\ page = s.page /\ files = s.files
    /\ session = [a \in Admins |-> 1] /\ logins = 1
    /\ request = [a \in Admins |-> Idle]
    /\ job = NoJob /\ behind = {}

Next ==
    \/ InventoryNext /\ UNCHANGED <<files, jobs>>
    \/ \E full \in BOOLEAN : StartBackup(full)
    \/ ReadSection \/ FinishBackup
    \/ \E file \in Uploads : Upload(file)
    \/ \E file \in files : DeleteFile(file) \/ StartRestore(file)
    \/ ClearTable \/ SetSequences \/ CommitRestore \/ RefuseRestore
    \/ LoseRestore \/ ForgetRestore

Spec == Init /\ [][Next]_vars
-----------------------------------------------------------------------------
TypeOK ==
    /\ db \in Database /\ sequence \in [Tables -> Nat] /\ behind \subseteq Tables /\ born \in Nat
    /\ session \in [Admins -> 0 .. MaxLogins] /\ logins \in 0 .. MaxLogins
    /\ submits \in 0 .. MaxSubmits /\ jobs \in 0 .. MaxJobs
    /\ \A file \in files : file.rows \in Database
    /\ job.kind \in {"none", "backup", "restore", "lost"}

\* A site has one entry, which is an object of a kind that can be one, whatever is created,
\* copied, moved, restored and deleted: only requests that overlapped each other or a restore
\* break this, since set_site_entry reads the entry it replaces and no index of the table
\* forbids a second one.
EntryOfSite == SoleEntries(Rows("targets"))

\* What a request is about to change is the row that its page showed, although a restore gives
\* ids to other rows: it ends every session, and a page of an ended session is refused.  Only
\* a request that was admitted before the restore committed may meet another row, and one
\* about a table whose sequence a restore set back that has not committed: a refused or lost
\* one leaves the sessions alive and the ids of deleted rows to be given again.
PageMeansRow ==
    \A a \in Admins :
        request[a] # Idle /\ ~request[a].overtaken =>
            \A table \in (Tables \cap {request[a].page.table}) \ behind :
                \A row \in With(table, request[a].page.id) : row.uid = request[a].page.uid

\* A backup that was created while nothing was written can be restored, whatever was changed
\* or deleted since, gives back what the database held then and ends every session, unless
\* the restore itself was disturbed or lost: no page leads to rows that the integrity check
\* refuses.
QuietBackupRestores ==
    [][job.kind = "restore" /\ job' = NoJob /\ job.file.quiet /\ ~job.disturbed
          => db' = Expected(job.file) /\ \A a \in Admins : session'[a] = 0]_vars
=============================================================================
