# Monitoring Maxval in TLA+

Monitoring Maxval watches network objects from one Python process (FastAPI, a
PostgreSQL database, an embedded asyncio scheduler) and a small second service
that switches HTTPS. This directory holds its TLA+ models, the TLC
configurations that check them and the proofs that TLAPS checks. `PROJECT.json`
maps every definition to the source lines it stands for and lists the runs, the
mutants, the findings, the hazards and the theorems.

Paths below are relative to `src/src/monitoring/` unless they start with `src/`.

To repeat the checks: `tlc -config MCIncidents_admin.cfg MCIncidents`, and
likewise for the other configurations; `tlapm CheckSchedulerProofs.tla`, and
likewise for the other seven modules whose names end in `Proofs`.

## 1. The system

| Component | State it keeps | Operations | Hard behaviour |
|---|---|---|---|
| Check scheduler (`services/scheduler.py`, `main.py`) | one asyncio lock, the tasks of a pass, the stop event | scan loop, manual pass, check of one object, shutdown | callers contend for the lock; one task of a gather fails while its siblings run on |
| Site entry gate (`services/site_entry.py`) | the entry object of each site | query of blocked sites, change of the entry | the gate is read in the middle of a pass |
| Scheduler metrics (`services/scheduler_metrics.py`) | queue, durations, rolling window | start, complete, finish a batch | entries left behind by work that ended otherwise |
| Result saving (`services/monitoring.py`) | results, `next_check_at`, `config_version` | save of a primary and of a service result | a result of an old configuration arrives after a change |
| Incidents (`services/incidents.py`) | incident rows and the letters they caused | open, announce, escalate, resolve, resolve silently | several transactions look for an open incident; nothing in the schema makes it unique |
| Unstable link (`services/unstable_link.py`) | a marker on each check | set, show, clear | must give way to a confirmed outage |
| Administration (`web/admin_routes.py`, `web/target_check_routes.py`) | objects, sites, service checks | toggle, edit, delete, mute; deletion of incidents | runs between a probe and the save of its result |
| HTTPS switching (`src/tls-manager/app.py`, `services/tls.py`, `services/tls_redirect_guard.py`, `web/routes.py`) | three pairs of files, a Caddyfile, what Caddy serves, two settings | upload, internal CA, apply, rollback, lift of the redirect | four copies of one fact without a transaction; lost answers, refused reloads |
| SNMP interface traffic (`services/snmp.py`, `services/snmp_interfaces.py`) | counters, mode and uptime of the last reading, samples | poll, discover, select, clear, change of the address | restarts between polls and inside one, another device behind the object, counter wrap, rows changed during a poll |
| SNMP thresholds, supplies, UPS (`services/snmp_thresholds.py`, `services/snmp_ups.py`, `services/snmp_supplies.py`, `web/snmp_routes.py`) | sources (metrics, interfaces, supplies, the UPS state), thresholds with their level, incidents of their own | poll and evaluate, edit, reset, delete, discover, settings | a threshold edited during a poll; a value that this poll did not bring; letters sent after the commit |
| Accounts (`services/auth.py`, `web/dependencies.py`, `web/auth_routes.py`, user pages of `web/admin_routes.py`) | users, sessions, login failures | login, logout, change of role, password or state, deletion | a request is authorised in one transaction and handled in another; two administrators act on each other |
| Chat and notices (`services/communication.py`, `web/communication_routes.py`) | messages, requests to delete a history, badges, notices | send, open, hide, ask, agree, restore, read, delete | a message is stamped before it can be seen; two sides decide at once |
| Notification channels (`notifications/`, `services/push.py`, `services/smtp_settings.py`) | subscriptions, preferences, the global switch | notices, then pushes, then the letter of an event | a subscription refused for good changes hands while the push is on its way |
| Inventory (`web/admin_routes.py`, `services/site_entry.py`, `services/target_clone.py`) | schedules, sites, objects, their parts | create, edit, move, copy, toggle, delete | two requests read the same rows; ids that a restore gives away again |
| Backups (`services/backups.py`) | stored and staged archives | create, upload, preview, restore, delete | tables read and cleared one after another beside the pages |

How they interact: the scheduler calls the probes in threads and, for each
outcome, one save transaction, which calls the incident service, which inserts
the notices and sends the letters in the same thread. Web handlers change the
same rows from other threads through transactions of their own; the scheduler
learns of it only by reading the rows again. The web process calls the
tls-manager over HTTP. A restore of a backup replaces the rows of all of them in
one transaction. Nothing else is shared.

What makes each part correct:

* scheduler: no two passes at once; one check of an object at a time; a due
  object is checked whatever fails; a probe behind an entry only where the entry
  let it through during that pass; a shutdown that waits for what runs;
* incidents: at most one open incident of a source; opened by a full series of
  failures, for a service check of its current version; closed by a recovery or because nobody
  watches any more; letters in pairs and none while muted; a lasting outage is
  reported and a lasting recovery closes it;
* HTTPS: what the settings say is what Caddy serves, also after a failed change;
  a rollback goes to a pair that has worked; an unsafe redirect is
  lifted;
* SNMP traffic: what is subtracted belongs together (one device, one life of it,
  one counter), and no traffic is invented, wherever the uptime can tell;
* thresholds: an open incident belongs to a threshold that is still evaluated and
  agrees with the level shown; it closes on a value; a critical one is announced; a
  lasting level is reported;
* accounts: an active administrator always remains;
* chat: no badge counts what cannot be found, no message goes without agreement;
* push: a device lost to its push service is told to its owner;
* inventory and backups: one entry for a site; no page changes a row it did not
  show after a restore has given its id away; a backup gives back what it was taken of.

The smaller parts, and those left out, are listed with the reason in section 5 and
in `PROJECT.json`.

## 2. The modules

| Module | Models | Read with |
|---|---|---|
| `IncidentLifecycle` | one object and its service checks: probe results, incidents with their letters, the unstable marker, and the administrator; a transaction is one step | `MCIncidents` |
| `ResultTransactions` | the same save transactions split at their SELECT, INSERT, UPDATE and DELETE at READ COMMITTED, against toggle, deletion and deletion of incidents | `MCTransactions` |
| `CheckScheduler` | the lock, passes, tasks and their failures, gate, queue, shutdown | `MCScheduler` |
| `HttpsSwitch` | the settings pages, the hourly guard, the tls-manager and Caddy | `MCHttps` |
| `InterfaceTraffic` | one interface of an SNMP device: polls, discovery, the pages that change its row | `MCTraffic` |
| `IncidentPromise` | what the readers of letters are promised: streams, incidents, letters, muting, the administrator's hand | `IncidentRefinement` |
| `IncidentRefinement` | the mapping under which `IncidentLifecycle` implements it | `MCIncidents` |
| `SnmpThresholds` | the thresholds of a device over metrics, interfaces, supplies and the UPS; polls statement by statement against the pages | `MCThresholds` |
| `Accounts` | users, sessions, throttling, the user pages, each request authorised before it is handled | `Portal` |
| `Messaging` (extends `Accounts`) | chat, deletion requests, notices, pushes, the delivery of an event | `Portal` |
| `Portal` | their composition: shared requests, `user_delete` with its cleanup | `MCPortal` |
| `Inventory` | the pages of schedules, sites and objects as three-step requests | `Backups` |
| `Backups` (extends `Inventory`) | creation, upload, deletion and restore of archives beside these pages | `MCBackups` |
| `IncidentLifecycleProofs` (also of the refinement), `CheckSchedulerProofs`, `ResultTransactionsProofs`, `HttpsSwitchProofs`, `InterfaceTrafficProofs`, `SnmpThresholdsProofs`, `PortalProofs`, `BackupsProofs` | theorems and proofs (section 4) | |

### IncidentLifecycle

`target`, `site`, `threshold` and `check` are the configuration rows;
`history` the newest results of each check, oldest first; `marker` the two
fields of the unstable link; `ledger` the incident rows, each with the number of
letters it has caused; `run` a pass of the scheduler over the object. A run
reads the `config_version` of its checks in `StartRun`, and each
outcome is saved later (`SavePrimary`, `SaveCheck`), is dropped because the
configuration has moved (`IgnorePrimary`, `IgnoreCheck`) or is lost
(`LosePrimary`). A save appends the result, updates the marker, runs the
incident logic (`ProcessOutcome`, `Escalate`, `ApplyTlsHealth`) and, for the
primary check, decides whether the service checks follow. Every administrator's
action of the code is an action of the module with all it does: `TargetUpdate`
bumps no service version, `CheckUpdate` does, `CheckDelete` resolves silently and
detaches, and so on. `world` and `cert` are what a probe would find.

The row remembers not the letters' text but that a letter was tried, as the
columns of the code do: `openTried` and `recoveryTried` guard the second one.

### IncidentPromise and IncidentRefinement

`IncidentPromise` is the service seen from the mailbox. A stream is what can fail on
its own: the availability of the object, a service of it, the certificate of that
service. `Work` lets every stream rest, begin, be announced, worsen or recover, and
says of each which letter goes out in that very step; `Intervene` is the
administrator, who mutes or ends incidents without a word. Because only `Intervene`
counts in `hand`, an announced incident that ends in a step of the scheduler must
send its recovery letter unless letters are muted. `IncidentRefinement` maps a row of
`ledger` to an incident, its counters to letters, the newest open row of a kind and
source (the query of the code) to the current incident of the stream, `ops` to
`hand`. One save may move two streams, a service and its certificate, which is why
`Work` quantifies over all of them. Confirmation, versions and history have no
counterpart: the promise holds whatever they do.

### ResultTransactions

One check, of either kind (`Kinds`). `saver` is a worker's transaction: `pc`
names the statement it has reached, and the other fields what it has read. Locks
are those of PostgreSQL that matter here: a result references the row of its
check, so a DELETE of that row waits for it; an UPDATE of an incident waits for
the transaction that has changed it. A wait that closes a cycle is broken by
aborting the worker (`BreakDeadlock`). `overlapped` is a history variable: two
workers had results of this check at once, which the scheduler permits only for
leftovers of an aborted pass (see below).

### CheckScheduler

`waiters` is `_check_lock`: its holder followed by the coroutines that wait.
`pass[c]` is where a caller is: queued, checking the entries, at the gate,
checking the rest. `tasks` are the checks in flight; a task carries `batch`, the
number of aborted passes of its caller when it was created, so that the tasks
that outlive an aborted pass (`Orphans`) are told apart from those of the next.
The gate is a read in a thread (`ReadGate`) whose
answer the pass uses later (`StartRegular`), and a task waits for the common
semaphore, for any length of time, before it probes (`StartProbe`). Saves of orphans,
pages and the clock come between any two of these steps; the history `open` keeps
which sites were open at a moment of the pass. `LoadFails`, `SaveFails` and `Abort` are the error paths; `SaveFails` also stands
for the `LookupError` of an object deleted during its probe. A probe and the
read of its result are one step, since only the save changes shared state.

### HttpsSwitch

`active`, `candidate`, `rollback` are the pairs of files, `caddyfile` the
configuration on disk, `caddy` what Caddy serves, `setting` the two rows of the
database. A `client` is a slot of the administrator or the guard, a `handler` the
manager's side of its call; they are separate because a client gives up after
three seconds while the manager goes on (`LoseAnswer`). The manager's handlers go
file by file. `RestoreRefused` and `ReloadRefused` are a Caddy that refuses or
answers too late; `Crash` is a restart of the manager. `served`, `disturbed` and
`leftover` are history variables; the properties use them to name exactly the
circumstances under which the code promises nothing (section 3).

### InterfaceTraffic

`device` is the agent at each address: its life (`boot`), uptime, octets and the name
of its interface, which a restart may change. A restart comes between any two steps,
also inside a poll, and `ChangeAddress` (`target_update`, `web/admin_routes.py:1498`)
gives the object another device and leaves its row as it is. `row` is the row of the interface,
`samples` the two newest samples, `poll` and `walk` a poll and a discovery in
progress. A poll loads its request, reads the uptime (`GetSystem`) and then the
counters (`GetCounters`) in separate GETs, reads the row (`SaveReads`) and flushes
the columns it has changed (`SaveTraffic`, `SaveWithoutTraffic`, `Flush`); the pages
and discovery, which take no lock, come between any two of these steps. Beside
each stored counter the model keeps what the device showed then (`Glimpse`: which
device in which life, the counter, the uptime, and whether it restarted between the
two GETs), so that a property can say what a difference was taken of. Received and sent octets
are one counter and errors grow with it; a rate is kept as its difference. The
modulus of a legacy counter is the constant `Modulus`.

### SnmpThresholds

`source` holds the rows that a threshold may refer to, of the four kinds, `threshold`
its row with the last level, `incident` the newest incident of each key (a threshold,
or `ups.battery`), `poll` a poll in progress: `LoadPollRequest`, `GetValues`,
`ReadRows`, `Evaluate`, `CommitPoll` or `RollbackPoll`, `Send`. The pages of
`web/snmp_routes.py` are actions that fall between any two of these. `Evaluate`
applies what SQLAlchemy has read by then, which is how a reset (`reset_threshold`)
may be overwritten; `raced` remembers the keys for which that happened. Letters go
out after the commit, and a poll by hand may drop them: `quiet` marks incidents
whose letter was lost or muted. A value is a number on a small scale; what matters
is on which side of the limits it is and from which poll it comes.

### Accounts, Messaging, Portal

A request is a record: `authorised` (who asks, and whether he is an administrator, as
read by `require_user`), then a handler, in one step or, where the code reads and
decides before it writes (`user_update`, `user_delete`), in two.
`outdated` remembers that such a handler wrote on the strength of a row that had
changed. Of the chat the model keeps who wrote to whom, when the message was stamped
and when it could be seen (`flushed`, `stored`), and the requests to delete a history
with their cutoffs. An event goes to notices, pushes and the letter one after the
other; a push reads the subscriptions, is delivered without a transaction and then
forgets the devices that refused it for good. `late` marks messages that a race of
two handlers hid. A deletion of a user runs `Cleanup` in the same transaction.

### Inventory and Backups

A request is submitted (session and CSRF token), decides on rows it reads (its plan),
and commits or fails on a constraint (`Submit`, `Decide`, `Commit`, `Fail`). READ
COMMITTED and the unit of work of SQLAlchemy are modelled as they act: only the
attributes that a handler changed are written, onto whatever row has that id by then.
`uid` is a history variable that is never given twice, unlike an id. `raced` marks
entries of a site left by overlapping requests: `set_site_entry` reads the entry it
replaces, and no partial unique index forbids a second (section 3, at the disagreements). A site with a marked entry left stays marked, as does one for which a restore
brings an entry beside the one of an object that survives its clearing. A backup reads
table after table; a restore clears them in the order of the foreign keys (`ClearTable`), inserts
the archive and sets the sequences back (`SetSequences`), checks integrity and ends every
session (`CommitRestore`). `setval` is not transactional: the sequences are set for all
sessions at once, before integrity check and commit, and stay set back if the
restore is refused (`RefuseRestore`) or its connection is lost (`LoseRestore`;
PostgreSQL drops its locks in `ForgetRestore`), while sessions and pages live on. The
history `behind` holds the tables for which that has happened since the last restore
that committed. An
archive is assumed to come from this program: one entry for a site, or marked ones
(`UploadsAssumption`). `overtaken` marks a request that was admitted before a restore
committed. `Quiet` archives carry what the database held when they were made
(`truth`), a history variable too.

## 3. What is checked

Every property that a passing run checks has a mutant: a change of one modelled
definition under which TLC finds the property violated in the same configuration.

| Run | Question | Bounds, and why they are enough |
|---|---|---|
| `incidents_admin` | do results, edits, toggles, deletions and mutings, in any order, leave the incidents in order, and is the promise kept? | one service check beside the primary one, two addresses of the object, thresholds 1 and 2 (immediate and confirmed opening), two administrator's actions and two changes of the world (an action before and one after an outage), four incident rows (the three kinds of an object, and an opening again) |
| `incidents_liveness` | is a lasting outage reported, a lasting recovery closed? | threshold 2, one action, two changes |
| `scheduler` | do passes, requests, faults, deletions and the shutdown exclude each other as they should, and is nothing left waiting for ever? | two objects of one site, one of them its entry; all three kinds of callers; one action, and one fault or change of the world (a leftover of an aborted pass beside the next pass needs one fault) |
| `scheduler_overlap` | (violation) do passes never overlap? | no fault needed: a deletion during a probe |
| `transactions` | what survives when statements interleave? | two workers, three saves, two actions, three incident rows, threshold 2; both kinds of checks |
| `transactions_deleted` | (violation) does a deleted check leave no open incident? | one worker |
| `https` | do files, Caddy and settings stay together? | two certificates, each safe or short at first, four requests (upload, activate, redirect, one more), two refused reloads, one expiry step, one lost answer or crash |
| `traffic` | do rates and error differences subtract what belongs together? | two devices, modulus 2 and two octets: a counter wraps; two ticks in a life, one restart of each device, two actions of choosing, discovering, clearing, changing the version or the address |
| `thresholds` | do thresholds, levels, incidents and letters tell one story? | a threshold on a source of each kind, a second threshold and a metric to be added, three values and an upper and a lower limit, one page, two changes of the device (up and down again), one lost answer or failed poll |
| `thresholds_stale` | (violation) does a transition always rest on fresh data? | one change, one lost value |
| `portal` | do overlapping requests keep the promises made to users? | two requests at a time; four situations to start in (a conversation, the same with a deletion request, an incident due with a subscribed device, logins), in which requests and turns are used up so that two to four requests are left for what the situation is about |
| `backups` | do overlapping requests, backups and restores keep the inventory sound? | either two overlapping requests of two administrators, or one beside two of backup, upload, restore; or two around one restore with a page left of a deleted row; two sites, three objects, archives made in the run, one of another server and one that the integrity check refuses |

Deadlock is not checked (`CHECK_DEADLOCK FALSE`): with the budgets spent and the
object deleted or disabled, or the scheduler stopped, nothing is left to do. The
properties that something must happen take the place of the deadlock check.

### Properties, and what they mean

* `AtMostOneOpen`, `OpenIncidentIsWatched`, `LettersPaired`,
  `OutageExcludesUnstable` relate incident rows to the configuration, to the
  letters and to the markers, after any sequence of actions.
* `OpenedByOwnSeries`: an incident opens only on `threshold` consecutive
  failures; those of a service check were all probed under the version that is current
  then. Results of the primary check carry no version, and the code counts failures
  of an address that the object had before; the property promises nothing of that.
  `ResolvedForCause`: and closes only for a recovery or because the check is not
  watched any more. `KeepsPromise`: the whole model implements
  `IncidentPromise`, so an incident that is over never speaks or opens again, nothing
  is sent while letters are muted, and nobody who was told of an outage is left
  without its end, unless letters are muted or the administrator ended it.
* `OutageIsReported`, `RecoveryCloses`: the two liveness properties. A letter
  that was muted when the incident opened is sent with a later failure.
* `OnlyOrphansOverlap`, `OneProbePerObject`, `StopDrains`: the lock does what it
  is for, except for the leftovers of an aborted pass, and these are the only
  exception. `QueueIsOutstandingWork`: what Portal Health shows is the work left.
  `SiblingsFollowTheirEntry`: what is checked behind an entry was let through by a state
  that was true during that pass and, if the pass checked the entry itself, after the
  result it saved, whatever comes between the answer of the gate and the probe.
  An entry that goes down after the gate was read does not call its siblings back:
  that is what the code does and what the property allows. `DueIsChecked`, `CallersEnd`:
  no object, caller or shutdown waits for ever.
* `SequentialSavesShareIncident`, `LettersInOrder`, `DeletedObjectIsResolved`,
  `OpeningIsOfOneVersion`: what the transactions guarantee although nothing isolates
  them. `TransactionsEnd`: every deadlock of the database is broken.
* `SettingsMatchCaddy`, `RollbackPairHasServed`, `UnsafeRedirectIsLifted`: see
  section 1. The exceptions are explicit: calls that overlap or whose answer is lost (`disturbed`), and refused changes that
  the code does not undo, a rollback or a first activation (`leftover`). They are
  real: after a refused rollback the new Caddyfile stays on disk, and the next
  apply that fails loads it as "the previous configuration".
* `DifferencesWithinOneLife` (`RateWithinOneLife` and `ErrorDeltaWithinOneLife`) and
  `RateNotOverstated`: a rate, and the difference of errors that a threshold compares, is taken of two readings of
  one interface in one life of the device by one kind of counter, and is never more
  than what the device counted. Restarts and changes of the address come anywhere. The code
  tells lives apart by the uptime alone, so the properties speak of the pairs of readings
  that it can tell apart (`Telling`): of one life, or of two of which the later
  reading shows a smaller uptime and was not torn by a restart between its two GETs. A
  restart inside a poll, a new life that is already older than the former one was, or
  another device that has been up for longer are not recognised, and then a difference
  of two lives, and traffic nobody sent, is stored: without `Telling` TLC finds both
  properties violated. Also excepted is a rate computed from a row that was cleared during
  a poll (`whole`): such a row holds octets and no counter mode, and if the SNMP version
  changes as well, a 64-bit value is compared with a 32-bit one.
* `MonitoredAsChosen`: an interface whose name has changed is not monitored in the
  place of the chosen one. A discovery that gets no name erases the stored one, and
  the next name then passes as the first; the property excepts it.
* `IncidentMatchesThreshold` relates the incident of a threshold to its row, its
  source and the level shown; it excepts keys for which a page and a poll crossed
  (`raced`). `CriticalIsAnnounced` speaks of incidents that rose to critical and of
  letters still to be sent; `ClosedForCause` of what a poll may close;
  `CurrentLevelIsReported` is the liveness property: whatever pages did before, a
  level that lasts ends as an incident of that severity, or as none.
* `AdminRemains`: no two requests, crossing in any way, take away the last active
  administrator, and a deleted user is inactive and without a session, except by a
  row that had changed after it was read (`outdated`: `user_update` counts
  administrators under a lock, `user_delete` does not). `BadgeIsTrue`,
  `DeletedByAgreement`, `LostDeviceIsTold`: see section 1; the exceptions (`late`) are
  a message on its way when its recipient hides the history, and a decision that
  overtakes the requester's change of mind.
* `EntryOfSite`, `PageMeansRow`, `QuietBackupRestores`: see section 1; the exceptions
  are `raced`, `overtaken`, and a backup or restore that something else wrote beside or
  that was lost. `PageMeansRow` also excepts the tables in `behind`: after a restore that
  was refused or lost behind `setval` the id of a deleted row may be given to a new
  one while a page of a live session names it, and the code does nothing about it.

### Disagreements between the code and what is said of it

1. `scheduler_overlap`: `asyncio.gather` without `return_exceptions` releases the
   lock while checks of an aborted pass still run. As a consequence two saves of
   one object can overlap, and then open two availability incidents: this is why
   the transaction properties have the premise `~overlapped`.
2. `transactions_deleted`: an incident committed between the SELECT and the
   DELETE of a check's deletion stays open with nothing left to close it.
3. `thresholds_stale`: a UPS value that an answer left out is evaluated with the value
   of an earlier poll, although `services/snmp_thresholds.py:546` says that no fresh
   data means no transition.

A fourth has no run of its own. Two overlapping requests that each make another object the entry of
one site both commit: `EntryOfSite` without its premise `~raced` is violated in
`MCBackups_all.cfg`. `models/target.py:40` says that a site has at most one entry point, and
`services/site_entry.py:140` counts on a partial unique index, which neither the models nor the
migrations create.

Further behaviour that a reader should know of, and that no property can promise away,
is listed under "hazards" in `PROJECT.json` with a note: a series of failures over two addresses of an
object, the guard that writes `https_enabled=True` over a request that has just turned
HTTPS off, the redirect that is checked against the active certificate and granted to
the candidate, the reset that a poll overwrites, the letters that a poll by hand drops, the restarts that the
uptime does not show, the sequences that a refused restore leaves behind.

### Fairness

* `IncidentLifecycle`: weak fairness of the steps of a run. The scheduler comes
  round to every due object (which `DueIsChecked` shows of the scheduler), and
  probes have timeouts. The administrator and the world owe nothing.
* `CheckScheduler`: weak fairness of each caller and each task, because the event
  loop runs every ready coroutine and probes, queries and saves have timeouts.
  The lock is a FIFO, so strong fairness is not needed. Faults are not fair.
* `ResultTransactions`: weak fairness of the statements of each transaction, and
  of the deadlock detector of PostgreSQL.
* `HttpsSwitch`: weak fairness of the guard (it runs every hour), of the manager's
  handlers and of the web request that waits for its answer. Not of lost answers,
  refusals or crashes.
* `SnmpThresholds`: weak fairness of the steps of a poll. The scheduler polls a device
  again and again, and every step has a timeout. Pages and the device owe nothing.
* `Portal` and `Backups` check safety only.

## 4. What is proved

Every type invariant but that of `Portal`, every safety invariant and every
action property that a passing run checks is a theorem about its specification, for every value of
the constants: any number of checks, runs, workers, certificates, users, messages, names and
archives, any threshold and any of the bounds. So is the refinement. The assumptions are the named
`ASSUME`s of the modules (callers that are distinct, thresholds of at least one, bounds that are
numbers, rows to start with that the program can hold), which TLC evaluates in the runs. Each
theorem comes from an inductive invariant, one lemma per action or group of actions, and a last
temporal step by PTL. Each inductive invariant was checked by TLC on the configuration of its run
before it was proved.

None of the properties is inductive as it stands. What has to be added, and why:

* `CheckSchedulerProofs`. Whether a task may run depends on where its caller is, so `OrphansOnly`,
  `NoDoubleProbe` and `ShutdownDrains` rest on `IInv`: a caller that works is at the head of the
  lock (`LockInv`), a task that is no orphan belongs to a caller that waits for its tasks
  (`TaskInv`), the tasks of one pass check different objects (`BatchInv`), no request is under way
  after the shutdown began (`StopInv`). Two holders of the lock are one, and so two current tasks
  of one object are one. `QueueIsTrue` adds `QInv`: while no pass was aborted the queue is the
  targets of the scan and the objects that wait for the gate, and these two are apart, or a task
  that ends would take a waiting object out of the queue. `SiblingsFollow` adds `GInv`, by the stages of
  a pass: a working pass has noted every site that is open (`Known`), what the gate has answered was
  true when it was read (`Answered`), and entries are checked before the gate, siblings after it
  and only as it answered (`InTurn`).
* `IncidentLifecycleProofs`. `IInv` is `TypeOK`, `LedgerOK` and `OpenIncidentIsWatched`.
  `LedgerOK` is a predicate of an arbitrary ledger: the counters of letters agree with the flags of
  the row, an open row is unique of its kind and source. Each operation on the ledger (insert,
  letters, resolve, detach, delete) has its lemma, and a handler that composes them cites these.
  From `IInv` come `UniqueOpenIncident`, `NoUnwatchedIncident`, `PairedLetters`, and with one
  more fact (`EInv`: a free row is blank) the refinement `PromiseKept`. Its steps are
  described by what may change (`Only`) and what becomes of the episode of one stream (`Moved`); a
  save is one move or two of different streams, an action of the administrator only ends
  episodes. `OutageIsNotUnstable` needs `MInv`: besides the property, a
  deleted check and a directory service show no marker. `NoCauselessRecovery` follows row by row. `OpenedOnEvidence` needs
  `HistoryInv`: the results of a service check are stored under the version they were probed under and lie
  in the order of versions, so that the newest results *of the current version*, which the query of
  the code selects, are the newest results of all, of which the property speaks.
* `ResultTransactionsProofs`. Of an incident a worker knows what it read some statements ago.
  `RInv` says how much of it is still true: a letter that was announced stays announced (`Informed`),
  and while no other worker has results of the check, the row is as it was read or closed by the
  administrator (`Alone`). A row that is gone has no result in flight (`GoneIsQuiet`), by the lock of
  the foreign key. From it come `Letters`, `SequentialSaves` and `DeletionResolves`. `SInv` does the same
  for the results: they are a sequence, each stored under the version it was probed under; a
  worker that waits to commit has one of its own; what confirmed an incident is still the series.
  From both comes `OneVersionOpens`.
* `HttpsSwitchProofs`. `HInv` follows the one call that is at work: before it touches a file the
  settings, the Caddyfile and Caddy agree (`Settled`), in the middle it keeps what it needs to
  finish or to go back (`Underway`: a matching source, the previous configuration, a complete backup if
  HTTPS was on), and in every stage the pair for a rollback has served. `SettingsAreServed` and
  `RollbackIsProven` read it off. It says nothing once a call was disturbed or left something behind.
* `InterfaceTrafficProofs`. `TypeCorrect` comes first and by itself. `TInv`: what a poll holds was
  shown by the device it was sent to, in its present life or before (`PollIsSound`); octets, uptime and
  mode of the row are of one such reading, earlier than that of the poll if both are of one life
  (`RowIsSound`); what a save has loaded may have been cleared since, but not replaced (`LoadedIsSound`);
  and a rate is taken only where the uptime went on, so that two lives it is taken of are ones
  that the uptime cannot tell apart, and within one life it counts what that life counted (`RateIsSound`).
  `DifferencesAreOfOneLife` and `RatesAreCounted` have no hypothesis; the arithmetic of a counter that
  wraps is proved from division with remainder for every modulus. `MonitoringFollowsTheName` does
  without `TInv`.
* `SnmpThresholdsProofs`. `StInv` carries a poll from its evaluation to its letters: the outcome of
  a threshold still fits the row and the incident it was computed from, unless a page crossed it (`OutcomesHold`);
  an incident that is still open was evaluated with the answer and the limits in force
  (`AnsweredFor`), and a letter still to be sent says what the incident has become
  (`LettersTellTruth`). `IncidentTellsThreshold`, `CriticalIsKnown`, `ClosedWithData`.
* `PortalProofs`. For the administrators, `AInv`: a page about to write has read a row that was
  there and not deleted (`PagesHaveRead`), and, unless a page wrote over a changed row, who is not
  there is not active (`AbsentIsBlank`). For the chat, `ChatInv`:
  nothing is stamped with a time that has not come, and an unread message is younger than
  *every* cutoff of its recipient (`UnreadIsFound`), not only than the newest, which is what the badge
  compares with. `SomebodyAdministers`, `BadgeCountsWhatIsThere`, `ErasedByAgreement`,
  `OwnersAreTold`.
* `BackupsProofs`. `MeaningInv`: outside `behind` ids only go up until a restore commits, which ends
  every login, so that the id of a page names the row that the page shows; and once a restore has set the
  sequences, they stay above all that it leaves if it commits (`Above`), whatever others insert
  meanwhile. `EntryInv`: what a request has decided would
  still leave one entry if it committed now (`PlansFine`; `FinePlan` says so without the id that a new row
  will get, since that is known only at the commit), or it is marked, and archives hold one
  entry for a site (`ArchivesSole`). `QuietInv`: the built-in schedule is spared
  (`BuiltInSpared`), an undisturbed backup has read what is there (`BackupTrue`), what it stored passes the integrity
  check (`ArchivesFaithful`), and an undisturbed restore has cleared what is there
  (`RestoreTrue`), also after it has set the sequences; hence nothing can refuse the restore of a quiet archive, and it gives back what was there.
  `PagesMeanTheirRow`, `SiteHasOneEntry`, `QuietBackupIsRestored`.

Two operators were stated so that they can be reasoned about. The series that confirms an incident
is, in `IncidentLifecycle` and `ResultTransactions`, the set of the newest positions among those that
count, not a filtered sequence: the length of a filtered sequence is an induction over data. TLC
found the same states before and after. And where a proof needs the newest of a set of times, it
takes a least element by well-foundedness of the numbers and not the induction of a fold.

Only model-checked:

* liveness: `OutageIsReported`, `RecoveryCloses`, `DueIsChecked`, `CallersEnd`, `TransactionsEnd`,
  `UnsafeRedirectIsLifted`, `CurrentLevelIsReported`. They need ENABLED and fairness, which the
  prover does not support;
* the three runs that expect a violation, whose properties are false;
* `TypeOK` of `Portal`, whose proofs use the types of accounts, chat and devices with
  a clock that is any number: that it stays within `Times` is a count of the messages and
  requests used.

## 5. Limits of the models

* A probe is an arbitrary outcome; its network code is not modelled.
* In `IncidentLifecycle` and `CheckScheduler` a transaction is one step; the
  interleaving of statements is the subject of `ResultTransactions`.
* The 60 minute expiry of the unstable marker, `failure_count` and all texts and
  times of letters are left out. A manual run outside working hours saves nothing.
* In `CheckScheduler` the semaphore is a wait of any length. A request for a single object
  reads the gate and starts its check in one step, under the lock. Objects are all of the
  kinds the gate applies to.
* Disabling a check has the same window as deleting it. It is listed as a hazard
  and not as a property, since an enabled check heals it with its next UP.
* In `HttpsSwitch` the backup of the active pair is one step with the validation
  before it, and a restore one step with its reload; copies that replace the
  active pair are separate. An internal certificate is always a fresh one.
* In `InterfaceTraffic` a discovery, a selection and a clearing are one transaction
  each; two polls never meet the same hundredth of the uptime; a device without sysUpTime, the limit on stored samples and all other
  interfaces are left out. Every interface has a known speed; without one the
  test of plausibility is skipped, and the properties hold as well when the model
  skips it.
* In `SnmpThresholds` polls do not overlap (they hold the lock of `CheckScheduler`), a
  formula is the value it gives, samples are not kept, a page is one step.
* In `Accounts` the sessions of a user are one, a login is one step, tokens and
  passwords are input. A deactivated sender keeps the badge of his messages. In
  `Messaging` the presence of a reader is an arbitrary answer; editing a message, the
  settings of SMTP and the VAPID keys are left out. Two users deleted at once, in
  separate transactions, each miss the other, and their messages stay.
* In `Backups` one backup or restore runs at a time. Users, settings, messages and SNMP
  rows are carried in the same way and left out, as are display orders, favourites,
  layouts, the format of the file and its encryption. A schedule or user created by a
  request that commits between the clearing of its table and the commit of the restore
  survives the "full replacement"; a probe in flight across a restore is saved onto
  whichever object has its id. Both are consequences of the model, not properties. The
  flush and the commit of a request are one step, so that an insert that waits takes its
  id late. `LoseRestore` stands for a crash of the program as well: the requests that die
  with it are those that do nothing more.
* The invariants `TypeOK` of `ResultTransactions`, `HttpsSwitch`, `InterfaceTraffic`,
  `SnmpThresholds`, `Portal` and `Backups` are not listed in the runs; five of them are
  theorems (section 4).

### Not modelled

* Transfer of objects (`services/target_transfer.py`): no handler calls it.
* SNMP formulas, target health, display orders: pure functions for the pages, or layout.
* Exports, reports, pagination, the audit log: formatting and append-only records. The
  retention cleanup deletes rows older than every window that a model reads.
* System metrics, network checkers, the SNMP client: input and output; a probe is an
  arbitrary outcome.
* Settings and secrets: rows that the models have as variables or constants.
* Templates, scripts, style, migrations and operator scripts.

## 6. Plan

1. The remaining type invariant, that of `Portal`, whose clock is the number of messages and
   requests used.
2. Abstract specifications for two more components, each implemented step by step as
   `IncidentPromise` is: the lock of the scheduler, with leftovers as its only exception, and
   the incident of a threshold as its key sees it.
3. Safety cores of the liveness properties that can be stated without ENABLED, as lemmas: that a
   level once normal, or an address once down, leaves the incident in a state from which the next poll
   or save reports it.
4. The hazards without a property (`PROJECT.json`): each is a promise that the code does not keep
   today; a change of the code that keeps one makes its note a property.
