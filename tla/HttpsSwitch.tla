------------------------------ MODULE HttpsSwitch ------------------------------
(***************************************************************************)
(* Switching HTTPS: the settings pages of web/routes.py and the hourly     *)
(* guard of services/tls_redirect_guard.py are clients of the tls-manager  *)
(* service, which keeps three pairs of files (active, candidate, rollback) *)
(* and a Caddyfile, and reloads Caddy.  What is wanted is kept in the      *)
(* database, what is served in Caddy, and no transaction spans the two.    *)
(* The manager runs its requests in parallel threads; a client waits three *)
(* seconds for an answer, the manager five for Caddy.                      *)
(***************************************************************************)
EXTENDS Naturals, FiniteSets

CONSTANTS Pairs,      \* certificates, each with its private key
          NoFile,
          Requests,   \* slots for the administrator's requests
          MaxOps,     \* bound: requests of the administrator
          MaxShifts,  \* bound: steps of certificates towards their expiry
          MaxRefusals, \* bound: reloads that Caddy refuses
          MaxLosses   \* bound: answers lost to a timeout or a crash

Guard == "guard"

ASSUME NoFileAssumption == NoFile \notin Pairs
ASSUME GuardAssumption == Guard \notin Requests
ASSUME BoundsAssumption ==
    MaxOps \in Nat /\ MaxShifts \in Nat /\ MaxRefusals \in Nat /\ MaxLosses \in Nat

Clients == Requests \cup {Guard}
Lives == {"safe", "short", "expired"}   \* short: at most two days are left
Files == [cert: Pairs \cup {NoFile}, key: Pairs \cup {NoFile}]
Config == [https: BOOLEAN, redirect: BOOLEAN]
Ops == {"none", "candidate", "internal", "apply", "disable", "rollback"}
HandlerState == [pc: {"idle", "begin", "second", "cert", "key", "write", "reload",
                      "restore", "ok", "error"},
                 op: Ops, want: Config, upload: Files,
                 had: BOOLEAN, previous: Config, pair: Files]
ClientState == [pc: {"idle", "read", "calling"}, seen: Config]

VARIABLES
    active, candidate, rollback,  \* the files of the manager
    caddyfile,   \* the configuration on disk
    caddy,       \* the configuration and the pair that Caddy serves
    setting,     \* https_enabled and https_redirect_http in the database
    life,        \* how long each certificate is still valid
    client,      \* the web requests and the guard
    handler,     \* the manager's side of each call
    served,      \* history: the pairs Caddy has served
    disturbed,   \* history: calls overlapped, or an answer was lost
    leftover,    \* history: what Caddy refused stayed in the files, or in Caddy
    ops, shifts, refusals, losses

files == <<active, candidate, rollback>>
history == <<served, disturbed, leftover>>
budgets == <<ops, shifts, refusals, losses>>
vars == <<files, caddyfile, caddy, setting, life, client, handler, history, budgets>>

NoFiles == [cert |-> NoFile, key |-> NoFile]
Off == [https |-> FALSE, redirect |-> FALSE]
HttpsOnly == [https |-> TRUE, redirect |-> FALSE]
NoHandler == [pc |-> "idle", op |-> "none", want |-> Off, upload |-> NoFiles,
              had |-> FALSE, previous |-> Off, pair |-> NoFiles]
NoClient == [pc |-> "idle", seen |-> Off]

-----------------------------------------------------------------------------
(* Files, and Caddy itself. *)

Complete(f) == f.cert # NoFile /\ f.key # NoFile
Matching(f) == Complete(f) /\ f.cert = f.key
Valid(f) == Matching(f) /\ life[f.cert] # "expired"

\* Mutant: only an expired certificate is unsafe.
NotExpired(f) == f.cert # NoFile /\ life[f.cert] # "expired"

RedirectSafe(f) == f.cert # NoFile /\ life[f.cert] = "safe"

\* Caddy refuses a configuration whose certificate and key it cannot load.
Loadable(config, f) == config.https => Matching(f)
Serving(config, f) ==
    [https |-> config.https, redirect |-> config.redirect,
     pair |-> IF config.https THEN f.cert ELSE NoFile]

-----------------------------------------------------------------------------
(* Clients. *)

Free(c) == client[c].pc = "idle" /\ handler[c].pc = "idle"

Call(c, op, want, upload) ==
    /\ client' = [client EXCEPT ![c].pc = "calling"]
    /\ handler' = [handler EXCEPT ![c] =
                      [NoHandler EXCEPT !.pc = "begin", !.op = op,
                                        !.want = want, !.upload = upload]]

\* A new request of the administrator; the guard at work counts as an overlap.
Open(c) ==
    /\ ops < MaxOps /\ ops' = ops + 1
    /\ Free(c)
    /\ disturbed' = (disturbed \/ \E o \in Clients \ {c} : ~Free(o))
    /\ UNCHANGED <<files, caddyfile, caddy, setting, life, served, leftover,
                   shifts, refusals, losses>>

Request(c, op, want, upload) == Open(c) /\ Call(c, op, want, upload)

\* https_candidate_upload: any certificate with any key.
Upload(c) ==
    \E p, k \in Pairs : Request(c, "candidate", Off, [cert |-> p, key |-> k])

\* https_internal_ca: a new pair.
CreateInternal(c) ==
    \E p \in Pairs : /\ life[p] = "safe"
                     /\ Request(c, "internal", Off, [cert |-> p, key |-> p])

\* https_update asks for the status of the active pair, then for the change.
RedirectAllowed(want) ==
    want.redirect => want.https /\ Valid(active) /\ RedirectSafe(active)

HttpsUpdate(c) ==
    \E want \in Config :
        /\ RedirectAllowed(want)
        /\ Open(c)
        /\ client' = [client EXCEPT ![c] = [pc |-> "read", seen |-> want]]
        /\ UNCHANGED handler

HttpsApply(c) ==
    /\ c # Guard /\ client[c].pc = "read"
    /\ Call(c, "apply", client[c].seen, NoFiles)
    /\ UNCHANGED <<files, caddyfile, caddy, setting, life, history, budgets>>

HttpsRollback(c) == Request(c, "rollback", HttpsOnly, NoFiles)

\* The answer arrives: a success is stored in the database.
Answered(c) ==
    /\ c # Guard /\ client[c].pc = "calling" /\ handler[c].pc \in {"ok", "error"}
    /\ setting' = IF handler[c].pc = "ok" /\ handler[c].op \in {"apply", "rollback"}
                  THEN handler[c].want ELSE setting
    /\ client' = [client EXCEPT ![c] = NoClient]
    /\ handler' = [handler EXCEPT ![c] = NoHandler]
    /\ UNCHANGED <<files, caddyfile, caddy, life, history, budgets>>

\* disable_unsafe_redirect reads the settings, then asks for the status.
GuardRead ==
    /\ Free(Guard)
    /\ setting.https /\ setting.redirect
    /\ client' = [client EXCEPT ![Guard] = [pc |-> "read", seen |-> setting]]
    /\ disturbed' = (disturbed \/ \E o \in Requests : ~Free(o))
    /\ UNCHANGED <<files, caddyfile, caddy, setting, life, handler, served, leftover,
                   budgets>>

GuardDecide ==
    /\ client[Guard].pc = "read"
    /\ IF RedirectSafe(active)
       THEN client' = [client EXCEPT ![Guard] = NoClient] /\ UNCHANGED handler
       ELSE Call(Guard, "disable", HttpsOnly, NoFiles)
    /\ UNCHANGED <<files, caddyfile, caddy, setting, life, history, budgets>>

\* Mutant: the guard leaves the setting as it is.
GuardStoreNothing ==
    /\ client[Guard].pc = "calling" /\ handler[Guard].pc \in {"ok", "error"}
    /\ client' = [client EXCEPT ![Guard] = NoClient]
    /\ handler' = [handler EXCEPT ![Guard] = NoHandler]
    /\ UNCHANGED <<files, caddyfile, caddy, setting, life, history, budgets>>

GuardStore ==
    /\ client[Guard].pc = "calling" /\ handler[Guard].pc \in {"ok", "error"}
    /\ setting' = IF handler[Guard].pc = "ok"
                  THEN [setting EXCEPT !.redirect = FALSE] ELSE setting
    /\ client' = [client EXCEPT ![Guard] = NoClient]
    /\ handler' = [handler EXCEPT ![Guard] = NoHandler]
    /\ UNCHANGED <<files, caddyfile, caddy, life, history, budgets>>

\* The client gives up while the manager goes on, or does not reach it at all.
LoseAnswer(c) ==
    /\ losses < MaxLosses /\ losses' = losses + 1
    /\ client[c].pc # "idle"
    /\ client' = [client EXCEPT ![c] = NoClient]
    /\ handler' = IF handler[c].pc \in {"ok", "error"}
                  THEN [handler EXCEPT ![c] = NoHandler] ELSE handler
    /\ disturbed' = TRUE
    /\ UNCHANGED <<files, caddyfile, caddy, setting, life, served, leftover, ops,
                   shifts, refusals>>

-----------------------------------------------------------------------------
(* The manager: the steps of a request, each at one file or at Caddy. *)

\* An answer nobody waits for is dropped.
Goto(c, pc) ==
    handler' = [handler EXCEPT ![c] =
                   IF pc \in {"ok", "error"} /\ client[c].pc # "calling"
                   THEN NoHandler ELSE [@ EXCEPT !.pc = pc]]
At(c, op, pc) == handler[c].op = op /\ handler[c].pc = pc

\* candidate writes the certificate first, the internal CA the key.
FirstFile(op) == IF op = "candidate" THEN "cert" ELSE "key"
SecondFile(op) == IF op = "candidate" THEN "key" ELSE "cert"

CandidateFirst(c) ==
    LET file == FirstFile(handler[c].op)
    IN  /\ handler[c].op \in {"candidate", "internal"} /\ handler[c].pc = "begin"
        /\ candidate' = [candidate EXCEPT ![file] = handler[c].upload[file]]
        /\ Goto(c, "second")
        /\ UNCHANGED <<active, rollback, caddyfile, caddy, setting, life, client,
                       history, budgets>>

\* A candidate that does not pass is removed.
CandidateSecond(c) ==
    LET file == SecondFile(handler[c].op)
        new == [candidate EXCEPT ![file] = handler[c].upload[file]]
    IN  /\ handler[c].op \in {"candidate", "internal"} /\ handler[c].pc = "second"
        /\ candidate' = IF Valid(new) THEN new ELSE NoFiles
        /\ Goto(c, IF Valid(new) THEN "ok" ELSE "error")
        /\ UNCHANGED <<active, rollback, caddyfile, caddy, setting, life, client,
                       history, budgets>>

\* Mutant: the files are saved for a rollback after they were replaced.
SavedForRollbackLate == candidate

SavedForRollback == active

\* apply validates the candidate and saves the active pair.
BeginApply(c) ==
    LET https == handler[c].want.https
        had == Complete(active)
    IN  /\ At(c, "apply", "begin")
        /\ IF https /\ ~Valid(candidate)
           THEN Goto(c, "error") /\ UNCHANGED rollback
           ELSE /\ handler' = [handler EXCEPT ![c] =
                       [@ EXCEPT !.pc = IF https THEN "cert" ELSE "write",
                                 !.had = had, !.previous = caddyfile,
                                 !.pair = active]]
                /\ rollback' = IF https /\ had THEN SavedForRollback ELSE rollback
        /\ UNCHANGED <<active, candidate, caddyfile, caddy, setting, life, client,
                       history, budgets>>

BeginDisable(c) ==
    /\ At(c, "disable", "begin")
    /\ handler' = [handler EXCEPT ![c] = [@ EXCEPT !.pc = "write",
                                                   !.previous = caddyfile]]
    /\ UNCHANGED <<files, caddyfile, caddy, setting, life, client, history, budgets>>

BeginRollback(c) ==
    /\ At(c, "rollback", "begin")
    /\ Goto(c, IF Valid(rollback) THEN "cert" ELSE "error")
    /\ UNCHANGED <<files, caddyfile, caddy, setting, life, client, history, budgets>>

\* The pair is copied one file after the other; a file that is gone is an error
\* that nothing restores.
CopyFile(c, file, next) ==
    LET source == IF handler[c].op = "apply" THEN candidate ELSE rollback
    IN  /\ handler[c].pc = file
        /\ IF source[file] = NoFile
           THEN Goto(c, "error") /\ UNCHANGED active
           ELSE /\ active' = [active EXCEPT ![file] = source[file]]
                /\ Goto(c, next)
        /\ UNCHANGED <<candidate, rollback, caddyfile, caddy, setting, life,
                       client, history, budgets>>

\* rollback restores nothing, and apply has no pair to restore at first.
Fail(c) ==
    LET h == handler[c]
        stays == h.op = "rollback" \/ (h.op = "apply" /\ h.want.https /\ ~h.had)
    IN  /\ leftover' = (leftover \/ stays)
        /\ Goto(c, IF h.op = "rollback" THEN "error" ELSE "restore")

WriteConfig(c) ==
    LET h == handler[c]
        passes == IF h.op = "disable" THEN Matching(active)
                                      ELSE h.want.https => Valid(active)
    IN  /\ h.pc = "write"
        /\ IF passes
           THEN caddyfile' = h.want /\ Goto(c, "reload") /\ UNCHANGED leftover
           ELSE Fail(c) /\ UNCHANGED caddyfile
        /\ UNCHANGED <<files, caddy, setting, life, client, served, disturbed,
                       budgets>>

\* Caddy reads what is on the disk now.
Load(config, f) ==
    /\ caddy' = Serving(config, f)
    /\ served' = served \cup (IF config.https THEN {f.cert} ELSE {})

Reload(c) ==
    /\ handler[c].pc = "reload"
    /\ IF Loadable(caddyfile, active)
       THEN Load(caddyfile, active) /\ Goto(c, "ok") /\ UNCHANGED leftover
       ELSE Fail(c) /\ UNCHANGED <<caddy, served>>
    /\ UNCHANGED <<files, caddyfile, setting, life, client, disturbed, budgets>>

\* Caddy refuses, or loads the configuration and does not say so in time.
ReloadRefused(c) ==
    /\ refusals < MaxRefusals /\ refusals' = refusals + 1
    /\ handler[c].pc = "reload"
    /\ \/ Loadable(caddyfile, active) /\ Load(caddyfile, active)
       \/ UNCHANGED <<caddy, served>>
    /\ Fail(c)
    /\ UNCHANGED <<files, caddyfile, setting, life, client, disturbed, ops, shifts,
                   losses>>

RestoredPair(c) ==
    IF handler[c].op = "apply" /\ handler[c].want.https /\ handler[c].had
    THEN rollback ELSE active

\* The error path of apply and disable puts the previous files back.
PutBack(c) ==
    /\ handler[c].pc = "restore"
    /\ active' = RestoredPair(c)
    /\ caddyfile' = handler[c].previous
    /\ Goto(c, "error")
    /\ UNCHANGED <<candidate, rollback, setting, life, client, disturbed, ops,
                   shifts, losses>>

\* It reloads them, and ignores a failure of this reload.
Restore(c) ==
    /\ PutBack(c)
    /\ IF Loadable(caddyfile', active') THEN Load(caddyfile', active')
                                        ELSE UNCHANGED <<caddy, served>>
    /\ UNCHANGED <<leftover, refusals>>

RestoreRefused(c) ==
    /\ refusals < MaxRefusals /\ refusals' = refusals + 1
    /\ PutBack(c)
    /\ leftover' = TRUE
    /\ UNCHANGED <<caddy, served>>

\* The manager stops and is started again: its calls end, its files stay.
Crash ==
    /\ losses < MaxLosses /\ losses' = losses + 1
    /\ \E c \in Clients : handler[c].pc # "idle"
    /\ handler' = [c \in Clients |-> NoHandler]
    /\ client' = [c \in Clients |-> IF client[c].pc = "calling" THEN NoClient
                                                               ELSE client[c]]
    /\ disturbed' = TRUE
    /\ UNCHANGED <<files, caddyfile, caddy, setting, life, served, leftover, ops,
                   shifts, refusals>>

-----------------------------------------------------------------------------
\* A certificate comes closer to its expiry.
Expire(p) ==
    /\ shifts < MaxShifts /\ shifts' = shifts + 1
    /\ life[p] # "expired"
    /\ life' = [life EXCEPT ![p] = IF @ = "safe" THEN "short" ELSE "expired"]
    /\ UNCHANGED <<files, caddyfile, caddy, setting, client, handler, history, ops,
                   refusals, losses>>

\* A clean installation serves HTTP.
Init ==
    /\ active = NoFiles /\ candidate = NoFiles /\ rollback = NoFiles
    /\ caddyfile = Off
    /\ caddy = Serving(Off, NoFiles)
    /\ setting = Off
    /\ life \in [Pairs -> {"safe", "short"}]
    /\ client = [c \in Clients |-> NoClient]
    /\ handler = [c \in Clients |-> NoHandler]
    /\ served = {}
    /\ disturbed = FALSE /\ leftover = FALSE
    /\ ops = 0 /\ shifts = 0 /\ refusals = 0 /\ losses = 0

Settle(c) ==
    \/ CandidateFirst(c) \/ CandidateSecond(c)
    \/ BeginApply(c) \/ BeginDisable(c) \/ BeginRollback(c)
    \/ CopyFile(c, "cert", "key") \/ CopyFile(c, "key", "write")
    \/ WriteConfig(c) \/ Reload(c) \/ Restore(c)

AdminStep(c) == Upload(c) \/ CreateInternal(c) \/ HttpsUpdate(c) \/ HttpsRollback(c)
GuardStep == GuardRead \/ GuardDecide \/ GuardStore

Next ==
    \/ \E c \in Requests : AdminStep(c) \/ HttpsApply(c) \/ Answered(c)
    \/ GuardStep
    \/ \E c \in Clients : Settle(c) \/ ReloadRefused(c) \/ RestoreRefused(c) \/ LoseAnswer(c)
    \/ Crash
    \/ \E p \in Pairs : Expire(p)

Spec == Init /\ [][Next]_vars

\* The guard runs every hour; a call of the manager ends, and its answer is
\* read.
FairSpec ==
    /\ Spec
    /\ WF_vars(GuardStep)
    /\ \A c \in Clients : WF_vars(Settle(c))
    /\ \A c \in Requests : WF_vars(HttpsApply(c) \/ Answered(c))

-----------------------------------------------------------------------------
\* Every variable keeps its type.
TypeOK ==
    /\ active \in Files /\ candidate \in Files /\ rollback \in Files
    /\ caddyfile \in Config /\ setting \in Config
    /\ caddy \in [https: BOOLEAN, redirect: BOOLEAN, pair: Pairs \cup {NoFile}]
    /\ life \in [Pairs -> Lives]
    /\ client \in [Clients -> ClientState]
    /\ handler \in [Clients -> HandlerState]
    /\ served \subseteq Pairs
    /\ disturbed \in BOOLEAN /\ leftover \in BOOLEAN
    /\ ops \in Nat /\ shifts \in Nat /\ refusals \in Nat /\ losses \in Nat

Quiet == \A c \in Clients : Free(c)

\* Between requests that neither overlapped nor lost an answer, the settings page
\* shows what Caddy serves, whatever candidates and reloads were refused, unless
\* a refused change stayed in place: a later failure would load its files.
SettingsMatchCaddy ==
    Quiet /\ ~disturbed /\ ~leftover =>
        setting = [https |-> caddy.https, redirect |-> caddy.redirect]

\* What a rollback would bring back is a pair that Caddy has served, whatever was
\* refused since, unless calls overlapped or the very first pair was refused.
RollbackPairHasServed ==
    ~disturbed /\ ~leftover /\ Complete(rollback) =>
        Matching(rollback) /\ rollback.cert \in served

Unsafe == caddy.redirect /\ active.cert = caddy.pair /\ life[caddy.pair] # "safe"

\* The redirect to a certificate that is about to expire is lifted, unless calls
\* overlapped, an answer was lost, or a refused change stayed in place: a redirect
\* that the settings do not show is none of the guard's business.
UnsafeRedirectIsLifted == Unsafe ~> ~Unsafe \/ disturbed \/ leftover
=============================================================================
