--------------------------- MODULE HttpsSwitchProofs ---------------------------
(***************************************************************************)
(* What the settings page and a rollback promise, for any number of        *)
(* certificates, requests, refusals and losses.  The argument follows one  *)
(* call through its steps: before it touches a file everything agrees      *)
(* (Settled), in the middle it keeps what it needs to finish or to go      *)
(* back (Underway), and it ends in agreement again.                        *)
(***************************************************************************)
EXTENDS HttpsSwitch, TLAPS

\* A pair that is complete was loaded by Caddy.
Served(f) == Complete(f) => Matching(f) /\ f.cert \in served

\* Caddy serves the configuration on the disk, with files it can load again.
Loaded ==
    /\ [https |-> caddy.https, redirect |-> caddy.redirect] = caddyfile
    /\ Loadable(caddyfile, active)
    /\ Served(active)

Settled == setting = caddyfile /\ Loaded

Source(h) == IF h.op = "apply" THEN candidate ELSE rollback

\* The call leaves the active pair as it is.
KeepsPair(h) == h.op = "disable" \/ (h.op = "apply" /\ ~h.want.https)

\* A call that has begun to change the files or the configuration.
Underway(h) ==
    /\ h.pc \in {"cert", "key"} => Matching(Source(h)) /\ ~KeepsPair(h)
    /\ h.pc = "key" => active.cert = Source(h).cert
    /\ h.pc \in {"write", "reload"} /\ h.want.https => Matching(active)
    /\ h.pc \in {"reload", "ok"} => caddyfile = h.want
    /\ h.pc = "ok" => Loaded
    /\ KeepsPair(h) => Served(active) /\ Loadable(setting, active)
    /\ h.op = "apply" => h.previous = setting
    /\ h.op = "apply" /\ h.want.https =>
          /\ setting.https => h.had
          /\ h.pc = "restore" => h.had
          /\ h.had => Complete(rollback)
    /\ h.op = "disable" => h.previous = setting
    /\ h.op = "rollback" => h.pc # "restore"

\* The kinds of calls that pass through each step.
Orderly(h) ==
    /\ h.pc = "second" => h.op \in {"candidate", "internal"}
    /\ h.pc \in {"cert", "key"} => h.op \in {"apply", "rollback"}
    /\ h.pc \in {"write", "reload", "restore"} => h.op \in {"apply", "disable", "rollback"}
    /\ h.pc \in {"ok", "error"} => h.op # "none"
    /\ h.pc # "idle" /\ h.op \in {"disable", "rollback"} => h.want = HttpsOnly

Untouching(h) ==
    h.pc \in {"idle", "begin", "second", "error"} \/ h.op \in {"candidate", "internal"}

\* What is true of a client that is at work, alone.
Stage(c) ==
    LET h == handler[c]
    IN  /\ Orderly(h)
        /\ IF Untouching(h) THEN Settled ELSE Underway(h)
        /\ h.pc # "idle" <=> client[c].pc = "calling"
        /\ h.pc # "idle" => (h.op = "disable" <=> c = Guard)
        /\ c = Guard => setting.https

OneAtWork == \A c, o \in Clients : ~Free(c) /\ ~Free(o) => c = o

Calm ==
    /\ OneAtWork
    /\ Served(rollback)
    /\ Quiet => Settled
    /\ \A c \in Clients : ~Free(c) => Stage(c)

HInv == TypeOK /\ (~disturbed /\ ~leftover => Calm)
-----------------------------------------------------------------------------
(* Types. *)

HandlerPcs == {"idle", "begin", "second", "cert", "key", "write", "reload",
               "restore", "ok", "error"}

LEMMA Blanks ==
    /\ NoFiles \in Files /\ Off \in Config /\ HttpsOnly \in Config
    /\ NoHandler \in HandlerState /\ NoClient \in ClientState
  <1>1. NoFiles \in Files /\ Off \in Config /\ HttpsOnly \in Config
    BY DEF NoFiles, Files, Off, HttpsOnly, Config
  <1> QED
    BY <1>1 DEF NoHandler, HandlerState, NoClient, ClientState, Ops

LEMMA CallTypes ==
    ASSUME TypeOK, NEW c \in Clients, NEW op \in Ops, NEW want \in Config,
           NEW upload \in Files, Call(c, op, want, upload)
    PROVE  handler' \in [Clients -> HandlerState] /\ client' \in [Clients -> ClientState]
  <1>1. [NoHandler EXCEPT !.pc = "begin", !.op = op, !.want = want, !.upload = upload]
            \in HandlerState
    BY Blanks DEF NoHandler, HandlerState, Ops
  <1>2. client' \in [Clients -> ClientState]
    BY DEF TypeOK, Call, ClientState
  <1> QED
    BY <1>1, <1>2 DEF TypeOK, Call

LEMMA GotoTypes ==
    ASSUME TypeOK, NEW c \in Clients, NEW pc \in HandlerPcs, Goto(c, pc)
    PROVE  handler' \in [Clients -> HandlerState]
  <1>1. [handler[c] EXCEPT !.pc = pc] \in HandlerState
    BY DEF TypeOK, HandlerState, HandlerPcs
  <1> QED
    BY <1>1, Blanks DEF TypeOK, Goto

LEMMA ChangedFile ==
    ASSUME NEW f \in Files, NEW g \in Files, NEW file \in {"cert", "key"}
    PROVE  [f EXCEPT ![file] = g[file]] \in Files
  BY DEF Files

\* Caddy loads the files on the disk, and remembers the pair it serves.
LEMMA LoadTypes ==
    ASSUME TypeOK, NEW config \in Config, NEW f \in Files, Loadable(config, f),
           Load(config, f)
    PROVE  /\ caddy' \in [https: BOOLEAN, redirect: BOOLEAN, pair: Pairs \cup {NoFile}]
           /\ served' \subseteq Pairs
  <1>1. f.cert \in Pairs \cup {NoFile} /\ (config.https => f.cert \in Pairs)
    BY DEF Loadable, Matching, Complete, Files
  <1>2. caddy' \in [https: BOOLEAN, redirect: BOOLEAN, pair: Pairs \cup {NoFile}]
    BY <1>1 DEF Load, Serving, Config
  <1> QED
    BY <1>1, <1>2 DEF TypeOK, Load

LEMMA ClientTypes ==
    ASSUME TypeOK,
           \/ \E c \in Requests : AdminStep(c) \/ HttpsApply(c) \/ Answered(c)
           \/ GuardStep \/ Crash \/ (\E c \in Clients : LoseAnswer(c))
           \/ \E p \in Pairs : Expire(p)
    PROVE  TypeOK'
  <1> USE DEF TypeOK, files, history, budgets
  <1>1. Requests \subseteq Clients /\ Guard \in Clients
    BY DEF Clients
  <1>2. ASSUME NEW c \in Clients, NEW op \in Ops, NEW want \in Config,
               NEW upload \in Files, Request(c, op, want, upload)
        PROVE  TypeOK'
    BY <1>2, CallTypes DEF Request, Open
  <1>3. ASSUME NEW c \in Requests, AdminStep(c) PROVE TypeOK'
    <2>1. CASE Upload(c)
      <3>1. PICK p \in Pairs, k \in Pairs :
               Request(c, "candidate", Off, [cert |-> p, key |-> k])
        BY <2>1 DEF Upload
      <3>2. [cert |-> p, key |-> k] \in Files
        BY DEF Files
      <3> QED
        BY <1>1, <1>2, <3>1, <3>2, Blanks DEF Ops
    <2>2. CASE CreateInternal(c)
      <3>1. PICK p \in Pairs : Request(c, "internal", Off, [cert |-> p, key |-> p])
        BY <2>2 DEF CreateInternal
      <3>2. [cert |-> p, key |-> p] \in Files
        BY DEF Files
      <3> QED
        BY <1>1, <1>2, <3>1, <3>2, Blanks DEF Ops
    <2>3. CASE HttpsUpdate(c)
      BY <1>1, <2>3 DEF HttpsUpdate, Open, ClientState
    <2>4. CASE HttpsRollback(c)
      BY <1>1, <1>2, <2>4, Blanks DEF HttpsRollback, Ops
    <2> QED
      BY <1>3, <2>1, <2>2, <2>3, <2>4 DEF AdminStep
  <1>4. ASSUME NEW c \in Requests, HttpsApply(c) PROVE TypeOK'
    BY <1>1, <1>4, CallTypes, Blanks DEF HttpsApply, ClientState, Ops
  <1>5. ASSUME NEW c \in Requests, Answered(c) PROVE TypeOK'
    BY <1>1, <1>5, Blanks DEF Answered, HandlerState
  <1>6. CASE GuardRead
    BY <1>1, <1>6 DEF GuardRead, ClientState
  <1>7. CASE GuardDecide
    <2>1. handler' \in [Clients -> HandlerState] /\ client' \in [Clients -> ClientState]
      BY <1>1, <1>7, CallTypes, Blanks DEF GuardDecide, Ops
    <2> QED
      BY <1>7, <2>1 DEF GuardDecide
  <1>8. CASE GuardStore
    <2>1. [setting EXCEPT !.redirect = FALSE] \in Config
      BY DEF Config
    <2> QED
      BY <1>1, <1>8, <2>1, Blanks DEF GuardStore
  <1>9. CASE Crash
    BY <1>9, Blanks DEF Crash
  <1>10. ASSUME NEW c \in Clients, LoseAnswer(c) PROVE TypeOK'
    BY <1>10, Blanks DEF LoseAnswer
  <1>11. ASSUME NEW p \in Pairs, Expire(p) PROVE TypeOK'
    BY <1>11 DEF Expire, Lives
  <1> QED
    BY <1>3, <1>4, <1>5, <1>6, <1>7, <1>8, <1>9, <1>10, <1>11 DEF GuardStep

LEMMA ManagerTypes ==
    ASSUME TypeOK, NEW c \in Clients,
           Settle(c) \/ ReloadRefused(c) \/ RestoreRefused(c)
    PROVE  TypeOK'
  <1> USE DEF files, history, budgets
  <1>1. handler[c] \in HandlerState /\ handler[c].want \in Config
        /\ handler[c].previous \in Config /\ handler[c].upload \in Files
        /\ active \in Files /\ candidate \in Files /\ rollback \in Files
        /\ caddyfile \in Config
    BY DEF TypeOK, HandlerState
  <1>2. ASSUME NEW pc \in HandlerPcs, Goto(c, pc)
        PROVE  handler' \in [Clients -> HandlerState]
    BY <1>2, GotoTypes
  <1>3. CASE CandidateFirst(c)
    <2>1. candidate' \in Files
      BY <1>1, <1>3, ChangedFile DEF CandidateFirst, FirstFile
    <2>2. handler' \in [Clients -> HandlerState]
      BY <1>2, <1>3 DEF CandidateFirst, HandlerPcs
    <2> QED
      BY <1>3, <2>1, <2>2 DEF CandidateFirst, TypeOK
  <1>4. CASE CandidateSecond(c)
    <2>1. candidate' \in Files
      BY <1>1, <1>4, ChangedFile, Blanks DEF CandidateSecond, SecondFile
    <2>2. handler' \in [Clients -> HandlerState]
      BY <1>2, <1>4 DEF CandidateSecond, HandlerPcs
    <2> QED
      BY <1>4, <2>1, <2>2 DEF CandidateSecond, TypeOK
  <1>5. CASE BeginApply(c)
    <2>1. handler' \in [Clients -> HandlerState]
      <3>1. CASE Goto(c, "error")
        BY <1>2, <3>1 DEF HandlerPcs
      <3>2. CASE ~Goto(c, "error")
        <4> DEFINE had == Complete(active)
                   pc == IF handler[c].want.https THEN "cert" ELSE "write"
                   h == [[[[handler[c] EXCEPT !.pc = pc] EXCEPT !.had = had]
                             EXCEPT !.previous = caddyfile] EXCEPT !.pair = active]
        <4>1. had \in BOOLEAN
          BY DEF Complete
        <4>2. pc \in {"cert", "write"}
          OBVIOUS
        <4>3. handler' = [handler EXCEPT ![c] = h]
          BY <1>1, <1>5, <3>2 DEF BeginApply, TypeOK
        <4> HIDE DEF had, pc
        <4>4. h \in HandlerState
          BY <1>1, <4>1, <4>2 DEF HandlerState
        <4> HIDE DEF h
        <4> QED
          BY <4>3, <4>4 DEF TypeOK
      <3> QED
        BY <3>1, <3>2
    <2>2. rollback' \in Files
      BY <1>1, <1>5 DEF BeginApply, SavedForRollback
    <2> QED
      BY <1>5, <2>1, <2>2 DEF BeginApply, TypeOK
  <1>6. CASE BeginDisable(c)
    <2>1. handler' \in [Clients -> HandlerState]
      BY <1>1, <1>6 DEF BeginDisable, TypeOK, HandlerState
    <2> QED
      BY <1>6, <2>1 DEF BeginDisable, TypeOK
  <1>7. CASE BeginRollback(c)
    <2>1. handler' \in [Clients -> HandlerState]
      BY <1>2, <1>7 DEF BeginRollback, HandlerPcs
    <2> QED
      BY <1>7, <2>1 DEF BeginRollback, TypeOK
  <1>8. ASSUME NEW file \in {"cert", "key"}, NEW next \in HandlerPcs,
               CopyFile(c, file, next)
        PROVE  TypeOK'
    <2>1. handler' \in [Clients -> HandlerState]
      BY <1>2, <1>8 DEF CopyFile, HandlerPcs
    <2>2. active' \in Files
      <3> DEFINE source == IF handler[c].op = "apply" THEN candidate ELSE rollback
      <3>1. source \in Files
        BY <1>1
      <3>2. active' = active \/ active' = [active EXCEPT ![file] = source[file]]
        BY <1>8 DEF CopyFile
      <3> HIDE DEF source
      <3>3. [active EXCEPT ![file] = source[file]] \in Files
        BY <1>1, <3>1, ChangedFile
      <3> QED
        BY <1>1, <3>2, <3>3
    <2> QED
      BY <1>8, <2>1, <2>2 DEF CopyFile, TypeOK
  <1>9. ASSUME Fail(c)
        PROVE  handler' \in [Clients -> HandlerState] /\ leftover' \in BOOLEAN
    <2>1. handler' \in [Clients -> HandlerState]
      BY <1>2, <1>9 DEF Fail, HandlerPcs
    <2>2. leftover' \in BOOLEAN
      BY <1>9 DEF Fail, TypeOK
    <2> QED
      BY <2>1, <2>2
  <1>10. CASE WriteConfig(c)
    <2>1. handler' \in [Clients -> HandlerState] /\ leftover' \in BOOLEAN
      BY <1>2, <1>9, <1>10 DEF WriteConfig, HandlerPcs, TypeOK
    <2>2. caddyfile' \in Config
      BY <1>1, <1>10 DEF WriteConfig
    <2> QED
      BY <1>10, <2>1, <2>2 DEF WriteConfig, TypeOK
  <1>11. CASE Reload(c) \/ ReloadRefused(c)
    <2>1. handler' \in [Clients -> HandlerState] /\ leftover' \in BOOLEAN
      BY <1>2, <1>9, <1>11 DEF Reload, ReloadRefused, HandlerPcs, TypeOK
    <2>2. /\ caddy' \in [https: BOOLEAN, redirect: BOOLEAN, pair: Pairs \cup {NoFile}]
          /\ served' \subseteq Pairs
      BY <1>1, <1>11, LoadTypes DEF Reload, ReloadRefused, TypeOK
    <2> QED
      BY <1>11, <2>1, <2>2 DEF Reload, ReloadRefused, TypeOK
  <1>12. CASE Restore(c) \/ RestoreRefused(c)
    <2>1. PutBack(c)
      BY <1>12 DEF Restore, RestoreRefused
    <2>2. handler' \in [Clients -> HandlerState]
      BY <1>2, <2>1 DEF PutBack, HandlerPcs
    <2>3. active' \in Files /\ caddyfile' \in Config
      BY <1>1, <2>1 DEF PutBack, RestoredPair
    <2>4. /\ caddy' \in [https: BOOLEAN, redirect: BOOLEAN, pair: Pairs \cup {NoFile}]
          /\ served' \subseteq Pairs
      <3>1. CASE Loadable(caddyfile', active') /\ Load(caddyfile', active')
        BY <2>3, <3>1, LoadTypes
      <3>2. CASE UNCHANGED <<caddy, served>>
        BY <3>2 DEF TypeOK
      <3> QED
        BY <1>12, <3>1, <3>2, Zenon DEF Restore, RestoreRefused
    <2>5. leftover' \in BOOLEAN /\ refusals' \in Nat
      <3>1. \/ leftover' = leftover /\ refusals' = refusals
            \/ leftover' = TRUE /\ refusals' = refusals + 1
        BY <1>12, Zenon DEF Restore, RestoreRefused
      <3>2. leftover \in BOOLEAN /\ refusals \in Nat
        BY DEF TypeOK
      <3>3. leftover' \in BOOLEAN
        BY <3>1, <3>2, Zenon
      <3>4. refusals' = refusals \/ refusals' = refusals + 1
        BY <3>1, Zenon
      <3> QED
        BY <3>2, <3>3, <3>4
    <2> QED
      BY <2>1, <2>2, <2>3, <2>4, <2>5 DEF PutBack, TypeOK
  <1> QED
    BY <1>3, <1>4, <1>5, <1>6, <1>7, <1>8, <1>10, <1>11, <1>12 DEF Settle, HandlerPcs
-----------------------------------------------------------------------------
(* One client at work. *)

LEMMA Focus ==
    ASSUME NEW c \in Clients, \A o \in Clients \ {c} : Free(o)',
           Served(rollback)', Free(c)' => Settled', ~Free(c)' => Stage(c)'
    PROVE  Calm'
  BY DEF Calm, OneAtWork, Quiet

LEMMA AtWork ==
    ASSUME Calm, NEW c \in Clients, ~Free(c)
    PROVE  Stage(c) /\ Served(rollback) /\ \A o \in Clients \ {c} : Free(o)
  BY DEF Calm, OneAtWork

LEMMA SettledKeeps ==
    ASSUME Settled, UNCHANGED <<active, caddyfile, caddy, setting, served>>
    PROVE  Settled'
  BY DEF Settled, Loaded, Served, Loadable, Matching, Complete

LEMMA UnderwayKeeps ==
    ASSUME NEW h, Underway(h), Calm,
           UNCHANGED <<files, caddyfile, caddy, setting, served>>
    PROVE  Underway(h)'
  BY DEF Underway, KeepsPair, Source, Loaded, Served, Loadable, Matching, Complete, files

\* Whatever leaves the files, Caddy, the setting and the clients as they are.
LEMMA CalmKeeps ==
    ASSUME Calm, UNCHANGED <<files, caddyfile, caddy, setting, client, handler, served>>
    PROVE  Calm'
  BY DEF Calm, OneAtWork, Quiet, Free, Stage, Orderly, Untouching, Settled, Underway,
         KeepsPair, Source, Loaded, Served, Loadable, Matching, Complete, files

\* A call begins in agreement and has touched nothing yet.
LEMMA CallBegins ==
    ASSUME TypeOK, NEW c \in Clients, NEW op \in Ops \ {"none"}, NEW want, NEW upload,
           Call(c, op, want, upload),
           \A o \in Clients \ {c} : Free(o), Settled, Served(rollback),
           op = "disable" <=> c = Guard, c = Guard => setting.https,
           op \in {"disable", "rollback"} => want = HttpsOnly,
           UNCHANGED <<files, caddyfile, caddy, setting, served>>
    PROVE  Calm'
  <1>1. /\ client'[c].pc = "calling" /\ handler'[c].pc = "begin"
        /\ handler'[c].op = op /\ handler'[c].want = want
        /\ \A o \in Clients \ {c} : client'[o] = client[o] /\ handler'[o] = handler[o]
    BY DEF TypeOK, Call, NoHandler, ClientState
  <1>2. Settled' /\ Served(rollback)'
    BY SettledKeeps DEF files, Served, Matching, Complete
  <1>3. Stage(c)'
    BY <1>1, <1>2 DEF Stage, Orderly, Untouching
  <1> QED
    BY <1>1, <1>2, <1>3, Focus DEF Free

\* A request that did not overlap found everything in agreement.
LEMMA OpenedQuietly ==
    ASSUME Calm, NEW c \in Clients, Open(c), ~disturbed'
    PROVE  Settled /\ Served(rollback) /\ \A o \in Clients \ {c} : Free(o)
  BY DEF Calm, Open, Quiet

LEMMA ClientKeeps ==
    ASSUME HInv, ~disturbed', ~leftover',
           \/ \E c \in Requests : AdminStep(c) \/ HttpsApply(c) \/ Answered(c)
           \/ GuardStep \/ Crash \/ (\E c \in Clients : LoseAnswer(c))
           \/ \E p \in Pairs : Expire(p)
    PROVE  Calm'
  <1>1. /\ Requests \subseteq Clients /\ Guard \in Clients
        /\ \A c \in Requests : c # Guard
    BY GuardAssumption DEF Clients
  <1>2. TypeOK /\ (~disturbed /\ ~leftover => Calm)
    BY DEF HInv
  <1>3. ASSUME NEW c \in Requests, NEW op \in {"candidate", "internal", "rollback"},
               NEW want, NEW upload, op = "rollback" => want = HttpsOnly,
               Request(c, op, want, upload)
        PROVE  Calm'
    <2>1. Calm
      BY <1>2, <1>3 DEF Request, Open
    <2>2. Settled /\ Served(rollback) /\ \A o \in Clients \ {c} : Free(o)
      BY <1>1, <1>3, <2>1, OpenedQuietly DEF Request
    <2>3. op \in Ops \ {"none"} /\ op # "disable"
      BY DEF Ops
    <2> QED
      BY <1>1, <1>2, <1>3, <2>2, <2>3, CallBegins DEF Request, Open
  <1>4. ASSUME NEW c \in Requests, AdminStep(c) PROVE Calm'
    <2>1. CASE Upload(c) \/ CreateInternal(c) \/ HttpsRollback(c)
      BY <1>3, <2>1 DEF Upload, CreateInternal, HttpsRollback
    <2>2. CASE HttpsUpdate(c)
      <3>1. Open(c) /\ UNCHANGED handler
            /\ client' = [client EXCEPT ![c] = [pc |-> "read", seen |-> client'[c].seen]]
        BY <1>1, <1>2, <2>2 DEF HttpsUpdate, TypeOK
      <3>2. Calm
        BY <1>2, <3>1 DEF Open
      <3>3. Settled /\ Served(rollback) /\ Free(c) /\ \A o \in Clients \ {c} : Free(o)
        BY <1>1, <3>1, <3>2, OpenedQuietly DEF Open
      <3>4. /\ client'[c].pc = "read" /\ handler'[c].pc = "idle"
            /\ \A o \in Clients \ {c} : Free(o)'
        BY <1>1, <1>2, <3>1, <3>3 DEF TypeOK, Free
      <3>5. Settled' /\ Served(rollback)'
        BY <3>1, <3>3, SettledKeeps DEF Open, files, Served, Matching, Complete
      <3>6. Stage(c)'
        BY <1>1, <3>4, <3>5 DEF Stage, Orderly, Untouching
      <3> QED
        BY <1>1, <3>4, <3>5, <3>6, Focus
    <2> QED
      BY <1>4, <2>1, <2>2 DEF AdminStep
  <1>5. ASSUME NEW c \in Requests, HttpsApply(c) PROVE Calm'
    <2>1. Calm /\ ~Free(c) /\ client[c].pc = "read"
      BY <1>2, <1>5 DEF HttpsApply, Free, history
    <2>2. Stage(c) /\ Served(rollback) /\ \A o \in Clients \ {c} : Free(o)
      BY <1>1, <2>1, AtWork
    <2>3. Settled
      BY <2>1, <2>2 DEF Stage, Untouching
    <2>4. "apply" \in Ops \ {"none"}
      BY DEF Ops
    <2> QED
      BY <1>1, <1>2, <1>5, <2>2, <2>3, <2>4, CallBegins DEF HttpsApply, history
  <1>6. ASSUME NEW c \in Clients, client[c].pc = "calling", handler[c].pc \in {"ok", "error"},
               client' = [client EXCEPT ![c] = NoClient],
               handler' = [handler EXCEPT ![c] = NoHandler],
               UNCHANGED <<files, caddyfile, caddy, history>>,
               setting' = IF handler[c].pc = "ok" /\ handler[c].op \in {"apply", "rollback", "disable"}
                          THEN handler[c].want ELSE setting
        PROVE  Calm'
    <2>1. Calm /\ ~Free(c)
      BY <1>2, <1>6 DEF Free, history
    <2>2. Stage(c) /\ Served(rollback) /\ \A o \in Clients \ {c} : Free(o)
      BY <2>1, AtWork
    <2>3. Free(c)' /\ \A o \in Clients \ {c} : Free(o)'
      BY <1>2, <1>6, <2>2 DEF TypeOK, Free, NoClient, NoHandler
    <2>4. Served(rollback)'
      BY <1>6, <2>2 DEF files, history, Served, Matching, Complete
    <2>5. Settled'
      <3>1. CASE Untouching(handler[c])
        <4>1. Settled /\ UNCHANGED setting
          BY <1>6, <2>2, <3>1 DEF Stage, Untouching
        <4> QED
          BY <1>6, <4>1, SettledKeeps DEF files, history
      <3>2. CASE ~Untouching(handler[c])
        <4>1. /\ handler[c].pc = "ok" /\ Underway(handler[c])
              /\ handler[c].op \in {"apply", "rollback", "disable"}
          BY <1>2, <1>6, <2>2, <3>2 DEF Stage, Untouching, Orderly, TypeOK, HandlerState, Ops
        <4>2. Loaded /\ setting' = caddyfile
          BY <1>6, <4>1 DEF Underway
        <4> QED
          BY <1>6, <4>2 DEF Settled, Loaded, Served, Loadable, Matching, Complete, files, history
      <3> QED
        BY <3>1, <3>2
    <2> QED
      BY <2>3, <2>4, <2>5, Focus
  <1>7. ASSUME NEW c \in Requests, Answered(c) PROVE Calm'
    <2>1. Calm /\ ~Free(c)
      BY <1>2, <1>7 DEF Answered, Free, history
    <2>2. handler[c].op # "disable"
      BY <1>1, <1>7, <2>1, AtWork DEF Answered, Stage
    <2> QED
      BY <1>1, <1>6, <1>7, <2>2 DEF Answered
  <1>8. CASE GuardRead
    <2>1. Calm /\ Free(Guard) /\ setting.https /\ \A o \in Clients \ {Guard} : Free(o)
      BY <1>2, <1>8 DEF GuardRead, Clients
    <2>2. Settled /\ Served(rollback)
      BY <2>1 DEF Calm, Quiet
    <2>3. /\ client'[Guard].pc = "read" /\ handler'[Guard].pc = "idle"
          /\ \A o \in Clients \ {Guard} : Free(o)'
      BY <1>1, <1>2, <1>8, <2>1 DEF GuardRead, TypeOK, Free
    <2>4. Settled' /\ Served(rollback)' /\ setting'.https
      BY <1>8, <2>1, <2>2, SettledKeeps DEF GuardRead, files, Served, Matching, Complete
    <2>5. Stage(Guard)'
      BY <2>3, <2>4 DEF Stage, Orderly, Untouching
    <2> QED
      BY <1>1, <2>3, <2>4, <2>5, Focus
  <1>9. CASE GuardDecide
    <2>1. Calm /\ ~Free(Guard) /\ client[Guard].pc = "read"
      BY <1>2, <1>9 DEF GuardDecide, Free, history
    <2>2. Stage(Guard) /\ Served(rollback) /\ \A o \in Clients \ {Guard} : Free(o)
      BY <1>1, <2>1, AtWork
    <2>3. Settled /\ setting.https /\ handler[Guard].pc = "idle"
      BY <2>1, <2>2 DEF Stage, Untouching
    <2>4. CASE RedirectSafe(active)
      <3>1. client' = [client EXCEPT ![Guard] = NoClient] /\ UNCHANGED handler
        BY <1>9, <2>4 DEF GuardDecide
      <3>2. \A o \in Clients : Free(o)'
        BY <1>1, <1>2, <2>2, <2>3, <3>1 DEF TypeOK, Free, NoClient
      <3>3. Settled' /\ Served(rollback)'
        BY <1>9, <2>2, <2>3, SettledKeeps
        DEF GuardDecide, files, history, Served, Matching, Complete
      <3> QED
        BY <1>1, <3>2, <3>3, Focus
    <2>5. CASE ~RedirectSafe(active)
      <3>1. Call(Guard, "disable", HttpsOnly, NoFiles)
        BY <1>9, <2>5 DEF GuardDecide
      <3>2. "disable" \in Ops \ {"none"}
        BY DEF Ops
      <3> QED
        BY <1>1, <1>2, <1>9, <2>2, <2>3, <3>1, <3>2, CallBegins DEF GuardDecide, history
    <2> QED
      BY <2>4, <2>5
  <1>10. CASE GuardStore
    <2>1. Calm /\ ~Free(Guard)
      BY <1>2, <1>10 DEF GuardStore, Free, history
    <2>2. Stage(Guard)
      BY <1>1, <2>1, AtWork
    <2>3. /\ handler[Guard].op = "disable" /\ handler[Guard].want = HttpsOnly
          /\ setting.https
      BY <1>10, <2>2 DEF GuardStore, Stage, Orderly
    <2>4. [setting EXCEPT !.redirect = FALSE] = HttpsOnly
      <3>1. setting \in Config /\ setting.https = TRUE
        BY <1>2, <2>3 DEF TypeOK, Config
      <3> DEFINE r == [setting EXCEPT !.redirect = FALSE]
      <3>2. r \in Config /\ r.https = setting.https /\ r.redirect = FALSE
        BY <3>1 DEF Config
      <3> HIDE DEF r
      <3>3. r = [https |-> r.https, redirect |-> r.redirect]
        BY <3>2 DEF Config
      <3> QED
        BY <3>1, <3>2, <3>3 DEF r, HttpsOnly
    <2>5. setting' = IF handler[Guard].pc = "ok"
                        /\ handler[Guard].op \in {"apply", "rollback", "disable"}
                     THEN handler[Guard].want ELSE setting
      BY <1>10, <2>3, <2>4 DEF GuardStore
    <2>6. /\ client[Guard].pc = "calling" /\ handler[Guard].pc \in {"ok", "error"}
          /\ client' = [client EXCEPT ![Guard] = NoClient]
          /\ handler' = [handler EXCEPT ![Guard] = NoHandler]
          /\ UNCHANGED <<files, caddyfile, caddy, history>>
      BY <1>10 DEF GuardStore
    <2> QED
      BY <1>1, <1>6, <2>5, <2>6
  <1>11. CASE Crash \/ (\E c \in Clients : LoseAnswer(c))
    BY <1>11 DEF Crash, LoseAnswer
  <1>12. ASSUME NEW p \in Pairs, Expire(p) PROVE Calm'
    BY <1>2, <1>12, CalmKeeps DEF Expire, history
  <1> QED
    BY <1>4, <1>5, <1>7, <1>8, <1>9, <1>10, <1>11, <1>12 DEF GuardStep
-----------------------------------------------------------------------------
(* The steps of the manager. *)

\* The client of a calm call waits for it, so its handler is moved, not dropped.
LEMMA GotoMoves ==
    ASSUME TypeOK, NEW c \in Clients, NEW pc, client[c].pc = "calling", Goto(c, pc)
    PROVE  /\ handler' = [handler EXCEPT ![c] = [handler[c] EXCEPT !.pc = pc]]
           /\ handler'[c].pc = pc
           /\ handler'[c].op = handler[c].op /\ handler'[c].want = handler[c].want
           /\ handler'[c].had = handler[c].had
           /\ handler'[c].previous = handler[c].previous
           /\ \A o \in Clients \ {c} : handler'[o] = handler[o]
  BY DEF TypeOK, Goto, HandlerState

\* What a step of the manager must show: the other clients stay free, and the
\* call goes on in agreement, or with what it needs.
LEMMA ManagerFocus ==
    ASSUME NEW c \in Clients, \A o \in Clients \ {c} : Free(o),
           \A o \in Clients \ {c} : handler'[o] = handler[o], UNCHANGED client,
           client[c].pc = "calling", Served(rollback)', Stage(c)'
    PROVE  Calm'
  BY Focus DEF Free

\* What is loaded is served, and the pair stays loadable.
LEMMA Loading ==
    ASSUME TypeOK, NEW config \in Config, NEW f \in Files, Loadable(config, f),
           Load(config, f), config.https \/ Served(f), caddyfile' = config, active' = f
    PROVE  Loaded' /\ served \subseteq served'
  <1>1. [https |-> caddy'.https, redirect |-> caddy'.redirect] = config
    BY DEF Load, Serving, Config
  <1>2. served \subseteq served' /\ (config.https => Matching(f) /\ f.cert \in served')
    BY DEF Load, Loadable
  <1>3. Served(f)'
    <2> SUFFICES ASSUME Complete(f)' PROVE Matching(f)' /\ f.cert \in served'
      BY DEF Served
    <2>1. Complete(f) /\ Matching(f)' = Matching(f)
      BY DEF Complete, Matching
    <2> QED
      BY <1>2, <2>1 DEF Served
  <1> QED
    BY <1>1, <1>2, <1>3 DEF Loaded, Loadable, Matching, Complete, Served

LEMMA ServedMore ==
    ASSUME Served(rollback), UNCHANGED rollback, served \subseteq served'
    PROVE  Served(rollback)'
  BY DEF Served, Matching, Complete

\* A call that goes on to another of its steps is still the call of its client.
LEMMA GoesOn ==
    ASSUME NEW c \in Clients, Stage(c), client[c].pc = "calling",
           UNCHANGED <<client, setting>>,
           handler'[c].op = handler[c].op, handler'[c].pc # "idle",
           Orderly(handler[c])',
           \/ Untouching(handler[c])' /\ Settled'
           \/ ~Untouching(handler[c])' /\ Underway(handler[c])'
    PROVE  Stage(c)'
  BY DEF Stage

\* The copies of a pair.
LEMMA Copies ==
    ASSUME HInv, NEW c \in Clients, ~disturbed, ~leftover, ~disturbed', ~leftover',
           CopyFile(c, "cert", "key") \/ CopyFile(c, "key", "write")
    PROVE  Calm'
  <1> DEFINE h == handler[c]
             source == Source(h)
  <1>1. TypeOK /\ Calm /\ ~Free(c) /\ h.pc \in {"cert", "key"}
    BY DEF HInv, CopyFile, Free
  <1>2. Stage(c) /\ Served(rollback) /\ \A o \in Clients \ {c} : Free(o)
    BY <1>1, AtWork
  <1>3. /\ client[c].pc = "calling" /\ Orderly(h)
        /\ h.op \in {"apply", "rollback"} /\ Underway(h)
        /\ Matching(source) /\ ~KeepsPair(h)
    BY <1>1, <1>2 DEF Stage, Orderly, Untouching, Underway
  <1>4. source \in Files /\ active \in Files
    BY <1>1 DEF TypeOK, Source
  <1>5. PICK file \in {"cert", "key"} :
           /\ h.pc = file /\ active' = [active EXCEPT ![file] = source[file]]
           /\ Goto(c, IF file = "cert" THEN "key" ELSE "write")
    BY <1>3, <1>4 DEF CopyFile, Source, Matching, Complete, Files
  <1>6. UNCHANGED <<candidate, rollback, caddyfile, caddy, setting, client, served>>
    BY DEF CopyFile, history
  <1>7. /\ handler'[c].pc = (IF file = "cert" THEN "key" ELSE "write")
        /\ handler'[c].op = h.op /\ handler'[c].want = h.want /\ handler'[c].had = h.had
        /\ handler'[c].previous = h.previous
        /\ \A o \in Clients \ {c} : handler'[o] = handler[o]
    BY <1>1, <1>3, <1>5, GotoMoves
  <1>8. /\ file = "cert" => active'.cert = source.cert
        /\ file = "key" => active'.cert = source.cert /\ active'.key = source.key
    BY <1>3, <1>4, <1>5 DEF Files, Underway
  <1>9. Source(handler[c])' = source
    BY <1>6, <1>7 DEF Source
  <1>10. Matching(Source(handler[c])') /\ (file = "key" => Matching(active'))
    BY <1>3, <1>8, <1>9 DEF Matching, Complete
  <1>11. ~KeepsPair(handler[c])'
    BY <1>3, <1>7 DEF KeepsPair
  <1> HIDE DEF source
  <1>12. Underway(handler[c])'
    BY <1>3, <1>6, <1>7, <1>8, <1>9, <1>10, <1>11 DEF Underway, Matching, Complete
  <1>13. Orderly(handler[c])' /\ ~Untouching(handler[c])'
    BY <1>1, <1>3, <1>7 DEF Orderly, Untouching
  <1>14. Stage(c)'
    BY <1>2, <1>3, <1>6, <1>7, <1>12, <1>13, GoesOn
  <1>15. Served(rollback)'
    BY <1>2, <1>6, ServedMore
  <1> QED
    BY <1>2, <1>3, <1>6, <1>7, <1>14, <1>15, ManagerFocus
\* The steps before the first file.
LEMMA Beginnings ==
    ASSUME HInv, NEW c \in Clients, ~disturbed, ~leftover, ~disturbed', ~leftover',
           CandidateFirst(c) \/ CandidateSecond(c) \/ BeginApply(c) \/ BeginDisable(c)
           \/ BeginRollback(c)
    PROVE  Calm'
  <1> DEFINE h == handler[c]
  <1>1. TypeOK /\ Calm /\ ~Free(c) /\ h.pc \in {"begin", "second"}
    BY DEF HInv, CandidateFirst, CandidateSecond, BeginApply, BeginDisable,
           BeginRollback, At, Free
  <1>2. Stage(c) /\ Served(rollback) /\ \A o \in Clients \ {c} : Free(o)
    BY <1>1, AtWork
  <1>3. client[c].pc = "calling" /\ Orderly(h) /\ Settled
    BY <1>1, <1>2 DEF Stage, Untouching
  <1>4. UNCHANGED <<active, caddyfile, caddy, setting, client, served>>
    BY DEF CandidateFirst, CandidateSecond, BeginApply, BeginDisable, BeginRollback,
           files, history
  <1>5. Settled'
    BY <1>3, <1>4, SettledKeeps
  <1>6. CASE CandidateFirst(c) \/ CandidateSecond(c)
    <2>1. PICK pc \in {"second", "ok", "error"} : Goto(c, pc)
      BY <1>6 DEF CandidateFirst, CandidateSecond
    <2>2. h.op \in {"candidate", "internal"} /\ UNCHANGED rollback
      BY <1>6 DEF CandidateFirst, CandidateSecond
    <2>3. /\ handler'[c].pc = pc
          /\ handler'[c].op = h.op /\ handler'[c].want = h.want
          /\ \A o \in Clients \ {c} : handler'[o] = handler[o]
      BY <1>1, <1>3, <2>1, GotoMoves
    <2>4. Orderly(handler[c])' /\ Untouching(handler[c])'
      BY <2>2, <2>3 DEF Orderly, Untouching
    <2>5. Stage(c)'
      BY <1>2, <1>3, <1>4, <1>5, <2>3, <2>4, GoesOn
    <2>6. Served(rollback)'
      BY <1>2, <1>4, <2>2, ServedMore
    <2> QED
      BY <1>2, <1>3, <1>4, <2>3, <2>5, <2>6, ManagerFocus
  <1>7. ASSUME Goto(c, "error"), h.op \in {"apply", "rollback"},
               UNCHANGED <<candidate, rollback>>
        PROVE  Calm'
    <2>1. /\ handler'[c].pc = "error"
          /\ handler'[c].op = h.op /\ handler'[c].want = h.want
          /\ \A o \in Clients \ {c} : handler'[o] = handler[o]
      BY <1>1, <1>3, <1>7, GotoMoves
    <2>2. Orderly(handler[c])' /\ Untouching(handler[c])'
      BY <1>1, <1>3, <1>7, <2>1 DEF Orderly, Untouching
    <2>3. Stage(c)'
      BY <1>2, <1>3, <1>4, <1>5, <2>1, <2>2, GoesOn
    <2>4. Served(rollback)'
      BY <1>2, <1>4, <1>7, ServedMore
    <2> QED
      BY <1>2, <1>3, <1>4, <2>1, <2>3, <2>4, ManagerFocus
  <1>8. CASE BeginApply(c)
    <2>1. CASE h.want.https /\ ~Valid(candidate)
      BY <1>7, <1>8, <2>1 DEF BeginApply, At
    <2>2. CASE ~(h.want.https /\ ~Valid(candidate))
      <3> DEFINE had == Complete(active)
                 pc == IF h.want.https THEN "cert" ELSE "write"
      <3>1. /\ h.op = "apply" /\ UNCHANGED candidate
            /\ handler' = [handler EXCEPT ![c] =
                              [@ EXCEPT !.pc = pc, !.had = had, !.previous = caddyfile,
                                        !.pair = active]]
            /\ rollback' = IF h.want.https /\ had THEN active ELSE rollback
        BY <1>8, <2>2 DEF BeginApply, At, SavedForRollback
      <3> HIDE DEF had, pc
      <3>2. /\ handler'[c].pc = pc /\ handler'[c].op = "apply"
            /\ handler'[c].want = h.want /\ handler'[c].had = had
            /\ handler'[c].previous = caddyfile
            /\ \A o \in Clients \ {c} : handler'[o] = handler[o]
        BY <1>1, <3>1 DEF TypeOK, HandlerState
      <3>3. /\ h.want.https => pc = "cert" /\ Matching(candidate)
            /\ ~h.want.https => pc = "write"
            /\ pc \in {"cert", "write"}
        BY <2>2 DEF pc, Valid
      <3>4. /\ caddyfile = setting /\ Served(active) /\ Loadable(setting, active)
            /\ setting.https => had
        BY <1>3 DEF Settled, Loaded, Loadable, Matching, had
      <3>5. Served(active)' /\ Served(rollback)'
        BY <1>2, <1>4, <3>1, <3>4 DEF Served
      <3>6. Loadable(setting, active)'
        BY <1>4, <3>4 DEF Loadable
      <3>7. Orderly(handler[c])' /\ ~Untouching(handler[c])'
        BY <3>2, <3>3 DEF Orderly, Untouching
      <3>8. Source(handler[c])' = candidate /\ (KeepsPair(handler[c])' <=> ~h.want.https)
        BY <3>1, <3>2 DEF Source, KeepsPair
      <3>9. h.want.https /\ had => Complete(rollback')
        BY <3>1 DEF had
      <3>10. Underway(handler[c])'
        BY <1>4, <3>2, <3>3, <3>4, <3>5, <3>6, <3>8, <3>9 DEF Underway
      <3>11. Stage(c)'
        BY <1>2, <1>3, <1>4, <3>1, <3>2, <3>3, <3>7, <3>10, GoesOn
      <3> QED
        BY <1>2, <1>3, <1>4, <3>2, <3>5, <3>11, ManagerFocus
    <2> QED
      BY <2>1, <2>2
  <1>9. CASE BeginDisable(c)
    <2>1. /\ handler'[c].pc = "write" /\ handler'[c].op = "disable" /\ h.op = "disable"
          /\ handler'[c].want = h.want /\ handler'[c].previous = caddyfile
          /\ \A o \in Clients \ {c} : handler'[o] = handler[o]
          /\ UNCHANGED <<candidate, rollback>>
      BY <1>1, <1>9 DEF BeginDisable, At, TypeOK, HandlerState, files
    <2>2. setting.https /\ setting = caddyfile /\ Loadable(setting, active) /\ Served(active)
      BY <1>1, <1>2, <1>3, <2>1 DEF Stage, Settled, Loaded
    <2>3. Orderly(handler[c])' /\ ~Untouching(handler[c])'
      BY <1>1, <1>3, <2>1 DEF Orderly, Untouching
    <2>4. Served(active)' /\ Served(rollback)' /\ Loadable(setting, active)'
      BY <1>2, <1>4, <2>1, <2>2 DEF Served, Loadable
    <2>5. Matching(active')
      BY <1>4, <2>2 DEF Loadable
    <2>6. Underway(handler[c])'
      BY <1>4, <2>1, <2>2, <2>4, <2>5 DEF Underway
    <2>7. Stage(c)'
      BY <1>2, <1>3, <1>4, <2>1, <2>3, <2>6, GoesOn
    <2> QED
      BY <1>2, <1>3, <1>4, <2>1, <2>4, <2>7, ManagerFocus
  <1>10. CASE BeginRollback(c)
    <2>1. h.op = "rollback" /\ UNCHANGED <<candidate, rollback>>
      BY <1>10 DEF BeginRollback, At, files
    <2>2. CASE ~Valid(rollback)
      BY <1>7, <1>10, <2>1, <2>2 DEF BeginRollback
    <2>3. CASE Valid(rollback)
      <3>1. /\ handler'[c].pc = "cert" /\ handler'[c].op = "rollback"
            /\ handler'[c].want = h.want
            /\ \A o \in Clients \ {c} : handler'[o] = handler[o]
        BY <1>1, <1>3, <1>10, <2>1, <2>3, GotoMoves DEF BeginRollback
      <3>2. Orderly(handler[c])' /\ ~Untouching(handler[c])'
        BY <1>1, <1>3, <2>1, <3>1 DEF Orderly, Untouching
      <3>3. Source(handler[c])' = rollback /\ ~KeepsPair(handler[c])' /\ Matching(rollback)
        BY <2>1, <2>3, <3>1 DEF Source, KeepsPair, Valid
      <3>4. Underway(handler[c])'
        BY <3>1, <3>3 DEF Underway
      <3>5. Stage(c)'
        BY <1>2, <1>3, <1>4, <2>1, <3>1, <3>2, <3>4, GoesOn
      <3>6. Served(rollback)'
        BY <1>2, <1>4, <2>1, ServedMore
      <3> QED
        BY <1>2, <1>3, <1>4, <3>1, <3>5, <3>6, ManagerFocus
    <2> QED
      BY <2>2, <2>3
  <1> QED
    BY <1>6, <1>8, <1>9, <1>10
\* A call that is about to go back: what it needs is still there.
LEMMA Failing ==
    ASSUME HInv, NEW c \in Clients, ~disturbed, ~leftover, ~leftover',
           handler[c].pc \in {"write", "reload"}, Fail(c),
           UNCHANGED <<files, setting, client>>, served \subseteq served',
           KeepsPair(handler[c]) => Served(active)
    PROVE  Calm'
  <1> DEFINE h == handler[c]
  <1>1. TypeOK /\ Calm /\ ~Free(c)
    BY DEF HInv, Free
  <1>2. Stage(c) /\ Served(rollback) /\ \A o \in Clients \ {c} : Free(o)
    BY <1>1, AtWork
  <1>3. /\ client[c].pc = "calling" /\ Orderly(h) /\ Underway(h)
        /\ h.op \in {"apply", "disable", "rollback"}
    BY <1>2 DEF Stage, Untouching, Orderly
  <1>4. /\ h.op # "rollback" /\ (h.op = "apply" /\ h.want.https => h.had)
        /\ Goto(c, "restore")
    BY DEF Fail
  <1>5. /\ handler'[c].pc = "restore" /\ handler'[c].op = h.op
        /\ handler'[c].want = h.want /\ handler'[c].had = h.had
        /\ handler'[c].previous = h.previous
        /\ \A o \in Clients \ {c} : handler'[o] = handler[o]
    BY <1>1, <1>3, <1>4, GotoMoves
  <1>6. Orderly(handler[c])' /\ ~Untouching(handler[c])'
    BY <1>3, <1>4, <1>5 DEF Orderly, Untouching
  <1>7. Served(active)' <=> (Complete(active) => Matching(active) /\ active.cert \in served')
    BY DEF files, Served, Matching, Complete
  <1>8. KeepsPair(h) => Served(active)' /\ Loadable(setting, active)'
    BY <1>3, <1>7 DEF files, Served, Loadable, Matching, Complete, Underway
  <1>9. Underway(handler[c])'
    BY <1>3, <1>4, <1>5, <1>8 DEF Underway, KeepsPair, files, Complete
  <1>10. Stage(c)'
    BY <1>2, <1>3, <1>5, <1>6, <1>9, GoesOn
  <1>11. Served(rollback)'
    BY <1>2, ServedMore DEF files
  <1> QED
    BY <1>2, <1>3, <1>5, <1>10, <1>11, ManagerFocus

LEMMA Writing ==
    ASSUME HInv, NEW c \in Clients, ~disturbed, ~leftover, ~leftover', WriteConfig(c)
    PROVE  Calm'
  <1> DEFINE h == handler[c]
             passes == IF h.op = "disable" THEN Matching(active)
                                           ELSE h.want.https => Valid(active)
  <1>1. TypeOK /\ Calm /\ ~Free(c) /\ h.pc = "write"
    BY DEF HInv, WriteConfig, Free
  <1>2. Stage(c) /\ Served(rollback) /\ \A o \in Clients \ {c} : Free(o)
    BY <1>1, AtWork
  <1>3. /\ client[c].pc = "calling" /\ Orderly(h) /\ Underway(h)
        /\ h.op \in {"apply", "disable", "rollback"}
    BY <1>1, <1>2 DEF Stage, Untouching, Orderly
  <1>4. UNCHANGED <<files, caddy, setting, client, served>>
    BY DEF WriteConfig
  <1>5. CASE passes
    <2>1. caddyfile' = h.want /\ Goto(c, "reload")
      BY <1>5 DEF WriteConfig
    <2>2. /\ handler'[c].pc = "reload" /\ handler'[c].op = h.op
          /\ handler'[c].want = h.want /\ handler'[c].had = h.had
          /\ handler'[c].previous = h.previous
          /\ \A o \in Clients \ {c} : handler'[o] = handler[o]
      BY <1>1, <1>3, <2>1, GotoMoves
    <2>3. Orderly(handler[c])' /\ ~Untouching(handler[c])'
      BY <1>1, <1>3, <2>2 DEF Orderly, Untouching
    <2>4. KeepsPair(h) => Served(active)' /\ Loadable(setting, active)'
      BY <1>3, <1>4 DEF files, Served, Loadable, Matching, Complete, Underway
    <2>5. h.want.https => Matching(active')
      BY <1>1, <1>3, <1>4 DEF files, Underway
    <2>6. Underway(handler[c])'
      BY <1>3, <1>4, <2>1, <2>2, <2>4, <2>5 DEF Underway, KeepsPair, files, Complete
    <2>7. Stage(c)'
      BY <1>2, <1>3, <1>4, <2>2, <2>3, <2>6, GoesOn
    <2>8. Served(rollback)'
      BY <1>2, <1>4, ServedMore DEF files
    <2> QED
      BY <1>2, <1>3, <1>4, <2>2, <2>7, <2>8, ManagerFocus
  <1>6. CASE ~passes
    <2>1. Fail(c)
      BY <1>6 DEF WriteConfig
    <2>2. KeepsPair(h) => Served(active)
      BY <1>3 DEF Underway
    <2> QED
      BY <1>1, <1>4, <2>1, <2>2, Failing
  <1> QED
    BY <1>5, <1>6

LEMMA Reloading ==
    ASSUME HInv, NEW c \in Clients, ~disturbed, ~leftover, ~leftover',
           Reload(c) \/ ReloadRefused(c)
    PROVE  Calm'
  <1> DEFINE h == handler[c]
  <1>1. TypeOK /\ Calm /\ ~Free(c) /\ h.pc = "reload"
    BY DEF HInv, Reload, ReloadRefused, Free
  <1>2. Stage(c) /\ Served(rollback) /\ \A o \in Clients \ {c} : Free(o)
    BY <1>1, AtWork
  <1>3. /\ client[c].pc = "calling" /\ Orderly(h) /\ Underway(h)
        /\ h.op \in {"apply", "disable", "rollback"}
    BY <1>1, <1>2 DEF Stage, Untouching, Orderly
  <1>4. UNCHANGED <<files, caddyfile, setting, client>>
    BY DEF Reload, ReloadRefused
  <1>5. /\ caddyfile \in Config /\ active \in Files /\ caddyfile = h.want
        /\ Loadable(caddyfile, active)
        /\ KeepsPair(h) => Served(active)
    BY <1>1, <1>3 DEF TypeOK, Underway, Loadable
  <1>6. caddyfile.https \/ Served(active)
    BY <1>1, <1>3, <1>5 DEF KeepsPair, Orderly, HttpsOnly
  <1>7. Load(caddyfile, active) => Loaded' /\ served \subseteq served'
    BY <1>1, <1>4, <1>5, <1>6, Loading DEF files
  <1>8. CASE Reload(c)
    <2>1. Load(caddyfile, active) /\ Goto(c, "ok")
      BY <1>5, <1>8 DEF Reload
    <2>2. /\ handler'[c].pc = "ok" /\ handler'[c].op = h.op
          /\ handler'[c].want = h.want /\ handler'[c].had = h.had
          /\ handler'[c].previous = h.previous
          /\ \A o \in Clients \ {c} : handler'[o] = handler[o]
      BY <1>1, <1>3, <2>1, GotoMoves
    <2>3. Orderly(handler[c])' /\ ~Untouching(handler[c])'
      BY <1>1, <1>3, <2>2 DEF Orderly, Untouching
    <2>4. KeepsPair(h) => Served(active)' /\ Loadable(setting, active)'
      BY <1>3, <1>4, <1>7, <2>1 DEF files, Loaded, Loadable, Matching, Complete, Underway
    <2>5. Underway(handler[c])'
      BY <1>3, <1>4, <1>5, <1>7, <2>1, <2>2, <2>4 DEF Underway, KeepsPair, files, Complete
    <2>6. Stage(c)'
      BY <1>2, <1>3, <1>4, <2>2, <2>3, <2>5, GoesOn
    <2>7. Served(rollback)'
      BY <1>2, <1>4, <1>7, <2>1, ServedMore DEF files
    <2> QED
      BY <1>2, <1>3, <1>4, <2>2, <2>6, <2>7, ManagerFocus
  <1>9. CASE ReloadRefused(c)
    <2>1. Fail(c) /\ served \subseteq served'
      BY <1>7, <1>9 DEF ReloadRefused
    <2> QED
      BY <1>1, <1>4, <1>5, <2>1, Failing
  <1> QED
    BY <1>8, <1>9

\* A call that failed puts everything back as it was.
LEMMA Restoring ==
    ASSUME HInv, NEW c \in Clients, ~disturbed, ~leftover, ~leftover',
           Restore(c) \/ RestoreRefused(c)
    PROVE  Calm'
  <1> DEFINE h == handler[c]
  <1>1. TypeOK /\ Calm /\ ~Free(c) /\ h.pc = "restore"
    BY DEF HInv, Restore, RestoreRefused, PutBack, Free
  <1>2. Stage(c) /\ Served(rollback) /\ \A o \in Clients \ {c} : Free(o)
    BY <1>1, AtWork
  <1>3. /\ client[c].pc = "calling" /\ Orderly(h) /\ Underway(h)
        /\ h.op \in {"apply", "disable"} /\ h.previous = setting
    BY <1>1, <1>2 DEF Stage, Untouching, Orderly, Underway
  <1>4. /\ active' = RestoredPair(c) /\ caddyfile' = setting /\ Goto(c, "error")
        /\ UNCHANGED <<candidate, rollback, setting, client>>
        /\ Loadable(caddyfile', active') => Load(caddyfile', active')
    BY <1>3 DEF Restore, RestoreRefused, PutBack
  <1>5. setting \in Config /\ active' \in Files
    BY <1>1, <1>4 DEF TypeOK, RestoredPair
  <1>6. Served(active') /\ Loadable(setting, active')
    <2>1. CASE h.op = "apply" /\ h.want.https
      <3>1. active' = rollback /\ Complete(rollback)
        BY <1>1, <1>3, <1>4, <2>1 DEF RestoredPair, Underway
      <3>2. Matching(rollback) /\ rollback.cert \in served
        BY <1>2, <3>1 DEF Served
      <3> QED
        BY <3>1, <3>2 DEF Served, Loadable
    <2>2. CASE ~(h.op = "apply" /\ h.want.https)
      <3>1. active' = active /\ KeepsPair(h)
        BY <1>3, <1>4, <2>2 DEF RestoredPair, KeepsPair
      <3> QED
        BY <1>3, <3>1 DEF Underway
    <2> QED
      BY <2>1, <2>2
  <1>7. Loaded' /\ served \subseteq served'
    BY <1>1, <1>4, <1>5, <1>6, Loading
  <1>8. /\ handler'[c].pc = "error" /\ handler'[c].op = h.op
        /\ handler'[c].want = h.want
        /\ \A o \in Clients \ {c} : handler'[o] = handler[o]
    BY <1>1, <1>3, <1>4, GotoMoves
  <1>9. Settled'
    BY <1>4, <1>7 DEF Settled
  <1>10. Orderly(handler[c])' /\ Untouching(handler[c])'
    BY <1>1, <1>3, <1>8 DEF Orderly, Untouching
  <1>11. Stage(c)'
    BY <1>2, <1>3, <1>4, <1>8, <1>9, <1>10, GoesOn
  <1>12. Served(rollback)'
    BY <1>2, <1>4, <1>7, ServedMore
  <1> QED
    BY <1>2, <1>3, <1>4, <1>8, <1>11, <1>12, ManagerFocus

-----------------------------------------------------------------------------
(* The theorems. *)

LEMMA HttpsInitial == Init => HInv
  <1> SUFFICES ASSUME Init PROVE HInv
    OBVIOUS
  <1>1. TypeOK
    <2>1. caddy \in [https: BOOLEAN, redirect: BOOLEAN, pair: Pairs \cup {NoFile}]
      BY DEF Init, Serving, Off
    <2>2. life \in [Pairs -> Lives]
      BY DEF Init, Lives
    <2> QED
      BY <2>1, <2>2, Blanks DEF Init, TypeOK
  <1>2. \A c \in Clients : Free(c)
    BY DEF Init, Free, NoClient, NoHandler
  <1>3. Settled /\ Served(rollback)
    BY DEF Init, Settled, Loaded, Loadable, Served, Complete, NoFiles, Serving, Off
  <1> QED
    BY <1>1, <1>2, <1>3 DEF HInv, Calm, OneAtWork

LEMMA HttpsInvariance == Spec => []HInv
  <1>1. HInv /\ [Next]_vars => HInv'
    <2> SUFFICES ASSUME HInv, [Next]_vars PROVE HInv'
      OBVIOUS
    <2>1. CASE Next
      <3>1. TypeOK'
        BY <2>1, ClientTypes, ManagerTypes DEF HInv, Next
      <3>2. ASSUME ~disturbed', ~leftover' PROVE Calm'
        <4>1. ~disturbed \/ Crash \/ (\E c \in Clients : LoseAnswer(c))
              \/ (\E c \in Requests : AdminStep(c)) \/ GuardRead
          BY <2>1, <3>2
          DEF Next, GuardStep, HttpsApply, Answered, GuardDecide, GuardStore, Expire, Settle,
              ReloadRefused, RestoreRefused, PutBack, CandidateFirst, CandidateSecond,
              BeginApply, BeginDisable, BeginRollback, CopyFile, WriteConfig, Reload,
              Restore, history
        <4>2. ~disturbed
          BY <3>2, <4>1
          DEF Crash, LoseAnswer, AdminStep, Upload, CreateInternal, HttpsUpdate,
              HttpsRollback, Request, Open, GuardRead
        <4>3. ~leftover
          BY <2>1, <3>2
          DEF Next, AdminStep, Upload, CreateInternal, HttpsUpdate, HttpsRollback, Request,
              Open, GuardStep, GuardRead, HttpsApply, Answered, GuardDecide, GuardStore,
              Expire, Crash, LoseAnswer, Settle, ReloadRefused, RestoreRefused, PutBack,
              CandidateFirst, CandidateSecond, BeginApply, BeginDisable, BeginRollback,
              CopyFile, WriteConfig, Reload, Restore, Fail, history
        <4> QED
          BY <2>1, <3>2, <4>2, <4>3, ClientKeeps, Copies, Beginnings, Writing, Reloading,
             Restoring DEF Next, Settle
      <3> QED
        BY <3>1, <3>2 DEF HInv
    <2>2. CASE UNCHANGED vars
      BY <2>2, CalmKeeps DEF HInv, TypeOK, vars, files, history, budgets
    <2> QED
      BY <2>1, <2>2
  <1> QED
    BY HttpsInitial, <1>1, PTL DEF Spec

\* Every variable keeps its type, also through crashes and lost answers.
THEOREM TypeCorrect == Spec => []TypeOK
  <1>1. HInv => TypeOK
    BY DEF HInv
  <1> QED
    BY <1>1, HttpsInvariance, PTL

\* Between undisturbed requests the settings page shows what Caddy serves, for
\* any number of certificates and whatever candidates and reloads were refused:
\* the path back of a failed change ends where the change began.
THEOREM SettingsAreServed == Spec => []SettingsMatchCaddy
  <1>1. HInv => SettingsMatchCaddy
    BY DEF HInv, Calm, Settled, Loaded, SettingsMatchCaddy
  <1> QED
    BY <1>1, HttpsInvariance, PTL

\* A rollback would bring back a pair that Caddy has served.
THEOREM RollbackIsProven == Spec => []RollbackPairHasServed
  <1>1. HInv => RollbackPairHasServed
    BY DEF HInv, Calm, Served, RollbackPairHasServed
  <1> QED
    BY <1>1, HttpsInvariance, PTL
=============================================================================
