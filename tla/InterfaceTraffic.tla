--------------------------- MODULE InterfaceTraffic ---------------------------
(***************************************************************************)
(* The traffic of one network interface of a monitored object, from the    *)
(* counters of SNMP devices to the samples that graphs and thresholds read: *)
(* services/snmp.py and services/snmp_interfaces.py.  A poll loads its      *)
(* request, reads the uptime and the counters in separate GETs, and saves   *)
(* the difference to the reading before.  Discovery, which takes no lock,   *)
(* and the administrator's pages change the same row between those steps;   *)
(* a device may restart between any two, and target_update may give the    *)
(* object the address of another device and leaves the row as it is.        *)
(*                                                                         *)
(* Received and sent octets are one counter, and errors and discards grow  *)
(* with it.  What a rate was computed from is kept beside it as evidence.   *)
(***************************************************************************)
EXTENDS Integers, Sequences

CONSTANTS Addresses,  \* of the devices that the object may stand for
          Names,      \* what a device calls its interfaces
          NoName,     \* a snapshot without ifName and ifDescr
          None,
          Modulus,    \* 2^32 in the code: where a legacy counter wraps
          Speed,      \* octets the interface carries in a tick at most
          MaxOctets,  \* bound: octets that any two devices count in their present lives
          MaxUptime,  \* bound: ticks in one life of a device
          MaxBoots,   \* bound: restarts of the device that restarts most often
          MaxAdmin    \* bound: actions of the administrator

ASSUME NamesAssumption == NoName \notin Names /\ None \notin Names
ASSUME CounterAssumption == Modulus \in Nat \ {0} /\ Speed \in Nat \ {0}
ASSUME BoundsAssumption ==
    MaxOctets \in Nat /\ MaxUptime \in Nat /\ MaxBoots \in Nat /\ MaxAdmin \in Nat
ASSUME NoneAssumption == None \notin 0 .. MaxUptime

Modes == {"hc64", "legacy32"}
Versions == {"v1", "v2c"}

\* What a device showed to a poll, the evidence behind a stored counter: its life (which
\* device, since which restart), the counter and the uptime, and whether it restarted
\* between the GET of the one and of the other.
Life == [address: Addresses, boot: 0 .. MaxBoots]
Glimpse == [life: Life, name: Names, octets: 0 .. MaxOctets, uptime: 0 .. MaxUptime,
            torn: BOOLEAN]
Reading == [mode: Modes, at: Glimpse]
\* To the reading of the same sample; whole: the row held all of the reading before.
Rate == [from: Reading, delta: Nat, whole: BOOLEAN]
Sample == [rate: Rate \cup {None}, reading: Reading]
Device == [boot: 0 .. MaxBoots, name: Names, octets: 0 .. MaxOctets, uptime: 0 .. MaxUptime]
Row == [name: Names \cup {NoName}, present: BOOLEAN, monitored: BOOLEAN,
        mode: Modes \cup {None}, octets: Reading \cup {None},
        uptime: 0 .. MaxUptime \cup {None}]
Poll == [pc: {"idle", "loaded", "system", "read", "saving"},
         address: Addresses \cup {None}, version: Versions,
         mode: Modes \cup {None},   \* the row's, then that of the counters in the answer
         uptime: 0 .. MaxUptime,
         boot: 0 .. MaxBoots,       \* history: the life that showed the uptime
         at: Glimpse \cup {None}, loaded: Row \cup {None}]
Walk == [pc: {"idle", "walked"}, found: BOOLEAN, name: Names \cup {NoName}]

VARIABLES device,     \* the device at every address
          config, row,
          samples,    \* the newest sample, and the one before it as long as it is read:
                      \* beside a rate, and without its own
          poll, walk,
          chosen,    \* history: the name under which monitoring was chosen, NoName once a
                      \* snapshot without a name was stored
          admin      \* actions the administrator has taken

vars == <<device, config, row, samples, poll, walk, chosen, admin>>

IdlePoll == [pc |-> "idle", address |-> None, version |-> "v2c", mode |-> None, uptime |-> 0,
             boot |-> 0, at |-> None, loaded |-> None]
IdleWalk == [pc |-> "idle", found |-> FALSE, name |-> NoName]

-----------------------------------------------------------------------------
(* Counters. *)

\* The device that a poll was sent to, whatever address the object has by now.
Polled == device[poll.address]
Seen == [life |-> [address |-> poll.address, boot |-> Polled.boot], name |-> Polled.name,
         octets |-> Polled.octets, uptime |-> poll.uptime, torn |-> poll.boot # Polled.boot]

Raw(r) == IF r.mode = "legacy32" THEN r.at.octets % Modulus ELSE r.at.octets

HighWatermark == (Modulus * 9) \div 10
LowWatermark == Modulus \div 10

\* RateNotOverstated: the modulus is off by one.
CounterDeltaOffByOne(new, old, mode) ==
    IF new >= old THEN new - old
    ELSE IF mode = "legacy32" /\ old >= HighWatermark /\ new <= LowWatermark
         THEN Modulus - old + new + 1
         ELSE None

\* The octets between two values of a counter, or None if they do not compare.
CounterDelta(new, old, mode) ==
    IF new >= old THEN new - old
    ELSE IF mode = "legacy32" /\ old >= HighWatermark /\ new <= LowWatermark
         THEN Modulus - old + new
         ELSE None

\* A rate needs time to have passed, and exceeds the speed by a quarter at most.
PlausibleRate(delta, elapsed) ==
    delta # None /\ elapsed > 0 /\ 4 * delta <= 5 * Speed * elapsed

NotNegative(delta) == IF delta < 0 THEN 0 ELSE delta

RequestedModes(mode, version) ==
    IF mode = "legacy32" THEN {"legacy32"}
    ELSE IF version = "v1" THEN {"legacy32"}
    ELSE IF mode = "hc64" THEN {"hc64"} ELSE Modes

SelectedMode(mode, answered) ==
    IF mode \in Modes THEN (IF mode \in answered THEN mode ELSE None)
    ELSE IF "hc64" \in answered THEN "hc64"
    ELSE IF "legacy32" \in answered THEN "legacy32" ELSE None

ClearRuntime(r) == [r EXCEPT !.mode = None, !.octets = None, !.uptime = None]

-----------------------------------------------------------------------------
(* The devices. *)

\* Time passes for all of them.
Advance ==
    /\ \A a \in Addresses : device[a].uptime < MaxUptime
    /\ \E n \in [Addresses -> 0 .. Speed] :
         /\ device' = [a \in Addresses |-> [device[a] EXCEPT !.uptime = @ + 1,
                                                           !.octets = @ + n[a]]]
         /\ \A a, b \in Addresses :
              device'[a].octets + (IF a = b THEN 0 ELSE device'[b].octets) <= MaxOctets
    /\ UNCHANGED <<config, row, samples, poll, walk, chosen, admin>>

\* A restart may renumber the interfaces.
Restart(a) ==
    /\ \A b \in Addresses : device[b].boot < MaxBoots
    /\ \E name \in Names :
         device' = [device EXCEPT ![a] = [boot |-> @.boot + 1, name |-> name,
                                          octets |-> 0, uptime |-> 0]]
    /\ UNCHANGED <<config, row, samples, poll, walk, chosen, admin>>

-----------------------------------------------------------------------------
(* The poll. *)

LoadPollRequest ==
    /\ poll.pc = "idle"
    /\ config.enabled /\ row.monitored /\ row.present
    /\ poll' = [IdlePoll EXCEPT !.pc = "loaded", !.address = config.address,
                                !.mode = row.mode, !.version = config.version]
    /\ UNCHANGED <<device, config, row, samples, walk, chosen, admin>>

\* The first GET holds the system values.  Two polls never meet the same hundredth.
GetSystem ==
    /\ poll.pc = "loaded"
    /\ row.uptime # Polled.uptime
    /\ poll' = [poll EXCEPT !.pc = "system", !.uptime = Polled.uptime, !.boot = Polled.boot]
    /\ UNCHANGED <<device, config, row, samples, walk, chosen, admin>>

\* A later GET holds the counters; the agent may answer it without the wide ones, or
\* without any.  Of the answer remain the counters and their width.
GetCounters ==
    /\ poll.pc = "system"
    /\ \E supported \in {Modes, {"legacy32"}, {}} :
         LET answered == RequestedModes(poll.mode, poll.version) \cap supported
         IN  poll' = [IdlePoll EXCEPT !.pc = "read", !.at = Seen,
                                      !.mode = SelectedMode(poll.mode, answered)]
    /\ UNCHANGED <<device, config, row, samples, walk, chosen, admin>>

\* A timeout, an answer without system values, or one without the interface's status.
PollFails ==
    /\ poll.pc \in {"loaded", "system", "read"}
    /\ poll' = IdlePoll
    /\ UNCHANGED <<device, config, row, samples, walk, chosen, admin>>

\* The transaction of _save_poll_values reads the row ...
SaveReads ==
    /\ poll.pc = "read"
    /\ poll' = IF config.enabled THEN [poll EXCEPT !.pc = "saving", !.loaded = row]
                                 ELSE IdlePoll
    /\ UNCHANGED <<device, config, row, samples, walk, chosen, admin>>

\* ... and writes the columns whose value differs from what it read: another's
\* change of a column that it leaves alone stays.
SameOctets(a, b) == \/ a = b
                    \/ a # None /\ b # None /\ Raw(a) = Raw(b)

Flush(computed) ==
    row' = [row EXCEPT
        !.mode = IF computed.mode = poll.loaded.mode THEN @ ELSE computed.mode,
        !.octets = IF @ = None /\ SameOctets(computed.octets, poll.loaded.octets)
                   THEN None ELSE computed.octets,
        !.uptime = IF computed.uptime = poll.loaded.uptime THEN @ ELSE computed.uptime]

SaveWithoutTraffic ==
    /\ poll.pc = "saving"
    /\ poll.mode = None
    /\ Flush(ClearRuntime(poll.loaded))
    /\ poll' = IdlePoll
    /\ UNCHANGED <<device, config, samples, walk, chosen, admin>>

\* The device and the counter are those of the reading before.
Continues(mode, old) ==
    /\ old.octets # None /\ old.uptime # None
    /\ old.mode \in {None, mode}
    /\ poll.at.uptime >= old.uptime

\* DifferencesWithinOneLife: the time is the wall clock's, and a restart goes unnoticed.
RateOfByWallClock(new, old) ==
    IF old.octets = None \/ old.mode \notin {None, new.mode} THEN None
    ELSE LET delta == CounterDelta(Raw(new), Raw(old.octets), new.mode)
         IN  IF PlausibleRate(delta, MaxUptime)
             THEN [from |-> old.octets, delta |-> NotNegative(delta), whole |-> old.mode # None]
             ELSE None

RateOf(new, old) ==
    IF ~Continues(new.mode, old) THEN None
    ELSE LET delta == CounterDelta(Raw(new), Raw(old.octets), new.mode)
         IN  IF PlausibleRate(delta, poll.at.uptime - old.uptime)
             THEN [from |-> old.octets, delta |-> NotNegative(delta), whole |-> old.mode # None]
             ELSE None

SaveTraffic ==
    /\ poll.pc = "saving"
    /\ poll.mode # None
    /\ LET new == [mode |-> poll.mode, at |-> poll.at]
           newest == [rate |-> RateOf(new, poll.loaded), reading |-> new]
           older == [samples[1] EXCEPT !.rate = None]
       IN  /\ Flush([poll.loaded EXCEPT !.mode = poll.mode, !.octets = new,
                                         !.uptime = poll.at.uptime])
           /\ samples' = IF samples = <<>> \/ newest.rate = None THEN <<newest>>
                       ELSE <<newest, older>>
    /\ poll' = IdlePoll
    /\ UNCHANGED <<device, config, walk, chosen, admin>>

-----------------------------------------------------------------------------
(* Discovery, which an administrator starts. *)

Administer == admin < MaxAdmin /\ admin' = admin + 1

\* A walk may miss the interface, or its names.
WalkInterfaces ==
    /\ walk.pc = "idle"
    /\ config.enabled
    /\ Administer
    /\ \E found \in BOOLEAN, name \in {device[config.address].name, NoName} :
         /\ ~found => name = NoName
         /\ walk' = [pc |-> "walked", found |-> found, name |-> name]
    /\ UNCHANGED <<device, config, row, samples, poll, chosen>>

DiscoveryFails ==
    /\ walk.pc # "idle"
    /\ walk' = IdleWalk
    /\ UNCHANGED <<device, config, row, samples, poll, chosen, admin>>

\* MonitoredAsChosen: the name of an interface that was missing is not compared.
IdentityChangedIfPresent(name) ==
    row.present /\ row.name # NoName /\ name # NoName /\ row.name # name

IdentityChanged(name) == row.name # NoName /\ name # NoName /\ row.name # name

SaveInterfaceInventory ==
    /\ walk.pc = "walked"
    /\ \/ /\ ~walk.found
          /\ row' = [ClearRuntime(row) EXCEPT !.present = FALSE]
          /\ UNCHANGED <<samples, chosen>>
       \/ /\ walk.found /\ ~IdentityChanged(walk.name)
          /\ row' = [row EXCEPT !.name = walk.name, !.present = TRUE]
          /\ chosen' = IF walk.name = NoName THEN NoName ELSE chosen
          /\ UNCHANGED samples
       \/ /\ walk.found /\ IdentityChanged(walk.name)
          /\ row' = [ClearRuntime(row) EXCEPT !.name = walk.name, !.present = TRUE,
                                              !.monitored = FALSE]
          /\ samples' = <<>>
          /\ UNCHANGED chosen
    /\ walk' = IdleWalk
    /\ UNCHANGED <<device, config, poll, admin>>

-----------------------------------------------------------------------------
(* The administrator's pages. *)

SelectInterface ==
    /\ Administer
    /\ row.present
    /\ row' = [ClearRuntime(row) EXCEPT !.monitored = ~@]
    /\ chosen' = row.name
    /\ UNCHANGED <<device, config, samples, poll, walk>>

ClearData ==
    /\ Administer
    /\ row' = ClearRuntime(row)
    /\ samples' = <<>>
    /\ UNCHANGED <<device, config, poll, walk, chosen>>

SaveSettings ==
    /\ Administer
    /\ \E enabled \in BOOLEAN, version \in Versions :
         config' = [config EXCEPT !.enabled = enabled, !.version = version]
    /\ config' # config
    /\ UNCHANGED <<device, row, samples, poll, walk, chosen>>

\* target_update: the counters of the former device stay in the row.
ChangeAddress ==
    /\ Administer
    /\ \E a \in Addresses \ {config.address} : config' = [config EXCEPT !.address = a]
    /\ UNCHANGED <<device, row, samples, poll, walk, chosen>>

-----------------------------------------------------------------------------
Init ==
    /\ device \in [Addresses -> [boot: {0}, name: Names, octets: {0}, uptime: {0}]]
    /\ config \in [enabled: {TRUE}, version: {"v2c"}, address: Addresses]
    /\ row = [name |-> device[config.address].name, present |-> TRUE, monitored |-> TRUE,
              mode |-> None, octets |-> None, uptime |-> None]
    /\ samples = <<>>
    /\ poll = IdlePoll
    /\ walk = IdleWalk
    /\ chosen = row.name
    /\ admin = 0

Next ==
    \/ Advance \/ \E a \in Addresses : Restart(a)
    \/ LoadPollRequest \/ GetSystem \/ GetCounters \/ PollFails
    \/ SaveReads \/ SaveWithoutTraffic \/ SaveTraffic
    \/ WalkInterfaces \/ DiscoveryFails \/ SaveInterfaceInventory
    \/ SelectInterface \/ ClearData \/ SaveSettings \/ ChangeAddress

Spec == Init /\ [][Next]_vars

-----------------------------------------------------------------------------
(* Properties. *)

\* Every variable has its type: the row, the samples and the poll of _PollRequest.
TypeOK ==
    /\ device \in [Addresses -> Device]
    /\ config \in [enabled: BOOLEAN, version: Versions, address: Addresses]
    /\ row \in Row
    /\ samples \in Seq(Sample) /\ Len(samples) <= 2
    /\ poll \in Poll
    /\ walk \in Walk
    /\ chosen \in Names \cup {NoName}
    /\ admin \in 0 .. MaxAdmin

SameLife(a, b) == a.at.life = b.at.life

\* Whether the uptime could tell the two readings apart, had it to: no restart came between
\* the GETs of the later one, and its life was younger than the former one's.
Telling(a, b) == SameLife(a, b) \/ (~b.at.torn /\ b.at.uptime < a.at.uptime)

HasRate == samples # <<>> /\ samples[1].rate # None

\* A stored rate compares two readings of one counter of one interface in one life of one
\* device, whatever restarts, changes of the address, discoveries and pages came between
\* the steps of the polls, wherever the uptime could tell: the restart, or the other device,
\* that the uptime cannot show is excepted, and so is the one rate computed from a row that
\* was cleared while a poll was saving, which holds octets and no counter mode.
RateWithinOneLife ==
    HasRate /\ samples[1].rate.whole /\ Telling(samples[1].rate.from, samples[1].reading) =>
        /\ SameLife(samples[1].rate.from, samples[1].reading)
        /\ samples[1].rate.from.mode = samples[1].reading.mode
        /\ samples[1].rate.from.at.name = samples[1].reading.at.name

\* A stored rate never counts more octets than the interface carried, with the same
\* exceptions: a legacy counter that wraps more than once between polls loses octets and
\* invents none, and neither does one that a restart set back.
RateNotOverstated ==
    HasRate /\ samples[1].rate.whole /\ Telling(samples[1].rate.from, samples[1].reading) =>
        samples[1].rate.delta <= samples[1].reading.at.octets - samples[1].rate.from.at.octets

\* The errors and discards that a threshold subtracts: _threshold_value compares the two
\* newest samples if the newest has a rate, and must not compare across a restart that the
\* uptime could tell.
ErrorDeltaWithinOneLife ==
    /\ HasRate /\ Len(samples) = 2
    /\ samples[1].reading.at.octets >= samples[2].reading.at.octets
    /\ Telling(samples[2].reading, samples[1].reading)
    => /\ SameLife(samples[2].reading, samples[1].reading)
       /\ samples[2].reading.at.name = samples[1].reading.at.name

\* Whatever is subtracted belongs together: the two readings of a rate, and the two samples
\* of a difference that a threshold is compared with.
DifferencesWithinOneLife == RateWithinOneLife /\ ErrorDeltaWithinOneLife

\* An interface is monitored under the name under which the administrator chose it,
\* though it was missing for a while: an ifIndex that comes to mean another interface
\* is no longer monitored.  A snapshot without a name erases what _save_interface_inventory
\* compares, and is excepted.
MonitoredAsChosen ==
    row.monitored /\ NoName \notin {row.name, chosen} => row.name = chosen
=============================================================================
