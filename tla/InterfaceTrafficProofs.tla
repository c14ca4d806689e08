------------------------ MODULE InterfaceTrafficProofs ------------------------
(***************************************************************************)
(* The traffic of an interface for every modulus, speed and set of         *)
(* devices, with restarts and changes of the address anywhere.             *)
(* The argument: octets, counter mode and uptime of a row are those of one *)
(* reading, although they are flushed column by column; of two readings of *)
(* one life the later counts at least as much; and the newest sample is    *)
(* the reading of the row.                                                 *)
(***************************************************************************)
EXTENDS InterfaceTraffic, TLAPS

-----------------------------------------------------------------------------
(* Counters that wrap. *)

\* Division with remainder.
LEMMA Remainder ==
    ASSUME NEW a \in Nat, NEW m \in Nat \ {0}
    PROVE  /\ a % m \in 0 .. m - 1 /\ a \div m \in Nat
           /\ a = m * (a \div m) + (a % m)
  <1>1. a % m \in 0 .. m - 1 /\ a \div m \in Int
    OBVIOUS
  <1>2. a = (a \div m) * m + (a % m)
    BY SMT
  <1> DEFINE q == a \div m
             r == a % m
  <1> HIDE DEF q, r
  <1>3. q \in Int /\ r \in 0 .. m - 1 /\ a = q * m + r
    BY <1>1, <1>2 DEF q, r
  <1>4. q * m = m * q
    BY <1>3
  <1>5. q >= 0
    <2> SUFFICES ASSUME q <= -1 PROVE FALSE
      BY <1>3
    <2>1. q * m <= -1 * m
      BY <1>3
    <2> QED
      BY <1>3, <2>1
  <1>6. q \in Nat /\ a = m * q + r
    BY <1>3, <1>4, <1>5
  <1> QED
    BY <1>3, <1>6, Zenon DEF q, r

\* The difference of two values of a counter that has not wrapped between them, or has
\* wrapped once, is no more than it counted, however often it wrapped.
LEMMA WrappedDifference ==
    ASSUME NEW old \in Nat, NEW new \in Nat, old <= new, NEW m \in Nat \ {0}
    PROVE  /\ (new % m) - (old % m) <= new - old
           /\ new % m < old % m => m - (old % m) + (new % m) <= new - old
  <1> DEFINE p == old \div m
             q == new \div m
             r == old % m
             s == new % m
  <1>1. /\ r \in 0 .. m - 1 /\ s \in 0 .. m - 1 /\ p \in Nat /\ q \in Nat
        /\ old = m * p + r /\ new = m * q + s
    BY Remainder
  <1> HIDE DEF p, q, r, s
  <1>2. p <= q
    <2> SUFFICES ASSUME q < p PROVE FALSE
      BY <1>1
    <2>1. q + 1 <= p
      BY <1>1
    <2>2. m * (q + 1) <= m * p
      BY <1>1, <2>1
    <2>3. m * (q + 1) = m * q + m
      BY <1>1
    <2>4. m * p \in Nat /\ m * q \in Nat
      BY <1>1
    <2> QED
      BY <1>1, <2>2, <2>3, <2>4
  <1>3. m * p <= m * q /\ m * p \in Nat /\ m * q \in Nat
    BY <1>1, <1>2
  <1>4. s - r <= new - old
    BY <1>1, <1>3
  <1>5. ASSUME s < r PROVE m - r + s <= new - old
    <2>1. p # q
      BY <1>1, <1>5
    <2>2. p + 1 <= q
      BY <1>1, <1>2, <2>1
    <2>3. m * (p + 1) <= m * q
      BY <1>1, <2>2
    <2>4. m * (p + 1) = m * p + m
      BY <1>1
    <2> QED
      BY <1>1, <1>3, <2>3, <2>4
  <1> QED
    BY <1>4, <1>5, Zenon DEF r, s
-----------------------------------------------------------------------------
(* The invariant. *)

\* What a device showed, in its present life or in an earlier one.
Fresh(g) ==
    LET d == device[g.life.address]
    IN  /\ g.life.boot <= d.boot
        /\ g.life.boot = d.boot => g.name = d.name /\ g.octets <= d.octets

\* The octets, the uptime and the counter mode of a row go together.
Sound(r) == r.octets # None =>
              /\ Fresh(r.octets.at) /\ r.uptime = r.octets.at.uptime
              /\ r.mode # None => r.octets.mode = r.mode

\* What a poll has read so far, and that it is not the uptime of the reading before.
PollIsSound ==
    /\ poll.pc \in {"loaded", "system"} => poll.address \in Addresses
    /\ poll.pc = "system" => row.uptime # poll.uptime
    /\ poll.pc \in {"read", "saving"} =>
         poll.at \in Glimpse /\ Fresh(poll.at) /\ row.uptime # poll.at.uptime

\* Of two readings of one life the later counts more, and of the same interface.
Follows(a, b) == a.life = b.life => a.name = b.name /\ a.octets <= b.octets

Before(r) == r.octets # None => Follows(r.octets.at, poll.at)

Newest(r) == r.octets # None => samples # <<>> /\ samples[1].reading = r.octets

RowIsSound ==
    /\ Sound(row)
    /\ poll.pc \in {"read", "saving"} => Before(row)
    /\ Newest(row)

\* The row that a save has read may be cleared since, and is else what it was.
LoadedIsSound ==
    poll.pc = "saving" =>
        /\ poll.loaded \in Row /\ Sound(poll.loaded) /\ Before(poll.loaded)
        /\ poll.loaded.uptime # poll.at.uptime
        /\ row.mode \in {None, poll.loaded.mode}
        /\ samples # <<>> => Newest(poll.loaded)

\* A rate is taken only where the uptime went on, and counts what one life counted.
RateIsSound ==
    HasRate =>
        LET from == samples[1].rate.from  reading == samples[1].reading IN
        /\ reading.at.uptime >= from.at.uptime
        /\ SameLife(from, reading) => from.at.name = reading.at.name
        /\ samples[1].rate.whole => from.mode = reading.mode
        /\ samples[1].rate.whole /\ SameLife(from, reading) =>
             samples[1].rate.delta <= reading.at.octets - from.at.octets
        /\ Len(samples) = 2 => samples[2].reading = from

TInv == TypeOK /\ PollIsSound /\ RowIsSound /\ LoadedIsSound /\ RateIsSound

-----------------------------------------------------------------------------
(* The row. *)

LEMMA Cleared ==
    ASSUME NEW r \in Row
    PROVE  /\ ClearRuntime(r) \in Row
           /\ ClearRuntime(r).name = r.name /\ ClearRuntime(r).present = r.present
           /\ ClearRuntime(r).monitored = r.monitored
           /\ ClearRuntime(r).mode = None /\ ClearRuntime(r).octets = None
           /\ ClearRuntime(r).uptime = None
  BY DEF ClearRuntime, Row

LEMMA Flushed ==
    ASSUME row \in Row, NEW c \in Row, Flush(c)
    PROVE  /\ row' \in Row
           /\ row'.name = row.name /\ row'.monitored = row.monitored
           /\ row'.mode = IF c.mode = poll.loaded.mode THEN row.mode ELSE c.mode
           /\ row'.octets \in {None, c.octets}
           /\ row'.uptime = IF c.uptime = poll.loaded.uptime THEN row.uptime ELSE c.uptime
  <1> DEFINE m == IF c.mode = poll.loaded.mode THEN row.mode ELSE c.mode
             o == IF row.octets = None /\ SameOctets(c.octets, poll.loaded.octets)
                  THEN None ELSE c.octets
             u == IF c.uptime = poll.loaded.uptime THEN row.uptime ELSE c.uptime
  <1>1. row' = [row EXCEPT !.mode = m, !.octets = o, !.uptime = u]
    BY DEF Flush
  <1>2. o \in {None, c.octets}
    OBVIOUS
  <1>3. /\ m \in Modes \cup {None} /\ o \in Reading \cup {None}
        /\ u \in 0 .. MaxUptime \cup {None}
    BY DEF Row
  <1> HIDE DEF m, o, u
  <1>4. row'.mode = m /\ row'.octets = o /\ row'.uptime = u
    BY <1>1 DEF Row
  <1>5. row' \in Row /\ row'.name = row.name /\ row'.monitored = row.monitored
    BY <1>1, <1>3 DEF Row
  <1> QED
    BY <1>2, <1>4, <1>5 DEF m, u

LEMMA IdlePollIsPoll == IdlePoll \in Poll /\ IdlePoll.pc = "idle"
  BY BoundsAssumption DEF IdlePoll, Poll, Versions, Modes

LEMMA IdleWalkIsWalk == IdleWalk \in Walk
  BY DEF IdleWalk, Walk

LEMMA NoSamples == <<>> \in Seq(Sample) /\ Len(<<>>) = 0
  OBVIOUS

LEMMA Initial == Init => TInv
  <1> SUFFICES ASSUME Init PROVE TInv
    OBVIOUS
  <1>5. device \in [Addresses -> Device]
    <2>1. [boot: {0}, name: Names, octets: {0}, uptime: {0}] \subseteq Device
      BY BoundsAssumption DEF Device
    <2> QED
      BY <2>1 DEF Init
  <1>6. config \in [enabled: BOOLEAN, version: Versions, address: Addresses]
    BY DEF Init, Versions
  <1>1. device[config.address].name \in Names
    BY <1>5, <1>6 DEF Device
  <1>4. row \in Row /\ row.name \in Names
    BY <1>1 DEF Init, Row
  <1>2. TypeOK
    BY <1>5, <1>6, <1>4, IdlePollIsPoll, IdleWalkIsWalk, NoSamples, BoundsAssumption DEF Init, TypeOK, Versions
  <1>3. row.octets = None /\ samples = <<>> /\ poll.pc = "idle"
    BY IdlePollIsPoll DEF Init
  <1> QED
    BY <1>2, <1>3 DEF TInv, PollIsSound, RowIsSound, LoadedIsSound, RateIsSound, HasRate,
                      Sound, Newest
-----------------------------------------------------------------------------
(* Steps beside the save of a poll. *)

\* The row keeps its counters.
LEMMA CountersStay ==
    ASSUME TInv, TypeOK', UNCHANGED <<device, poll, samples>>,
           row'.octets = row.octets, row'.mode = row.mode, row'.uptime = row.uptime
    PROVE  TInv'
  <1>1. PollIsSound' /\ RateIsSound'
    BY DEF TInv, PollIsSound, RateIsSound, HasRate, Fresh, SameLife
  <1>2. RowIsSound' /\ LoadedIsSound'
    BY DEF TInv, RowIsSound, LoadedIsSound, Sound, Fresh, Before, Follows, Newest
  <1> QED
    BY <1>1, <1>2 DEF TInv

\* The row loses its counters, and the samples may go with them.
LEMMA CountersGo ==
    ASSUME TInv, TypeOK', UNCHANGED <<device, poll>>, row'.octets = None, row'.mode = None,
           row'.uptime = None, samples' = samples \/ samples' = <<>>
    PROVE  TInv'
  <1>4. poll.uptime # None /\ (poll.at \in Glimpse => poll.at.uptime # None)
    BY NoneAssumption DEF TInv, TypeOK, Poll, Glimpse
  <1>1. PollIsSound' /\ RateIsSound'
    BY <1>4 DEF TInv, PollIsSound, RateIsSound, HasRate, Fresh, SameLife
  <1>2. RowIsSound'
    BY DEF RowIsSound, Sound, Before, Newest
  <1>3. LoadedIsSound'
    BY DEF TInv, LoadedIsSound, Sound, Fresh, Before, Follows, Newest
  <1> QED
    BY <1>1, <1>2, <1>3 DEF TInv

\* What the devices showed stays as it was, when they count on or restart.
LEMMA DevicesKeep ==
    ASSUME TInv, UNCHANGED <<config, row, samples, poll, walk, chosen, admin>>,
           device' \in [Addresses -> Device],
           \A g \in Glimpse : Fresh(g) => Fresh(g)'
    PROVE  TInv'
  <1>1. \A r \in Row : Sound(r) => Sound(r)'
    BY DEF Sound, Row, Reading
  <1>2. TypeOK'
    BY DEF TInv, TypeOK
  <1>3. PollIsSound' /\ RateIsSound'
    BY DEF TInv, PollIsSound, RateIsSound, HasRate, SameLife
  <1>4. RowIsSound' /\ LoadedIsSound'
    BY <1>1 DEF TInv, TypeOK, RowIsSound, LoadedIsSound, Before, Follows, Newest
  <1> QED
    BY <1>2, <1>3, <1>4 DEF TInv

LEMMA AdvanceKeeps ==
    ASSUME TInv, Advance
    PROVE  TInv'
  <1>1. device \in [Addresses -> Device]
    BY DEF TInv, TypeOK
  <1>2. PICK n \in [Addresses -> 0 .. Speed] :
          /\ device' = [a \in Addresses |-> [device[a] EXCEPT !.uptime = @ + 1,
                                                           !.octets = @ + n[a]]]
          /\ \A a, b \in Addresses :
               device'[a].octets + (IF a = b THEN 0 ELSE device'[b].octets) <= MaxOctets
    BY DEF Advance
  <1>3. ASSUME NEW a \in Addresses
        PROVE  /\ device'[a] \in Device /\ device'[a].boot = device[a].boot
               /\ device'[a].name = device[a].name /\ device'[a].octets >= device[a].octets
    <2>1. /\ device'[a] = [device[a] EXCEPT !.uptime = @ + 1, !.octets = @ + n[a]]
          /\ device[a] \in Device
      BY <1>1, <1>2
    <2>6. n[a] \in Nat
      <3>1. n[a] \in 0 .. Speed
        OBVIOUS
      <3> QED
        BY <3>1, CounterAssumption
    <2>2. device'[a].octets = device[a].octets + n[a] /\ n[a] \in Nat
      BY <2>1, <2>6 DEF Device
    <2>3. device'[a].octets + 0 <= MaxOctets
      BY <1>2
    <2>4. device[a].octets + n[a] \in 0 .. MaxOctets /\ device[a].octets + n[a] >= device[a].octets
      BY <2>1, <2>2, <2>3, BoundsAssumption DEF Device
    <2>5. device[a].uptime + 1 \in 0 .. MaxUptime
      <3>1. device[a].uptime < MaxUptime
        BY DEF Advance
      <3>2. device[a].uptime \in 0 .. MaxUptime
        BY <2>1 DEF Device
      <3> QED
        BY <3>1, <3>2, BoundsAssumption
    <2> QED
      BY <2>1, <2>4, <2>5 DEF Device
  <1>4. device' \in [Addresses -> Device]
    BY <1>2, <1>3
  <1>5. ASSUME NEW g \in Glimpse, Fresh(g) PROVE Fresh(g)'
    <2>1. g.life.address \in Addresses /\ g.octets \in Nat
      BY BoundsAssumption DEF Glimpse, Life
    <2>2. device[g.life.address] \in Device /\ device'[g.life.address] \in Device
      BY <1>1, <1>4, <2>1
    <2> QED
      BY <1>3, <1>5, <2>1, <2>2, BoundsAssumption DEF Fresh, Device
  <1> QED
    BY <1>4, <1>5, DevicesKeep DEF Advance

LEMMA RestartKeeps ==
    ASSUME TInv, NEW a \in Addresses, Restart(a)
    PROVE  TInv'
  <1>1. device \in [Addresses -> Device]
    BY DEF TInv, TypeOK
  <1>2. PICK name \in Names :
          device' = [device EXCEPT ![a] = [boot |-> @.boot + 1, name |-> name,
                                           octets |-> 0, uptime |-> 0]]
    BY DEF Restart
  <1>3. device'[a] \in Device /\ device'[a].boot = device[a].boot + 1
    <2>1. device[a].boot + 1 \in 0 .. MaxBoots /\ 0 \in 0 .. MaxOctets /\ 0 \in 0 .. MaxUptime
      BY <1>1, BoundsAssumption DEF Restart, Device
    <2> QED
      BY <1>1, <1>2, <2>1 DEF Device
  <1>4. device' \in [Addresses -> Device] /\ \A b \in Addresses : b # a => device'[b] = device[b]
    BY <1>1, <1>2, <1>3
  <1>5. ASSUME NEW g \in Glimpse, Fresh(g) PROVE Fresh(g)'
    <2>1. g.life.address \in Addresses /\ g.life.boot \in Nat
      BY BoundsAssumption DEF Glimpse, Life
    <2>2. device[a].boot \in Nat
      BY <1>1, BoundsAssumption DEF Device
    <2>3. CASE g.life.address = a
      BY <1>3, <1>5, <2>1, <2>2, <2>3 DEF Fresh
    <2>4. CASE g.life.address # a
      BY <1>4, <1>5, <2>1, <2>4 DEF Fresh
    <2> QED
      BY <2>3, <2>4
  <1> QED
    BY <1>4, <1>5, DevicesKeep DEF Restart

\* The steps of a poll up to its save.
LEMMA PollKeeps ==
    ASSUME TInv, LoadPollRequest \/ GetSystem \/ GetCounters \/ PollFails \/ SaveReads
    PROVE  TInv'
  <1>1. UNCHANGED <<device, config, row, samples, walk, chosen, admin>>
    BY DEF LoadPollRequest, GetSystem, GetCounters, PollFails, SaveReads
  <1>2. device \in [Addresses -> Device] /\ row \in Row /\ poll \in Poll
    BY DEF TInv, TypeOK
  <1>3. ASSUME poll' \in Poll PROVE TypeOK'
    BY <1>1, <1>3 DEF TInv, TypeOK
  <1>4. RateIsSound' /\ (Sound(row) /\ Newest(row))'
    BY <1>1 DEF TInv, RateIsSound, HasRate, SameLife, RowIsSound, Sound, Fresh, Newest
  <1>5. CASE LoadPollRequest
    <2>1. config \in [enabled : BOOLEAN, version : Versions, address : Addresses]
      BY DEF TInv, TypeOK
    <2>2. poll' \in Poll /\ poll'.pc = "loaded" /\ poll'.address = config.address
      BY <1>2, <1>5, <2>1, IdlePollIsPoll DEF LoadPollRequest, Poll, Row
    <2> QED
      BY <1>3, <1>4, <2>1, <2>2 DEF TInv, PollIsSound, RowIsSound, LoadedIsSound
  <1>6. CASE GetSystem
    <2>1. poll.address \in Addresses /\ Polled \in Device
      BY <1>2, <1>6 DEF GetSystem, TInv, PollIsSound, Polled
    <2>2. /\ poll' \in Poll /\ poll'.pc = "system" /\ poll'.address = poll.address
          /\ poll'.uptime = Polled.uptime
      BY <1>2, <1>6, <2>1 DEF GetSystem, Poll, Device
    <2> QED
      BY <1>1, <1>3, <1>4, <1>6, <2>1, <2>2
         DEF GetSystem, TInv, PollIsSound, RowIsSound, LoadedIsSound
  <1>7. CASE GetCounters
    <2>1. PICK mode \in Modes \cup {None} :
            poll' = [IdlePoll EXCEPT !.pc = "read", !.at = Seen, !.mode = mode]
      <3>1. \A v, w : SelectedMode(v, w) \in Modes \cup {None}
        BY DEF SelectedMode, Modes
      <3> QED
        BY <1>7, <3>1 DEF GetCounters
    <2>2. poll.address \in Addresses /\ Polled \in Device /\ Polled = device[poll.address]
          /\ poll.uptime \in 0 .. MaxUptime /\ row.uptime # poll.uptime
      BY <1>2, <1>7 DEF GetCounters, TInv, PollIsSound, Polled, Poll
    <2>3. Seen \in Glimpse /\ Fresh(Seen) /\ Seen.uptime = poll.uptime
      <3>1. /\ Seen.life = [address |-> poll.address, boot |-> Polled.boot]
            /\ Seen.name = Polled.name /\ Seen.octets = Polled.octets
            /\ Seen.uptime = poll.uptime
        BY DEF Seen
      <3>2. Seen \in Glimpse
        BY <2>2 DEF Seen, Glimpse, Life, Device
      <3>3. Fresh(Seen)
        BY <2>2, <3>1, BoundsAssumption DEF Fresh, Device
      <3> QED
        BY <3>1, <3>2, <3>3
    <2>4. poll' \in Poll /\ poll'.pc = "read" /\ poll'.at = Seen
      <3> HIDE DEF Seen
      <3> QED
        BY <2>1, <2>3, IdlePollIsPoll DEF Poll
    <2>5. PollIsSound'
      BY <1>1, <2>2, <2>3, <2>4 DEF PollIsSound, Fresh
    <2>6. RowIsSound'
      <3>1. row.octets # None => Follows(row.octets.at, Seen)
        BY <2>2 DEF TInv, RowIsSound, Sound, Fresh, Follows, Seen
      <3> QED
        BY <1>1, <1>4, <2>4, <3>1 DEF RowIsSound, Before, Follows
    <2> QED
      BY <1>3, <1>4, <2>4, <2>5, <2>6 DEF TInv, LoadedIsSound
  <1>8. CASE poll' = IdlePoll
    BY <1>3, <1>4, <1>8, IdlePollIsPoll DEF TInv, PollIsSound, RowIsSound, LoadedIsSound
  <1>9. CASE SaveReads /\ poll' # IdlePoll
    <2>1. /\ poll' = [poll EXCEPT !.pc = "saving", !.loaded = row] /\ poll.pc = "read"
      BY <1>9 DEF SaveReads
    <2>2. /\ poll' \in Poll /\ poll'.pc = "saving" /\ poll'.loaded = row
          /\ poll'.at = poll.at
      BY <1>2, <2>1 DEF Poll
    <2>3. PollIsSound'
      BY <1>1, <2>1, <2>2 DEF TInv, PollIsSound, Fresh
    <2>4. RowIsSound'
      BY <1>1, <1>4, <2>1, <2>2 DEF TInv, RowIsSound, Before
    <2>5. LoadedIsSound'
      <3>1. /\ Sound(row) /\ Before(row) /\ Newest(row) /\ row.uptime # poll.at.uptime
        BY <2>1 DEF TInv, RowIsSound, PollIsSound
      <3> QED
        BY <1>1, <1>2, <2>2, <3>1 DEF LoadedIsSound, Sound, Fresh, Before, Follows, Newest
    <2> QED
      BY <1>3, <1>4, <2>2, <2>3, <2>4, <2>5 DEF TInv
  <1> QED
    BY <1>5, <1>6, <1>7, <1>8, <1>9 DEF PollFails
-----------------------------------------------------------------------------
\* Discovery and the administrator's pages, between any two steps of a poll.
LEMMA PagesKeep ==
    ASSUME TInv, \/ WalkInterfaces \/ DiscoveryFails \/ SaveInterfaceInventory
                 \/ SelectInterface \/ ClearData \/ SaveSettings \/ ChangeAddress
    PROVE  TInv'
  <1>1. /\ row \in Row /\ admin \in 0 .. MaxAdmin /\ config.address \in Addresses
        /\ device[config.address].name \in Names
    BY DEF TInv, TypeOK, Device
  <1>2. Administer => admin' \in 0 .. MaxAdmin
    BY <1>1, BoundsAssumption DEF Administer
  <1>3. CASE WalkInterfaces
    <2>1. walk' \in Walk
      BY <1>1, <1>3 DEF WalkInterfaces, Walk
    <2> QED
      BY <1>2, <1>3, <2>1, CountersStay DEF WalkInterfaces, TInv, TypeOK
  <1>4. CASE DiscoveryFails
    BY <1>4, IdleWalkIsWalk, CountersStay DEF DiscoveryFails, TInv, TypeOK
  <1>5. CASE SaveInterfaceInventory
    <2>1. UNCHANGED <<device, config, poll, admin>> /\ walk' \in Walk
      BY <1>5, IdleWalkIsWalk DEF SaveInterfaceInventory
    <2>2. walk.name \in Names \cup {NoName}
      BY DEF TInv, TypeOK, Walk
    <2>3. CASE ~walk.found
      <3>1. /\ row' = [ClearRuntime(row) EXCEPT !.present = FALSE]
            /\ UNCHANGED <<samples, chosen>>
        BY <1>5, <2>3 DEF SaveInterfaceInventory
      <3>2. row' \in Row /\ row'.octets = None /\ row'.mode = None /\ row'.uptime = None
        BY <1>1, <3>1, Cleared DEF Row
      <3> QED
        BY <2>1, <3>1, <3>2, CountersGo DEF TInv, TypeOK
    <2>4. CASE walk.found /\ ~IdentityChanged(walk.name)
      <3>1. /\ row' = [row EXCEPT !.name = walk.name, !.present = TRUE]
            /\ chosen' \in {NoName, chosen} /\ samples' = samples
        BY <1>5, <2>4 DEF SaveInterfaceInventory
      <3>2. /\ row' \in Row /\ row'.octets = row.octets /\ row'.mode = row.mode
            /\ row'.uptime = row.uptime
        BY <1>1, <2>2, <3>1 DEF Row
      <3> QED
        BY <2>1, <3>1, <3>2, CountersStay DEF TInv, TypeOK
    <2>5. CASE walk.found /\ IdentityChanged(walk.name)
      <3>1. /\ row' = [ClearRuntime(row) EXCEPT !.name = walk.name, !.present = TRUE,
                                                !.monitored = FALSE]
            /\ samples' = <<>> /\ chosen' = chosen
        BY <1>5, <2>5 DEF SaveInterfaceInventory
      <3>2. row' \in Row /\ row'.octets = None /\ row'.mode = None /\ row'.uptime = None
        BY <1>1, <2>2, <3>1, Cleared DEF Row
      <3> QED
        BY <2>1, <3>1, <3>2, NoSamples, CountersGo DEF TInv, TypeOK
    <2> QED
      BY <2>3, <2>4, <2>5
  <1>6. CASE SelectInterface
    <2>1. row' = [ClearRuntime(row) EXCEPT !.monitored = ~@]
      BY <1>6 DEF SelectInterface
    <2>2. /\ row' \in Row /\ row'.octets = None /\ row'.mode = None /\ row'.uptime = None
          /\ row.name \in Names \cup {NoName}
      BY <1>1, <2>1, Cleared DEF Row
    <2> QED
      BY <1>2, <1>6, <2>2, CountersGo DEF SelectInterface, TInv, TypeOK
  <1>7. CASE ClearData
    <2>1. row' \in Row /\ row'.octets = None /\ row'.mode = None /\ row'.uptime = None
      BY <1>1, <1>7, Cleared DEF ClearData
    <2> QED
      BY <1>2, <1>7, <2>1, NoSamples, CountersGo DEF ClearData, TInv, TypeOK
  <1>8. CASE SaveSettings
    <2>1. config' \in [enabled : BOOLEAN, version : Versions, address : Addresses]
      BY <1>8 DEF SaveSettings, TInv, TypeOK
    <2> QED
      BY <1>2, <1>8, <2>1, CountersStay DEF SaveSettings, TInv, TypeOK
  <1>9. CASE ChangeAddress
    <2>1. config' \in [enabled : BOOLEAN, version : Versions, address : Addresses]
      BY <1>9 DEF ChangeAddress, TInv, TypeOK
    <2> QED
      BY <1>2, <1>9, <2>1, CountersStay DEF ChangeAddress, TInv, TypeOK
  <1> QED
    BY <1>3, <1>4, <1>5, <1>6, <1>7, <1>8, <1>9

-----------------------------------------------------------------------------
(* The save. *)

LEMMA SaveWithoutTrafficKeeps ==
    ASSUME TInv, SaveWithoutTraffic
    PROVE  TInv'
  <1> DEFINE c == ClearRuntime(poll.loaded)
  <1>1. /\ UNCHANGED <<device, config, samples, walk, chosen, admin>>
        /\ poll.pc = "saving" /\ Flush(c) /\ poll' = IdlePoll
    BY DEF SaveWithoutTraffic
  <1>2. row \in Row /\ poll.loaded \in Row
    BY <1>1 DEF TInv, TypeOK, LoadedIsSound
  <1>3. c \in Row /\ c.octets = None
    BY <1>2, Cleared
  <1> HIDE DEF c
  <1>4. row' \in Row /\ row'.octets = None
    BY <1>1, <1>2, <1>3, Flushed
  <1>5. TypeOK'
    BY <1>1, <1>4, IdlePollIsPoll DEF TInv, TypeOK
  <1>6. RowIsSound'
    BY <1>1, <1>4, IdlePollIsPoll DEF RowIsSound, Sound, Newest
  <1>7. PollIsSound' /\ LoadedIsSound' /\ RateIsSound'
    BY <1>1, IdlePollIsPoll DEF TInv, PollIsSound, LoadedIsSound, RateIsSound, HasRate
  <1> QED
    BY <1>5, <1>6, <1>7 DEF TInv

\* The two values of a counter in one life of the device.
LEMMA DeltaIsCounted ==
    ASSUME NEW a \in Reading, NEW b \in Reading, a.mode = b.mode, a.at.octets <= b.at.octets,
           CounterDelta(Raw(b), Raw(a), b.mode) # None
    PROVE  CounterDelta(Raw(b), Raw(a), b.mode) <= b.at.octets - a.at.octets
  <1>1. a.at.octets \in Nat /\ b.at.octets \in Nat
    BY BoundsAssumption DEF Reading, Glimpse
  <1>2. CASE b.mode = "hc64"
    BY <1>1, <1>2 DEF CounterDelta, Raw
  <1>3. CASE b.mode = "legacy32"
    <2> DEFINE r == a.at.octets % Modulus
               s == b.at.octets % Modulus
    <2>1. /\ s - r <= b.at.octets - a.at.octets
          /\ s < r => Modulus - r + s <= b.at.octets - a.at.octets
      BY <1>1, CounterAssumption, WrappedDifference
    <2>2. Raw(a) = r /\ Raw(b) = s
      BY <1>3 DEF Raw
    <2>3. r \in Nat /\ s \in Nat
      BY <1>1, CounterAssumption
    <2> HIDE DEF r, s
    <2> QED
      BY <1>3, <2>1, <2>2, <2>3 DEF CounterDelta
  <1> QED
    BY <1>2, <1>3 DEF Reading, Modes

LEMMA RawIsNatural == ASSUME NEW a \in Reading PROVE Raw(a) \in Nat
  <1>1. a.at.octets \in Nat
    BY BoundsAssumption DEF Reading, Glimpse
  <1>2. a.at.octets % Modulus \in Nat
    BY <1>1, CounterAssumption
  <1> QED
    BY <1>1, <1>2 DEF Raw

\* A rate that a save computes.
LEMMA RateOfProperties ==
    ASSUME TInv, poll.pc = "saving", NEW mode \in Modes, NEW new,
           new = [mode |-> mode, at |-> poll.at], RateOf(new, poll.loaded) # None
    PROVE  /\ RateOf(new, poll.loaded) \in Rate
           /\ RateOf(new, poll.loaded).from = poll.loaded.octets
           /\ poll.loaded.octets # None
           /\ poll.at.uptime >= poll.loaded.octets.at.uptime
           /\ poll.loaded.octets.at.life = poll.at.life =>
                poll.loaded.octets.at.name = poll.at.name
           /\ RateOf(new, poll.loaded).whole =>
                /\ poll.loaded.octets.mode = mode
                /\ poll.loaded.octets.at.life = poll.at.life =>
                     RateOf(new, poll.loaded).delta
                       <= poll.at.octets - poll.loaded.octets.at.octets
  <1> DEFINE old == poll.loaded
             delta == CounterDelta(Raw(new), Raw(old.octets), new.mode)
             whole == old.mode # None
             same == old.octets.at.life = poll.at.life
  <1>1. old \in Row /\ Sound(old) /\ Before(old) /\ poll.at \in Glimpse
    BY DEF TInv, LoadedIsSound, PollIsSound
  <1>2. /\ Continues(new.mode, old) /\ delta # None
        /\ RateOf(new, old) = [from |-> old.octets, delta |-> NotNegative(delta), whole |-> whole]
    BY DEF RateOf, PlausibleRate
  <1>3. new.mode = mode /\ new \in Reading /\ new.at = poll.at
    BY <1>1 DEF Reading
  <1>4. /\ old.octets # None /\ old.octets \in Reading
        /\ old.mode \in {None, mode} /\ poll.at.uptime >= old.uptime
    BY <1>1, <1>2, <1>3 DEF Continues, Row
  <1>5. poll.at.uptime >= old.octets.at.uptime
    BY <1>1, <1>4 DEF Sound
  <1>6. same => old.octets.at.name = poll.at.name /\ old.octets.at.octets <= poll.at.octets
    BY <1>1, <1>4 DEF Before, Follows
  <1>7. delta \in Int
    <2>1. Raw(new) \in Nat /\ Raw(old.octets) \in Nat
      BY <1>3, <1>4, RawIsNatural
    <2> QED
      BY <1>2, <2>1, CounterAssumption DEF CounterDelta
  <1>8. whole => old.octets.mode = mode
    BY <1>1, <1>4 DEF Sound
  <1>9. whole /\ same => delta <= poll.at.octets - old.octets.at.octets
    <2> SUFFICES ASSUME old.mode # None, same
                 PROVE  delta <= poll.at.octets - old.octets.at.octets
      OBVIOUS
    <2> HIDE DEF same
    <2> QED
      BY <1>2, <1>3, <1>4, <1>6, <1>8, DeltaIsCounted
  <1>10. same => poll.at.octets - old.octets.at.octets \in Nat
    BY <1>1, <1>4, <1>6, BoundsAssumption DEF Reading, Glimpse
  <1>11. poll.at.octets \in Nat /\ old.octets.at.octets \in Nat /\ whole \in BOOLEAN
    BY <1>1, <1>4, BoundsAssumption DEF Reading, Glimpse
  <1> HIDE DEF whole, delta
  <1>12. /\ NotNegative(delta) \in Nat
         /\ whole /\ same => NotNegative(delta) <= poll.at.octets - old.octets.at.octets
    BY <1>7, <1>9, <1>10, <1>11 DEF NotNegative
  <1>13. RateOf(new, old) \in Rate /\ RateOf(new, old).from = old.octets
    BY <1>2, <1>4, <1>11, <1>12 DEF Rate
  <1>14. RateOf(new, old).whole = whole /\ RateOf(new, old).delta = NotNegative(delta)
    BY <1>2
  <1> QED
    BY <1>4, <1>5, <1>6, <1>8, <1>12, <1>13, <1>14

LEMMA SaveTrafficKeeps ==
    ASSUME TInv, SaveTraffic
    PROVE  TInv'
  <1> DEFINE new == [mode |-> poll.mode, at |-> poll.at]
             rate == RateOf(new, poll.loaded)
             newest == [rate |-> rate, reading |-> new]
             older == [samples[1] EXCEPT !.rate = None]
             c == [poll.loaded EXCEPT !.mode = poll.mode, !.octets = new,
                                      !.uptime = poll.at.uptime]
  <1>1. /\ UNCHANGED <<device, config, walk, chosen, admin>>
        /\ poll.pc = "saving" /\ poll.mode # None /\ Flush(c) /\ poll' = IdlePoll
        /\ samples' = IF samples = <<>> \/ newest.rate = None THEN <<newest>>
                     ELSE <<newest, older>>
    BY DEF SaveTraffic
  <1>2. /\ row \in Row /\ poll.loaded \in Row /\ poll.at \in Glimpse /\ Fresh(poll.at)
        /\ row.mode \in {None, poll.loaded.mode} /\ poll.loaded.uptime # poll.at.uptime
    BY <1>1 DEF TInv, TypeOK, LoadedIsSound, PollIsSound
  <1>3. poll.mode \in Modes /\ poll.at.uptime \in 0 .. MaxUptime
    BY <1>1, <1>2 DEF TInv, TypeOK, Poll, Glimpse
  <1>4. new \in Reading /\ new.mode = poll.mode /\ new.at = poll.at
    BY <1>2, <1>3 DEF Reading
  <1>5. rate # None =>
          /\ rate \in Rate /\ rate.from = poll.loaded.octets /\ poll.loaded.octets # None
          /\ new.at.uptime >= rate.from.at.uptime
          /\ SameLife(rate.from, new) => rate.from.at.name = new.at.name
          /\ rate.whole =>
               /\ rate.from.mode = new.mode
               /\ SameLife(rate.from, new) =>
                    rate.delta <= new.at.octets - rate.from.at.octets
    <2> HIDE DEF new
    <2> QED
      BY <1>1, <1>3, <1>4, RateOfProperties DEF SameLife, new
  <1>6. c \in Row /\ c.mode = poll.mode /\ c.octets = new /\ c.uptime = poll.at.uptime
    <2> HIDE DEF new
    <2> QED
      BY <1>2, <1>3, <1>4 DEF Row
  <1> HIDE DEF new, rate, c
  <1>7. newest \in Sample /\ newest.rate = rate /\ newest.reading = new
    BY <1>4, <1>5 DEF Sample
  <1>8. samples # <<>> => older \in Sample /\ older.reading = samples[1].reading
    <2>1. samples # <<>> => samples[1] \in Sample
      <3>1. samples \in Seq(Sample)
        BY DEF TInv, TypeOK
      <3> QED
        BY <3>1
    <2> QED
      BY <2>1 DEF Sample
  <1> HIDE DEF newest, older
  <1>9. /\ samples' \in Seq(Sample) /\ Len(samples') <= 2 /\ samples' # <<>>
        /\ samples'[1] = newest
        /\ Len(samples') = 2 => samples # <<>> /\ samples'[2] = older
    BY <1>1, <1>7, <1>8
  <1>10. /\ row' \in Row
         /\ row'.mode = IF c.mode = poll.loaded.mode THEN row.mode ELSE c.mode
         /\ row'.octets \in {None, c.octets}
         /\ row'.uptime = IF c.uptime = poll.loaded.uptime THEN row.uptime ELSE c.uptime
    BY <1>1, <1>2, <1>6, Flushed
  <1>11. TypeOK'
    BY <1>1, <1>9, <1>10, IdlePollIsPoll DEF TInv, TypeOK
  <1>12. PollIsSound' /\ LoadedIsSound'
    BY <1>1, IdlePollIsPoll DEF PollIsSound, LoadedIsSound
  <1>13. RowIsSound'
    <2>1. row'.octets # None => row'.octets = new
      BY <1>6, <1>10
    <2>2. row'.mode \in {None, poll.mode} /\ row'.uptime = poll.at.uptime
      BY <1>2, <1>6, <1>10
    <2>4. Sound(row)'
      BY <1>1, <1>2, <1>4, <2>1, <2>2 DEF Sound, Fresh
    <2>6. Newest(row)'
      BY <1>7, <1>9, <2>1 DEF Newest
    <2> QED
      BY <1>1, <2>4, <2>6, IdlePollIsPoll DEF RowIsSound
  <1>14. RateIsSound'
    <2> SUFFICES ASSUME HasRate'
                 PROVE  /\ new.at.uptime >= rate.from.at.uptime
                        /\ SameLife(rate.from, new) => rate.from.at.name = new.at.name
                        /\ rate.whole => rate.from.mode = new.mode
                        /\ rate.whole /\ SameLife(rate.from, new) =>
                             rate.delta <= new.at.octets - rate.from.at.octets
                        /\ Len(samples') = 2 => samples'[2].reading = rate.from
      BY <1>7, <1>9 DEF RateIsSound, SameLife
    <2>1. rate # None
      BY <1>7, <1>9 DEF HasRate
    <2>2. Len(samples') = 2 => samples'[2].reading = poll.loaded.octets
      BY <1>1, <1>5, <1>8, <1>9, <2>1 DEF TInv, LoadedIsSound, Newest
    <2> QED
      BY <1>5, <2>1, <2>2
  <1> QED
    BY <1>11, <1>12, <1>13, <1>14 DEF TInv

LEMMA Inductive == TInv /\ [Next]_vars => TInv'
  <1> SUFFICES ASSUME TInv, [Next]_vars PROVE TInv'
    OBVIOUS
  <1>1. CASE UNCHANGED vars
    BY <1>1, CountersStay DEF vars, TInv, TypeOK
  <1>2. CASE \E a \in Addresses : Restart(a)
    BY <1>2, RestartKeeps
  <1> QED
    BY <1>1, <1>2, AdvanceKeeps, PollKeeps, PagesKeep, SaveWithoutTrafficKeeps,
       SaveTrafficKeeps DEF Next

LEMMA Consequences == TInv => DifferencesWithinOneLife /\ RateNotOverstated
  <1> SUFFICES ASSUME TInv PROVE DifferencesWithinOneLife /\ RateNotOverstated
    OBVIOUS
  <1>1. ASSUME HasRate
        PROVE  /\ samples[1].reading.at.uptime \in Nat
               /\ samples[1].rate.from.at.uptime \in Nat
    <2>1. samples[1] \in Sample
      <3>1. samples \in Seq(Sample) /\ samples # <<>>
        BY <1>1 DEF TInv, TypeOK, HasRate
      <3> QED
        BY <3>1
    <2> QED
      BY <1>1, <2>1, BoundsAssumption DEF HasRate, Sample, Rate, Reading, Glimpse
  <1>2. ASSUME HasRate, Telling(samples[1].rate.from, samples[1].reading)
        PROVE  SameLife(samples[1].rate.from, samples[1].reading)
    BY <1>1, <1>2 DEF TInv, RateIsSound, Telling
  <1>3. RateWithinOneLife /\ RateNotOverstated
    BY <1>2 DEF TInv, RateIsSound, RateWithinOneLife, RateNotOverstated
  <1>4. ErrorDeltaWithinOneLife
    BY <1>2 DEF TInv, RateIsSound, ErrorDeltaWithinOneLife
  <1> QED
    BY <1>3, <1>4 DEF DifferencesWithinOneLife

\* Row, samples, poll and walk keep their types, whatever the devices count.
THEOREM TypeCorrect == Spec => []TypeOK
  <1>1. TInv /\ [Next]_vars => TInv'
    BY Inductive
  <1>2. TInv => TypeOK
    BY DEF TInv
  <1> QED
    BY Initial, <1>1, <1>2, PTL DEF Spec

\* Whatever is subtracted is of one life of one device and of one interface, wherever the
\* uptime could tell the readings apart: the two readings of a rate, and the two samples
\* whose errors and discards a threshold compares.
THEOREM DifferencesAreOfOneLife == Spec => []DifferencesWithinOneLife
  <1>1. TInv /\ [Next]_vars => TInv'
    BY Inductive
  <1>2. TInv => DifferencesWithinOneLife
    BY Consequences
  <1> QED
    BY Initial, <1>1, <1>2, PTL DEF Spec

\* There a rate counts no more octets than the interface carried, for every modulus of the
\* legacy counter, however often it wrapped or was set back.
THEOREM RatesAreCounted == Spec => []RateNotOverstated
  <1>1. TInv /\ [Next]_vars => TInv'
    BY Inductive
  <1>2. TInv => RateNotOverstated
    BY Consequences
  <1> QED
    BY Initial, <1>1, <1>2, PTL DEF Spec

-----------------------------------------------------------------------------
(* What is monitored. *)

RowShape ==
    row = [name |-> row.name, present |-> row.present, monitored |-> row.monitored,
           mode |-> row.mode, octets |-> row.octets, uptime |-> row.uptime]

\* Monitoring stays under the name of the choice; a snapshot without one ends the choice.
ChosenName == row.monitored /\ chosen # NoName => row.name = chosen

LEMMA ChosenInductive == RowShape /\ ChosenName /\ [Next]_vars => RowShape' /\ ChosenName'
  <1> SUFFICES ASSUME RowShape, ChosenName, [Next]_vars PROVE RowShape' /\ ChosenName'
    OBVIOUS
  <1>1. CASE row' = row /\ chosen' = chosen
    BY <1>1 DEF RowShape, ChosenName
  <1>2. ASSUME NEW c, Flush(c), chosen' = chosen PROVE RowShape' /\ ChosenName'
    BY <1>2 DEF Flush, RowShape, ChosenName
  <1>3. CASE SelectInterface
    BY <1>3 DEF SelectInterface, ClearRuntime, RowShape, ChosenName
  <1>4. CASE ClearData
    BY <1>4 DEF ClearData, ClearRuntime, RowShape, ChosenName
  <1>5. CASE SaveInterfaceInventory
    BY <1>5 DEF SaveInterfaceInventory, IdentityChanged, ClearRuntime, RowShape, ChosenName
  <1> QED
    BY <1>1, <1>2, <1>3, <1>4, <1>5
       DEF Next, vars, Advance, Restart, LoadPollRequest, GetSystem, GetCounters, PollFails,
           SaveReads, SaveWithoutTraffic, SaveTraffic, WalkInterfaces, DiscoveryFails, SaveSettings,
           ChangeAddress

\* An interface is monitored under the name under which it was chosen, whatever restarts,
\* renumberings, discoveries and polls come in any order; a snapshot without a name, which
\* erases what the inventory compares, is excepted.
THEOREM MonitoringFollowsTheName == Spec => []MonitoredAsChosen
  <1>1. Init => RowShape /\ ChosenName
    BY DEF Init, RowShape, ChosenName
  <1>2. ChosenName => MonitoredAsChosen
    BY DEF ChosenName, MonitoredAsChosen
  <1> QED
    BY <1>1, <1>2, ChosenInductive, PTL DEF Spec
=============================================================================
