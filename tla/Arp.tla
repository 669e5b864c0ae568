-------------------------------- MODULE Arp --------------------------------
(***************************************************************************)
(* The ARP cache and the frames parked behind it (net/arp.c).              *)
(*                                                                         *)
(* A frame for a host whose hardware address is not known is parked in one *)
(* of a few slots, and the host is asked for.  An answer fills the entry   *)
(* and sends the parked frames; arp_tick, run by the driver poll task,     *)
(* asks again, gives up, and expires old entries.  Entries and slots are   *)
(* reused when they run out.                                               *)
(*                                                                         *)
(* Everything here runs in tasks of the boot processor and does not sleep, *)
(* so an operation is one step.  The network is outside: a request may be  *)
(* lost, and an answer may come late, twice, for nobody, or never, which   *)
(* is arp_input from any host at any time.  Time is relative: an entry has *)
(* the time left to its deadline, a parked frame the time since it was     *)
(* queued, both counted in units of the retry interval.                    *)
(***************************************************************************)
EXTENDS Integers, FiniteSets

CONSTANTS Hosts,               \* IPv4 addresses
          Macs,
          MacsOf,              \* the addresses each host may claim
          NoHost, NoMac,
          ARP_CACHE_ENTRIES,
          ARP_PENDING_SLOTS,
          ARP_ENTRY_TTL,       \* in units of ARP_RETRY_MS
          ARP_MAX_RETRIES,
          MaxAge               \* ages are not told apart beyond this

ASSUME ArpAssumption == /\ MacsOf \in [Hosts -> SUBSET Macs]
                        /\ ARP_CACHE_ENTRIES \in Nat \ {0}
                        /\ ARP_PENDING_SLOTS \in Nat \ {0}
                        /\ ARP_ENTRY_TTL \in Nat \ {0}
                        /\ ARP_MAX_RETRIES \in Nat
                        /\ MaxAge \in Nat

Entries == 0 .. ARP_CACHE_ENTRIES - 1
Slots == 0 .. ARP_PENDING_SLOTS - 1
ARP_RETRY == 1

VARIABLES
    cache,           \* arp.cache
    pending,         \* arp.pending; to is the address in the parked frame
    sent             \* observer: <<host, address>> of the frames just sent

arpVars == <<cache, pending, sent>>

FreeEntry == [state |-> "free", ip |-> NoHost, mac |-> NoMac, retries |-> 0, left |-> 0]
FreeSlot == [in_use |-> FALSE, entry |-> 0, to |-> NoHost, age |-> 0]

ArpInit ==
    /\ cache = [i \in Entries |-> FreeEntry]
    /\ pending = [s \in Slots |-> FreeSlot]
    /\ sent = {}

-----------------------------------------------------------------------------
(* Operators on the cache and the slots *)

arp_find_locked(c, h) == {i \in Entries : c[i].state # "free" /\ c[i].ip = h}

arp_drop_pending_locked(p, i) ==
    [s \in Slots |-> IF p[s].in_use /\ p[s].entry = i THEN FreeSlot ELSE p[s]]

\* The first free entry, otherwise one that is closest to its deadline.
arp_alloc_locked(c) ==
    LET free == {i \in Entries : c[i].state = "free"}
    IN  IF free # {}
        THEN {i \in free : \A j \in free : i <= j}
        ELSE {i \in Entries : \A j \in Entries : c[i].left <= c[j].left}

\* The first free slot, otherwise one whose frame has waited longest.
arp_pending_alloc_locked(p) ==
    LET free == {s \in Slots : ~ p[s].in_use}
    IN  IF free # {}
        THEN {s \in free : \A r \in free : s <= r}
        ELSE {s \in Slots : \A r \in Slots : p[s].age >= p[r].age}

Parked(i, h) == [in_use |-> TRUE, entry |-> i, to |-> h, age |-> 0]

Asked(h) == [state |-> "pending", ip |-> h, mac |-> NoMac, retries |-> 0,
             left |-> ARP_RETRY]

Learned(h, m) == [state |-> "valid", ip |-> h, mac |-> m, retries |-> 0,
                  left |-> ARP_ENTRY_TTL]

-----------------------------------------------------------------------------
(* Operations *)

\* A frame for h: sent when the entry is valid, parked otherwise.
arp_send_resolved(h) ==
    /\ \E i \in arp_find_locked(cache, h) :
          /\ cache[i].state = "valid"
          /\ sent' = {<<h, cache[i].mac>>}
    /\ UNCHANGED <<cache, pending>>

arp_send_queue(h) ==
    /\ \E i \in arp_find_locked(cache, h) :
          /\ cache[i].state # "valid"
          /\ \E s \in arp_pending_alloc_locked(pending) :
                pending' = [pending EXCEPT ![s] = Parked(i, h)]
    /\ sent' = {}
    /\ UNCHANGED cache

arp_send_ask(h) ==
    /\ arp_find_locked(cache, h) = {}
    /\ \E i \in arp_alloc_locked(cache) :
          LET p == arp_drop_pending_locked(pending, i)
          IN  /\ cache' = [cache EXCEPT ![i] = Asked(h)]
              /\ \E s \in arp_pending_alloc_locked(p) :
                    pending' = [p EXCEPT ![s] = Parked(i, h)]
    /\ sent' = {}

\* Every frame behind entry i leaves for address m.
arp_flush_pending(p, i, m) ==
    /\ sent' = {<<p[s].to, m>> : s \in {r \in Slots : p[r].in_use /\ p[r].entry = i}}
    /\ pending' = arp_drop_pending_locked(p, i)

\* arp_learn for the sender of a packet: an entry of its own is refreshed, a
\* new one is made only when the packet was addressed to us.
arp_learn_known(h, m) ==
    /\ \E i \in arp_find_locked(cache, h) :
          /\ cache' = [cache EXCEPT ![i] = Learned(h, m)]
          /\ arp_flush_pending(pending, i, m)

\* Faulty variant: an entry is reused for another host under the frames parked
\* behind it.
LearnKeepsPending(h, m) ==
    /\ arp_find_locked(cache, h) = {}
    /\ \E i \in arp_alloc_locked(cache) :
          /\ cache' = [cache EXCEPT ![i] = Learned(h, m)]
          /\ arp_flush_pending(pending, i, m)

arp_learn_new(h, m) ==
    /\ arp_find_locked(cache, h) = {}
    /\ \E i \in arp_alloc_locked(cache) :
          /\ cache' = [cache EXCEPT ![i] = Learned(h, m)]
          /\ arp_flush_pending(arp_drop_pending_locked(pending, i), i, m)

\* arp_tick: entries past their deadline.
Due(i) == cache[i].state # "free" /\ cache[i].left = 0
GivenUp(i) == Due(i) /\ cache[i].state = "pending" /\ cache[i].retries >= ARP_MAX_RETRIES

\* Faulty variant: the retries are not counted.
ForgetsRetries(i) ==
    IF ~ Due(i) THEN cache[i]
    ELSE IF cache[i].state = "valid" THEN [cache[i] EXCEPT !.state = "free"]
    ELSE IF GivenUp(i) THEN FreeEntry
    ELSE [cache[i] EXCEPT !.left = ARP_RETRY]

Ticked(i) ==
    IF ~ Due(i) THEN cache[i]
    ELSE IF cache[i].state = "valid" THEN [cache[i] EXCEPT !.state = "free"]
    ELSE IF GivenUp(i) THEN FreeEntry
    ELSE [cache[i] EXCEPT !.retries = @ + 1, !.left = ARP_RETRY]

arp_tick ==
    /\ \E i \in Entries : Due(i)
    /\ cache' = [i \in Entries |-> Ticked(i)]
    /\ pending' = [s \in Slots |-> IF pending[s].in_use /\ GivenUp(pending[s].entry)
                                   THEN FreeSlot ELSE pending[s]]
    /\ sent' = {}

\* A retry interval passes.
time_passes ==
    /\ cache' = [i \in Entries |-> [cache[i] EXCEPT !.left = IF @ > 0 THEN @ - 1 ELSE 0]]
    /\ pending' = [s \in Slots |->
                     IF pending[s].in_use /\ pending[s].age < MaxAge
                     THEN [pending[s] EXCEPT !.age = @ + 1] ELSE pending[s]]
    /\ sent' = {}

arp_send_or_queue(h) == arp_send_resolved(h) \/ arp_send_queue(h) \/ arp_send_ask(h)

arp_input(h, m) == arp_learn_known(h, m) \/ arp_learn_new(h, m)

ArpNext ==
    \/ \E h \in Hosts : arp_send_or_queue(h)
    \/ \E h \in Hosts : \E m \in MacsOf[h] : arp_input(h, m)
    \/ arp_tick
    \/ time_passes

ArpSpec == ArpInit /\ [][ArpNext]_arpVars

-----------------------------------------------------------------------------
(* Properties *)

ArpTypeOK ==
    /\ cache \in [Entries -> [state : {"free", "pending", "valid"},
                              ip : Hosts \cup {NoHost}, mac : Macs \cup {NoMac},
                              retries : Nat, left : Nat]]
    /\ pending \in [Slots -> [in_use : BOOLEAN, entry : Entries,
                              to : Hosts \cup {NoHost}, age : Nat]]
    /\ sent \in SUBSET (Hosts \X Macs)

\* A host has at most one entry, so an answer finds the entry its frames are
\* parked behind.
OneEntryPerHost ==
    \A i, j \in Entries :
        cache[i].state # "free" /\ cache[j].state # "free" /\ cache[i].ip = cache[j].ip
            => i = j

\* A parked frame waits behind an entry that is still being asked for, and for
\* its own destination, however often entries have been reused.
ParkedBehindOwnEntry ==
    \A s \in Slots :
        pending[s].in_use =>
            /\ cache[pending[s].entry].state = "pending"
            /\ cache[pending[s].entry].ip = pending[s].to

\* A frame only ever leaves for an address that its destination has claimed.
SentWhereClaimed ==
    \A x \in sent : x[2] \in MacsOf[x[1]]

\* A frame handed to arp_send reaches its own host or nobody.
FramesFindHost ==
    ArpTypeOK /\ OneEntryPerHost /\ ParkedBehindOwnEntry /\ SentWhereClaimed

\* A parked frame leaves its slot: it is sent, given up with its host, or makes
\* room for a younger one.
FramesLeave ==
    \A s \in Slots : []<>(~pending[s].in_use \/ pending[s].age = 0)
=============================================================================
