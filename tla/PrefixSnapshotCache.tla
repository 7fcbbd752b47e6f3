------------------------- MODULE PrefixSnapshotCache -------------------------
(***************************************************************************)
(* The tiered store of drafter snapshots (prefix_snapshot_cache.cpp) with  *)
(* its users: the drafter that captures and restores snapshots, and the    *)
(* prefix index that owns them.                                            *)
(*                                                                         *)
(* Ownership is a reference count: the index holds one reference, every    *)
(* planned step that matched the snapshot one more, and the capturing call *)
(* one until it returns. The store itself holds weak references only. A    *)
(* snapshot's contents are named by the snapshot they were captured for.   *)
(***************************************************************************)
EXTENDS Integers, Sequences, FiniteSets, SequencesExt

CONSTANTS
    Snapshots,       \* entry objects
    Components,      \* the components that share the store
    Limit,           \* Limit[t]: limits_ of tier t
    MaxEntries,      \* max_entries_
    MaxLeases,       \* bound on concurrent leases of a snapshot
    Faults,          \* whether disk and memory may fail
    Configurations   \* stores: payload sizes, limits, the bound on their clock

Vram == 0
Ram == 1
Disk == 2
Tiers == 0 .. 2

ASSUME SnapshotAssumption ==
    /\ Limit \in [Tiers -> Nat]
    /\ MaxEntries \in Nat /\ Faults \in BOOLEAN
    /\ \A c \in Configurations :
        /\ c.shapes \subseteq Nat \ {0}
        /\ c.componentLimit \in Nat /\ c.deviceResident \in BOOLEAN

VARIABLES
    config,     \* the configuration of the store
    store,      \* the store: entry[s], order (entries_), used, clock, disk_off
    indexed,    \* snapshots an endpoint of the prefix index owns
    leases,     \* leases[s]: matches of planned steps that hold s
    capturing   \* the snapshot CapturePrefix is filling, Nobody outside

vars == <<config, store, indexed, leases, capturing>>

Shapes == config.shapes                   \* payload sizes; equal ones are compatible
ComponentLimit == config.componentLimit   \* component_max_entries
DeviceResident == config.deviceResident   \* device_resident_: one tier, bounded by count
MaxClock == config.maxClock               \* bound on the recency clock

Nobody == "nobody"
Stale == "stale"

NewEntry == [state |-> "Empty", tier |-> Ram, bytes |-> 0, recency |-> 0,
             component |-> Nobody, held |-> FALSE, data |-> Stale]

Init ==
    /\ config \in Configurations
    /\ store = [entry |-> [s \in Snapshots |-> NewEntry], order |-> <<>>,
                used |-> [t \in Tiers |-> 0], clock |-> 0, disk_off |-> FALSE]
    /\ indexed = {} /\ leases = [s \in Snapshots |-> 0]
    /\ capturing = Nobody

Refs(s) == leases[s] + (IF s \in indexed THEN 1 ELSE 0)
                     + (IF s = capturing THEN 1 ELSE 0)

---------------------------------------------------------------------------
(* Storage of one entry. *)

\* A release that forgets the tier's account.
ReleaseUncounted(c, s) ==
    [c EXCEPT !.entry[s].held = FALSE, !.entry[s].data = Stale]

Release(c, s) ==
    LET e == c.entry[s] IN
    [c EXCEPT !.entry[s].held = FALSE, !.entry[s].data = Stale,
              !.used[e.tier] = IF e.held THEN @ - e.bytes ELSE @]

\* Fresh storage of a staged entry, moved into s: what it holds is unset.
AllocateStorage(c, s, t) ==
    LET freed == Release(c, s) IN
    [freed EXCEPT !.entry[s].tier = t, !.entry[s].held = TRUE,
                  !.used[t] = @ + c.entry[s].bytes]

\* A victim keeps its contents in a lower tier.
Move(c, s, t) ==
    [AllocateStorage(c, s, t) EXCEPT !.entry[s].data = c.entry[s].data]

MarkEvicted(c, s) == [Release(c, s) EXCEPT !.entry[s].state = "Evicted"]

\* Storage changes hands; the account of its tier does not move.
TakeStorage(c, s, from) ==
    [c EXCEPT !.entry[s].tier = c.entry[from].tier,
              !.entry[s].held = TRUE,
              !.entry[s].data = c.entry[from].data,
              !.entry[from].held = FALSE, !.entry[from].data = Stale,
              !.entry[from].state = "Evicted"]

Prune(c) ==
    LET Kept(s) == Refs(s) # 0 /\ c.entry[s].state # "Evicted"
    IN  [c EXCEPT !.order = SelectSeq(@, Kept)]

---------------------------------------------------------------------------
(* Victims: only the index refers to them, and they are the oldest. *)

\* A victim may be in use by a planned step.
IsTracked(c, s) == c.entry[s].state = "Resident"

IsDisposable(c, s) == Refs(s) = 1 /\ c.entry[s].state = "Resident"

Oldest(c, wanted) ==
    LET able == {s \in wanted : IsDisposable(c, s)}
    IN  IF able = {} THEN Nobody
        ELSE CHOOSE s \in able : \A x \in able : c.entry[s].recency <= c.entry[x].recency

OldestOf(c, component) ==
    Oldest(c, {s \in ToSet(c.order) : component \in {Nobody, c.entry[s].component}})

OldestIn(c, t) == Oldest(c, {s \in ToSet(c.order) : c.entry[s].tier = t})

Count(c, component) ==
    Cardinality({s \in ToSet(c.order) : /\ Refs(s) # 0
                                        /\ c.entry[s].state = "Resident"
                                        /\ c.entry[s].component = component})

EvictOldest(c, victim) == Prune(MarkEvicted(c, victim))

CanReuse(c, s, victim) ==
    /\ ~(c.entry[victim].tier = Disk /\ c.disk_off)
    /\ c.entry[victim].bytes = c.entry[s].bytes

---------------------------------------------------------------------------
(* Making room in a tier demotes or evicts its oldest snapshots. The       *)
(* result is every outcome the disk and the allocator allow: the store     *)
(* and whether there is room, or that the call threw.                      *)

Outcome(c, status) == [store |-> c, status |-> status]
DisableDisk(c) == [c EXCEPT !.disk_off = TRUE]

RECURSIVE MakeRoom(_, _, _)
RECURSIVE Demote(_, _, _)

\* Tries the tiers below in turn; the snapshot is dropped when none takes it.
Demote(c, v, t) ==
    IF t \notin Tiers THEN {Outcome(MarkEvicted(c, v), "room")}
    ELSE UNION {
        IF r.status = "threw" THEN {r}
        ELSE IF r.status = "full" THEN Demote(r.store, v, t + 1)
        ELSE {Outcome(Move(r.store, v, t), "room")}
             \cup (IF ~Faults THEN {}
                   ELSE IF t = Disk THEN Demote(DisableDisk(r.store), v, t + 1)
                   ELSE {Outcome(r.store, "threw")}) :
        r \in MakeRoom(c, t, c.entry[v].bytes)}

HasRoom(c, t, bytes) == bytes <= Limit[t] - c.used[t]

MakeRoom(c, t, bytes) ==
    IF (t = Disk /\ c.disk_off) \/ bytes > Limit[t] THEN {Outcome(c, "full")}
    ELSE IF HasRoom(c, t, bytes) THEN {Outcome(c, "room")}
    ELSE IF OldestIn(c, t) = Nobody THEN {Outcome(c, "full")}
    ELSE UNION {IF r.status = "threw" THEN {r} ELSE MakeRoom(r.store, t, bytes) :
                r \in Demote(c, OldestIn(c, t), t + 1)}

---------------------------------------------------------------------------
(* Allocate. *)

Publish(c, s, component) ==
    [c EXCEPT !.entry[s].component = component,
              !.entry[s].state = "Resident",
              !.entry[s].recency = c.clock + 1, !.clock = @ + 1,
              !.order = Append(@, s)]

\* The first tier from t on that has room or can make some.
RECURSIVE Place(_, _, _, _)
Place(c, s, component, t) ==
    IF t \notin Tiers THEN {Outcome(c, "refused")}
    ELSE UNION {
        IF r.status = "threw" THEN {r}
        ELSE IF r.status = "full" THEN Place(r.store, s, component, t + 1)
        ELSE {Outcome(Publish(AllocateStorage(r.store, s, t), s, component), "published")}
             \cup (IF ~Faults THEN {}
                   ELSE {Outcome(IF t = Disk THEN DisableDisk(r.store) ELSE r.store, "threw")}) :
        r \in IF DeviceResident THEN {Outcome(c, "room")}
              ELSE MakeRoom(c, t, c.entry[s].bytes)}

\* Count limits come first: the component's own, then the shared one.
RECURSIVE Admit(_, _, _)
Admit(c, s, component) ==
    LET scope == IF Count(c, component) >= ComponentLimit THEN component
                 ELSE Nobody
        crowded == scope # Nobody \/ Len(c.order) >= MaxEntries
        victim == OldestOf(c, scope)
    IN  IF ~crowded THEN Place(c, s, component, Vram)
        ELSE IF victim = Nobody THEN {Outcome(c, "refused")}
        ELSE IF CanReuse(c, s, victim)
        THEN {Outcome(Publish(Prune(TakeStorage(c, s, victim)), s, component), "published")}
        ELSE Admit(EvictOldest(c, victim), s, component)

Allocate(c, s, component) ==
    IF \/ MaxEntries = 0 \/ ComponentLimit = 0
       \/ ~DeviceResident /\ \A t \in Tiers : Limit[t] < c.entry[s].bytes
    THEN {Outcome(c, "refused")}
    ELSE Admit(Prune(c), s, component)

---------------------------------------------------------------------------
(* The users. *)

\* The last reference is gone: the entry object dies with its storage.
Destroy(c, s) == [Release(c, s) EXCEPT !.entry[s] = NewEntry,
                                       !.order = SelectSeq(@, LAMBDA x : x # s)]

\* CapturePrefix makes an entry and asks for storage. A refusal and a failure
\* both drop the entry.
Capture(s) ==
    /\ capturing = Nobody /\ Refs(s) = 0 /\ store.clock < MaxClock
    /\ \E bytes \in Shapes, component \in Components :
        \E r \in Allocate([store EXCEPT !.entry[s].bytes = bytes], s, component) :
            /\ store' = IF r.status = "published" THEN r.store ELSE Destroy(r.store, s)
            /\ capturing' = IF r.status = "published" THEN s ELSE Nobody
    /\ UNCHANGED <<indexed, leases>>

\* The payload is copied, and the snapshot is attached to its endpoint; the
\* index may refuse it, and then it dies. A snapshot that was evicted makes
\* way for the new one at the same endpoint.
Write ==
    /\ capturing # Nobody
    /\ store' = [store EXCEPT !.entry[capturing].data = capturing]
    /\ indexed' = indexed \cup {capturing}
    /\ capturing' = Nobody
    /\ UNCHANGED leases

WriteFails ==
    /\ capturing # Nobody
    /\ store' = Destroy(store, capturing)
    /\ capturing' = Nobody
    /\ UNCHANGED <<indexed, leases>>

\* A match of a plan takes a reference, unless the snapshot is evicted.
Lease(s) ==
    /\ capturing = Nobody /\ s \in indexed
    /\ store.entry[s].state # "Evicted" /\ leases[s] < MaxLeases
    /\ leases' = [leases EXCEPT ![s] = @ + 1]
    /\ UNCHANGED <<store, indexed, capturing>>

\* The plan ends; the object dies with its last reference.
Unlease(s) ==
    /\ capturing = Nobody /\ leases[s] > 0
    /\ leases' = [leases EXCEPT ![s] = @ - 1]
    /\ store' = IF Refs(s) = 1 THEN Destroy(store, s) ELSE store
    /\ UNCHANGED <<indexed, capturing>>

\* The endpoint loses its snapshot: unleased, or evicted and replaced.
DropFromIndex(s) ==
    /\ capturing = Nobody /\ s \in indexed
    /\ leases[s] = 0 \/ store.entry[s].state = "Evicted"
    /\ indexed' = indexed \ {s}
    /\ store' = IF Refs(s) = 1 THEN Destroy(store, s) ELSE store
    /\ UNCHANGED <<leases, capturing>>

\* Touch finds the snapshot among the tracked ones.
Touch(c, s) ==
    IF s \in ToSet(c.order)
    THEN [c EXCEPT !.entry[s].recency = c.clock + 1, !.clock = @ + 1]
    ELSE c

Discard(c, s) == IF s \in ToSet(c.order) THEN MarkEvicted(c, s) ELSE c

\* RestorePrefix reads a leased snapshot and refreshes it. A read error means
\* that nobody will be able to read it: it is discarded, leased or not.
Restore(s) ==
    /\ capturing = Nobody /\ leases[s] > 0
    /\ store.entry[s].state = "Resident" /\ store.clock < MaxClock
    /\ \/ store' = Touch(store, s)
       \/ Faults /\ store.entry[s].tier = Disk /\ store' = Discard(store, s)
    /\ UNCHANGED <<indexed, leases, capturing>>

Steps ==
    \/ \E s \in Snapshots : \/ Capture(s) \/ Lease(s) \/ Unlease(s)
                            \/ DropFromIndex(s) \/ Restore(s)
    \/ Write \/ WriteFails

Next == Steps /\ UNCHANGED config

Spec == Init /\ [][Next]_vars

---------------------------------------------------------------------------
(* Properties. *)

Holding(t) == {s \in Snapshots : store.entry[s].held /\ store.entry[s].tier = t}

TypeOK ==
    /\ \A s \in Snapshots :
        /\ store.entry[s].state \in {"Empty", "Resident", "Evicted"}
        /\ store.entry[s].tier \in Tiers
        /\ store.entry[s].bytes \in Shapes \cup {0}
        /\ store.entry[s].recency \in 0 .. MaxClock
    /\ store.used \in [Tiers -> Nat] /\ IsInjective(store.order)
    /\ indexed \subseteq Snapshots /\ leases \in [Snapshots -> 0 .. MaxLeases]

\* Each tier's account is the sum of the payloads that are really in it,
\* although storage is demoted, taken over by a younger snapshot, released by
\* an eviction and released again by the destructor (Release, TakeStorage,
\* AllocateStorage, Move).
AccountsAreExact ==
    \A t \in Tiers :
        store.used[t] = FoldSet(LAMBDA s, n : n + store.entry[s].bytes, 0, Holding(t))

\* The budgets hold: bytes per tier, and snapshots in all and per component,
\* whatever is leased and however the demotions cascade (MakeRoom, Allocate).
WithinBudgets ==
    LET resident == {s \in Snapshots : store.entry[s].state = "Resident"} IN
    /\ ~DeviceResident => \A t \in Tiers : store.used[t] <= Limit[t]
    /\ Cardinality(resident) <= MaxEntries
    /\ \A k \in Components :
        Cardinality({s \in resident : store.entry[s].component = k}) <= ComponentLimit

\* The accounts are exact and no demotion, take-over or failure lets them pass
\* their budgets.
AccountsAreSound == AccountsAreExact /\ WithinBudgets

\* What a match can restore is the payload that was captured for it, never a
\* remnant of the snapshot whose storage it took over or of a failed move; a
\* snapshot without storage is never offered (ReuseOldest, Move, Capture).
OffersOwnPayload ==
    \A s \in indexed : store.entry[s].state = "Resident" =>
        store.entry[s].held /\ store.entry[s].data = s

\* Making room never touches a snapshot that a planned step holds; only its
\* own failed read discards it (EvictOldest, ReuseOldest, MakeRoom).
LeasedStay ==
    [][\A s \in Snapshots :
          leases[s] > 0 /\ leases'[s] > 0 /\ store.entry[s].state = "Resident" =>
            \/ /\ store.entry'[s].state = "Resident"
               /\ store.entry'[s].tier = store.entry[s].tier
               /\ store.entry'[s].data = store.entry[s].data
            \/ store.entry'[s].state = "Evicted" /\ store.entry[s].tier = Disk
               /\ capturing = Nobody /\ capturing' = Nobody]_vars

=============================================================================
