--------------------------- MODULE FixedStatePool ---------------------------
(***************************************************************************)
(* The pool of fixed-size decoder state (convolution and recurrent rows)   *)
(* of a hybrid model, as operations on one record p:                       *)
(*                                                                         *)
(*   slot[s]     owner and counters of slot s                              *)
(*   bank[s][b]  what the slot's row of persistent bank b physically holds *)
(*   index[r]    the committed slot of request r                           *)
(*   input, output, update   the staging rows of the one live reservation  *)
(*   replay      the compact-update replays PrepareCommit deferred         *)
(*   ckpt[c]     the rows of the prefix checkpoint bank                    *)
(*   healthy, live   the pool's health, and its single-reservation lock    *)
(*                                                                         *)
(* and on the rows of a reservation v. A state row is modelled by the      *)
(* token sequence it was computed from: <<>> is the zero row, Garbage a    *)
(* row nobody may read. Running a step appends its tokens; replaying k     *)
(* captured updates appends the first k of them.                           *)
(* The append-only indexer keys that share one buffer between both banks   *)
(* are not modelled: every tensor here has two banks.                      *)
(***************************************************************************)
EXTENDS Integers, Sequences, FiniteSets, SequencesExt

CONSTANTS
    Requests,            \* request identities
    Capacity,            \* slots of the pool
    CheckpointCapacity   \* rows of the checkpoint bank

ASSUME PoolAssumption ==
    /\ Capacity \in Nat \ {0}
    /\ CheckpointCapacity \in Nat

Slots == 0 .. Capacity - 1
Checkpoints == 1 .. CheckpointCapacity
Banks == {0, 1}
NoSlot == -1
Nobody == "nobody"
NoCheckpoint == [row |-> 0, generation |-> 0, count |-> 0]
Garbage == <<-1>>
ZeroRow == <<>>

Other(b) == 1 - b

FreeSlot(generation, bank) ==
    [request |-> Nobody, generation |-> generation, state_generation |-> 0,
     committed_tokens |-> 0, active_bank |-> bank, ownership |-> "Free"]

\* Persistent banks are not zeroed: a commit writes a bank before it shows.
\* views is device->SupportsOffsetTensorViews().
EmptyPool(views) ==
    [slot    |-> [s \in Slots |-> FreeSlot(0, 0)],
     bank    |-> [s \in Slots |-> [b \in Banks |-> Garbage]],
     index   |-> [r \in Requests |-> NoSlot],
     input   |-> <<>>,
     output  |-> <<>>,
     update  |-> <<>>,
     replay  |-> {},
     ckpt    |-> [c \in Checkpoints |-> [generation |-> 0, count |-> 0,
                                         occupied |-> FALSE, row |-> Garbage]],
     healthy |-> TRUE,
     live    |-> FALSE,
     views   |-> views]

AvailableSlots(p) == Cardinality({s \in Slots : p.slot[s].ownership = "Free"})
CommittedSlotCount(p) == Cardinality({r \in Requests : p.index[r] # NoSlot})
OwnsCommittedSlot(p, r) == p.index[r] # NoSlot
CommittedTokens(p, r) == p.slot[p.index[r]].committed_tokens

---------------------------------------------------------------------------
(* Deferred replay. A descriptor names the row, the bank it publishes and  *)
(* how many captured updates it keeps; its source is the step's own input, *)
(* which a direct binding left in the slot's other bank.                   *)

ReplayedRow(p, d) ==
    (IF d.direct THEN p.bank[d.slot][Other(d.bank)] ELSE p.input[d.row])
        \o SubSeq(p.update[d.row], 1, d.kept)

ReplayOf(replay, s, b) == CHOOSE d \in replay : d.slot = s /\ d.bank = b

FlushDeferredReplay(p) ==
    [p EXCEPT
        !.bank = [s \in Slots |-> [b \in Banks |->
            IF \E d \in p.replay : d.slot = s /\ d.bank = b
            THEN ReplayedRow(p, ReplayOf(p.replay, s, b)) ELSE p.bank[s][b]]],
        !.replay = {}]

\* The launch fails: banks that are already published stay unwritten.
FlushFailed(p) == [p EXCEPT !.replay = {}, !.healthy = FALSE]

\* What a reader of the slot sees: every reader is issued behind the replay.
VisibleRow(p, s) == FlushDeferredReplay(p).bank[s][p.slot[s].active_bank]

---------------------------------------------------------------------------
(* Reserve. A request of the batch is [request, target, capture, ckpt].    *)

ValidCheckpoint(p, h) ==
    /\ h.row \in Checkpoints
    /\ p.ckpt[h.row].occupied
    /\ p.ckpt[h.row].generation = h.generation
    /\ p.ckpt[h.row].count = h.count

FreeSlots(p) == {s \in Slots : p.slot[s].ownership = "Free"}

NewRow(r, s, generation, provisional, expected, q) ==
    [request |-> r, slot |-> s, generation |-> generation,
     provisional |-> provisional, expected |-> expected, target |-> q.target,
     capture |-> q.capture, ckpt |-> q.ckpt, step |-> 0, kept |-> 0]

\* The k-th lowest free slot.
FreeSlotAt(p, k) ==
    CHOOSE s \in FreeSlots(p) : Cardinality({t \in FreeSlots(p) : t < s}) = k - 1

\* Host-only planning: residents keep their slot, the others take the
\* lowest free slots in batch order.
PlanRows(p, reqs) ==
    LET IsNew(i) == ~OwnsCommittedSlot(p, reqs[i].request)
        Rank(i) == Cardinality({j \in 1 .. i : IsNew(j)})
    IN  [i \in 1 .. Len(reqs) |->
            LET q == reqs[i]
                s == IF IsNew(i) THEN FreeSlotAt(p, Rank(i)) ELSE p.index[q.request]
            IN  IF IsNew(i)
                THEN NewRow(q.request, s, p.slot[s].generation + 1, TRUE, 0, q)
                ELSE NewRow(q.request, s, p.slot[s].generation, FALSE,
                            p.slot[s].state_generation, q)]

\* The slots the rows hold, and the row of a slot or of a request: no two
\* rows share one.
SlotsOf(rows) == {rows[i].slot : i \in DOMAIN rows}
RowAt(rows, s) == CHOOSE i \in DOMAIN rows : rows[i].slot = s
RowOf(rows, r) == CHOOSE i \in DOMAIN rows : rows[i].request = r

\* What Reserve refuses. None of it is expected of the engine's plans.
ReserveAccepts(p, reqs) ==
    LET new == {i \in DOMAIN reqs : ~OwnsCommittedSlot(p, reqs[i].request)} IN
    /\ p.healthy /\ ~p.live
    /\ Len(reqs) \in 1 .. Capacity
    /\ \A i, j \in DOMAIN reqs : reqs[i].request = reqs[j].request => i = j
    /\ Cardinality(new) <= AvailableSlots(p)
    /\ \A i \in DOMAIN reqs : reqs[i].ckpt # NoCheckpoint =>
            /\ ValidCheckpoint(p, reqs[i].ckpt)
            /\ reqs[i].ckpt.count < reqs[i].target
            /\ i \in new

\* A contiguous run of residents binds its banks directly.
IsDirect(p, rows) ==
    /\ p.views
    /\ \A i \in DOMAIN rows : /\ ~rows[i].provisional
                              /\ rows[i].slot = rows[1].slot + i - 1

ResidentBanks(p, rows) ==
    {p.slot[rows[i].slot].active_bank : i \in {j \in DOMAIN rows : ~rows[j].provisional}}

\* New rows start on the bank their resident cohort agrees on, else on 0.
ProvisionalBank(p, rows) ==
    IF Cardinality(ResidentBanks(p, rows)) = 1
    THEN CHOOSE b \in ResidentBanks(p, rows) : TRUE
    ELSE 0

\* The bank most rows of a direct batch are on; the first row breaks a tie.
DirectBank(p, rows) ==
    LET On(b) == Cardinality({i \in DOMAIN rows : p.slot[rows[i].slot].active_bank = b})
    IN  IF On(1) > On(0) THEN 1 ELSE IF On(0) > On(1) THEN 0
        ELSE p.slot[rows[1].slot].active_bank

\* A normalisation that changes the selector and copies nothing.
NormalizeWithoutCopy(p, rows) ==
    LET b == DirectBank(p, rows) IN
    [p EXCEPT !.slot = [s \in Slots |->
        IF s \in SlotsOf(rows)
        THEN [p.slot[s] EXCEPT !.active_bank = b] ELSE p.slot[s]]]

\* Minority rows move to the common bank: the copy lands before the flip.
Normalize(p, rows) ==
    LET b == DirectBank(p, rows) IN
    [p EXCEPT
        !.bank = [s \in Slots |->
            IF s \in SlotsOf(rows)
            THEN [p.bank[s] EXCEPT ![b] = p.bank[s][p.slot[s].active_bank]]
            ELSE p.bank[s]],
        !.slot = [s \in Slots |->
            IF s \in SlotsOf(rows) THEN [p.slot[s] EXCEPT !.active_bank = b] ELSE p.slot[s]]]

\* The gathered inputs: a checkpoint row, the zero row or the visible row.
GatheredInput(p, rows) ==
    [i \in DOMAIN rows |->
        IF ~rows[i].provisional
        THEN p.bank[rows[i].slot][p.slot[rows[i].slot].active_bank]
        ELSE IF rows[i].ckpt # NoCheckpoint THEN p.ckpt[rows[i].ckpt.row].row
        ELSE ZeroRow]

\* Provisional ownership is published last, once the gather is complete.
PublishProvisional(p, rows) ==
    [p EXCEPT
        !.slot = [s \in Slots |->
            LET row == rows[RowAt(rows, s)] IN
            IF s \in SlotsOf(rows) /\ row.provisional
            THEN [request |-> row.request, generation |-> row.generation,
                  state_generation |-> 0, committed_tokens |-> row.ckpt.count,
                  active_bank |-> ProvisionalBank(p, rows), ownership |-> "Reserved"]
            ELSE p.slot[s]],
        !.live = TRUE]

Reserve(p, reqs) ==
    LET flushed == FlushDeferredReplay(p)
        rows == PlanRows(flushed, reqs)
        direct == IsDirect(p, rows)
        bound == IF direct THEN Normalize(flushed, rows)
                 ELSE [flushed EXCEPT !.input = GatheredInput(flushed, rows)]
    IN  [pool |-> PublishProvisional(bound, rows),
         res  |-> [rows |-> rows, direct |-> direct, state |-> "Reserved",
                   captures |-> \E i \in DOMAIN rows : rows[i].capture # 0]]

\* A copy of the gather or the normalisation fails: no slot has changed.
ReserveFailed(p) == [FlushDeferredReplay(p) EXCEPT !.healthy = FALSE]

NoReservation ==
    [rows |-> <<>>, direct |-> FALSE, state |-> "None", captures |-> FALSE]

---------------------------------------------------------------------------
(* The model run reads the bound inputs and writes the bound outputs. A    *)
(* direct output is the slot's inactive bank itself.                       *)

InputOf(p, v, i) ==
    IF v.direct THEN p.bank[v.rows[i].slot][p.slot[v.rows[i].slot].active_bank]
    ELSE p.input[i]

Execute(p, v, tokens) ==
    LET out == [i \in DOMAIN v.rows |-> InputOf(p, v, i) \o tokens[i]] IN
    [p EXCEPT
        !.output = IF v.direct THEN p.output ELSE out,
        !.update = IF v.captures THEN tokens ELSE p.update,
        !.bank = [s \in Slots |->
            IF v.direct /\ s \in SlotsOf(v.rows)
            THEN [p.bank[s] EXCEPT ![Other(p.slot[s].active_bank)] = out[RowAt(v.rows, s)]]
            ELSE p.bank[s]]]

\* A run that fails half way may have written any of its outputs.
ExecuteFailed(p, v) ==
    [p EXCEPT
        !.bank = [s \in Slots |->
            IF v.direct /\ s \in SlotsOf(v.rows)
            THEN [p.bank[s] EXCEPT ![Other(p.slot[s].active_bank)] = Garbage]
            ELSE p.bank[s]]]

---------------------------------------------------------------------------
(* Commit. *)

\* What CommitPrefix refuses of row i.
PrefixAccepted(v, i, step, kept) ==
    /\ v.captures /\ v.state = "Reserved"
    /\ kept \in 1 .. step
    /\ v.rows[i].capture # 0 /\ step = v.rows[i].capture + 1
    /\ v.rows[i].kept = 0
    /\ step - kept <= v.rows[i].target

CommitPrefix(row, step, kept) ==
    [row EXCEPT !.target = row.target - (step - kept), !.step = step, !.kept = kept]

\* Every slot is exactly where the reservation left it.
ValidateCommit(p, v) ==
    /\ p.healthy /\ p.live /\ v.state = "Reserved"
    /\ \A i \in DOMAIN v.rows :
        LET row == v.rows[i]
            slot == p.slot[row.slot] IN
        /\ slot.ownership = IF row.provisional THEN "Reserved" ELSE "Committed"
        /\ slot.request = row.request
        /\ slot.generation = row.generation
        /\ slot.state_generation = row.expected
        /\ row.target >= slot.committed_tokens

IsPartial(row) == row.kept # 0 /\ row.kept # row.step

\* Rows kept whole are staged into the inactive bank, unless the run wrote
\* it directly; the others leave a replay for the next pool operation.
StageRows(p, v) ==
    LET flushed == FlushDeferredReplay(p)
        whole == {v.rows[i].slot : i \in {j \in DOMAIN v.rows : ~IsPartial(v.rows[j])}}
        partial == {i \in DOMAIN v.rows : IsPartial(v.rows[i])} IN
    [flushed EXCEPT
        !.bank = [s \in Slots |->
            IF ~v.direct /\ s \in whole
            THEN [flushed.bank[s] EXCEPT ![Other(p.slot[s].active_bank)] =
                    p.output[RowAt(v.rows, s)]]
            ELSE flushed.bank[s]],
        !.replay = {[row |-> i, slot |-> v.rows[i].slot,
                     bank |-> Other(p.slot[v.rows[i].slot].active_bank),
                     kept |-> v.rows[i].kept, direct |-> v.direct] : i \in partial}]

PrepareCommit(p, v) ==
    [pool |-> StageRows(p, v), res |-> [v EXCEPT !.state = "Prepared"]]

\* A cleanup that forgets the provisional slots.
KeepProvisionalSlots(p, v) == p

\* Only the slots this reservation made Reserved go back to the pool.
ReleaseProvisionalSlots(p, v) ==
    [p EXCEPT !.slot = [s \in Slots |->
        IF \E i \in DOMAIN v.rows :
              /\ v.rows[i].provisional /\ v.rows[i].slot = s
              /\ p.slot[s].ownership = "Reserved"
              /\ p.slot[s].request = v.rows[i].request
              /\ p.slot[s].generation = v.rows[i].generation
        THEN FreeSlot(p.slot[s].generation, p.slot[s].active_bank)
        ELSE p.slot[s]]]

\* A staging copy fails: inactive banks may be partly written.
PrepareFailed(p, v) ==
    LET torn == [p EXCEPT
            !.bank = [s \in Slots |->
                IF s \in SlotsOf(v.rows)
                THEN [p.bank[s] EXCEPT ![Other(p.slot[s].active_bank)] = Garbage]
                ELSE p.bank[s]],
            !.healthy = FALSE]
    IN  [pool |-> ReleaseProvisionalSlots(torn, v),
         res  |-> [v EXCEPT !.state = "Failed"]]

\* Flips every slot to its freshly written bank.
PublishedSlot(slot, row) ==
    [slot EXCEPT !.active_bank = Other(@), !.state_generation = @ + 1,
                 !.committed_tokens = row.target, !.ownership = "Committed"]

PublishCommit(p, v) ==
    [pool |-> [p EXCEPT
        !.slot = [s \in Slots |->
            IF s \in SlotsOf(v.rows) THEN PublishedSlot(p.slot[s], v.rows[RowAt(v.rows, s)])
            ELSE p.slot[s]],
        !.index = [r \in Requests |->
            IF \E i \in DOMAIN v.rows : v.rows[i].request = r /\ v.rows[i].provisional
            THEN v.rows[RowOf(v.rows, r)].slot ELSE p.index[r]]],
     res |-> [v EXCEPT !.state = "Committed"]]

\* Publishing needs a successful PrepareCommit; anything else terminates.
MayPublish(v) == v.state = "Prepared"

\* Nothing visible is undone: it was never written.
Discard(p, v) ==
    IF v.state \in {"Discarded", "Failed"} THEN [pool |-> p, res |-> v]
    ELSE [pool |-> ReleaseProvisionalSlots(
                      IF v.state = "Prepared" THEN [p EXCEPT !.replay = {}] ELSE p, v),
          res  |-> [v EXCEPT !.state = "Discarded"]]

\* The destructor: the lock goes back with the staging rows, whose contents
\* only a pending replay may still read.
Finish(p) ==
    [p EXCEPT !.live = FALSE, !.output = <<>>,
              !.input = IF p.replay = {} THEN <<>> ELSE p.input,
              !.update = IF p.replay = {} THEN <<>> ELSE p.update]

---------------------------------------------------------------------------
(* Release of a committed slot. It needs no health, only idleness. *)

ValidateRelease(p, r) ==
    /\ ~p.live
    /\ p.index[r] # NoSlot
    /\ p.slot[p.index[r]].ownership = "Committed"
    /\ p.slot[p.index[r]].request = r

ReleaseValidated(p, r) ==
    [p EXCEPT !.slot[p.index[r]] = FreeSlot(@.generation, @.active_bank),
              !.index[r] = NoSlot]

---------------------------------------------------------------------------
(* Prefix checkpoints. A handle is valid while its row keeps its           *)
(* generation; the row is free again when the last lease goes.             *)

AvailableCheckpoints(p) == {c \in Checkpoints : ~p.ckpt[c].occupied}

ReleasePrefixCheckpoint(p, h) ==
    IF p.ckpt[h.row].occupied /\ p.ckpt[h.row].generation = h.generation
    THEN [p EXCEPT !.ckpt[h.row].occupied = FALSE, !.ckpt[h.row].count = 0]
    ELSE p

\* A capture that reads the bank the slot has just left.
CaptureInactiveBank(p, r, c) ==
    LET flushed == FlushDeferredReplay(p)
        s == p.index[r]
        h == [row |-> c, generation |-> p.ckpt[c].generation + 1,
              count |-> p.slot[s].committed_tokens]
    IN  [pool |-> [flushed EXCEPT !.ckpt[c] =
                      [generation |-> h.generation, count |-> h.count,
                       occupied |-> TRUE,
                       row |-> flushed.bank[s][Other(p.slot[s].active_bank)]]],
         handle |-> h]

\* Copies the request's visible row into row c, which is free by now.
CapturePrefixCheckpoint(p, r, c) ==
    LET flushed == FlushDeferredReplay(p)
        s == p.index[r]
        h == [row |-> c, generation |-> p.ckpt[c].generation + 1,
              count |-> p.slot[s].committed_tokens]
    IN  [pool |-> [flushed EXCEPT !.ckpt[c] =
                      [generation |-> h.generation, count |-> h.count,
                       occupied |-> TRUE,
                       row |-> flushed.bank[s][p.slot[s].active_bank]]],
         handle |-> h]

\* The device copy fails half way.
CaptureFailed(p, c) ==
    [FlushDeferredReplay(p) EXCEPT !.healthy = FALSE, !.ckpt[c].row = Garbage]
=============================================================================
