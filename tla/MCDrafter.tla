------------------------------ MODULE MCDrafter ------------------------------
(***************************************************************************)
(* Small instances of the block drafter, and of the store that keeps its   *)
(* snapshots.  `which' says which of them a behaviour is about; the other  *)
(* is never used.                                                          *)
(***************************************************************************)
EXTENDS PrefixSnapshotCache

CONSTANTS s1, s2, s3, s4

VARIABLES which, drafterConfig, seq, gen, pending, drafter, failures, injected,
          disabled

drafterVars == <<drafterConfig, seq, gen, pending, drafter, failures, injected,
                 disabled>>

-----------------------------------------------------------------------------
(* Stores. *)

Interchangeable == Permutations(Snapshots)

\* One capture can move one snapshot from each tier to the next; a large
\* payload fits on disk only.
Cascade == [t \in Tiers |-> IF t = Disk THEN 4 ELSE 1]

Tiered == [shapes |-> {1, 2}, componentLimit |-> 3, deviceResident |-> FALSE,
           maxClock |-> 4]
Resident == [shapes |-> {1}, componentLimit |-> 2, deviceResident |-> TRUE,
             maxClock |-> 6]
Stores == {Tiered, Resident}

-----------------------------------------------------------------------------
(* Drafters. *)

Basic ==
    [requests |-> {1, 2}, pagedBlock |-> 2, queryBlock |-> 2,
     slidingWindow |-> 1, numDrafts |-> 1, maxRequests |-> 2,
     targetBlocks |-> 12, dspark |-> FALSE, failureThreshold |-> 3,
     maxLen |-> 4, rowCounts |-> {1}, policies |-> {"draft"},
     maxSnapshots |-> 0, maxReleases |-> 1, maxFailures |-> 0]

\* One request that goes round its ring, joins late and stops drafting.
Ring == [Basic EXCEPT !.requests = {1}, !.slidingWindow = 2, !.maxRequests = 1,
                      !.maxLen = 9, !.rowCounts = {1, 5}, !.maxFailures = 2,
                      !.policies = {"sampled", "ingest", "draft"}]
\* Two requests that capture and restore checkpoints of their rings.
Restoring == [Basic EXCEPT !.pagedBlock = 1, !.slidingWindow = 3,
                           !.maxRequests = 1, !.maxLen = 6, !.rowCounts = {2},
                           !.policies = {"draft", "capture"},
                           !.maxSnapshots = 1, !.maxFailures = 1]
\* Full attention, more requests than the batch holds.
Full == [Basic EXCEPT !.requests = {1, 2, 3}, !.slidingWindow = 0,
                      !.targetBlocks = 4, !.rowCounts = {1, 3}]
\* Failures until the drafter is disabled.
Failing == [Basic EXCEPT !.targetBlocks = 6, !.failureThreshold = 2,
                         !.maxLen = 3, !.maxFailures = 2]
Drafters == {Ring, Restoring, Full, Failing}

Drafter == INSTANCE BlockDrafter WITH
    config <- drafterConfig, Configurations <- Drafters

ASSUME Drafter!GeometryAssumption

-----------------------------------------------------------------------------

allVars == <<which, vars, drafterVars>>

DrafterInit ==
    /\ which \in {"store", "drafter"}
    /\ Init /\ Drafter!Init
    /\ which = "store" => drafterConfig = Failing
    /\ which = "drafter" => config = Resident

DrafterNext ==
    \/ which = "store" /\ Next /\ UNCHANGED <<which, drafterVars>>
    \/ which = "drafter" /\ Drafter!Next /\ UNCHANGED <<which, vars>>

DrafterSpec == DrafterInit /\ [][DrafterNext]_allVars

-----------------------------------------------------------------------------
(* Properties of the drafter, and of both. *)

\* The positions the next query block attends to hold the request's own
\* committed rows, and the drafter never fails by itself: whatever the target
\* accepted, rejected or rewound in between, a request is followed to its last
\* committed row (dflash2_drafter.cpp, Propose).
WindowHoldsCommittedRows ==
    /\ Drafter!WindowHoldsCommittedRows
    /\ Drafter!ContextFollowsTarget /\ Drafter!NeverFailsByItself

\* What can be restored is what was captured for it: a checkpoint of the
\* drafter holds the window of its prefix even after its donor moved on
\* (CapturePrefix, RestorePrefix), and the store offers every snapshot with its
\* own payload, whichever tier it was moved to (Move, ReuseOldest).
SnapshotsHoldTheirPrefix ==
    OffersOwnPayload /\ Drafter!CheckpointsHoldTheirPrefix

\* No block of the drafter's pool leaks or is owned twice, and a batch the pool
\* was sized for fits (Release, ReleaseAll).
PoolServesItsBatch == Drafter!PoolServesItsBatch
=============================================================================
