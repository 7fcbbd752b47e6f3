----------------------------- MODULE EngineTurns -----------------------------
(***************************************************************************)
(* Turns, events and the life of a Request, as the owner of a dynamic      *)
(* Engine sees them. What a step computes is abstracted to its outcome     *)
(* (PagedCache is where the steps are modelled): tokens, the end of turns, *)
(* nothing that can run now, a rollback, or a failure of the Engine.       *)
(*                                                                         *)
(* Engine calls are serialised on the owner thread. The one thing that     *)
(* happens concurrently is the release of a last Request handle, which     *)
(* only raises a marker; the calls that begin by looking at the marker are *)
(* therefore split into steps, and a release may fall between any two.     *)
(***************************************************************************)
EXTENDS Integers, Sequences, FiniteSets, SequencesExt

CONSTANTS
    Requests,      \* Request objects, each created at most once
    MaxTurns,      \* bound: turns a request begins
    Configurations \* what an Engine and its owner may be like

NoRequest == "no request"

ASSUME TurnsAssumption ==
    /\ MaxTurns \in Nat
    /\ NoRequest \notin Requests
    /\ \A c \in Configurations :
        /\ c.maxBatch \in Nat \ {0} /\ c.maxVisible \in Nat \ {0}
        /\ c.bufferSizes \subseteq Nat \ {0}
        /\ c.maxTurns \in 0 .. MaxTurns /\ c.maxRequests \in Nat

VARIABLES
    config,     \* the member of Configurations this Engine runs with
    status,     \* [Requests -> lifecycle status]
    finish,     \* [Requests -> finish reason of the current turn]
    turn,       \* [Requests -> id of the current turn, 0 before the first]
    bounds,     \* [Requests -> ids of the turns a rewind can name]
    resident,   \* requests the cache manager holds
    replay,     \* rewound requests whose prefix has not been replayed yet
    tracked,    \* tracked_requests_, in creation order
    events,     \* pending_events_ from pending_event_index_ on
    healthy,    \* health_
    fatalRoom,  \* capacity reserved in fatal_events_
    abandoned,  \* requests whose last external handle is gone
    marker,     \* abandonment_pending_
    call,       \* the Engine call the owner is in
    pc,         \* how far that call has come
    at,         \* position of the reclaim scan in tracked
    told,       \* [Requests -> [turn id -> terminal events handed out]]
    unreported  \* history: turns that completed in a step whose commit failed

request == <<status, finish, turn, bounds, resident, replay, tracked>>
handles == <<abandoned, marker>>
control == <<call, pc, at>>
vars == <<config, request, events, healthy, fatalRoom, handles, control, told,
          unreported>>

MaxBatch == config.maxBatch        \* requests one step may serve
MaxVisible == config.maxVisible    \* kMaxGeneratedTokensPerStep
BufferSizes == config.bufferSizes  \* capacities of the buffers Run is given

Idle == [op |-> "none", r |-> NoRequest, k |-> 0]
TurnIds == 1 .. MaxTurns
MaxStepEvents == MaxBatch * MaxVisible

IsExecutable(r) == status[r] = "Executable"
IsOpen(r) == status[r] \notin {"Absent", "Closed"}

Event(r, t, done, reason) == [r |-> r, turn |-> t, done |-> done, reason |-> reason]
HasEvent(evs, r, t) == \E i \in DOMAIN evs : evs[i].r = r /\ evs[i].turn = t
PendingOf(r) == \E i \in DOMAIN events : events[i].r = r

\* What std::remove_if leaves of s: the elements at the positions in kept.
Kept(s, kept) == FlattenSeq([i \in DOMAIN s |-> IF i \in kept THEN <<s[i]>> ELSE <<>>])

Init ==
    /\ config \in Configurations
    /\ status = [r \in Requests |-> "Absent"]
    /\ finish = [r \in Requests |-> "None"]
    /\ turn = [r \in Requests |-> 0]
    /\ bounds = [r \in Requests |-> {}]
    /\ resident = {} /\ replay = {} /\ tracked = <<>>
    /\ events = <<>>
    /\ healthy = TRUE
    /\ fatalRoom = MaxStepEvents + 1
    /\ abandoned = {} /\ marker = FALSE
    /\ call = Idle /\ pc = "out" /\ at = 0
    /\ told = [r \in Requests |-> [t \in TurnIds |-> 0]]
    /\ unreported = {}

Return == call' = Idle /\ pc' = "out" /\ at' = 0

---------------------------------------------------------------------------
(* Effects shared by several calls. *)

\* A close that leaves the request's undelivered events behind.
EventsLeftBehind(r) == events

WithoutEventsOf(r) == Kept(events, {i \in DOMAIN events : events[i].r # r})

Untracked(r) == Kept(tracked, {i \in DOMAIN tracked : tracked[i] # r})

\* Removal from the scheduler and the cache, purge of the request's events,
\* and the end of the request.
Close(r) ==
    /\ status' = [status EXCEPT ![r] = "Closed"]
    /\ resident' = resident \ {r}
    /\ replay' = replay \ {r}
    /\ tracked' = Untracked(r)
    /\ events' = WithoutEventsOf(r)
    /\ UNCHANGED <<finish, turn, bounds>>

\* Terminals merged into the first undelivered event instead of the last.
MergeIntoFirst(evs, list, reason) ==
    LET First(i) == \A j \in 1 .. i - 1 : evs[j].r # evs[i].r
        Ends(i) == /\ evs[i].r \in ToSet(list) /\ evs[i].turn = turn[evs[i].r]
                   /\ First(i)
        silent == Kept(list, {i \in DOMAIN list : ~HasEvent(evs, list[i], turn[list[i]])})
    IN  [i \in DOMAIN evs |->
            IF Ends(i) THEN Event(evs[i].r, evs[i].turn, TRUE, reason) ELSE evs[i]]
        \o [k \in DOMAIN silent |-> Event(silent[k], turn[silent[k]], TRUE, reason)]

\* The current turns of the requests in list end. The last undelivered event
\* of such a turn becomes its terminal event; a turn without one gets a new
\* event, in the order of the list.
MergeTerminals(evs, list, reason) ==
    LET Same(i, j) == evs[j].r = evs[i].r /\ evs[j].turn = evs[i].turn
        Ends(i) == /\ evs[i].r \in ToSet(list) /\ evs[i].turn = turn[evs[i].r]
                   /\ \A j \in i + 1 .. Len(evs) : ~Same(i, j)
        silent == Kept(list, {i \in DOMAIN list : ~HasEvent(evs, list[i], turn[list[i]])})
    IN  [i \in DOMAIN evs |->
            IF Ends(i) THEN Event(evs[i].r, evs[i].turn, TRUE, reason) ELSE evs[i]]
        \o [k \in DOMAIN silent |-> Event(silent[k], turn[silent[k]], TRUE, reason)]

\* The events of MarkUnhealthyAndThrow over the pending events evs and the
\* tracked requests list: what is pending survives unless its request is
\* abandoned, and every turn that is still running fails with one terminal
\* event. The requests in ended have just completed theirs.
FatalEvents(evs, list, ended) ==
    LET surviving == Kept(evs, {i \in DOMAIN evs : evs[i].r \notin abandoned})
        failing == Kept(list, {i \in DOMAIN list :
                                /\ IsExecutable(list[i]) /\ list[i] \notin ended
                                /\ list[i] \notin abandoned})
    IN  MergeTerminals(surviving, failing, "Failed")
        \o (IF failing = <<>> THEN <<Event(NoRequest, 0, FALSE, "Failed")>> ELSE <<>>)

\* Every running turn is over: completed, or failed, those of abandoned
\* requests silently.
FailTurns(list, ended) ==
    /\ status' = [r \in Requests |->
            IF IsExecutable(r) /\ r \in ToSet(list) THEN "TurnComplete"
            ELSE IF r \notin ToSet(list) /\ IsOpen(r) THEN "Closed"
            ELSE status[r]]
    /\ finish' = [r \in Requests |->
            IF IsExecutable(r) /\ r \in ToSet(list)
            THEN IF r \in ended THEN "Completed" ELSE "Failed"
            ELSE finish[r]]
    /\ replay' = {r \in replay : r \in ToSet(list) /\ ~IsExecutable(r)}

MarkUnhealthy(evs, list, ended) ==
    /\ events' = FatalEvents(evs, list, ended)
    /\ FailTurns(list, ended)
    /\ healthy' = FALSE

---------------------------------------------------------------------------
(* Entry of a call, and the reclaim of abandoned requests it begins with.  *)

\* The marker is exchanged for false before anything is looked at.
Enter(c) ==
    /\ pc = "out"
    /\ call' = c
    /\ pc' = IF marker THEN "scan" ELSE "body"
    /\ at' = 1
    /\ marker' = FALSE
    /\ UNCHANGED <<request, events, healthy, fatalRoom, abandoned, told>>

Looking == pc = "scan" /\ at <= Len(tracked)

\* The scan passes a request that still has an owner.
ScanPass ==
    /\ Looking /\ tracked[at] \notin abandoned
    /\ at' = at + 1
    /\ UNCHANGED <<request, events, healthy, fatalRoom, handles, call, pc, told>>

\* It closes an abandoned one and starts over.
ScanClose ==
    /\ Looking /\ tracked[at] \in abandoned
    /\ Close(tracked[at])
    /\ at' = 1
    /\ UNCHANGED <<healthy, fatalRoom, handles, call, pc, told>>

\* An allocation failure in the scan that loses the marker.
ScanGivesUp ==
    /\ Looking /\ tracked[at] \in abandoned
    /\ Return
    /\ UNCHANGED <<request, events, healthy, fatalRoom, handles, told>>

\* An allocation failure while closing, before or after the cache let go of
\* the request, raises the marker again, and the call throws.
ScanOutOfMemory ==
    /\ Looking /\ tracked[at] \in abandoned
    /\ resident' \in {resident, resident \ {tracked[at]}}
    /\ marker' = TRUE
    /\ Return
    /\ UNCHANGED <<status, finish, turn, bounds, replay, tracked, events, healthy,
                   fatalRoom, abandoned, told>>

\* Any other failure while closing ends the Engine. Run hands out what is
\* pending; the other calls throw.
ScanFatal ==
    /\ Looking /\ tracked[at] \in abandoned
    /\ IF healthy THEN MarkUnhealthy(events, tracked, {})
       ELSE UNCHANGED <<status, finish, replay, events, healthy>>
    /\ IF call.op = "Run" /\ events' # <<>>
       THEN pc' = "drain" /\ UNCHANGED <<call, at>>
       ELSE Return
    /\ UNCHANGED <<turn, bounds, resident, tracked, fatalRoom, handles, told>>

ScanDone ==
    /\ pc = "scan" /\ at > Len(tracked)
    /\ pc' = "body"
    /\ UNCHANGED <<request, events, healthy, fatalRoom, handles, call, at, told>>

---------------------------------------------------------------------------
(* Bodies of the calls that reclaim first. *)

In(op) == pc = "body" /\ call.op = op

\* Room for the fatal events of a step only.
ReserveForStepOnly == fatalRoom

\* Room for the events of a step and a terminal event of every request.
ReserveFatalRoom ==
    LET room == MaxStepEvents + Len(tracked) + 2
    IN  IF room > fatalRoom THEN room ELSE fatalRoom

CreateRequest ==
    /\ In("CreateRequest")
    /\ IF healthy
       THEN /\ fatalRoom' = ReserveFatalRoom
            /\ status' = [status EXCEPT ![call.r] = "Unassigned"]
            /\ tracked' = Append(tracked, call.r)
       ELSE UNCHANGED <<fatalRoom, status, tracked>>
    /\ Return
    /\ UNCHANGED <<finish, turn, bounds, resident, replay, events, healthy,
                   handles, told>>

\* A completed turn may be followed by another, or rewound, once its events
\* have been handed out and while there is something to continue from.
CanContinue(r) ==
    /\ status[r] = "TurnComplete" /\ finish[r] # "Failed"
    /\ r \in resident \/ finish[r] = "Canceled" \/ r \in replay
    /\ ~PendingOf(r)

BeginTurn ==
    LET r == call.r IN
    /\ In("BeginTurn")
    /\ IF healthy /\ (status[r] = "Unassigned" \/ CanContinue(r))
       THEN /\ status' = [status EXCEPT ![r] = "Executable"]
            /\ finish' = [finish EXCEPT ![r] = "None"]
            /\ turn' = [turn EXCEPT ![r] = @ + 1]
            /\ bounds' = [bounds EXCEPT ![r] = @ \cup {turn[r] + 1}]
       ELSE UNCHANGED <<status, finish, turn, bounds>>
    /\ Return
    /\ UNCHANGED <<resident, replay, tracked, events, healthy, fatalRoom,
                   handles, told>>

\* The admission failed and could not be undone: the request is closed and
\* the Engine is finished.
BeginTurnFatal ==
    LET r == call.r IN
    /\ In("BeginTurn")
    /\ healthy /\ (status[r] = "Unassigned" \/ CanContinue(r))
    /\ MarkUnhealthy(WithoutEventsOf(r), Untracked(r), {})
    /\ tracked' = Untracked(r)
    /\ resident' = resident \ {r}
    /\ Return
    /\ UNCHANGED <<turn, bounds, fatalRoom, handles, told>>

RewindRequestToStartOfTurn ==
    LET r == call.r IN
    /\ In("Rewind")
    /\ IF healthy /\ CanContinue(r) /\ call.k \in bounds[r]
       THEN /\ bounds' = [bounds EXCEPT ![r] = {t \in @ : t < call.k}]
            /\ resident' = resident \ {r}
            /\ replay' = replay \cup {r}
       ELSE UNCHANGED <<bounds, resident, replay>>
    /\ Return
    /\ UNCHANGED <<status, finish, turn, tracked, events, healthy, fatalRoom,
                   handles, told>>

HasPendingRequests ==
    /\ In("HasPendingRequests")
    /\ Return
    /\ UNCHANGED <<request, events, healthy, fatalRoom, handles, told>>

---------------------------------------------------------------------------
(* Run: hand out what is pending, or execute one step and hand out its     *)
(* events.                                                                 *)

Executable == {r \in Requests : IsExecutable(r)}

\* A Run that looks at the health before it looks at the pending events.
RunHealthFirst ==
    /\ In("Run")
    /\ events # <<>> \/ ~healthy \/ Executable = {}
    /\ IF healthy /\ events # <<>> THEN pc' = "drain" /\ UNCHANGED <<call, at>>
       ELSE Return
    /\ UNCHANGED <<request, events, healthy, fatalRoom, handles, told>>

\* Pending events are drained first; a failed or idle Engine runs nothing.
RunWithoutStep ==
    /\ In("Run")
    /\ events # <<>> \/ ~healthy \/ Executable = {}
    /\ IF events # <<>> THEN pc' = "drain" /\ UNCHANGED <<call, at>> ELSE Return
    /\ UNCHANGED <<request, events, healthy, fatalRoom, handles, told>>

\* The guard of every step.
CanStep == In("Run") /\ events = <<>> /\ healthy /\ Executable # {}

StepEvents(r, x) ==
    [k \in 1 .. x.visible |->
        Event(r, turn[r], x.done /\ k = x.visible,
              IF x.done /\ k = x.visible THEN "Completed" ELSE "None")]
    \o (IF x.done /\ x.visible = 0
        THEN <<Event(r, turn[r], TRUE, "Completed")>> ELSE <<>>)

StepResult == [visible : 0 .. MaxVisible, done : BOOLEAN]

StepCommitted ==
    /\ CanStep
    /\ \E n \in 1 .. MaxBatch : \E batch \in Injection(1 .. n, Executable) :
        \E x \in [1 .. n -> StepResult] :
            LET Done(r) == \E i \in 1 .. n : batch[i] = r /\ x[i].done
            IN  /\ events' = FlattenSeq([i \in 1 .. n |-> StepEvents(batch[i], x[i])])
                /\ status' = [r \in Requests |->
                        IF Done(r) THEN "TurnComplete" ELSE status[r]]
                /\ finish' = [r \in Requests |->
                        IF Done(r) THEN "Completed" ELSE finish[r]]
                /\ resident' = resident \cup ToSet(batch)
                /\ replay' = replay \ ToSet(batch)
    /\ pc' = "drain"
    /\ UNCHANGED <<turn, bounds, tracked, healthy, fatalRoom, handles, call, at,
                   told>>

\* The request no pool could serve fails alone.
StepUnserviceable ==
    /\ CanStep
    /\ \E r \in Executable :
        /\ status' = [status EXCEPT ![r] = "TurnComplete"]
        /\ finish' = [finish EXCEPT ![r] = "Failed"]
        /\ resident' = resident \ {r} /\ replay' = replay \ {r}
        /\ events' = <<Event(r, turn[r], TRUE, "Failed")>>
    /\ pc' = "drain"
    /\ UNCHANGED <<turn, bounds, tracked, healthy, fatalRoom, handles, call, at,
                   told>>

\* Nothing fits now, or the step was rolled back: one event without a request.
StepWithoutEffect ==
    /\ CanStep
    /\ events' = <<Event(NoRequest, 0, FALSE, "Retry")>>
    /\ pc' = "drain"
    /\ UNCHANGED <<request, healthy, fatalRoom, handles, call, at, told>>

\* Planning ran out of memory: the exception leaves Run, nothing has changed.
StepThrows ==
    /\ CanStep
    /\ Return
    /\ UNCHANGED <<request, events, healthy, fatalRoom, handles, told>>

\* A failure up to the commit boundary: the step has been undone, or cannot be.
StepFatal ==
    /\ CanStep
    /\ MarkUnhealthy(events, tracked, {})
    /\ pc' = "drain"
    /\ UNCHANGED <<turn, bounds, resident, tracked, fatalRoom, handles, call, at,
                   told>>

\* A failure beyond it. Behind CommitStep, while blocks are sealed and drafts
\* published, the turns in ended have completed (none before it), but the
\* events of the step are not staged yet: no event tells of those turns.
StepCommitFails ==
    /\ CanStep
    /\ \E batch \in SUBSET Executable : \E ended \in SUBSET batch :
        /\ Cardinality(batch) \in 1 .. MaxBatch
        /\ MarkUnhealthy(events, tracked, ended)
        /\ resident' = resident \cup batch
        /\ unreported' = unreported \cup {<<r, turn[r]>> : r \in ended}
    /\ pc' = "drain"
    /\ UNCHANGED <<turn, bounds, tracked, fatalRoom, handles, call, at, told>>

DrainPendingEvents ==
    LET n == IF call.k < Len(events) THEN call.k ELSE Len(events)
        Handed(r, t) == Cardinality({i \in 1 .. n :
                events[i].r = r /\ events[i].turn = t /\ events[i].done})
    IN  /\ pc = "drain"
        /\ events' = SubSeq(events, n + 1, Len(events))
        /\ told' = [r \in Requests |-> [t \in TurnIds |->
                        told[r][t] + Handed(r, t)]]
        /\ Return
        /\ UNCHANGED <<request, healthy, fatalRoom, handles>>

---------------------------------------------------------------------------
(* Calls that reclaim nothing, and the release of handles. *)

\* A cancellation that does not ask whether the turn has already ended.
CancelEndedTurn(r, t) ==
    /\ pc = "out" /\ r \notin abandoned
    /\ t = turn[r] /\ status[r] \in {"Executable", "TurnComplete"}
    /\ status' = [status EXCEPT ![r] = "TurnComplete"]
    /\ finish' = [finish EXCEPT ![r] = "Canceled"]
    /\ events' = MergeTerminals(events, <<r>>, "Canceled")
    /\ UNCHANGED <<turn, bounds, resident, replay, tracked, healthy, fatalRoom,
                   handles, control, told>>

\* Cancels the turn it names if that turn is still running, never another.
CancelRequest(r, t) ==
    /\ pc = "out" /\ r \notin abandoned
    /\ t = turn[r] /\ IsExecutable(r)
    /\ status' = [status EXCEPT ![r] = "TurnComplete"]
    /\ finish' = [finish EXCEPT ![r] = "Canceled"]
    /\ events' = MergeTerminals(events, <<r>>, "Canceled")
    /\ UNCHANGED <<turn, bounds, resident, replay, tracked, healthy, fatalRoom,
                   handles, control, told>>

CloseRequest(r) ==
    /\ pc = "out" /\ r \notin abandoned /\ IsOpen(r)
    /\ Close(r)
    /\ UNCHANGED <<healthy, fatalRoom, handles, control, told>>

\* The last handle goes away on any thread, at any time its request is not
\* the one the owner is calling with.
ExternalRelease(r) ==
    /\ IsOpen(r) /\ r \notin abandoned /\ call.r # r
    /\ abandoned' = abandoned \cup {r}
    /\ marker' = TRUE
    /\ UNCHANGED <<request, events, healthy, fatalRoom, control, told>>

\* Bounded by maxRequests.
Created == {r \in Requests : status[r] # "Absent"}

Calls ==
    {[op |-> "Run", r |-> NoRequest, k |-> n] : n \in BufferSizes}
    \cup {[op |-> "HasPendingRequests", r |-> NoRequest, k |-> 0]}
    \cup {[op |-> "CreateRequest", r |-> r, k |-> 0] :
            r \in {r \in Requests : /\ status[r] = "Absent"
                                    /\ Cardinality(Created) < config.maxRequests}}
    \cup {[op |-> "BeginTurn", r |-> r, k |-> 0] :
            r \in {r \in Requests : /\ IsOpen(r) /\ r \notin abandoned
                                    /\ turn[r] < config.maxTurns}}
    \cup {[op |-> "Rewind", r |-> r, k |-> t] :
            r \in {r \in Requests : IsOpen(r) /\ r \notin abandoned},
            t \in TurnIds}

RunCall(n) == Enter([op |-> "Run", r |-> NoRequest, k |-> n])

Steps ==
    \/ \E c \in Calls : Enter(c)
    \/ ScanPass \/ ScanClose \/ ScanOutOfMemory \/ ScanFatal \/ ScanDone
    \/ CreateRequest
    \/ BeginTurn \/ BeginTurnFatal
    \/ RewindRequestToStartOfTurn
    \/ HasPendingRequests
    \/ RunWithoutStep
    \/ StepCommitted \/ StepUnserviceable \/ StepWithoutEffect \/ StepThrows
    \/ StepFatal
    \/ DrainPendingEvents
    \/ \E r \in Requests, t \in TurnIds : CancelRequest(r, t)
    \/ \E r \in Requests : CloseRequest(r)
    \/ \E r \in Requests : ExternalRelease(r)

Next ==
    \/ Steps /\ UNCHANGED <<config, unreported>>
    \/ StepCommitFails /\ UNCHANGED config

Spec == Init /\ [][Next]_vars

\* A call that was entered returns, the owner keeps calling Run, and closing
\* an abandoned request does not fail for ever.
CallStep ==
    \/ ScanPass \/ ScanClose \/ ScanDone
    \/ CreateRequest \/ BeginTurn \/ RewindRequestToStartOfTurn
    \/ HasPendingRequests \/ RunWithoutStep \/ StepCommitted
    \/ DrainPendingEvents

FairSpec ==
    /\ Spec
    /\ WF_vars(CallStep /\ UNCHANGED <<config, unreported>>)
    /\ SF_vars(\E n \in BufferSizes : RunCall(n) /\ UNCHANGED <<config, unreported>>)
    /\ SF_vars(ScanClose /\ UNCHANGED <<config, unreported>>)

---------------------------------------------------------------------------
(* Properties *)

\* Every variable has the shape the code gives it.
TypeOK ==
    /\ status \in [Requests -> {"Absent", "Unassigned", "Executable",
                                "TurnComplete", "Closed"}]
    /\ finish \in [Requests -> {"None", "Completed", "Canceled", "Failed"}]
    /\ turn \in [Requests -> 0 .. MaxTurns]
    /\ bounds \in [Requests -> SUBSET TurnIds]
    /\ resident \subseteq Requests /\ replay \subseteq Requests
    /\ ToSet(tracked) = {r \in Requests : IsOpen(r)}
    /\ events \in Seq([r : Requests \cup {NoRequest}, turn : 0 .. MaxTurns,
                       done : BOOLEAN,
                       reason : {"None", "Completed", "Canceled", "Failed", "Retry"}])
    /\ pc \in {"out", "scan", "body", "drain"}
    /\ unreported \subseteq Requests \X TurnIds

PendingTerminals(r, t) ==
    Cardinality({i \in DOMAIN events :
        events[i].r = r /\ events[i].turn = t /\ events[i].done})

Ended(r, t) == t < turn[r] \/ (t = turn[r] /\ status[r] = "TurnComplete")

\* A turn that has ended, by completion, cancellation, a failure of its own
\* or of the Engine, has exactly one terminal event, handed out or still
\* pending; a turn that runs has none. No two of these ever both report, and
\* none is lost, with one exception: a turn whose last step failed between
\* CommitStep and its events has none, ever, and the Engine has failed.
OneTerminalPerTurn ==
    /\ unreported # {} => ~healthy
    /\ \A r \in Requests : (IsOpen(r) /\ r \notin abandoned) =>
        \A t \in TurnIds :
            told[r][t] + PendingTerminals(r, t) =
                IF Ended(r, t) /\ <<r, t>> \notin unreported THEN 1 ELSE 0

\* "Every completed Turn publishes exactly one terminal event"
\* (paged_attention_engine.md:706), without that exception.
EveryTurnIsReported ==
    \A r \in Requests : (IsOpen(r) /\ r \notin abandoned) =>
        \A t \in TurnIds : Ended(r, t) => told[r][t] + PendingTerminals(r, t) = 1

\* The terminal event of a turn is the last the owner hears of it.
NothingAfterTerminal ==
    \A i \in DOMAIN events : events[i].r # NoRequest =>
        /\ told[events[i].r][events[i].turn] = 0
        /\ \A j \in i + 1 .. Len(events) :
            (events[j].r = events[i].r /\ events[j].turn = events[i].turn)
                => ~events[i].done

\* Events that are still pending belong to the current turn of a request that
\* is not closed: no call can make one stale.
PendingEventsAreCurrent ==
    \A i \in DOMAIN events : events[i].r # NoRequest =>
        /\ IsOpen(events[i].r)
        /\ events[i].turn = turn[events[i].r]

\* While the Engine is healthy the release of a last handle is never lost,
\* whenever it happens and whatever fails: until the request is closed, the
\* marker is up or the scan has yet to look at it.
NoLostRelease ==
    healthy => \A r \in abandoned : IsOpen(r) =>
        \/ marker
        \/ pc = "scan" /\ \E i \in at .. Len(tracked) : tracked[i] = r

\* The room reserved when requests are created is enough for all the events
\* a failure would have to keep at any time, whichever turns its step had
\* completed, so reporting it never allocates.
FatalEventsFit ==
    healthy => \A ended \in SUBSET Executable :
        Len(FatalEvents(events, tracked, ended)) <= fatalRoom

\* Every turn that ends is reported, if the owner keeps calling Run, unless
\* the commit of its last step failed.
TerminalsAreDelivered ==
    \A r \in Requests, t \in TurnIds :
        (turn[r] = t /\ status[r] = "TurnComplete")
            ~> (told[r][t] = 1 \/ <<r, t>> \in unreported
                \/ ~IsOpen(r) \/ r \in abandoned)

\* Every abandoned request is closed, whichever thread let go of it, unless
\* the Engine fails.
AbandonedAreClosed ==
    \A r \in Requests : r \in abandoned ~> (status[r] = "Closed" \/ ~healthy)
=============================================================================
