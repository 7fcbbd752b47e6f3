--------------------------- MODULE PipelineCache ---------------------------
(***************************************************************************)
(* A pipeline of decoder stages over a windowed key/value cache            *)
(* (src/src/models/decoder_only_pipeline.cpp, io/windowed_kv_cache.cpp,    *)
(* io/windowed_position_inputs.cpp, io/input_ids.cpp, worker_thread.h).    *)
(*                                                                         *)
(* The prompt is padded on the left to whole windows and runs one window   *)
(* at a time; generated tokens run one by one.  A stage reads the cached   *)
(* rows of its layers and writes the rows of its window; a worker thread   *)
(* then slides those rows into the cache while the next stage runs.        *)
(*                                                                         *)
(* A row is named by the token it belongs to.  0 is a row the cache was    *)
(* filled with at creation, -1 the row of a padding token, -2 garbage.     *)
(***************************************************************************)
EXTENDS Integers, FiniteSets, Sequences, SequencesExt, FiniteSetsExt

CONSTANT Configurations   \* the pipelines, and the prompts they are given

Fill == 0
PadToken == -1
Garbage == -2

VARIABLES
    config,     \* the pipeline and the bounds of its client
    pc,         \* where the thread that owns the generator is
    stage,      \* the pipeline stage it is at
    run,        \* the Run in progress: its tokens, its chunk, is it a prompt
    ids,        \* WindowedInputIDs
    positions,  \* WindowedPositionInputs
    layer,      \* per-layer cache: buffers, LayerState, which buffers they are
    bound,      \* buffers gathered as inputs and outputs of the running stage
    future,     \* outstanding_update of each record
    queue, notify, stop,  \* the worker's queue; is a notification due; stop_requested
    worker,     \* the worker thread
    alive,      \* the cache has not been destroyed
    history     \* rows of every pass that ended, in order

vars == <<config, pc, stage, run, ids, positions, layer, bound, future, queue, notify, stop,
          worker, alive, history>>

Layers == config.layers     \* layers of the model
Stages == config.stages     \* the pipeline: [layers, prompt, token, head] of each stage
Window == config.window     \* sliding_window.window_size
Context == config.context   \* model.context_length; also search.max_length
Prompts == config.prompts   \* bound: prompt lengths

RunsIn(stage_, prompt, last) ==
    IF prompt THEN stage_.prompt /\ (stage_.head => last) ELSE stage_.token

(* The layer sets of the stages that name past keys: one update record for *)
(* each.  A stage that has none is the record {}.                          *)
RecordsOf(stages) == {stages[i].layers : i \in DOMAIN stages} \ {{}}
Records == RecordsOf(Stages)

CeilDiv(a, b) == (a + b - 1) \div b

PaddedSize(n, window) == CeilDiv(n, window) * window

(* The constructors' checks, and one stage per layer in either phase. *)
PipelineAssumption ==
    \A c \in Configurations :
        /\ c.window > 1 /\ c.context >= 2 * c.window
        /\ \A r, q \in RecordsOf(c.stages) : r = q \/ r \cap q = {}
        /\ \A prompt \in BOOLEAN, l \in c.layers :
              Cardinality({i \in DOMAIN c.stages :
                 l \in c.stages[i].layers /\ RunsIn(c.stages[i], prompt, FALSE)}) = 1
        /\ \A n \in c.prompts : n > 0 /\ PaddedSize(n, c.window) <= c.context

inputs    == <<run, ids, positions>>
workqueue == <<queue, notify, stop>>

Repeat(x, n) == [i \in 1 .. n |-> x]

InitialLayer ==
    [window_size |-> Window, window_index |-> 0, num_windows |-> 0,
     is_first_update |-> TRUE, buffers |-> 0,
     in |-> Repeat(Fill, Context - Window), out |-> Repeat(Garbage, Window)]

NoRun == [tokens |-> <<>>, total_length |-> 0, chunk |-> 0, prompt |-> FALSE]

Init ==
    /\ config \in Configurations
    /\ pc = "idle" /\ stage = 0 /\ run = NoRun
    /\ ids = [num_windows |-> 0, window_index |-> 0, value |-> <<>>]
    /\ positions = [num_windows |-> 0, window_index |-> 0, ids |-> <<>>,
                    mask |-> {}, offset |-> Context]
    /\ layer = [l \in Layers |-> InitialLayer]
    /\ bound = << >>
    /\ future = [r \in Records |-> "none"]
    /\ queue = <<>> /\ notify = FALSE /\ stop = FALSE
    /\ worker = [pc |-> "check", task |-> <<>>, left |-> {}, failed |-> FALSE]
    /\ alive = TRUE /\ history = <<>>

-----------------------------------------------------------------------------
(* The managed inputs of a pass. *)

WindowOf(tokens, index) == SubSeq(tokens, index * Window + 1, (index + 1) * Window)

UpdateInputIDs(tokens) ==
    LET fresh == Len(tokens) > 1 /\ ids.window_index = 0
        windows == IF fresh THEN CeilDiv(Len(tokens), Window) ELSE ids.num_windows
        windowed == fresh \/ ids.window_index < ids.num_windows
        next == IF windowed THEN ids.window_index + 1 ELSE ids.window_index
        done == next = windows
    IN  [num_windows |-> IF done THEN 0 ELSE windows,
         window_index |-> IF done THEN 0 ELSE next,
         value |-> IF windowed THEN WindowOf(tokens, ids.window_index) ELSE tokens]

FirstWindowPositions(tokens) ==
    LET pads == Cardinality({i \in 1 .. Window : tokens[i] = PadToken})
        real == {i \in 1 .. Window : tokens[i] # PadToken}
    IN  [num_windows |-> CeilDiv(Len(tokens), Window), window_index |-> 1,
         ids |-> [i \in 1 .. Window |-> IF i \in real THEN i - pads - 1 ELSE 0],
         mask |-> {Context - Window + i - 1 : i \in real},
         offset |-> Context - Window + (Min(real) - 1) - 1]

NextWindowPositions ==
    [positions EXCEPT
        !.ids = [i \in 1 .. Window |-> positions.ids[Window] + i],
        !.mask = @ \cup (positions.offset - Window + 1 .. positions.offset),
        !.offset = @ - Window,
        !.window_index = @ + 1]

TokenPositions ==
    [positions EXCEPT
        !.ids = <<Last(positions.ids) + 1>>,
        !.mask = @ \cup {positions.offset},
        !.offset = IF @ > 0 THEN @ - 1 ELSE @,
        !.window_index = @ + 1]

UpdatePositions(tokens) ==
    IF positions.window_index = 0 THEN FirstWindowPositions(tokens)
    ELSE IF positions.window_index < positions.num_windows THEN NextWindowPositions
    ELSE TokenPositions

-----------------------------------------------------------------------------
(* Updating a layer of the cache. *)

Slide(s) ==
    [s EXCEPT !.in = SubSeq(@, s.window_size + 1, Len(@)) \o s.out,
              !.window_index = @ + 1]

TransitionToTokenGeneration(s) ==
    [s EXCEPT !.in = Tail(@) \o s.out,
              !.out = Repeat(Garbage, 1),
              !.window_size = 1, !.buffers = @ + 1]

Slides(s) == s.window_size = 1 \/ s.window_index < s.num_windows

UpdateLayer(s, total_length) ==
    IF s.is_first_update
    THEN [s EXCEPT !.num_windows = CeilDiv(total_length, s.window_size),
                   !.is_first_update = FALSE, !.window_index = @ + 1]
    ELSE IF Slides(s) THEN Slide(s)
    ELSE TransitionToTokenGeneration(s)

(* An allocation of the transition throws: some buffers are replaced. *)
TransitionFailed(s) == [s EXCEPT !.in = Repeat(Garbage, Len(@)), !.buffers = @ + 1]

Outstanding == \E r \in Records : future[r] # "none"

(* Nothing outstanding: all layers are updated here.  Otherwise every      *)
(* layer has been handed to the worker.                                    *)
UpdateKeyValueCache(total_length) ==
    IF Outstanding THEN layer
    ELSE [l \in Layers |-> UpdateLayer(layer[l], total_length)]

-----------------------------------------------------------------------------
(* Run. *)

StartRun(tokens, total_length) ==
    /\ pc = "idle"
    /\ run' = [tokens |-> tokens, total_length |-> total_length, chunk |-> 1,
               prompt |-> Len(tokens) > 1]
    /\ ids' = UpdateInputIDs(tokens)
    /\ positions' = UpdatePositions(tokens)
    /\ layer' = UpdateKeyValueCache(total_length)
    /\ stage' = 1 /\ pc' = "stage"
    /\ UNCHANGED <<bound, future, workqueue, worker, alive, history>>

RunPrompt ==
    /\ history = <<>>
    /\ \E n \in Prompts :
          StartRun(Repeat(PadToken, PaddedSize(n, Window) - n) \o [i \in 1 .. n |-> i],
                   PaddedSize(n, Window))

RunToken ==
    /\ history # <<>> /\ Len(history) < Context
    /\ StartRun(<<Last(history) + 1>>, Len(history) + 1)

NumChunks == IF run.prompt THEN CeilDiv(Len(run.tokens), Window) ELSE 1

LastChunk == run.chunk = NumChunks

AtStage == pc = "stage" /\ stage \in DOMAIN Stages

SkipStage ==
    /\ AtStage /\ ~RunsIn(Stages[stage], run.prompt, LastChunk)
    /\ stage' = stage + 1
    /\ UNCHANGED <<pc, inputs, layer, bound, future, workqueue, worker, alive, history>>

UpdateOf(i) == IF Stages[i].layers = {} THEN "none" ELSE future[Stages[i].layers]

(* The stage waits for the update of its own layers, then gathers them. *)
BeginStageWithoutWait ==
    /\ AtStage /\ RunsIn(Stages[stage], run.prompt, LastChunk)
    /\ bound' = [l \in Stages[stage].layers |-> layer[l].buffers]
    /\ future' = [r \in Records |-> IF r = Stages[stage].layers THEN "none" ELSE future[r]]
    /\ pc' = "running"
    /\ UNCHANGED <<stage, inputs, layer, workqueue, worker, alive, history>>

BeginStage ==
    /\ AtStage /\ RunsIn(Stages[stage], run.prompt, LastChunk)
    /\ UpdateOf(stage) \in {"none", "ready"}
    /\ bound' = [l \in Stages[stage].layers |-> layer[l].buffers]
    /\ future' = [r \in Records |-> IF r = Stages[stage].layers THEN "none" ELSE future[r]]
    /\ pc' = "running"
    /\ UNCHANGED <<stage, inputs, layer, workqueue, worker, alive, history>>

(* get() rethrows what the update threw; the exception leaves Run. *)
UpdateFailed ==
    /\ AtStage /\ RunsIn(Stages[stage], run.prompt, LastChunk)
    /\ UpdateOf(stage) = "failed"
    /\ future' = [future EXCEPT ![Stages[stage].layers] = "none"]
    /\ pc' = "broken"
    /\ UNCHANGED <<stage, inputs, layer, bound, workqueue, worker, alive, history>>

(* The stage's session runs: it writes the rows of its window. *)
StageRuns ==
    /\ pc = "running"
    /\ layer' = [l \in Layers |-> IF l \in Stages[stage].layers
                                  THEN [layer[l] EXCEPT !.out = ids.value] ELSE layer[l]]
    /\ bound' = << >>
    /\ pc' = IF Stages[stage].layers = {} THEN "stage" ELSE "enqueue"
    /\ stage' = IF Stages[stage].layers = {} THEN stage + 1 ELSE stage
    /\ UNCHANGED <<inputs, future, workqueue, worker, alive, history>>

StageThrows ==
    /\ pc = "running"
    /\ bound' = << >> /\ pc' = "broken"
    /\ UNCHANGED <<stage, inputs, layer, future, workqueue, worker, alive, history>>

(* EnqueueTask under the mutex, and the notification after it. *)
UpdateTask == [layers |-> Stages[stage].layers, total_length |-> run.total_length]

Enqueue ==
    /\ pc = "enqueue"
    /\ queue' = Append(queue, UpdateTask)
    /\ notify' = (queue = <<>>)
    /\ future' = [future EXCEPT ![Stages[stage].layers] = "pending"]
    /\ pc' = "notify"
    /\ UNCHANGED <<stage, inputs, layer, bound, stop, worker, alive, history>>

Awakened == [worker EXCEPT !.pc = IF @ = "asleep" THEN "check" ELSE @]

NotifyWorker ==
    /\ pc = "notify"
    /\ worker' = IF notify THEN Awakened ELSE worker
    /\ notify' = FALSE
    /\ pc' = "stage" /\ stage' = stage + 1
    /\ UNCHANGED <<inputs, layer, bound, future, queue, stop, alive, history>>

AtEnd == pc = "stage" /\ stage > Len(Stages)

(* The window moves on to the next chunk of the prompt. *)
NextChunk ==
    /\ AtEnd /\ ~LastChunk
    /\ run' = [run EXCEPT !.chunk = @ + 1]
    /\ ids' = UpdateInputIDs(run.tokens)
    /\ layer' = UpdateKeyValueCache(run.total_length)
    /\ positions' = UpdatePositions(run.tokens)
    /\ history' = history \o ids.value
    /\ stage' = 1
    /\ UNCHANGED <<pc, bound, future, workqueue, worker, alive>>

EndRun ==
    /\ AtEnd /\ LastChunk
    /\ history' = history \o ids.value
    /\ pc' = "idle" /\ stage' = 0 /\ run' = NoRun
    /\ UNCHANGED <<ids, positions, layer, bound, future, workqueue, worker, alive>>

-----------------------------------------------------------------------------
(* The worker thread. *)

WorkerStops ==
    /\ worker.pc = "check" /\ stop
    /\ worker' = [worker EXCEPT !.pc = "exited"]
    /\ UNCHANGED <<pc, stage, inputs, layer, bound, future, workqueue, alive, history>>

WorkerTakes ==
    /\ worker.pc = "check" /\ ~stop /\ queue # <<>>
    /\ worker' = [pc |-> "busy", task |-> Head(queue), left |-> Head(queue).layers,
                  failed |-> FALSE]
    /\ queue' = Tail(queue)
    /\ UNCHANGED <<pc, stage, inputs, layer, bound, future, notify, stop, alive, history>>

WorkerSleeps ==
    /\ worker.pc = "check" /\ ~stop /\ queue = <<>>
    /\ worker' = [worker EXCEPT !.pc = "asleep"]
    /\ UNCHANGED <<pc, stage, inputs, layer, bound, future, workqueue, alive, history>>

(* PartialUpdate: the layers are updated in parallel, one index each. *)
WorkerUpdates(l) ==
    /\ worker.pc = "busy" /\ l \in worker.left
    /\ worker' = [worker EXCEPT !.left = @ \ {l}]
    /\ layer' = [layer EXCEPT ![l] = UpdateLayer(@, worker.task.total_length)]
    /\ UNCHANGED <<pc, stage, inputs, bound, future, workqueue, alive, history>>

WorkerThrows(l) ==
    /\ worker.pc = "busy" /\ l \in worker.left /\ ~Slides(layer[l])
    /\ worker' = [worker EXCEPT !.left = @ \ {l}, !.failed = TRUE]
    /\ layer' = [layer EXCEPT ![l] = TransitionFailed(@)]
    /\ UNCHANGED <<pc, stage, inputs, bound, future, workqueue, alive, history>>

WorkerFinishes ==
    /\ worker.pc = "busy" /\ worker.left = {}
    /\ future' = [future EXCEPT ![worker.task.layers] =
                     IF worker.failed THEN "failed" ELSE "ready"]
    /\ worker' = [worker EXCEPT !.pc = "check", !.task = <<>>]
    /\ UNCHANGED <<pc, stage, inputs, layer, bound, workqueue, alive, history>>

SpuriousWakeup ==
    /\ worker.pc = "asleep"
    /\ worker' = Awakened
    /\ UNCHANGED <<pc, stage, inputs, layer, bound, future, workqueue, alive, history>>

-----------------------------------------------------------------------------
(* Destroying the state.  The worker thread is declared after the cache,   *)
(* so it is stopped and joined before the cache goes.                      *)

RequestStop ==
    /\ pc \in {"idle", "broken"}
    /\ stop' = TRUE /\ pc' = "stopping"
    /\ UNCHANGED <<stage, inputs, layer, bound, future, queue, notify, worker, alive, history>>

NotifyStop ==
    /\ pc = "stopping"
    /\ worker' = Awakened
    /\ pc' = "joining"
    /\ UNCHANGED <<stage, inputs, layer, bound, future, workqueue, alive, history>>

Join ==
    /\ pc = "joining" /\ worker.pc = "exited"
    /\ alive' = FALSE /\ pc' = "destroyed"
    /\ UNCHANGED <<stage, inputs, layer, bound, future, workqueue, worker, history>>

-----------------------------------------------------------------------------

RunPipeline ==
    SkipStage \/ BeginStage \/ UpdateFailed \/ StageRuns \/ Enqueue \/ NotifyWorker
       \/ NextChunk \/ EndRun

WorkerLoop ==
    \/ WorkerStops \/ WorkerTakes \/ WorkerSleeps \/ WorkerFinishes
    \/ \E l \in Layers : WorkerUpdates(l) \/ WorkerThrows(l)

Stop == NotifyStop \/ Join

(* Destroyed with the worker gone: nothing is left to do. *)
Finished == pc = "destroyed" /\ worker.pc = "exited" /\ UNCHANGED vars

Steps ==
    \/ RunPrompt \/ RunToken \/ StageThrows \/ RequestStop
    \/ RunPipeline \/ Stop
    \/ WorkerLoop \/ SpuriousWakeup
    \/ Finished

Next == Steps /\ UNCHANGED config

(* A thread that can go on does; nobody is forced to start another run, to *)
(* stop, or to wake without being notified.                                *)
Fairness ==
    /\ WF_vars(RunPipeline /\ UNCHANGED config)
    /\ WF_vars(Stop /\ UNCHANGED config)
    /\ WF_vars(WorkerLoop /\ UNCHANGED config)

Spec == Init /\ [][Next]_vars /\ Fairness

-----------------------------------------------------------------------------
(* Properties. *)

(* Every variable has its type. *)
TypeOK ==
    /\ pc \in {"idle", "stage", "running", "enqueue", "notify", "broken",
               "stopping", "joining", "destroyed"}
    /\ stage \in 0 .. Len(Stages) + 1
    /\ run.chunk \in 0 .. Context /\ run.prompt \in BOOLEAN
    /\ ids.window_index <= ids.num_windows
    /\ positions.mask \subseteq 0 .. Context - 1
    /\ \A l \in Layers :
          /\ layer[l].window_size \in {1, Window}
          /\ Len(layer[l].in) = Context - layer[l].window_size
          /\ Len(layer[l].out) = layer[l].window_size
          /\ layer[l].buffers \in 0 .. 1
    /\ future \in [Records -> {"none", "pending", "ready", "failed"}]
    /\ \A i \in DOMAIN queue : queue[i].layers \in Records
    /\ worker.pc \in {"check", "asleep", "busy", "exited"}
    /\ worker.left \subseteq Layers

LastRows(n) == LET padded == Repeat(Fill, n) \o history
               IN  SubSeq(padded, Len(padded) - n + 1, Len(padded))

(* RunPipeline, windowed_kv_cache.cpp: a stage that runs finds in its      *)
(* layers' caches the rows of every earlier pass, in order and with none   *)
(* missing or doubled, and output buffers as wide as its window - though   *)
(* the updates run behind its back, one layer at a time, and may fail.     *)
StageReadsItsHistory ==
    pc = "running" =>
       \A l \in Stages[stage].layers :
          /\ layer[l].in = LastRows(Context - Len(ids.value))
          /\ Len(layer[l].out) = Len(ids.value)

(* decoder_only_pipeline.cpp 240-249: while a stage runs, no update of its *)
(* layers is queued or under way, and the buffers it was given are still   *)
(* the layers' own: an update may replace them.                            *)
StageOwnsItsBuffers ==
    pc = "running" =>
       /\ \A l \in DOMAIN bound : bound[l] = layer[l].buffers
       /\ \A i \in DOMAIN queue : queue[i].layers \cap Stages[stage].layers = {}
       /\ worker.pc = "busy" => worker.left \cap Stages[stage].layers = {}

(* windowed_position_inputs.cpp: the mask, filled backwards from an offset *)
(* of its own, selects exactly the real tokens among the cached rows and   *)
(* the window, and the position of each token of the window is its index   *)
(* in the unpadded sequence.                                               *)
InputsDescribeTheRows ==
    pc = "running" =>
       LET rows == LastRows(Context - Len(ids.value)) \o ids.value
       IN  /\ positions.mask = {i - 1 : i \in {j \in 1 .. Context : rows[j] > 0}}
           /\ \A i \in DOMAIN ids.value :
                 ids.value[i] > 0 => positions.ids[i] = ids.value[i] - 1

(* decoder_only_pipeline.h 105-108: no update touches the cache once it is *)
(* gone, whatever was queued or under way when the state was destroyed.    *)
CacheOutlivesItsUpdates == ~alive => worker.pc # "busy" /\ worker.pc # "check"

(* worker_thread.h: the worker is notified only when its queue was empty,  *)
(* yet a run that began ends, and a state being destroyed gets destroyed.  *)
RunsEnd ==
    /\ (pc \in {"stage", "running", "enqueue", "notify"}) ~> (pc \in {"idle", "broken"})
    /\ (pc \in {"stopping", "joining"}) ~> (pc = "destroyed")
=============================================================================
