------------------------------ MODULE MCThreads ------------------------------
(***************************************************************************)
(* Small instances of the two parts that keep threads of their own: the    *)
(* thread pool, and the pipeline with its update worker.  `which' says     *)
(* which of them a behaviour is about; the other is never used.            *)
(***************************************************************************)
EXTENDS ThreadPool, Sequences

CONSTANTS w1, w2, s1, s2

VARIABLES which, pipeline, main, stage, run, ids, positions, layer, bound,
          future, queue, notify, stop, worker, alive, history

pipelineVars == <<pipeline, main, stage, run, ids, positions, layer, bound,
                  future, queue, notify, stop, worker, alive, history>>

-----------------------------------------------------------------------------
(* Pools.  A loop of one index runs inline; three and four indices divide  *)
(* evenly and unevenly into the chunks.                                    *)

TwoWorkers == [workers |-> {w1, w2}, callers |-> {s1}, totals |-> {1, 3, 4}]
TwoCallers == [workers |-> {w1}, callers |-> {s1, s2}, totals |-> {1, 3}]
Pools == {TwoWorkers, TwoCallers}

-----------------------------------------------------------------------------
(* Pipelines: the same stages in both phases, or stages for the prompt and *)
(* others, over the same layers, for the tokens.                           *)

Stage(ls, prompt, token, head) ==
    [layers |-> ls, prompt |-> prompt, token |-> token, head |-> head]

Common ==
    [layers |-> {1, 2, 3}, window |-> 3, context |-> 8, prompts |-> {1, 2, 4, 6},
     stages |-> << Stage({}, TRUE, TRUE, FALSE), Stage({1, 2}, TRUE, TRUE, FALSE),
                   Stage({3}, TRUE, TRUE, FALSE), Stage({}, TRUE, TRUE, TRUE) >>]
Split ==
    [layers |-> {1, 2}, window |-> 2, context |-> 6, prompts |-> {1, 3, 4, 5},
     stages |-> << Stage({1}, TRUE, FALSE, FALSE), Stage({2}, TRUE, FALSE, FALSE),
                   Stage({1}, FALSE, TRUE, FALSE), Stage({2}, FALSE, TRUE, FALSE),
                   Stage({}, TRUE, TRUE, TRUE) >>]
Pipelines == {Common, Split}

Pipeline == INSTANCE PipelineCache WITH
    config <- pipeline, pc <- main, Configurations <- Pipelines

ASSUME Pipeline!PipelineAssumption

-----------------------------------------------------------------------------

allVars == <<which, vars, pipelineVars>>

ThreadsInit ==
    /\ which \in {"pool", "pipeline"}
    /\ Init /\ Pipeline!Init
    /\ which = "pool" => pipeline = Split
    /\ which = "pipeline" =>
          config = TwoWorkers /\ size = [s \in config.callers |-> 1]

ThreadsNext ==
    \/ which = "pool" /\ Next /\ UNCHANGED <<which, pipelineVars>>
    \/ which = "pipeline" /\ Pipeline!Next /\ UNCHANGED <<which, vars>>

ThreadsSpec ==
    /\ ThreadsInit /\ [][ThreadsNext]_allVars
    /\ which = "pool" => Fairness
    /\ which = "pipeline" => Pipeline!Fairness

-----------------------------------------------------------------------------
(* Properties of both. *)

(* A stage that runs has the buffers of its layers to itself, finds in them  *)
(* every earlier row once and in order, whatever the update worker does      *)
(* meanwhile, and is given a mask and positions that describe exactly those  *)
(* rows; no update outlives the cache (decoder_only_pipeline.cpp,            *)
(* windowed_kv_cache.cpp, windowed_position_inputs.cpp).                     *)
StagesAndUpdatesAgree ==
    /\ Pipeline!StageOwnsItsBuffers /\ Pipeline!StageReadsItsHistory
    /\ Pipeline!InputsDescribeTheRows /\ Pipeline!CacheOutlivesItsUpdates

(* What was begun ends: every loop returns and the pool can be destroyed; a  *)
(* run of the pipeline ends, and a state being destroyed joins its worker.   *)
(* No wake-up is lost, and nobody waits for a lock that it holds             *)
(* (threadpool.cpp, worker_thread.h).                                        *)
EverythingEnds ==
    (which = "pool" => PoolDrains) /\ Pipeline!RunsEnd
=============================================================================
