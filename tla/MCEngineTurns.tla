---------------------------- MODULE MCEngineTurns ----------------------------
(***************************************************************************)
(* Small instances of EngineTurns.                                         *)
(***************************************************************************)
EXTENDS EngineTurns

\* Two requests in one batch, with a second turn, through buffers that hold
\* one event of a step or most of them.
Sessions == [maxBatch |-> 2, maxVisible |-> 2, bufferSizes |-> {1, 3},
             maxTurns |-> 2, maxRequests |-> 2]
\* More requests than a batch serves.
Crowd == [maxBatch |-> 1, maxVisible |-> 2, bufferSizes |-> {1},
          maxTurns |-> 1, maxRequests |-> 3]
Both == {Sessions, Crowd}

\* One event at a time.
Small == {[maxBatch |-> 1, maxVisible |-> 1, bufferSizes |-> {1},
           maxTurns |-> 1, maxRequests |-> 2]}

\* Requests are interchangeable.
RequestSymmetry == Permutations(Requests)
=============================================================================
