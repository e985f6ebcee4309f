-------------------------- MODULE MCEventPipeline --------------------------
(* TLC instance of EventPipeline: the values of its constants.             *)
EXTENDS EventPipeline, TLC

CONSTANTS s1, w1, w2, f1

OneSource == [x \in Raw \cup Runs |-> s1]

TwoWorkers == {w1, w2}
WorkersAndApi == {w1, w2, f1}

\* One event whose only failures are the faults of the platform.
Finished == [run : Runs, status : {"succeeded"}, at : {1}]

\* Two events that conflict when they arrive in the wrong order.
Conflicting ==
    [run : Runs, status : {"failed"}, at : {2}]
        \cup [run : Runs, status : {"running"}, at : {1}]

PipelineAlike ==
    Permutations(TwoWorkers) \cup Permutations(Raw)
        \cup Permutations(Deliveries)
=============================================================================
