------------------------- MODULE MCApplyTransaction ------------------------
(* TLC instance of ApplyTransaction: the values of its constants.          *)
EXTENDS ApplyTransaction, TLC

CONSTANTS s1

OneSource == [x \in Raw \cup Runs |-> s1]

\* A late start and two ends of one run.
RacingPayloads ==
    [run : Runs, status : {"running"}, at : {1}]
        \cup [run : Runs, status : {"succeeded", "failed"}, at : {2}]

Alike == Permutations(Raw) \cup Permutations(Calls) \cup Permutations(Runs)
=============================================================================
