------------------------- MODULE MCCanonicalEvents -------------------------
(* TLC instance of CanonicalEvents and of the rules stated about it.       *)
EXTENDS RuleAgreement, TLC

CONSTANTS s1, r1, r2

OneSource == [x \in Raw \cup Runs |-> s1]

\* A run that starts, fails or times out, perhaps on an older clock, and
\* another run of the same source that times out early.
MainPayloads ==
    [run : {r1}, status : {"running", "failed"}, at : 1..2]
        \cup [run : {r1, r2}, status : {"timed_out"}, at : {1}]
        \cup [run : {r1}, status : {"succeeded"}, at : {2}]

Alike == Permutations(Raw) \cup Permutations(Calls)
=============================================================================
