---------------------------- MODULE ReplayTurns ----------------------------
(***************************************************************************)
(* What controlled replay promises, without its queue, workers, retries    *)
(* and faults: a run has one turn, which one request at a time takes; an   *)
(* administrator grants or ends the turn; a granted turn makes one run and *)
(* ends with it; and a request never takes a second turn.                  *)
(***************************************************************************)
EXTENDS Naturals

CONSTANTS Runs, Keys

VARIABLES
    turn,    \* per run: none or one request with whether it is granted
    spent,   \* the keys of the requests made so far
    made     \* per key: the runs its request has made

vars == <<turn, spent, made>>

Free == {}
Turn(k, granted) == {[key |-> k, granted |-> granted]}

Init ==
    /\ turn = [r \in Runs |-> Free]
    /\ spent = {}
    /\ made = [k \in Keys |-> 0]

Take(k, r) ==
    /\ turn[r] = Free
    /\ k \notin spent
    /\ turn' = [turn EXCEPT ![r] = Turn(k, FALSE)]
    /\ spent' = spent \cup {k}
    /\ UNCHANGED made

Grant(k, r) ==
    /\ turn[r] = Turn(k, FALSE)
    /\ turn' = [turn EXCEPT ![r] = Turn(k, TRUE)]
    /\ UNCHANGED <<spent, made>>

Refuse(k, r) ==
    /\ turn[r] = Turn(k, FALSE)
    /\ turn' = [turn EXCEPT ![r] = Free]
    /\ UNCHANGED <<spent, made>>

Make(k, r) ==
    /\ turn[r] = Turn(k, TRUE)
    /\ turn' = [turn EXCEPT ![r] = Free]
    /\ made' = [made EXCEPT ![k] = @ + 1]
    /\ UNCHANGED spent

Next ==
    \E k \in Keys, r \in Runs :
        Take(k, r) \/ Grant(k, r) \/ Refuse(k, r) \/ Make(k, r)

\* Nobody has to decide, and a granted turn may stay: its job may be a dead
\* letter.
Spec == Init /\ [][Next]_vars
=============================================================================
