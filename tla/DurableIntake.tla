--------------------------- MODULE DurableIntake ---------------------------
(***************************************************************************)
(* What the event pipeline promises of one provider event, without its     *)
(* workers, timeouts and retries: the event is stored, its job is queued   *)
(* once, and a queued job leaves the queue for good, either because the    *)
(* event was processed or because the job was moved to the dead letters.   *)
(***************************************************************************)
CONSTANT Raw

VARIABLE fate   \* per raw event: how far it has come

Fates == {"unseen", "stored", "queued", "finished", "buried"}

Init == fate = [e \in Raw |-> "unseen"]

Move(e, from, to) ==
    /\ fate[e] = from
    /\ fate' = [fate EXCEPT ![e] = to]

Store(e) == Move(e, "unseen", "stored")
Queue(e) == Move(e, "stored", "queued")
Settle(e) == Move(e, "queued", "finished") \/ Move(e, "queued", "buried")

Next == \E e \in Raw : Store(e) \/ Queue(e) \/ Settle(e)

\* Nothing obliges the webhook to go from stored to queued.
Fairness == \A e \in Raw : WF_fate(Settle(e))

Spec == Init /\ [][Next]_fate /\ Fairness

\* The part of Spec that every prefix of a behaviour shows.
SafeSpec == Init /\ [][Next]_fate
=============================================================================
