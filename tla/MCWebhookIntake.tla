-------------------------- MODULE MCWebhookIntake --------------------------
(* TLC instance of WebhookIntake: two bodies, one without an identity.     *)
EXTENDS WebhookIntake, TLC

TwoBodies == {[event_id |-> "e1", id |-> NoName],
              [event_id |-> NoName, id |-> NoName]}

Alike == Permutations(Keys) \cup Permutations(Requests) \cup Permutations(Calls)
            \cup Permutations(Sources)
=============================================================================
