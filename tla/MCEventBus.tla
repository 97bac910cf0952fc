----------------------------- MODULE MCEventBus -----------------------------
(* Instances of EventBus for TLC: two clients, each with an id of its own or *)
(* both with the same, the second one asking for a replay or not.           *)
EXTENDS EventBus, TLC

CONSTANTS c1, c2, i1, i2

OwnIds == (c1 :> i1) @@ (c2 :> i2)

AllAndOdd == (c1 :> Events) @@ (c2 :> {e \in Events : e % 2 = 1})

SecondReplays == (c1 :> 0) @@ (c2 :> 2)
=============================================================================
