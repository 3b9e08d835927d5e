------------------------------- MODULE MCFleet -------------------------------
(* Small instances of FleetManager for TLC. *)
EXTENDS FleetManager, TLC

CONSTANTS u1, u2, u3, u4, k1, k2, k3

OnePair == {[key |-> k1, users |-> {u1, u2}]}
Chain == {[key |-> k1, users |-> {u1, u2}], [key |-> k2, users |-> {u2, u3}],
          [key |-> k3, users |-> {u3, u4}]}

\* Nothing tells the two players of a request apart, nor the controllers.
Players == Permutations({u1, u2})
Controllers == Permutations(Controller)
Both == Players \cup Controllers

\* Reading the chain of requests from its other end is the same instance.
Reversal == {u1 :> u4 @@ u2 :> u3 @@ u3 :> u2 @@ u4 :> u1 @@
             k1 :> k3 @@ k2 :> k2 @@ k3 :> k1}

RetryAtOnce == [n \in 1..1 |-> 1]

Healthy == [ready |-> TRUE, pending |-> FALSE, overloaded |-> FALSE]
HealthyOnly == {Healthy}
\* A stalled process is unready and overloaded, with work it has not finished.
Stalled == [ready |-> FALSE, pending |-> TRUE, overloaded |-> TRUE]
HealthyOrStalled == {Healthy, Stalled}

MostRooms == {[state |-> "closed", users |-> {}], [state |-> "other", users |-> {}]} \cup
             [state : {"playing"}, users : SUBSET User]
OnlyClosed == {[state |-> "closed", users |-> {}]}
ClosedOrPlaying == {[state |-> "closed", users |-> {}],
                    [state |-> "playing", users |-> {u1, u2}]}
=============================================================================
