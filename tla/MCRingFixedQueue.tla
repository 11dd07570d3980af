-------------------------- MODULE MCRingFixedQueue --------------------------
(* Instances of RingFixedQueue for TLC. *)
EXTENDS RingFixedQueue, TLC

CONSTANTS c1, c2, c3

OneConsumer == {c1}
TwoConsumers == {c1, c2}
ThreeConsumers == {c1, c2, c3}

ConsumerSymmetry == Permutations(Poppers)
=============================================================================
