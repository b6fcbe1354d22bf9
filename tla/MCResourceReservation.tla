----------------------- MODULE MCResourceReservation -----------------------
(* Instances of ResourceReservation for TLC: one gang of two, two of one.  *)
EXTENDS ResourceReservation

CONSTANTS a1, a2, ga, gb

Label(g) == [newName |-> g, newMin |-> 2,
             legacyName |-> NoGroup, legacyMin |-> NoMin]

Gang == [p \in Pods |-> Label(ga)]
TwoGangs == [p \in Pods |-> IF p = a1 THEN Label(ga) ELSE Label(gb)]
=============================================================================
