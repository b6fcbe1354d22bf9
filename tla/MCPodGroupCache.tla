-------------------------- MODULE MCPodGroupCache --------------------------
(* Instances of PodGroupCache for TLC.                                     *)
EXTENDS PodGroupCache

CONSTANTS p1, p2, p3, g1, g2, s1

Label(g) == [newName |-> g, newMin |-> IF g = NoGroup THEN NoMin ELSE 2,
             legacyName |-> NoGroup, legacyMin |-> NoMin]

\* Two gangs, and a more important pod of its own.
TwoGangsAndPod == [p \in {p1, p2, p3} |->
    CASE p = p1 -> Label(g1) [] p = p2 -> Label(g2) [] p = p3 -> Label(NoGroup)]
RaisedThird == [p \in {p1, p2, p3} |-> IF p = p3 THEN 1 ELSE 0]
KeyByGang == [p \in {p1, p2, p3} |-> CASE p = p1 -> 1 [] p = p2 -> 2 [] p = p3 -> 0]
=============================================================================
