------------------------- MODULE MCGangScheduling -------------------------
(* Instances of GangScheduling for TLC: who carries which labels.          *)
EXTENDS GangScheduling, TLC

CONSTANTS a1, a2, a3, a4, b1, c1, ga, gb

New(g, m) == [newName |-> g, newMin |-> m,
              legacyName |-> NoGroup, legacyMin |-> NoMin]
Legacy(g, m) == [newName |-> NoGroup, newMin |-> NoMin,
                 legacyName |-> g, legacyMin |-> m]
Unlabelled == New(NoGroup, NoMin)

\* Gang ga is complete with its last member, so that two are held before it;
\* b1 waits alone for a gang that never comes.
FourAndOne == [p \in {a1, a2, a3, a4, b1} |->
    IF p = b1 THEN Legacy(gb, 2) ELSE New(ga, 4)]

\* Three pods of a gang that asks for four.
OneShort == [p \in {a1, a2, a3} |-> New(ga, 4)]

\* A complete gang with legacy labels, and a pod of its own.
LegacyGang == [p \in {a1, a2, c1} |->
    IF p = c1 THEN Unlabelled ELSE Legacy(ga, 2)]

\* The members of ga are interchangeable.
MembersOfA == Permutations({a1, a2, a3, a4})

NotGang == [p \in Pods |-> FALSE]
=============================================================================
