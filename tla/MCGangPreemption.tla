------------------------- MODULE MCGangPreemption -------------------------
(* A gang of two (a1, a2) on a cluster it has to share with a member of a  *)
(* gang of lower standing (b) and with a single pod of its own tier (s).   *)
EXTENDS GangPreemption

CONSTANTS a1, a2, b, s, gA, gB, n1, n2

New(g, min) == [newName |-> g, newMin |-> min,
                legacyName |-> NoGroup, legacyMin |-> NoMin]

MCLabels == [p \in Pods |-> CASE p \in {a1, a2} -> New(gA, 2)
                              [] p = b -> New(gB, 2)
                              [] p = s -> New(NoGroup, NoMin)]

MCResources == {"cpu", "gpu"}

Amount(cpu, gpu) == [r \in MCResources |-> IF r = "cpu" THEN cpu ELSE gpu]

\* What a1 takes its gang to need, only b and s together can give; for what
\* a2 takes it to need, either will do.
MCRequest == [p \in Pods |-> CASE p = a1 -> Amount(1, 1)
                               [] p = a2 -> Amount(1, 0)
                               [] p \in {b, s} -> Amount(2, 1)]

\* Or: b outranks the gang of two, and the room of one of its members is all
\* that b takes its own gang to need.
SmallRequest == [p \in Pods |-> IF p = b THEN Amount(1, 0) ELSE Amount(2, 0)]
SmallPriority == [p \in Pods |-> IF p = b THEN 5 ELSE 1]

MCAllocatable == [n \in Nodes |-> Amount(2, 1)]
MCEligible == [p \in Pods |-> Nodes]

MCPriority == [p \in Pods |-> CASE p \in {a1, a2} -> 5
                                [] p = b -> 1
                                [] p = s -> 0]

MCProfileTier == [p \in Pods |-> IF p \in {a1, a2} THEN "silver" ELSE "bronze"]
MCQueueTier == [p \in Pods |-> IF p = s THEN "silver" ELSE "none"]
MCNamespaceTier == [p \in Pods |-> "none"]
=============================================================================
