--------------------------- MODULE MCNetworkFabric ---------------------------
(* A gang of three that requires one clique (a1, a2, a3) and two cliques:  *)
(* n1 and n2 carry the label of theirs, n3 shares n2's by its slices only. *)
EXTENDS NetworkFabric

CONSTANTS a1, a2, a3, n1, n2, n3

MCPodGroup == [p \in Pods |-> "ga"]
MCStrict == Pods
MCSensitive == Pods \cap {a2}
MCMinFabricTier == [p \in Pods |-> IF p = a3 THEN "roce" ELSE "unknown"]
MCWorkloadType == [p \in Pods |-> IF p = a1 THEN "inference" ELSE "training"]

MCFabricType == [n \in Nodes |-> IF n = n3 THEN "ethernet" ELSE "infiniband"]
MCFabricID == [n \in Nodes |-> "f1"]
MCRackID == [n \in Nodes |-> IF n = n1 THEN "r1" ELSE "r2"]
MCAZ == [n \in Nodes |-> IF n = n3 THEN "" ELSE "z1"]
MCCliqueLabel == [n \in Nodes |-> CASE n = n1 -> "c1" [] n = n2 -> "c2" [] OTHER -> ""]
MCSliceClique == [n \in Nodes |-> IF n = n3 THEN "c2" ELSE ""]
=============================================================================
