----------------------------- MODULE MCPlacement -----------------------------
(* A GPU pod of a queue, a backfill pod with a sidecar that asks for       *)
(* memory only and a pod of another scheduler, on a reserved GPU island    *)
(* (n1) that gpuPod and otherPod overcommit together and on a node without *)
(* GPUs (n2).                                                              *)
EXTENDS Placement

CONSTANTS gpuPod, memPod, otherPod, n1, n2

Plain == [queue |-> FALSE, class |-> "none", priority |-> NoPriority,
          tierNote |-> "none", typeLabel |-> "none", typeNote |-> "none",
          interactive |-> FALSE, training |-> FALSE, serving |-> FALSE,
          batch |-> FALSE, gangMark |-> FALSE, group |-> FALSE,
          preemptible |-> "none", backfill |-> FALSE, priorityNote |-> "none",
          cpu |-> 1, mem |-> 1, gpu |-> 0]

MCAttr == [p \in Pods |->
    CASE p = gpuPod -> [Plain EXCEPT !.queue = TRUE, !.class = "high-priority",
                                !.cpu = 2, !.gpu = 3, !.batch = TRUE]
      [] p = memPod -> [Plain EXCEPT !.tierNote = "other", !.preemptible = "true",
                                !.backfill = TRUE, !.cpu = 0]
      [] p = otherPod -> [Plain EXCEPT !.gpu = 6, !.cpu = 2, !.mem = 2]]

MCExtra == [p \in Pods |-> [cpu |-> 0, mem |-> IF p = memPod THEN 1 ELSE 0, gpu |-> 0]]

MCHw == [n \in Nodes |->
    IF n = n1 THEN [cpu |-> 2, mem |-> 6, gpu |-> 8, zone |-> "z1", tier |-> "",
                    model |-> "premium", topology |-> "nvswitch",
                    pristine |-> "none", reserved |-> "silver"]
    ELSE [cpu |-> 3, mem |-> 4, gpu |-> 0, zone |-> "z2", tier |-> "economy",
          model |-> "", topology |-> "unknown", pristine |-> "none",
          reserved |-> "none"]]

MCNamespaceLabels ==
    {[tier |-> "gold", name |-> "dev"], [tier |-> "bronze", name |-> "prod"],
     [tier |-> "none", name |-> "none"], [tier |-> "other", name |-> "staging"]}
=============================================================================
