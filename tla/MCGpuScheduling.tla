-------------------------- MODULE MCGpuScheduling --------------------------
(* An instance of GpuScheduling for TLC: two GPU servers of two NUMA nodes *)
(* each and a gang of two whose members differ in all they can.            *)
EXTENDS GpuScheduling

CONSTANTS lead, mate, mixed, plain, model

Attributes(cpu, mem, gpu, queue) ==
    [queue |-> queue, class |-> "none", priority |-> NoPriority,
     tierNote |-> "silver", typeLabel |-> "none", typeNote |-> "none",
     interactive |-> FALSE, training |-> FALSE, serving |-> FALSE, batch |-> TRUE,
     gangMark |-> TRUE, group |-> FALSE, preemptible |-> "none",
     backfill |-> FALSE, priorityNote |-> "none",
     cpu |-> cpu, mem |-> mem, gpu |-> gpu]

\* The mate needs two GPUs; its memory makes it memory intensive.
PodAttr == [p \in {lead, mate} |-> IF p = lead THEN Attributes(4, 8, 1, TRUE)
                                              ELSE Attributes(2, 20, 2, FALSE)]

Wishes == [p \in {lead, mate} |->
    [class |-> NoClass, otherGpu |-> FALSE,
     claims |-> IF p = lead THEN <<>>
                ELSE <<[template |-> NoTemplate, gpuName |-> FALSE],
                       [template |-> model, gpuName |-> TRUE]>>,
     policy |-> IF p = lead THEN "best-effort" ELSE "other",
     gang |-> "gang", spread |-> IF p = lead THEN "balanced" ELSE "none",
     prefer |-> IF p = lead THEN {} ELSE {1}, avoid |-> IF p = lead THEN {} ELSE {2},
     memoryIntensive |-> FALSE, weight |-> 50]]

Annotations == [p \in {lead, mate} |-> IF p = lead THEN {0, 75} ELSE {30, 75}]

\* The template asks for 100 GiB.
TemplateOf == [t \in {model} |-> [memory |-> 100, gpuClass |-> TRUE]]

NumaNode(ok, cpus, mem, bandwidth, distance) ==
    [labels |-> [ok |-> ok, cpus |-> cpus, mem |-> mem, bandwidth |-> bandwidth],
     distance |-> distance]

Near == [j \in {0, 1} |-> 20]

\* The mixed server has a GPU of 141 and one of 40 GiB and a label that says
\* 141 for both; the plain one has only its model label, which stands for 80,
\* and a GPU of 80 and one of 64 GiB.
Boards == [n \in {mixed, plain} |->
    IF n = mixed
    THEN [numa |-> [i \in 0..2 |-> NumaNode(i # 0, 8, 32, i = 1, Near)],
          nfd |-> [id \in {"20b0", "ffff"} |-> [present |-> id = "20b0", count |-> 1]],
          nfdNuma |-> 2, model |-> "H200", vram |-> 141, count |-> 2,
          class |-> "h100", gpuNuma |-> [g \in {0, 1} |-> 1]]
    ELSE [numa |-> [i \in 0..1 |-> NumaNode(TRUE, 8, 32, FALSE, Near)],
          nfd |-> [id \in {"ffff"} |-> [present |-> TRUE, count |-> NoLabel]],
          nfdNuma |-> 0, model |-> "H100", vram |-> NoLabel, count |-> 2,
          class |-> "l4", gpuNuma |-> [g \in {} |-> 0]]]

Gpus == [n \in {mixed, plain} |-> IF n = mixed THEN <<141, 40>> ELSE <<80, 64>>]

Device(name, vram) == [name |-> name, vram |-> vram, numa |-> 1, domain |-> 0,
                       peers |-> 1, switch |-> "", model |-> "H200"]

\* One slice for each GPU of the mixed server.
Published == {[node |-> mixed, gpuDriver |-> TRUE, devices |-> {Device(1, 141)}],
              [node |-> mixed, gpuDriver |-> TRUE, devices |-> {Device(2, 40)}]}
=============================================================================
