----------------------------- MODULE GpuCluster -----------------------------
(***************************************************************************)
(* What GPU pods ask for and what GPU nodes say of themselves, as the      *)
(* admission webhook, VRAMScheduler and NUMATopology read it: annotations, *)
(* resource claims, node labels and ResourceSlices.  VRAM and memory are   *)
(* counted in GiB, CPUs in cores.                                          *)
(***************************************************************************)
EXTENDS ProfileClassifier, FiniteSetsExt, SequencesExt

CONSTANTS Nodes,
          Ask,         \* per pod: its GPU and NUMA wishes
          Board,       \* per node: its labels
          Templates,   \* the ResourceClaimTemplates of the namespace
          NoTemplate,  \* a claim that names no template
          Template,    \* per template: VRAM of its selectors, GPU class
          Slices       \* the ResourceSlices the drivers publish

GPUClasses == {"h100", "a100", "l4"}

NoClass == ""

NoLabel == -1   \* a numeric label that is missing
BadLabel == -2  \* one that does not parse

Spreads == {"packed", "balanced", "isolated", "other", "", "none"}

PodWishes(p) ==
    [class: GPUClasses \cup {NoClass},  \* GPU class in the user's nodeSelector
     otherGpu: BOOLEAN,    \* GPUs of another vendor, or in limits only
     claims: Seq([template: Templates \cup {NoTemplate}, gpuName: BOOLEAN]),
     policy: {"single-numa-node", "best-effort", "none", "other", ""},
     gang: STRING,         \* "" for no gang
     spread: Spreads,      \* "none" without the annotation
     prefer: SUBSET Nat, avoid: SUBSET Nat,
     memoryIntensive: BOOLEAN,
     weight: 0..100]       \* distance weight, 50 without the annotation

NumaLabels == [ok: BOOLEAN,       \* CPU and memory labels are there and parse
               cpus: Nat \ {0}, mem: Nat \ {0}, bandwidth: BOOLEAN]

ASSUME GpuClusterAssumption ==
    /\ IsFiniteSet(Pods) /\ IsFiniteSet(Nodes) /\ IsFiniteSet(Slices)
    /\ NoTemplate \notin Templates
    /\ \A t \in Templates : Template[t] \in [memory: Nat, gpuClass: BOOLEAN]
    /\ \A p \in Pods : Ask[p] \in PodWishes(p)
    /\ \A n \in Nodes : \A i \in DOMAIN Board[n].numa :
          /\ i \in Nat
          /\ Board[n].numa[i].labels \in NumaLabels
          /\ IsFiniteSet(DOMAIN Board[n].numa[i].distance)
          /\ \A j \in DOMAIN Board[n].numa[i].distance :
                Board[n].numa[i].distance[j] \in Nat
    /\ \A n \in Nodes : {Board[n].vram, Board[n].count}
                          \subseteq Nat \cup {NoLabel, BadLabel}
    /\ \A s \in Slices : s.node \in Nodes /\ \A d \in s.devices : d.vram \in Int
=============================================================================
