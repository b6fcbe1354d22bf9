----------------------------- MODULE NodeScoring -----------------------------
(***************************************************************************)
(* The scores of the plugins WorkloadAwareScoring, TopologyScoring,        *)
(* BackfillScoring, ResourceFragmentationScore and                         *)
(* TenantHardwareAffinityScore, and the Filter of ResourceFragmentation,   *)
(* as functions of the pod, its profile (NoProfile where ProfileClassifier *)
(* is not enabled), the node and the pods counted on it.  Floating-point   *)
(* percentages are exact fractions here, cut to integers where the code    *)
(* converts them.                                                          *)
(***************************************************************************)
EXTENDS ProfileClassifier, FiniteSetsExt

CONSTANTS Nodes,
          Hw,    \* what each node offers and how it is labelled
          Extra  \* what NodeInfo counts of a pod beyond its containers

NodeAttributes ==
    [cpu: Nat, mem: Nat, gpu: Nat,
     zone: STRING,       \* "" without the label
     tier: {"premium", "standard", "economy", "other", ""},
     model: {"premium", "standard", "economy", "other", ""},
     topology: {"nvswitch", "nvlink", "pcie", "unknown"},
     pristine: {"true", "false", "none"},
     reserved: TierLabels]

ASSUME ScoringAssumption ==
    /\ IsFiniteSet(Pods) /\ IsFiniteSet(Nodes)
    /\ \A n \in Nodes : Hw[n] \in NodeAttributes
    /\ \A p \in Pods : Extra[p] \in [cpu: Nat, mem: Nat, gpu: Nat]

\* What the containers of some pods request: Backfill and ResourceFragmentation
\* add that up themselves.
Cpu(S) == SumFunctionOnSet([p \in Pods |-> Attr[p].cpu], S)
Mem(S) == SumFunctionOnSet([p \in Pods |-> Attr[p].mem], S)
Gpu(S) == SumFunctionOnSet([p \in Pods |-> Attr[p].gpu], S)

\* What NodeInfo.GetRequested has of them: init containers, sidecars and the
\* pods' overhead are in it, too.
Requested(S) ==
    [cpu |-> Cpu(S) + SumFunctionOnSet([p \in Pods |-> Extra[p].cpu], S),
     mem |-> Mem(S) + SumFunctionOnSet([p \in Pods |-> Extra[p].mem], S),
     gpu |-> Gpu(S) + SumFunctionOnSet([p \in Pods |-> Extra[p].gpu], S)]

Least(a, b) == IF a <= b THEN a ELSE b

-----------------------------------------------------------------------------
(* WorkloadAwareScoring.  A utilization is the fraction num / den percent. *)

Zero == [num |-> 0, den |-> 1]

\* 35 % CPU, 35 % memory and 30 % GPU, each capped at the whole node.
WeightedAverage(n, cpu, mem, gpu) ==
    LET h == Hw[n]
        g == IF h.gpu = 0 THEN 1 ELSE h.gpu
    IN  [num |-> 35 * Least(cpu, h.cpu) * h.mem * g
                 + 35 * Least(mem, h.mem) * h.cpu * g
                 + 30 * Least(gpu, h.gpu) * h.cpu * h.mem,
         den |-> h.cpu * h.mem * g]

\* Mutation of calculateNodeUtilization: the shares are not capped.
calculateNodeUtilizationUncapped(n, S) ==
    LET h == Hw[n]
        g == IF h.gpu = 0 THEN 1 ELSE h.gpu
        r == Requested(S)
    IN  IF h.cpu = 0 \/ h.mem = 0 THEN Zero
        ELSE [num |-> 35 * r.cpu * h.mem * g + 35 * r.mem * h.cpu * g
                      + 30 * r.gpu * h.cpu * h.mem,
              den |-> h.cpu * h.mem * g]

\* Mutation of calculateNodeUtilization: the requests are looked up by a name
\* that GPUs do not have.
calculateNodeUtilizationNoGpu(n, S) ==
    LET r == Requested(S)
    IN  IF Hw[n].cpu = 0 \/ Hw[n].mem = 0 THEN Zero
        ELSE WeightedAverage(n, r.cpu, r.mem, 0)

calculateNodeUtilization(n, S) ==
    LET r == Requested(S)
    IN  IF Hw[n].cpu = 0 \/ Hw[n].mem = 0 THEN Zero
        ELSE WeightedAverage(n, r.cpu, r.mem, r.gpu)

Percent(u) == u.num \div u.den
Complement(u) == [num |-> 100 * u.den - u.num, den |-> u.den]

TypeOrFallback(p, profile) ==
    IF profile = NoProfile THEN ClassifyPod(p) ELSE profile.type

\* Batch packs, everything else spreads.
WorkloadAwareScore(p, profile, n, S) ==
    LET u == calculateNodeUtilization(n, S)
    IN  IF TypeOrFallback(p, profile) \in {"batch", "training"}
        THEN Percent(u) ELSE Percent(Complement(u))

-----------------------------------------------------------------------------
(* TopologyScoring: despite its names it counts nodes, not pods.           *)

calculateZoneDistribution(known, zone) ==
    Cardinality({m \in known : Hw[m].zone = zone /\ zone # ""})

TopologyScore(p, profile, n, known) ==
    LET total == Cardinality({m \in known : Hw[m].zone # ""})
        here  == calculateZoneDistribution(known, Hw[n].zone)
    IN  IF TypeOrFallback(p, profile) \in {"batch", "training"} THEN 50
        ELSE IF Hw[n].zone = "" THEN 50
        ELSE IF total = 0 THEN 100
        ELSE (100 * (total - here)) \div total

-----------------------------------------------------------------------------
(* BackfillScoring.                                                        *)

isBackfillEligible(p) ==
    Attr[p].backfill \/ (Attr[p].priority # NoPriority /\ Attr[p].priority <= 100)

getPreemptibilityFromProfile(p, profile) ==
    IF profile = NoProfile THEN isBackfillEligible(p) ELSE profile.preemptible

\* Without a profile a pod counts as bronze.
getPodTenantTier(profile) == IF profile = NoProfile THEN "bronze" ELSE profile.tier

\* A tier that is not one of the three has rank 0.
TierRank(t) == CASE t = "gold" -> 3 [] t = "silver" -> 2 [] t = "bronze" -> 1
                 [] OTHER -> 0

\* The points a pod of a lower tier loses on a reserved node.
calculateTenantAdjustment(tier, n) ==
    IF TierRank(tier) < TierRank(Hw[n].reserved)
    THEN 15 * (TierRank(Hw[n].reserved) - TierRank(tier)) ELSE 0

\* Its own copy of the weighted average, over the containers of the pods that
\* the informer shows.  The tenant penalty lowers what a regular pod sees and
\* not the idle share that a backfill pod is scored by.
BackfillScore(p, profile, n, S) ==
    LET u == WeightedAverage(n, Cpu(S), Mem(S), Gpu(S))
        lowered == u.num - calculateTenantAdjustment(getPodTenantTier(profile), n) * u.den
    IN  IF Hw[n].cpu = 0 \/ Hw[n].mem = 0 THEN 50
        ELSE IF getPreemptibilityFromProfile(p, profile)
          THEN Percent(Complement(u))
        ELSE IF lowered < 0 THEN 0
        ELSE lowered \div u.den

-----------------------------------------------------------------------------
(* ResourceFragmentationScore.                                             *)

\* A pod may use a node reserved for its own tier or a lower one.
isTenantAllowed(tier, nodeTier) == TierRank(tier) >= TierRank(nodeTier)

Reserved(n) == Hw[n].reserved # "none"

IslandQuality(n) == CASE Hw[n].topology = "nvswitch" -> 100
                      [] Hw[n].topology = "nvlink"   -> 80
                      [] Hw[n].topology = "pcie"     -> 50
                      [] OTHER                       -> 30

\* detectGPUIsland; a node without GPUs has no island.
Island(n, S) ==
    [total |-> Hw[n].gpu, allocated |-> Gpu(S), available |-> Hw[n].gpu - Gpu(S),
     pristine |-> IF Hw[n].pristine = "none" THEN Gpu(S) = 0
                  ELSE Hw[n].pristine = "true"]

\* Mutation of FragmentationFilter: the tier of the node is not compared.
FragmentationFilterAnyTenant(p, profile, n, S) ==
    Attr[p].gpu > 0 => Hw[n].gpu > 0 /\ Island(n, S).available >= Attr[p].gpu

FragmentationFilter(p, profile, n, S) ==
    Attr[p].gpu > 0 =>
      /\ Hw[n].gpu > 0
      /\ Island(n, S).available >= Attr[p].gpu
      /\ Reserved(n) => isTenantAllowed(getPodTenantTier(profile), Hw[n].reserved)

scoreCPUMemoryFragmentation(n, S) ==
    IF Hw[n].cpu > 0 THEN (100 * Cpu(S)) \div Hw[n].cpu ELSE 0

calculateWorkloadFragmentationPenalty(p, type, n, S) ==
    LET i == Island(n, S) IN
    CASE /\ type \in {"training", "batch"}
         /\ IslandQuality(n) >= 80 /\ i.total >= 8
         /\ Attr[p].gpu < i.total \div 2 /\ ~i.pristine        -> 30
      [] /\ type = "interactive"
         /\ (100 * i.allocated) \div i.total > 75              -> 15
      [] OTHER                                                 -> 0

\* The score of an island for a tenant that may use it, with no workload
\* penalty: small requests stay off large pristine islands, a perfect fit and
\* the completion of a started island are preferred.
IslandScore(p, n, S) ==
    LET i == Island(n, S)
        want == Attr[p].gpu
    IN  IF i.pristine /\ i.total >= 4 /\ want <= 2 THEN 0
        ELSE IF i.available = want THEN 90
        ELSE IF ~i.pristine /\ i.available >= want
          THEN 100 - (i.available - want)
        ELSE IF i.total >= 4 /\ want < i.total \div 2
          THEN 20 + IslandQuality(n) \div 10
        ELSE (100 * i.allocated) \div i.total

FragmentationScore(p, profile, n, S) ==
    LET type == IF profile = NoProfile THEN "unknown" ELSE profile.type
        penalty == calculateWorkloadFragmentationPenalty(p, type, n, S)
    IN  IF Hw[n].gpu = 0 \/ Attr[p].gpu = 0
          THEN scoreCPUMemoryFragmentation(n, S)
        ELSE IF /\ Reserved(n)
                /\ ~isTenantAllowed(getPodTenantTier(profile), Hw[n].reserved)
          THEN 10
        ELSE IF penalty > 0 THEN penalty
        ELSE IslandScore(p, n, S)

-----------------------------------------------------------------------------
(* TenantHardwareAffinityScore.                                            *)

mapTenantTierToPriority(tier) == CASE tier = "gold"   -> "high-priority"
                                   [] tier = "silver" -> "medium-priority"
                                   [] tier = "bronze" -> "low-priority"
                                   [] OTHER           -> "medium-priority"

\* Without a profile: the pod's annotation, then its priority class by name.
getTenantPriority(p) ==
    IF Attr[p].priorityNote # "none" THEN Attr[p].priorityNote
    ELSE IF Attr[p].class \in {"high-priority", "system-cluster-critical",
            "system-node-critical"}
      THEN "high-priority"
    ELSE IF Attr[p].class \in {"low-priority", "best-effort"}
      THEN "low-priority"
    ELSE "medium-priority"

getHardwareTier(n) == IF Hw[n].tier # "" THEN Hw[n].tier
                      ELSE IF Hw[n].model = "other" THEN "" ELSE Hw[n].model

PerfectMatch == {<<"high-priority", "premium">>, <<"medium-priority", "standard">>,
                 <<"low-priority", "economy">>}

calculateAffinityScore(priority, hardware) ==
    CASE hardware = ""                                               -> 50
      [] <<priority, hardware>> \in PerfectMatch                     -> 100
      [] priority = "high-priority" /\ hardware = "economy"          -> 60
      [] priority = "medium-priority" /\ hardware = "premium"        -> 20
      [] priority = "low-priority" /\ hardware \in {"premium", "standard"} -> 20
      [] OTHER                                                       -> 70

TenantHardwareScore(p, profile, n) ==
    calculateAffinityScore(IF profile = NoProfile THEN getTenantPriority(p)
                           ELSE mapTenantTierToPriority(profile.tier),
                           getHardwareTier(n))
=============================================================================
