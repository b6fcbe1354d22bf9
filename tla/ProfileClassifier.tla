-------------------------- MODULE ProfileClassifier --------------------------
(***************************************************************************)
(* How a pod is classified (pkg/plugins/profileclassifier and              *)
(* pkg/workload): its tenant tier, its workload type, whether it is a gang *)
(* member and whether it may be preempted.  Names, images and labels that  *)
(* the code matches text against are reduced to what the match says.       *)
(***************************************************************************)
EXTENDS Integers

CONSTANTS Pods,
          Attr   \* the attributes of each pod that are looked at

Tiers == {"gold", "silver", "bronze"}

\* Values of a tier label: a tier, something else, or no label.
TierLabels == Tiers \cup {"other", "none"}

WorkloadTypes == {"training", "inference", "batch", "service", "interactive"}

TypeLabels == WorkloadTypes \cup {"other", "none"}

PriorityClasses == {"high-priority", "system-cluster-critical",
                    "system-node-critical", "medium-priority",
                    "default-priority", "low-priority", "best-effort",
                    "other", "none"}

NoPriority == "none"

\* queue: the pod names a Kueue queue.  interactive, training, serving and
\* batch: some label, image or owner says so.  gangMark: one of the marks of
\* isGangPod.  group: the pod-group labels name a gang of at least one.
PodAttributes ==
    [queue: BOOLEAN, class: PriorityClasses, priority: {NoPriority} \cup Int,
     tierNote: TierLabels, typeLabel: TypeLabels, typeNote: TypeLabels,
     interactive: BOOLEAN, training: BOOLEAN, serving: BOOLEAN, batch: BOOLEAN,
     gangMark: BOOLEAN, group: BOOLEAN,
     preemptible: {"true", "false", "none"}, backfill: BOOLEAN,
     priorityNote: {"high-priority", "medium-priority", "low-priority",
                    "other", "none"},
     cpu: Nat, mem: Nat, gpu: Nat]

ASSUME ClassifierAssumption == \A p \in Pods : Attr[p] \in PodAttributes

-----------------------------------------------------------------------------
(* Tenant tiers.                                                           *)

parseTenantTier(label) == IF label \in Tiers THEN label ELSE "unknown"

inferTierFromName(name) == CASE name = "prod"    -> "gold"
                             [] name = "staging" -> "silver"
                             [] name = "dev"     -> "bronze"
                             [] OTHER            -> "unknown"

\* Mutation of getTenantFromKueue: the name label is asked before the tier.
getTenantFromKueueByName(ns) ==
    IF ns.name # "none" /\ inferTierFromName(ns.name) # "unknown"
      THEN inferTierFromName(ns.name)
    ELSE IF parseTenantTier(ns.tier) # "unknown" THEN parseTenantTier(ns.tier)
    ELSE IF ns.name # "none" THEN "bronze"
    ELSE "unknown"

\* What the namespace ns says of a pod that names a queue.
getTenantFromKueue(ns) ==
    IF parseTenantTier(ns.tier) # "unknown" THEN parseTenantTier(ns.tier)
    ELSE IF ns.name = "none" THEN "unknown"
    ELSE IF inferTierFromName(ns.name) # "unknown"
      THEN inferTierFromName(ns.name)
    ELSE "bronze"

\* What it says of every pod.
getTenantFromNamespace(ns) == parseTenantTier(ns.tier)

getTenantFromPriority(p) ==
    CASE Attr[p].class \in {"high-priority", "system-cluster-critical",
                            "system-node-critical"}             -> "gold"
      [] Attr[p].class \in {"medium-priority", "default-priority"} -> "silver"
      [] Attr[p].class \in {"low-priority", "best-effort"}         -> "bronze"
      [] OTHER                                                  -> "unknown"

getTenantFromAnnotations(p) == parseTenantTier(Attr[p].tierNote)

\* Mutation of TierOfPodItself: no tier is assumed at the end.
TierOfPodItselfOpen(p) ==
    CASE getTenantFromPriority(p) # "unknown" -> getTenantFromPriority(p)
      [] OTHER                                -> getTenantFromAnnotations(p)

\* The tier of a pod of which its namespace said nothing.
TierOfPodItself(p) ==
    IF getTenantFromPriority(p) # "unknown" THEN getTenantFromPriority(p)
    ELSE IF getTenantFromAnnotations(p) # "unknown"
      THEN getTenantFromAnnotations(p)
    ELSE "bronze"

-----------------------------------------------------------------------------
(* Workload types.                                                         *)

parseWorkloadType(label) == IF label \in WorkloadTypes THEN label ELSE "unknown"

\* workload.ClassifyPod: a label other than batch makes the pod a service.
ClassifyPod(p) ==
    IF Attr[p].group THEN "batch"
    ELSE IF Attr[p].typeLabel = "batch" THEN "batch"
    ELSE IF Attr[p].typeLabel # "none" THEN "service"
    ELSE IF Attr[p].batch THEN "batch"
    ELSE "service"

isGangPod(p) == Attr[p].gangMark

isTrainingWorkload(p) == Attr[p].training \/ isGangPod(p) \/ Attr[p].gpu > 1

isInferenceWorkload(p) == Attr[p].serving

isInteractiveWorkload(p) ==
    Attr[p].interactive \/ "interactive" \in {Attr[p].typeLabel, Attr[p].typeNote}

classifyWorkload(p) ==
    IF Attr[p].typeLabel # "none" THEN parseWorkloadType(Attr[p].typeLabel)
    ELSE IF Attr[p].typeNote # "none" THEN parseWorkloadType(Attr[p].typeNote)
    ELSE IF isInteractiveWorkload(p) THEN "interactive"
    ELSE IF ClassifyPod(p) = "batch"
      THEN IF isTrainingWorkload(p) THEN "training" ELSE "batch"
    ELSE IF isInferenceWorkload(p) THEN "inference" ELSE "service"

isPreemptible(p) ==
    IF Attr[p].preemptible # "none" THEN Attr[p].preemptible = "true"
    ELSE IF Attr[p].class \in {"low-priority", "best-effort"} THEN TRUE
    ELSE Attr[p].priority # NoPriority /\ Attr[p].priority <= 100

\* The profile PreFilter writes into the cycle state.
Profile(p, tier) == [tier |-> tier, type |-> classifyWorkload(p),
                     gang |-> isGangPod(p), preemptible |-> isPreemptible(p)]

\* The cycle state without a profile: ProfileClassifier is not enabled.
NoProfile == [tier |-> "none", type |-> "none", gang |-> FALSE,
              preemptible |-> FALSE]

Profiles == [tier: Tiers \cup {"none"},
             type: WorkloadTypes \cup {"unknown", "none"},
             gang: BOOLEAN, preemptible: BOOLEAN]
=============================================================================
