------------------------------ MODULE Placement ------------------------------
(***************************************************************************)
(* Scheduling cycles with ProfileClassifier, the Filter of                 *)
(* ResourceFragmentation and the five scoring plugins of NodeScoring, next *)
(* to everything that changes what they read: the labels of the namespace, *)
(* the pods in the informer, and another scheduler of the same cluster.    *)
(*                                                                         *)
(* A cycle reads the namespace up to twice from the API server, takes a    *)
(* snapshot of the nodes and then asks the plugins node by node.           *)
(* WorkloadAwareScoring and TopologyScoring use the snapshot; Backfill and *)
(* ResourceFragmentation list the pods of the informer anew each time.     *)
(***************************************************************************)
EXTENDS NodeScoring, Sequences

CONSTANTS NoPod, NoNode,
          Foreign,          \* pods that another scheduler places
          NamespaceLabels,  \* labels the pods' namespace may carry
          MaxFaults         \* bound: failed reads, relabellings, deletions

ASSUME PlacementAssumption ==
    /\ NoPod \notin Pods /\ NoNode \notin Nodes
    /\ Foreign \subseteq Pods
    /\ MaxFaults \in Nat

VARIABLES profiled,  \* is ProfileClassifier enabled in the configuration?
          ns,        \* the labels of the namespace
          phase,     \* of each pod: pending, cycle, assumed, bound or gone
          place,     \* the node a pod holds
          seen,      \* the node name the pod informer has for a pod
          current,   \* the pod in the cycle
          step,      \* the next namespace read, or "nodes" after them
          profile,   \* the profile in the cycle state
          snapshot,  \* the pods on each node when the cycle began
          verdict,   \* the filters' answer for each node
          scores,    \* the scores of each node so far, in the plugins' order
          owner,     \* history: the tier the namespace granted, or "any"
          granted,   \* history: owner, for the cycle that placed a pod
          steady,    \* history: no relabelling in this cycle
          quiet,     \* history: no informer event in this cycle
          reads,     \* history: successful reads of the namespace
          faults

cycle == <<current, step, profile, snapshot, verdict, scores, owner>>
pods == <<phase, place>>
history == <<granted, steady, quiet, reads>>
vars == <<profiled, ns, pods, seen, cycle, history, faults>>

\* The order of the plugins in deploy/kubenexus-scheduler.yaml.
Plugins == <<"workload", "topology", "backfill", "fragmentation", "hardware">>

TypeOK ==
    /\ profiled \in BOOLEAN /\ ns \in NamespaceLabels
    /\ phase \in [Pods -> {"pending", "cycle", "assumed", "bound", "gone"}]
    /\ place \in [Pods -> Nodes \cup {NoNode}]
    /\ seen \in [Pods -> Nodes \cup {NoNode}]
    /\ current \in Pods \cup {NoPod}
    /\ step \in {"idle", "kueue", "namespace", "nodes"}
    /\ profile \in Profiles
    /\ snapshot \in [Nodes -> SUBSET Pods]
    /\ verdict \in [Nodes -> {"todo", "pass", "reject"}]
    /\ \A n \in Nodes : /\ scores[n] \in Seq(Int)
                        /\ Len(scores[n]) <= Len(Plugins)
    /\ owner \in Tiers \cup {"any"}
    /\ granted \in [Pods -> Tiers \cup {"any"}]
    /\ steady \in BOOLEAN /\ quiet \in BOOLEAN
    /\ reads \in 0..2 /\ faults \in 0..MaxFaults

IdleCycle ==
    /\ current' = NoPod /\ step' = "idle" /\ profile' = NoProfile
    /\ snapshot' = [n \in Nodes |-> {}]
    /\ verdict' = [n \in Nodes |-> "todo"]
    /\ scores' = [n \in Nodes |-> <<>>]
    /\ owner' = "any" /\ steady' = TRUE /\ quiet' = TRUE /\ reads' = 0

Init ==
    /\ profiled \in BOOLEAN /\ ns \in NamespaceLabels
    /\ phase = [p \in Pods |-> "pending"]
    /\ place = [p \in Pods |-> NoNode] /\ seen = [p \in Pods |-> NoNode]
    /\ current = NoPod /\ step = "idle" /\ profile = NoProfile
    /\ snapshot = [n \in Nodes |-> {}]
    /\ verdict = [n \in Nodes |-> "todo"]
    /\ scores = [n \in Nodes |-> <<>>]
    /\ owner = "any" /\ granted = [p \in Pods |-> "any"]
    /\ steady = TRUE /\ quiet = TRUE /\ reads = 0
    /\ faults = 0

-----------------------------------------------------------------------------
(* PreFilter of ProfileClassifier.                                         *)

Fault == faults < MaxFaults /\ faults' = faults + 1

\* The pods the informer shows on n, and those the scheduler's cache holds
\* there: its own count from the end of their cycle on.
Listed(n) == {p \in Pods : seen[p] = n}
Cached(n) == Listed(n) \cup {p \in Pods \ Foreign : place[p] = n}

BeginCycle(p) ==
    /\ current = NoPod /\ p \notin Foreign /\ phase[p] = "pending"
    /\ phase' = [phase EXCEPT ![p] = "cycle"]
    /\ current' = p
    /\ snapshot' = [n \in Nodes |-> Cached(n)]
    /\ step' = IF ~profiled THEN "nodes"
                ELSE IF Attr[p].queue THEN "kueue" ELSE "namespace"
    /\ UNCHANGED <<profiled, ns, place, seen, profile, verdict, scores, owner,
                   history, faults>>

\* The tier the pod's namespace guarantees it: the one its label has named
\* since the cycle began, if at least one read succeeded.
Owner == IF steady /\ reads' > 0 /\ ns.tier \in Tiers THEN ns.tier ELSE "any"

\* The profile is complete and written into the cycle state.
Classified(tier) ==
    /\ profile' = Profile(current, tier)
    /\ step' = "nodes"
    /\ owner' = Owner

Unread == UNCHANGED <<profile, owner>> /\ step' = "namespace"

KueueRead ==
    /\ step = "kueue"
    /\ \/ /\ reads' = reads + 1 /\ UNCHANGED faults
          /\ IF getTenantFromKueue(ns) # "unknown"
             THEN Classified(getTenantFromKueue(ns)) ELSE Unread
       \/ /\ Fault /\ UNCHANGED reads
          /\ Unread
    /\ UNCHANGED <<profiled, ns, pods, seen, current, snapshot, verdict, scores,
                   granted, steady, quiet>>

NamespaceRead ==
    /\ step = "namespace"
    /\ \/ /\ reads' = reads + 1 /\ UNCHANGED faults
          /\ Classified(IF getTenantFromNamespace(ns) # "unknown"
                        THEN getTenantFromNamespace(ns)
                        ELSE TierOfPodItself(current))
       \/ /\ Fault /\ UNCHANGED reads
          /\ Classified(TierOfPodItself(current))
    /\ UNCHANGED <<profiled, ns, pods, seen, current, snapshot, verdict, scores,
                   granted, steady, quiet>>

-----------------------------------------------------------------------------
(* Filter and Score.                                                       *)

\* NodeResourcesFit of Kubernetes, on the snapshot: it looks at the resources
\* the pod asks for, so one may be overcommitted that it does not ask for.
Fits(p, n) ==
    LET own == Requested({p})
        all == Requested(snapshot[n] \cup {p})
    IN  /\ own.cpu > 0 => all.cpu <= Hw[n].cpu
        /\ own.mem > 0 => all.mem <= Hw[n].mem
        /\ own.gpu > 0 => all.gpu <= Hw[n].gpu

Filter(n) ==
    /\ step = "nodes" /\ verdict[n] = "todo"
    /\ verdict' = [verdict EXCEPT ![n] =
         IF Fits(current, n) /\ FragmentationFilter(current, profile, n, Listed(n))
         THEN "pass" ELSE "reject"]
    /\ UNCHANGED <<profiled, ns, pods, seen, current, step, profile, snapshot,
                   scores, owner, history, faults>>

PluginScore(plugin, n) ==
    CASE plugin = "workload" ->
           WorkloadAwareScore(current, profile, n, snapshot[n])
      [] plugin = "topology" -> TopologyScore(current, profile, n, Nodes)
      [] plugin = "backfill" -> BackfillScore(current, profile, n, Listed(n))
      [] plugin = "fragmentation" ->
           FragmentationScore(current, profile, n, Listed(n))
      [] plugin = "hardware" -> TenantHardwareScore(current, profile, n)

AllFiltered == step = "nodes" /\ \A n \in Nodes : verdict[n] # "todo"

Score(n) ==
    /\ AllFiltered /\ verdict[n] = "pass" /\ Len(scores[n]) < Len(Plugins)
    /\ scores' = [scores EXCEPT ![n] =
                    Append(@, PluginScore(Plugins[Len(@) + 1], n))]
    /\ UNCHANGED <<profiled, ns, pods, seen, current, step, profile, snapshot,
                   verdict, owner, history, faults>>

\* Weights and other plugins may favour any node that passed.
Select(n) ==
    /\ AllFiltered /\ verdict[n] = "pass"
    /\ \A m \in Nodes : verdict[m] = "pass" => Len(scores[m]) = Len(Plugins)
    /\ phase' = [phase EXCEPT ![current] = "assumed"]
    /\ place' = [place EXCEPT ![current] = n]
    /\ granted' = [granted EXCEPT ![current] = owner]
    /\ IdleCycle
    /\ UNCHANGED <<profiled, ns, seen, faults>>

Unschedulable ==
    /\ AllFiltered /\ \A n \in Nodes : verdict[n] = "reject"
    /\ phase' = [phase EXCEPT ![current] = "pending"]
    /\ IdleCycle
    /\ UNCHANGED <<profiled, ns, place, seen, granted, faults>>

-----------------------------------------------------------------------------
(* The cluster.                                                            *)

Bind(p) ==
    /\ phase[p] = "assumed"
    /\ phase' = [phase EXCEPT ![p] = "bound"]
    /\ UNCHANGED <<profiled, ns, place, seen, cycle, history, faults>>

Bound(n) == {p \in Pods : phase[p] = "bound" /\ place[p] = n}

Overcommitted(n, S) ==
    LET r == Requested(S)
    IN  r.cpu > Hw[n].cpu \/ r.mem > Hw[n].mem \/ r.gpu > Hw[n].gpu

\* The other scheduler knows of bound pods only and minds no tiers.
ForeignBind(p, n) ==
    /\ p \in Foreign /\ phase[p] = "pending"
    /\ ~Overcommitted(n, Bound(n) \cup {p})
    /\ phase' = [phase EXCEPT ![p] = "bound"]
    /\ place' = [place EXCEPT ![p] = n]
    /\ UNCHANGED <<profiled, ns, seen, cycle, history, faults>>

\* A pod finishes, is deleted, or is refused by the kubelet of a full node.
PodEnds(p) ==
    /\ phase[p] = "bound"
    /\ IF Overcommitted(place[p], Bound(place[p])) THEN UNCHANGED faults ELSE Fault
    /\ phase' = [phase EXCEPT ![p] = "gone"]
    /\ place' = [place EXCEPT ![p] = NoNode]
    /\ UNCHANGED <<profiled, ns, seen, cycle, history>>

\* An event of the pod informer.
SeePod(p) ==
    /\ phase[p] \in {"bound", "gone"} /\ seen[p] # place[p]
    /\ seen' = [seen EXCEPT ![p] = place[p]]
    /\ quiet' = (current = NoPod)
    /\ UNCHANGED <<profiled, ns, pods, cycle, granted, steady, reads, faults>>

Relabel ==
    /\ Fault
    /\ \E labels \in NamespaceLabels \ {ns} : ns' = labels
    /\ steady' = (current = NoPod)
    /\ UNCHANGED <<profiled, pods, seen, cycle, granted, quiet, reads>>

Next ==
    \/ \E p \in Pods : \/ BeginCycle(p) \/ Bind(p) \/ PodEnds(p) \/ SeePod(p)
                       \/ \E n \in Nodes : ForeignBind(p, n)
    \/ \E n \in Nodes : Filter(n) \/ Score(n) \/ Select(n)
    \/ KueueRead \/ NamespaceRead \/ Unschedulable \/ Relabel

Spec == Init /\ [][Next]_vars

-----------------------------------------------------------------------------
(* Properties.                                                             *)

\* The tier an administrator put on the namespace decides, before priority
\* classes and annotations of the pod, as soon as one of the two reads gets
\* through: the fallbacks of classifyTenant never override it.
ExplicitTierWins ==
    step = "nodes" /\ profiled /\ owner # "any" => profile.tier = owner

\* A GPU pod whose tier its namespace granted never sits on an island that is
\* reserved for a higher tier, whatever was relabelled, bound or deleted
\* between the reads, the filters, the scores and the bind.
IslandsProtected ==
    \A p \in Pods \ Foreign : \A n \in Nodes :
        /\ place[p] = n /\ Attr[p].gpu > 0
        /\ granted[p] # "any" /\ Reserved(n)
        => TierRank(granted[p]) >= TierRank(Hw[n].reserved)

\* Kubernetes fails the whole cycle when a score is outside 0..100.  None is,
\* on overcommitted nodes too, but for ResourceFragmentation, which divides by
\* what the node has without a cap and is within the range only on nodes that
\* are not overcommitted.
ScoresInRange ==
    \A n \in Nodes : \A i \in DOMAIN scores[n] :
        \/ scores[n][i] \in 0..100
        \/ Plugins[i] = "fragmentation" /\ (~quiet \/ Overcommitted(n, Listed(n)))

\* WorkloadAwareScoring reads what NodeInfo totals of the snapshot's pods, and
\* BackfillScoring adds up the containers of the pods that the informer shows:
\* they differ by pods that are assumed and not yet bound, by init containers,
\* sidecars and overhead.  But they differ in one direction only: as long as no
\* informer event falls into the cycle, no node is fuller for Backfill.  For a
\* batch pod that is no backfill both scores say how full the node is, for a
\* backfill pod that is no batch how idle.
NeverFullerForBackfill ==
    \A n \in Nodes :
      LET batch == TypeOrFallback(current, profile) \in {"batch", "training"}
          preemptible == getPreemptibilityFromProfile(current, profile)
      IN  (Len(scores[n]) >= 3 /\ quiet /\ Hw[n].cpu > 0 /\ Hw[n].mem > 0)
          => /\ batch /\ ~preemptible => scores[n][1] >= scores[n][3]
             /\ preemptible /\ ~batch => scores[n][1] <= scores[n][3]
=============================================================================
