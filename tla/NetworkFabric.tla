---------------------------- MODULE NetworkFabric ----------------------------
(***************************************************************************)
(* The NetworkFabricScore plugin: its Filter, which keeps the members of a *)
(* gang in one NVLink partition (clique), and its Score, which draws them  *)
(* together over the levels of the topology.  Both read the informers:     *)
(* the node name of a member is visible there only after its bind was      *)
(* written and the event arrived, while the member holds its node from the *)
(* end of its scheduling cycle on; and a clique that is not a node label   *)
(* is known only while the ResourceSlices of the node are there.           *)
(*                                                                         *)
(* Kubernetes runs Filter, and then Score, for each node of the cycle's    *)
(* snapshot, several nodes at a time, so informer events fall between the  *)
(* nodes of one cycle.  Other plugins veto nodes and add scores of their   *)
(* own: any node that passed may be taken.                                 *)
(***************************************************************************)
EXTENDS Integers, FiniteSets

CONSTANTS Pods, NoPod,
          Nodes, NoNode,
          PodGroup,       \* the pod-group annotation of a pod, "" without
          Strict,         \* pods with require-clique or co-locate: strict
          Sensitive,      \* pods marked network-sensitive
          MinFabricTier,  \* the min-fabric-tier annotation of a pod
          WorkloadType,   \* a pod's workload type, as its profile has it
          FabricType,     \* labels of a node; "" for a label it has not
          FabricID, RackID, AZ,
          CliqueLabel,    \* nvidia.com/gpu.clique
          SliceClique,    \* nvlink-domain its GPU driver publishes in slices
          MaxFaults       \* bound: deletions, failed binds and lost nodes

Fabrics == {"nvswitch", "nvlink", "infiniband", "roce", "ethernet", "unknown"}

ASSUME FabricAssumption ==
    /\ NoPod \notin Pods /\ NoNode \notin Nodes
    /\ IsFiniteSet(Pods) /\ IsFiniteSet(Nodes)
    /\ Strict \subseteq Pods /\ Sensitive \subseteq Pods
    /\ MinFabricTier \in [Pods -> Fabrics]
    /\ FabricType \in [Nodes -> Fabrics]
    /\ MaxFaults \in Nat

VARIABLES phase,    \* of each pod: pending, cycle, assumed, bound or gone
          place,    \* the node a pod holds, NoNode without
          seen,     \* the node name the pod informer has for a pod
          nodes,    \* the nodes the node informer has
          slices,   \* the nodes whose ResourceSlices the informer has
          current,  \* the pod in the scheduling cycle
          verdict,  \* Filter's answer for each node of the snapshot
          score,    \* Score's answer, Unscored before
          peak,     \* history: most members of a gang unlocated at once
          faults

vars == <<phase, place, seen, nodes, slices, current, verdict, score, peak, faults>>

Unscored == -1

TypeOK ==
    /\ phase \in [Pods -> {"pending", "cycle", "assumed", "bound", "gone"}]
    /\ place \in [Pods -> Nodes \cup {NoNode}]
    /\ seen \in [Pods -> Nodes \cup {NoNode}]
    /\ nodes \subseteq Nodes
    /\ slices \subseteq Nodes
    /\ current \in Pods \cup {NoPod}
    /\ verdict \in [Nodes -> {"absent", "todo", "pass", "reject"}]
    /\ score \in [Nodes -> 0..100 \cup {Unscored}]
    /\ peak \in [Pods -> Nat]
    /\ faults \in 0..MaxFaults

Init ==
    /\ phase = [p \in Pods |-> "pending"]
    /\ place = [p \in Pods |-> NoNode]
    /\ seen = [p \in Pods |-> NoNode]
    /\ nodes = Nodes
    /\ slices \in SUBSET {n \in Nodes : SliceClique[n] # ""}
    /\ current = NoPod
    /\ verdict = [n \in Nodes |-> "absent"]
    /\ score = [n \in Nodes |-> Unscored]
    /\ peak = [p \in Pods |-> 0]
    /\ faults = 0

-----------------------------------------------------------------------------
(* Topology discovery.                                                     *)

Gang(p) == {q \in Pods : PodGroup[q] = PodGroup[p]}

\* The members of the gang whose node name the pod informer shows.
getGangMemberPods(p) == {q \in Gang(p) : seen[q] # NoNode}

\* The label, or else the attribute the node's GPU driver publishes, while the
\* informer of ResourceSlices has it.
getNodeClique(n) ==
    CASE CliqueLabel[n] # "" -> CliqueLabel[n]
      [] CliqueLabel[n] = "" /\ n \in slices -> SliceClique[n]
      [] OTHER -> ""

\* Mutation of getGangClique: cliques are read from node labels alone.
getGangCliqueByLabel(p) ==
    LET found == {CliqueLabel[seen[q]] :
                    q \in {r \in getGangMemberPods(p) : seen[r] \in nodes}} \ {""}
    IN  IF found = {} THEN {""} ELSE found

\* What getGangClique may return: the list has no order, and the clique of the
\* first member on a known node that has one is taken.
getGangClique(p) ==
    LET found == {getNodeClique(seen[q]) :
                    q \in {r \in getGangMemberPods(p) : seen[r] \in nodes}} \ {""}
    IN  IF found = {} THEN {""} ELSE found

requiresCliqueFilter(p) == p \in Strict

-----------------------------------------------------------------------------
(* Filter.                                                                 *)

\* The node suits the clique of the gang: none is known, or it is the node's.
\* A node without a clique suits a gang without one.
CliqueAdmits(n, gangClique) == gangClique \in {"", getNodeClique(n)}

FilterVerdict(p, n, gangClique) ==
    IF PodGroup[p] # "" /\ requiresCliqueFilter(p) /\ ~CliqueAdmits(n, gangClique)
    THEN "reject" ELSE "pass"

Filter(n) ==
    /\ current # NoPod /\ verdict[n] = "todo"
    /\ \E c \in getGangClique(current) :
         verdict' = [verdict EXCEPT ![n] = FilterVerdict(current, n, c)]
    /\ UNCHANGED <<phase, place, seen, nodes, slices, current, score, peak, faults>>

-----------------------------------------------------------------------------
(* Score.                                                                  *)

getFabricTierScore(f) ==
    CASE f = "nvswitch"   -> 100
      [] f = "nvlink"     -> 90
      [] f = "infiniband" -> 75
      [] f = "roce"       -> 60
      [] f = "ethernet"   -> 40
      [] OTHER            -> 50

\* Mutation of LevelScore: the bonus and the penalty are exchanged.
LevelScoreSwapped(candidate, members, weight) ==
    IF candidate = "" THEN 0
    ELSE IF candidate \in members THEN -weight
    ELSE IF members \ {""} # {} THEN weight
    ELSE 0

\* One level of the topology: a bonus when the candidate's label is among the
\* members' labels, a penalty when they have others only.
LevelScore(candidate, members, weight) ==
    IF candidate = "" THEN 0
    ELSE IF candidate \in members THEN weight
    ELSE IF members \ {""} # {} THEN -weight
    ELSE 0

\* The members' cliques come from the node label alone.
calculateLocalityScore(p, n) ==
    LET on == {seen[q] : q \in getGangMemberPods(p)} \cap nodes
    IN  LevelScore(getNodeClique(n), {CliqueLabel[m] : m \in on}, 40)
        + LevelScore(FabricID[n], {FabricID[m] : m \in on}, 30)
        + LevelScore(RackID[n], {RackID[m] : m \in on}, 20)
        + LevelScore(AZ[n], {AZ[m] : m \in on}, 10)

HighTier == {"nvswitch", "infiniband"}
LowTier == {"roce", "ethernet"}

getWorkloadFabricBonus(p, f) ==
    CASE WorkloadType[p] \in {"training", "batch"} /\ f \in HighTier     -> 15
      [] WorkloadType[p] \in {"training", "batch"} /\ f \in LowTier      -> -20
      [] WorkloadType[p] \in {"inference", "service"} /\ f \in LowTier   -> 10
      [] WorkloadType[p] \in {"inference", "service"} /\ f \in HighTier  -> -5
      [] OTHER                                                           -> 0

TierOrder(f) ==
    CASE f = "nvswitch" -> 5 [] f = "nvlink" -> 4 [] f = "infiniband" -> 3
      [] f = "roce" -> 2 [] f = "ethernet" -> 1 [] OTHER -> 0

\* A pod without the annotation has "unknown" as minimum, which all meet.
meetsFabricTierRequirement(actual, minimum) == TierOrder(actual) >= TierOrder(minimum)

\* x * 1.5 truncated towards zero.
Boost(x) == IF x >= 0 THEN (3 * x) \div 2 ELSE -((-3 * x) \div 2)

Clamp(x) == CASE x > 100 -> 100 [] x < 0 -> 0 [] OTHER -> x

\* Mutation of Score: the sum is not capped.
NodeScoreUncapped(p, n) ==
    LET base == getFabricTierScore(FabricType[n])
        sum  == base + calculateLocalityScore(p, n)
                     + getWorkloadFabricBonus(p, FabricType[n])
    IN  IF PodGroup[p] = "" \/ getGangMemberPods(p) = {} THEN base
        ELSE IF ~meetsFabricTierRequirement(FabricType[n], MinFabricTier[p]) THEN 0
        ELSE IF p \in Sensitive THEN Boost(sum) ELSE sum

\* The score of a node as the informers stand.  The minimum tier counts only
\* for a gang that has a member placed.
NodeScore(p, n) ==
    LET base == getFabricTierScore(FabricType[n])
        sum  == base + calculateLocalityScore(p, n)
                     + getWorkloadFabricBonus(p, FabricType[n])
    IN  IF PodGroup[p] = "" \/ getGangMemberPods(p) = {} THEN base
        ELSE IF ~meetsFabricTierRequirement(FabricType[n], MinFabricTier[p]) THEN 0
        ELSE Clamp(IF p \in Sensitive THEN Boost(sum) ELSE sum)

Score(n) ==
    /\ current # NoPod /\ verdict[n] = "pass" /\ score[n] = Unscored
    /\ \A m \in Nodes : verdict[m] # "todo"
    /\ score' = [score EXCEPT ![n] = NodeScore(current, n)]
    /\ UNCHANGED <<phase, place, seen, nodes, slices, current, verdict, peak, faults>>

-----------------------------------------------------------------------------
(* The scheduling cycle, the binding and the informers around the plugin.  *)

\* The clique a node is in, whether or not the informers show it.
Partition(n) == IF CliqueLabel[n] # "" THEN CliqueLabel[n] ELSE SliceClique[n]

\* A member is in flight from the start of its cycle until the informer shows
\* its node name.
InFlight(p) ==
    \/ phase[p] \in {"cycle", "assumed"}
    \/ phase[p] = "bound" /\ seen[p] = NoNode

\* Filter cannot tell the clique of a member in flight, nor of one whose node is
\* in a clique that the informers do not show.
Unlocated(p) ==
    \/ InFlight(p)
    \/ /\ seen[p] # NoNode /\ Partition(seen[p]) # ""
       /\ seen[p] \in nodes => getNodeClique(seen[p]) = ""

Track ==
    peak' = [q \in Pods |->
               LET unlocated == {r \in Gang(q) : Unlocated(r)'}
               IN  IF Cardinality(unlocated) > peak[q]
                   THEN Cardinality(unlocated) ELSE peak[q]]

BeginCycle(p) ==
    /\ current = NoPod /\ phase[p] = "pending"
    /\ phase' = [phase EXCEPT ![p] = "cycle"]
    /\ current' = p
    /\ verdict' = [n \in Nodes |-> IF n \in nodes THEN "todo" ELSE "absent"]
    /\ score' = [n \in Nodes |-> Unscored]
    /\ UNCHANGED <<place, seen, nodes, slices, faults>>
    /\ Track

EndCycle ==
    /\ current' = NoPod
    /\ verdict' = [n \in Nodes |-> "absent"]
    /\ score' = [n \in Nodes |-> Unscored]

Select(n) ==
    /\ current # NoPod
    /\ \A m \in Nodes : /\ verdict[m] # "todo"
                        /\ verdict[m] = "pass" => score[m] # Unscored
    /\ verdict[n] = "pass"
    /\ phase' = [phase EXCEPT ![current] = "assumed"]
    /\ place' = [place EXCEPT ![current] = n]
    /\ EndCycle
    /\ UNCHANGED <<seen, nodes, slices, peak, faults>>

\* No node passed, or another plugin vetoed those that did.
Unschedulable ==
    /\ current # NoPod
    /\ \A m \in Nodes : verdict[m] # "todo"
    /\ phase' = [phase EXCEPT ![current] = "pending"]
    /\ EndCycle
    /\ UNCHANGED <<place, seen, nodes, slices, peak, faults>>

\* Permit has released the pod and the bind is written.
Bind(p) ==
    /\ phase[p] = "assumed"
    /\ phase' = [phase EXCEPT ![p] = "bound"]
    /\ UNCHANGED <<place, seen, nodes, slices, current, verdict, score, peak, faults>>

\* Permit timed out or the bind failed: the pod is queued again.
BindFails(p) ==
    /\ phase[p] = "assumed" /\ faults < MaxFaults
    /\ phase' = [phase EXCEPT ![p] = "pending"]
    /\ place' = [place EXCEPT ![p] = NoNode]
    /\ faults' = faults + 1
    /\ UNCHANGED <<seen, nodes, slices, current, verdict, score, peak>>

DeletePod(p) ==
    /\ phase[p] \in {"pending", "assumed", "bound"} /\ faults < MaxFaults
    /\ phase' = [phase EXCEPT ![p] = "gone"]
    /\ place' = [place EXCEPT ![p] = NoNode]
    /\ faults' = faults + 1
    /\ UNCHANGED <<seen, nodes, slices, current, verdict, score, peak>>

\* An event of the pod informer.
SeePod(p) ==
    /\ phase[p] \in {"bound", "gone"} /\ seen[p] # place[p]
    /\ seen' = [seen EXCEPT ![p] = place[p]]
    /\ UNCHANGED <<phase, place, nodes, slices, current, verdict, score, peak,
                   faults>>

LoseNode(n) ==
    /\ n \in nodes /\ faults < MaxFaults
    /\ nodes' = nodes \ {n}
    /\ faults' = faults + 1
    /\ UNCHANGED <<phase, place, seen, slices, current, verdict, score>>
    /\ Track

\* A lost node registers again.
NodeReturns(n) ==
    /\ n \notin nodes
    /\ nodes' = nodes \cup {n}
    /\ UNCHANGED <<phase, place, seen, slices, current, verdict, score, peak,
                   faults>>

\* The GPU driver of the node publishes its slices, or they are withdrawn while
\* it restarts.
PublishSlices(n) ==
    /\ n \notin slices /\ SliceClique[n] # ""
    /\ slices' = slices \cup {n}
    /\ UNCHANGED <<phase, place, seen, nodes, current, verdict, score, peak,
                   faults>>

WithdrawSlices(n) ==
    /\ n \in slices
    /\ slices' = slices \ {n}
    /\ UNCHANGED <<phase, place, seen, nodes, current, verdict, score, faults>>
    /\ Track

Next ==
    \/ \E n \in Nodes : \/ Filter(n) \/ Score(n) \/ Select(n)
                        \/ LoseNode(n) \/ NodeReturns(n)
                        \/ PublishSlices(n) \/ WithdrawSlices(n)
    \/ \E p \in Pods : \/ BeginCycle(p) \/ Bind(p) \/ BindFails(p)
                       \/ DeletePod(p) \/ SeePod(p)
    \/ Unschedulable

Spec == Init /\ [][Next]_vars

-----------------------------------------------------------------------------
(* Properties.                                                             *)

StrictGang(p) == PodGroup[p] # "" /\ Gang(p) \subseteq Strict

Placed(p) == {q \in Gang(p) : phase[q] \in {"assumed", "bound"}}

CliquesOf(p) == {Partition(place[q]) : q \in Placed(p)} \ {""}

\* Filter tears a gang that requires one clique apart only as far as the
\* informers leave it in the dark: however binds, deletions, lost nodes and
\* ResourceSlices that come and go interleave with the nodes of a cycle, the
\* members that hold a node never span more cliques than there were members, at
\* one moment, of whom Filter could not tell the clique.
CliquesBounded == \A p \in Pods : StrictGang(p) => Cardinality(CliquesOf(p)) <= peak[p]

\* How close a node is to the members at one level: 2 in the same domain, 1
\* when it or all of them have none, 0 in another domain.
Rank(p, n, Label) ==
    LET there == {Label[seen[q]] : q \in {r \in getGangMemberPods(p) : seen[r] \in nodes}}
    IN  IF Label[n] # "" /\ Label[n] \in there THEN 2
        ELSE IF Label[n] # "" /\ there \ {""} # {} THEN 0
        ELSE 1

\* Of two nodes of one fabric type, the one that is at least as close to the
\* placed members at every level scores at least as much, whatever the cap,
\* the boost and the minimum tier do.  Nodes whose clique is read from
\* ResourceSlices are left out: Score does not know it of members.
LocalityNeverHurts ==
    \A p \in Pods : \A n \in Nodes : \A m \in Nodes \ {n} :
      (/\ FabricType[n] = FabricType[m]
       /\ \A x \in {n, m} : getNodeClique(x) = CliqueLabel[x]
       /\ \A Label \in {CliqueLabel, FabricID, RackID, AZ} :
            Rank(p, n, Label) >= Rank(p, m, Label))
      => NodeScore(p, n) >= NodeScore(p, m)
=============================================================================
