-------------------------- MODULE GangPreemption --------------------------
(***************************************************************************)
(* The PostFilter plugin GangPreemption                                    *)
(* (pkg/plugins/preemption/gang_preemption.go).                            *)
(*                                                                         *)
(* When no node passes the filters for a gang member, the plugin looks for *)
(* a set of placed pods of lower standing whose requests add up to what    *)
(* the whole gang asks for, and nominates a node.  It works on two views   *)
(* of the cluster: the nodes of the snapshot taken when the scheduling     *)
(* cycle began, and the pods the informer holds at the moment of the call. *)
(* Victims are marked on a private copy of the pod and in the log only;    *)
(* no call of the plugin evicts them.                                      *)
(***************************************************************************)
EXTENDS PodGroups, FiniteSetsExt, SequencesExt

CONSTANTS Nodes, NoNode,
          NoPod,          \* no scheduling cycle under way
          Resources,      \* the resources the plugin adds up
          Cpu,            \* the one that ranks victims and nodes
          Request,        \* what each pod asks for of each resource
          Allocatable,    \* what each node offers
          Eligible,       \* the nodes that pass every other filter for a pod
          Priority,       \* the pods' priorities (0 if none is set)
          Profiled,       \* does ProfileClassifier run in this profile?
          ProfileTier,    \* the tenant tier it gives each pod
          QueueTier,      \* the tier word in the pod's Kueue queue name
          NamespaceTier,  \* the tier word in its namespace
          MaxVictims,     \* MaxVictimsPerGang
          Gap,            \* MinimumPreemptionGap
          MaxClock,       \* bound on the clock
          MaxFaults       \* bound on lost nodes and restarts

Tiers == {"gold", "silver", "bronze"}

ASSUME PreemptionAssumption ==
    /\ NoNode \notin Nodes /\ NoPod \notin Pods
    /\ Cpu \in Resources
    /\ Request \in [Pods -> [Resources -> Nat]]
    /\ Allocatable \in [Nodes -> [Resources -> Nat]]
    /\ Eligible \in [Pods -> SUBSET Nodes]
    /\ Priority \in [Pods -> Int]
    /\ Profiled \in BOOLEAN
    /\ ProfileTier \in [Pods -> Tiers]
    /\ QueueTier \in [Pods -> {"gold", "silver", "none"}]
    /\ NamespaceTier \in [Pods -> {"gold", "silver", "none"}]
    /\ MaxVictims \in Nat \ {0}
    /\ Gap \in Nat \ {0}
    /\ MaxClock \in Nat /\ MaxFaults \in Nat

VARIABLES clock,
          nodes,     \* the nodes of the cluster
          place,     \* the node each pod was bound to
          phase,     \* what became of each pod
          current,   \* the pod whose scheduling cycle found no node
          snapshot,  \* the nodes that cycle works on
          last,      \* lastPreemptionAttempts: the last search of each gang
          result,    \* what PostFilter returned, until the next cycle begins
          searches,  \* history: how often victims were searched for a gang
          restarts,  \* history: how often the scheduler was restarted
          faults

cluster == <<nodes, place, phase>>
vars == <<clock, nodes, place, phase, current, snapshot, last, result,
          searches, restarts, faults>>

Never == -1

Kinds == {"none", "notGang", "cooldown", "noVictims", "preempt"}

NoResult == [pod |-> NoPod, kind |-> "none", victims |-> {}, nominee |-> NoNode]

TypeOK ==
    /\ clock \in 0..MaxClock
    /\ nodes \subseteq Nodes /\ snapshot \subseteq Nodes
    /\ place \in [Pods -> Nodes \cup {NoNode}]
    /\ phase \in [Pods -> {"pending", "running", "gone"}]
    /\ \A p \in Pods : phase[p] = "running" => place[p] # NoNode
    /\ current \in Pods \cup {NoPod}
    /\ last \in [Groups -> (0..MaxClock) \cup {Never}]
    /\ result.pod \in Pods \cup {NoPod} /\ result.kind \in Kinds
    /\ result.victims \subseteq Pods
    /\ result.nominee \in Nodes \cup {NoNode}
    /\ searches \in [Groups -> Nat]
    /\ restarts \in 0..MaxFaults /\ faults \in 0..MaxFaults

Init ==
    /\ clock = 0
    /\ nodes = Nodes /\ snapshot = {}
    /\ place = [p \in Pods |-> NoNode]
    /\ phase = [p \in Pods |-> "pending"]
    /\ current = NoPod
    /\ last = [g \in Groups |-> Never]
    /\ result = NoResult
    /\ searches = [g \in Groups |-> 0]
    /\ restarts = 0 /\ faults = 0

-----------------------------------------------------------------------------
(* Standing.  The gang's tier is the classifier's, a victim's is read off  *)
(* its names.                                                              *)

GetTenantTierFromProfile(p) == IF Profiled THEN ProfileTier[p] ELSE "bronze"

GetTenantTierFromPod(p) ==
    CASE QueueTier[p] # "none" -> QueueTier[p]
      [] QueueTier[p] = "none" /\ NamespaceTier[p] # "none" -> NamespaceTier[p]
      [] OTHER -> "bronze"

GetTierPriority(tier) == CASE tier = "gold" -> 3
                           [] tier = "silver" -> 2
                           [] OTHER -> 1

Requested(S, r) == SumFunctionOnSet([p \in Pods |-> Request[p][r]], S)

\* Every member is taken to ask for what this one asks for.
CalculateGangResourceNeeds(p) ==
    [r \in Resources |-> Request[p][r] * MinAvailable(p)]

Suffices(S, needs) == \A r \in Resources : Requested(S, r) >= needs[r]

-----------------------------------------------------------------------------
(* findPreemptionVictims.                                                  *)

\* The informer's pods that have a node name; it selects unfinished pods.
Listed == {v \in Pods : phase[v] # "gone" /\ place[v] # NoNode}

SameGang(p, v) == GroupName(v) # NoGroup /\ GroupName(v) = GroupName(p)

Outranks(p, v) ==
    LET gang == GetTierPriority(GetTenantTierFromProfile(p))
        victim == GetTierPriority(GetTenantTierFromPod(v))
    IN  \/ gang > victim
        \/ gang = victim /\ Priority[v] < Priority[p]

Candidates(p) ==
    {v \in Listed : place[v] \in snapshot /\ ~SameGang(p, v) /\ Outranks(p, v)}

\* The order of the candidates: tier, then priority, then CPU request.
Cheaper(u, v) ==
    LET tu == GetTierPriority(GetTenantTierFromPod(u))
        tv == GetTierPriority(GetTenantTierFromPod(v))
    IN  \/ tu < tv
        \/ tu = tv /\ Priority[u] < Priority[v]
        \/ /\ tu = tv /\ Priority[u] = Priority[v]
           /\ Request[u][Cpu] < Request[v][Cpu]

\* Mutation of Sorted: the candidates stay in the order of the list.
Unsorted(C) == SetToSeqs(C)

\* sort.Slice is not stable: equals come out in any order.
Sorted(C) == {s \in SetToSeqs(C) :
                \A i, j \in 1..Cardinality(C) : i < j => ~Cheaper(s[j], s[i])}

\* Mutations of Greedy: no early stop; one victim too few.
TakeAll(s, needs) == {s[i] : i \in {j \in 1..Len(s) : j <= MaxVictims}}
TakeFewer(s, needs) == {s[i] : i \in {j \in 1..Len(s) : j < MaxVictims}}

\* The greedy loop over a sorted sequence of candidates: it stops as soon as
\* the victims suffice or MaxVictims of them are taken.
Greedy(s, needs) ==
    LET Prefix(k) == {s[i] : i \in 1..k}
        stops == {k \in 1..Len(s) :
                    k = Len(s) \/ k = MaxVictims \/ Suffices(Prefix(k), needs)}
    IN  IF s = <<>> THEN {} ELSE Prefix(Min(stops))

\* Mutation of FindPreemptionVictims: no final check.
FindUnchecked(p) ==
    {Greedy(s, CalculateGangResourceNeeds(p)) : s \in Sorted(Candidates(p))}

\* The final check discards a set that does not suffice.
FindPreemptionVictims(p) ==
    LET needs == CalculateGangResourceNeeds(p)
        Checked(S) == IF Suffices(S, needs) THEN S ELSE {}
    IN  {Checked(Greedy(s, needs)) : s \in Sorted(Candidates(p))}

\* A node on which the victims give up the most CPU, if they give up any.
SelectNominatedNode(victims) ==
    LET Freed(n) == Requested({v \in victims : place[v] = n}, Cpu)
        hosts == {n \in Nodes : Freed(n) > 0}
    IN  IF hosts = {} THEN {NoNode}
        ELSE {n \in hosts : \A m \in hosts : Freed(m) <= Freed(n)}

-----------------------------------------------------------------------------
(* PostFilter, one action for each of its results.                         *)

Return(p, kind, victims, nominee) ==
    /\ result' = [pod |-> p, kind |-> kind,
                  victims |-> victims, nominee |-> nominee]
    /\ current' = NoPod /\ snapshot' = {}
    /\ UNCHANGED <<clock, cluster, restarts, faults>>

InCooldown(g) == last[g] # Never /\ clock - last[g] < Gap

PostFilterNotGang(p) ==
    /\ current = p /\ ~IsPodInPodGroup(p)
    /\ Return(p, "notGang", {}, NoNode)
    /\ UNCHANGED <<last, searches>>

PostFilterCooldown(p) ==
    /\ current = p /\ IsPodInPodGroup(p) /\ InCooldown(GroupName(p))
    /\ Return(p, "cooldown", {}, NoNode)
    /\ UNCHANGED <<last, searches>>

\* Mutation of Attempt: the attempt is not stored.
AttemptUnrecorded(g) ==
    /\ searches' = [searches EXCEPT ![g] = @ + 1]
    /\ UNCHANGED last

\* Mutation of Attempt: the end of the cooldown is stored, not its start.
AttemptUntil(g) ==
    /\ last' = [last EXCEPT ![g] = clock + Gap]
    /\ searches' = [searches EXCEPT ![g] = @ + 1]

\* The time of the attempt is stored before the search and whatever it finds.
Attempt(g) ==
    /\ last' = [last EXCEPT ![g] = clock]
    /\ searches' = [searches EXCEPT ![g] = @ + 1]

PostFilterSearch(p) ==
    /\ current = p /\ IsPodInPodGroup(p) /\ ~InCooldown(GroupName(p))
    /\ Attempt(GroupName(p))
    /\ \E victims \in FindPreemptionVictims(p) :
         IF victims = {} THEN Return(p, "noVictims", {}, NoNode)
         ELSE \E n \in SelectNominatedNode(victims) :
                Return(p, "preempt", victims, n)

PostFilter(p) == \/ PostFilterNotGang(p) \/ PostFilterCooldown(p)
                 \/ PostFilterSearch(p)

-----------------------------------------------------------------------------
(* The scheduling cycle and the cluster around the plugin.                 *)

Holders(n) == {p \in Pods : phase[p] = "running" /\ place[p] = n}

Fits(p, n) ==
    /\ n \in Eligible[p]
    /\ \A r \in Resources :
         Requested(Holders(n), r) + Request[p][r] <= Allocatable[n][r]

Schedule(p, n) ==
    /\ current = NoPod /\ phase[p] = "pending"
    /\ n \in nodes /\ Fits(p, n)
    /\ place' = [place EXCEPT ![p] = n]
    /\ phase' = [phase EXCEPT ![p] = "running"]
    /\ result' = NoResult
    /\ UNCHANGED <<clock, nodes, current, snapshot, last, searches, restarts,
                   faults>>

FilterFails(p) ==
    /\ current = NoPod /\ phase[p] = "pending"
    /\ \A n \in nodes : ~Fits(p, n)
    /\ current' = p
    /\ snapshot' = nodes
    /\ result' = NoResult
    /\ UNCHANGED <<clock, cluster, last, searches, restarts, faults>>

\* A pod runs to completion or is deleted: it leaves the informer and gives up
\* its room.
PodFinishes(p) ==
    /\ phase[p] = "running"
    /\ phase' = [phase EXCEPT ![p] = "gone"]
    /\ UNCHANGED <<clock, nodes, place, current, snapshot, last, result,
                   searches, restarts, faults>>

Tick ==
    /\ clock < MaxClock
    /\ clock' = clock + 1
    /\ UNCHANGED <<cluster, current, snapshot, last, result, searches,
                   restarts, faults>>

Fault == faults < MaxFaults /\ faults' = faults + 1

\* A node disappears; the pods bound to it stay in the API server.
LoseNode(n) ==
    /\ n \in nodes /\ Fault
    /\ nodes' = nodes \ {n}
    /\ UNCHANGED <<clock, place, phase, current, snapshot, last, result,
                   searches, restarts>>

\* A restart of the scheduler forgets the attempts and the cycle.
Restart ==
    /\ Fault
    /\ restarts' = restarts + 1
    /\ last' = [g \in Groups |-> Never]
    /\ current' = NoPod /\ snapshot' = {} /\ result' = NoResult
    /\ UNCHANGED <<clock, cluster, searches>>

-----------------------------------------------------------------------------
Next == \/ \E p \in Pods : \/ PostFilter(p)
                           \/ \E n \in Nodes : Schedule(p, n)
                           \/ FilterFails(p) \/ PodFinishes(p)
        \/ \E n \in Nodes : LoseNode(n)
        \/ Tick \/ Restart

Spec == Init /\ [][Next]_vars

-----------------------------------------------------------------------------
(* Properties.                                                             *)

\* In this step the plugin searches victims for pod p.
Searching(p) == /\ current = p /\ current' = NoPod
                /\ result'.pod = p
                /\ result'.kind \in {"noVictims", "preempt"}

\* A preemption is announced only for at most MaxVictims pods that, together,
\* ask for what the whole gang needs of every resource, and none of which is a
\* member of the gang or sits on a node the cycle does not know.
VictimsSuffice ==
    [][\A p \in Pods : Searching(p) /\ result'.kind = "preempt" =>
         LET V == result'.victims IN
         /\ V # {} /\ Cardinality(V) <= MaxVictims
         /\ Suffices(V, CalculateGangResourceNeeds(p))
         /\ V \cap Members(GroupName(p)) = {}
         /\ {place[v] : v \in V} \cup {result'.nominee}
              \subseteq snapshot \cup {NoNode}]_vars

\* The cheap go first: no candidate that is spared is cheaper (by tier,
\* priority, CPU) than a victim.
CheapestFirst ==
    [][\A p \in Pods : Searching(p) /\ result'.kind = "preempt" =>
         \A v \in result'.victims, u \in Candidates(p) \ result'.victims :
            ~Cheaper(u, v)]_vars

\* The greedy choice stops in time: for a gang that asks for something, the
\* victims without one of the dearest among them would not suffice.
NoNeedlessVictim ==
    [][\A p \in Pods :
         LET needs == CalculateGangResourceNeeds(p)
             V == result'.victims
         IN  /\ Searching(p) /\ result'.kind = "preempt"
             /\ \E r \in Resources : needs[r] > 0
             => \E v \in V : /\ ~Suffices(V \ {v}, needs)
                             /\ \A u \in V : ~Cheaper(v, u)]_vars

\* The search fails only when no choice could succeed, or when there are more
\* candidates than it may look at.
GivesUpOnlyWhenHopeless ==
    [][\A p \in Pods : Searching(p) /\ result'.kind = "noVictims" =>
         LET C == Candidates(p) IN
         \/ Cardinality(C) > MaxVictims
         \/ \A S \in SUBSET C :
              S # {} => ~Suffices(S, CalculateGangResourceNeeds(p))]_vars

\* MinimumPreemptionGap bounds the searches of a gang, all its members taken
\* together, by the time that has passed; a restart forgets one attempt.
PreemptionStormBounded ==
    \A g \in Groups : searches[g] <= 1 + restarts + (clock \div Gap)

\* What the documentation says of preemption: it takes whole gangs, never a
\* part of one whose other members go on holding their room.
NeverPreemptsPartially ==
    [][\A p \in Pods : Searching(p) /\ result'.kind = "preempt" =>
         \A v \in result'.victims : IsPodInPodGroup(v) =>
            {u \in Listed : SameGang(v, u)} \subseteq result'.victims]_vars
=============================================================================
