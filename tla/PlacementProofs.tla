-------------------------- MODULE PlacementProofs --------------------------
(***************************************************************************)
(* The tier of the namespace decides, and decides on which islands a pod   *)
(* may sit, for any nodes, pods, labels and any number of failed reads.    *)
(* And the scores stay in the range that Kubernetes accepts, and of the    *)
(* two plugins that compute a node's utilization one never exceeds the     *)
(* other.                                                                  *)
(***************************************************************************)
EXTENDS Placement, SumTheorems

\* The types that the argument needs.
Types ==
    /\ profiled \in BOOLEAN
    /\ place \in [Pods -> Nodes \cup {NoNode}]
    /\ verdict \in [Nodes -> {"todo", "pass", "reject"}]
    /\ owner \in Tiers \cup {"any"}
    /\ granted \in [Pods -> Tiers \cup {"any"}]
    /\ reads \in {0, 1, 2}
    /\ step \in {"idle", "kueue", "namespace", "nodes"}
    /\ current \in (IF step = "idle" THEN {NoPod} ELSE Pods \ Foreign)

\* The cycle reads the queue's namespace before it has read anything; when it
\* goes on to the second read after a successful first one, the namespace had
\* no tier.  The tier the namespace granted is in the profile.
Reading ==
    /\ step \in {"idle", "kueue"} => reads = 0
    /\ step = "namespace" => reads \in {0, 1}
    /\ step = "namespace" /\ reads > 0 /\ steady => ns.tier \notin Tiers
    /\ step # "nodes" => owner = "any"
    /\ owner # "any" => profile.tier = owner

Allows(tier, p, n) ==
    tier # "any" /\ Attr[p].gpu > 0 /\ Reserved(n)
        => TierRank(tier) >= TierRank(Hw[n].reserved)

\* Filter and Select carry the tier from the profile to the place.
Guarded ==
    /\ step # "nodes" => \A n \in Nodes : verdict[n] = "todo"
    /\ \A n \in Nodes : verdict[n] = "pass" => Allows(owner, current, n)
    /\ \A p \in Pods \ Foreign : \A n \in Nodes :
         place[p] = n => Allows(granted[p], p, n)

PInv == Types /\ Reading /\ Guarded

-----------------------------------------------------------------------------
(* Lemmas on the reads and the filter.                                     *)

\* A tier on the namespace is what both reads find in it.
LEMMA TierIsFound ==
    ASSUME NEW l, l.tier \in Tiers
    PROVE  /\ getTenantFromKueue(l) = l.tier /\ getTenantFromNamespace(l) = l.tier
           /\ l.tier # "unknown"
<1>1. parseTenantTier(l.tier) = l.tier /\ l.tier # "unknown"
    BY DEF parseTenantTier, Tiers
<1>2. getTenantFromKueue(l) = l.tier
    BY <1>1, Zenon DEF getTenantFromKueue
<1>3. QED
    BY <1>1, <1>2 DEF getTenantFromNamespace

\* What the filter of ResourceFragmentation lets through for a profile.
LEMMA FilterAllows ==
    ASSUME NEW p, NEW n, NEW S, NEW pr, pr.tier \in Tiers,
           FragmentationFilter(p, pr, n, S)
    PROVE  Allows(pr.tier, p, n)
<1>1. pr # NoProfile
    BY DEF NoProfile, Tiers
<1>2. getPodTenantTier(pr) = pr.tier
    BY <1>1 DEF getPodTenantTier
<1>3. QED
    BY <1>2 DEF FragmentationFilter, Allows, isTenantAllowed

-----------------------------------------------------------------------------
(* The invariant.                                                          *)

LEMMA Initially == ASSUME Init PROVE PInv
<1> USE PlacementAssumption DEF PlacementAssumption, Init
<1>1. Types
    BY DEF Types
<1>2. Reading
    BY DEF Reading
<1>3. Guarded
    BY DEF Guarded
<1>4. QED
    BY <1>1, <1>2, <1>3 DEF PInv

LEMMA OwnerType == ASSUME TRUE PROVE Owner \in Tiers \cup {"any"}
    BY DEF Owner

\* What befalls a pod outside its scheduling cycle.
ClusterStep(p) == \/ Bind(p) \/ PodEnds(p) \/ SeePod(p)
                  \/ \E n \in Nodes : ForeignBind(p, n)

LEMMA ClusterSteps ==
    ASSUME Types, NEW p \in Pods, ClusterStep(p)
    PROVE  /\ UNCHANGED <<profiled, ns, verdict, owner, granted, reads, step,
                          current, profile, steady>>
           /\ place' \in [Pods -> Nodes \cup {NoNode}]
           /\ \A q \in Pods \ Foreign : place'[q] \in {place[q], NoNode}
<1> USE DEF Types, cycle, history, pods
<1>1. CASE Bind(p)
    BY <1>1 DEF Bind
<1>2. CASE PodEnds(p)
    BY <1>2 DEF PodEnds
<1>3. CASE SeePod(p)
    BY <1>3 DEF SeePod
<1>4. ASSUME NEW n \in Nodes, ForeignBind(p, n)
      PROVE  /\ UNCHANGED <<profiled, ns, verdict, owner, granted, reads, step,
                            current, profile, steady>>
             /\ place' \in [Pods -> Nodes \cup {NoNode}]
             /\ \A q \in Pods \ Foreign : place'[q] \in {place[q], NoNode}
    BY <1>4 DEF ForeignBind
<1>5. QED
    BY <1>1, <1>2, <1>3, <1>4 DEF ClusterStep

LEMMA TypesKept == ASSUME Types, Reading, [Next]_vars PROVE Types'
<1> USE PlacementAssumption DEF PlacementAssumption, Types
<1>1. ASSUME NEW p \in Pods, BeginCycle(p)
      PROVE  Types'
    BY <1>1 DEF BeginCycle, history
<1>2. CASE KueueRead
    BY <1>2, OwnerType DEF KueueRead, Classified, Unread, Reading, pods
<1>3. CASE NamespaceRead
    BY <1>3, OwnerType DEF NamespaceRead, Classified, Reading, pods
<1>4. ASSUME NEW n \in Nodes, Filter(n) \/ Score(n)
      PROVE  Types'
    BY <1>4 DEF Filter, Score, pods, history
<1>5. ASSUME NEW n \in Nodes, Select(n)
      PROVE  Types'
    BY <1>5 DEF Select, IdleCycle, AllFiltered
<1>6. CASE Unschedulable
    BY <1>6 DEF Unschedulable, IdleCycle, AllFiltered
<1>7. ASSUME NEW p \in Pods, ClusterStep(p)
      PROVE  Types'
    BY <1>7, ClusterSteps
<1>8. CASE Relabel \/ UNCHANGED vars
    BY <1>8 DEF Relabel, vars, cycle, history, pods
<1>9. QED
    BY <1>1, <1>2, <1>3, <1>4, <1>5, <1>6, <1>7, <1>8 DEF Next, ClusterStep

\* A read that succeeds finds the tier of the namespace or goes on; one that
\* fails leaves no owner, or one that the first read has denied a tier.
LEMMA ReadingKept == ASSUME Types, Reading, [Next]_vars PROVE Reading'
<1> USE PlacementAssumption DEF PlacementAssumption, Types, Reading
<1>1. ASSUME NEW p \in Pods, BeginCycle(p)
      PROVE  Reading'
    BY <1>1 DEF BeginCycle, history
<1>2. CASE KueueRead
    BY <1>2, TierIsFound DEF KueueRead, Classified, Unread, Owner, Profile, Tiers
<1>3. CASE NamespaceRead
    BY <1>3, TierIsFound DEF NamespaceRead, Classified, Owner, Profile, Tiers
<1>4. ASSUME NEW n \in Nodes, Filter(n) \/ Score(n)
      PROVE  Reading'
    BY <1>4 DEF Filter, Score, history
<1>5. CASE Unschedulable \/ \E n \in Nodes : Select(n)
    BY <1>5 DEF Unschedulable, Select, IdleCycle
<1>6. ASSUME NEW p \in Pods, ClusterStep(p)
      PROVE  Reading'
    BY <1>6, ClusterSteps
<1>7. CASE Relabel
    BY <1>7 DEF Relabel, cycle
<1>8. CASE UNCHANGED vars
    BY <1>8 DEF vars, cycle, history
<1>9. QED
    BY <1>1, <1>2, <1>3, <1>4, <1>5, <1>6, <1>7, <1>8 DEF Next, ClusterStep

\* A node passes the filter with the profile's tier, and a pod is placed on a
\* node that passed: what the tier does not allow never comes to hold.
LEMMA GuardedKept ==
    ASSUME Types, Reading, Guarded, Types', Reading', [Next]_vars
    PROVE  Guarded'
<1> USE PlacementAssumption DEF PlacementAssumption, Types
<1>1. ASSUME UNCHANGED <<place, granted>>,
             \/ UNCHANGED <<verdict, owner, current>> /\ (step = "nodes" => step' = "nodes")
             \/ \A n \in Nodes : verdict'[n] = "todo"
      PROVE  Guarded'
    BY <1>1 DEF Guarded, Allows
<1>2. ASSUME NEW p \in Pods, BeginCycle(p)
      PROVE  Guarded'
  <2>1. step # "nodes"
    BY <1>2 DEF BeginCycle
  <2>2. UNCHANGED <<place, granted>> /\ \A n \in Nodes : verdict'[n] = "todo"
    BY <1>2, <2>1 DEF BeginCycle, Guarded, history
  <2>3. QED
    BY <1>1, <2>2
<1>3. CASE KueueRead \/ NamespaceRead
  <2>1. step # "nodes" /\ UNCHANGED <<place, granted, verdict>>
    BY <1>3 DEF KueueRead, NamespaceRead, pods
  <2>2. QED
    BY <1>1, <2>1 DEF Guarded
<1>4. ASSUME NEW n \in Nodes, Filter(n)
      PROVE  Guarded'
  <2>1. /\ step = "nodes" /\ UNCHANGED <<place, granted, owner, current, step, profile>>
        /\ verdict' = [verdict EXCEPT ![n] =
             IF Fits(current, n) /\ FragmentationFilter(current, profile, n, Listed(n))
             THEN "pass" ELSE "reject"]
    BY <1>4 DEF Filter, history, pods
  <2>2. ASSUME verdict'[n] = "pass"
        PROVE  Allows(owner, current, n)
    <3>1. FragmentationFilter(current, profile, n, Listed(n))
        BY <2>1, <2>2
    <3>2. CASE owner = "any"
        BY <3>2 DEF Allows
    <3>3. CASE owner # "any"
        BY <3>1, <3>3, FilterAllows DEF Reading
    <3>4. QED
        BY <3>2, <3>3
  <2>3. \A m \in Nodes : verdict'[m] = "pass" => Allows(owner, current, m)
    <3>1. \A m \in Nodes : m # n => verdict'[m] = verdict[m]
        BY <2>1
    <3>2. QED
        BY <2>2, <3>1 DEF Guarded
  <2>4. QED
    BY <2>1, <2>3 DEF Guarded, Allows
<1>5. ASSUME NEW n \in Nodes, Score(n)
      PROVE  Guarded'
  <2>1. UNCHANGED <<place, granted, verdict, owner, current, step>>
    BY <1>5 DEF Score, history, pods
  <2>2. QED
    BY <1>1, <2>1
<1>6. ASSUME NEW n \in Nodes, Select(n)
      PROVE  Guarded'
  <2>1. /\ verdict[n] = "pass" /\ step = "nodes"
        /\ place' = [place EXCEPT ![current] = n]
        /\ granted' = [granted EXCEPT ![current] = owner]
        /\ \A m \in Nodes : verdict'[m] = "todo"
    BY <1>6 DEF Select, AllFiltered, IdleCycle
  <2>2. Allows(owner, current, n)
    BY <2>1 DEF Guarded
  <2>3. ASSUME NEW p \in Pods \ Foreign, NEW m \in Nodes, place'[p] = m
        PROVE  Allows(granted'[p], p, m)
    <3>1. CASE p = current
        BY <2>1, <2>2, <2>3, <3>1
    <3>2. CASE p # current
        BY <2>1, <2>3, <3>2 DEF Guarded
    <3>3. QED
        BY <3>1, <3>2
  <2>4. QED
    BY <2>1, <2>3 DEF Guarded, Allows
<1>7. CASE Unschedulable
  <2>1. UNCHANGED <<place, granted>> /\ \A n \in Nodes : verdict'[n] = "todo"
    BY <1>7 DEF Unschedulable, IdleCycle
  <2>2. QED
    BY <1>1, <2>1
<1>8. ASSUME NEW p \in Pods, ClusterStep(p)
      PROVE  Guarded'
  <2>1. /\ UNCHANGED <<verdict, owner, granted, step, current>>
        /\ \A q \in Pods \ Foreign : place'[q] \in {place[q], NoNode}
    BY <1>8, ClusterSteps
  <2>2. \A q \in Pods \ Foreign : \A n \in Nodes : place'[q] = n => place[q] = n
    BY <2>1
  <2>3. QED
    BY <2>1, <2>2 DEF Guarded, Allows
<1>9. CASE Relabel \/ UNCHANGED vars
  <2>1. UNCHANGED <<place, granted, verdict, owner, current, step>>
    BY <1>9 DEF Relabel, vars, cycle, history, pods
  <2>2. QED
    BY <1>1, <2>1
<1>10. QED
    BY <1>2, <1>3, <1>4, <1>5, <1>6, <1>7, <1>8, <1>9 DEF Next, ClusterStep

LEMMA PInvHolds == Spec => []PInv
<1>1. Init => PInv
    BY Initially
<1>2. PInv /\ [Next]_vars => PInv'
    BY TypesKept, ReadingKept, GuardedKept DEF PInv
<1>3. QED
    BY <1>1, <1>2, PTL DEF Spec

\* The tier that an administrator put on the namespace decides as soon as one
\* of the two reads of PreFilter gets through, whichever read fails.
THEOREM TierDecides == Spec => []ExplicitTierWins
<1>1. PInv => ExplicitTierWins
    BY DEF PInv, Reading, ExplicitTierWins
<1>2. QED
    BY <1>1, PInvHolds, PTL

\* ResourceFragmentation's filter keeps every GPU pod off the islands reserved
\* above the tier its namespace granted, whatever happens between the reads of
\* the cycle and the bind.
THEOREM IslandsKept == Spec => []IslandsProtected
<1>1. PInv => IslandsProtected
    BY DEF PInv, Guarded, Allows, IslandsProtected
<1>2. QED
    BY <1>1, PInvHolds, PTL

-----------------------------------------------------------------------------
(* Lemmas on the scores.                                                   *)

LEMMA AmountsAreNumbers ==
    ASSUME NEW S \in SUBSET Pods
    PROVE  Cpu(S) \in Nat /\ Mem(S) \in Nat /\ Gpu(S) \in Nat
<1> DEFINE c == [p \in Pods |-> Attr[p].cpu]
           m == [p \in Pods |-> Attr[p].mem]
           g == [p \in Pods |-> Attr[p].gpu]
<1>1. IsFiniteSet(S)
    BY ScoringAssumption, FS_Subset
<1>2. \A p \in Pods : c[p] \in Nat /\ m[p] \in Nat /\ g[p] \in Nat
    BY ClassifierAssumption DEF PodAttributes
<1> HIDE DEF c, m, g
<1>3. /\ SumFunctionOnSet(c, S) \in Nat /\ SumFunctionOnSet(m, S) \in Nat
      /\ SumFunctionOnSet(g, S) \in Nat
    BY <1>1, <1>2, SumNat
<1>4. QED
    BY <1>3 DEF Cpu, Mem, Gpu, c, m, g

\* What NodeInfo counts of more pods is no less than what the containers of
\* fewer request.
LEMMA RequestedCovers ==
    ASSUME NEW T \in SUBSET Pods, NEW S \in SUBSET T
    PROVE  /\ Requested(T).cpu \in Nat /\ Requested(T).cpu >= Cpu(S)
           /\ Requested(T).mem \in Nat /\ Requested(T).mem >= Mem(S)
           /\ Requested(T).gpu \in Nat /\ Requested(T).gpu >= Gpu(S)
<1> DEFINE c == [p \in Pods |-> Attr[p].cpu]
           m == [p \in Pods |-> Attr[p].mem]
           g == [p \in Pods |-> Attr[p].gpu]
           ec == [p \in Pods |-> Extra[p].cpu]
           em == [p \in Pods |-> Extra[p].mem]
           eg == [p \in Pods |-> Extra[p].gpu]
<1>1. IsFiniteSet(T)
    BY ScoringAssumption, FS_Subset
<1>2. \A p \in T : /\ c[p] \in Nat /\ m[p] \in Nat /\ g[p] \in Nat
                   /\ ec[p] \in Nat /\ em[p] \in Nat /\ eg[p] \in Nat
    BY ClassifierAssumption, ScoringAssumption DEF PodAttributes
<1>3. /\ Requested(T).cpu = Cpu(T) + SumFunctionOnSet(ec, T)
      /\ Requested(T).mem = Mem(T) + SumFunctionOnSet(em, T)
      /\ Requested(T).gpu = Gpu(T) + SumFunctionOnSet(eg, T)
    BY DEF Requested
<1> HIDE DEF c, m, g, ec, em, eg
<1>4. /\ SumFunctionOnSet(ec, T) \in Nat /\ SumFunctionOnSet(em, T) \in Nat
      /\ SumFunctionOnSet(eg, T) \in Nat
    BY <1>1, <1>2, SumNat
<1>5. /\ SumFunctionOnSet(c, S) <= SumFunctionOnSet(c, T)
      /\ SumFunctionOnSet(m, S) <= SumFunctionOnSet(m, T)
      /\ SumFunctionOnSet(g, S) <= SumFunctionOnSet(g, T)
    BY <1>1, <1>2, SumMonotone
<1>6. Cpu(S) <= Cpu(T) /\ Mem(S) <= Mem(T) /\ Gpu(S) <= Gpu(T)
    BY <1>5 DEF Cpu, Mem, Gpu, c, m, g
<1>7. /\ Cpu(S) \in Nat /\ Mem(S) \in Nat /\ Gpu(S) \in Nat
      /\ Cpu(T) \in Nat /\ Mem(T) \in Nat /\ Gpu(T) \in Nat
    BY AmountsAreNumbers
<1>8. QED
    BY <1>3, <1>4, <1>6, <1>7

LEMMA NodesOffer ==
    ASSUME NEW n \in Nodes
    PROVE  Hw[n].cpu \in Nat /\ Hw[n].mem \in Nat /\ Hw[n].gpu \in Nat
  BY ScoringAssumption DEF NodeAttributes

\* The part of a whole, in percent.
LEMMA PercentInRange ==
    ASSUME NEW d \in Nat \ {0}, NEW a \in 0..(100 * d)
    PROVE  a \div d \in 0..100
<1>1. a \in Nat /\ a <= 100 * d
    OBVIOUS
<1>2. a \div d \in Nat
    BY <1>1, Z3
<1>3. a \div d <= 100
    BY <1>1, Z3
<1>4. QED
    BY <1>2, <1>3

LEMMA Product ==
    \A a, b \in Nat : /\ a * b \in Nat
                      /\ a # 0 /\ b # 0 => a * b # 0
                      /\ \A c \in 0..a : c * b \in 0..(a * b)
  BY Z3

\* The weighted sum of three shares of a node is a share of the node.
LEMMA WeightedShare ==
    ASSUME NEW c \in Nat \ {0}, NEW m \in Nat \ {0}, NEW g \in Nat \ {0},
           NEW x \in 0..c, NEW y \in 0..m, NEW z \in 0..g
    PROVE  /\ c * m * g \in Nat \ {0}
           /\ 35 * x * m * g + 35 * y * c * g + 30 * z * c * m
                \in 0..(100 * (c * m * g))
<1> DEFINE d == c * m * g
<1>1. /\ m * g \in Nat \ {0} /\ c * g \in Nat \ {0} /\ c * m \in Nat \ {0}
      /\ d \in Nat \ {0}
    BY Product
<1>2. /\ d = c * (m * g) /\ d = m * (c * g) /\ d = g * (c * m)
    BY Z3
<1>3. /\ x * (m * g) \in 0..d /\ y * (c * g) \in 0..d /\ z * (c * m) \in 0..d
    BY <1>1, <1>2, Product
<1>4. /\ 35 * x * m * g = 35 * (x * (m * g))
      /\ 35 * y * c * g = 35 * (y * (c * g))
      /\ 30 * z * c * m = 30 * (z * (c * m))
    BY Z3
<1>5. ASSUME NEW e \in Nat, NEW i \in 0..e, NEW j \in 0..e, NEW k \in 0..e
      PROVE  35 * i + 35 * j + 30 * k \in 0..(100 * e)
    OBVIOUS
<1>6. 35 * (x * (m * g)) + 35 * (y * (c * g)) + 30 * (z * (c * m)) \in 0..(100 * d)
  <2> HIDE DEF d
  <2>1. QED
    BY <1>1, <1>3, <1>5
<1>7. QED
    BY <1>1, <1>4, <1>6, Zenon

LEMMA LeastInRange ==
    ASSUME NEW a \in Nat, NEW b \in Nat
    PROVE  Least(a, b) \in 0..b
  BY DEF Least

\* The weighted average is a share of the node.
LEMMA AverageInRange ==
    ASSUME NEW n \in Nodes, Hw[n].cpu # 0, Hw[n].mem # 0,
           NEW cpu \in Nat, NEW mem \in Nat, NEW gpu \in Nat
    PROVE  LET u == WeightedAverage(n, cpu, mem, gpu)
           IN  u.den \in Nat \ {0} /\ u.num \in 0..(100 * u.den)
<1> DEFINE h == Hw[n]
           g == IF h.gpu = 0 THEN 1 ELSE h.gpu
           u == WeightedAverage(n, cpu, mem, gpu)
           x == Least(cpu, h.cpu)
           y == Least(mem, h.mem)
           z == Least(gpu, h.gpu)
<1>1. /\ u.num = 35 * x * h.mem * g + 35 * y * h.cpu * g + 30 * z * h.cpu * h.mem
      /\ u.den = h.cpu * h.mem * g
  <2>1. u = [num |-> 35 * x * h.mem * g + 35 * y * h.cpu * g
                     + 30 * z * h.cpu * h.mem,
             den |-> h.cpu * h.mem * g]
    BY Zenon DEF WeightedAverage
  <2> HIDE DEF u, x, y, z, g, h
  <2>2. QED
    BY <2>1, Zenon
<1>2. /\ h.cpu \in Nat \ {0} /\ h.mem \in Nat \ {0} /\ g \in Nat \ {0}
      /\ h.gpu \in Nat /\ h.gpu <= g
    BY NodesOffer
<1>3. x \in 0..h.cpu /\ y \in 0..h.mem /\ z \in 0..h.gpu
    BY <1>2, LeastInRange
<1> HIDE DEF u, x, y, z, g, h
<1>4. z \in 0..g
    BY <1>2, <1>3
<1>5. /\ h.cpu * h.mem * g \in Nat \ {0}
      /\ 35 * x * h.mem * g + 35 * y * h.cpu * g + 30 * z * h.cpu * h.mem
           \in 0..(100 * (h.cpu * h.mem * g))
    BY <1>2, <1>3, <1>4, WeightedShare
<1>6. u.den \in Nat \ {0} /\ u.num \in 0..(100 * u.den)
    BY <1>1, <1>5, Zenon
<1>7. QED
    BY <1>6 DEF u

LEMMA LeastMonotone ==
    ASSUME NEW a \in Nat, NEW b \in Nat, NEW c \in Nat, a >= b
    PROVE  Least(a, c) \in Nat /\ Least(b, c) \in Nat /\ Least(a, c) >= Least(b, c)
  BY DEF Least

LEMMA ProductMonotone ==
    \A a, b, d, e, k \in Nat :
        a >= b => k * a * d * e \in Nat /\ k * b * d * e \in Nat
                  /\ k * a * d * e >= k * b * d * e
<1> SUFFICES ASSUME NEW a \in Nat, NEW b \in Nat, NEW d \in Nat, NEW e \in Nat,
                    NEW k \in Nat, a >= b
             PROVE  k * a * d * e \in Nat /\ k * b * d * e \in Nat
                    /\ k * a * d * e >= k * b * d * e
    OBVIOUS
<1>1. k * a \in Nat /\ k * b \in Nat /\ k * a >= k * b
    BY Z3
<1>2. ASSUME NEW i \in Nat, NEW j \in Nat, i >= j, NEW l \in Nat
      PROVE  i * l \in Nat /\ j * l \in Nat /\ i * l >= j * l
    BY <1>2, Z3
<1>3. QED
    BY <1>1, <1>2

\* The fields of a fraction.
LEMMA FractionFields ==
    ASSUME NEW u, NEW i, NEW d, u = [num |-> i, den |-> d]
    PROVE  u.num = i /\ u.den = d
  BY Zenon

\* More requests make no smaller average.
LEMMA AverageMonotone ==
    ASSUME NEW n \in Nodes,
           NEW c1 \in Nat, NEW m1 \in Nat, NEW g1 \in Nat,
           NEW c2 \in Nat, NEW m2 \in Nat, NEW g2 \in Nat,
           c1 >= c2, m1 >= m2, g1 >= g2
    PROVE  /\ WeightedAverage(n, c1, m1, g1).den = WeightedAverage(n, c2, m2, g2).den
           /\ WeightedAverage(n, c1, m1, g1).num >= WeightedAverage(n, c2, m2, g2).num
<1> DEFINE h == Hw[n]
           g == IF h.gpu = 0 THEN 1 ELSE h.gpu
           i1 == 35 * Least(c1, h.cpu) * h.mem * g
           i2 == 35 * Least(c2, h.cpu) * h.mem * g
           j1 == 35 * Least(m1, h.mem) * h.cpu * g
           j2 == 35 * Least(m2, h.mem) * h.cpu * g
           k1 == 30 * Least(g1, h.gpu) * h.cpu * h.mem
           k2 == 30 * Least(g2, h.gpu) * h.cpu * h.mem
<1>1. h.cpu \in Nat /\ h.mem \in Nat /\ h.gpu \in Nat /\ g \in Nat
    BY NodesOffer
<1>2. /\ WeightedAverage(n, c1, m1, g1)
           = [num |-> i1 + j1 + k1, den |-> h.cpu * h.mem * g]
      /\ WeightedAverage(n, c2, m2, g2)
           = [num |-> i2 + j2 + k2, den |-> h.cpu * h.mem * g]
    BY Zenon DEF WeightedAverage
<1> HIDE DEF g, h
<1>3. /\ i1 \in Nat /\ i2 \in Nat /\ i1 >= i2
      /\ j1 \in Nat /\ j2 \in Nat /\ j1 >= j2
      /\ k1 \in Nat /\ k2 \in Nat /\ k1 >= k2
  <2>1. 35 \in Nat /\ 30 \in Nat
    OBVIOUS
  <2>2. i1 \in Nat /\ i2 \in Nat /\ i1 >= i2
    <3>1. /\ Least(c1, h.cpu) \in Nat /\ Least(c2, h.cpu) \in Nat
          /\ Least(c1, h.cpu) >= Least(c2, h.cpu)
        BY <1>1, LeastMonotone
    <3>2. QED
        BY <1>1, <2>1, <3>1, ProductMonotone, Zenon
  <2>3. j1 \in Nat /\ j2 \in Nat /\ j1 >= j2
    <3>1. /\ Least(m1, h.mem) \in Nat /\ Least(m2, h.mem) \in Nat
          /\ Least(m1, h.mem) >= Least(m2, h.mem)
        BY <1>1, LeastMonotone
    <3>2. QED
        BY <1>1, <2>1, <3>1, ProductMonotone, Zenon
  <2>4. k1 \in Nat /\ k2 \in Nat /\ k1 >= k2
    <3>1. /\ Least(g1, h.gpu) \in Nat /\ Least(g2, h.gpu) \in Nat
          /\ Least(g1, h.gpu) >= Least(g2, h.gpu)
        BY <1>1, LeastMonotone
    <3>2. QED
        BY <1>1, <2>1, <3>1, ProductMonotone, Zenon
  <2>5. QED
    BY <2>2, <2>3, <2>4
<1> DEFINE d == h.cpu * h.mem * g
           s1 == i1 + j1 + k1
           s2 == i2 + j2 + k2
<1>4. /\ WeightedAverage(n, c1, m1, g1) = [num |-> s1, den |-> d]
      /\ WeightedAverage(n, c2, m2, g2) = [num |-> s2, den |-> d]
    BY <1>2
<1> HIDE DEF d, i1, i2, j1, j2, k1, k2
<1>5. s1 >= s2
    BY <1>3
<1> HIDE DEF s1, s2
<1>6. /\ WeightedAverage(n, c1, m1, g1).num = s1
      /\ WeightedAverage(n, c1, m1, g1).den = d
      /\ WeightedAverage(n, c2, m2, g2).num = s2
      /\ WeightedAverage(n, c2, m2, g2).den = d
    BY <1>4, FractionFields
<1>7. QED
    BY <1>5, <1>6, Zenon

LEMMA UtilizationInRange ==
    ASSUME NEW n \in Nodes, NEW S \in SUBSET Pods
    PROVE  LET u == calculateNodeUtilization(n, S)
           IN  u.den \in Nat \ {0} /\ u.num \in 0..(100 * u.den)
<1> DEFINE r == Requested(S)
           u == calculateNodeUtilization(n, S)
<1>1. CASE Hw[n].cpu = 0 \/ Hw[n].mem = 0
  <2>1. u = Zero
    BY <1>1, Zenon DEF calculateNodeUtilization
  <2>2. QED
    BY <2>1 DEF Zero
<1>2. CASE ~(Hw[n].cpu = 0 \/ Hw[n].mem = 0)
  <2>1. u = WeightedAverage(n, r.cpu, r.mem, r.gpu)
    BY <1>2, Zenon DEF calculateNodeUtilization
  <2>2. r.cpu \in Nat /\ r.mem \in Nat /\ r.gpu \in Nat
    BY RequestedCovers
  <2> HIDE DEF r, u
  <2>3. u.den \in Nat \ {0} /\ u.num \in 0..(100 * u.den)
    BY <1>2, <2>1, <2>2, AverageInRange
  <2>4. QED
    BY <2>3 DEF u
<1>3. QED
    BY <1>1, <1>2

LEMMA WorkloadInRange ==
    ASSUME NEW p, NEW pr, NEW n \in Nodes, NEW S \in SUBSET Pods
    PROVE  WorkloadAwareScore(p, pr, n, S) \in 0..100
<1> DEFINE u == calculateNodeUtilization(n, S)
<1>1. u.den \in Nat \ {0} /\ u.num \in 0..(100 * u.den)
    BY UtilizationInRange
<1> HIDE DEF u
<1>2. /\ 100 * u.den - u.num \in 0..(100 * u.den)
    BY <1>1
<1>3. Percent(u) \in 0..100 /\ Percent(Complement(u)) \in 0..100
    BY <1>1, <1>2, PercentInRange DEF Percent, Complement
<1>4. QED
    BY <1>3, Zenon DEF WorkloadAwareScore, u

LEMMA TopologyInRange ==
    ASSUME NEW p, NEW pr, NEW n \in Nodes
    PROVE  TopologyScore(p, pr, n, Nodes) \in 0..100
<1> DEFINE Z == {m \in Nodes : Hw[m].zone # ""}
           H == {m \in Nodes : Hw[m].zone = Hw[n].zone /\ Hw[n].zone # ""}
           total == Cardinality(Z)
           here == Cardinality(H)
<1>1. IsFiniteSet(Z) /\ H \subseteq Z
    BY ScoringAssumption, FS_Subset, Zenon
<1>2. /\ total \in Nat /\ here \in Nat /\ here <= total
    BY <1>1, FS_Subset, FS_CardinalityType
<1>3. TopologyScore(p, pr, n, Nodes)
        \in {50, 100} \cup {IF total = 0 THEN 100
                            ELSE (100 * (total - here)) \div total}
    BY Zenon DEF TopologyScore, calculateZoneDistribution
<1> HIDE DEF Z, H, total, here
<1>4. ASSUME total # 0
      PROVE  (100 * (total - here)) \div total \in 0..100
  <2>1. total \in Nat \ {0} /\ 100 * (total - here) \in 0..(100 * total)
    BY <1>2, <1>4
  <2>2. QED
    BY <2>1, PercentInRange
<1>5. QED
    BY <1>3, <1>4

\* The average BackfillScoring computes from the containers of some pods.
ContainerAverage(n, S) == WeightedAverage(n, Cpu(S), Mem(S), Gpu(S))

LEMMA BackfillUsesAverage ==
    ASSUME NEW p, NEW pr, NEW n \in Nodes, NEW S \in SUBSET Pods,
           Hw[n].cpu # 0, Hw[n].mem # 0
    PROVE  LET u == ContainerAverage(n, S)
               lowered == u.num
                            - calculateTenantAdjustment(getPodTenantTier(pr), n) * u.den
           IN  /\ u.den \in Nat \ {0} /\ u.num \in 0..(100 * u.den)
               /\ BackfillScore(p, pr, n, S)
                    = IF getPreemptibilityFromProfile(p, pr) THEN Percent(Complement(u))
                      ELSE IF lowered < 0 THEN 0 ELSE lowered \div u.den
<1>1. Cpu(S) \in Nat /\ Mem(S) \in Nat /\ Gpu(S) \in Nat
    BY AmountsAreNumbers
<1>2. LET u == ContainerAverage(n, S)
      IN  u.den \in Nat \ {0} /\ u.num \in 0..(100 * u.den)
    BY <1>1, AverageInRange DEF ContainerAverage
<1>3. QED
    BY <1>2, Zenon DEF BackfillScore, ContainerAverage

LEMMA AdjustmentIsNumber ==
    ASSUME NEW t, NEW n
    PROVE  calculateTenantAdjustment(t, n) \in Nat
<1>1. \A s : TierRank(s) \in 0..3
    BY DEF TierRank
<1> DEFINE a == TierRank(t)
           b == TierRank(Hw[n].reserved)
<1>2. calculateTenantAdjustment(t, n) = IF a < b THEN 15 * (b - a) ELSE 0
    BY Zenon DEF calculateTenantAdjustment
<1>3. a \in 0..3 /\ b \in 0..3
    BY <1>1, Zenon
<1> HIDE DEF a, b
<1>4. QED
    BY <1>2, <1>3

LEMMA BackfillInRange ==
    ASSUME NEW p, NEW pr, NEW n \in Nodes, NEW S \in SUBSET Pods
    PROVE  BackfillScore(p, pr, n, S) \in 0..100
<1> DEFINE u == ContainerAverage(n, S)
           t == calculateTenantAdjustment(getPodTenantTier(pr), n)
           lowered == u.num - t * u.den
<1>1. CASE Hw[n].cpu = 0 \/ Hw[n].mem = 0
  <2>1. BackfillScore(p, pr, n, S) = 50
    BY <1>1, Zenon DEF BackfillScore
  <2>2. QED
    BY <2>1
<1>2. CASE ~(Hw[n].cpu = 0 \/ Hw[n].mem = 0)
  <2>1. BackfillScore(p, pr, n, S)
          = IF getPreemptibilityFromProfile(p, pr) THEN Percent(Complement(u))
            ELSE IF lowered < 0 THEN 0 ELSE lowered \div u.den
    BY <1>2, BackfillUsesAverage
  <2>2. u.den \in Nat \ {0} /\ u.num \in 0..(100 * u.den) /\ t \in Nat
    BY <1>2, BackfillUsesAverage, AdjustmentIsNumber
  <2> HIDE DEF u, t
  <2>3. Percent(Complement(u)) \in 0..100
    <3>1. 100 * u.den - u.num \in 0..(100 * u.den)
        BY <2>2
    <3>2. QED
        BY <2>2, <3>1, PercentInRange DEF Percent, Complement
  <2>4. lowered \in Int /\ lowered <= 100 * u.den
    <3>1. t * u.den \in Nat
        BY <2>2, Product
    <3>2. QED
        BY <2>2, <3>1
  <2> HIDE DEF lowered
  <2>5. ASSUME ~(lowered < 0)
        PROVE  lowered \div u.den \in 0..100
    <3>1. lowered \in 0..(100 * u.den)
        BY <2>2, <2>4, <2>5
    <3>2. QED
        BY <2>2, <3>1, PercentInRange
  <2>6. 0 \in 0..100
    OBVIOUS
  <2>7. QED
    BY <2>1, <2>3, <2>5, <2>6, Zenon
<1>3. QED
    BY <1>1, <1>2

LEMMA HardwareInRange ==
    ASSUME NEW p, NEW pr, NEW n
    PROVE  TenantHardwareScore(p, pr, n) \in 0..100
<1>1. \A a, b : calculateAffinityScore(a, b) \in 0..100
    BY DEF calculateAffinityScore
<1>2. QED
    BY <1>1, Zenon DEF TenantHardwareScore

\* The score of ResourceFragmentation is a number, and one from 0 to 100 on a
\* node of at most 100 GPUs that is not overcommitted.
Sane(n, S) == Hw[n].gpu <= 100 /\ ~Overcommitted(n, S)

LEMMA PercentIsNumber ==
    ASSUME NEW d \in Nat \ {0}, NEW a \in Nat
    PROVE  /\ (100 * a) \div d \in Nat
           /\ a <= d => (100 * a) \div d \in 0..100
<1>1. (100 * a) \div d \in Nat
    BY Z3
<1>2. ASSUME a <= d PROVE (100 * a) \div d \in 0..100
  <2>1. 100 * a \in 0..(100 * d)
    BY <1>2
  <2>2. QED
    BY <2>1, PercentInRange
<1>3. QED
    BY <1>1, <1>2

LEMMA CpuFragmentation ==
    ASSUME NEW n \in Nodes, NEW S \in SUBSET Pods
    PROVE  /\ scoreCPUMemoryFragmentation(n, S) \in Int
           /\ Sane(n, S) => scoreCPUMemoryFragmentation(n, S) \in 0..100
<1>1. Hw[n].cpu \in Nat /\ Cpu(S) \in Nat
    BY NodesOffer, AmountsAreNumbers
<1>2. CASE Hw[n].cpu = 0
  <2>1. scoreCPUMemoryFragmentation(n, S) = 0
    BY <1>2 DEF scoreCPUMemoryFragmentation
  <2>2. QED
    BY <2>1
<1>3. CASE Hw[n].cpu # 0
  <2>1. Hw[n].cpu \in Nat \ {0}
    BY <1>1, <1>3
  <2>2. scoreCPUMemoryFragmentation(n, S) = (100 * Cpu(S)) \div Hw[n].cpu
    BY <2>1 DEF scoreCPUMemoryFragmentation
  <2>3. Sane(n, S) => Cpu(S) <= Hw[n].cpu
    <3>1. Requested(S).cpu \in Nat /\ Requested(S).cpu >= Cpu(S)
        BY RequestedCovers
    <3> DEFINE whole == Requested(S).cpu
    <3>2. Sane(n, S) => ~(whole > Hw[n].cpu)
        BY DEF Sane, Overcommitted
    <3>3. whole \in Nat /\ whole >= Cpu(S)
        BY <3>1
    <3> HIDE DEF whole
    <3>4. QED
        BY <1>1, <3>2, <3>3
  <2> DEFINE share == (100 * Cpu(S)) \div Hw[n].cpu
  <2>4. share \in Nat /\ (Cpu(S) <= Hw[n].cpu => share \in 0..100)
    BY <1>1, <2>1, PercentIsNumber
  <2> HIDE DEF share
  <2>5. share \in Int /\ (Sane(n, S) => share \in 0..100)
    BY <2>3, <2>4
  <2>6. QED
    BY <2>2, <2>5, Zenon DEF share
<1>4. QED
    BY <1>2, <1>3

LEMMA IslandFragmentation ==
    ASSUME NEW p \in Pods, NEW n \in Nodes, NEW S \in SUBSET Pods, Hw[n].gpu # 0
    PROVE  /\ IslandScore(p, n, S) \in Int
           /\ Sane(n, S) => IslandScore(p, n, S) \in 0..100
<1> DEFINE total == Hw[n].gpu
           used == Gpu(S)
           want == Attr[p].gpu
           pristine == Island(n, S).pristine
           quality == IslandQuality(n)
           share == (100 * used) \div total
           score == IF pristine /\ total >= 4 /\ want <= 2 THEN 0
                    ELSE IF total - used = want THEN 90
                    ELSE IF ~pristine /\ total - used >= want
                      THEN 100 - (total - used - want)
                    ELSE IF total >= 4 /\ want < total \div 2
                      THEN 20 + quality \div 10
                    ELSE share
<1>1. /\ Island(n, S).total = total /\ Island(n, S).allocated = used
      /\ Island(n, S).available = total - used
    BY DEF Island
<1>2. IslandScore(p, n, S) = score
    BY <1>1, Zenon DEF IslandScore
<1>3. total \in Nat \ {0} /\ used \in Nat
    BY NodesOffer, AmountsAreNumbers
<1>4. want \in Nat
    BY ClassifierAssumption DEF PodAttributes
<1>5. quality \div 10 \in 0..10
  <2>1. quality \in {100, 80, 50, 30}
    BY Zenon DEF IslandQuality
  <2>2. QED
    BY <2>1
<1>6. share \in Nat /\ (used <= total => share \in 0..100)
    BY <1>3, PercentIsNumber
<1>7. Sane(n, S) => total <= 100 /\ used <= total
  <2> DEFINE whole == Requested(S).gpu
  <2>1. whole \in Nat /\ whole >= used
    BY RequestedCovers
  <2>2. Sane(n, S) => total <= 100 /\ ~(whole > total)
    BY DEF Sane, Overcommitted
  <2> HIDE DEF whole, used, total
  <2>3. QED
    BY <1>3, <2>1, <2>2
<1> DEFINE points == quality \div 10
<1>8. score = IF pristine /\ total >= 4 /\ want <= 2 THEN 0
              ELSE IF total - used = want THEN 90
              ELSE IF ~pristine /\ total - used >= want
                THEN 100 - (total - used - want)
              ELSE IF total >= 4 /\ want < total \div 2 THEN 20 + points
              ELSE share
    BY Zenon
<1>9. score \in {0, 90, 20 + points, share}
        \/ (total - used >= want /\ score = 100 - (total - used - want))
    BY <1>8, Zenon
<1> HIDE DEF total, used, want, pristine, quality, share, score, points
<1>10. score \in Int /\ (Sane(n, S) => score \in 0..100)
    BY <1>3, <1>4, <1>5, <1>6, <1>7, <1>9 DEF points
<1>11. QED
    BY <1>2, <1>10

LEMMA FragmentationInRange ==
    ASSUME NEW p \in Pods, NEW pr, NEW n \in Nodes, NEW S \in SUBSET Pods
    PROVE  /\ FragmentationScore(p, pr, n, S) \in Int
           /\ Sane(n, S) => FragmentationScore(p, pr, n, S) \in 0..100
<1> DEFINE type == IF pr = NoProfile THEN "unknown" ELSE pr.type
           penalty == calculateWorkloadFragmentationPenalty(p, type, n, S)
           score == FragmentationScore(p, pr, n, S)
<1>1. penalty \in {30, 15, 0}
    BY Zenon DEF calculateWorkloadFragmentationPenalty
<1>2. \/ score = scoreCPUMemoryFragmentation(n, S)
      \/ score = 10
      \/ score = penalty
      \/ Hw[n].gpu # 0 /\ score = IslandScore(p, n, S)
    BY Zenon DEF FragmentationScore
<1> HIDE DEF score, penalty
<1>3. QED
    BY <1>1, <1>2, CpuFragmentation, IslandFragmentation DEF score

-----------------------------------------------------------------------------
(* The rest of the types, and what the scores stand for.                   *)

OtherTypes ==
    /\ ns \in NamespaceLabels
    /\ phase \in [Pods -> {"pending", "cycle", "assumed", "bound", "gone"}]
    /\ seen \in [Pods -> Nodes \cup {NoNode}]
    /\ profile \in Profiles
    /\ snapshot \in [Nodes -> SUBSET Pods]
    /\ steady \in BOOLEAN /\ quiet \in BOOLEAN
    /\ faults \in 0..MaxFaults

\* The profile that the reads write is one.
LEMMA ProfileIsTyped ==
    ASSUME NEW p \in Pods, NEW t \in Tiers
    PROVE  Profile(p, t) \in Profiles
<1>1. Attr[p] \in PodAttributes
    BY ClassifierAssumption
<1>2. classifyWorkload(p) \in WorkloadTypes \cup {"unknown", "none"}
    BY Zenon DEF classifyWorkload, parseWorkloadType, WorkloadTypes
<1>3. isGangPod(p) \in BOOLEAN
    BY <1>1 DEF isGangPod, PodAttributes
<1>4. isPreemptible(p) \in BOOLEAN
    BY <1>1 DEF isPreemptible, PodAttributes
<1>5. QED
    BY <1>2, <1>3, <1>4 DEF Profile, Profiles

\* Whatever the labels and the pod say, a tier comes out.
LEMMA TierIsTyped ==
    ASSUME NEW p, NEW l
    PROVE  /\ TierOfPodItself(p) \in Tiers
           /\ getTenantFromKueue(l) \in Tiers \cup {"unknown"}
           /\ getTenantFromNamespace(l) \in Tiers \cup {"unknown"}
<1>1. \A x : parseTenantTier(x) \in Tiers \cup {"unknown"}
    BY DEF parseTenantTier
<1>2. getTenantFromPriority(p) \in Tiers \cup {"unknown"}
    BY DEF getTenantFromPriority, Tiers
<1>3. inferTierFromName(l.name) \in Tiers \cup {"unknown"}
    BY DEF inferTierFromName, Tiers
<1>4. "bronze" \in Tiers
    BY DEF Tiers
<1>5. QED
    BY <1>1, <1>2, <1>3, <1>4
    DEF TierOfPodItself, getTenantFromAnnotations, getTenantFromKueue,
        getTenantFromNamespace

LEMMA OtherTypesKept ==
    ASSUME Types, OtherTypes, [Next]_vars
    PROVE  OtherTypes'
<1> USE PlacementAssumption DEF PlacementAssumption, OtherTypes
<1>1. ASSUME NEW p \in Pods, BeginCycle(p)
      PROVE  OtherTypes'
  <2>1. \A n \in Nodes : Cached(n) \subseteq Pods
    BY DEF Cached, Listed
  <2>2. QED
    BY <1>1, <2>1 DEF BeginCycle, history
<1>2. CASE KueueRead \/ NamespaceRead
  <2>1. UNCHANGED <<ns, phase, seen, snapshot, steady, quiet>>
    BY <1>2 DEF KueueRead, NamespaceRead, pods
  <2>2. current \in Pods
    BY <1>2 DEF KueueRead, NamespaceRead, Types
  <2>3. profile' = profile \/ \E t \in Tiers : profile' = Profile(current, t)
    BY <1>2, TierIsTyped DEF KueueRead, NamespaceRead, Classified, Unread
  <2>4. profile' \in Profiles
    BY <2>2, <2>3, ProfileIsTyped
  <2>5. faults' = faults \/ Fault
    BY <1>2 DEF KueueRead, NamespaceRead
  <2>6. faults' \in 0..MaxFaults
    BY <2>5 DEF Fault
  <2>7. QED
    BY <2>1, <2>4, <2>6
<1>3. ASSUME NEW n \in Nodes, Filter(n) \/ Score(n)
      PROVE  OtherTypes'
    BY <1>3 DEF Filter, Score, pods, history
<1>4. CASE Unschedulable \/ \E n \in Nodes : Select(n)
  <2>1. NoProfile \in Profiles
    BY DEF NoProfile, Profiles
  <2>2. /\ UNCHANGED <<ns, seen, faults>> /\ profile' = NoProfile
        /\ snapshot' = [n \in Nodes |-> {}] /\ steady' = TRUE /\ quiet' = TRUE
    BY <1>4 DEF Unschedulable, Select, IdleCycle
  <2>3. \/ phase' = [phase EXCEPT ![current] = "assumed"]
        \/ phase' = [phase EXCEPT ![current] = "pending"]
    BY <1>4 DEF Unschedulable, Select
  <2>4. phase' \in [Pods -> {"pending", "cycle", "assumed", "bound", "gone"}]
    BY <2>3
  <2>5. QED
    BY <2>1, <2>2, <2>4
<1>5. ASSUME NEW p \in Pods, Bind(p)
      PROVE  OtherTypes'
    BY <1>5 DEF Bind, cycle, history
<1>6. ASSUME NEW p \in Pods, PodEnds(p)
      PROVE  OtherTypes'
  <2>1. faults' = faults \/ Fault
    BY <1>6 DEF PodEnds
  <2>2. faults' \in 0..MaxFaults
    BY <2>1 DEF Fault
  <2>3. UNCHANGED <<ns, seen, profile, snapshot, steady, quiet>>
    BY <1>6 DEF PodEnds, cycle, history
  <2>4. phase' = [phase EXCEPT ![p] = "gone"]
    BY <1>6 DEF PodEnds
  <2>5. QED
    BY <2>2, <2>3, <2>4
<1>7. ASSUME NEW p \in Pods, SeePod(p)
      PROVE  OtherTypes'
  <2>1. place[p] \in Nodes \cup {NoNode}
    BY DEF Types
  <2>2. QED
    BY <1>7, <2>1 DEF SeePod, pods, cycle
<1>8. ASSUME NEW p \in Pods, NEW n \in Nodes, ForeignBind(p, n)
      PROVE  OtherTypes'
    BY <1>8 DEF ForeignBind, cycle, history
<1>9. CASE Relabel
    BY <1>9 DEF Relabel, Fault, pods, cycle
<1>10. CASE UNCHANGED vars
    BY <1>10 DEF vars, pods, cycle, history
<1>11. QED
    BY <1>1, <1>2, <1>3, <1>4, <1>5, <1>6, <1>7, <1>8, <1>9, <1>10 DEF Next

\* The scores of a cycle are those of the plugins, in their order; they stand
\* for what the plugins would answer now, unless the informer has moved on.
Scored ==
    /\ scores \in [Nodes -> Seq(Int)]
    /\ step # "nodes" => \A n \in Nodes : scores[n] = <<>>
    /\ \A n \in Nodes :
         /\ Len(scores[n]) <= 5
         /\ \A i \in 1..Len(scores[n]) :
              /\ i # 4 => scores[n][i] \in 0..100
              /\ quiet => scores[n][i] = PluginScore(Plugins[i], n)

LEMMA PluginOrder ==
    /\ Plugins[1] = "workload" /\ Plugins[2] = "topology"
    /\ Plugins[3] = "backfill" /\ Plugins[4] = "fragmentation"
    /\ Plugins[5] = "hardware" /\ Len(Plugins) = 5
  BY DEF Plugins

\* What the five plugins answer.
LEMMA PluginsInRange ==
    ASSUME Types, OtherTypes, step = "nodes", NEW n \in Nodes, NEW i \in 1..5
    PROVE  /\ PluginScore(Plugins[i], n) \in Int
           /\ i # 4 \/ Sane(n, Listed(n)) => PluginScore(Plugins[i], n) \in 0..100
<1>1. current \in Pods /\ snapshot[n] \in SUBSET Pods /\ Listed(n) \in SUBSET Pods
    BY DEF Types, OtherTypes, Listed
<1>2. CASE i = 1
  <2>1. PluginScore(Plugins[i], n)
          = WorkloadAwareScore(current, profile, n, snapshot[n])
    BY <1>2, PluginOrder, Zenon DEF PluginScore
  <2>2. QED
    BY <1>1, <2>1, WorkloadInRange
<1>3. CASE i = 2
  <2>1. PluginScore(Plugins[i], n) = TopologyScore(current, profile, n, Nodes)
    BY <1>3, PluginOrder DEF PluginScore
  <2>2. QED
    BY <2>1, TopologyInRange
<1>4. CASE i = 3
  <2>1. PluginScore(Plugins[i], n) = BackfillScore(current, profile, n, Listed(n))
    BY <1>4, PluginOrder DEF PluginScore
  <2>2. QED
    BY <1>1, <2>1, BackfillInRange
<1>5. CASE i = 4
  <2>1. PluginScore(Plugins[i], n)
          = FragmentationScore(current, profile, n, Listed(n))
    BY <1>5, PluginOrder DEF PluginScore
  <2>2. QED
    BY <1>1, <1>5, <2>1, FragmentationInRange
<1>6. CASE i = 5
  <2>1. PluginScore(Plugins[i], n) = TenantHardwareScore(current, profile, n)
    BY <1>6, PluginOrder DEF PluginScore
  <2>2. QED
    BY <2>1, HardwareInRange
<1>7. QED
    BY <1>2, <1>3, <1>4, <1>5, <1>6

\* A plugin answers alike until the cycle or the informer moves on.
LEMMA SameAnswers ==
    ASSUME UNCHANGED <<current, profile, snapshot, seen>>
    PROVE  \A plugin, n : PluginScore(plugin, n)' = PluginScore(plugin, n)
  BY DEF PluginScore, Listed

\* A step that leaves the scores alone, and with them the cycle or every score
\* empty, and the informer or its quiet.
LEMMA ScoresLeft ==
    ASSUME Scored, UNCHANGED scores,
           \/ UNCHANGED <<current, profile, snapshot, step>>
           \/ \A n \in Nodes : scores[n] = <<>>,
           \/ UNCHANGED <<seen, quiet>>
           \/ ~quiet'
           \/ \A n \in Nodes : scores[n] = <<>>
    PROVE  Scored'
<1>1. scores' \in [Nodes -> Seq(Int)]
    BY DEF Scored
<1>2. step' # "nodes" => \A n \in Nodes : scores'[n] = <<>>
    BY DEF Scored
<1>3. ASSUME NEW n \in Nodes
      PROVE  /\ Len(scores'[n]) <= 5
             /\ \A i \in 1..Len(scores'[n]) :
                  /\ i # 4 => scores'[n][i] \in 0..100
                  /\ quiet' => scores'[n][i] = PluginScore(Plugins[i], n)'
  <2>1. CASE scores[n] = <<>>
    BY <2>1
  <2>2. CASE scores[n] # <<>>
    <3>1. UNCHANGED <<current, profile, snapshot>>
        BY <2>2
    <3>2. UNCHANGED <<seen, quiet>> \/ ~quiet'
        BY <2>2
    <3>3. /\ Len(scores[n]) <= 5
          /\ \A i \in 1..Len(scores[n]) :
               /\ i # 4 => scores[n][i] \in 0..100
               /\ quiet => scores[n][i] = PluginScore(Plugins[i], n)
        BY DEF Scored
    <3>4. CASE ~quiet'
        BY <3>3, <3>4
    <3>5. CASE UNCHANGED <<seen, quiet>>
      <4>1. \A i : PluginScore(Plugins[i], n)' = PluginScore(Plugins[i], n)
          BY <3>1, <3>5, SameAnswers DEF Plugins
      <4>2. QED
          BY <3>3, <3>5, <4>1
    <3>6. QED
        BY <3>2, <3>4, <3>5
  <2>3. QED
    BY <2>1, <2>2
<1>4. QED
    BY <1>1, <1>2, <1>3 DEF Scored, Plugins

\* Score asks the next plugin; every other step leaves the scores or ends the
\* cycle.
LEMMA ScoredKept ==
    ASSUME Types, OtherTypes, Scored, [Next]_vars
    PROVE  Scored'
<1>1. ASSUME NEW p \in Pods, BeginCycle(p)
      PROVE  Scored'
  <2>1. step # "nodes"
    BY <1>1, PlacementAssumption DEF BeginCycle, Types
  <2>2. UNCHANGED scores /\ \A n \in Nodes : scores[n] = <<>>
    BY <1>1, <2>1 DEF BeginCycle, Scored
  <2>3. QED
    BY <2>2, ScoresLeft
<1>2. CASE KueueRead \/ NamespaceRead
  <2>1. step # "nodes" /\ UNCHANGED scores
    BY <1>2 DEF KueueRead, NamespaceRead
  <2>2. QED
    BY <2>1, ScoresLeft DEF Scored
<1>3. ASSUME NEW n \in Nodes, Filter(n)
      PROVE  Scored'
  <2>1. UNCHANGED <<scores, current, profile, snapshot, step, seen, quiet>>
    BY <1>3 DEF Filter, history
  <2>2. QED
    BY <2>1, ScoresLeft
<1>4. ASSUME NEW n \in Nodes, Score(n)
      PROVE  Scored'
  <2>1. PICK k \in Nat : k = Len(scores[n])
    BY DEF Scored
  <2> DEFINE new == PluginScore(Plugins[k + 1], n)
  <2>2. /\ step = "nodes" /\ k < Len(Plugins)
        /\ scores' = [scores EXCEPT ![n] = Append(@, new)]
        /\ UNCHANGED <<current, profile, snapshot, step, seen, quiet>>
    BY <1>4, <2>1 DEF Score, AllFiltered, history
  <2>3. scores \in [Nodes -> Seq(Int)] /\ k \in Nat
    BY DEF Scored
  <2>4. k + 1 \in 1..5
    BY <2>2, <2>3, PluginOrder
  <2>5. new \in Int /\ (k + 1 # 4 => new \in 0..100)
    BY <2>2, <2>4, PluginsInRange
  <2> HIDE DEF new
  <2>6. scores' \in [Nodes -> Seq(Int)]
    BY <2>2, <2>3, <2>5
  <2>7. \A i : PluginScore(Plugins[i], n)' = PluginScore(Plugins[i], n)
    BY <2>2, SameAnswers DEF Plugins
  <2>8. /\ Len(scores'[n]) <= 5
        /\ \A i \in 1..Len(scores'[n]) :
             /\ i # 4 => scores'[n][i] \in 0..100
             /\ quiet' => scores'[n][i] = PluginScore(Plugins[i], n)'
    <3>1. scores'[n] = Append(scores[n], new) /\ scores[n] \in Seq(Int)
        BY <2>2, <2>3
    <3>2. Len(scores'[n]) = k + 1 /\ scores'[n][k + 1] = new
        BY <2>1, <2>3, <2>5, <3>1
    <3>3. ASSUME NEW i \in 1..k
          PROVE  /\ i # 4 => scores'[n][i] \in 0..100
                 /\ quiet' => scores'[n][i] = PluginScore(Plugins[i], n)'
      <4>1. scores'[n][i] = scores[n][i]
          BY <2>1, <2>3, <2>5, <3>1
      <4>2. /\ i # 4 => scores[n][i] \in 0..100
            /\ quiet => scores[n][i] = PluginScore(Plugins[i], n)
          BY <2>1 DEF Scored
      <4>3. QED
          BY <2>2, <2>7, <4>1, <4>2
    <3>4. /\ k + 1 # 4 => scores'[n][k + 1] \in 0..100
          /\ scores'[n][k + 1] = PluginScore(Plugins[k + 1], n)'
        BY <2>5, <2>7, <3>2 DEF new
    <3>5. \A i \in 1..(k + 1) : i \in 1..k \/ i = k + 1
        BY <2>3
    <3>6. Len(scores'[n]) <= 5
        BY <2>3, <2>4, <3>2
    <3>7. 1..Len(scores'[n]) = 1..(k + 1)
        BY <3>2
    <3>8. ASSUME NEW i \in 1..(k + 1)
          PROVE  /\ i # 4 => scores'[n][i] \in 0..100
                 /\ quiet' => scores'[n][i] = PluginScore(Plugins[i], n)'
      <4>1. CASE i \in 1..k
          BY <3>3, <4>1
      <4>2. CASE i = k + 1
          BY <3>4, <4>2, Zenon
      <4>3. QED
          BY <3>5, <4>1, <4>2
    <3>9. QED
        BY <3>6, <3>7, <3>8, Zenon
  <2>9. ASSUME NEW m \in Nodes, m # n
        PROVE  /\ Len(scores'[m]) <= 5
               /\ \A i \in 1..Len(scores'[m]) :
                    /\ i # 4 => scores'[m][i] \in 0..100
                    /\ quiet' => scores'[m][i] = PluginScore(Plugins[i], m)'
    <3>1. scores'[m] = scores[m]
        BY <2>2, <2>3, <2>9
    <3>2. \A i : PluginScore(Plugins[i], m)' = PluginScore(Plugins[i], m)
        BY <2>2, SameAnswers DEF Plugins
    <3>3. QED
        BY <2>2, <3>1, <3>2 DEF Scored
  <2>10. step' = "nodes"
    BY <2>2
  <2>11. QED
    BY <2>6, <2>8, <2>9, <2>10 DEF Scored, Plugins
<1>5. CASE Unschedulable \/ \E n \in Nodes : Select(n)
  <2>1. scores' = [n \in Nodes |-> <<>>]
    BY <1>5 DEF Unschedulable, Select, IdleCycle
  <2>2. scores' \in [Nodes -> Seq(Int)]
    BY <2>1
  <2>3. \A n \in Nodes : scores'[n] = <<>>
    BY <2>1
  <2>4. QED
    BY <2>2, <2>3 DEF Scored
<1>6. ASSUME NEW p \in Pods, Bind(p) \/ PodEnds(p) \/ \E n \in Nodes : ForeignBind(p, n)
      PROVE  Scored'
  <2>1. UNCHANGED <<scores, current, profile, snapshot, step, seen, quiet>>
    BY <1>6 DEF Bind, PodEnds, ForeignBind, cycle, history
  <2>2. QED
    BY <2>1, ScoresLeft
<1>7. ASSUME NEW p \in Pods, SeePod(p)
      PROVE  Scored'
  <2>1. /\ UNCHANGED <<scores, current, profile, snapshot, step>>
        /\ quiet' = (current = NoPod)
    BY <1>7 DEF SeePod, cycle
  <2>2. ~quiet' \/ \A n \in Nodes : scores[n] = <<>>
    BY <2>1, PlacementAssumption DEF Types, Scored
  <2>3. QED
    BY <2>1, <2>2, ScoresLeft
<1>8. CASE Relabel \/ UNCHANGED vars
  <2>1. UNCHANGED <<scores, current, profile, snapshot, step, seen, quiet>>
    BY <1>8 DEF Relabel, vars, cycle, history
  <2>2. QED
    BY <2>1, ScoresLeft
<1>9. QED
    BY <1>1, <1>2, <1>3, <1>4, <1>5, <1>6, <1>7, <1>8 DEF Next

LEMMA ScoredHolds == Spec => [](PInv /\ OtherTypes /\ Scored)
<1>1. Init => OtherTypes /\ Scored
  <2> SUFFICES ASSUME Init PROVE OtherTypes /\ Scored
    OBVIOUS
  <2>1. NoProfile \in Profiles
    BY DEF NoProfile, Profiles
  <2>2. OtherTypes
    BY <2>1, PlacementAssumption DEF Init, OtherTypes, PlacementAssumption
  <2>3. Scored
    BY DEF Init, Scored
  <2>4. QED
    BY <2>2, <2>3
<1>2. PInv /\ OtherTypes /\ Scored /\ [Next]_vars => OtherTypes' /\ Scored'
    BY OtherTypesKept, ScoredKept DEF PInv
<1>3. QED
    BY <1>1, <1>2, PInvHolds, PTL DEF Spec

\* The state is well formed, the profile and the scores among it: whatever the
\* labels, the pod and the reads, PreFilter ends with a tier and a type, and
\* each plugin answers a number.
THEOREM TypeCorrect == Spec => []TypeOK
<1>1. PInv /\ OtherTypes /\ Scored => TypeOK
  <2> SUFFICES ASSUME PInv, OtherTypes, Scored PROVE TypeOK
    OBVIOUS
  <2>1. \A n \in Nodes : scores[n] \in Seq(Int) /\ Len(scores[n]) <= Len(Plugins)
    BY PluginOrder DEF Scored
  <2>2. current \in Pods \cup {NoPod} /\ reads \in 0..2
    BY DEF PInv, Types
  <2>3. QED
    BY <2>1, <2>2 DEF PInv, Types, OtherTypes, TypeOK
<1>2. QED
    BY <1>1, ScoredHolds, PTL

\* No plugin's Score leaves the range 0..100 that Kubernetes accepts but
\* ResourceFragmentation's on an overcommitted node, as long as no node has
\* more than 100 GPUs: it takes a point off for every GPU that stays free.
THEOREM ScoresStayInRange ==
    ASSUME \A n \in Nodes : Hw[n].gpu <= 100
    PROVE  Spec => []ScoresInRange
<1>1. PInv /\ OtherTypes /\ Scored => ScoresInRange
  <2> SUFFICES ASSUME PInv, OtherTypes, Scored, NEW n \in Nodes,
                      NEW i \in DOMAIN scores[n]
               PROVE  \/ scores[n][i] \in 0..100
                      \/ /\ Plugins[i] = "fragmentation"
                         /\ ~quiet \/ Overcommitted(n, Listed(n))
    BY DEF ScoresInRange
  <2>1. /\ scores[n] \in Seq(Int) /\ Len(scores[n]) <= 5
        /\ \A j \in 1..Len(scores[n]) :
             /\ j # 4 => scores[n][j] \in 0..100
             /\ quiet => scores[n][j] = PluginScore(Plugins[j], n)
    BY DEF Scored
  <2>2. i \in 1..Len(scores[n]) /\ i \in 1..5
    BY <2>1
  <2>3. step = "nodes"
    BY <2>2 DEF Scored
  <2>4. CASE i # 4
    BY <2>1, <2>2, <2>4
  <2>5. CASE i = 4
    <3>1. Plugins[i] = "fragmentation"
        BY <2>5, PluginOrder
    <3>2. CASE ~quiet \/ Overcommitted(n, Listed(n))
        BY <3>1, <3>2
    <3>3. CASE quiet /\ ~Overcommitted(n, Listed(n))
      <4>1. Sane(n, Listed(n))
          BY <3>3 DEF Sane
      <4>2. PluginScore(Plugins[i], n) \in 0..100
          BY <2>2, <2>3, <4>1, PluginsInRange DEF PInv
      <4>3. QED
          BY <2>1, <2>2, <3>3, <4>2
    <3>4. QED
        BY <3>2, <3>3
  <2>6. QED
    BY <2>4, <2>5
<1>2. QED
    BY <1>1, ScoredHolds, PTL

\* All that the informer shows is in the snapshot, until it shows more.
Covered == step # "idle" /\ quiet => \A n \in Nodes : Listed(n) \subseteq snapshot[n]

LEMMA CoveredKept ==
    ASSUME Types, Covered, [Next]_vars
    PROVE  Covered'
<1>1. ASSUME NEW p \in Pods, BeginCycle(p)
      PROVE  Covered'
  <2>1. snapshot' = [n \in Nodes |-> Cached(n)] /\ seen' = seen
    BY <1>1 DEF BeginCycle
  <2>2. QED
    BY <2>1 DEF Covered, Cached, Listed
<1>2. ASSUME UNCHANGED <<snapshot, seen, quiet>>, step # "idle"
      PROVE  Covered'
    BY <1>2 DEF Covered, Listed
<1>3. CASE KueueRead \/ NamespaceRead \/ \E n \in Nodes : Filter(n) \/ Score(n)
  <2>1. UNCHANGED <<snapshot, seen, quiet>> /\ step # "idle"
    BY <1>3 DEF KueueRead, NamespaceRead, Filter, Score, AllFiltered, history
  <2>2. QED
    BY <1>2, <2>1
<1>4. CASE Unschedulable \/ \E n \in Nodes : Select(n)
    BY <1>4 DEF Unschedulable, Select, IdleCycle, Covered
<1>5. ASSUME UNCHANGED <<step, snapshot, seen, quiet>>
      PROVE  Covered'
    BY <1>5 DEF Covered, Listed
<1>6. CASE \/ Relabel \/ UNCHANGED vars
           \/ \E p \in Pods : \/ Bind(p) \/ PodEnds(p)
                              \/ \E n \in Nodes : ForeignBind(p, n)
    BY <1>5, <1>6 DEF Relabel, Bind, PodEnds, ForeignBind, vars, cycle, history
<1>7. ASSUME NEW p \in Pods, SeePod(p)
      PROVE  Covered'
  <2>1. step' = step /\ quiet' = (current = NoPod)
    BY <1>7 DEF SeePod, cycle
  <2>2. step # "idle" => current # NoPod
    BY PlacementAssumption DEF Types, PlacementAssumption
  <2>3. QED
    BY <2>1, <2>2 DEF Covered
<1>8. QED
    BY <1>1, <1>3, <1>4, <1>6, <1>7 DEF Next

\* Where less is in use, percent and complement are ordered.
LEMMA PercentMonotone ==
    ASSUME NEW d \in Nat \ {0}, NEW a \in Int, NEW b \in Int, a >= b
    PROVE  a \div d >= b \div d
<1> DEFINE x == a \div d
           y == b \div d
<1>1. x \in Int /\ y \in Int
    BY Z3
<1>2. /\ d * x <= a /\ a < d * (x + 1)
      /\ d * y <= b /\ b < d * (y + 1)
    BY Z3
<1> HIDE DEF x, y
<1>3. ASSUME x < y PROVE FALSE
  <2>1. x + 1 <= y
    BY <1>1, <1>3
  <2>2. d * (x + 1) <= d * y
    BY <1>1, <2>1, Z3
  <2>3. d * (x + 1) \in Int /\ d * y \in Int
    BY <1>1
  <2>4. QED
    BY <1>2, <2>2, <2>3
<1>4. QED
    BY <1>1, <1>3 DEF x, y

\* As long as no informer event falls into the cycle, no node is fuller for
\* BackfillScoring, which adds up containers the informer shows (backfill.go,
\* Score), than for WorkloadAwareScoring, which reads NodeInfo of the snapshot
\* (workloadaware.go, calculateNodeUtilization): whatever is assumed, and
\* whatever the pods ask for beside their containers.
THEOREM BackfillSeesLess == Spec => []NeverFullerForBackfill
<1>1. PInv /\ OtherTypes /\ Scored /\ Covered => NeverFullerForBackfill
  <2> SUFFICES ASSUME PInv, OtherTypes, Scored, Covered, NEW n \in Nodes,
                      Len(scores[n]) >= 3, quiet, Hw[n].cpu > 0, Hw[n].mem > 0
               PROVE  LET batch == TypeOrFallback(current, profile)
                                     \in {"batch", "training"}
                          preemptible == getPreemptibilityFromProfile(current, profile)
                      IN  /\ batch /\ ~preemptible => scores[n][1] >= scores[n][3]
                          /\ preemptible /\ ~batch => scores[n][1] <= scores[n][3]
    BY DEF NeverFullerForBackfill
  <2> DEFINE S == snapshot[n]
             L == Listed(n)
             r == Requested(S)
             u == calculateNodeUtilization(n, S)
             v == ContainerAverage(n, L)
             t == calculateTenantAdjustment(getPodTenantTier(profile), n)
             batch == TypeOrFallback(current, profile) \in {"batch", "training"}
             preemptible == getPreemptibilityFromProfile(current, profile)
             lowered == v.num - t * v.den
  <2>1. S \in SUBSET Pods /\ L \in SUBSET Pods
    BY DEF OtherTypes, Listed
  <2>2. /\ scores[n][1] = PluginScore("workload", n)
        /\ scores[n][3] = PluginScore("backfill", n)
        /\ step = "nodes"
    <3>1. scores[n] \in Seq(Int) /\ 1 \in 1..Len(scores[n]) /\ 3 \in 1..Len(scores[n])
        BY DEF Scored
    <3>2. QED
        BY <3>1, PluginOrder DEF Scored
  <2>3. /\ scores[n][1] = WorkloadAwareScore(current, profile, n, S)
        /\ scores[n][3] = BackfillScore(current, profile, n, L)
    BY <2>2 DEF PluginScore
  <2>4. scores[n][1] = IF batch THEN Percent(u) ELSE Percent(Complement(u))
    BY <2>3, Zenon DEF WorkloadAwareScore
  <2>5. Hw[n].cpu # 0 /\ Hw[n].mem # 0
    BY NodesOffer
  <2>6. /\ v.den \in Nat \ {0} /\ v.num \in 0..(100 * v.den)
        /\ scores[n][3] = IF preemptible THEN Percent(Complement(v))
                          ELSE IF lowered < 0 THEN 0 ELSE lowered \div v.den
    BY <2>1, <2>3, <2>5, BackfillUsesAverage
  <2>7. u.den = v.den /\ u.num >= v.num
    <3>1. L \in SUBSET S
        BY <2>2 DEF Covered
    <3>2. /\ r.cpu \in Nat /\ r.mem \in Nat /\ r.gpu \in Nat
          /\ r.cpu >= Cpu(L) /\ r.mem >= Mem(L) /\ r.gpu >= Gpu(L)
        BY <2>1, <3>1, RequestedCovers
    <3>3. Cpu(L) \in Nat /\ Mem(L) \in Nat /\ Gpu(L) \in Nat
        BY <2>1, AmountsAreNumbers
    <3>4. u = WeightedAverage(n, r.cpu, r.mem, r.gpu)
        BY <2>5, Zenon DEF calculateNodeUtilization
    <3>5. v = WeightedAverage(n, Cpu(L), Mem(L), Gpu(L))
        BY Zenon DEF ContainerAverage
    <3> HIDE DEF r, u, v, L
    <3> DEFINE c1 == r.cpu  m1 == r.mem  g1 == r.gpu
               c2 == Cpu(L)  m2 == Mem(L)  g2 == Gpu(L)
    <3>6. /\ c1 \in Nat /\ m1 \in Nat /\ g1 \in Nat
          /\ c2 \in Nat /\ m2 \in Nat /\ g2 \in Nat
          /\ c1 >= c2 /\ m1 >= m2 /\ g1 >= g2
        BY <3>2, <3>3
    <3> HIDE DEF c1, m1, g1, c2, m2, g2
    <3>7. /\ WeightedAverage(n, c1, m1, g1).den
                = WeightedAverage(n, c2, m2, g2).den
          /\ WeightedAverage(n, c1, m1, g1).num
                >= WeightedAverage(n, c2, m2, g2).num
        BY <3>6, AverageMonotone
    <3> USE DEF c1, m1, g1, c2, m2, g2
    <3>8. QED
        BY <3>4, <3>5, <3>7, Zenon
  <2>8. u.num \in 0..(100 * u.den)
    BY <2>1, UtilizationInRange
  <2>9. t \in Nat
    BY AdjustmentIsNumber
  <2> HIDE DEF u, v, t, batch, preemptible
  <2>10. ASSUME batch, ~preemptible
         PROVE  scores[n][1] >= scores[n][3]
    <3>1. t * v.den \in Nat
        BY <2>6, <2>9, Product
    <3>2. lowered \in Int /\ u.num >= lowered /\ u.num >= 0 /\ u.num \in Int
        BY <2>6, <2>7, <2>8, <3>1
    <3> HIDE DEF lowered
    <3>3. u.num \div v.den >= lowered \div v.den
        BY <2>6, <3>2, PercentMonotone
    <3>4. u.num \div v.den >= 0
      <4>1. u.num \div v.den \in 0..100
          BY <2>6, <2>7, <2>8, PercentInRange
      <4>2. ASSUME NEW i \in 0..100
            PROVE  i >= 0
          BY <4>2
      <4>3. QED
          BY <4>1, <4>2, Zenon
    <3>5. scores[n][1] = u.num \div v.den
        BY <2>4, <2>7, <2>10, Zenon DEF Percent
    <3>6. \/ scores[n][3] = 0
          \/ scores[n][3] = lowered \div v.den
        BY <2>6, <2>10, Zenon
    <3>7. QED
        BY <3>3, <3>4, <3>5, <3>6, Zenon
  <2>11. ASSUME preemptible, ~batch
         PROVE  scores[n][1] <= scores[n][3]
    <3> DEFINE a == 100 * v.den - v.num
               b == 100 * u.den - u.num
    <3>1. a \in Int /\ b \in Int /\ a >= b
        BY <2>6, <2>7, <2>8
    <3>2. scores[n][1] = b \div v.den
        BY <2>4, <2>7, <2>11, Zenon DEF Percent, Complement
    <3>3. scores[n][3] = a \div v.den
        BY <2>6, <2>11, Zenon DEF Percent, Complement
    <3> HIDE DEF a, b
    <3>4. a \div v.den >= b \div v.den
        BY <2>6, <3>1, PercentMonotone
    <3>5. a \div v.den \in Int /\ b \div v.den \in Int
        BY <2>6, <3>1, Z3
    <3>6. QED
        BY <3>2, <3>3, <3>4, <3>5
  <2>12. QED
    BY <2>10, <2>11 DEF batch, preemptible
<1>2. Init => Covered
    BY DEF Init, Covered
<1>3. PInv /\ Covered /\ [Next]_vars => Covered'
    BY CoveredKept DEF PInv
<1>4. Spec => []Covered
    BY <1>2, <1>3, PInvHolds, PTL DEF Spec
<1>5. QED
    BY <1>1, <1>4, ScoredHolds, PTL
=============================================================================
