------------------------ MODULE GpuSchedulingProofs ------------------------
(***************************************************************************)
(* The webhook and the scheduler agree on the tier of a GPU pod, the gang  *)
(* state of NUMATopology holds only NUMA nodes in which its pods fit, the  *)
(* scores stay in range, waste no VRAM and follow the spread policy, and   *)
(* Filter keeps its promise of VRAM, for any pods, servers, labels and any *)
(* interleaving of the workers.                                            *)
(***************************************************************************)
EXTENDS GpuScheduling, SumTheorems

PodRecord == [stage: {"new", "admitting", "pending", "placed"},
              class: GPUClasses \cup {NoClass}, note: Nat,
              read: TierLabels \cup {"error"}, since: BOOLEAN,
              node: Nodes \cup {NoNode}, sure: BOOLEAN]

CycleRecord == [pod: Pods \cup {NoPod}, phase: {"none", "filter", "score"},
                tier: Tiers \cup {"none"}, told: BOOLEAN, todo: SUBSET Nodes,
                passed: SUBSET Nodes, informed: SUBSET Nodes]

GangRecord == [created: BOOLEAN, policy: Spreads, members: [Pods -> Int]]

\* A worker's record has these fields; what the scores are does not matter.
IsWork(w) == w = [step |-> w.step, request |-> w.request, perGPU |-> w.perGPU,
                  bonus |-> w.bonus, score |-> w.score, todo |-> w.todo,
                  best |-> w.best, bestId |-> w.bestId, numa |-> w.numa,
                  still |-> w.still]

Types ==
    /\ label \in NsTiers
    /\ pod \in [Pods -> PodRecord]
    /\ cycle \in CycleRecord
    /\ cycle.phase # "none" => cycle.pod \in Pods /\ pod[cycle.pod].stage = "pending"
    /\ gangState \in [Gangs -> GangRecord]
    /\ DOMAIN work = Nodes /\ \A n \in Nodes : IsWork(work[n])

\* Until the next change of the label: what the webhook reads is the label, the
\* class it adds follows from it, and the cycle has its tier from it.
Told ==
    /\ \A p \in Pods : pod[p].since =>
         /\ pod[p].stage = "admitting" => pod[p].read \in {"error", getNamespaceTier(label)}
         /\ pod[p].stage = "pending" /\ pod[p].class # Ask[p].class =>
              /\ Ask[p].class = NoClass
              /\ pod[p].class = getTierGPUClass(getNamespaceTier(label))
         /\ cycle.phase # "none" /\ cycle.pod = p /\ cycle.told => cycle.tier = NamespaceTier(p)
    /\ cycle.phase = "none" => cycle.pod = NoPod

\* A worker chooses among the NUMA nodes that come into question for its pod.
Chosen(p, n, w) ==
    /\ w.step \in {"lookup", "iterate"} => w.todo # {} /\ w.todo \subseteq Eligible(p, n)
    /\ w.bestId \in Eligible(p, n) \cup {NoNuma}
    /\ w.step = "record" => w.bestId # NoNuma

Choosing ==
    cycle.phase = "score" => \A n \in Nodes : Chosen(cycle.pod, n, work[n])

MembersFit ==
    \A g \in Gangs, p \in Pods :
        gangState[g].members[p] # NoNuma =>
            /\ Ask[p].gang = g /\ gangState[g].created
            /\ \E n \in Nodes : gangState[g].members[p] \in Eligible(p, n)

GInv == Types /\ Told /\ Choosing /\ MembersFit

-----------------------------------------------------------------------------
(* Lemmas on the operators.                                                *)

\* The least NUMA node of a set of eligible ones is one of them.
LEMMA LeastIsMember ==
    ASSUME NEW S, S \subseteq Nat, S # {}
    PROVE  Min(S) \in S /\ \A y \in S : Min(S) <= y
<1>1. PICK R : R = OpToRel(<, Nat)
    BY Zenon
<1>2. IsWellFoundedOn(R, Nat)
    BY <1>1, NatLessThanWellFounded, Zenon
<1>3. PICK x \in S : \A y \in S : <<y, x>> \notin R
    BY <1>2, WFMin, Zenon
<1>4. \A y \in Nat : y < x => <<y, x>> \in R
    BY <1>1, Zenon DEF OpToRel
<1>5. \A y \in S : x <= y
  <2>1. \A y \in S : ~(y < x)
    BY <1>3, <1>4, Zenon
  <2>2. QED
    BY <2>1
<1>6. QED
    BY <1>5, Zenon DEF Min

LEMMA EligibleAreNumbers ==
    ASSUME NEW p, NEW n \in Nodes
    PROVE  Eligible(p, n) \subseteq Nat
  BY GpuClusterAssumption DEF GpuClusterAssumption, Eligible, parseNUMATopology

LEMMA ClassOfTier ==
    ASSUME NEW t
    PROVE  /\ getTierGPUClass(t) \in GPUClasses \cup {NoClass}
           /\ t \notin Tiers => getTierGPUClass(t) = NoClass
<1>1. /\ t = "gold" => getTierGPUClass(t) = "h100"
      /\ t = "silver" => getTierGPUClass(t) = "a100"
      /\ t = "bronze" => getTierGPUClass(t) = "l4"
    BY Zenon DEF getTierGPUClass
<1>2. t \notin Tiers => getTierGPUClass(t) = NoClass
    BY Zenon DEF getTierGPUClass, Tiers
<1>3. QED
    BY <1>1, <1>2 DEF Tiers, GPUClasses

\* What the webhook stores: the user's class, or that of the tier it read.
LEMMA StoredClass ==
    ASSUME NEW p \in Pods, NEW read
    PROVE  /\ Ask[p].class \in GPUClasses \cup {NoClass}
           /\ mutate(p, read) \in GPUClasses \cup {NoClass}
           /\ mutate(p, read) # Ask[p].class =>
                Ask[p].class = NoClass /\ mutate(p, read) = getTierGPUClass(read)
<1>1. Ask[p].class \in GPUClasses \cup {NoClass}
    BY GpuClusterAssumption DEF GpuClusterAssumption, PodWishes
<1>2. QED
    BY <1>1, ClassOfTier DEF mutate, hasGPUClassNodeSelector

\* A tier that ProfileClassifier finds is a tier, and the label if that is one.
LEMMA TierFound ==
    ASSUME NEW p
    PROVE  /\ NamespaceTier(p) \in Tiers \cup {"unknown"}
           /\ label \in Tiers => NamespaceTier(p) = label
           /\ TierOfPodItself(p) \in Tiers
<1> DEFINE ns == [tier |-> label, name |-> NsName]
<1>1. \A t : parseTenantTier(t) \in Tiers \cup {"unknown"} /\ (t \in Tiers => parseTenantTier(t) = t)
    BY DEF parseTenantTier
<1>2. "unknown" \notin Tiers /\ "bronze" \in Tiers
    BY DEF Tiers
<1>3. inferTierFromName(NsName) \in Tiers \cup {"unknown"}
    BY Zenon DEF inferTierFromName, Tiers
<1>4. getTenantFromPriority(p) \in Tiers \cup {"unknown"}
    BY Zenon DEF getTenantFromPriority, Tiers
<1>5. ns.tier = label /\ ns.name = NsName
    OBVIOUS
<1> HIDE DEF ns
<1>6. /\ getTenantFromKueue(ns) \in Tiers \cup {"unknown"}
      /\ label \in Tiers => getTenantFromKueue(ns) = label
    BY <1>1, <1>2, <1>3, <1>5 DEF getTenantFromKueue
<1>7. /\ getTenantFromNamespace(ns) \in Tiers \cup {"unknown"}
      /\ label \in Tiers => getTenantFromNamespace(ns) = label
    BY <1>1, <1>5 DEF getTenantFromNamespace
<1>8. TierOfPodItself(p) \in Tiers
    BY <1>1, <1>2, <1>4 DEF TierOfPodItself, getTenantFromAnnotations
<1>9. QED
    BY <1>6, <1>7, <1>8 DEF NamespaceTier, ns

\* The updates of a worker's record keep its shape and its other fields.
Keeps(v, w, step, todo) ==
    IsWork(w) /\ w.step = step /\ w.todo = todo /\ w.bestId = v.bestId

LEMMA RecordIsWork ==
    ASSUME NEW f1, NEW f2, NEW f3, NEW f4, NEW f5, NEW f6, NEW f7, NEW f8, NEW f9, NEW f10,
           NEW w,
           w = [step |-> f1, request |-> f2, perGPU |-> f3, bonus |-> f4, score |-> f5,
                todo |-> f6, best |-> f7, bestId |-> f8, numa |-> f9, still |-> f10]
    PROVE  IsWork(w) /\ w.step = f1 /\ w.todo = f6 /\ w.bestId = f8
  BY DEF IsWork

LEMMA Updated ==
    ASSUME NEW v, IsWork(v), NEW s, NEW a, NEW b, NEW w
    PROVE  /\ w = [v EXCEPT !.step = s, !.request = a, !.perGPU = b] => Keeps(v, w, s, v.todo)
           /\ w = [v EXCEPT !.step = s, !.bonus = a, !.score = b] => Keeps(v, w, s, v.todo)
           /\ w = [v EXCEPT !.step = s, !.numa = a] => Keeps(v, w, s, v.todo)
           /\ w = [v EXCEPT !.step = s, !.todo = a] => Keeps(v, w, s, a)
           /\ w = [v EXCEPT !.step = s] => Keeps(v, w, s, v.todo)
           /\ w = [v EXCEPT !.still = a] => Keeps(v, w, v.step, v.todo)
<1>1. v = [step |-> v.step, request |-> v.request, perGPU |-> v.perGPU, bonus |-> v.bonus,
           score |-> v.score, todo |-> v.todo, best |-> v.best, bestId |-> v.bestId, numa |-> v.numa, still |-> v.still]
    BY DEF IsWork
<1>2. ASSUME w = [v EXCEPT !.step = s, !.request = a, !.perGPU = b]
      PROVE  Keeps(v, w, s, v.todo)
  <2>1. w = [step |-> s, request |-> a, perGPU |-> b, bonus |-> v.bonus,
             score |-> v.score, todo |-> v.todo, best |-> v.best, bestId |-> v.bestId, numa |-> v.numa, still |-> v.still]
    BY <1>1, <1>2
  <2>2. QED
    BY <2>1, RecordIsWork DEF Keeps
<1>3. ASSUME w = [v EXCEPT !.step = s, !.bonus = a, !.score = b]
      PROVE  Keeps(v, w, s, v.todo)
  <2>1. w = [step |-> s, request |-> v.request, perGPU |-> v.perGPU, bonus |-> a,
             score |-> b, todo |-> v.todo, best |-> v.best, bestId |-> v.bestId, numa |-> v.numa, still |-> v.still]
    BY <1>1, <1>3
  <2>2. QED
    BY <2>1, RecordIsWork DEF Keeps
<1>4. ASSUME w = [v EXCEPT !.step = s, !.numa = a]
      PROVE  Keeps(v, w, s, v.todo)
  <2>1. w = [step |-> s, request |-> v.request, perGPU |-> v.perGPU, bonus |-> v.bonus,
             score |-> v.score, todo |-> v.todo, best |-> v.best, bestId |-> v.bestId, numa |-> a, still |-> v.still]
    BY <1>1, <1>4
  <2>2. QED
    BY <2>1, RecordIsWork DEF Keeps
<1>5. ASSUME w = [v EXCEPT !.step = s, !.todo = a]
      PROVE  Keeps(v, w, s, a)
  <2>1. w = [step |-> s, request |-> v.request, perGPU |-> v.perGPU, bonus |-> v.bonus,
             score |-> v.score, todo |-> a, best |-> v.best, bestId |-> v.bestId, numa |-> v.numa, still |-> v.still]
    BY <1>1, <1>5
  <2>2. QED
    BY <2>1, RecordIsWork DEF Keeps
<1>6. ASSUME w = [v EXCEPT !.step = s]
      PROVE  Keeps(v, w, s, v.todo)
  <2>1. w = [step |-> s, request |-> v.request, perGPU |-> v.perGPU, bonus |-> v.bonus,
             score |-> v.score, todo |-> v.todo, best |-> v.best, bestId |-> v.bestId, numa |-> v.numa, still |-> v.still]
    BY <1>1, <1>6
  <2>2. QED
    BY <2>1, RecordIsWork DEF Keeps
<1>7. ASSUME w = [v EXCEPT !.still = a]
      PROVE  Keeps(v, w, v.step, v.todo)
  <2>1. w = [step |-> v.step, request |-> v.request, perGPU |-> v.perGPU, bonus |-> v.bonus,
             score |-> v.score, todo |-> v.todo, best |-> v.best, bestId |-> v.bestId, numa |-> v.numa, still |-> a]
    BY <1>1, <1>7
  <2>2. QED
    BY <2>1, RecordIsWork DEF Keeps
<1>8. QED
    BY <1>2, <1>3, <1>4, <1>5, <1>6, <1>7

\* What a worker's record is after it has looked at a NUMA node.
LEMMA WeighedFields ==
    ASSUME NEW n, NEW gang, IsWork(work[n])
    PROVE  /\ IsWork(Weighed(n, gang))
           /\ Weighed(n, gang).todo = work[n].todo \ {Current(n)}
           /\ Weighed(n, gang).bestId \in {work[n].bestId, Current(n)}
           /\ Weighed(n, gang).step \in {"lookup", "done", "record"}
           /\ Weighed(n, gang).step = "lookup" => work[n].todo # {Current(n)}
           /\ Weighed(n, gang).step = "record" => Weighed(n, gang).bestId # NoNuma
<1> DEFINE w == work[n]
           i == Current(n)
           total == Capped(Total(cycle.pod, n, i, gang))
           best == Max({w.best, total})
           bestId == IF total > w.best THEN i ELSE w.bestId
           numa == IF w.todo # {i} THEN 0
                   ELSE IF bestId = NoNuma THEN CrossScore ELSE best \div Point
           step == IF w.todo # {i} THEN "lookup"
                   ELSE IF bestId = NoNuma THEN "done" ELSE "record"
<1>1. Weighed(n, gang) = [w EXCEPT !.todo = @ \ {i}, !.best = best, !.bestId = bestId,
                                   !.numa = numa, !.step = step]
    BY Zenon DEF Weighed
<1>2. /\ bestId \in {w.bestId, i} /\ step \in {"lookup", "done", "record"}
      /\ step = "lookup" => w.todo # {i}
      /\ step = "record" => bestId # NoNuma
    BY Zenon
<1> HIDE DEF w, i, total, best, bestId, numa, step
<1>3. w = [step |-> w.step, request |-> w.request, perGPU |-> w.perGPU,
           bonus |-> w.bonus, score |-> w.score, todo |-> w.todo, best |-> w.best,
           bestId |-> w.bestId, numa |-> w.numa, still |-> w.still]
    BY DEF w, IsWork
<1>4. Weighed(n, gang) =
        [step |-> step, request |-> w.request, perGPU |-> w.perGPU,
         bonus |-> w.bonus, score |-> w.score, todo |-> w.todo \ {i}, best |-> best,
         bestId |-> bestId, numa |-> numa, still |-> w.still]
    BY <1>1, <1>3
<1>5. QED
    BY <1>2, <1>4 DEF IsWork, w, i

-----------------------------------------------------------------------------
(* Types.                                                                  *)

LEMMA Initially == ASSUME Init PROVE GInv
<1> USE DEF Init, NewPod, NewGang, NoCycle, Idle, NoNuma
<1>1. Types
  <2>1. NewPod \in PodRecord
    BY DEF PodRecord, TierLabels
  <2>2. NoCycle \in CycleRecord
    BY DEF CycleRecord
  <2>3. NewGang \in GangRecord
    BY DEF GangRecord, Spreads
  <2>4. DOMAIN work = Nodes /\ \A n \in Nodes : IsWork(work[n])
    BY DEF IsWork
  <2>5. QED
    BY <2>1, <2>2, <2>3, <2>4 DEF Types
<1>2. Told /\ Choosing
    BY GpuSchedulingAssumption DEF Told, Choosing, GpuSchedulingAssumption
<1>3. MembersFit
    BY DEF MembersFit
<1>4. QED
    BY <1>1, <1>2, <1>3 DEF GInv

\* Admission and deletion: one pod, which is not in the cycle.
LEMMA PodSteps ==
    ASSUME Types, NEW p \in Pods, AdmitCall(p) \/ AdmitStore(p) \/ Recreate(p)
    PROVE  /\ pod' \in [Pods -> PodRecord]
           /\ UNCHANGED <<label, cycle, work, gangState>>
           /\ pod[p].stage # "pending"
           /\ \A q \in Pods : q # p => pod'[q] = pod[q]
<1> USE DEF Types
<1>1. CASE AdmitCall(p)
  <2>1. PICK note \in Notes[p], read \in TierLabels \cup {"error"} :
          pod' = [pod EXCEPT ![p] = [@ EXCEPT !.stage = "admitting", !.note = note,
                                              !.since = TRUE, !.read = read]]
    <3>1. getNamespaceTier(label) \in TierLabels \cup {"error"}
        BY GpuSchedulingAssumption DEF GpuSchedulingAssumption, getNamespaceTier
    <3>2. QED
        BY <1>1, <3>1 DEF AdmitCall
  <2>2. note \in Nat
    BY GpuSchedulingAssumption DEF GpuSchedulingAssumption
  <2> DEFINE r == [pod[p] EXCEPT !.stage = "admitting", !.note = note,
                                 !.since = TRUE, !.read = read]
  <2>3. pod[p] \in PodRecord
    OBVIOUS
  <2>4. r \in PodRecord
    BY <2>2, <2>3 DEF PodRecord
  <2>5. pod' = [pod EXCEPT ![p] = r]
    BY <2>1
  <2> HIDE DEF r
  <2>6. QED
    BY <1>1, <2>4, <2>5 DEF AdmitCall
<1>2. CASE AdmitStore(p)
  <2> DEFINE c == mutate(p, pod[p].read)
             r == [pod[p] EXCEPT !.stage = "pending", !.class = c]
  <2>1. c \in GPUClasses \cup {NoClass}
    BY StoredClass
  <2>2. pod' = [pod EXCEPT ![p].stage = "pending", ![p].class = c]
    BY <1>2, Zenon DEF AdmitStore
  <2> HIDE DEF c
  <2>3. pod[p] \in PodRecord
    OBVIOUS
  <2>4. r \in PodRecord
    BY <2>1, <2>3 DEF PodRecord
  <2>5. pod' = [pod EXCEPT ![p] = r]
    BY <2>2
  <2> HIDE DEF r
  <2>6. QED
    BY <1>2, <2>4, <2>5 DEF AdmitStore
<1>3. CASE Recreate(p)
  <2>1. NewPod \in PodRecord
    BY DEF NewPod, PodRecord, TierLabels
  <2>2. QED
    BY <1>3, <2>1 DEF Recreate
<1>4. QED
    BY <1>1, <1>2, <1>3

\* The steps of a worker that write nothing but its own record.
WorkerStep(n) == \/ ScoreVRAM(n) \/ ScoreTopology(n) \/ NumaBegin(n)
                 \/ NumaLookup(n) \/ NumaIterate(n)

LEMMA WorkerSteps ==
    ASSUME Types, Choosing, NEW n \in Nodes, WorkerStep(n)
    PROVE  /\ UNCHANGED <<label, pod, cycle, gangState>> /\ cycle.phase = "score"
           /\ \E w : /\ work' = [work EXCEPT ![n] = w]
                    /\ IsWork(w) /\ Chosen(cycle.pod, n, w)
<1>1. /\ cycle.phase = "score" /\ UNCHANGED <<label, pod, cycle, gangState>>
      /\ IsWork(work[n]) /\ Chosen(cycle.pod, n, work[n])
    BY DEF WorkerStep, ScoreVRAM, ScoreTopology, NumaBegin, NumaLookup, NumaIterate,
           At, Types, Choosing
<1> SUFFICES \E w : work' = [work EXCEPT ![n] = w] /\ IsWork(w) /\ Chosen(cycle.pod, n, w)
    BY <1>1
<1>2. CASE ScoreVRAM(n)
  <2> DEFINE request == getVRAMRequest(cycle.pod, pod[cycle.pod].note, known)
             perGPU == getNodeGPUVRAM(n, listed)
             w == [work[n] EXCEPT !.step = "topology", !.request = request, !.perGPU = perGPU]
  <2>1. work' = [work EXCEPT ![n] = w]
    BY <1>2, Zenon DEF ScoreVRAM, Set
  <2> HIDE DEF request, perGPU
  <2>2. Keeps(work[n], w, "topology", work[n].todo)
    BY <1>1, Updated
  <2>3. IsWork(w) /\ Chosen(cycle.pod, n, w)
    BY <1>1, <2>2 DEF Keeps, Chosen
  <2>4. QED
    BY <2>1, <2>3
<1>3. CASE ScoreTopology(n)
  <2>1. PICK bonus, score :
          work' = [work EXCEPT ![n] = [work[n] EXCEPT !.step = "numa", !.bonus = bonus,
                                                      !.score = score]]
    BY <1>3, Zenon DEF ScoreTopology, Set
  <2> DEFINE w == [work[n] EXCEPT !.step = "numa", !.bonus = bonus, !.score = score]
  <2>2. Keeps(work[n], w, "numa", work[n].todo)
    BY <1>1, Updated
  <2>3. IsWork(w) /\ Chosen(cycle.pod, n, w)
    BY <1>1, <2>2 DEF Keeps, Chosen
  <2>4. QED
    BY <2>1, <2>3
<1>4. CASE NumaBegin(n)
  <2> DEFINE v(s) == [work[n] EXCEPT !.step = "done", !.numa = s]
             w == [work[n] EXCEPT !.step = "lookup", !.todo = Eligible(cycle.pod, n)]
  <2>1. \/ \E s : work' = [work EXCEPT ![n] = v(s)]
        \/ /\ Eligible(cycle.pod, n) # {}
           /\ work' = [work EXCEPT ![n] = w]
    BY <1>1, <1>4 DEF NumaBegin, Set, IsWork
  <2>2. \A s : IsWork(v(s)) /\ Chosen(cycle.pod, n, v(s))
    <3>1. \A s : Keeps(work[n], v(s), "done", work[n].todo)
        BY <1>1, Updated
    <3>2. QED
        BY <1>1, <3>1 DEF Keeps, Chosen
  <2>3. Eligible(cycle.pod, n) # {} => IsWork(w) /\ Chosen(cycle.pod, n, w)
    <3>1. Keeps(work[n], w, "lookup", Eligible(cycle.pod, n))
        BY <1>1, Updated
    <3>2. QED
        BY <1>1, <3>1 DEF Keeps, Chosen
  <2> HIDE DEF v, w
  <2>4. QED
    BY <2>1, <2>2, <2>3
<1>5. ASSUME work[n].step \in {"lookup", "iterate"},
             NEW gang, work' = [work EXCEPT ![n] = Weighed(n, gang)]
      PROVE  \E w : work' = [work EXCEPT ![n] = w] /\ IsWork(w) /\ Chosen(cycle.pod, n, w)
  <2> DEFINE w == Weighed(n, gang)
  <2>1. work[n].todo # {} /\ work[n].todo \subseteq Eligible(cycle.pod, n)
    BY <1>1, <1>5 DEF Chosen
  <2>2. Current(n) \in work[n].todo
    BY <2>1, EligibleAreNumbers, LeastIsMember DEF Current
  <2>3. IsWork(w) /\ Chosen(cycle.pod, n, w)
    BY <1>1, <2>1, <2>2, WeighedFields DEF Chosen
  <2> HIDE DEF w
  <2>4. work' = [work EXCEPT ![n] = w]
    BY <1>5 DEF w
  <2>5. QED
    BY <2>3, <2>4
<1>6. CASE NumaLookup(n)
  <2> DEFINE w == [work[n] EXCEPT !.step = "iterate"]
  <2>1. work[n].step = "lookup"
    BY <1>6 DEF NumaLookup, At
  <2>2. Set(n, w) \/ Set(n, Weighed(n, NoGangScore))
    BY <1>6, Zenon DEF NumaLookup
  <2>3. Keeps(work[n], w, "iterate", work[n].todo)
    BY <1>1, Updated
  <2>4. IsWork(w) /\ Chosen(cycle.pod, n, w)
    BY <1>1, <2>1, <2>3 DEF Keeps, Chosen
  <2> HIDE DEF w
  <2>5. QED
    BY <1>5, <2>1, <2>2, <2>4 DEF Set
<1>7. CASE NumaIterate(n)
  <2>1. PICK gang : work' = [work EXCEPT ![n] = Weighed(n, gang)]
    BY <1>7, Zenon DEF NumaIterate, Set
  <2>2. QED
    BY <1>5, <1>7, <2>1 DEF NumaIterate, At
<1>8. QED
    BY <1>2, <1>3, <1>4, <1>6, <1>7 DEF WorkerStep

\* recordGangPlacement writes one member's NUMA node, one that it fits in.
LEMMA RecordStep ==
    ASSUME Types, Choosing, NEW n \in Nodes, NumaRecord(n)
    PROVE  /\ UNCHANGED <<label, pod, cycle>> /\ cycle.phase = "score"
           /\ gangState' \in [Gangs -> GangRecord]
           /\ work[n].bestId \in Eligible(cycle.pod, n)
           /\ \A g \in Gangs :
                \/ gangState'[g] = gangState[g]
                \/ /\ g = Ask[cycle.pod].gang /\ gangState'[g].created
                   /\ gangState'[g].members =
                        [gangState[g].members EXCEPT ![cycle.pod] = work[n].bestId]
           /\ DOMAIN work' = Nodes
           /\ \A m \in Nodes : IsWork(work'[m]) /\ Chosen(cycle.pod, m, work'[m])
<1> DEFINE p == cycle.pod
           g == Ask[p].gang
           i == work[n].bestId
<1>1. /\ UNCHANGED <<label, pod, cycle>> /\ cycle.phase = "score" /\ work[n].step = "record"
      /\ p \in Pods
    BY DEF NumaRecord, At, Types
<1>2. i \in Eligible(p, n) /\ i \in Int
  <2>1. i \in Eligible(p, n)
    BY <1>1 DEF Choosing, Chosen
  <2>2. QED
    BY <2>1, EligibleAreNumbers
<1>3. ASSUME NEW m \in Nodes
      PROVE  IsWork(work'[m]) /\ Chosen(p, m, work'[m])
  <2> DEFINE v == [work[m] EXCEPT !.step = "done"]
             still(b) == [work[m] EXCEPT !.still = b]
  <2>1. IsWork(work[m]) /\ Chosen(p, m, work[m])
    BY <1>1 DEF Types, Choosing
  <2>2. work'[m] = v \/ \E b : work'[m] = still(b)
    BY DEF NumaRecord
  <2>3. Keeps(work[m], v, "done", work[m].todo)
    BY <2>1, Updated
  <2>4. \A b : Keeps(work[m], still(b), work[m].step, work[m].todo)
    BY <2>1, Updated
  <2> HIDE DEF v, still
  <2>5. QED
    BY <2>1, <2>2, <2>3, <2>4 DEF Keeps, Chosen
<1>4. DOMAIN work' = Nodes
    BY DEF NumaRecord
<1>5. CASE g = ""
    BY <1>1, <1>2, <1>3, <1>4, <1>5 DEF NumaRecord, Types
<1>6. CASE g # ""
  <2>1. g \in Gangs /\ gangState[g] \in GangRecord
    BY <1>1, <1>6 DEF Gangs, Types
  <2>2. Ask[p].spread \in Spreads
    BY <1>1, GpuClusterAssumption DEF GpuClusterAssumption, PodWishes
  <2>3. PICK policy \in Spreads :
          gangState' = [gangState EXCEPT ![g].created = TRUE, ![g].policy = policy,
                                         ![g].members[p] = i]
    <3> DEFINE x == IF gangState[g].created THEN gangState[g].policy
                    ELSE IF Ask[p].spread = "none" THEN "packed" ELSE Ask[p].spread
    <3>1. x \in Spreads
        BY <2>1, <2>2 DEF GangRecord, Spreads
    <3>2. gangState' = [gangState EXCEPT ![g].created = TRUE, ![g].policy = x,
                                         ![g].members[p] = i]
        BY <1>6, Zenon DEF NumaRecord
    <3> HIDE DEF x
    <3>3. QED
        BY <3>1, <3>2
  <2> DEFINE r == [gangState[g] EXCEPT !.created = TRUE, !.policy = policy,
                                       !.members[p] = i]
  <2>4. r \in GangRecord /\ r.created /\ r.members = [gangState[g].members EXCEPT ![p] = i]
    BY <1>1, <1>2, <2>1, <2>3 DEF GangRecord
  <2>5. gangState' = [gangState EXCEPT ![g] = r]
    BY <2>1, <2>3 DEF Types
  <2> HIDE DEF r
  <2>6. gangState' \in [Gangs -> GangRecord] /\ gangState'[g] = r
    BY <2>1, <2>4, <2>5 DEF Types
  <2>7. \A h \in Gangs : h # g => gangState'[h] = gangState[h]
    BY <2>5 DEF Types
  <2>8. QED
    BY <1>1, <1>2, <1>3, <1>4, <2>4, <2>6, <2>7
<1>7. QED
    BY <1>5, <1>6

\* The steps of the cycle itself, with one pod from its begin to its end.
LEMMA CycleSteps ==
    ASSUME Types, Next,
           \/ (\E p \in Pods : BeginCycle(p)) \/ (\E n \in Nodes : Filter(n))
           \/ BeginScore \/ Unschedulable \/ Crash
    PROVE  /\ UNCHANGED <<label, pod>> /\ cycle' \in CycleRecord
           /\ cycle'.phase # "none" =>
                cycle'.pod \in Pods /\ pod[cycle'.pod].stage = "pending"
           /\ DOMAIN work' = Nodes /\ \A n \in Nodes : IsWork(work'[n])
           /\ gangState' \in [Gangs -> GangRecord]
           /\ cycle'.phase = "score" =>
                \A n \in Nodes : work'[n].bestId = NoNuma /\ work'[n].step \in {"idle", "vram"}
           /\ cycle'.phase = "none" => cycle'.pod = NoPod
<1> DEFINE Goal ==
           /\ UNCHANGED <<label, pod>> /\ cycle' \in CycleRecord
           /\ cycle'.phase # "none" =>
                cycle'.pod \in Pods /\ pod[cycle'.pod].stage = "pending"
           /\ DOMAIN work' = Nodes /\ \A n \in Nodes : IsWork(work'[n])
           /\ gangState' \in [Gangs -> GangRecord]
           /\ cycle'.phase = "score" =>
                \A n \in Nodes : work'[n].bestId = NoNuma /\ work'[n].step \in {"idle", "vram"}
           /\ cycle'.phase = "none" => cycle'.pod = NoPod
<1>1. NoCycle \in CycleRecord /\ NoCycle.phase = "none" /\ NoCycle.pod = NoPod
    BY DEF NoCycle, CycleRecord
<1>2. /\ IsWork(Idle) /\ Idle.bestId = NoNuma /\ Idle.step = "idle"
      /\ Keeps(Idle, [Idle EXCEPT !.step = "vram"], "vram", Idle.todo)
  <2>1. IsWork(Idle) /\ Idle.bestId = NoNuma /\ Idle.step = "idle"
    BY DEF Idle, IsWork
  <2>2. QED
    BY <2>1, Updated
<1>3. ASSUME NEW p \in Pods, BeginCycle(p)
      PROVE  Goal
  <2>1. PICK tier \in Tiers \cup {"none"}, told \in BOOLEAN :
          cycle' = [NoCycle EXCEPT !.pod = p, !.phase = "filter", !.todo = Nodes,
                                   !.told = told, !.tier = tier]
    <3>1. PICK told \in BOOLEAN :
            /\ told => NamespaceTier(p) # "unknown"
            /\ cycle' = [NoCycle EXCEPT
                  !.pod = p, !.phase = "filter", !.todo = Nodes, !.told = told,
                  !.tier = IF told THEN NamespaceTier(p)
                           ELSE IF Profiled THEN TierOfPodItself(p) ELSE "bronze"]
        BY <1>3, Zenon DEF BeginCycle
    <3> DEFINE tier == IF told THEN NamespaceTier(p)
                       ELSE IF Profiled THEN TierOfPodItself(p) ELSE "bronze"
    <3>2. tier \in Tiers \cup {"none"}
        BY <3>1, TierFound DEF Tiers
    <3>3. cycle' = [NoCycle EXCEPT !.pod = p, !.phase = "filter", !.todo = Nodes,
                                   !.told = told, !.tier = tier]
        BY <3>1, Zenon
    <3> HIDE DEF tier
    <3>4. QED
        BY <3>2, <3>3
  <2>2. cycle' \in CycleRecord /\ cycle'.phase = "filter" /\ cycle'.pod = p
    BY <2>1 DEF NoCycle, CycleRecord
  <2>3. UNCHANGED <<label, pod, work, gangState>> /\ pod[p].stage = "pending"
    BY <1>3 DEF BeginCycle
  <2>4. QED
    BY <2>2, <2>3 DEF Types
<1>4. ASSUME NEW n \in Nodes, Filter(n)
      PROVE  Goal
  <2>1. UNCHANGED <<label, pod, work, gangState>> /\ cycle.phase = "filter"
    BY <1>4 DEF Filter
  <2>2. PICK passed \in SUBSET Nodes, informed \in SUBSET Nodes :
          cycle' = [cycle EXCEPT !.todo = @ \ {n}, !.passed = passed, !.informed = informed]
    BY <1>4 DEF Filter, Types, CycleRecord
  <2>3. cycle' \in CycleRecord /\ cycle'.phase = cycle.phase /\ cycle'.pod = cycle.pod
    BY <2>2 DEF Types, CycleRecord
  <2>4. QED
    BY <2>1, <2>3 DEF Types
<1>5. CASE BeginScore
  <2>1. UNCHANGED <<label, pod, gangState>> /\ cycle.phase = "filter"
    BY <1>5 DEF BeginScore
  <2>2. cycle' = [cycle EXCEPT !.phase = "score"]
    BY <1>5 DEF BeginScore
  <2>3. cycle' \in CycleRecord /\ cycle'.phase = "score" /\ cycle'.pod = cycle.pod
    BY <2>2 DEF Types, CycleRecord
  <2> DEFINE v == [Idle EXCEPT !.step = "vram"]
  <2>4. DOMAIN work' = Nodes /\ \A n \in Nodes : work'[n] = v \/ work'[n] = Idle
    BY <1>5 DEF BeginScore
  <2>5. IsWork(v) /\ v.step = "vram" /\ v.bestId = NoNuma
    BY <1>2 DEF Keeps
  <2> HIDE DEF v
  <2>6. QED
    BY <1>2, <2>1, <2>3, <2>4, <2>5 DEF Types
<1>6. CASE Unschedulable
  <2>1. UNCHANGED <<label, pod, work, gangState>> /\ cycle' = NoCycle
    BY <1>6 DEF Unschedulable
  <2>2. QED
    BY <1>1, <2>1 DEF Types
<1>7. CASE Crash
  <2>1. /\ UNCHANGED <<label, pod>> /\ cycle' = NoCycle
        /\ work' = [n \in Nodes |-> Idle] /\ gangState' = [g \in Gangs |-> NewGang]
    BY <1>7 DEF Crash
  <2>2. NewGang \in GangRecord
    BY DEF NewGang, GangRecord, NoNuma, Spreads
  <2>3. QED
    BY <1>1, <1>2, <2>1, <2>2 DEF Types
<1>8. QED
    BY <1>3, <1>4, <1>5, <1>6, <1>7

\* The end of the cycle stores the node in the pod.
LEMMA SelectStep ==
    ASSUME Types, NEW n \in Nodes, Select(n)
    PROVE  /\ UNCHANGED <<label, gangState>> /\ cycle' = NoCycle
           /\ pod' \in [Pods -> PodRecord] /\ cycle.pod \in Pods
           /\ pod'[cycle.pod].stage = "placed"
           /\ \A q \in Pods : q # cycle.pod => pod'[q] = pod[q]
           /\ work' = [m \in Nodes |-> Idle]
<1> DEFINE p == cycle.pod
           sure == n \in cycle.informed
           r == [pod[p] EXCEPT !.stage = "placed", !.node = n, !.sure = sure]
<1>1. p \in Pods /\ pod[p] \in PodRecord
    BY DEF Select, Types
<1>2. /\ UNCHANGED <<label, gangState>> /\ cycle' = NoCycle
      /\ work' = [m \in Nodes |-> Idle]
    BY DEF Select
<1>3. pod' = [pod EXCEPT ![p].stage = "placed", ![p].node = n, ![p].sure = sure]
    BY Zenon DEF Select
<1>4. sure \in BOOLEAN
    OBVIOUS
<1> HIDE DEF sure
<1>5. r \in PodRecord /\ r.stage = "placed"
    BY <1>1, <1>4 DEF PodRecord
<1>6. pod' = [pod EXCEPT ![p] = r]
    BY <1>3
<1> HIDE DEF r
<1>7. QED
    BY <1>1, <1>2, <1>5, <1>6 DEF Types

\* The steps that leave the cycle, its workers and the pods as they are.
InformerStep == \/ \E t \in Templates : TemplateSeen(t)
                \/ \E s \in Slices : SliceAdded(s) \/ SliceRemoved(s)

LEMMA InformerSteps ==
    ASSUME InformerStep \/ UNCHANGED vars
    PROVE  UNCHANGED <<label, pod, cycle, work, gangState>>
  BY DEF InformerStep, TemplateSeen, SliceAdded, SliceRemoved, vars

LEMMA RelabelStep ==
    ASSUME Types, Relabel
    PROVE  /\ UNCHANGED <<cycle, work, gangState>> /\ label' \in NsTiers
           /\ pod' \in [Pods -> PodRecord]
           /\ \A p \in Pods : /\ pod'[p].stage = pod[p].stage
                              /\ pod[p].stage # "new" => ~pod'[p].since
<1>1. UNCHANGED <<cycle, work, gangState>> /\ label' \in NsTiers
    BY DEF Relabel
<1>2. pod' = [p \in Pods |-> IF pod[p].stage = "new" THEN pod[p]
                            ELSE [pod[p] EXCEPT !.since = FALSE]]
    BY DEF Relabel
<1>3. ASSUME NEW p \in Pods
      PROVE  /\ pod'[p] \in PodRecord /\ pod'[p].stage = pod[p].stage
             /\ pod[p].stage # "new" => ~pod'[p].since
  <2>1. pod[p] \in PodRecord
    BY DEF Types
  <2>2. CASE pod[p].stage = "new"
    BY <1>2, <2>1, <2>2
  <2>3. CASE pod[p].stage # "new"
    <3>1. pod'[p] = [pod[p] EXCEPT !.since = FALSE]
        BY <1>2, <2>3
    <3>2. QED
        BY <2>1, <3>1 DEF PodRecord
  <2>4. QED
    BY <2>2, <2>3
<1>4. QED
    BY <1>1, <1>2, <1>3

LEMMA TypesKept == ASSUME Types, Choosing, [Next]_vars PROVE Types'
<1>1. ASSUME NEW p \in Pods, AdmitCall(p) \/ AdmitStore(p) \/ Recreate(p)
      PROVE  Types'
    BY <1>1, PodSteps DEF Types
<1>2. CASE InformerStep \/ UNCHANGED vars
    BY <1>2, InformerSteps DEF Types
<1>3. CASE Relabel
    BY <1>3, RelabelStep DEF Types
<1>4. CASE /\ Next
           /\ \/ (\E p \in Pods : BeginCycle(p)) \/ (\E n \in Nodes : Filter(n))
              \/ BeginScore \/ Unschedulable \/ Crash
    BY <1>4, CycleSteps DEF Types
<1>5. ASSUME NEW n \in Nodes, WorkerStep(n)
      PROVE  Types'
  <2>1. PICK w : work' = [work EXCEPT ![n] = w] /\ IsWork(w)
    BY <1>5, WorkerSteps
  <2>2. DOMAIN work' = Nodes /\ \A m \in Nodes : IsWork(work'[m])
    BY <2>1 DEF Types
  <2>3. UNCHANGED <<label, pod, cycle, gangState>>
    BY <1>5, WorkerSteps
  <2>4. QED
    BY <2>2, <2>3 DEF Types
<1>6. ASSUME NEW n \in Nodes, NumaRecord(n)
      PROVE  Types'
    BY <1>6, RecordStep DEF Types
<1>7. ASSUME NEW n \in Nodes, Select(n)
      PROVE  Types'
  <2>1. NoCycle \in CycleRecord /\ NoCycle.phase = "none" /\ IsWork(Idle)
    BY DEF NoCycle, CycleRecord, Idle, IsWork
  <2>2. QED
    BY <1>7, <2>1, SelectStep DEF Types
<1>8. QED
    BY <1>1, <1>2, <1>3, <1>4, <1>5, <1>6, <1>7 DEF Next, WorkerStep, InformerStep

\* Workers choose for the pod of the cycle, which does not change meanwhile.
LEMMA ChoosingKept == ASSUME Types, Choosing, [Next]_vars PROVE Choosing'
<1>1. ASSUME UNCHANGED <<cycle, work>>
      PROVE  Choosing'
    BY <1>1 DEF Choosing, Chosen
<1>2. ASSUME NEW p \in Pods, AdmitCall(p) \/ AdmitStore(p) \/ Recreate(p)
      PROVE  Choosing'
    BY <1>1, <1>2, PodSteps
<1>3. CASE InformerStep \/ Relabel \/ UNCHANGED vars
    BY <1>1, <1>3, InformerSteps, RelabelStep
<1>4. CASE /\ Next
           /\ \/ (\E p \in Pods : BeginCycle(p)) \/ (\E n \in Nodes : Filter(n))
              \/ BeginScore \/ Unschedulable \/ Crash
  <2>1. cycle'.phase = "score" =>
          \A n \in Nodes : work'[n].bestId = NoNuma /\ work'[n].step \in {"idle", "vram"}
    BY <1>4, CycleSteps
  <2>2. QED
    BY <2>1 DEF Choosing, Chosen
<1>5. ASSUME NEW n \in Nodes, WorkerStep(n)
      PROVE  Choosing'
  <2>1. PICK w : work' = [work EXCEPT ![n] = w] /\ Chosen(cycle.pod, n, w)
    BY <1>5, WorkerSteps
  <2>2. UNCHANGED cycle /\ cycle.phase = "score"
    BY <1>5, WorkerSteps
  <2>3. \A m \in Nodes : Chosen(cycle.pod, m, work'[m])
    BY <2>1, <2>2 DEF Choosing, Types
  <2>4. QED
    BY <2>2, <2>3 DEF Choosing, Chosen
<1>6. ASSUME NEW n \in Nodes, NumaRecord(n)
      PROVE  Choosing'
  <2>1. UNCHANGED cycle /\ \A m \in Nodes : Chosen(cycle.pod, m, work'[m])
    BY <1>6, RecordStep
  <2>2. QED
    BY <2>1 DEF Choosing, Chosen
<1>7. ASSUME NEW n \in Nodes, Select(n)
      PROVE  Choosing'
  <2>1. cycle'.phase = "none"
    BY <1>7, SelectStep DEF NoCycle
  <2>2. QED
    BY <2>1 DEF Choosing
<1>8. QED
    BY <1>2, <1>3, <1>4, <1>5, <1>6, <1>7 DEF Next, WorkerStep, InformerStep

\* A member is recorded where the worker of its cycle has chosen.
LEMMA MembersKept ==
    ASSUME Types, Choosing, MembersFit, [Next]_vars
    PROVE  MembersFit'
<1>1. ASSUME UNCHANGED gangState
      PROVE  MembersFit'
    BY <1>1 DEF MembersFit
<1>2. ASSUME NEW p \in Pods, \/ AdmitCall(p) \/ AdmitStore(p) \/ Recreate(p)
                              \/ BeginCycle(p)
      PROVE  MembersFit'
    BY <1>1, <1>2, PodSteps DEF BeginCycle, Types
<1>3. CASE InformerStep \/ Relabel \/ UNCHANGED vars
    BY <1>1, <1>3, InformerSteps, RelabelStep
<1>4. CASE BeginScore \/ Unschedulable \/ \E n \in Nodes : Filter(n) \/ Select(n)
    BY <1>1, <1>4 DEF BeginScore, Unschedulable, Filter, Select
<1>5. CASE Crash
  <2>1. gangState' = [g \in Gangs |-> NewGang]
    BY <1>5 DEF Crash
  <2>2. QED
    BY <2>1 DEF MembersFit, NewGang
<1>6. ASSUME NEW n \in Nodes, WorkerStep(n)
      PROVE  MembersFit'
    BY <1>1, <1>6, WorkerSteps
<1>7. ASSUME NEW n \in Nodes, NumaRecord(n)
      PROVE  MembersFit'
  <2> SUFFICES ASSUME NEW g \in Gangs, NEW p \in Pods,
                      gangState'[g].members[p] # NoNuma
               PROVE  /\ Ask[p].gang = g /\ gangState'[g].created
                      /\ \E m \in Nodes : gangState'[g].members[p] \in Eligible(p, m)
    BY DEF MembersFit
  <2>1. CASE gangState'[g] = gangState[g]
    BY <2>1 DEF MembersFit
  <2>2. CASE gangState'[g] # gangState[g]
    <3>1. /\ g = Ask[cycle.pod].gang /\ gangState'[g].created
          /\ gangState'[g].members =
                [gangState[g].members EXCEPT ![cycle.pod] = work[n].bestId]
          /\ work[n].bestId \in Eligible(cycle.pod, n)
        BY <1>7, <2>2, RecordStep
    <3>2. gangState[g].members \in [Pods -> Int]
        BY DEF Types, GangRecord
    <3>3. CASE p = cycle.pod
        BY <3>1, <3>2, <3>3
    <3>4. CASE p # cycle.pod
      <4>1. gangState'[g].members[p] = gangState[g].members[p]
          BY <3>1, <3>2, <3>4
      <4>2. QED
          BY <3>1, <4>1 DEF MembersFit
    <3>5. QED
        BY <3>3, <3>4
  <2>3. QED
    BY <2>1, <2>2
<1>8. QED
    BY <1>2, <1>3, <1>4, <1>5, <1>6, <1>7 DEF Next, WorkerStep, InformerStep

\* The webhook's handler has read the label or has failed.
LEMMA CallStep ==
    ASSUME Types, NEW p \in Pods, AdmitCall(p)
    PROVE  /\ pod'[p].stage = "admitting"
           /\ pod'[p].read \in {"error", getNamespaceTier(label)}
<1>1. PICK note \in Notes[p], read \in {"error", getNamespaceTier(label)} :
        pod' = [pod EXCEPT ![p] = [@ EXCEPT !.stage = "admitting", !.note = note,
                                            !.since = TRUE, !.read = read]]
    BY DEF AdmitCall
<1>2. pod'[p] = [pod[p] EXCEPT !.stage = "admitting", !.note = note,
                               !.since = TRUE, !.read = read]
    BY <1>1 DEF Types
<1>3. pod[p] \in PodRecord
    BY DEF Types
<1>4. pod'[p].stage = "admitting"
    BY <1>2, <1>3 DEF PodRecord
<1>5. pod'[p].read = read
    BY <1>2, <1>3 DEF PodRecord
<1>6. QED
    BY <1>1, <1>4, <1>5

\* The webhook and PreFilter read one label unless it is changed in between,
\* and then the pods that were admitted before are marked.
LEMMA ToldKept == ASSUME Types, Told, [Next]_vars PROVE Told'
<1>1. ASSUME UNCHANGED <<label, pod, cycle>>
      PROVE  Told'
    BY <1>1 DEF Told, NamespaceTier
<1>2. ASSUME NEW p \in Pods, AdmitCall(p) \/ AdmitStore(p) \/ Recreate(p)
      PROVE  Told'
  <2>1. /\ UNCHANGED <<label, cycle>> /\ pod[p].stage # "pending"
        /\ \A q \in Pods : q # p => pod'[q] = pod[q]
        /\ pod' \in [Pods -> PodRecord]
    BY <1>2, PodSteps
  <2>2. cycle.phase # "none" => cycle.pod # p
    BY <2>1 DEF Types
  <2>3. pod'[p].stage = "admitting" => pod'[p].read \in {"error", getNamespaceTier(label)}
    <3>1. CASE AdmitCall(p)
        BY <3>1, CallStep
    <3>2. CASE AdmitStore(p)
        BY <3>2 DEF AdmitStore, Types, PodRecord
    <3>3. CASE Recreate(p)
        BY <3>3 DEF Recreate, Types, NewPod
    <3>4. QED
        BY <1>2, <3>1, <3>2, <3>3
  <2>4. ASSUME pod'[p].since, pod'[p].stage = "pending", pod'[p].class # Ask[p].class
        PROVE  /\ Ask[p].class = NoClass
               /\ pod'[p].class = getTierGPUClass(getNamespaceTier(label))
    <3>1. pod[p].stage = "admitting" /\ pod'[p].since = pod[p].since
          /\ pod'[p].class = mutate(p, pod[p].read)
      <4>1. ~AdmitCall(p) /\ ~Recreate(p)
          BY <2>4, CallStep DEF Recreate, Types, NewPod
      <4>2. AdmitStore(p) /\ pod[p] \in PodRecord
          BY <1>2, <4>1 DEF Types
      <4> DEFINE c == mutate(p, pod[p].read)
      <4>3. pod[p].stage = "admitting" /\
            pod' = [pod EXCEPT ![p].stage = "pending", ![p].class = c]
          BY <4>2, Zenon DEF AdmitStore
      <4> HIDE DEF c
      <4>4. pod'[p] = [pod[p] EXCEPT !.stage = "pending", !.class = c]
          BY <4>3 DEF Types
      <4>5. pod'[p].since = pod[p].since /\ pod'[p].class = c
          BY <4>2, <4>4 DEF PodRecord
      <4>6. QED
          BY <4>3, <4>5 DEF c
    <3>2. pod[p].read \in {"error", getNamespaceTier(label)}
        BY <2>4, <3>1 DEF Told
    <3>3. Ask[p].class = NoClass /\ pod'[p].class = getTierGPUClass(pod[p].read)
        BY <2>4, <3>1, StoredClass
    <3>4. getTierGPUClass("error") = NoClass
        BY ClassOfTier DEF Tiers
    <3>5. QED
        BY <2>4, <3>2, <3>3, <3>4
  <2>5. QED
    BY <2>1, <2>2, <2>3, <2>4 DEF Told, NamespaceTier
<1>3. CASE Relabel
  <2>1. /\ UNCHANGED cycle
        /\ \A p \in Pods : /\ pod'[p].stage = pod[p].stage
                           /\ pod[p].stage # "new" => ~pod'[p].since
    BY <1>3, RelabelStep
  <2>2. \A p \in Pods : cycle.phase # "none" /\ cycle.pod = p => ~pod'[p].since
    BY <2>1 DEF Types
  <2>3. QED
    BY <2>1, <2>2 DEF Told
<1>4. ASSUME NEW p \in Pods, BeginCycle(p)
      PROVE  Told'
  <2>1. PICK told, tier :
          /\ told => tier = NamespaceTier(p)
          /\ cycle' = [NoCycle EXCEPT !.pod = p, !.phase = "filter", !.todo = Nodes,
                                      !.told = told, !.tier = tier]
    BY <1>4, Zenon DEF BeginCycle
  <2>2. /\ cycle'.phase = "filter" /\ cycle'.pod = p
        /\ cycle'.told = told /\ cycle'.tier = tier
    BY <2>1 DEF NoCycle
  <2>3. UNCHANGED <<label, pod>>
    BY <1>4 DEF BeginCycle
  <2>4. QED
    BY <2>1, <2>2, <2>3 DEF Told, NamespaceTier
<1>5. ASSUME UNCHANGED <<label, pod>>, cycle' = NoCycle
      PROVE  Told'
    BY <1>5 DEF Told, NoCycle
<1>6. ASSUME UNCHANGED <<label, pod>>, cycle'.pod = cycle.pod, cycle'.told = cycle.told,
             cycle'.tier = cycle.tier, cycle.phase # "none", cycle'.phase # "none"
      PROVE  Told'
    BY <1>6 DEF Told, NamespaceTier
<1>7. ASSUME NEW n \in Nodes, Filter(n)
      PROVE  Told'
  <2>1. UNCHANGED <<label, pod>> /\ cycle.phase = "filter"
    BY <1>7 DEF Filter
  <2>2. PICK passed, informed :
          cycle' = [cycle EXCEPT !.todo = @ \ {n}, !.passed = passed, !.informed = informed]
    BY <1>7 DEF Filter
  <2>3. /\ cycle'.phase = cycle.phase /\ cycle'.pod = cycle.pod
        /\ cycle'.told = cycle.told /\ cycle'.tier = cycle.tier
    BY <2>2 DEF Types, CycleRecord
  <2>4. QED
    BY <1>6, <2>1, <2>3
<1>8. CASE BeginScore
  <2>1. UNCHANGED <<label, pod>> /\ cycle.phase = "filter"
        /\ cycle' = [cycle EXCEPT !.phase = "score"]
    BY <1>8 DEF BeginScore
  <2>2. /\ cycle'.phase = "score" /\ cycle'.pod = cycle.pod
        /\ cycle'.told = cycle.told /\ cycle'.tier = cycle.tier
    BY <2>1 DEF Types, CycleRecord
  <2>3. QED
    BY <1>6, <2>1, <2>2
<1>9. CASE Unschedulable \/ Crash
    BY <1>5, <1>9 DEF Unschedulable, Crash
<1>10. ASSUME NEW n \in Nodes, Select(n)
       PROVE  Told'
  <2>1. /\ UNCHANGED label /\ cycle' = NoCycle /\ cycle.pod \in Pods
        /\ pod'[cycle.pod].stage = "placed"
        /\ \A q \in Pods : q # cycle.pod => pod'[q] = pod[q]
    BY <1>10, SelectStep
  <2>2. QED
    BY <2>1 DEF Told, NoCycle
<1>11. ASSUME NEW n \in Nodes, WorkerStep(n) \/ NumaRecord(n)
       PROVE  Told'
  <2>1. UNCHANGED <<label, pod, cycle>>
    BY <1>11 DEF WorkerStep, ScoreVRAM, ScoreTopology, NumaBegin, NumaLookup, NumaIterate,
                 NumaRecord
  <2>2. QED
    BY <1>1, <2>1
<1>12. CASE InformerStep \/ UNCHANGED vars
    BY <1>1, <1>12, InformerSteps
<1>13. QED
    BY <1>2, <1>3, <1>4, <1>7, <1>8, <1>9, <1>10, <1>11, <1>12 DEF Next, WorkerStep, InformerStep

-----------------------------------------------------------------------------
LEMMA GInvHolds == Spec => []GInv
<1>1. Init => GInv
    BY Initially
<1>2. GInv /\ [Next]_vars => GInv'
    BY TypesKept, ToldKept, ChoosingKept, MembersKept DEF GInv
<1>3. QED
    BY <1>1, <1>2, PTL DEF Spec

\* Whatever reads fail and whenever pods are admitted, made anew or scheduled,
\* the class the webhook adds is the class of the tier the scheduler finds,
\* unless an administrator changed the label in between.
THEOREM TiersAgree == Spec => []AdmissionAgrees
<1>1. GInv => AdmissionAgrees
  <2> SUFFICES ASSUME GInv, NEW p \in Pods, cycle.pod = p, cycle.told, pod[p].since,
                      pod[p].class # Ask[p].class
               PROVE  pod[p].class = getTierGPUClass(cycle.tier)
      BY DEF AdmissionAgrees
  <2>1. cycle.phase # "none"
    BY GpuSchedulingAssumption DEF GInv, Told, GpuSchedulingAssumption
  <2>2. pod[p].stage = "pending" /\ cycle.tier = NamespaceTier(p)
    BY <2>1 DEF GInv, Types, Told
  <2>3. /\ Ask[p].class = NoClass
        /\ pod[p].class = getTierGPUClass(getNamespaceTier(label))
    BY <2>2 DEF GInv, Told
  <2>4. label \in Tiers
    <3>1. getNamespaceTier(label) \in Tiers
        BY <2>3, ClassOfTier
    <3>2. QED
        BY <3>1 DEF getNamespaceTier, Tiers
  <2>5. getNamespaceTier(label) = label /\ NamespaceTier(p) = label
    BY <2>4, TierFound DEF getNamespaceTier, Tiers
  <2>6. QED
    BY <2>2, <2>3, <2>5
<1>2. QED
    BY <1>1, GInvHolds, PTL

\* The gang state of NUMATopology never holds a NUMA node in which the member
\* does not fit or which it has ruled out, however the workers overtake each
\* other and whatever a crash or a pod made anew leaves behind.
THEOREM RecordsFit == Spec => []RecordedFits
<1>1. GInv => RecordedFits
  <2> SUFFICES ASSUME GInv, NEW g \in Gangs, NEW p \in Pods,
                      gangState[g].members[p] # NoNuma
               PROVE  LET i == gangState[g].members[p] IN
                      /\ Ask[p].gang = g /\ gangState[g].created
                      /\ i \notin Ask[p].avoid
                      /\ \E n \in Nodes : /\ i \in parseNUMATopology(n)
                                         /\ Numa(n, i).cpus >= Attr[p].cpu
                                         /\ Numa(n, i).mem >= Attr[p].mem
      BY DEF RecordedFits
  <2>1. /\ Ask[p].gang = g /\ gangState[g].created
        /\ \E n \in Nodes : gangState[g].members[p] \in Eligible(p, n)
    BY DEF GInv, MembersFit
  <2>2. QED
    BY <2>1 DEF Eligible, FitsIn
<1>2. QED
    BY <1>1, GInvHolds, PTL

-----------------------------------------------------------------------------
(* The scores of the workers and the VRAM of the placed pods.              *)

StepNames == {"idle", "vram", "topology", "numa", "lookup", "iterate", "record", "done"}

Scored == {"numa", "lookup", "iterate", "record", "done"}

Choosers == {"lookup", "iterate", "record"}

\* The pod names a gang that gang state s has an entry for.
Known(p, s) == Ask[p].gang # "" /\ s[Ask[p].gang].created

\* The affinity that a NUMA node has for pod p with the gang state s.
Affinity(p, s, i) ==
    LET g == Ask[p].gang
        members == s[g].members
        ids == [q \in {r \in Pods : members[r] # NoNuma} |-> members[q]]
    IN  IF Known(p, s) THEN GangScore(p, s[g].policy, ids, i) ELSE NoGangScore

Worth(p, s, n, i) == Capped(Total(p, n, i, Affinity(p, s, i)))

\* The fields of a worker's record.
Bounded(n, w) ==
    /\ w.step \in StepNames
    /\ w.request \in Int /\ w.perGPU \in Int
    /\ w.score \in 0..100 /\ w.numa \in 0..100 /\ w.best \in 0..(100 * Point)
    /\ w.todo \subseteq parseNUMATopology(n)
    /\ w.bestId \in parseNUMATopology(n) \cup {NoNuma}

\* VRAMScheduler's score is made of the request, the VRAM per GPU and the
\* GPUs that some read of the slices has shown.
Rated(p, tier, n, w) ==
    w.step \in Scored =>
        \E slices \in SUBSET Slices :
            LET gpus == getNodeGPUTopology(n, slices) IN
            /\ w.bonus = calculateGPUTopologyBonus(gpus, GpusRequested(p))
            /\ w.score = VRAMScore(p, n, tier, w.request, w.perGPU, gpus)

\* The NUMA node a worker prefers is worth as much as any it has looked at,
\* as long as nobody else has recorded a member meanwhile.
Leads(p, s, n, w) ==
    /\ w.step \in {"vram", "topology", "numa"} => w.bestId = NoNuma
    /\ w.step = "record" => w.todo = {}
    /\ w.step \in Choosers /\ w.still =>
         /\ \A i \in Eligible(p, n) \ w.todo : Worth(p, s, n, i) <= w.best
         /\ w.bestId # NoNuma => w.best > 0 /\ Worth(p, s, n, w.bestId) = w.best
         /\ w.step = "iterate" => Known(p, s)

\* Only the score phase has workers; each keeps its ranges, its rating and its lead.
Working ==
    /\ \A n \in Nodes : Bounded(n, work[n])
    /\ cycle.phase # "score" => \A n \in Nodes : work[n].step = "idle"
    /\ cycle.phase = "score" =>
         \A n \in Nodes : /\ Rated(cycle.pod, cycle.tier, n, work[n])
                          /\ Leads(cycle.pod, gangState, n, work[n])

\* Node n holds the request of pod p, judged by all that there is to know.
Holds(p, n, note) == VRAMFilter(p, n, note, Templates, Slices)

\* So do the nodes of which the cycle is sure and those of the pods placed so.
Informed ==
    /\ cycle.phase # "none" =>
         \A n \in cycle.informed : Holds(cycle.pod, n, pod[cycle.pod].note)
    /\ \A p \in Pods : pod[p].stage = "placed" /\ pod[p].sure =>
         pod[p].node \in Nodes /\ Holds(p, pod[p].node, pod[p].note)

\* The informers show what there is.
Seen == known \subseteq Templates /\ listed \subseteq Slices /\ faults \in 0..MaxFaults

-----------------------------------------------------------------------------
(* Lemmas on the scores.                                                   *)

LEMMA LargerOfTwo ==
    ASSUME NEW a \in Int, NEW b \in Int
    PROVE  /\ Max({a, b}) = IF a >= b THEN a ELSE b
           /\ Min({a, b}) = IF a <= b THEN a ELSE b
<1> DEFINE larger == IF a >= b THEN a ELSE b
           smaller == IF a <= b THEN a ELSE b
<1>1. /\ larger \in {a, b} /\ smaller \in {a, b}
      /\ \A y \in {a, b} : larger >= y /\ smaller <= y
    OBVIOUS
<1>2. \A x \in {a, b} : (\A y \in {a, b} : x >= y) => x = larger
    OBVIOUS
<1>3. \A x \in {a, b} : (\A y \in {a, b} : x <= y) => x = smaller
    OBVIOUS
<1> HIDE DEF larger, smaller
<1>4. Max({a, b}) = larger /\ Min({a, b}) = smaller
    BY <1>1, <1>2, <1>3, Zenon DEF Max, Min
<1>5. QED
    BY <1>4 DEF larger, smaller

LEMMA SmallerIsInt == \A a, b \in Int : Min({a, b}) \in Int
  BY LargerOfTwo

LEMMA PointsAreNumbers == \A x \in Int : Points(x) \in Int
  BY DEF Points

LEMMA PointIsNumber == Point \in Nat /\ Point > 0 /\ 100 * Point \in Nat
  BY DEF Point, Points

LEMMA Quotient ==
    ASSUME NEW d \in Nat, d > 0, NEW b \in 0..(100 * d)
    PROVE  b \div d \in 0..100
  OBVIOUS

LEMMA PointsOfTotal == \A b \in 0..(100 * Point) : b \div Point \in 0..100
  BY PointIsNumber, Quotient, Zenon

LEMMA CapOfTotal ==
    ASSUME NEW t \in Int
    PROVE  /\ Capped(t) = IF t < 0 THEN 0 ELSE IF t > 100 * Point THEN 100 * Point ELSE t
           /\ Capped(t) \in 0..(100 * Point)
<1> DEFINE top == 100 * Point
           m == IF t > top THEN top ELSE t
<1>1. top \in Nat
    BY PointIsNumber
<1>2. Capped(t) = Max({0, Min({top, t})})
    BY Zenon DEF Capped
<1> HIDE DEF top
<1>3. Min({top, t}) = m /\ m \in Int
    BY <1>1, LargerOfTwo
<1>4. Max({0, m}) = IF 0 >= m THEN 0 ELSE m
    BY <1>3, LargerOfTwo
<1>5. /\ Capped(t) = IF t < 0 THEN 0 ELSE IF t > top THEN top ELSE t
      /\ Capped(t) \in 0..top
    BY <1>1, <1>2, <1>3, <1>4
<1>6. QED
    BY <1>5 DEF top

LEMMA PodAsks ==
    ASSUME NEW p \in Pods
    PROVE  /\ Attr[p].gpu \in Nat /\ Attr[p].cpu \in Nat /\ Attr[p].mem \in Nat
           /\ Ask[p].weight \in 0..100
           /\ GpusRequested(p) \in Nat \ {0}
<1>1. Attr[p].gpu \in Nat /\ Attr[p].cpu \in Nat /\ Attr[p].mem \in Nat
    BY ClassifierAssumption DEF ClassifierAssumption, PodAttributes
<1>2. Ask[p].weight \in 0..100
    BY GpuClusterAssumption DEF GpuClusterAssumption, PodWishes
<1>3. QED
    BY <1>1, <1>2 DEF GpusRequested

\* The average is over a finite number of distances.
LEMMA DistanceIsInt ==
    ASSUME NEW p \in Pods, NEW n \in Nodes, NEW i \in parseNUMATopology(n)
    PROVE  calculateNUMADistanceScore(p, n, i) \in Int
<1> DEFINE distance == Board[n].numa[i].distance
           others == DOMAIN distance \ {i}
           average == (100 * SumFunctionOnSet(distance, others)) \div Cardinality(others)
           score == Points(100) - ((average - Points(10)) * 5 * Ask[p].weight) \div 50
<1>1. IsFiniteSet(DOMAIN distance) /\ \A j \in DOMAIN distance : distance[j] \in Nat
    BY GpuClusterAssumption DEF GpuClusterAssumption, parseNUMATopology
<1>2. IsFiniteSet(others) /\ Cardinality(others) \in Nat
    BY <1>1, FS_Subset, FS_CardinalityType
<1>3. SumFunctionOnSet(distance, others) \in Int
    BY <1>1, <1>2, SumInt
<1>4. ASSUME others # {}
      PROVE  Max({0, Min({Points(100), score})}) \in Int
  <2>1. Cardinality(others) # 0
    BY <1>2, <1>4, FS_EmptySet
  <2>2. average \in Int
    BY <1>2, <1>3, <2>1
  <2>3. Ask[p].weight \in Int
    BY PodAsks
  <2> HIDE DEF average
  <2>4. score \in Int
    BY <2>2, <2>3, PointsAreNumbers
  <2> HIDE DEF score
  <2>5. Min({Points(100), score}) \in Int
    BY <2>4, SmallerIsInt, PointsAreNumbers
  <2>6. QED
    BY <2>5, LargerOfTwo
<1>5. calculateNUMADistanceScore(p, n, i) =
        IF DOMAIN distance = {} THEN Points(50)
        ELSE IF others = {} THEN Points(100)
        ELSE Max({0, Min({Points(100), score})})
    BY Zenon DEF calculateNUMADistanceScore
<1> HIDE DEF others, score
<1>6. QED
    BY <1>4, <1>5, PointsAreNumbers

LEMMA FitIsInt ==
    ASSUME NEW p \in Pods, NEW n \in Nodes, NEW i \in parseNUMATopology(n)
    PROVE  FitScore(p, n, i) \in Int /\ BandwidthScore(p, n, i) \in Int
<1> DEFINE numa == Numa(n, i)
           cpus == (Points(60) * (numa.cpus - Attr[p].cpu)) \div numa.cpus
           mem == (Points(40) * (numa.mem - Attr[p].mem)) \div numa.mem
           fit == cpus + mem
<1>1. numa.cpus \in Nat \ {0} /\ numa.mem \in Nat \ {0}
    BY GpuClusterAssumption DEF GpuClusterAssumption, parseNUMATopology, Numa, NumaLabels
<1>2. cpus \in Int /\ mem \in Int
    BY <1>1, PodAsks, PointsAreNumbers
<1>3. FitScore(p, n, i) =
        IF i \in Ask[p].prefer THEN Min({Points(100), (fit * 12) \div 10}) ELSE fit
    BY Zenon DEF FitScore
<1>4. (Points(100) * Attr[p].mem) \div numa.mem \in Int
    BY <1>1, PodAsks, PointsAreNumbers
<1> HIDE DEF cpus, mem
<1>5. fit \in Int /\ (fit * 12) \div 10 \in Int
    BY <1>2
<1> HIDE DEF fit
<1>6. Min({Points(100), (fit * 12) \div 10}) \in Int
    BY <1>5, SmallerIsInt, PointsAreNumbers
<1>7. BandwidthScore(p, n, i) \in Int
    BY <1>4, PointsAreNumbers DEF BandwidthScore
<1>8. QED
    BY <1>3, <1>5, <1>6, <1>7

\* The gang's affinity counts 15 percent of the total.
LEMMA TotalOfParts ==
    ASSUME NEW p \in Pods, NEW n \in Nodes, NEW i \in parseNUMATopology(n),
           NEW gang \in Int
    PROVE  /\ Total(p, n, i, 0) \in Int
           /\ Total(p, n, i, gang) \in Int
           /\ Total(p, n, i, gang) = Total(p, n, i, 0) + 15 * gang
<1>1. calculateGPUNUMABonus(p, n, i) \in Int
    BY DEF calculateGPUNUMABonus
<1>2. QED
    BY <1>1, PointIsNumber, FitIsInt, DistanceIsInt DEF Total

LEMMA SizeOf ==
    ASSUME NEW S \in SUBSET Pods
    PROVE  /\ Cardinality(S) \in Nat
           /\ Cardinality(S) > 0 <=> S # {}
<1>1. IsFiniteSet(S)
    BY FS_Subset, GpuClusterAssumption DEF GpuClusterAssumption
<1>2. QED
    BY <1>1, FS_CardinalityType, FS_EmptySet

LEMMA SpreadScores ==
    ASSUME NEW count \in Nat, NEW spread
    PROVE  /\ spread \in {"packed", "none"} =>
                SpreadScore(spread, count) = IF count > 0 THEN Points(100) ELSE Points(20)
           /\ spread = "isolated" =>
                SpreadScore(spread, count) = IF count > 0 THEN 0 ELSE Points(100)
           /\ spread = "balanced" =>
                SpreadScore(spread, count) =
                  IF count < 5 THEN Points(100 - 20 * count) ELSE 0
           /\ SpreadScore(spread, count) \in 0..Points(100)
<1> DEFINE some == Points(100 - 20 * count)
<1>1. some \in Int /\ (0 >= some <=> count >= 5) /\ (count < 5 => some \in 0..Points(100))
    BY DEF Points
<1>2. SpreadScore(spread, count) =
        IF spread \in {"packed", "none"} THEN IF count > 0 THEN Points(100) ELSE Points(20)
        ELSE IF spread = "balanced" THEN Max({0, some})
        ELSE IF spread = "isolated" THEN IF count > 0 THEN 0 ELSE Points(100)
        ELSE Points(50)
    BY DEF SpreadScore
<1> HIDE DEF some
<1>3. Max({0, some}) = IF count < 5 THEN some ELSE 0
    BY <1>1, LargerOfTwo
<1>4. /\ 0 \in 0..Points(100) /\ Points(20) \in 0..Points(100)
      /\ Points(50) \in 0..Points(100) /\ Points(100) \in 0..Points(100)
    BY DEF Points
<1>5. QED
    BY <1>1, <1>2, <1>3, <1>4 DEF some

\* The members that gang state s records in gang g at NUMA node i.
CountAt(s, g, i) == Cardinality({q \in Pods : s[g].members[q] = i})

\* How the affinity follows from the policy and the number of members.
LEMMA AffinityOfGang ==
    ASSUME NEW p \in Pods, NEW s \in [Gangs -> GangRecord], NEW i \in Nat
    PROVE  LET g == Ask[p].gang
               spread == IF s[g].policy = "" THEN Ask[p].spread ELSE s[g].policy
           IN  /\ Affinity(p, s, i) \in 0..Points(100)
               /\ CountAt(s, g, i) \in Nat
               /\ Known(p, s) /\ (\E j \in Nat : CountAt(s, g, j) > 0) =>
                    Affinity(p, s, i) = SpreadScore(spread, CountAt(s, g, i))
<1> DEFINE g == Ask[p].gang
           members == s[g].members
           ids == [q \in {r \in Pods : members[r] # NoNuma} |-> members[q]]
           spread == IF s[g].policy = "" THEN Ask[p].spread ELSE s[g].policy
<1>1. \A j \in Nat : CountAt(s, g, j) \in Nat /\ (CountAt(s, g, j) > 0 => DOMAIN ids # {})
  <2> SUFFICES ASSUME NEW j \in Nat
               PROVE  CountAt(s, g, j) \in Nat /\ (CountAt(s, g, j) > 0 => DOMAIN ids # {})
      OBVIOUS
  <2>1. /\ CountAt(s, g, j) \in Nat
        /\ CountAt(s, g, j) > 0 => {q \in Pods : s[g].members[q] = j} # {}
    BY SizeOf DEF CountAt
  <2>2. j # NoNuma
    BY DEF NoNuma
  <2>3. QED
    BY <2>1, <2>2
<1>2. {k \in DOMAIN ids : ids[k] = i} = {q \in Pods : members[q] = i}
  <2>1. DOMAIN ids = {r \in Pods : members[r] # NoNuma}
        /\ \A k \in DOMAIN ids : ids[k] = members[k]
    BY Zenon
  <2>2. i # NoNuma
    BY DEF NoNuma
  <2> HIDE DEF ids, members
  <2>3. QED
    BY <2>1, <2>2, Zenon
<1>3. GangScore(p, s[g].policy, ids, i) =
        IF DOMAIN ids = {} THEN NoGangScore ELSE SpreadScore(spread, CountAt(s, g, i))
    BY <1>2, Zenon DEF GangScore, CountAt
<1>4. /\ SpreadScore(spread, CountAt(s, g, i)) \in 0..Points(100)
      /\ NoGangScore \in 0..Points(100)
  <2>1. SpreadScore(spread, CountAt(s, g, i)) \in 0..Points(100)
    BY <1>1, SpreadScores
  <2>2. NoGangScore \in 0..Points(100)
    BY DEF NoGangScore, Points
  <2>3. QED
    BY <2>1, <2>2
<1>5. Affinity(p, s, i) = IF Known(p, s) THEN GangScore(p, s[g].policy, ids, i)
                          ELSE NoGangScore
    BY Zenon DEF Affinity
<1> HIDE DEF spread, g, ids
<1>6. Affinity(p, s, i) \in 0..Points(100)
    BY <1>3, <1>4, <1>5, Zenon
<1>7. Known(p, s) /\ (\E j \in Nat : CountAt(s, g, j) > 0) =>
        Affinity(p, s, i) = SpreadScore(spread, CountAt(s, g, i))
    BY <1>1, <1>3, <1>5, Zenon
<1>8. CountAt(s, g, i) \in Nat
    BY <1>1
<1>9. QED
    BY <1>6, <1>7, <1>8, Zenon DEF spread, g

LEMMA WorthRange ==
    ASSUME NEW p \in Pods, NEW s \in [Gangs -> GangRecord], NEW n \in Nodes,
           NEW i \in parseNUMATopology(n)
    PROVE  /\ Affinity(p, s, i) \in 0..Points(100)
           /\ Total(p, n, i, Affinity(p, s, i)) \in Int
           /\ Worth(p, s, n, i) = Capped(Total(p, n, i, Affinity(p, s, i)))
           /\ Worth(p, s, n, i) \in 0..(100 * Point)
<1>1. i \in Nat
    BY GpuClusterAssumption DEF GpuClusterAssumption, parseNUMATopology
<1>2. Affinity(p, s, i) \in 0..Points(100)
    BY <1>1, AffinityOfGang, Zenon
<1>3. Affinity(p, s, i) \in Int
    BY <1>2, PointsAreNumbers
<1>4. Total(p, n, i, Affinity(p, s, i)) \in Int
    BY <1>3, TotalOfParts
<1>5. QED
    BY <1>2, <1>4, CapOfTotal, Zenon DEF Worth

\* If the total of i is no less before the affinity counts and has room below
\* the cap, the policy cannot prefer i to a NUMA node that is worth as much.
LEMMA PolicyDecides ==
    ASSUME NEW p \in Pods, NEW n \in Nodes, gangState \in [Gangs -> GangRecord],
           NEW i \in parseNUMATopology(n), NEW j \in parseNUMATopology(n),
           Known(p, gangState),
           Total(p, n, i, 0) >= Total(p, n, j, 0),
           Total(p, n, i, Points(100)) <= 100 * Point,
           Worth(p, gangState, n, i) <= Worth(p, gangState, n, j),
           Worth(p, gangState, n, j) > 0
    PROVE  ~Prefers(p, Ask[p].gang, i, j)
<1> DEFINE g == Ask[p].gang
           a == Affinity(p, gangState, i)
           b == Affinity(p, gangState, j)
           spread == IF gangState[g].policy = "" THEN Ask[p].spread ELSE gangState[g].policy
           ci == CountAt(gangState, g, i)
           cj == CountAt(gangState, g, j)
<1>1. i \in Nat /\ j \in Nat
    BY GpuClusterAssumption DEF GpuClusterAssumption, parseNUMATopology
<1>2. a \in 0..Points(100) /\ b \in 0..Points(100) /\ a \in Int /\ b \in Int
  <2>1. a \in 0..Points(100) /\ b \in 0..Points(100)
    BY WorthRange
  <2>2. QED
    BY <2>1, PointsAreNumbers
<1>3. a <= b
  <2> DEFINE ti == Total(p, n, i, a)
             tj == Total(p, n, j, b)
             base(k) == Total(p, n, k, 0)
             top == 100 * Point
  <2>1. /\ base(i) \in Int /\ ti \in Int /\ ti = base(i) + 15 * a
        /\ base(j) \in Int /\ tj \in Int /\ tj = base(j) + 15 * b
    BY <1>2, TotalOfParts
  <2>2. Total(p, n, i, Points(100)) = base(i) + 15 * Points(100)
    BY PointsAreNumbers, TotalOfParts
  <2>3. top \in Nat
    BY PointIsNumber
  <2>4. /\ Worth(p, gangState, n, i) = IF ti < 0 THEN 0 ELSE IF ti > top THEN top ELSE ti
        /\ Worth(p, gangState, n, j) = IF tj < 0 THEN 0 ELSE IF tj > top THEN top ELSE tj
    BY <2>1, CapOfTotal, Zenon DEF Worth
  <2> HIDE DEF a, b, ti, tj, base, top
  <2>5. base(i) >= base(j) /\ base(i) + 15 * Points(100) <= top
    BY <2>2, Zenon DEF base, top
  <2>6. ti <= top
    BY <1>2, <2>1, <2>5, <2>3, PointsAreNumbers
  <2>7. ti <= tj
    BY <2>1, <2>3, <2>4, <2>6
  <2>8. QED
    BY <1>2, <2>1, <2>5, <2>7
<1>4. ci \in Nat /\ cj \in Nat
    BY <1>1, AffinityOfGang, Zenon
<1>5. ci > 0 \/ cj > 0 => a = SpreadScore(spread, ci) /\ b = SpreadScore(spread, cj)
    BY <1>1, AffinityOfGang, Zenon
<1>6. Prefers(p, g, i, j) <=>
        \/ spread \in {"packed", "none"} /\ ci > 0 /\ cj = 0
        \/ spread = "isolated" /\ ci = 0 /\ cj > 0
        \/ spread = "balanced" /\ ci < cj /\ ci < 5
    BY DEF Prefers, CountAt
<1> HIDE DEF a, b, ci, cj, spread
<1>7. CASE spread \in {"packed", "none"} /\ ci > 0 /\ cj = 0
  <2>1. a = Points(100) /\ b = Points(20)
    BY <1>4, <1>5, <1>7, SpreadScores
  <2>2. QED
    BY <1>3, <2>1 DEF Points
<1>8. CASE spread = "isolated" /\ ci = 0 /\ cj > 0
  <2>1. a = Points(100) /\ b = 0
    BY <1>4, <1>5, <1>8, SpreadScores
  <2>2. QED
    BY <1>3, <2>1 DEF Points
<1>9. CASE spread = "balanced" /\ ci < cj /\ ci < 5
  <2>1. a = Points(100 - 20 * ci)
    BY <1>4, <1>5, <1>9, SpreadScores
  <2>2. b = IF cj < 5 THEN Points(100 - 20 * cj) ELSE 0
    BY <1>4, <1>5, <1>9, SpreadScores
  <2>3. QED
    BY <1>3, <1>4, <1>9, <2>1, <2>2 DEF Points
<1>10. QED
    BY <1>6, <1>7, <1>8, <1>9, Zenon DEF g

-----------------------------------------------------------------------------
(* VRAMScheduler's score.                                                  *)

UtilizationScores == {0, 30, 60, 80, 100}

\* The same request fills a smaller capacity at least as well.
LEMMA TighterUtilization ==
    ASSUME NEW need \in Int, NEW a \in Int, NEW b \in Int, a <= b, NEW tier
    PROVE  /\ calculateUtilizationScore(need, a, tier) \in UtilizationScores
           /\ calculateUtilizationScore(need, b, tier) \in UtilizationScores
           /\ calculateUtilizationScore(need, a, tier) >= calculateUtilizationScore(need, b, tier)
<1> DEFINE t(i) == Thresholds(tier)[i]
           reached(i, have) == 100 * need >= t(i) * have
           score(have) == calculateUtilizationScore(need, have, tier)
<1>1. \A i \in 1..4 : reached(i, b) => reached(i, a)
  <2>1. Thresholds(tier) \in {<<98, 85, 70, 50>>, <<90, 60, 40, 20>>, <<95, 70, 50, 30>>}
    BY Zenon DEF Thresholds
  <2>2. CASE Thresholds(tier) = <<98, 85, 70, 50>>
    BY <2>2
  <2>3. CASE Thresholds(tier) = <<90, 60, 40, 20>>
    BY <2>3
  <2>4. CASE Thresholds(tier) = <<95, 70, 50, 30>>
    BY <2>4
  <2>5. QED
    BY <2>1, <2>2, <2>3, <2>4
<1>2. \A have : score(have) = IF reached(1, have) THEN 100
                              ELSE IF reached(2, have) THEN 80
                              ELSE IF reached(3, have) THEN 60
                              ELSE IF reached(4, have) THEN 30
                              ELSE 0
    BY Zenon DEF calculateUtilizationScore
<1> HIDE DEF reached
<1>3. /\ reached(1, b) => reached(1, a)
      /\ reached(2, b) => reached(2, a)
      /\ reached(3, b) => reached(3, a)
      /\ reached(4, b) => reached(4, a)
    BY <1>1
<1>4. QED
    BY <1>2, <1>3 DEF UtilizationScores

LEMMA UtilizationRange ==
    ASSUME NEW need \in Int, NEW have \in Int, NEW tier
    PROVE  calculateUtilizationScore(need, have, tier) \in 0..100
<1>1. have <= have
    OBVIOUS
<1>2. calculateUtilizationScore(need, have, tier) \in UtilizationScores
    BY <1>1, TighterUtilization
<1>3. QED
    BY <1>2 DEF UtilizationScores

\* Every part of the bonus counts up.
LEMMA BonusRange ==
    ASSUME NEW gpus, NEW count
    PROVE  calculateGPUTopologyBonus(gpus, count) \in 0..50
<1> DEFINE numa == IF checkGPUNUMALocality(gpus, count) THEN 15 ELSE 0
           nvlink == IF checkNVLinkConnectivity(gpus, count) THEN 25 ELSE 0
           pcie == IF checkPCIeLocality(gpus, count) THEN 10 ELSE 0
<1>1. calculateGPUTopologyBonus(gpus, count) =
        IF count <= 1 \/ Cardinality(gpus) < count THEN 0 ELSE numa + nvlink + pcie
    BY Zenon DEF calculateGPUTopologyBonus
<1>2. numa \in {0, 15} /\ nvlink \in {0, 25} /\ pcie \in {0, 10}
    BY Zenon
<1> HIDE DEF numa, nvlink, pcie
<1>3. numa + nvlink + pcie \in 0..50
    BY <1>2
<1>4. QED
    BY <1>1, <1>3

\* The score of a request that one GPU holds, from its utilization score.
Single(base, high, request, perGPU, bonus) ==
    LET premium == IF high /\ 10 * request >= 7 * perGPU
                   THEN IF base > 90 THEN 100 ELSE base + 10 ELSE base
        stranded == IF 10 * request < 3 * perGPU
                    THEN IF premium < 20 THEN 0 ELSE premium - 20 ELSE premium
    IN  IF stranded + bonus > 100 THEN 100 ELSE stranded + bonus

LEMMA ScoreOfRequest ==
    ASSUME NEW p \in Pods, NEW n, NEW tier, NEW request \in Int, NEW perGPU \in Int,
           NEW gpus
    PROVE  LET score == VRAMScore(p, n, tier, request, perGPU, gpus)
               all == perGPU * GpusRequested(p)
           IN  /\ request = 0 => score = 60
               /\ request # 0 /\ (perGPU = 0 \/ request > all) => score = 0
               /\ request # 0 /\ perGPU # 0 /\ request <= all /\ request > perGPU =>
                    score = calculateUtilizationScore(request, all, tier)
               /\ request # 0 /\ perGPU # 0 /\ request <= all /\ request <= perGPU =>
                    score = Single(calculateUtilizationScore(request, perGPU, tier),
                                   isHighEndGPU(n), request, perGPU,
                                   calculateGPUTopologyBonus(gpus, GpusRequested(p)))
<1> DEFINE count == GpusRequested(p)
           base == calculateUtilizationScore(request, perGPU, tier)
           premium == IF isHighEndGPU(n) /\ 10 * request >= 7 * perGPU
                      THEN Min({100, base + 10}) ELSE base
           stranded == IF 10 * request < 3 * perGPU
                       THEN Max({0, premium - 20}) ELSE premium
           bonus == calculateGPUTopologyBonus(gpus, count)
           one == Min({100, stranded + bonus})
<1>1. VRAMScore(p, n, tier, request, perGPU, gpus) =
        IF request = 0 THEN 60
        ELSE IF perGPU = 0 THEN 0
        ELSE IF request > perGPU * count THEN 0
        ELSE IF request > perGPU
          THEN calculateUtilizationScore(request, perGPU * count, tier)
        ELSE one
    BY Zenon DEF VRAMScore
<1>2. base \in 0..100
    BY UtilizationRange
<1>3. bonus \in 0..50
    BY BonusRange
<1> HIDE DEF base, bonus, count
<1>4. premium = IF isHighEndGPU(n) /\ 10 * request >= 7 * perGPU
                THEN IF base > 90 THEN 100 ELSE base + 10 ELSE base
  <2> DEFINE more == base + 10
  <2>1. more \in Int /\ 100 \in Int
    BY <1>2
  <2> HIDE DEF more
  <2>2. Min({100, more}) = IF 100 <= more THEN 100 ELSE more
    BY <2>1, LargerOfTwo
  <2>3. QED
    BY <1>2, <2>2 DEF more, premium
<1>5. premium \in 0..100
    BY <1>2, <1>4
<1> HIDE DEF premium
<1>6. stranded = IF 10 * request < 3 * perGPU
                 THEN IF premium < 20 THEN 0 ELSE premium - 20 ELSE premium
  <2>1. Max({0, premium - 20}) = IF 0 >= premium - 20 THEN 0 ELSE premium - 20
    BY <1>5, LargerOfTwo
  <2>2. QED
    BY <1>5, <2>1
<1>7. stranded \in 0..100
    BY <1>5, <1>6
<1> HIDE DEF stranded
<1>8. one = IF stranded + bonus > 100 THEN 100 ELSE stranded + bonus
  <2> DEFINE sum == stranded + bonus
  <2>1. sum \in Int /\ 100 \in Int
    BY <1>3, <1>7
  <2> HIDE DEF sum
  <2>2. Min({100, sum}) = IF 100 <= sum THEN 100 ELSE sum
    BY <2>1, LargerOfTwo
  <2>3. QED
    BY <1>3, <1>7, <2>2 DEF sum, one
<1>9. one = Single(base, isHighEndGPU(n), request, perGPU, bonus)
    BY <1>4, <1>6, <1>8, Zenon DEF Single
<1> DEFINE all == perGPU * count
           several == calculateUtilizationScore(request, all, tier)
           score == VRAMScore(p, n, tier, request, perGPU, gpus)
<1>10. all \in Int
    BY PodAsks DEF count
<1>11. score = IF request = 0 THEN 60
               ELSE IF perGPU = 0 THEN 0
               ELSE IF request > all THEN 0
               ELSE IF request > perGPU THEN several
               ELSE one
    BY <1>1
<1> HIDE DEF one, all, several, score
<1>12. /\ request = 0 => score = 60
       /\ request # 0 /\ (perGPU = 0 \/ request > all) => score = 0
       /\ request # 0 /\ perGPU # 0 /\ request <= all /\ request > perGPU => score = several
       /\ request # 0 /\ perGPU # 0 /\ request <= all /\ request <= perGPU => score = one
    BY <1>10, <1>11
<1>13. QED
    BY <1>9, <1>12, Zenon DEF score, all, several, base, bonus, count

LEMMA SingleRange ==
    ASSUME NEW base \in 0..100, NEW high, NEW request \in Int, NEW perGPU \in Int,
           NEW bonus \in 0..50
    PROVE  Single(base, high, request, perGPU, bonus) \in 0..100
  BY DEF Single

LEMMA RatingRange ==
    ASSUME NEW p \in Pods, NEW n, NEW tier, NEW request \in Int, NEW perGPU \in Int,
           NEW gpus
    PROVE  VRAMScore(p, n, tier, request, perGPU, gpus) \in 0..100
<1> DEFINE all == perGPU * GpusRequested(p)
           base == calculateUtilizationScore(request, perGPU, tier)
           several == calculateUtilizationScore(request, all, tier)
           bonus == calculateGPUTopologyBonus(gpus, GpusRequested(p))
           one == Single(base, isHighEndGPU(n), request, perGPU, bonus)
<1>1. all \in Int
    BY PodAsks
<1>2. base \in 0..100 /\ bonus \in 0..50
    BY UtilizationRange, BonusRange
<1> DEFINE score == VRAMScore(p, n, tier, request, perGPU, gpus)
<1>3. /\ request = 0 => score = 60
      /\ request # 0 /\ (perGPU = 0 \/ request > all) => score = 0
      /\ request # 0 /\ perGPU # 0 /\ request <= all /\ request > perGPU => score = several
      /\ request # 0 /\ perGPU # 0 /\ request <= all /\ request <= perGPU => score = one
    BY ScoreOfRequest
<1> HIDE DEF all, base, bonus, score
<1>4. several \in 0..100
    BY <1>1, UtilizationRange
<1>5. one \in 0..100
    BY <1>2, SingleRange
<1> HIDE DEF several, one
<1>6. score \in 0..100
    BY <1>1, <1>3, <1>4, <1>5
<1>7. QED
    BY <1>6 DEF score

\* Neither the premium nor the stranding rule turns the order around.
LEMMA TighterSingle ==
    ASSUME NEW x \in 0..100, NEW y \in 0..100, x >= y, NEW hx \in BOOLEAN, NEW hy \in BOOLEAN,
           hy => hx, NEW request \in Int, NEW a \in Int, NEW b \in Int, a <= b,
           NEW bonus \in 0..50
    PROVE  Single(x, hx, request, a, bonus) >= Single(y, hy, request, b, bonus)
<1> DEFINE premium(base, high, perGPU) ==
             IF high /\ 10 * request >= 7 * perGPU
             THEN IF base > 90 THEN 100 ELSE base + 10 ELSE base
           stranded(pr, perGPU) ==
             IF 10 * request < 3 * perGPU
             THEN IF pr < 20 THEN 0 ELSE pr - 20 ELSE pr
           px == premium(x, hx, a)
           py == premium(y, hy, b)
           sx == stranded(px, a)
           sy == stranded(py, b)
<1>1. px \in 0..100 /\ py \in 0..100 /\ px >= py
    OBVIOUS
<1> HIDE DEF px, py
<1>2. sx \in 0..100 /\ sy \in 0..100 /\ sx >= sy
    BY <1>1
<1> HIDE DEF sx, sy
<1>3. /\ Single(x, hx, request, a, bonus) = IF sx + bonus > 100 THEN 100 ELSE sx + bonus
      /\ Single(y, hy, request, b, bonus) = IF sy + bonus > 100 THEN 100 ELSE sy + bonus
    BY Zenon DEF Single, sx, sy, px, py
<1>4. QED
    BY <1>2, <1>3

\* Of two nodes for one request the one with the smaller GPUs scores no less.
LEMMA TighterRating ==
    ASSUME NEW p \in Pods, NEW m, NEW n, NEW tier, NEW request \in Int,
           NEW a \in Int, NEW b \in Int, 0 < a, a <= b, NEW ga, NEW gb,
           request <= a * GpusRequested(p), (request > a) <=> (request > b),
           calculateGPUTopologyBonus(ga, GpusRequested(p))
             = calculateGPUTopologyBonus(gb, GpusRequested(p)),
           isHighEndGPU(n) => isHighEndGPU(m)
    PROVE  VRAMScore(p, m, tier, request, a, ga) >= VRAMScore(p, n, tier, request, b, gb)
<1> DEFINE count == GpusRequested(p)
           bonus == calculateGPUTopologyBonus(ga, count)
           util(have) == calculateUtilizationScore(request, have, tier)
<1>1. count \in Nat
    BY PodAsks
<1>2. a * count \in Int /\ b * count \in Int /\ a * count <= b * count
    BY <1>1
<1> DEFINE several(have) == calculateUtilizationScore(request, have * count, tier)
<1>3. /\ util(a) \in 0..100 /\ util(b) \in 0..100 /\ util(a) >= util(b)
      /\ several(a) >= several(b)
  <2>1. util(a) >= util(b)
    BY TighterUtilization, Zenon
  <2>2. several(a) >= several(b)
    BY <1>2, TighterUtilization, Zenon
  <2>3. QED
    BY <2>1, <2>2, UtilizationRange
<1>4. Single(util(a), isHighEndGPU(m), request, a, bonus)
        >= Single(util(b), isHighEndGPU(n), request, b, bonus)
  <2>1. isHighEndGPU(m) \in BOOLEAN /\ isHighEndGPU(n) \in BOOLEAN
    BY DEF isHighEndGPU
  <2>2. bonus \in 0..50
    BY BonusRange
  <2> HIDE DEF bonus, util
  <2>3. QED
    BY <1>3, <2>1, <2>2, TighterSingle
<1> DEFINE x == VRAMScore(p, m, tier, request, a, ga)
           y == VRAMScore(p, n, tier, request, b, gb)
           one == Single(util(a), isHighEndGPU(m), request, a, bonus)
           other == Single(util(b), isHighEndGPU(n), request, b, bonus)
<1>5. /\ request = 0 => x = 60 /\ y = 60
      /\ request # 0 /\ a # 0 /\ request <= a * count /\ request > a => x = several(a)
      /\ request # 0 /\ a # 0 /\ request <= a * count /\ request <= a => x = one
      /\ request # 0 /\ b # 0 /\ request <= b * count /\ request > b => y = several(b)
      /\ request # 0 /\ b # 0 /\ request <= b * count /\ request <= b => y = other
    BY ScoreOfRequest
<1>6. request <= a * count
    OBVIOUS
<1>7. one >= other
    BY <1>4
<1> HIDE DEF util, several, bonus, count, x, y, one, other
<1>8. request <= b * count
    BY <1>2, <1>6
<1>9. x >= y
    BY <1>2, <1>3, <1>5, <1>6, <1>7, <1>8
<1>10. QED
    BY <1>9 DEF x, y

-----------------------------------------------------------------------------
(* The request and the GPUs.                                               *)

LEMMA ClaimIsNat ==
    ASSUME NEW p \in Pods, NEW i \in DOMAIN Ask[p].claims, NEW note \in Nat, NEW ts
    PROVE  /\ Ask[p].claims[i].template \in Templates \cup {NoTemplate}
           /\ ClaimVRAM(Ask[p].claims[i], note, ts) \in Nat
<1> DEFINE Claim == [template: Templates \cup {NoTemplate}, gpuName: BOOLEAN]
           claims == Ask[p].claims
<1>1. claims \in Seq(Claim)
    BY GpuClusterAssumption DEF GpuClusterAssumption, PodWishes
<1>2. claims[i] \in Claim
  <2> HIDE DEF Claim
  <2>1. i \in DOMAIN claims
    OBVIOUS
  <2> HIDE DEF claims
  <2>2. QED
    BY <1>1, <2>1
<1>3. Ask[p].claims[i].template \in Templates \cup {NoTemplate}
    BY <1>2
<1>4. \A t \in Templates : Template[t].memory \in Nat
    BY GpuClusterAssumption DEF GpuClusterAssumption
<1>5. QED
    BY <1>3, <1>4 DEF ClaimVRAM

LEMMA RequestIsNat ==
    ASSUME NEW p \in Pods, NEW note \in Nat, NEW ts
    PROVE  getVRAMRequest(p, note, ts) \in Nat
<1> DEFINE vram(i) == ClaimVRAM(Ask[p].claims[i], note, ts)
           found == {i \in DOMAIN Ask[p].claims : vram(i) > 0}
<1>1. found \subseteq Nat
  <2>1. Ask[p].claims \in Seq([template: Templates \cup {NoTemplate}, gpuName: BOOLEAN])
    BY GpuClusterAssumption DEF GpuClusterAssumption, PodWishes
  <2>2. QED
    BY <2>1
<1>2. found # {} => Min(found) \in found
    BY <1>1, LeastIsMember, Zenon
<1>3. found # {} => vram(Min(found)) \in Nat
    BY <1>2, ClaimIsNat
<1>4. getVRAMFromResourceClaim(p, note, ts) = IF found = {} THEN 0 ELSE vram(Min(found))
    BY Zenon DEF getVRAMFromResourceClaim
<1> HIDE DEF vram, found
<1>5. QED
    BY <1>3, <1>4 DEF getVRAMRequest

\* The templates the pod does not name make no difference.
LEMMA RequestIsKnown ==
    ASSUME NEW p \in Pods, NEW note \in Nat, NEW ts \in SUBSET Templates,
           \A i \in DOMAIN Ask[p].claims : Ask[p].claims[i].template \in ts \cup {NoTemplate}
    PROVE  getVRAMRequest(p, note, ts) = getVRAMRequest(p, note, Templates)
<1> DEFINE vram(i, x) == ClaimVRAM(Ask[p].claims[i], note, x)
           found(x) == {i \in DOMAIN Ask[p].claims : vram(i, x) > 0}
<1>1. \A i \in DOMAIN Ask[p].claims : vram(i, ts) = vram(i, Templates)
    BY DEF ClaimVRAM
<1>2. \A x : getVRAMFromResourceClaim(p, note, x) =
               IF found(x) = {} THEN 0 ELSE vram(Min(found(x)), x)
    BY Zenon DEF getVRAMFromResourceClaim
<1> HIDE DEF vram
<1>3. found(ts) = found(Templates) /\ found(ts) \subseteq DOMAIN Ask[p].claims
    BY <1>1
<1>4. found(ts) # {} => Min(found(ts)) \in found(ts)
  <2>1. DOMAIN Ask[p].claims \subseteq Nat
    <3>1. Ask[p].claims \in Seq([template: Templates \cup {NoTemplate}, gpuName: BOOLEAN])
        BY GpuClusterAssumption DEF GpuClusterAssumption, PodWishes
    <3>2. QED
        BY <3>1
  <2>2. found(ts) \subseteq Nat
    BY <1>3, <2>1
  <2> HIDE DEF found
  <2>3. QED
    BY <2>2, LeastIsMember, Zenon
<1> HIDE DEF found
<1>5. getVRAMFromResourceClaim(p, note, ts) = getVRAMFromResourceClaim(p, note, Templates)
    BY <1>1, <1>2, <1>3, <1>4
<1>6. QED
    BY <1>5, Zenon DEF getVRAMRequest

LEMMA KnownModels ==
    /\ \A id : DeviceIDToVRAM(id) \in Nat
    /\ \A model : inferVRAMFromModel(model) \in Nat
  BY DEF DeviceIDToVRAM, inferVRAMFromModel

LEMMA LabelsAreNat ==
    ASSUME NEW n \in Nodes
    PROVE  getNodeGPUVRAMFromLabels(n).vram \in Nat
<1> DEFINE b == Board[n]
           count == IF b.count < 0 THEN 1 ELSE b.count
           inferred == inferVRAMFromModel(b.model)
<1>1. b.vram \in Nat \cup {NoLabel, BadLabel}
    BY GpuClusterAssumption DEF GpuClusterAssumption
<1>2. inferred \in Nat
    BY KnownModels
<1>3. getNodeGPUVRAMFromLabels(n) =
        IF b.vram = BadLabel THEN [vram |-> 0, count |-> 0]
        ELSE IF b.vram # NoLabel THEN [vram |-> b.vram, count |-> count]
        ELSE IF inferred > 0 THEN [vram |-> inferred, count |-> count]
        ELSE [vram |-> 0, count |-> 0]
    BY Zenon DEF getNodeGPUVRAMFromLabels
<1> HIDE DEF b, count, inferred
<1>4. QED
    BY <1>1, <1>2, <1>3

\* Whatever source has the say, a GPU has a number of GiB.
LEMMA TopologyIsNat ==
    ASSUME NEW n \in Nodes, NEW slices \in SUBSET Slices
    PROVE  \A g \in getNodeGPUTopology(n, slices) : g.vram \in Nat
<1>1. \A g \in getGPUTopologyFromDRA(n, slices) : g.vram \in Nat
  <2> SUFFICES ASSUME NEW g \in getGPUTopologyFromDRA(n, slices) PROVE g.vram \in Nat
      OBVIOUS
  <2>1. PICK s \in Slices : \E d \in s.devices : d.vram > 0 /\ g = parseGPUDeviceFromDRA(d)
    BY DEF getGPUTopologyFromDRA
  <2> PICK d \in s.devices : d.vram > 0 /\ g = parseGPUDeviceFromDRA(d)
    BY <2>1
  <2>2. d.vram \in Int
    BY GpuClusterAssumption DEF GpuClusterAssumption
  <2>3. g.vram = d.vram
    BY DEF parseGPUDeviceFromDRA
  <2>4. QED
    BY <2>2, <2>3
<1>2. \A g \in getTopologyFromNFD(n) : g.vram \in Nat
  <2> SUFFICES ASSUME NEW g \in getTopologyFromNFD(n) PROVE g.vram \in Nat
      OBVIOUS
  <2>1. \E i, id, numa : g = LabelledGPU(i, DeviceIDToVRAM(id), numa)
    BY Zenon DEF getTopologyFromNFD
  <2>2. QED
    BY <2>1, KnownModels DEF LabelledGPU
<1>3. \A g \in TopologyFromLabels(n) : g.vram \in Nat
    BY LabelsAreNat DEF TopologyFromLabels, LabelledGPU
<1>4. QED
    BY <1>1, <1>2, <1>3, Zenon DEF getNodeGPUTopology

\* The smallest GPU stands for the node.
LEMMA SmallestGPU ==
    ASSUME NEW n \in Nodes, NEW slices \in SUBSET Slices
    PROVE  /\ getNodeGPUVRAM(n, slices) \in Nat
           /\ \A g \in getNodeGPUTopology(n, slices) : getNodeGPUVRAM(n, slices) <= g.vram
<1> DEFINE gpus == getNodeGPUTopology(n, slices)
           sizes == {g.vram : g \in gpus}
<1>1. sizes \subseteq Nat
    BY TopologyIsNat
<1>2. getNodeGPUVRAM(n, slices) = IF gpus = {} THEN getNodeGPUVRAMFromLabels(n).vram
                                  ELSE Min(sizes)
    BY Zenon DEF getNodeGPUVRAM
<1>3. getNodeGPUVRAMFromLabels(n).vram \in Nat
    BY LabelsAreNat
<1>4. sizes # {} <=> gpus # {}
    OBVIOUS
<1>5. \A g \in gpus : g.vram \in sizes
    OBVIOUS
<1> HIDE DEF gpus, sizes
<1>6. gpus # {} => Min(sizes) \in Nat /\ \A y \in sizes : Min(sizes) <= y
    BY <1>1, <1>4, LeastIsMember
<1>7. getNodeGPUVRAM(n, slices) \in Nat /\ \A g \in gpus : getNodeGPUVRAM(n, slices) <= g.vram
    BY <1>2, <1>3, <1>5, <1>6
<1>8. QED
    BY <1>7 DEF gpus

\* Neither do the slices of other nodes.
LEMMA SlicesOfNode ==
    ASSUME NEW n \in Nodes, NEW slices \in SUBSET Slices,
           {s \in Slices : s.node = n} \subseteq slices
    PROVE  getNodeGPUVRAM(n, slices) = getNodeGPUVRAM(n, Slices)
<1>1. {x \in slices : x.node = n /\ x.gpuDriver} = {x \in Slices : x.node = n /\ x.gpuDriver}
    OBVIOUS
<1>2. getGPUTopologyFromDRA(n, slices) = getGPUTopologyFromDRA(n, Slices)
    BY <1>1, Zenon DEF getGPUTopologyFromDRA
<1>3. getNodeGPUTopology(n, slices) = getNodeGPUTopology(n, Slices)
    BY <1>2, Zenon DEF getNodeGPUTopology
<1>4. QED
    BY <1>3, Zenon DEF getNodeGPUVRAM

\* A node that passes with all the information passes with what there is to know.
LEMMA HoldsInFull ==
    ASSUME NEW p \in Pods, NEW n \in Nodes, NEW note \in Nat,
           known \subseteq Templates, listed \subseteq Slices,
           FullyInformed(p, n), VRAMFilter(p, n, note, known, listed)
    PROVE  Holds(p, n, note)
<1>1. getVRAMRequest(p, note, known) = getVRAMRequest(p, note, Templates)
    BY RequestIsKnown, Zenon DEF FullyInformed
<1>2. getNodeGPUVRAM(n, listed) = getNodeGPUVRAM(n, Slices)
    BY SlicesOfNode, Zenon DEF FullyInformed
<1>3. QED
    BY <1>1, <1>2, Zenon DEF VRAMFilter, Holds

-----------------------------------------------------------------------------
(* One step of one worker.                                                 *)

LEMMA Fields ==
    ASSUME NEW f1, NEW f2, NEW f3, NEW f4, NEW f5, NEW f6, NEW f7, NEW f8, NEW f9, NEW f10,
           NEW w,
           w = [step |-> f1, request |-> f2, perGPU |-> f3, bonus |-> f4, score |-> f5,
                todo |-> f6, best |-> f7, bestId |-> f8, numa |-> f9, still |-> f10]
    PROVE  /\ w.step = f1 /\ w.request = f2 /\ w.perGPU = f3 /\ w.bonus = f4 /\ w.score = f5
           /\ w.todo = f6 /\ w.best = f7 /\ w.bestId = f8 /\ w.numa = f9 /\ w.still = f10
  OBVIOUS

\* What holds of worker n with the record w in the cycle.
Good(n, w) == /\ Bounded(n, w)
              /\ Rated(cycle.pod, cycle.tier, n, w)
              /\ Leads(cycle.pod, gangState, n, w)

\* The worker has a pod, whose annotation is a number.
LEMMA WorkerContext ==
    ASSUME Types, Working, NEW n \in Nodes, NEW step, At(n, step)
    PROVE  /\ cycle.pod \in Pods /\ pod[cycle.pod].note \in Nat
           /\ IsWork(work[n]) /\ Good(n, work[n]) /\ work[n].step = step
           /\ \A w : work' = [work EXCEPT ![n] = w] =>
                work'[n] = w /\ \A m \in Nodes : m # n => work'[m] = work[m]
<1>1. cycle.phase = "score" /\ work[n].step = step
    BY DEF At
<1>2. cycle.pod \in Pods
    BY <1>1 DEF Types
<1>3. pod[cycle.pod] \in PodRecord
    BY <1>2 DEF Types
<1>4. pod[cycle.pod].note \in Nat
    BY <1>3 DEF PodRecord
<1>5. IsWork(work[n]) /\ DOMAIN work = Nodes
    BY DEF Types
<1>6. Good(n, work[n])
    BY <1>1, Zenon DEF Working, Good
<1>7. \A w : work' = [work EXCEPT ![n] = w] =>
                work'[n] = w /\ \A m \in Nodes : m # n => work'[m] = work[m]
    BY <1>5
<1>8. QED
    BY <1>1, <1>2, <1>4, <1>5, <1>6, <1>7

LEMMA VRAMStep ==
    ASSUME Types, Seen, Working, NEW n \in Nodes, ScoreVRAM(n)
    PROVE  /\ Good(n, work'[n])
           /\ \A m \in Nodes : m # n => work'[m] = work[m]
<1> DEFINE v == work[n]
           p == cycle.pod
           request == getVRAMRequest(p, pod[p].note, known)
           perGPU == getNodeGPUVRAM(n, listed)
           w == [v EXCEPT !.step = "topology", !.request = request, !.perGPU = perGPU]
<1>1. At(n, "vram") /\ work' = [work EXCEPT ![n] = w]
    BY Zenon DEF ScoreVRAM, Set
<1>2. /\ p \in Pods /\ pod[p].note \in Nat /\ IsWork(v) /\ Good(n, v) /\ v.step = "vram"
      /\ work'[n] = w /\ \A m \in Nodes : m # n => work'[m] = work[m]
    BY <1>1, WorkerContext, Zenon
<1>3. request \in Nat /\ perGPU \in Nat
    BY <1>2, RequestIsNat, SmallestGPU DEF Seen
<1> HIDE DEF request, perGPU, v
<1>4. w = [step |-> "topology", request |-> request, perGPU |-> perGPU, bonus |-> v.bonus,
           score |-> v.score, todo |-> v.todo, best |-> v.best, bestId |-> v.bestId,
           numa |-> v.numa, still |-> v.still]
    BY <1>2 DEF IsWork
<1> HIDE DEF w
<1>5. /\ w.step = "topology" /\ w.request = request /\ w.perGPU = perGPU
      /\ w.score = v.score /\ w.todo = v.todo /\ w.best = v.best /\ w.bestId = v.bestId
      /\ w.numa = v.numa
    BY <1>4, Fields
<1>6. Bounded(n, w)
    BY <1>2, <1>3, <1>5 DEF Good, Bounded, StepNames
<1>7. Rated(p, cycle.tier, n, w)
    BY <1>5 DEF Rated, Scored
<1>8. Leads(p, gangState, n, w)
    BY <1>2, <1>5 DEF Good, Leads, Choosers
<1>9. QED
    BY <1>2, <1>6, <1>7, <1>8 DEF Good

LEMMA TopologyStep ==
    ASSUME Types, Seen, Working, NEW n \in Nodes, ScoreTopology(n)
    PROVE  /\ Good(n, work'[n])
           /\ \A m \in Nodes : m # n => work'[m] = work[m]
<1> DEFINE v == work[n]
           p == cycle.pod
           gpus == getNodeGPUTopology(n, listed)
           bonus == calculateGPUTopologyBonus(gpus, GpusRequested(p))
           score == VRAMScore(p, n, cycle.tier, v.request, v.perGPU, gpus)
           w == [v EXCEPT !.step = "numa", !.bonus = bonus, !.score = score]
<1>1. At(n, "topology") /\ work' = [work EXCEPT ![n] = w]
    BY Zenon DEF ScoreTopology, Set
<1>2. /\ p \in Pods /\ IsWork(v) /\ Good(n, v) /\ v.step = "topology"
      /\ work'[n] = w /\ \A m \in Nodes : m # n => work'[m] = work[m]
    BY <1>1, WorkerContext, Zenon
<1>3. v.request \in Int /\ v.perGPU \in Int
    BY <1>2 DEF Good, Bounded
<1>4. score \in 0..100
    BY <1>2, <1>3, RatingRange, Zenon
<1> HIDE DEF v, score, bonus
<1>5. w = [step |-> "numa", request |-> v.request, perGPU |-> v.perGPU, bonus |-> bonus,
           score |-> score, todo |-> v.todo, best |-> v.best, bestId |-> v.bestId,
           numa |-> v.numa, still |-> v.still]
    BY <1>2 DEF IsWork
<1> HIDE DEF w
<1>6. /\ w.step = "numa" /\ w.request = v.request /\ w.perGPU = v.perGPU /\ w.bonus = bonus
      /\ w.score = score /\ w.todo = v.todo /\ w.best = v.best /\ w.bestId = v.bestId
      /\ w.numa = v.numa
    BY <1>5, Fields
<1>7. Bounded(n, w)
    BY <1>2, <1>4, <1>6 DEF Good, Bounded, StepNames
<1>8. Rated(p, cycle.tier, n, w)
  <2>1. listed \in SUBSET Slices
    BY DEF Seen
  <2>2. /\ w.bonus = calculateGPUTopologyBonus(getNodeGPUTopology(n, listed), GpusRequested(p))
        /\ w.score = VRAMScore(p, n, cycle.tier, w.request, w.perGPU,
                               getNodeGPUTopology(n, listed))
    BY <1>6 DEF bonus, score
  <2>3. QED
    BY <2>1, <2>2, Zenon DEF Rated
<1>9. Leads(p, gangState, n, w)
    BY <1>2, <1>6 DEF Good, Leads, Choosers
<1>10. QED
    BY <1>2, <1>7, <1>8, <1>9 DEF Good

\* A worker that keeps what it has read keeps its rating.
LEMMA RatingKept ==
    ASSUME NEW p, NEW tier, NEW n, NEW v, NEW w, Rated(p, tier, n, v), v.step \in Scored,
           w.request = v.request, w.perGPU = v.perGPU, w.bonus = v.bonus, w.score = v.score
    PROVE  Rated(p, tier, n, w)
  BY Zenon DEF Rated

LEMMA BeginStep ==
    ASSUME Types, Seen, Working, NEW n \in Nodes, NumaBegin(n)
    PROVE  /\ Good(n, work'[n])
           /\ \A m \in Nodes : m # n => work'[m] = work[m]
<1> DEFINE v == work[n]
           p == cycle.pod
           done(s) == [[v EXCEPT !.step = "done"] EXCEPT !.numa = s]
           look == [[v EXCEPT !.step = "done"] EXCEPT !.step = "lookup", !.todo = Eligible(p, n)]
<1>1. /\ At(n, "numa")
      /\ \E w \in {done(NeutralScore), done(CrossScore), look} : work' = [work EXCEPT ![n] = w]
    BY Zenon DEF NumaBegin, Set
<1>2. PICK w \in {done(NeutralScore), done(CrossScore), look} : work' = [work EXCEPT ![n] = w]
    BY <1>1
<1>3. /\ IsWork(v) /\ Good(n, v) /\ v.step = "numa"
      /\ work'[n] = w /\ \A m \in Nodes : m # n => work'[m] = work[m]
    BY <1>1, <1>2, WorkerContext, Zenon
<1>4. v.step \in Scored
    BY <1>3 DEF Scored
<1> HIDE DEF v
<1>5. ASSUME NEW s \in 0..100, w = done(s)
      PROVE  Good(n, w)
  <2>1. w = [step |-> "done", request |-> v.request, perGPU |-> v.perGPU, bonus |-> v.bonus,
             score |-> v.score, todo |-> v.todo, best |-> v.best, bestId |-> v.bestId,
             numa |-> s, still |-> v.still]
    BY <1>3, <1>5 DEF IsWork
  <2>2. /\ w.step = "done" /\ w.request = v.request /\ w.perGPU = v.perGPU
        /\ w.bonus = v.bonus /\ w.score = v.score /\ w.todo = v.todo /\ w.best = v.best
        /\ w.bestId = v.bestId /\ w.numa = s
    BY <2>1, Fields
  <2>3. Bounded(n, w)
    BY <1>3, <2>2 DEF Good, Bounded, StepNames
  <2>4. Rated(p, cycle.tier, n, w)
    BY <1>3, <1>4, <2>2, RatingKept, Zenon DEF Good
  <2>5. Leads(p, gangState, n, w)
    BY <2>2 DEF Leads, Choosers
  <2>6. QED
    BY <2>3, <2>4, <2>5 DEF Good
<1>6. ASSUME w = look
      PROVE  Good(n, w)
  <2>1. w = [step |-> "lookup", request |-> v.request, perGPU |-> v.perGPU,
             bonus |-> v.bonus, score |-> v.score, todo |-> Eligible(p, n),
             best |-> v.best, bestId |-> v.bestId, numa |-> v.numa, still |-> v.still]
    BY <1>3, <1>6 DEF IsWork
  <2>2. /\ w.step = "lookup" /\ w.request = v.request /\ w.perGPU = v.perGPU
        /\ w.bonus = v.bonus /\ w.score = v.score /\ w.todo = Eligible(p, n)
        /\ w.best = v.best /\ w.bestId = v.bestId /\ w.numa = v.numa
    BY <2>1, Fields
  <2>3. Eligible(p, n) \subseteq parseNUMATopology(n)
    BY DEF Eligible
  <2>4. Bounded(n, w)
    BY <1>3, <2>2, <2>3 DEF Good, Bounded, StepNames
  <2>5. Rated(p, cycle.tier, n, w)
    BY <1>3, <1>4, <2>2, RatingKept, Zenon DEF Good
  <2>6. v.bestId = NoNuma
    BY <1>3 DEF Good, Leads
  <2>7. Leads(p, gangState, n, w)
    BY <2>2, <2>6 DEF Leads, Choosers
  <2>8. QED
    BY <2>4, <2>5, <2>7 DEF Good
<1>7. NeutralScore \in 0..100 /\ CrossScore \in 0..100
    BY DEF NeutralScore, CrossScore
<1>8. w = done(NeutralScore) \/ w = done(CrossScore) \/ w = look
    OBVIOUS
<1> HIDE DEF done, look, Good
<1>9. Good(n, w)
  <2>1. CASE w = done(NeutralScore)
    BY <1>5, <1>7, <2>1, Zenon
  <2>2. CASE w = done(CrossScore)
    BY <1>5, <1>7, <2>2, Zenon
  <2>3. QED
    BY <1>6, <1>8, <2>1, <2>2, Zenon
<1>10. QED
    BY <1>3, <1>9, Zenon

\* What a worker's record is after it has weighed a NUMA node.
LEMMA WeighedRecord ==
    ASSUME NEW n, NEW gang, IsWork(work[n])
    PROVE  LET v == work[n]
               w == Weighed(n, gang)
               i == Current(n)
               total == Capped(Total(cycle.pod, n, i, gang))
               best == Max({v.best, total})
               bestId == IF total > v.best THEN i ELSE v.bestId
           IN  /\ w.request = v.request /\ w.perGPU = v.perGPU /\ w.bonus = v.bonus
               /\ w.score = v.score /\ w.still = v.still
               /\ w.todo = v.todo \ {i} /\ w.best = best /\ w.bestId = bestId
               /\ w.numa = IF v.todo # {i} THEN 0
                           ELSE IF bestId = NoNuma THEN CrossScore ELSE best \div Point
               /\ w.step = IF v.todo # {i} THEN "lookup"
                           ELSE IF bestId = NoNuma THEN "done" ELSE "record"
<1> DEFINE v == work[n]
           i == Current(n)
           total == Capped(Total(cycle.pod, n, i, gang))
           best == Max({v.best, total})
           bestId == IF total > v.best THEN i ELSE v.bestId
           numa == IF v.todo # {i} THEN 0
                   ELSE IF bestId = NoNuma THEN CrossScore ELSE best \div Point
           step == IF v.todo # {i} THEN "lookup"
                   ELSE IF bestId = NoNuma THEN "done" ELSE "record"
           w == Weighed(n, gang)
<1>1. w = [v EXCEPT !.todo = @ \ {i}, !.best = best, !.bestId = bestId,
                    !.numa = numa, !.step = step]
    BY Zenon DEF Weighed
<1> HIDE DEF v, i, total, best, bestId, numa, step, w
<1>2. w = [step |-> step, request |-> v.request, perGPU |-> v.perGPU,
           bonus |-> v.bonus, score |-> v.score, todo |-> v.todo \ {i}, best |-> best,
           bestId |-> bestId, numa |-> numa, still |-> v.still]
    BY <1>1 DEF IsWork, v
<1>3. /\ w.step = step /\ w.request = v.request /\ w.perGPU = v.perGPU
      /\ w.bonus = v.bonus /\ w.score = v.score /\ w.todo = v.todo \ {i}
      /\ w.best = best /\ w.bestId = bestId /\ w.numa = numa /\ w.still = v.still
    BY <1>2, Fields
<1>4. QED
    BY <1>3, Zenon DEF v, i, total, best, bestId, numa, step, w

\* A worker that weighs with the gang's affinity, if it is still undisturbed,
\* leads with the best NUMA node so far.
LEMMA WeighedGood ==
    ASSUME Types, NEW n \in Nodes, NEW gang \in Int, cycle.pod \in Pods,
           IsWork(work[n]), Good(n, work[n]), Chosen(cycle.pod, n, work[n]),
           work[n].step \in {"lookup", "iterate"},
           work[n].still => gang = Affinity(cycle.pod, gangState, Current(n))
    PROVE  Good(n, Weighed(n, gang))
<1> DEFINE v == work[n]
           w == Weighed(n, gang)
           p == cycle.pod
           i == Current(n)
           total == Capped(Total(p, n, i, gang))
           best == Max({v.best, total})
           bestId == IF total > v.best THEN i ELSE v.bestId
           worth(k) == Worth(p, gangState, n, k)
           top == 100 * Point
<1>1. /\ w.request = v.request /\ w.perGPU = v.perGPU /\ w.bonus = v.bonus
      /\ w.score = v.score /\ w.still = v.still
      /\ w.todo = v.todo \ {i} /\ w.best = best /\ w.bestId = bestId
      /\ w.numa = IF v.todo # {i} THEN 0
                  ELSE IF bestId = NoNuma THEN CrossScore ELSE best \div Point
      /\ w.step = IF v.todo # {i} THEN "lookup"
                  ELSE IF bestId = NoNuma THEN "done" ELSE "record"
    BY WeighedRecord, Zenon
<1>2. v.todo # {} /\ v.todo \subseteq Eligible(p, n) /\ v.bestId \in Eligible(p, n) \cup {NoNuma}
    BY DEF Chosen
<1>3. i \in v.todo
    BY <1>2, EligibleAreNumbers, LeastIsMember DEF Current
<1>4. i \in Eligible(p, n) /\ Eligible(p, n) \subseteq parseNUMATopology(n)
    BY <1>2, <1>3 DEF Eligible
<1>5. Total(p, n, i, gang) \in Int
    BY <1>4, TotalOfParts
<1>6. total \in 0..top /\ v.best \in 0..top /\ top \in Nat
  <2>1. total \in 0..top
    BY <1>5, CapOfTotal, Zenon
  <2>2. v.best \in 0..top
    BY DEF Good, Bounded
  <2>3. QED
    BY <2>1, <2>2, PointIsNumber
<1>7. v.still => total = worth(i)
    BY Zenon DEF Worth
<1>8. /\ v.still => \A k \in Eligible(p, n) \ v.todo : worth(k) <= v.best
      /\ v.still /\ v.bestId # NoNuma => v.best > 0 /\ worth(v.bestId) = v.best
    BY DEF Good, Leads, Choosers
<1>9. \A k \in Eligible(p, n) : worth(k) \in 0..top
  <2> SUFFICES ASSUME NEW k \in Eligible(p, n) PROVE worth(k) \in 0..top
      OBVIOUS
  <2>1. gangState \in [Gangs -> GangRecord] /\ k \in parseNUMATopology(n)
    BY <1>4 DEF Types
  <2>2. QED
    BY <2>1, WorthRange, Zenon
<1> HIDE DEF total, worth, top
<1>10. best = IF v.best >= total THEN v.best ELSE total
    BY <1>6, LargerOfTwo
<1>11. best \in 0..top /\ best >= v.best /\ best >= total
    BY <1>6, <1>10
<1> HIDE DEF best, v, w, p
<1>12. Bounded(n, w)
  <2>1. best \div Point \in 0..100
    BY <1>11, PointsOfTotal, Zenon DEF top
  <2>2. w.numa \in 0..100
    BY <1>1, <2>1 DEF CrossScore
  <2>3. bestId \in parseNUMATopology(n) \cup {NoNuma}
    BY <1>2, <1>4
  <2>4. w.todo \subseteq parseNUMATopology(n)
    BY <1>1, <1>2, <1>4
  <2>5. w.step \in StepNames
    BY <1>1 DEF StepNames
  <2>6. w.request \in Int /\ w.perGPU \in Int /\ w.score \in 0..100
    BY <1>1 DEF Good, Bounded, v
  <2>7. QED
    BY <1>1, <1>11, <2>2, <2>3, <2>4, <2>5, <2>6 DEF Bounded, top
<1>13. Rated(p, cycle.tier, n, w)
  <2>1. v.step \in Scored /\ Rated(p, cycle.tier, n, v)
    BY DEF Scored, Good, v, p
  <2>2. QED
    BY <1>1, <2>1, RatingKept, Zenon
<1>14. Leads(p, gangState, n, w)
  <2>1. w.step \notin {"vram", "topology", "numa", "iterate"}
    BY <1>1
  <2>2. w.step = "record" => w.todo = {}
    BY <1>1
  <2>3. ASSUME w.still, NEW k \in Eligible(p, n) \ w.todo
        PROVE  worth(k) <= w.best
    <3>1. v.still /\ (k = i \/ k \in Eligible(p, n) \ v.todo)
        BY <1>1, <2>3
    <3>2. CASE k = i
        BY <1>1, <1>7, <1>9, <1>6, <1>10, <3>1, <3>2
    <3>3. CASE k \in Eligible(p, n) \ v.todo
      <4>1. worth(k) <= v.best
          BY <1>8, <3>1, <3>3
      <4>2. worth(k) \in Int /\ v.best \in Int /\ best \in Int /\ v.best <= best
          BY <1>6, <1>9, <1>11
      <4>3. QED
          BY <1>1, <4>1, <4>2
    <3>4. QED
        BY <3>1, <3>2, <3>3
  <2>4. ASSUME w.still, w.bestId # NoNuma
        PROVE  w.best > 0 /\ worth(w.bestId) = w.best
    <3>1. v.still /\ w.bestId = bestId /\ w.best = best
        BY <1>1, <2>4
    <3>2. CASE total > v.best
        BY <1>6, <1>7, <1>10, <3>1, <3>2
    <3>3. CASE ~(total > v.best)
      <4>1. w.bestId = v.bestId /\ best = v.best
          BY <1>6, <1>10, <3>1, <3>3
      <4>2. QED
          BY <1>8, <2>4, <3>1, <4>1
    <3>4. QED
        BY <3>2, <3>3
  <2>5. QED
    BY <2>1, <2>2, <2>3, <2>4 DEF Leads, worth
<1>15. QED
    BY <1>12, <1>13, <1>14 DEF Good, w, p

LEMMA LookupStep ==
    ASSUME Types, Choosing, Seen, Working, NEW n \in Nodes, NumaLookup(n)
    PROVE  /\ Good(n, work'[n])
           /\ \A m \in Nodes : m # n => work'[m] = work[m]
<1> DEFINE v == work[n]
           p == cycle.pod
           w == [v EXCEPT !.step = "iterate"]
<1>1. At(n, "lookup") /\ cycle.phase = "score"
    BY DEF NumaLookup, At
<1>2. /\ p \in Pods /\ IsWork(v) /\ Good(n, v) /\ v.step = "lookup" /\ Chosen(p, n, v)
      /\ \A x : work' = [work EXCEPT ![n] = x] =>
            work'[n] = x /\ \A m \in Nodes : m # n => work'[m] = work[m]
    BY <1>1, WorkerContext, Zenon DEF Choosing
<1>3. CASE Known(p, gangState)
  <2>1. work' = [work EXCEPT ![n] = w]
    BY <1>3, Zenon DEF NumaLookup, Known, Set
  <2>2. work'[n] = w /\ \A m \in Nodes : m # n => work'[m] = work[m]
    BY <1>2, <2>1, Zenon
  <2> HIDE DEF v
  <2>3. w = [step |-> "iterate", request |-> v.request, perGPU |-> v.perGPU,
             bonus |-> v.bonus, score |-> v.score, todo |-> v.todo, best |-> v.best,
             bestId |-> v.bestId, numa |-> v.numa, still |-> v.still]
    BY <1>2 DEF IsWork
  <2> HIDE DEF w
  <2>4. /\ w.step = "iterate" /\ w.request = v.request /\ w.perGPU = v.perGPU
        /\ w.bonus = v.bonus /\ w.score = v.score /\ w.todo = v.todo /\ w.best = v.best
        /\ w.bestId = v.bestId /\ w.numa = v.numa /\ w.still = v.still
    BY <2>3, Fields
  <2>5. Bounded(n, w)
    BY <1>2, <2>4 DEF Good, Bounded, StepNames
  <2>6. Rated(p, cycle.tier, n, w)
    BY <1>2, <2>4, RatingKept DEF Good, Scored
  <2>7. Leads(p, gangState, n, w)
    BY <1>2, <1>3, <2>4 DEF Good, Leads, Choosers
  <2>8. QED
    BY <2>2, <2>5, <2>6, <2>7 DEF Good
<1>4. CASE ~Known(p, gangState)
  <2>1. work' = [work EXCEPT ![n] = Weighed(n, NoGangScore)]
    BY <1>4, Zenon DEF NumaLookup, Known, Set
  <2>2. /\ work'[n] = Weighed(n, NoGangScore)
        /\ \A m \in Nodes : m # n => work'[m] = work[m]
    BY <1>2, <2>1, Zenon
  <2>3. NoGangScore \in Int
    BY PointsAreNumbers DEF NoGangScore
  <2>4. NoGangScore = Affinity(p, gangState, Current(n))
    BY <1>4, Zenon DEF Affinity
  <2>5. v.step \in {"lookup", "iterate"}
    BY <1>2
  <2>6. Good(n, Weighed(n, NoGangScore))
    BY <1>2, <2>3, <2>4, <2>5, WeighedGood, Zenon
  <2>7. QED
    BY <2>2, <2>6 DEF Good
<1>5. QED
    BY <1>3, <1>4

LEMMA IterateStep ==
    ASSUME Types, Choosing, Seen, Working, NEW n \in Nodes, NumaIterate(n)
    PROVE  /\ Good(n, work'[n])
           /\ \A m \in Nodes : m # n => work'[m] = work[m]
<1> DEFINE v == work[n]
           p == cycle.pod
           g == Ask[p].gang
           ids == Recorded(g)
           gang == GangScore(p, gangState[g].policy, ids, Current(n))
<1>1. /\ At(n, "iterate") /\ cycle.phase = "score"
      /\ work' = [work EXCEPT ![n] = Weighed(n, gang)]
    BY Zenon DEF NumaIterate, At, Set
<1>2. /\ p \in Pods /\ IsWork(v) /\ Good(n, v) /\ v.step = "iterate" /\ Chosen(p, n, v)
      /\ work'[n] = Weighed(n, gang)
      /\ \A m \in Nodes : m # n => work'[m] = work[m]
    BY <1>1, WorkerContext, Zenon DEF Choosing
<1>3. gang \in Int
  <2> DEFINE here == {k \in DOMAIN ids : ids[k] = Current(n)}
             spread == IF gangState[g].policy = "" THEN Ask[p].spread ELSE gangState[g].policy
  <2>1. DOMAIN ids = {r \in Pods : gangState[g].members[r] # NoNuma}
    BY Zenon DEF Recorded
  <2>2. here \subseteq Pods
    BY <2>1
  <2>3. Cardinality(here) \in Nat
    BY <2>2, SizeOf
  <2>4. gang = IF DOMAIN ids = {} THEN NoGangScore ELSE SpreadScore(spread, Cardinality(here))
    BY Zenon DEF GangScore
  <2> HIDE DEF here, gang, ids, spread
  <2>5. SpreadScore(spread, Cardinality(here)) \in Int
    BY <2>3, SpreadScores, PointsAreNumbers
  <2>6. NoGangScore \in Int
    BY PointsAreNumbers DEF NoGangScore
  <2>7. QED
    BY <2>4, <2>5, <2>6
<1>4. v.still => gang = Affinity(p, gangState, Current(n))
  <2>1. v.still => Known(p, gangState)
    BY <1>2 DEF Good, Leads, Choosers
  <2>2. QED
    BY <2>1, Zenon DEF Affinity, Recorded
<1> HIDE DEF gang
<1>5. v.step \in {"lookup", "iterate"}
    BY <1>2
<1>6. Good(n, Weighed(n, gang))
    BY <1>2, <1>3, <1>4, <1>5, WeighedGood, Zenon
<1>7. QED
    BY <1>2, <1>6 DEF Good

\* A record ends the lead of every other worker that is choosing.
LEMMA RecordGood ==
    ASSUME Types, Working, NEW n \in Nodes, NumaRecord(n), NEW m \in Nodes
    PROVE  /\ Bounded(m, work'[m])
           /\ Rated(cycle.pod, cycle.tier, m, work'[m])
           /\ \A s : Leads(cycle.pod, s, m, work'[m])
<1> DEFINE v == work[m]
           p == cycle.pod
           still == v.still /\ v.step \notin Choosers
           done == [v EXCEPT !.step = "done"]
           overtaken == [v EXCEPT !.still = still]
<1>1. cycle.phase = "score" /\ work[n].step = "record"
    BY DEF NumaRecord, At
<1>2. IsWork(v) /\ Bounded(m, v) /\ Rated(p, cycle.tier, m, v) /\ Leads(p, gangState, m, v)
  <2>1. IsWork(v)
    BY DEF Types
  <2>2. QED
    BY <1>1, <2>1, Zenon DEF Working
<1>3. work' = [k \in Nodes |->
         IF k = n THEN [work[k] EXCEPT !.step = "done"]
         ELSE [work[k] EXCEPT !.still = @ /\ work[k].step \notin Choosers]]
    BY Zenon DEF NumaRecord, Choosers
<1>4. work'[m] = IF m = n THEN done ELSE overtaken
    BY <1>3
<1> HIDE DEF v, still
<1>5. ASSUME m = n
      PROVE  /\ Bounded(m, work'[m]) /\ Rated(p, cycle.tier, m, work'[m])
             /\ \A s : Leads(p, s, m, work'[m])
  <2> DEFINE w == done
  <2>1. w = [step |-> "done", request |-> v.request, perGPU |-> v.perGPU,
             bonus |-> v.bonus, score |-> v.score, todo |-> v.todo, best |-> v.best,
             bestId |-> v.bestId, numa |-> v.numa, still |-> v.still]
    BY <1>2 DEF IsWork
  <2>2. work'[m] = w
    BY <1>4, <1>5
  <2> HIDE DEF w
  <2>3. /\ w.step = "done" /\ w.request = v.request /\ w.perGPU = v.perGPU
        /\ w.bonus = v.bonus /\ w.score = v.score /\ w.todo = v.todo /\ w.best = v.best
        /\ w.bestId = v.bestId /\ w.numa = v.numa
    BY <2>1, Fields
  <2>4. Bounded(m, w)
    BY <1>2, <2>3 DEF Bounded, StepNames
  <2>5. v.step \in Scored
    BY <1>1, <1>5 DEF v, Scored
  <2>6. Rated(p, cycle.tier, m, w)
    BY <1>2, <2>3, <2>5, RatingKept, Zenon
  <2>7. \A s : Leads(p, s, m, w)
    BY <2>3 DEF Leads, Choosers
  <2>8. QED
    BY <2>2, <2>4, <2>6, <2>7
<1>6. ASSUME m # n
      PROVE  /\ Bounded(m, work'[m]) /\ Rated(p, cycle.tier, m, work'[m])
             /\ \A s : Leads(p, s, m, work'[m])
  <2> DEFINE w == overtaken
  <2>1. w = [step |-> v.step, request |-> v.request, perGPU |-> v.perGPU,
             bonus |-> v.bonus, score |-> v.score, todo |-> v.todo, best |-> v.best,
             bestId |-> v.bestId, numa |-> v.numa, still |-> still]
    BY <1>2 DEF IsWork
  <2>2. work'[m] = w
    BY <1>4, <1>6
  <2> HIDE DEF w
  <2>3. /\ w.step = v.step /\ w.request = v.request /\ w.perGPU = v.perGPU
        /\ w.bonus = v.bonus /\ w.score = v.score /\ w.todo = v.todo /\ w.best = v.best
        /\ w.bestId = v.bestId /\ w.numa = v.numa /\ w.still = still
    BY <2>1, Fields
  <2>4. Bounded(m, w)
    BY <1>2, <2>3 DEF Bounded
  <2>5. Rated(p, cycle.tier, m, w)
    BY <1>2, <2>3, Zenon DEF Rated
  <2>6. ~(w.step \in Choosers /\ w.still)
    BY <2>3 DEF still
  <2>7. \A s : Leads(p, s, m, w)
    BY <1>2, <2>3, <2>6, Zenon DEF Leads
  <2>8. QED
    BY <2>2, <2>4, <2>5, <2>7
<1>7. QED
    BY <1>5, <1>6

\* A worker that has done nothing yet.
LEMMA Fresh ==
    ASSUME NEW w, w = Idle \/ w = [Idle EXCEPT !.step = "vram"], NEW n \in Nodes
    PROVE  /\ Bounded(n, w)
           /\ \A p, tier, s : Rated(p, tier, n, w) /\ Leads(p, s, n, w)
<1>1. PICK step \in {"idle", "vram"} :
        w = [step |-> step, request |-> 0, perGPU |-> 0, bonus |-> 0, score |-> 0,
             todo |-> {}, best |-> 0, bestId |-> NoNuma, numa |-> 0, still |-> TRUE]
    BY DEF Idle
<1>2. /\ w.step = step /\ w.request = 0 /\ w.perGPU = 0 /\ w.score = 0 /\ w.todo = {}
      /\ w.best = 0 /\ w.bestId = NoNuma /\ w.numa = 0
    BY <1>1, Fields
<1>3. w.step \notin Scored /\ w.step \notin Choosers /\ w.step # "record"
    BY <1>2 DEF Scored, Choosers
<1>4. 0 \in 0..(100 * Point)
    BY PointIsNumber
<1>5. Bounded(n, w)
    BY <1>2, <1>4 DEF Bounded, StepNames
<1>6. QED
    BY <1>2, <1>3, <1>5 DEF Rated, Leads

LEMMA GoodSteps ==
    ASSUME Types, Choosing, Seen, Working, NEW n \in Nodes, WorkerStep(n)
    PROVE  \A m \in Nodes : Good(m, work'[m])
<1>1. Good(n, work'[n]) /\ \A m \in Nodes : m # n => work'[m] = work[m]
    BY VRAMStep, TopologyStep, BeginStep, LookupStep, IterateStep, Zenon DEF WorkerStep
<1>2. cycle.phase = "score"
    BY WorkerSteps
<1>3. \A m \in Nodes : Good(m, work[m])
    BY <1>2, Zenon DEF Working, Good
<1>4. QED
    BY <1>1, <1>3, Zenon

LEMMA SeenKept ==
    ASSUME Seen, [Next]_vars
    PROVE  Seen'
<1>1. Fault => faults' \in 0..MaxFaults
    BY GpuSchedulingAssumption DEF GpuSchedulingAssumption, Fault, Seen
<1>2. faults' = faults => faults' \in 0..MaxFaults
    BY DEF Seen
<1>3. ASSUME known' \subseteq Templates, listed' \subseteq Slices, Fault \/ faults' = faults
      PROVE  Seen'
    BY <1>1, <1>2, <1>3 DEF Seen
<1>4. known \subseteq Templates /\ listed \subseteq Slices
    BY DEF Seen
<1>5. ASSUME NEW p \in Pods, AdmitCall(p) \/ AdmitStore(p) \/ BeginCycle(p) \/ Recreate(p)
      PROVE  Seen'
  <2>1. known' = known /\ listed' = listed /\ (Fault \/ faults' = faults)
    BY <1>5, Zenon DEF AdmitCall, AdmitStore, BeginCycle, Recreate
  <2>2. QED
    BY <1>3, <1>4, <2>1
<1>6. ASSUME NEW t \in Templates, TemplateSeen(t)
      PROVE  Seen'
    BY <1>3, <1>4, <1>6 DEF TemplateSeen
<1>7. ASSUME NEW s \in Slices, SliceAdded(s) \/ SliceRemoved(s)
      PROVE  Seen'
    BY <1>3, <1>4, <1>7 DEF SliceAdded, SliceRemoved
<1>8. ASSUME NEW n \in Nodes, Filter(n) \/ WorkerStep(n) \/ NumaRecord(n) \/ Select(n)
      PROVE  Seen'
  <2>1. UNCHANGED <<known, listed, faults>>
    BY <1>8 DEF Filter, WorkerStep, ScoreVRAM, ScoreTopology, NumaBegin, NumaLookup,
                NumaIterate, NumaRecord, Select
  <2>2. QED
    BY <1>3, <1>4, <2>1
<1>9. CASE BeginScore \/ Unschedulable \/ Relabel \/ Crash \/ UNCHANGED vars
  <2>1. known' = known /\ listed' = listed /\ (Fault \/ faults' = faults)
    BY <1>9 DEF BeginScore, Unschedulable, Relabel, Crash, vars
  <2>2. QED
    BY <1>3, <1>4, <2>1
<1>10. QED
    BY <1>5, <1>6, <1>7, <1>8, <1>9 DEF Next, WorkerStep

\* The workers rate and choose as they do whoever goes on.
LEMMA WorkingKept ==
    ASSUME Types, Choosing, Seen, Working, [Next]_vars
    PROVE  Working'
<1>1. ASSUME cycle' = cycle, work' = work, gangState' = gangState
      PROVE  Working'
    BY <1>1, Zenon DEF Working
<1>2. ASSUME \A n \in Nodes : work'[n] = Idle, cycle'.phase # "score"
      PROVE  Working'
  <2>1. \A n \in Nodes : Bounded(n, work'[n])
    BY <1>2, Fresh
  <2>2. Idle.step = "idle"
    BY DEF Idle
  <2>3. QED
    BY <1>2, <2>1, <2>2 DEF Working, Bounded
<1>3. ASSUME cycle.phase # "score", cycle'.phase # "score", work' = work
      PROVE  Working'
    BY <1>3, Zenon DEF Working, Bounded
<1>4. ASSUME cycle.phase = "score", cycle' = cycle,
             \A n \in Nodes : /\ Bounded(n, work'[n])
                              /\ Rated(cycle.pod, cycle.tier, n, work'[n])
                              /\ Leads(cycle.pod, gangState', n, work'[n])
      PROVE  Working'
    BY <1>4, Zenon DEF Working
<1>5. ASSUME NEW p \in Pods, AdmitCall(p) \/ AdmitStore(p) \/ Recreate(p)
      PROVE  Working'
    BY <1>1, <1>5, PodSteps
<1>6. CASE InformerStep \/ Relabel \/ UNCHANGED vars
    BY <1>1, <1>6, InformerSteps, RelabelStep
<1>7. ASSUME NEW p \in Pods, BeginCycle(p)
      PROVE  Working'
  <2>1. cycle = NoCycle /\ work' = work
    BY <1>7 DEF BeginCycle
  <2>2. cycle.phase = "none"
    BY <2>1 DEF NoCycle
  <2>3. \E told, tier : cycle' = [NoCycle EXCEPT !.pod = p, !.phase = "filter",
                                     !.todo = Nodes, !.told = told, !.tier = tier]
    BY <1>7, Zenon DEF BeginCycle
  <2>4. cycle'.phase = "filter"
    BY <2>3 DEF NoCycle
  <2>5. QED
    BY <1>3, <2>1, <2>2, <2>4
<1>8. ASSUME NEW n \in Nodes, Filter(n)
      PROVE  Working'
  <2>1. cycle.phase = "filter" /\ work' = work
    BY <1>8 DEF Filter
  <2>2. \E passed, informed :
          cycle' = [cycle EXCEPT !.todo = @ \ {n}, !.passed = passed, !.informed = informed]
    BY <1>8 DEF Filter
  <2>3. cycle'.phase = cycle.phase
    BY <2>2 DEF Types, CycleRecord
  <2>4. QED
    BY <1>3, <2>1, <2>3
<1>9. CASE BeginScore
  <2> DEFINE v == [Idle EXCEPT !.step = "vram"]
  <2>1. \A n \in Nodes : work'[n] = v \/ work'[n] = Idle
    BY <1>9 DEF BeginScore
  <2>2. cycle' = [cycle EXCEPT !.phase = "score"]
    BY <1>9 DEF BeginScore
  <2>3. cycle'.phase = "score"
    BY <2>2 DEF Types, CycleRecord
  <2>4. \A n \in Nodes : /\ Bounded(n, work'[n])
                         /\ Rated(cycle'.pod, cycle'.tier, n, work'[n])
                         /\ Leads(cycle'.pod, gangState', n, work'[n])
    BY <2>1, Fresh, Zenon
  <2>5. QED
    BY <2>3, <2>4, Zenon DEF Working
<1>10. CASE Unschedulable
  <2>1. cycle.phase = "filter" /\ work' = work /\ cycle' = NoCycle
    BY <1>10 DEF Unschedulable
  <2>2. cycle'.phase = "none"
    BY <2>1 DEF NoCycle
  <2>3. QED
    BY <1>3, <2>1, <2>2
<1>11. ASSUME NEW n \in Nodes, WorkerStep(n)
       PROVE  Working'
  <2>1. UNCHANGED <<cycle, gangState>> /\ cycle.phase = "score"
    BY <1>11, WorkerSteps
  <2>2. \A m \in Nodes : Good(m, work'[m])
    BY <1>11, GoodSteps
  <2>3. QED
    BY <1>4, <2>1, <2>2, Zenon DEF Good
<1>12. ASSUME NEW n \in Nodes, NumaRecord(n)
       PROVE  Working'
  <2>1. cycle' = cycle /\ cycle.phase = "score"
    BY <1>12 DEF NumaRecord, At
  <2>2. QED
    BY <1>4, <1>12, <2>1, RecordGood, Zenon
<1>13. CASE Crash \/ \E n \in Nodes : Select(n)
  <2>1. cycle' = NoCycle /\ work' = [m \in Nodes |-> Idle]
    BY <1>13 DEF Crash, Select
  <2>2. cycle'.phase = "none"
    BY <2>1 DEF NoCycle
  <2>3. QED
    BY <1>2, <2>1, <2>2
<1>14. QED
    BY <1>5, <1>6, <1>7, <1>8, <1>9, <1>10, <1>11, <1>12, <1>13
    DEF Next, WorkerStep, InformerStep

\* What is stored of a pod when it gets its node.
LEMMA Placing ==
    ASSUME Types, NEW n \in Nodes, Select(n)
    PROVE  /\ n \in cycle.passed /\ cycle.phase # "none" /\ cycle.pod \in Pods
           /\ pod'[cycle.pod].node = n /\ pod'[cycle.pod].sure = (n \in cycle.informed)
           /\ pod'[cycle.pod].note = pod[cycle.pod].note
<1> DEFINE p == cycle.pod
           sure == n \in cycle.informed
<1>1. n \in cycle.passed /\ cycle.phase # "none"
    BY DEF Select
<1>2. p \in Pods /\ pod[p] \in PodRecord
    BY <1>1 DEF Types
<1>3. pod' = [pod EXCEPT ![p].stage = "placed", ![p].node = n, ![p].sure = sure]
    BY Zenon DEF Select
<1> HIDE DEF sure
<1>4. pod'[p] = [pod[p] EXCEPT !.stage = "placed", !.node = n, !.sure = sure]
    BY <1>2, <1>3 DEF Types
<1>5. pod'[p].node = n /\ pod'[p].sure = sure /\ pod'[p].note = pod[p].note
    BY <1>2, <1>4 DEF PodRecord
<1>6. QED
    BY <1>1, <1>2, <1>5 DEF sure

\* The nodes of which the cycle is sure hold the request, and so do those of
\* the pods that were placed that way.
LEMMA InformedKept ==
    ASSUME Types, Seen, Informed, [Next]_vars
    PROVE  Informed'
<1>1. ASSUME cycle' = cycle, pod' = pod
      PROVE  Informed'
    BY <1>1, Zenon DEF Informed, Holds
<1>2. ASSUME cycle'.phase = "none", pod' = pod
      PROVE  Informed'
    BY <1>2, Zenon DEF Informed, Holds
<1>3. ASSUME NEW p \in Pods, AdmitCall(p) \/ AdmitStore(p) \/ Recreate(p)
      PROVE  Informed'
  <2>1. /\ pod' \in [Pods -> PodRecord] /\ cycle' = cycle /\ pod[p].stage # "pending"
        /\ \A q \in Pods : q # p => pod'[q] = pod[q]
    BY <1>3, PodSteps
  <2>2. pod'[p].stage # "placed"
    <3>1. CASE AdmitCall(p)
        BY <3>1, CallStep
    <3>2. CASE AdmitStore(p)
        BY <3>2 DEF AdmitStore, Types, PodRecord
    <3>3. CASE Recreate(p)
        BY <3>3 DEF Recreate, Types, NewPod
    <3>4. QED
        BY <1>3, <3>1, <3>2, <3>3
  <2>3. cycle.phase # "none" => cycle.pod \in Pods /\ pod'[cycle.pod] = pod[cycle.pod]
    BY <2>1 DEF Types
  <2>4. QED
    BY <2>1, <2>2, <2>3, Zenon DEF Informed, Holds
<1>4. CASE Relabel
  <2>1. cycle' = cycle
    BY <1>4 DEF Relabel
  <2>2. ASSUME NEW p \in Pods
        PROVE  /\ pod'[p].stage = pod[p].stage /\ pod'[p].note = pod[p].note
               /\ pod'[p].node = pod[p].node /\ pod'[p].sure = pod[p].sure
    <3>1. pod'[p] = pod[p] \/ pod'[p] = [pod[p] EXCEPT !.since = FALSE]
        BY <1>4 DEF Relabel
    <3>2. pod[p] \in PodRecord
        BY DEF Types
    <3>3. QED
        BY <3>1, <3>2 DEF PodRecord
  <2>3. cycle.phase # "none" => cycle.pod \in Pods
    BY DEF Types
  <2>4. QED
    BY <2>1, <2>2, <2>3, Zenon DEF Informed, Holds
<1>5. ASSUME NEW p \in Pods, BeginCycle(p)
      PROVE  Informed'
  <2>1. pod' = pod
    BY <1>5 DEF BeginCycle
  <2>2. \E told, tier : cycle' = [NoCycle EXCEPT !.pod = p, !.phase = "filter",
                                     !.todo = Nodes, !.told = told, !.tier = tier]
    BY <1>5, Zenon DEF BeginCycle
  <2>3. cycle'.informed = {}
    BY <2>2 DEF NoCycle
  <2>4. QED
    BY <2>1, <2>3, Zenon DEF Informed, Holds
<1>6. ASSUME NEW n \in Nodes, Filter(n)
      PROVE  Informed'
  <2> DEFINE p == cycle.pod
             ok == /\ Admits(p, n) /\ VRAMFilter(p, n, pod[p].note, known, listed)
                   /\ NUMAFilter(p, n)
             passed == IF ok THEN cycle.passed \cup {n} ELSE cycle.passed
             informed == IF ok /\ FullyInformed(p, n) THEN cycle.informed \cup {n}
                         ELSE cycle.informed
  <2>1. cycle.phase = "filter" /\ pod' = pod
    BY <1>6 DEF Filter
  <2>2. cycle' = [cycle EXCEPT !.todo = @ \ {n}, !.passed = passed, !.informed = informed]
    BY <1>6, Zenon DEF Filter
  <2>3. p \in Pods /\ pod[p] \in PodRecord
    BY <2>1 DEF Types
  <2>4. pod[p].note \in Nat
    BY <2>3 DEF PodRecord
  <2>5. ok /\ FullyInformed(p, n) => Holds(p, n, pod[p].note)
    BY <2>3, <2>4, HoldsInFull DEF Seen
  <2>6. \A m \in informed : Holds(p, m, pod[p].note)
    <3> HIDE DEF ok, p
    <3>1. \A m \in cycle.informed : Holds(p, m, pod[p].note)
        BY <2>1 DEF Informed, p
    <3>2. QED
        BY <2>5, <3>1
  <2> HIDE DEF informed, passed
  <2>7. cycle'.phase = cycle.phase /\ cycle'.pod = p /\ cycle'.informed = informed
    BY <2>2 DEF Types, CycleRecord
  <2>8. QED
    BY <2>1, <2>6, <2>7, Zenon DEF Informed, Holds
<1>7. CASE BeginScore
  <2>1. cycle' = [cycle EXCEPT !.phase = "score"] /\ pod' = pod /\ cycle.phase = "filter"
    BY <1>7 DEF BeginScore
  <2>2. cycle'.pod = cycle.pod /\ cycle'.informed = cycle.informed /\ cycle.phase # "none"
    BY <2>1 DEF Types, CycleRecord
  <2>3. QED
    BY <2>1, <2>2, Zenon DEF Informed, Holds
<1>8. CASE Unschedulable \/ Crash
  <2>1. cycle' = NoCycle /\ pod' = pod
    BY <1>8 DEF Unschedulable, Crash
  <2>2. QED
    BY <1>2, <2>1 DEF NoCycle
<1>9. ASSUME NEW n \in Nodes, WorkerStep(n) \/ NumaRecord(n)
      PROVE  Informed'
  <2>1. cycle' = cycle /\ pod' = pod
    BY <1>9 DEF WorkerStep, ScoreVRAM, ScoreTopology, NumaBegin, NumaLookup, NumaIterate,
                NumaRecord
  <2>2. QED
    BY <1>1, <2>1
<1>10. CASE InformerStep \/ UNCHANGED vars
    BY <1>1, <1>10, InformerSteps
<1>11. ASSUME NEW n \in Nodes, Select(n)
       PROVE  Informed'
  <2>1. /\ cycle' = NoCycle
        /\ \A q \in Pods : q # cycle.pod => pod'[q] = pod[q]
    BY <1>11, SelectStep
  <2>2. cycle'.phase = "none"
    BY <2>1 DEF NoCycle
  <2>3. /\ cycle.phase # "none" /\ cycle.pod \in Pods
        /\ pod'[cycle.pod].node = n /\ pod'[cycle.pod].sure = (n \in cycle.informed)
        /\ pod'[cycle.pod].note = pod[cycle.pod].note
    BY <1>11, Placing
  <2>4. pod'[cycle.pod].sure => Holds(cycle.pod, n, pod[cycle.pod].note)
    BY <2>3, Zenon DEF Informed
  <2>5. QED
    BY <2>1, <2>2, <2>3, <2>4, Zenon DEF Informed, Holds
<1>12. QED
    BY <1>3, <1>4, <1>5, <1>6, <1>7, <1>8, <1>9, <1>10, <1>11
    DEF Next, WorkerStep, InformerStep

-----------------------------------------------------------------------------
\* The inductive invariant of the scores and of the VRAM.
ScoringInv == GInv /\ Seen /\ Working /\ Informed

LEMMA ScoringInitially == ASSUME Init PROVE ScoringInv
<1>1. GInv
    BY Initially
<1>2. Seen
    BY GpuSchedulingAssumption DEF Init, Seen, GpuSchedulingAssumption
<1>3. cycle.phase = "none" /\ \A n \in Nodes : work[n] = Idle
    BY DEF Init, NoCycle
<1>4. Working
  <2>1. \A n \in Nodes : Bounded(n, work[n])
    BY <1>3, Fresh
  <2>2. \A n \in Nodes : work[n].step = "idle"
    BY <1>3 DEF Idle
  <2>3. QED
    BY <1>3, <2>1, <2>2 DEF Working
<1>5. Informed
  <2>1. \A p \in Pods : pod[p].stage = "new"
    BY DEF Init, NewPod
  <2>2. QED
    BY <1>3, <2>1 DEF Informed
<1>6. QED
    BY <1>1, <1>2, <1>4, <1>5 DEF ScoringInv

LEMMA ScoringInvHolds == Spec => []ScoringInv
<1>1. Init => ScoringInv
    BY ScoringInitially
<1>2. ScoringInv /\ [Next]_vars => ScoringInv'
    BY TypesKept, ToldKept, ChoosingKept, MembersKept, SeenKept, WorkingKept, InformedKept
    DEF ScoringInv, GInv
<1>3. QED
    BY <1>1, <1>2, PTL DEF Spec

LEMMA NumbersAreNodes == \A i \in Nat : i # NoNuma
  BY DEF NoNuma

\* Every variable keeps its type; among others both plugins return a score from
\* 0 to 100 to the framework, which refuses any other.
THEOREM TypeCorrect == Spec => []TypeOK
<1>1. ScoringInv => TypeOK
  <2> SUFFICES ASSUME ScoringInv PROVE TypeOK
      OBVIOUS
  <2>1. label \in NsTiers /\ known \subseteq Templates /\ listed \subseteq Slices
        /\ faults \in 0..MaxFaults
    BY DEF ScoringInv, GInv, Types, Seen
  <2>2. pod \in [Pods -> PodRecord] /\ cycle \in CycleRecord
        /\ gangState \in [Gangs -> GangRecord]
    BY DEF ScoringInv, GInv, Types
  <2>3. \A g \in Gangs : gangState[g].policy \in Spreads /\ gangState[g].members \in [Pods -> Int]
    BY <2>2 DEF GangRecord
  <2>4. \A n \in Nodes : Bounded(n, work[n])
    BY DEF ScoringInv, Working
  <2>5. \A n \in Nodes :
          /\ work[n].step \in {"idle", "vram", "topology", "numa", "lookup",
                              "iterate", "record", "done"}
          /\ work[n].score \in 0..100 /\ work[n].numa \in 0..100
          /\ work[n].todo \subseteq parseNUMATopology(n)
          /\ work[n].bestId \in parseNUMATopology(n) \cup {NoNuma}
    BY <2>4 DEF Bounded, StepNames
  <2>6. QED
    BY <2>1, <2>2, <2>3, <2>5, Zenon DEF TypeOK, PodRecord, CycleRecord
<1>2. QED
    BY <1>1, ScoringInvHolds, PTL

\* Of two nodes that hold a request on one GPU each, or on several each, that
\* earn the same topology bonus, and of which the one with the larger GPUs has
\* no premium model unless the other has one, VRAMScheduler never scores the
\* one with the smaller GPUs lower, for every tier and every request that both
\* workers read, whatever they read of the slices.
THEOREM TighterFitWins == Spec => []TighterFitNeverScoresLess
<1>1. ScoringInv => TighterFitNeverScoresLess
  <2> SUFFICES ASSUME ScoringInv, NEW m \in Nodes, NEW n \in Nodes,
                      work[m].step \in Scored, work[n].step \in Scored,
                      work[m].request = work[n].request,
                      0 < work[m].perGPU, work[m].perGPU <= work[n].perGPU,
                      work[m].request <= work[m].perGPU * GpusRequested(cycle.pod),
                      (work[m].request > work[m].perGPU) = (work[n].request > work[n].perGPU),
                      work[m].bonus = work[n].bonus, isHighEndGPU(n) => isHighEndGPU(m)
               PROVE  work[m].score >= work[n].score
      BY DEF TighterFitNeverScoresLess, Scored
  <2> DEFINE a == work[m]
             b == work[n]
             p == cycle.pod
  <2>1. cycle.phase = "score"
    BY DEF ScoringInv, Working, Scored
  <2>2. p \in Pods
    BY <2>1 DEF ScoringInv, GInv, Types
  <2>3. /\ Rated(p, cycle.tier, m, a) /\ Rated(p, cycle.tier, n, b)
        /\ a.request \in Int /\ a.perGPU \in Int /\ b.perGPU \in Int
    BY <2>1 DEF ScoringInv, Working, Bounded
  <2>4. PICK sa \in SUBSET Slices :
          /\ a.bonus = calculateGPUTopologyBonus(getNodeGPUTopology(m, sa), GpusRequested(p))
          /\ a.score = VRAMScore(p, m, cycle.tier, a.request, a.perGPU,
                                 getNodeGPUTopology(m, sa))
    BY <2>3, Zenon DEF Rated
  <2>5. PICK sb \in SUBSET Slices :
          /\ b.bonus = calculateGPUTopologyBonus(getNodeGPUTopology(n, sb), GpusRequested(p))
          /\ b.score = VRAMScore(p, n, cycle.tier, b.request, b.perGPU,
                                 getNodeGPUTopology(n, sb))
    BY <2>3, Zenon DEF Rated
  <2> DEFINE ga == getNodeGPUTopology(m, sa)
             gb == getNodeGPUTopology(n, sb)
  <2>6. /\ a.bonus = calculateGPUTopologyBonus(ga, GpusRequested(p))
        /\ a.score = VRAMScore(p, m, cycle.tier, a.request, a.perGPU, ga)
        /\ b.bonus = calculateGPUTopologyBonus(gb, GpusRequested(p))
        /\ b.score = VRAMScore(p, n, cycle.tier, a.request, b.perGPU, gb)
    BY <2>4, <2>5, Zenon
  <2>7. /\ 0 < a.perGPU /\ a.perGPU <= b.perGPU /\ a.request <= a.perGPU * GpusRequested(p)
        /\ (a.request > a.perGPU) <=> (a.request > b.perGPU)
        /\ a.bonus = b.bonus
    BY <2>3
  <2> HIDE DEF a, b, p, ga, gb
  <2>8. calculateGPUTopologyBonus(ga, GpusRequested(p))
          = calculateGPUTopologyBonus(gb, GpusRequested(p))
    BY <2>6, <2>7, Zenon
  <2>9. VRAMScore(p, m, cycle.tier, a.request, a.perGPU, ga)
          >= VRAMScore(p, n, cycle.tier, a.request, b.perGPU, gb)
    BY <2>2, <2>3, <2>7, <2>8, TighterRating, Zenon
  <2>10. a.score >= b.score
    BY <2>6, <2>9, Zenon
  <2>11. QED
    BY <2>10 DEF a, b
<1>2. QED
    BY <1>1, ScoringInvHolds, PTL

\* A worker of NUMATopology passes over a NUMA node that the gang's policy
\* prefers only for one that is better otherwise, unless another worker records
\* a member while it goes through them.
THEOREM SpreadDecides == Spec => []SpreadPolicyDecides
<1>1. ScoringInv => SpreadPolicyDecides
  <2> DEFINE p == cycle.pod
             g == Ask[p].gang
  <2> SUFFICES ASSUME ScoringInv, NEW n \in Nodes, At(n, "record"), work[n].still, g # "",
                      gangState[g].created, NEW i \in Eligible(p, n),
                      Total(p, n, i, 0) >= Total(p, n, work[n].bestId, 0),
                      Total(p, n, i, Points(100)) <= 100 * Point
               PROVE  ~Prefers(p, g, i, work[n].bestId)
      BY Zenon DEF SpreadPolicyDecides
  <2> DEFINE j == work[n].bestId
             worth(k) == Worth(p, gangState, n, k)
  <2>1. cycle.phase = "score" /\ work[n].step = "record"
    BY DEF At
  <2>2. p \in Pods /\ gangState \in [Gangs -> GangRecord]
    BY <2>1 DEF ScoringInv, GInv, Types
  <2>3. j \in Eligible(p, n)
    BY <2>1 DEF ScoringInv, GInv, Choosing, Chosen
  <2>4. i \in parseNUMATopology(n) /\ j \in parseNUMATopology(n)
    BY <2>3 DEF Eligible
  <2>5. j # NoNuma
    BY <2>3, EligibleAreNumbers, NumbersAreNodes, Zenon
  <2>6. Leads(p, gangState, n, work[n])
    BY <2>1, Zenon DEF ScoringInv, Working
  <2>7. i \in Eligible(p, n) \ work[n].todo /\ work[n].step \in Choosers
    BY <2>1, <2>6 DEF Leads, Choosers
  <2>8. worth(i) <= work[n].best /\ work[n].best > 0 /\ worth(j) = work[n].best
    BY <2>5, <2>6, <2>7, Zenon DEF Leads
  <2>9. worth(i) <= worth(j) /\ worth(j) > 0
    BY <2>8, Zenon
  <2>10. Known(p, gangState)
    BY Zenon DEF Known
  <2>11. QED
    BY <2>2, <2>4, <2>9, <2>10, PolicyDecides, Zenon
<1>2. QED
    BY <1>1, ScoringInvHolds, PTL

LEMMA Scaled ==
    ASSUME NEW a \in Int, NEW b \in Nat, NEW k \in Nat, NEW s \in Int,
           a <= b * k, b * k <= s
    PROVE  a <= s
  OBVIOUS

LEMMA Excess ==
    ASSUME NEW a \in Nat, NEW s \in Nat, NEW r \in Nat, NEW x \in Nat,
           NEW o, o = IF s > r THEN s - r ELSE 0, a <= s, r <= x
    PROVE  o \in Nat /\ a <= x + o
  OBVIOUS

LEMMA Shared ==
    ASSUME NEW a \in Nat, NEW b \in Nat, NEW o \in Nat, NEW k \in Nat, a <= b + o
    PROVE  a * k <= b * k + o * k
<1>1. (b + o) * k = b * k + o * k
    BY Z3
<1>2. a * k <= (b + o) * k
    BY Z3
<1>3. QED
    BY <1>1, <1>2, Z3

\* VRAMScheduler.Filter lets a pod onto a node that lists GPUs, once it has the
\* templates and the slices of the node, only if any GPUs of the node that it
\* may get have the VRAM it asks for, less what the slices or labels say too
\* much of each of them, also where their sizes differ.
THEOREM VRAMIsEnough == Spec => []VRAMSuffices
<1>1. ScoringInv => VRAMSuffices
  <2> SUFFICES ASSUME ScoringInv, NEW p \in Pods, pod[p].stage = "placed", pod[p].sure,
                      getNodeGPUTopology(pod[p].node, Slices) # {},
                      NEW gpus \in kSubset(GpusRequested(p), DOMAIN Physical[pod[p].node])
               PROVE  SumFunctionOnSet(Physical[pod[p].node], gpus)
                        + Overstated(pod[p].node) * GpusRequested(p)
                        >= getVRAMRequest(p, pod[p].note, Templates)
      BY Zenon DEF VRAMSuffices
  <2> DEFINE n == pod[p].node
             note == pod[p].note
             request == getVRAMRequest(p, note, Templates)
             perGPU == getNodeGPUVRAM(n, Slices)
             count == GpusRequested(p)
             sum == SumFunctionOnSet(Physical[n], gpus)
             over == Overstated(n)
             shown == {d.vram : d \in getNodeGPUTopology(n, Slices)}
             real == {Physical[n][g] : g \in DOMAIN Physical[n]}
             least == IF perGPU > over THEN perGPU - over ELSE 0
  <2>1. n \in Nodes /\ Holds(p, n, note)
    BY DEF ScoringInv, Informed
  <2>2. pod[p] \in PodRecord
    BY DEF ScoringInv, GInv, Types
  <2>3. note \in Nat
    BY <2>2 DEF PodRecord
  <2>4. request \in Nat
    BY <2>3, RequestIsNat
  <2>5. gpus \in SUBSET DOMAIN Physical[n] /\ Cardinality(gpus) = count
    BY DEF kSubset
  <2>6. IsFiniteSet(gpus) /\ \A g \in DOMAIN Physical[n] : Physical[n][g] \in Nat
    BY <2>1, <2>5, FS_Subset, GpuSchedulingAssumption DEF GpuSchedulingAssumption
  <2>7. perGPU \in Nat /\ \A d \in getNodeGPUTopology(n, Slices) : perGPU <= d.vram
    BY <2>1, SmallestGPU
  <2>8. Min(shown) \in Nat /\ perGPU <= Min(shown)
    <3>1. shown \subseteq Nat /\ shown # {} /\ \A y \in shown : perGPU <= y
        BY <2>1, <2>7, TopologyIsNat
    <3> HIDE DEF shown, perGPU
    <3>2. Min(shown) \in shown
        BY <3>1, LeastIsMember
    <3>3. QED
        BY <3>1, <3>2
  <2>9. over = IF Min(shown) > Min(real) THEN Min(shown) - Min(real) ELSE 0
    BY Zenon DEF Overstated
  <2>10. \A g \in gpus : Physical[n][g] \in Nat /\ over \in Nat /\ perGPU <= Physical[n][g] + over
    <3> SUFFICES ASSUME NEW g \in gpus
                 PROVE  over \in Nat /\ perGPU <= Physical[n][g] + over
        BY <2>5, <2>6
    <3>1. Physical[n][g] \in real /\ real \subseteq Nat
        BY <2>5, <2>6
    <3> HIDE DEF real, shown, perGPU, over
    <3>2. Min(real) \in Nat /\ Min(real) <= Physical[n][g] /\ Physical[n][g] \in Nat
        BY <3>1, LeastIsMember
    <3> DEFINE x == Physical[n][g]
               small == Min(real)
               low == Min(shown)
    <3>3. /\ perGPU \in Nat /\ low \in Nat /\ small \in Nat /\ x \in Nat
          /\ over = (IF low > small THEN low - small ELSE 0)
          /\ perGPU <= low /\ small <= x
        BY <2>7, <2>8, <2>9, <3>2, Zenon
    <3> HIDE DEF x, small, low
    <3>4. over \in Nat /\ perGPU <= x + over
        BY <3>3, Excess
    <3>5. QED
        BY <3>4, Zenon DEF x
  <2>11. count \in Nat /\ count # 0
    BY PodAsks DEF GpusRequested
  <2>12. over \in Nat
    <3> HIDE DEF count, over, perGPU, n
    <3>1. gpus # {}
        BY <2>5, <2>11, FS_EmptySet
    <3>2. QED
        BY <2>10, <3>1
  <2> HIDE DEF perGPU, over
  <2>13. least \in Nat /\ perGPU <= least + over
    BY <2>7, <2>12
  <2>14. \A g \in gpus : Physical[n][g] \in Nat /\ Physical[n][g] >= least
    BY <2>7, <2>10, <2>12
  <2> HIDE DEF least
  <2>15. least * Cardinality(gpus) <= sum /\ sum \in Nat
    <3>1. least * Cardinality(gpus) <= sum
        BY <2>6, <2>13, <2>14, SumAtLeast, Zenon
    <3>2. sum \in Nat
        BY <2>6, <2>14, SumNat, Zenon
    <3>3. QED
        BY <3>1, <3>2
  <2>16. request = 0 \/ request <= perGPU * count
    BY <2>1, Zenon DEF Holds, VRAMFilter, perGPU
  <2> HIDE DEF request, count, sum
  <2>17. perGPU * count <= least * count + over * count
    BY <2>7, <2>11, <2>12, <2>13, Shared
  <2>18. over * count \in Nat /\ least * count \in Nat /\ perGPU * count \in Nat
    BY <2>7, <2>11, <2>12, <2>13
  <2>19. least * count <= sum
    BY <2>5, <2>15, Zenon
  <2>20. request <= sum + over * count
    <3> DEFINE a == perGPU * count
               b == least * count
               c == over * count
    <3>1. /\ a \in Nat /\ b \in Nat /\ c \in Nat /\ a <= b + c /\ b <= sum
          /\ request = 0 \/ request <= a
        BY <2>16, <2>17, <2>18, <2>19, Zenon
    <3> HIDE DEF a, b, c
    <3>2. request <= sum + c
        BY <2>4, <2>15, <3>1
    <3>3. QED
        BY <3>2 DEF c
  <2>21. QED
    <3> DEFINE c == over * count
    <3>1. request <= sum + c /\ c \in Nat
        BY <2>18, <2>20, Zenon
    <3> HIDE DEF c
    <3>2. sum + c >= request
        BY <2>4, <2>15, <3>1
    <3>3. QED
        BY <3>2, Zenon DEF c, request, sum, over, count
<1>2. QED
    BY <1>1, ScoringInvHolds, PTL

=============================================================================
