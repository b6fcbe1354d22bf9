--------------------------- MODULE GpuScheduling ---------------------------
(***************************************************************************)
(* GPU pods on their way through the admission webhook and the scheduling  *)
(* cycle: VRAMScheduler and NUMATopology filter each node and score the    *)
(* ones that are left, a worker goroutine per node.  The workers share     *)
(* NUMATopology's gangState; templates and ResourceSlices come and go in   *)
(* the informers while the cycle runs.                                     *)
(***************************************************************************)
EXTENDS PodMutation, VRAMScheduler, NUMATopology

CONSTANTS Physical,   \* per node: the VRAM of each GPU it really has
          NsName,     \* the name label of the pods' namespace
          NsTiers,    \* the tier labels it may have
          Notes,      \* per pod: values of its VRAM annotation, 0 for none
          Profiled,   \* ProfileClassifier is in the scheduler's profile
          MaxFaults,  \* bound on failed reads, relabellings, losses, crashes
          NoPod, NoNode

Gangs == {Ask[p].gang : p \in Pods} \ {""}

ASSUME GpuSchedulingAssumption ==
    /\ NsTiers \subseteq TierLabels
    /\ NoPod \notin Pods /\ NoNode \notin Nodes
    /\ \A n \in Nodes : /\ IsFiniteSet(DOMAIN Physical[n])
                       /\ \A g \in DOMAIN Physical[n] : Physical[n][g] \in Nat
    /\ (\A p \in Pods : Notes[p] \subseteq Nat) /\ Profiled \in BOOLEAN /\ MaxFaults \in Nat

VARIABLES
    label,      \* the tier label of the pods' namespace
    pod,        \* per pod: how far it is, and what is stored of it
    known,      \* the templates the informer shows
    listed,     \* the ResourceSlices the informer shows
    cycle,      \* the scheduling cycle, one at a time
    work,       \* per node: its worker of the score phase
    gangState,  \* NUMATopology.gangState
    faults

vars == <<label, pod, known, listed, cycle, work, gangState, faults>>

\* A member that is not in AssignedMembers, and bestNUMAID at the start.
NoNuma == -1

NewGang == [created |-> FALSE, policy |-> "none",
            members |-> [p \in Pods |-> NoNuma]]

Idle == [step |-> "idle", request |-> 0, perGPU |-> 0, bonus |-> 0, score |-> 0,
         todo |-> {}, best |-> 0, bestId |-> NoNuma, numa |-> 0, still |-> TRUE]

NoCycle == [pod |-> NoPod, phase |-> "none", tier |-> "none", told |-> FALSE,
            todo |-> {}, passed |-> {}, informed |-> {}]

NewPod == [stage |-> "new", class |-> NoClass, note |-> 0, read |-> "error",
           since |-> TRUE, node |-> NoNode, sure |-> FALSE]

Init ==
    /\ label \in NsTiers
    /\ pod = [p \in Pods |-> NewPod]
    /\ known = {} /\ listed = {}
    /\ cycle = NoCycle
    /\ work = [n \in Nodes |-> Idle]
    /\ gangState = [g \in Gangs |-> NewGang]
    /\ faults = 0

Fault == faults < MaxFaults /\ faults' = faults + 1

-----------------------------------------------------------------------------
(* Admission.                                                              *)

\* The webhook's handler reads the namespace; the read may fail, and so may
\* the whole call (the API server then goes on: failurePolicy Ignore).
AdmitCall(p) ==
    /\ pod[p].stage = "new"
    /\ \E note \in Notes[p], failed \in BOOLEAN :
          /\ IF failed THEN Fault ELSE UNCHANGED faults
          /\ pod' = [pod EXCEPT ![p] =
                [@ EXCEPT !.stage = "admitting", !.note = note, !.since = TRUE,
                          !.read = IF failed THEN "error"
                                   ELSE getNamespaceTier(label)]]
    /\ UNCHANGED <<label, known, listed, cycle, work, gangState>>

\* The API server stores the pod with the patch.
AdmitStore(p) ==
    /\ pod[p].stage = "admitting"
    /\ pod' = [pod EXCEPT ![p].stage = "pending",
                          ![p].class = mutate(p, pod[p].read)]
    /\ UNCHANGED <<label, known, listed, cycle, work, gangState, faults>>

\* The namespace gets another tier label.
Relabel ==
    /\ Fault
    /\ label' \in NsTiers \ {label}
    /\ pod' = [p \in Pods |-> IF pod[p].stage = "new" THEN pod[p]
                              ELSE [pod[p] EXCEPT !.since = FALSE]]
    /\ UNCHANGED <<known, listed, cycle, work, gangState>>

-----------------------------------------------------------------------------
(* The informers.                                                          *)

TemplateSeen(t) ==
    /\ t \notin known
    /\ known' = known \cup {t}
    /\ UNCHANGED <<label, pod, listed, cycle, work, gangState, faults>>

SliceAdded(s) ==
    /\ s \notin listed
    /\ listed' = listed \cup {s}
    /\ UNCHANGED <<label, pod, known, cycle, work, gangState, faults>>

\* The driver withdraws a slice, for instance when it restarts.
SliceRemoved(s) ==
    /\ s \in listed /\ Fault
    /\ listed' = listed \ {s}
    /\ UNCHANGED <<label, pod, known, cycle, work, gangState>>

-----------------------------------------------------------------------------
(* The scheduling cycle.                                                   *)

\* What ProfileClassifier finds in the namespace; Placement tells its two
\* reads apart.
NamespaceTier(p) ==
    LET ns == [tier |-> label, name |-> NsName]
    IN  IF Attr[p].queue /\ getTenantFromKueue(ns) # "unknown"
        THEN getTenantFromKueue(ns) ELSE getTenantFromNamespace(ns)

\* PreFilter classifies the pod; told says that its namespace gave the tier.
\* Without a profile VRAMScheduler takes bronze (getTenantTierFromProfile).
BeginCycle(p) ==
    /\ cycle = NoCycle
    /\ pod[p].stage = "pending"
    /\ \E failed \in BOOLEAN :
          LET told == Profiled /\ ~failed /\ NamespaceTier(p) # "unknown"
          IN  /\ IF failed THEN Profiled /\ Fault ELSE UNCHANGED faults
              /\ cycle' = [NoCycle EXCEPT
                    !.pod = p, !.phase = "filter", !.todo = Nodes, !.told = told,
                    !.tier = IF told THEN NamespaceTier(p)
                             ELSE IF Profiled THEN TierOfPodItself(p)
                             ELSE "bronze"]
    /\ UNCHANGED <<label, pod, known, listed, work, gangState>>

\* NodeResourcesFit and NodeAffinity of the framework.
Admits(p, n) ==
    /\ pod[p].class \in {NoClass, Board[n].class}
    /\ MapThenSumSet(LAMBDA q : Attr[q].gpu,
                     {p} \cup {q \in Pods : pod[q].node = n})
         <= Cardinality(DOMAIN Physical[n])

\* All that VRAMScheduler needs to know of the pod and the node is there.
FullyInformed(p, n) ==
    /\ \A i \in DOMAIN Ask[p].claims :
          Ask[p].claims[i].template \in known \cup {NoTemplate}
    /\ {s \in Slices : s.node = n} \subseteq listed

Filter(n) ==
    LET p == cycle.pod IN
    /\ cycle.phase = "filter" /\ n \in cycle.todo
    /\ LET ok == /\ Admits(p, n)
                 /\ VRAMFilter(p, n, pod[p].note, known, listed)
                 /\ NUMAFilter(p, n)
       IN  cycle' = [cycle EXCEPT
              !.todo = @ \ {n},
              !.passed = IF ok THEN @ \cup {n} ELSE @,
              !.informed = IF ok /\ FullyInformed(p, n) THEN @ \cup {n} ELSE @]
    /\ UNCHANGED <<label, pod, known, listed, work, gangState, faults>>

\* The framework scores only if it has a choice.
BeginScore ==
    /\ cycle.phase = "filter" /\ cycle.todo = {}
    /\ Cardinality(cycle.passed) > 1
    /\ cycle' = [cycle EXCEPT !.phase = "score"]
    /\ work' = [n \in Nodes |-> IF n \in cycle.passed
                                THEN [Idle EXCEPT !.step = "vram"] ELSE Idle]
    /\ UNCHANGED <<label, pod, known, listed, gangState, faults>>

Unschedulable ==
    /\ cycle.phase = "filter" /\ cycle.todo = {} /\ cycle.passed = {}
    /\ cycle' = NoCycle
    /\ UNCHANGED <<label, pod, known, listed, work, gangState, faults>>

\* The worker of node n, at the given step, goes on.
At(n, step) == cycle.phase = "score" /\ work[n].step = step

Set(n, w) == work' = [work EXCEPT ![n] = w]

\* VRAMScheduler.Score: the request and the VRAM per GPU ...
ScoreVRAM(n) ==
    /\ At(n, "vram")
    /\ Set(n, [work[n] EXCEPT
          !.step = "topology",
          !.request = getVRAMRequest(cycle.pod, pod[cycle.pod].note, known),
          !.perGPU = getNodeGPUVRAM(n, listed)])
    /\ UNCHANGED <<label, pod, known, listed, cycle, gangState, faults>>

\* ... and, from a second read, the GPUs.
ScoreTopology(n) ==
    /\ At(n, "topology")
    /\ LET gpus == getNodeGPUTopology(n, listed) IN
       Set(n, [work[n] EXCEPT
          !.step = "numa",
          !.bonus = calculateGPUTopologyBonus(gpus, GpusRequested(cycle.pod)),
          !.score = VRAMScore(cycle.pod, n, cycle.tier, work[n].request,
                              work[n].perGPU, gpus)])
    /\ UNCHANGED <<label, pod, known, listed, cycle, gangState, faults>>

\* NUMATopology.Score: neutral without a policy or without a choice.
NumaBegin(n) ==
    /\ At(n, "numa")
    /\ LET p == cycle.pod
           w == [work[n] EXCEPT !.step = "done"] IN
       Set(n, IF \/ getNUMAPolicy(p) = "none"
                 \/ Cardinality(parseNUMATopology(n)) <= 1
                THEN [w EXCEPT !.numa = NeutralScore]
              ELSE IF Eligible(p, n) = {} THEN [w EXCEPT !.numa = CrossScore]
              ELSE [w EXCEPT !.step = "lookup", !.todo = Eligible(p, n)])
    /\ UNCHANGED <<label, pod, known, listed, cycle, gangState, faults>>

\* The NUMA node that worker n looks at; they come in ascending order.
Current(n) == Min(work[n].todo)

\* The worker of n has the gang score of the NUMA node it looks at.
Weighed(n, gang) ==
    LET w == work[n]
        i == Current(n)
        total == Capped(Total(cycle.pod, n, i, gang))
        best == Max({w.best, total})
        bestId == IF total > w.best THEN i ELSE w.bestId
    IN  [w EXCEPT !.todo = @ \ {i}, !.best = best, !.bestId = bestId,
                  !.numa = IF w.todo # {i} THEN 0
                           ELSE IF bestId = NoNuma THEN CrossScore
                           ELSE best \div Point,
                  !.step = IF w.todo # {i} THEN "lookup"
                           ELSE IF bestId = NoNuma THEN "done"
                           ELSE "record"]

\* calculateGangAffinityScore reads the gang's entry under the read lock ...
NumaLookup(n) ==
    /\ At(n, "lookup")
    /\ LET g == Ask[cycle.pod].gang IN
       IF g # "" /\ gangState[g].created
       THEN Set(n, [work[n] EXCEPT !.step = "iterate"])
       ELSE Set(n, Weighed(n, NoGangScore))
    /\ UNCHANGED <<label, pod, known, listed, cycle, gangState, faults>>

\* The recorded members of gang g.
Recorded(g) ==
    LET members == gangState[g].members
    IN  [q \in {r \in Pods : members[r] # NoNuma} |-> members[q]]

\* ... and goes through its members without it.
NumaIterate(n) ==
    LET g == Ask[cycle.pod].gang IN
    /\ At(n, "iterate")
    /\ Set(n, Weighed(n, GangScore(cycle.pod, gangState[g].policy,
                                   Recorded(g), Current(n))))
    /\ UNCHANGED <<label, pod, known, listed, cycle, gangState, faults>>

\* recordGangPlacement: the first member that is recorded sets the policy.
NumaRecord(n) ==
    LET p == cycle.pod
        g == Ask[p].gang
    IN
    /\ At(n, "record")
    /\ gangState' =
         IF g = "" THEN gangState
         ELSE [gangState EXCEPT
            ![g].created = TRUE,
            ![g].policy = IF gangState[g].created THEN @
                          ELSE IF Ask[p].spread = "none" THEN "packed"
                          ELSE Ask[p].spread,
            ![g].members[p] = work[n].bestId]
    /\ work' = [m \in Nodes |->
         IF m = n THEN [work[m] EXCEPT !.step = "done"]
         ELSE [work[m] EXCEPT !.still =
                 @ /\ work[m].step \notin {"lookup", "iterate", "record"}]]
    /\ UNCHANGED <<label, pod, known, listed, cycle, faults>>

\* One of the nodes is taken: the only one, or one of those with the highest
\* sum over all score plugins, of which these are two.
Select(n) ==
    LET p == cycle.pod IN
    /\ n \in cycle.passed
    /\ \/ cycle.phase = "filter" /\ cycle.todo = {} /\ cycle.passed = {n}
       \/ cycle.phase = "score" /\ \A m \in cycle.passed : work[m].step = "done"
    /\ pod' = [pod EXCEPT ![p].stage = "placed", ![p].node = n,
                          ![p].sure = n \in cycle.informed]
    /\ cycle' = NoCycle
    /\ work' = [m \in Nodes |-> Idle]
    /\ UNCHANGED <<label, known, listed, gangState, faults>>

\* One worker goes through a member map while another one may write it: the
\* Go runtime ends the process when it notices.
Racing == \E m, n \in Nodes : m # n /\ At(m, "iterate") /\ At(n, "record")

\* The scheduler starts again: gangState is empty, the cycle is lost.  (The
\* informers start again too, before the first cycle.)
Crash ==
    /\ IF Racing THEN UNCHANGED faults ELSE Fault
    /\ cycle' = NoCycle
    /\ work' = [n \in Nodes |-> Idle]
    /\ gangState' = [g \in Gangs |-> NewGang]
    /\ UNCHANGED <<label, pod, known, listed>>

\* A placed pod is deleted and its controller makes it anew, by the same
\* name; nothing tells NUMATopology.
Recreate(p) ==
    /\ pod[p].stage = "placed" /\ Fault
    /\ pod' = [pod EXCEPT ![p] = NewPod]
    /\ UNCHANGED <<label, known, listed, cycle, work, gangState>>

-----------------------------------------------------------------------------
Next ==
    \/ \E p \in Pods : \/ AdmitCall(p) \/ AdmitStore(p) \/ BeginCycle(p)
                       \/ Recreate(p)
    \/ \E t \in Templates : TemplateSeen(t)
    \/ \E s \in Slices : SliceAdded(s) \/ SliceRemoved(s)
    \/ \E n \in Nodes : \/ Filter(n) \/ ScoreVRAM(n) \/ ScoreTopology(n)
                        \/ NumaBegin(n) \/ NumaLookup(n) \/ NumaIterate(n)
                        \/ NumaRecord(n) \/ Select(n)
    \/ BeginScore \/ Unschedulable \/ Relabel \/ Crash

Spec == Init /\ [][Next]_vars

-----------------------------------------------------------------------------
(* Properties.                                                             *)

TypeOK ==
    /\ label \in NsTiers
    /\ pod \in [Pods -> [stage: {"new", "admitting", "pending", "placed"},
                         class: GPUClasses \cup {NoClass}, note: Nat,
                         read: TierLabels \cup {"error"}, since: BOOLEAN,
                         node: Nodes \cup {NoNode}, sure: BOOLEAN]]
    /\ known \subseteq Templates /\ listed \subseteq Slices
    /\ cycle \in [pod: Pods \cup {NoPod}, phase: {"none", "filter", "score"},
                  tier: Tiers \cup {"none"}, told: BOOLEAN, todo: SUBSET Nodes,
                  passed: SUBSET Nodes, informed: SUBSET Nodes]
    /\ \A n \in Nodes :
          /\ work[n].step \in {"idle", "vram", "topology", "numa", "lookup",
                              "iterate", "record", "done"}
          /\ work[n].score \in 0..100 /\ work[n].numa \in 0..100
          /\ work[n].todo \subseteq parseNUMATopology(n)
          /\ work[n].bestId \in parseNUMATopology(n) \cup {NoNuma}
    /\ \A g \in Gangs : /\ gangState[g].policy \in Spreads
                        /\ gangState[g].members \in [Pods -> Int]
    /\ faults \in 0..MaxFaults

\* How much smaller the smallest GPU of a node is than the smallest one that
\* its slices or labels list: the tables of device ids and models are
\* approximate.
Overstated(n) ==
    LET shown == Min({d.vram : d \in getNodeGPUTopology(n, Slices)})
        real  == Min({Physical[n][g] : g \in DOMAIN Physical[n]})
    IN  IF shown > real THEN shown - real ELSE 0

\* A pod that was placed when the informers had its templates and all slices
\* of the node finds the VRAM it asks for on whichever GPUs of the node it is
\* given, also where GPUs of two sizes are mixed (VRAMScheduler.Filter).  All
\* that may be missing is what the sources say too much of each GPU.
VRAMSuffices ==
    \A p \in Pods :
        LET n == pod[p].node
        IN  /\ pod[p].stage = "placed" /\ pod[p].sure
            /\ getNodeGPUTopology(n, Slices) # {}
            => \A gpus \in kSubset(GpusRequested(p), DOMAIN Physical[n]) :
                  SumFunctionOnSet(Physical[n], gpus)
                      + Overstated(n) * GpusRequested(p)
                          >= getVRAMRequest(p, pod[p].note, Templates)

\* The webhook and the scheduler agree: a GPU class that the webhook put into
\* the pod is the class of the tier that the scheduler finds in the namespace,
\* unless the label was changed in between, whichever of the reads failed.
AdmissionAgrees ==
    \A p \in Pods :
        cycle.pod = p /\ cycle.told /\ pod[p].since /\ pod[p].class # Ask[p].class
            => pod[p].class = getTierGPUClass(cycle.tier)

\* Of two nodes scored in one cycle for the same request, both holding it on
\* one GPU or both on several, the one with the smaller GPUs never scores less
\* if its model and topology earn it as much: no threshold, premium or
\* stranding rule of any tier makes a pod waste VRAM.
TighterFitNeverScoresLess ==
    \A m, n \in Nodes :
        LET a == work[m]
            b == work[n]
            scored == {"numa", "lookup", "iterate", "record", "done"}
        IN  /\ {a.step, b.step} \subseteq scored
            /\ a.request = b.request /\ 0 < a.perGPU /\ a.perGPU <= b.perGPU
            /\ a.request <= a.perGPU * GpusRequested(cycle.pod)
            /\ (a.request > a.perGPU) = (b.request > b.perGPU)
            /\ a.bonus = b.bonus /\ (isHighEndGPU(n) => isHighEndGPU(m))
            => a.score >= b.score

\* A NUMA node recorded for a gang member is one that some server has, in which
\* the member fits and which it has not ruled out: workers that overtake each
\* other, crashes and pods made anew never leave another one behind.
RecordedFits ==
    \A g \in Gangs, p \in Pods :
        LET i == gangState[g].members[p] IN
        i # NoNuma =>
            /\ Ask[p].gang = g /\ gangState[g].created
            /\ i \notin Ask[p].avoid
            /\ \E n \in Nodes : /\ i \in parseNUMATopology(n)
                               /\ Numa(n, i).cpus >= Attr[p].cpu
                               /\ Numa(n, i).mem >= Attr[p].mem

\* The gang's spread policy prefers NUMA node i to NUMA node j.
Prefers(p, g, i, j) ==
    LET policy == gangState[g].policy
        spread == IF policy = "" THEN Ask[p].spread ELSE policy
        Count(k) == Cardinality({q \in Pods : gangState[g].members[q] = k})
    IN  CASE spread \in {"packed", "none"} -> Count(i) > 0 /\ Count(j) = 0
          [] spread = "isolated"           -> Count(i) = 0 /\ Count(j) > 0
          [] spread = "balanced"           -> Count(i) < Count(j) /\ Count(i) < 5
          [] OTHER                         -> FALSE

\* A worker whom no other one disturbs follows the spread policy of the gang:
\* it passes over a NUMA node that the policy prefers only for one that is
\* better otherwise (or where the cap of 100 points hides the difference).
SpreadPolicyDecides ==
    \A n \in Nodes :
        LET p == cycle.pod
            g == Ask[p].gang
        IN  At(n, "record") /\ work[n].still /\ g # "" /\ gangState[g].created =>
                \A i \in Eligible(p, n) :
                    /\ Total(p, n, i, 0) >= Total(p, n, work[n].bestId, 0)
                    /\ Total(p, n, i, Points(100)) <= 100 * Point
                    => ~Prefers(p, g, i, work[n].bestId)
=============================================================================
