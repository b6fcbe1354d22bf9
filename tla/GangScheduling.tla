-------------------------- MODULE GangScheduling --------------------------
(***************************************************************************)
(* Gang scheduling by the Coscheduling plugin                              *)
(* (pkg/plugins/coscheduling/coscheduling.go) inside the Kubernetes        *)
(* scheduling framework.                                                   *)
(*                                                                         *)
(* The framework runs one scheduling cycle at a time (PreFilter, Filter,   *)
(* Reserve, Permit) and any number of binding cycles next to it.  A pod    *)
(* whose Permit answers Wait is put into the framework's map of waiting    *)
(* pods; its binding cycle blocks until some plugin allows or rejects it,  *)
(* or until its timer rejects it.  Permit allows, and Unreserve rejects,   *)
(* the waiting pods of the gang one after the other inside                 *)
(* IterateOverWaitingPods, which holds the read lock of that map: loops    *)
(* of several goroutines may interleave pod by pod, while putting a pod    *)
(* into the map and taking one out wait until all of them are done.  The   *)
(* plugin counts pods in the informer cache, which follows the API server  *)
(* with a delay.                                                           *)
(***************************************************************************)
EXTENDS PodGroups

CONSTANTS Capacity,     \* pods the cluster has room for
          Profiled,     \* does ProfileClassifier run in this profile?
          ProfileGang,  \* its IsGang verdict for every pod
          Finishing,    \* do the containers ever run to completion?
          MaxFaults     \* bound on deletions, bind failures and restarts

ASSUME GangAssumption ==
    /\ Capacity \in Nat
    /\ Profiled \in BOOLEAN
    /\ ProfileGang \in [Pods -> BOOLEAN]
    /\ Finishing \in BOOLEAN
    /\ MaxFaults \in Nat

VARIABLES pod,     \* what the API server stores about each pod
          lister,  \* the informer's copy of it
          stage,   \* how far the scheduler is with each pod
          signal,  \* the channel of each waiting pod: the first verdict wins
          visit,   \* the waiting pods a pod's loop of verdicts has ahead of it
          seen,    \* "running", counted by the Permit call under way
          faults   \* faults so far

vars == <<pod, lister, stage, signal, visit, seen, faults>>

Status == {"absent", "pending", "bound", "running", "terminating", "done"}

\* The stages of the one scheduling cycle the framework runs at a time.
CycleStages == {"filtering", "reserved", "counted", "toWait", "toRelease",
                "allowing"}

\* The stages in which a pod occupies room in the scheduler's cache.
Holding == {"reserved", "counted", "toWait", "toRelease", "allowing",
            "waiting", "binding", "failed", "rejecting", "bound"}

Stages == {"out", "queued", "parked", "filtering"} \cup Holding

TypeOK ==
    /\ pod \in [Pods -> Status]
    /\ lister \in [Pods -> Status]
    /\ stage \in [Pods -> Stages]
    /\ signal \in [Pods -> {"none", "allow", "reject"}]
    /\ visit \in [Pods -> SUBSET Pods]
    /\ seen \in Nat
    /\ faults \in 0..MaxFaults

Init ==
    /\ pod = [p \in Pods |-> "absent"]
    /\ lister = [p \in Pods |-> "absent"]
    /\ stage = [p \in Pods |-> "out"]
    /\ signal = [p \in Pods |-> "none"]
    /\ visit = [p \in Pods |-> {}]
    /\ seen = 0
    /\ faults = 0

-----------------------------------------------------------------------------
(* What the plugin counts.                                                 *)

Visible == {p \in Pods : lister[p] # "absent"}

\* Mutation of CalculateTotalPods: no fallback to the legacy label.
TotalByNewLabel(g) == Cardinality({p \in Visible : Labels[p].newName = g})

\* Every listed pod, terminating ones included.
CalculateTotalPods(g) == Cardinality(ListGroup(Visible, g))

\* Pods that are not being deleted and whose phase is Running, Pending or
\* empty; whether they have a node plays no part.
Active(p) == lister[p] \in {"pending", "bound", "running"}

\* Mutation: the pod itself is subtracted, whether it was counted or not.
CountedLessOne(g, p) ==
    Cardinality({q \in ListGroup(Visible, g) : Active(q)}) - 1

\* Mutation: only members that have a node are counted.
CountedOnNodes(g, p) ==
    Cardinality({q \in ListGroup(Visible, g) :
                   q # p /\ lister[q] \in {"bound", "running"}})

CalculateRunningPodsExcluding(g, p) ==
    Cardinality({q \in ListGroup(Visible, g) : q # p /\ Active(q)})

\* The framework's waiting-pod map: an entry leaves it only when its binding
\* cycle has read the verdict.
WaitingMap == {p \in Pods : stage[p] = "waiting"}

CalculateWaitingPods(g) ==
    Cardinality({q \in WaitingMap : g \in {Labels[q].newName,
                                           Labels[q].legacyName}})

\* The waiting pods that Permit allows and Unreserve rejects.
WaitingOf(g) == {q \in WaitingMap : GroupName(q) = g}

\* WaitingPod.Allow and WaitingPod.Reject: a verdict already sent stays.
Send(q, verdict) == [signal EXCEPT ![q] = IF @ = "none" THEN verdict ELSE @]

\* The pods whose Permit or Unreserve is inside IterateOverWaitingPods, with
\* the map's read lock.
Looping == {p \in Pods : stage[p] \in {"allowing", "rejecting"}}

\* The write lock, which the framework takes to change the map, is to be had.
MapUnlocked == Looping = {}

\* One round of the loop of p.  The map is a Go map: it has no order.
SendVerdict(p) ==
    /\ p \in Looping
    /\ \E q \in visit[p] :
         /\ signal' = Send(q, IF stage[p] = "allowing" THEN "allow" ELSE "reject")
         /\ visit' = [visit EXCEPT ![p] = @ \ {q}]
    /\ UNCHANGED <<pod, lister, stage, seen, faults>>

-----------------------------------------------------------------------------
(* The scheduling cycle.                                                   *)

CycleIdle == \A p \in Pods : stage[p] \notin CycleStages

\* The verdict of PreFilter.  With ProfileClassifier in the profile a pod it
\* does not call a gang member passes unseen, and one it does call a gang
\* member is counted whatever its labels say.
PreFilterPasses(p) ==
    \/ Profiled /\ ~ProfileGang[p]
    \/ /\ ~LabelErr(p)
       /\ \/ ~Profiled /\ ~IsPodInPodGroup(p)
          \/ CalculateTotalPods(GroupName(p)) >= MinAvailable(p)

PreFilter(p) ==
    /\ CycleIdle
    /\ stage[p] = "queued"
    /\ stage' = [stage EXCEPT ![p] = IF PreFilterPasses(p) THEN "filtering"
                                                           ELSE "parked"]
    /\ UNCHANGED <<pod, lister, signal, visit, seen, faults>>

HasRoom == Cardinality({p \in Pods : stage[p] \in Holding}) < Capacity

\* Filter finds a node and the pod is assumed on it, or the pod goes back.
\* Coscheduling's own Reserve changes nothing.
FilterAndReserve(p) ==
    /\ stage[p] = "filtering"
    /\ stage' = [stage EXCEPT ![p] = IF HasRoom THEN "reserved" ELSE "parked"]
    /\ UNCHANGED <<pod, lister, signal, visit, seen, faults>>

\* Permit, first half: a pod without a valid gang label goes straight to
\* binding; for a gang member the informer cache is counted.
PermitCountRunning(p) ==
    /\ stage[p] = "reserved"
    /\ IF IsPodInPodGroup(p)
       THEN /\ stage' = [stage EXCEPT ![p] = "counted"]
            /\ seen' = CalculateRunningPodsExcluding(GroupName(p), p)
       ELSE /\ stage' = [stage EXCEPT ![p] = "binding"]
            /\ UNCHANGED seen
    /\ UNCHANGED <<pod, lister, signal, visit, faults>>

\* Permit's quorum test, with the pod itself as the +1.
QuorumReached(p) ==
    seen + CalculateWaitingPods(GroupName(p)) + 1 >= MinAvailable(p)

PermitDecide(p) ==
    /\ stage[p] = "counted"
    /\ stage' = [stage EXCEPT ![p] = IF QuorumReached(p) THEN "toRelease"
                                                         ELSE "toWait"]
    /\ seen' = 0
    /\ UNCHANGED <<pod, lister, signal, visit, faults>>

\* Permit enters IterateOverWaitingPods to allow the waiting pods of its group.
PermitRelease(p) ==
    /\ stage[p] = "toRelease"
    /\ stage' = [stage EXCEPT ![p] = "allowing"]
    /\ visit' = [visit EXCEPT ![p] = WaitingOf(GroupName(p))]
    /\ UNCHANGED <<pod, lister, signal, seen, faults>>

\* The loop is over, and Permit succeeds.
PermitReturn(p) ==
    /\ stage[p] = "allowing" /\ visit[p] = {}
    /\ stage' = [stage EXCEPT ![p] = "binding"]
    /\ UNCHANGED <<pod, lister, signal, visit, seen, faults>>

\* Mutation of AddWaitingPod: the framework does not lock its map.
AddWaitingPodUnlocked(p) ==
    /\ stage[p] = "toWait"
    /\ stage' = [stage EXCEPT ![p] = "waiting"]
    /\ signal' = [signal EXCEPT ![p] = "none"]
    /\ UNCHANGED <<pod, lister, visit, seen, faults>>

\* The framework stores the pod among the waiting ones after Permit returned.
AddWaitingPod(p) ==
    /\ stage[p] = "toWait" /\ MapUnlocked
    /\ stage' = [stage EXCEPT ![p] = "waiting"]
    /\ signal' = [signal EXCEPT ![p] = "none"]
    /\ UNCHANGED <<pod, lister, visit, seen, faults>>

-----------------------------------------------------------------------------
(* The binding cycles.                                                     *)

\* The timer of PermitWaitingTime rejects the pod.
PermitTimeout(p) ==
    /\ stage[p] = "waiting" /\ signal[p] = "none"
    /\ signal' = Send(p, "reject")
    /\ UNCHANGED <<pod, lister, stage, visit, seen, faults>>

\* The binding cycle has read the verdict and takes the pod off the map; a
\* verdict that comes in between is not read by anybody.
WaitOnPermit(p) ==
    /\ stage[p] = "waiting" /\ signal[p] # "none" /\ MapUnlocked
    /\ stage' = [stage EXCEPT ![p] = IF signal[p] = "allow" THEN "binding"
                                                            ELSE "failed"]
    /\ signal' = [signal EXCEPT ![p] = "none"]
    /\ UNCHANGED <<pod, lister, visit, seen, faults>>

Bind(p) ==
    /\ stage[p] = "binding" /\ pod[p] = "pending"
    /\ pod' = [pod EXCEPT ![p] = "bound"]
    /\ stage' = [stage EXCEPT ![p] = "bound"]
    /\ UNCHANGED <<lister, signal, visit, seen, faults>>

Fault == faults < MaxFaults /\ faults' = faults + 1

BindFailure(p) ==
    /\ stage[p] = "binding"
    /\ \/ pod[p] # "pending" /\ UNCHANGED faults
       \/ Fault
    /\ stage' = [stage EXCEPT ![p] = "failed"]
    /\ UNCHANGED <<pod, lister, signal, visit, seen>>

\* The framework forgets the pod and requeues it unless the informer has seen
\* it go.
Forget(p) ==
    stage' = [stage EXCEPT ![p] = IF lister[p] = "pending" THEN "parked"
                                                          ELSE "out"]

\* Unreserve enters the loop that rejects the waiting pods of the group.
Unreserve(p) ==
    /\ stage[p] = "failed"
    /\ IF GroupName(p) = NoGroup
       THEN Forget(p) /\ UNCHANGED visit
       ELSE /\ stage' = [stage EXCEPT ![p] = "rejecting"]
            /\ visit' = [visit EXCEPT ![p] = WaitingOf(GroupName(p))]
    /\ UNCHANGED <<pod, lister, signal, seen, faults>>

UnreserveReturn(p) ==
    /\ stage[p] = "rejecting" /\ visit[p] = {}
    /\ Forget(p)
    /\ UNCHANGED <<pod, lister, signal, visit, seen, faults>>

\* A pod that was unschedulable is moved back to the active queue.
Requeue(p) ==
    /\ stage[p] = "parked"
    /\ stage' = [stage EXCEPT ![p] = "queued"]
    /\ UNCHANGED <<pod, lister, signal, visit, seen, faults>>

-----------------------------------------------------------------------------
(* The cluster around the scheduler.                                       *)

\* A name is reused only after the scheduler is done with its last bearer.
CreatePod(p) ==
    /\ pod[p] = "absent" /\ lister[p] = "absent" /\ stage[p] = "out"
    /\ pod' = [pod EXCEPT ![p] = "pending"]
    /\ UNCHANGED <<lister, stage, signal, visit, seen, faults>>

\* A pod without a node is removed at once, one with a node terminates first.
DeletePod(p) ==
    /\ pod[p] \in {"pending", "bound", "running", "done"}
    /\ Fault
    /\ pod' = [pod EXCEPT ![p] = IF @ \in {"bound", "running"}
                                 THEN "terminating" ELSE "absent"]
    /\ UNCHANGED <<lister, stage, signal, visit, seen>>

\* The kubelet starts a pod and reports its end.
KubeletStep(p) ==
    /\ pod[p] \in {"bound", "terminating"} \/ (Finishing /\ pod[p] = "running")
    /\ pod' = [pod EXCEPT ![p] = CASE @ = "bound" -> "running"
                                   [] @ = "running" -> "done"
                                   [] @ = "terminating" -> "absent"]
    /\ UNCHANGED <<lister, stage, signal, visit, seen, faults>>

\* The informer kube-scheduler shares with its plugins selects the pods that
\* have not finished.
Selected(status) == IF status = "done" THEN "absent" ELSE status

\* The informer delivers the pod's latest state and the scheduler's event
\* handlers run: a new pod is queued, a removed one leaves the queue, frees
\* its room, or is rejected if it waits at Permit.
InformerSync(p) ==
    /\ lister[p] # Selected(pod[p])
    /\ lister' = [lister EXCEPT ![p] = Selected(pod[p])]
    /\ stage' = [stage EXCEPT ![p] =
         CASE pod[p] = "pending" /\ @ = "out" -> "queued"
           [] pod[p] = "absent" /\ @ \in {"queued", "parked"} -> "out"
           [] pod[p] \in {"absent", "done"} /\ @ = "bound" -> "out"
           [] OTHER -> @]
    /\ signal' = IF pod[p] = "absent" /\ stage[p] = "waiting"
                 THEN Send(p, "reject") ELSE signal
    /\ UNCHANGED <<pod, visit, seen, faults>>

\* The scheduler process is replaced (crash or lost leader lease): queue,
\* waiting pods and cache are rebuilt from the API server.
Restart ==
    /\ Fault
    /\ lister' = [p \in Pods |-> Selected(pod[p])]
    /\ stage' = [p \in Pods |->
         CASE pod[p] = "pending" -> "queued"
           [] pod[p] \in {"bound", "running", "terminating"} -> "bound"
           [] OTHER -> "out"]
    /\ signal' = [p \in Pods |-> "none"]
    /\ visit' = [p \in Pods |-> {}]
    /\ seen' = 0
    /\ UNCHANGED pod

-----------------------------------------------------------------------------
Cycle(p) == \/ PreFilter(p) \/ FilterAndReserve(p)
            \/ PermitCountRunning(p) \/ PermitDecide(p)
            \/ PermitRelease(p) \/ PermitReturn(p) \/ AddWaitingPod(p)

BindingCycle(p) == \/ WaitOnPermit(p) \/ Bind(p)
                   \/ Unreserve(p) \/ UnreserveReturn(p)

Next == \/ \E p \in Pods : \/ Cycle(p) \/ BindingCycle(p) \/ SendVerdict(p)
                           \/ PermitTimeout(p) \/ BindFailure(p) \/ Requeue(p)
                           \/ CreatePod(p) \/ DeletePod(p) \/ KubeletStep(p)
                           \/ InformerSync(p)
        \/ Restart

Spec == Init /\ [][Next]_vars

(* The scheduler's goroutines, the timers, the informer and the kubelet   *)
(* keep running; the queue is ordered, so no queued pod is passed over     *)
(* for ever (strong fairness: the cycle is busy with others in between).   *)
(* Of the lock of the waiting pods only weak fairness is needed.           *)
Fairness ==
    \A p \in Pods :
        /\ SF_vars(PreFilter(p))
        /\ WF_vars(Cycle(p) /\ stage[p] # "queued")
        /\ WF_vars(BindingCycle(p)) /\ WF_vars(SendVerdict(p))
        /\ WF_vars(BindFailure(p) /\ pod[p] # "pending")
        /\ WF_vars(PermitTimeout(p))
        /\ WF_vars(Requeue(p))
        /\ WF_vars(CreatePod(p))
        /\ WF_vars(InformerSync(p))
        /\ WF_vars(KubeletStep(p) /\ pod[p] = "terminating")

FairSpec == Spec /\ Fairness

-----------------------------------------------------------------------------
(* Properties.                                                             *)

\* All pods that name g do so with the same label.
Uniform(g) == \/ \A p \in Pods : NameLabel(p) = g => Labels[p].newName = g
              \/ \A p \in Pods : Labels[p].newName # g

\* The waiting pods of gang g that have no verdict.
Held(g) == {p \in WaitingOf(g) : signal[p] = "none"}

\* The members of gang g, waiting or let through, that Permit has answered,
\* that have not failed since, and that are not being deleted.
Standing(g) == {p \in Members(g) :
                  /\ stage[p] \in {"toWait", "waiting", "binding", "bound"}
                  /\ Active(p)}

\* Permit has found the quorum of gang g and is not done with its loop.
Opening(g) == \E p \in Members(g) : stage[p] \in {"toRelease", "allowing"}

\* A complete gang is not left waiting at Permit.  In a gang that uses one
\* generation of labels, whatever is deleted, bound, timed out or lost in a
\* restart between the two counts of Permit, a member is held without a
\* verdict only while the members that wait or were let through are fewer
\* than the largest min-available any of them asks for, or while Permit is
\* about to let them go.  (A gang of mixed labels is left waiting: a member
\* that lists the new label does not see bound members with the legacy one.)
CompleteGangMovesOn ==
    \A g \in Groups : Held(g) # {} /\ ~Opening(g) /\ Uniform(g) =>
        \E m \in Members(g) : Cardinality(Standing(g)) < MinAvailable(m)

\* Where PermitBarrier sees a pod.  One that Permit has told to wait and that
\* the framework has not stored yet is still outside: a cascade misses it.
Where ==
    [p \in Pods |->
       CASE stage[p] = "waiting" /\ signal[p] = "none" -> "held"
         [] stage[p] = "allowing" -> "opening"
         [] \/ stage[p] = "binding"
            \/ stage[p] = "waiting" /\ signal[p] = "allow" -> "through"
         [] \/ stage[p] = "failed"
            \/ stage[p] = "waiting" /\ signal[p] = "reject" -> "back"
         [] stage[p] = "rejecting" -> "collapsing"
         [] OTHER -> "outside"]

Barrier == INSTANCE PermitBarrier
    WITH Gang <- [p \in Pods |-> GroupName(p)], NoGang <- NoGroup,
         Ganged <- [p \in Pods |-> IsPodInPodGroup(p)],
         Size <- [p \in Pods |-> MinAvailable(p)], where <- Where

\* Permit, the framework's map of waiting pods, the binding cycles and
\* Unreserve together are a barrier, though their loops send one verdict at a
\* time and run side by side: a pod is held only below the quorum and never
\* while a loop of its gang is under way, it is let through only by a member
\* that found the quorum, and neither that member goes on to its binding nor
\* a failed member back to the queue before every pod that was held has a
\* verdict.  (Where two loops meet, the verdicts may differ.)
PermitIsBarrier == Barrier!Spec

\* Once the faults are over, a cluster with room for everybody gets every pod
\* onto a node: the size check of PreFilter, the wait at Permit, its timeout,
\* the cascade of Unreserve and the retry never keep a gang that exists
\* completely from starting.  It holds for gangs whose members keep running;
\* where members finish, PreFilter turns away one that comes after them.
GangEventuallyBinds ==
    <>[](\A p \in Pods : pod[p] \in {"bound", "running", "done"})

\* What the documentation says of the gang: a member is bound only when
\* min-available members have a node or hold room for one.
AllOrNothing ==
    [][\A p \in Pods :
         /\ IsPodInPodGroup(p) /\ stage[p] = "binding" /\ stage'[p] = "bound"
         => Cardinality({q \in Members(GroupName(p)) : stage[q] \in Holding})
              >= MinAvailable(p)]_vars
=============================================================================
