----------------------- MODULE GangSchedulingProofs -----------------------
(***************************************************************************)
(* Proofs about GangScheduling, for every cluster: any finite set of pods, *)
(* any labels, any capacity, with or without ProfileClassifier.            *)
(***************************************************************************)
EXTENDS GangScheduling, FiniteSetTheorems, TLAPS

\* The framework runs one scheduling cycle at a time.
OneCycle ==
    \A p, q \in Pods :
        stage[p] \in CycleStages /\ stage[q] \in CycleStages => p = q

\* Only a gang member reaches the counting half of Permit.
CountedAreMembers ==
    \A p \in Pods : stage[p] = "counted" => IsPodInPodGroup(p)

-----------------------------------------------------------------------------
(* Facts about the labels.                                                 *)

\* Whatever the labels hold, GetPodGroupLabels returns a number.
LEMMA MinAvailableIsInt == \A p \in Pods : MinAvailable(p) \in Int
<1> SUFFICES ASSUME NEW p \in Pods PROVE MinAvailable(p) \in Int
    OBVIOUS
<1>1. MinLabel(p) \in MinValue
    BY PodGroupAssumption DEF MinLabel
<1>2. QED
    BY <1>1 DEF MinAvailable, LabelErr, Labelled, MinValue

\* A pod that is a member of g names g in one of the labels that
\* calculateWaitingPods looks at.
LEMMA GroupNameIsLabel ==
    \A p \in Pods, g \in Groups :
        GroupName(p) = g => g \in {Labels[p].newName, Labels[p].legacyName}
  BY PodGroupAssumption DEF GroupName, NameLabel

-----------------------------------------------------------------------------
\* Type correctness: every step keeps every variable in its range; the
\* number of faults stays within its bound.
LEMMA TypeInvariance == TypeOK /\ [Next]_vars => TypeOK'
<1> SUFFICES ASSUME TypeOK, [Next]_vars PROVE TypeOK'
    OBVIOUS
<1> USE DEF TypeOK, Status, Stages, Holding, Selected
<1>0. \A g : WaitingOf(g) \subseteq Pods
    BY DEF WaitingOf, WaitingMap
<1>1. ASSUME NEW p \in Pods, PreFilter(p) \/ FilterAndReserve(p)
                             \/ PermitDecide(p) \/ AddWaitingPod(p)
      PROVE  TypeOK'
    BY <1>1 DEF PreFilter, FilterAndReserve, PermitDecide, AddWaitingPod
<1>2. ASSUME NEW p \in Pods, PermitCountRunning(p)
      PROVE  TypeOK'
  <2>1. CalculateRunningPodsExcluding(GroupName(p), p) \in Nat
    <3>1. IsFiniteSet({q \in ListGroup(Visible, GroupName(p)) : q # p /\ Active(q)})
        BY PodGroupAssumption, FS_Subset DEF ListGroup, Visible
    <3>2. QED
        BY <3>1, FS_CardinalityType DEF CalculateRunningPodsExcluding
  <2>2. QED
    BY <1>2, <2>1 DEF PermitCountRunning
<1>3. ASSUME NEW p \in Pods, PermitRelease(p) \/ Unreserve(p)
                             \/ PermitReturn(p) \/ UnreserveReturn(p)
      PROVE  TypeOK'
    BY <1>0, <1>3 DEF PermitRelease, Unreserve, PermitReturn, UnreserveReturn,
                      Forget
<1>31. ASSUME NEW p \in Pods, SendVerdict(p)
       PROVE  TypeOK'
    BY <1>31 DEF SendVerdict, Looping, Send
<1>32. ASSUME NEW p \in Pods, PermitTimeout(p) \/ WaitOnPermit(p)
       PROVE  TypeOK'
    BY <1>32 DEF PermitTimeout, WaitOnPermit, Send
<1>4. ASSUME NEW p \in Pods, Bind(p) \/ BindFailure(p) \/ Requeue(p)
      PROVE  TypeOK'
    BY <1>4, GangAssumption DEF Bind, BindFailure, Requeue, Fault
<1>5. ASSUME NEW p \in Pods, CreatePod(p) \/ DeletePod(p) \/ KubeletStep(p)
      PROVE  TypeOK'
    BY <1>5, GangAssumption DEF CreatePod, DeletePod, KubeletStep, Fault
<1>6. ASSUME NEW p \in Pods, InformerSync(p)
      PROVE  TypeOK'
    BY <1>6 DEF InformerSync, Send
<1>7. CASE Restart
    BY <1>7, GangAssumption DEF Restart, Fault
<1>8. CASE UNCHANGED vars
    BY <1>8 DEF vars
<1>9. QED
    BY <1>1, <1>2, <1>3, <1>31, <1>32, <1>4, <1>5, <1>6, <1>7, <1>8
       DEF Next, Cycle, BindingCycle

\* One cycle at a time, and only gang members are counted: PreFilter starts a
\* cycle only when none is open.
LEMMA CycleInvariance ==
    TypeOK /\ OneCycle /\ CountedAreMembers /\ [Next]_vars
      => OneCycle' /\ CountedAreMembers'
<1> SUFFICES ASSUME TypeOK, OneCycle, CountedAreMembers, [Next]_vars
             PROVE  OneCycle' /\ CountedAreMembers'
    OBVIOUS
<1> USE DEF TypeOK, OneCycle, CountedAreMembers, CycleStages
<1>1. ASSUME NEW p \in Pods, PreFilter(p) PROVE OneCycle' /\ CountedAreMembers'
    BY <1>1 DEF PreFilter, CycleIdle
<1>2. ASSUME NEW p \in Pods, FilterAndReserve(p) \/ PermitDecide(p) \/ PermitRelease(p)
                             \/ PermitReturn(p) \/ AddWaitingPod(p)
      PROVE  OneCycle' /\ CountedAreMembers'
    BY <1>2 DEF FilterAndReserve, PermitDecide, PermitRelease, PermitReturn,
                AddWaitingPod
<1>3. ASSUME NEW p \in Pods, PermitCountRunning(p)
      PROVE  OneCycle' /\ CountedAreMembers'
    BY <1>3 DEF PermitCountRunning
<1>4. ASSUME NEW p \in Pods, BindingCycle(p) \/ PermitTimeout(p)
                             \/ BindFailure(p) \/ Requeue(p) \/ SendVerdict(p)
      PROVE  OneCycle' /\ CountedAreMembers'
    BY <1>4 DEF BindingCycle, WaitOnPermit, Bind, Unreserve, UnreserveReturn,
                Forget, PermitTimeout, BindFailure, Requeue, SendVerdict
<1>5. ASSUME NEW p \in Pods, CreatePod(p) \/ DeletePod(p) \/ KubeletStep(p)
      PROVE  OneCycle' /\ CountedAreMembers'
    BY <1>5 DEF CreatePod, DeletePod, KubeletStep
<1>6. ASSUME NEW p \in Pods, InformerSync(p)
      PROVE  OneCycle' /\ CountedAreMembers'
    BY <1>6 DEF InformerSync
<1>7. CASE Restart
    BY <1>7 DEF Restart
<1>8. CASE UNCHANGED vars
    BY <1>8 DEF vars
<1>9. QED
    BY <1>1, <1>2, <1>3, <1>4, <1>5, <1>6, <1>7, <1>8 DEF Next, Cycle

-----------------------------------------------------------------------------
\* The state of the scheduler and the cluster always has its type.
THEOREM TypeCorrect == Spec => []TypeOK
<1>1. Init => TypeOK
    BY GangAssumption DEF Init, TypeOK, Status, Stages
<1>2. QED
    BY <1>1, TypeInvariance, PTL DEF Spec

-----------------------------------------------------------------------------
(* GangScheduling implements PermitBarrier.                                *)
\* A pod that Permit has told to wait is a gang member, and with it the gang's
\* waiting pods are too few; one that Permit lets through is a member, too.
WaitFits ==
    \A p \in Pods :
        /\ stage[p] \in {"toWait", "toRelease", "allowing"} => IsPodInPodGroup(p)
        /\ stage[p] = "toWait"
             => Cardinality(WaitingOf(GroupName(p))) + 1 < MinAvailable(p)

\* A loop of verdicts has waiting pods of its gang ahead of it, and those it
\* has behind it have their verdict: nothing enters or leaves the map while
\* the loop holds the read lock.
LoopFits ==
    \A p \in Looping :
        /\ GroupName(p) # NoGroup
        /\ visit[p] \subseteq WaitingOf(GroupName(p))
        /\ \A q \in WaitingOf(GroupName(p)) \ visit[p] : signal[q] # "none"

BInv == TypeOK /\ OneCycle /\ CountedAreMembers /\ WaitFits /\ LoopFits

-----------------------------------------------------------------------------
\* Only the framework's storing a pod adds to the map of waiting pods.
LEMMA WaitingMapShrinks ==
    ASSUME TypeOK, [Next]_vars, ~(\E p \in Pods : AddWaitingPod(p))
    PROVE  \A p \in Pods : stage'[p] = "waiting" => stage[p] = "waiting"
<1> SUFFICES ASSUME NEW q \in Pods, stage'[q] = "waiting"
             PROVE  stage[q] = "waiting"
    OBVIOUS
<1>1. ASSUME NEW p \in Pods, Cycle(p) \/ BindingCycle(p) \/ PermitTimeout(p)
                             \/ BindFailure(p) \/ Requeue(p) \/ SendVerdict(p)
      PROVE  stage[q] = "waiting"
    BY <1>1 DEF TypeOK, Cycle, BindingCycle, PreFilter, FilterAndReserve,
                PermitCountRunning, PermitDecide, PermitRelease, PermitReturn,
                WaitOnPermit, Bind, Unreserve, UnreserveReturn, Forget,
                PermitTimeout, BindFailure, Requeue, SendVerdict
<1>2. ASSUME NEW p \in Pods, CreatePod(p) \/ DeletePod(p) \/ KubeletStep(p)
                             \/ InformerSync(p)
      PROVE  stage[q] = "waiting"
    BY <1>2 DEF TypeOK, CreatePod, DeletePod, KubeletStep, InformerSync
<1>3. ASSUME Restart
      PROVE  stage[q] = "waiting"
    BY <1>3 DEF TypeOK, Restart
<1>4. CASE UNCHANGED vars
    BY <1>4 DEF vars
<1>5. QED
    BY <1>1, <1>2, <1>3, <1>4 DEF Next

\* No other step than Permit's decision tells a pod to wait or to release, and
\* only its loop follows on the latter.
LEMMA OnlyPermitDecides ==
    ASSUME TypeOK, [Next]_vars, ~(\E p \in Pods : PermitDecide(p))
    PROVE  \A p \in Pods :
              stage'[p] \in {"toWait", "toRelease", "allowing"} =>
                 \/ stage'[p] = stage[p]
                 \/ stage[p] = "toRelease" /\ stage'[p] = "allowing"
<1> DEFINE Kept(q) == \/ stage'[q] = stage[q]
                      \/ stage[q] = "toRelease" /\ stage'[q] = "allowing"
<1> SUFFICES ASSUME NEW q \in Pods,
                    stage'[q] \in {"toWait", "toRelease", "allowing"}
             PROVE  Kept(q)
    OBVIOUS
<1>1. ASSUME NEW p \in Pods, Cycle(p) \/ BindingCycle(p) \/ PermitTimeout(p)
                             \/ BindFailure(p) \/ Requeue(p) \/ SendVerdict(p)
      PROVE  Kept(q)
    BY <1>1 DEF TypeOK, Cycle, BindingCycle, PreFilter, FilterAndReserve,
                PermitCountRunning, AddWaitingPod, PermitRelease, PermitReturn,
                WaitOnPermit, Bind, Unreserve, UnreserveReturn, Forget,
                PermitTimeout, BindFailure, Requeue, SendVerdict
<1>2. ASSUME NEW p \in Pods, CreatePod(p) \/ DeletePod(p) \/ KubeletStep(p)
                             \/ InformerSync(p)
      PROVE  Kept(q)
    BY <1>2 DEF TypeOK, CreatePod, DeletePod, KubeletStep, InformerSync
<1>3. ASSUME Restart
      PROVE  Kept(q)
    BY <1>3 DEF TypeOK, Restart
<1>4. CASE UNCHANGED vars
    BY <1>4 DEF vars
<1>5. QED
    BY <1>1, <1>2, <1>3, <1>4 DEF Next

\* When Permit decides to wait, the test it has just failed counted all waiting
\* pods of the gang.
LEMMA DecideFits ==
    ASSUME TypeOK, OneCycle, CountedAreMembers, WaitFits,
           NEW p \in Pods, PermitDecide(p)
    PROVE  WaitFits'
<1> DEFINE g == GroupName(p)
           counted == {q \in WaitingMap : g \in {Labels[q].newName,
                                                 Labels[q].legacyName}}
<1>1. /\ stage[p] = "counted" /\ IsPodInPodGroup(p)
      /\ stage' = [stage EXCEPT ![p] = IF QuorumReached(p) THEN "toRelease"
                                                           ELSE "toWait"]
      /\ stage \in [Pods -> Stages] /\ seen \in Nat
    BY DEF PermitDecide, TypeOK, CountedAreMembers
<1>2. \A q \in Pods : q # p => stage'[q] \notin {"toWait", "toRelease", "allowing"}
    BY <1>1 DEF OneCycle, CycleStages
<1>3. ASSUME ~QuorumReached(p)
      PROVE  Cardinality(WaitingOf(g)') + 1 < MinAvailable(p)
  <2>1. g \in Groups
    BY <1>1, PodGroupAssumption
       DEF IsPodInPodGroup, GroupName, NameLabel
  <2>2. WaitingOf(g)' \subseteq counted
    BY <1>1, <2>1, GroupNameIsLabel DEF WaitingOf, WaitingMap
  <2>3. IsFiniteSet(counted) /\ IsFiniteSet(WaitingOf(g)')
    BY <2>2, PodGroupAssumption, FS_Subset DEF WaitingMap
  <2>4. /\ Cardinality(counted) \in Nat
        /\ Cardinality(WaitingOf(g)') \in Nat
        /\ Cardinality(WaitingOf(g)') <= Cardinality(counted)
    BY <2>2, <2>3, FS_Subset, FS_CardinalityType
  <2>5. ~(seen + Cardinality(counted) + 1 >= MinAvailable(p))
    BY <1>3 DEF QuorumReached, CalculateWaitingPods
  <2>6. QED
    BY <1>1, <2>4, <2>5, MinAvailableIsInt
<1>4. stage'[p] = IF QuorumReached(p) THEN "toRelease" ELSE "toWait"
    BY <1>1
<1>5. QED
    BY <1>1, <1>2, <1>3, <1>4 DEF WaitFits

\* All other steps: the pod told to wait, if there is one, sees the map of
\* waiting pods only shrink, for it is the only one that could be added.
LEMMA OthersFit ==
    ASSUME TypeOK, OneCycle, WaitFits, [Next]_vars,
           ~(\E p \in Pods : PermitDecide(p))
    PROVE  WaitFits'
<1> SUFFICES ASSUME NEW q \in Pods,
                    stage'[q] \in {"toWait", "toRelease", "allowing"}
             PROVE  /\ IsPodInPodGroup(q)
                    /\ stage'[q] = "toWait" =>
                         Cardinality(WaitingOf(GroupName(q))') + 1 < MinAvailable(q)
    BY DEF WaitFits
<1>1. IsPodInPodGroup(q) /\ (stage'[q] = "toWait" => stage[q] = "toWait")
    BY OnlyPermitDecides DEF WaitFits
<1>2. ASSUME NEW p \in Pods, AddWaitingPod(p), stage'[q] = "toWait" PROVE FALSE
  <2>1. p = q
    BY <1>1, <1>2 DEF AddWaitingPod, OneCycle, CycleStages
  <2>2. QED
    BY <1>2, <2>1 DEF AddWaitingPod, TypeOK
<1>3. ASSUME stage'[q] = "toWait"
      PROVE  Cardinality(WaitingOf(GroupName(q))') + 1 < MinAvailable(q)
  <2> DEFINE W == WaitingOf(GroupName(q))
  <2>1. W' \subseteq W
    BY <1>2, <1>3, WaitingMapShrinks DEF WaitingOf, WaitingMap
  <2>2. IsFiniteSet(W)
    BY PodGroupAssumption, FS_Subset DEF WaitingOf, WaitingMap
  <2>3. /\ Cardinality(W) \in Nat /\ Cardinality(W') \in Nat
        /\ Cardinality(W') <= Cardinality(W)
    BY <2>1, <2>2, FS_Subset, FS_CardinalityType
  <2>4. Cardinality(W) + 1 < MinAvailable(q)
    BY <1>1, <1>3 DEF WaitFits
  <2>5. QED
    BY <2>3, <2>4, MinAvailableIsInt
<1>4. QED
    BY <1>1, <1>3

\* A step that leaves the map and the loops alone and takes no verdict back
\* keeps what the loops rely on.
LEMMA LoopFrame ==
    ASSUME LoopFits,
           \A q \in Pods : stage'[q] = "waiting" <=> stage[q] = "waiting",
           \A q \in Pods : signal[q] # "none" => signal'[q] # "none",
           NEW p \in Pods, p \in Looping, visit'[p] = visit[p]
    PROVE  /\ GroupName(p) # NoGroup
           /\ visit'[p] \subseteq WaitingOf(GroupName(p))'
           /\ \A q \in WaitingOf(GroupName(p))' \ visit'[p] : signal'[q] # "none"
<1>1. WaitingOf(GroupName(p))' = WaitingOf(GroupName(p))
    BY DEF WaitingOf, WaitingMap
<1>2. \A q \in WaitingOf(GroupName(p)) : q \in Pods
    BY DEF WaitingOf, WaitingMap
<1>3. QED
    BY <1>1, <1>2 DEF LoopFits

\* A loop starts with all waiting pods of the gang ahead of it; while it lasts
\* every round gives one of them a verdict, and the map stays as it is.
LEMMA LoopInvariance ==
    ASSUME TypeOK, WaitFits, LoopFits, [Next]_vars
    PROVE  LoopFits'
<1> SUFFICES ASSUME NEW p \in Pods, p \in Looping'
             PROVE  /\ GroupName(p) # NoGroup
                    /\ visit'[p] \subseteq WaitingOf(GroupName(p))'
                    /\ \A q \in WaitingOf(GroupName(p))' \ visit'[p] :
                          signal'[q] # "none"
    BY DEF LoopFits, Looping
<1> DEFINE Goal == /\ GroupName(p) # NoGroup
                   /\ visit'[p] \subseteq WaitingOf(GroupName(p))'
                   /\ \A q \in WaitingOf(GroupName(p))' \ visit'[p] :
                         signal'[q] # "none"
           Quiet == /\ \A q \in Pods : stage'[q] = "waiting" <=> stage[q] = "waiting"
                    /\ \A q \in Pods : signal[q] # "none" => signal'[q] # "none"
                    /\ stage[p] \in {"allowing", "rejecting"}
                    /\ visit'[p] = visit[p]
<1>1. Quiet => Goal
    BY LoopFrame DEF Looping
<1>2. stage'[p] \in {"allowing", "rejecting"}
    BY DEF Looping
<1>3. ASSUME NEW r \in Pods, PermitRelease(r) \/ Unreserve(r) PROVE Goal
  <2>1. /\ stage[r] \in {"toRelease", "failed"} /\ signal' = signal
        /\ \A q \in Pods : q # r => stage'[q] = stage[q] /\ visit'[q] = visit[q]
        /\ stage'[r] # "waiting"
    BY <1>3 DEF PermitRelease, Unreserve, Forget, TypeOK
  <2>2. CASE p # r
    BY <1>1, <1>2, <2>1, <2>2
  <2>3. CASE p = r
    <3>1. GroupName(p) # NoGroup /\ visit'[p] = WaitingOf(GroupName(p))
      <4>1. CASE PermitRelease(r)
        BY <2>3, <4>1 DEF PermitRelease, TypeOK, WaitFits, IsPodInPodGroup
      <4>2. CASE Unreserve(r)
        BY <1>2, <2>3, <4>2 DEF Unreserve, Forget, TypeOK
      <4>3. QED
        BY <1>3, <4>1, <4>2
    <3>2. WaitingOf(GroupName(p))' = WaitingOf(GroupName(p))
      BY <2>1 DEF WaitingOf, WaitingMap
    <3>3. QED
      BY <3>1, <3>2
  <2>4. QED
    BY <2>2, <2>3
<1>4. ASSUME NEW r \in Pods, SendVerdict(r) PROVE Goal
  <2>1. PICK q \in visit[r] :
          /\ signal' = Send(q, IF stage[r] = "allowing" THEN "allow" ELSE "reject")
          /\ visit' = [visit EXCEPT ![r] = @ \ {q}]
    BY <1>4 DEF SendVerdict
  <2>2. stage' = stage /\ r \in Looping
    BY <1>4 DEF SendVerdict
  <2>3. /\ \A s \in Pods : signal[s] # "none" => signal'[s] # "none"
        /\ signal'[q] # "none"
    BY <2>1 DEF Send, TypeOK
  <2>4. CASE p # r
    BY <1>1, <1>2, <2>1, <2>2, <2>3, <2>4 DEF TypeOK
  <2>5. CASE p = r
    <3>1. visit'[p] = visit[p] \ {q}
      BY <2>1, <2>5 DEF TypeOK
    <3>2. WaitingOf(GroupName(p))' = WaitingOf(GroupName(p))
      BY <2>2 DEF WaitingOf, WaitingMap
    <3>3. /\ GroupName(p) # NoGroup
          /\ visit[p] \subseteq WaitingOf(GroupName(p))
          /\ \A s \in WaitingOf(GroupName(p)) \ visit[p] : signal[s] # "none"
      BY <2>2, <2>5 DEF LoopFits
    <3>4. \A s \in WaitingOf(GroupName(p)) : s \in Pods
      BY DEF WaitingOf, WaitingMap
    <3>5. QED
      BY <2>3, <3>1, <3>2, <3>3, <3>4
  <2>6. QED
    BY <2>4, <2>5
<1>5. ASSUME NEW r \in Pods, AddWaitingPod(r) \/ WaitOnPermit(r) PROVE FALSE
  <2>1. stage[p] \in {"allowing", "rejecting"}
    BY <1>2, <1>5 DEF AddWaitingPod, WaitOnPermit, TypeOK
  <2>2. QED
    BY <1>5, <2>1 DEF AddWaitingPod, WaitOnPermit, MapUnlocked, Looping
<1>6. ASSUME NEW r \in Pods, PermitTimeout(r) \/ InformerSync(r) PROVE Quiet
    BY <1>2, <1>6 DEF PermitTimeout, InformerSync, Send, TypeOK
<1>7. ASSUME NEW r \in Pods, \/ PreFilter(r) \/ FilterAndReserve(r)
                             \/ PermitCountRunning(r) \/ PermitDecide(r)
                             \/ PermitReturn(r) \/ UnreserveReturn(r)
                             \/ Bind(r) \/ BindFailure(r) \/ Requeue(r)
      PROVE  Quiet
    BY <1>2, <1>7 DEF PreFilter, FilterAndReserve, PermitCountRunning,
         PermitDecide, PermitReturn, UnreserveReturn, Forget, Bind, BindFailure,
         Requeue, TypeOK
<1>8. ASSUME NEW r \in Pods, CreatePod(r) \/ DeletePod(r) \/ KubeletStep(r)
      PROVE  Quiet
    BY <1>2, <1>8 DEF CreatePod, DeletePod, KubeletStep
<1>9. ASSUME Restart PROVE FALSE
    BY <1>2, <1>9 DEF Restart
<1>10. ASSUME UNCHANGED vars PROVE Goal
    BY <1>1, <1>2, <1>10 DEF vars
<1> HIDE DEF Goal, Quiet
<1>11. Goal
    BY <1>1, <1>3, <1>4, <1>5, <1>6, <1>7, <1>8, <1>9, <1>10
       DEF Next, Cycle, BindingCycle
<1>12. QED
    BY <1>11 DEF Goal

LEMMA BInvariance == BInv /\ [Next]_vars => BInv'
  BY TypeInvariance, CycleInvariance, DecideFits, OthersFit, LoopInvariance
     DEF BInv

-----------------------------------------------------------------------------
(* Every step is a step of the barrier, or leaves every pod where it is.   *)

\* The scheduling cycle up to Permit's answer stays outside the barrier; a pod
\* that is not a gang member passes.
LEMMA CycleRefines ==
    ASSUME BInv, NEW p \in Pods,
           PreFilter(p) \/ FilterAndReserve(p) \/ PermitCountRunning(p)
             \/ PermitDecide(p)
    PROVE  Where' = Where \/ Barrier!Pass(p)
<1>1. stage \in [Pods -> Stages]
    BY DEF BInv, TypeOK
<1>2. ASSUME PreFilter(p) \/ FilterAndReserve(p) \/ PermitDecide(p)
               \/ (PermitCountRunning(p) /\ IsPodInPodGroup(p))
      PROVE  Where' = Where
  <2>1. PICK s \in {"filtering", "parked", "reserved", "counted",
                    "toWait", "toRelease"} : stage' = [stage EXCEPT ![p] = s]
    BY <1>2 DEF PreFilter, FilterAndReserve, PermitDecide, PermitCountRunning
  <2>2. /\ stage[p] \in {"queued", "filtering", "reserved", "counted"}
        /\ signal' = signal
    BY <1>2 DEF PreFilter, FilterAndReserve, PermitDecide, PermitCountRunning
  <2>3. QED
    BY <1>1, <2>1, <2>2 DEF Where
<1>3. ASSUME PermitCountRunning(p), ~IsPodInPodGroup(p)
      PROVE  Barrier!Pass(p)
    BY <1>1, <1>3 DEF PermitCountRunning, Where, Barrier!Pass, Barrier!Move
<1>4. QED
    BY <1>2, <1>3

\* The barrier counts as everybody does.
LEMMA BarrierCardinality ==
    ASSUME NEW S
    PROVE  Barrier!Cardinality(S) = Cardinality(S)
  BY DEF Barrier!Cardinality, Cardinality

\* The barrier's held pods of a gang are the waiting ones without a verdict.
LEMMA HeldInBarrier ==
    ASSUME NEW p \in Pods, GroupName(p) # NoGroup
    PROVE  \A q \in Pods : q \in Barrier!Peers(p, {"held"}) <=>
              q \in WaitingOf(GroupName(p)) /\ signal[q] = "none"
  BY DEF Barrier!Peers, Where, WaitingOf, WaitingMap

\* Storing a pod holds it: too few of its gang are held, for the held are among
\* the waiting, and no loop is under way.
LEMMA AddRefines ==
    ASSUME BInv, NEW p \in Pods, AddWaitingPod(p)
    PROVE  Barrier!Hold(p)
<1>1. /\ stage[p] = "toWait" /\ IsPodInPodGroup(p) /\ MapUnlocked
      /\ stage' = [stage EXCEPT ![p] = "waiting"]
      /\ signal' = [signal EXCEPT ![p] = "none"]
      /\ stage \in [Pods -> Stages]
      /\ signal \in [Pods -> {"none", "allow", "reject"}]
      /\ Cardinality(WaitingOf(GroupName(p))) + 1 < MinAvailable(p)
    BY DEF AddWaitingPod, BInv, TypeOK, WaitFits
<1> DEFINE held == Barrier!Peers(p, {"held"})
<1>2. held \subseteq WaitingOf(GroupName(p))
    BY <1>1, HeldInBarrier DEF Barrier!Peers, IsPodInPodGroup
<1>3. IsFiniteSet(WaitingOf(GroupName(p)))
    BY PodGroupAssumption, FS_Subset DEF WaitingOf, WaitingMap
<1>4. /\ Cardinality(held) \in Nat
      /\ Cardinality(WaitingOf(GroupName(p))) \in Nat
      /\ Cardinality(held) <= Cardinality(WaitingOf(GroupName(p)))
    BY <1>2, <1>3, FS_Subset, FS_CardinalityType
<1>5. Cardinality(held) + 1 < MinAvailable(p)
    BY <1>1, <1>4, MinAvailableIsInt
<1>6. Where[p] = "outside"
    BY <1>1 DEF Where
<1>7. Where' = [Where EXCEPT ![p] = "held"]
    BY <1>1 DEF Where
<1>8. Barrier!Peers(p, {"opening", "collapsing"}) = {}
    BY <1>1 DEF Barrier!Peers, Where, MapUnlocked, Looping
<1>9. QED
    BY <1>1, <1>5, <1>6, <1>7, <1>8, BarrierCardinality
       DEF Barrier!Hold, Barrier!Move

\* Entering the loop opens the barrier, or lets it collapse.
LEMMA LoopStartRefines ==
    ASSUME BInv, NEW p \in Pods, PermitRelease(p) \/ Unreserve(p)
    PROVE  Barrier!Open(p) \/ Barrier!Collapse(p) \/ Barrier!Return(p)
<1> USE DEF BInv, TypeOK, Where
<1>1. CASE PermitRelease(p)
  <2>1. /\ stage[p] = "toRelease" /\ IsPodInPodGroup(p) /\ signal' = signal
        /\ stage' = [stage EXCEPT ![p] = "allowing"]
    BY <1>1 DEF PermitRelease, WaitFits
  <2>2. Where' = [Where EXCEPT ![p] = "opening"]
    BY <2>1
  <2>3. QED
    BY <2>1, <2>2 DEF Barrier!Open, Barrier!Move
<1>2. CASE Unreserve(p) /\ GroupName(p) # NoGroup
  <2>1. /\ stage[p] = "failed" /\ signal' = signal
        /\ stage' = [stage EXCEPT ![p] = "rejecting"]
    BY <1>2 DEF Unreserve
  <2>2. Where' = [Where EXCEPT ![p] = "collapsing"]
    BY <2>1
  <2>3. QED
    BY <1>2, <2>1, <2>2 DEF Barrier!Collapse, Barrier!Move
<1>3. CASE Unreserve(p) /\ GroupName(p) = NoGroup
  <2>1. PICK s \in {"parked", "out"} : stage' = [stage EXCEPT ![p] = s]
    BY <1>3 DEF Unreserve, Forget
  <2>2. stage[p] = "failed" /\ signal' = signal
    BY <1>3 DEF Unreserve
  <2>3. Where' = [Where EXCEPT ![p] = "outside"]
    BY <2>1, <2>2
  <2>4. QED
    BY <1>3, <2>2, <2>3 DEF Barrier!Return, Barrier!Move
<1>4. QED
    BY <1>1, <1>2, <1>3

\* A round of a loop gives a verdict to a held pod of its gang, or comes after
\* another verdict and changes nothing.
LEMMA VerdictRefines ==
    ASSUME BInv, NEW p \in Pods, SendVerdict(p)
    PROVE  \/ Where' = Where
           \/ \E q \in Pods : Barrier!LetThrough(q) \/ Barrier!TurnBack(q)
<1> DEFINE v == IF stage[p] = "allowing" THEN "allow" ELSE "reject"
<1>1. /\ p \in Looping /\ stage' = stage
      /\ stage \in [Pods -> Stages]
      /\ signal \in [Pods -> {"none", "allow", "reject"}]
    BY DEF SendVerdict, BInv, TypeOK
<1>2. PICK q \in visit[p] : signal' = Send(q, v)
    BY DEF SendVerdict
<1>3. /\ q \in Pods /\ stage[q] = "waiting"
      /\ GroupName(q) = GroupName(p) /\ GroupName(p) # NoGroup
    BY <1>1 DEF BInv, LoopFits, WaitingOf, WaitingMap
<1>4. CASE signal[q] # "none"
  <2>1. signal' = signal
    BY <1>1, <1>2, <1>3, <1>4 DEF Send
  <2>2. QED
    BY <1>1, <2>1 DEF Where
<1>5. CASE signal[q] = "none" /\ stage[p] = "allowing"
  <2>1. signal' = [signal EXCEPT ![q] = "allow"]
    BY <1>2, <1>3, <1>5 DEF Send
  <2>2. Where[q] = "held" /\ Where' = [Where EXCEPT ![q] = "through"]
    BY <1>1, <1>3, <1>5, <2>1 DEF Where
  <2>3. p \in Barrier!Peers(q, {"opening"})
    BY <1>3, <1>5 DEF Barrier!Peers, Where
  <2>4. QED
    BY <1>3, <2>2, <2>3 DEF Barrier!LetThrough, Barrier!Move
<1>6. CASE signal[q] = "none" /\ stage[p] # "allowing"
  <2>1. signal' = [signal EXCEPT ![q] = "reject"]
    BY <1>2, <1>3, <1>6 DEF Send
  <2>2. Where[q] = "held" /\ Where' = [Where EXCEPT ![q] = "back"]
    BY <1>1, <1>3, <1>6, <2>1 DEF Where
  <2>3. QED
    BY <1>3, <2>2 DEF Barrier!TurnBack, Barrier!Move
<1>7. QED
    BY <1>4, <1>5, <1>6

\* A loop ends when no pod of its gang is held any more.
LEMMA LoopEndRefines ==
    ASSUME BInv, NEW p \in Pods, PermitReturn(p) \/ UnreserveReturn(p)
    PROVE  Barrier!Opened(p) \/ Barrier!Collapsed(p)
<1>1. /\ stage[p] \in {"allowing", "rejecting"} /\ visit[p] = {}
      /\ signal' = signal /\ stage \in [Pods -> Stages]
    BY DEF PermitReturn, UnreserveReturn, BInv, TypeOK
<1>2. /\ GroupName(p) # NoGroup
      /\ \A q \in WaitingOf(GroupName(p)) : signal[q] # "none"
    BY <1>1 DEF BInv, LoopFits, Looping
<1>3. Barrier!Peers(p, {"held"}) = {}
  <2>1. Barrier!Peers(p, {"held"}) \subseteq Pods
    BY DEF Barrier!Peers
  <2>2. QED
    BY <1>2, <2>1, HeldInBarrier
<1>4. CASE PermitReturn(p)
  <2>1. stage[p] = "allowing" /\ stage' = [stage EXCEPT ![p] = "binding"]
    BY <1>4 DEF PermitReturn
  <2>2. Where[p] = "opening" /\ Where' = [Where EXCEPT ![p] = "through"]
    BY <1>1, <2>1 DEF Where
  <2>3. QED
    BY <1>3, <2>2 DEF Barrier!Opened, Barrier!Move
<1>5. CASE UnreserveReturn(p)
  <2>1. PICK s \in {"parked", "out"} : stage' = [stage EXCEPT ![p] = s]
    BY <1>5 DEF UnreserveReturn, Forget
  <2>2. stage[p] = "rejecting"
    BY <1>5 DEF UnreserveReturn
  <2>3. Where[p] = "collapsing" /\ Where' = [Where EXCEPT ![p] = "outside"]
    BY <1>1, <2>1, <2>2 DEF Where
  <2>4. QED
    BY <1>3, <2>3 DEF Barrier!Collapsed, Barrier!Move
<1>6. QED
    BY <1>4, <1>5

\* The other steps of the binding cycles, and the timer.
LEMMA BindingRefines ==
    ASSUME BInv, NEW p \in Pods,
           WaitOnPermit(p) \/ Bind(p) \/ BindFailure(p) \/ PermitTimeout(p)
             \/ Requeue(p)
    PROVE  Where' = Where \/ Barrier!Leave(p) \/ Barrier!Fail(p)
             \/ Barrier!TurnBack(p)
<1> USE DEF BInv, TypeOK, Where
<1>1. CASE WaitOnPermit(p)
    BY <1>1 DEF WaitOnPermit
<1>2. CASE Bind(p)
    BY <1>2 DEF Bind, Barrier!Leave, Barrier!Move
<1>3. CASE BindFailure(p)
    BY <1>3 DEF BindFailure, Barrier!Fail, Barrier!Move
<1>4. CASE PermitTimeout(p)
    BY <1>4 DEF PermitTimeout, Send, Barrier!TurnBack, Barrier!Move
<1>5. CASE Requeue(p)
    BY <1>5 DEF Requeue
<1>6. QED
    BY <1>1, <1>2, <1>3, <1>4, <1>5

\* What happens in the cluster; a deleted pod that is held is turned back.
LEMMA ClusterRefines ==
    ASSUME BInv, NEW p \in Pods,
           CreatePod(p) \/ DeletePod(p) \/ KubeletStep(p) \/ InformerSync(p)
    PROVE  Where' = Where \/ Barrier!TurnBack(p)
<1> USE DEF BInv, TypeOK, Where
<1>1. CASE CreatePod(p) \/ DeletePod(p) \/ KubeletStep(p)
    BY <1>1 DEF CreatePod, DeletePod, KubeletStep
<1>2. CASE InformerSync(p) /\ pod[p] = "absent" /\ stage[p] = "waiting"
  <2>1. stage' = stage
    BY <1>2 DEF InformerSync
  <2>2. signal' = Send(p, "reject")
    BY <1>2 DEF InformerSync
  <2>3. QED
    BY <1>2, <2>1, <2>2 DEF Send, Barrier!TurnBack, Barrier!Move
<1>3. CASE InformerSync(p) /\ ~(pod[p] = "absent" /\ stage[p] = "waiting")
  <2>1. /\ signal' = signal
        /\ \A q \in Pods : q # p => stage'[q] = stage[q]
        /\ \/ stage'[p] = stage[p]
           \/ {stage[p], stage'[p]} \subseteq {"out", "queued", "parked", "bound"}
    BY <1>3 DEF InformerSync
  <2>2. QED
    BY <2>1
<1>4. QED
    BY <1>1, <1>2, <1>3

LEMMA RestartRefines ==
    ASSUME BInv, Restart
    PROVE  Barrier!Restart
  BY DEF BInv, TypeOK, Restart, Where, Barrier!Restart

\* A move that changes something changes where the pod itself is.
LEMMA MovedPod ==
    ASSUME NEW p \in Pods, NEW place, Barrier!Move(p, place), Where' # Where
    PROVE  Where'[p] # Where[p]
<1>1. Where = [q \in Pods |-> Where[q]]
    BY DEF Where
<1>2. Where' = [Where EXCEPT ![p] = place]
    BY DEF Barrier!Move
<1>3. QED
    BY <1>1, <1>2

LEMMA MoveIsNext ==
    ASSUME Where' # Where, NEW p \in Pods,
           \/ Barrier!Hold(p) \/ Barrier!Open(p) \/ Barrier!LetThrough(p)
           \/ Barrier!Opened(p) \/ Barrier!Pass(p) \/ Barrier!TurnBack(p)
           \/ Barrier!Leave(p) \/ Barrier!Fail(p) \/ Barrier!Collapse(p)
           \/ Barrier!Collapsed(p) \/ Barrier!Return(p)
    PROVE  Barrier!Next
<1>1. \E place : Barrier!Move(p, place)
    BY DEF Barrier!Hold, Barrier!Open, Barrier!LetThrough, Barrier!Opened,
           Barrier!Pass, Barrier!TurnBack, Barrier!Leave, Barrier!Fail,
           Barrier!Collapse, Barrier!Collapsed, Barrier!Return
<1>2. Where'[p] # Where[p]
    BY <1>1, MovedPod
<1>3. QED
    BY <1>2 DEF Barrier!Next

LEMMA StepRefines == BInv /\ [Next]_vars => [Barrier!Next]_Where
<1> SUFFICES ASSUME BInv, [Next]_vars, Where' # Where
             PROVE  Barrier!Next
    OBVIOUS
<1>1. ASSUME NEW p \in Pods, Cycle(p) PROVE Barrier!Next
    BY <1>1, CycleRefines, AddRefines, LoopStartRefines, LoopEndRefines,
       MoveIsNext DEF Cycle
<1>2. ASSUME NEW p \in Pods, BindingCycle(p) \/ PermitTimeout(p)
                             \/ BindFailure(p) \/ Requeue(p) \/ SendVerdict(p)
      PROVE  Barrier!Next
    BY <1>2, BindingRefines, LoopStartRefines, LoopEndRefines, VerdictRefines,
       MoveIsNext DEF BindingCycle
<1>3. ASSUME NEW p \in Pods, CreatePod(p) \/ DeletePod(p) \/ KubeletStep(p)
                             \/ InformerSync(p)
      PROVE  Barrier!Next
    BY <1>3, ClusterRefines, MoveIsNext
<1>4. CASE Restart
    BY <1>4, RestartRefines DEF Barrier!Next
<1>5. CASE UNCHANGED vars
    BY <1>5 DEF vars, Where
<1>6. QED
    BY <1>1, <1>2, <1>3, <1>4, <1>5 DEF Next

\* Gang scheduling implements the barrier, for every cluster and all labels,
\* though the verdicts go out one at a time and the loops of Permit and of
\* Unreserve interleave with each other, with timeouts, deletions, failed
\* bindings and restarts: a pod is held only below the quorum and while no
\* loop of its gang is under way, only a member that found the quorum lets
\* held pods through, and no loop ends while a pod of its gang is still held.
THEOREM ImplementsBarrier == Spec => PermitIsBarrier
<1>1. Init => Barrier!Init
    BY DEF Init, Where, Barrier!Init
<1>2. Init => BInv
    BY GangAssumption
       DEF Init, BInv, TypeOK, OneCycle, CountedAreMembers, WaitFits,
           LoopFits, Looping, CycleStages, Status, Stages
<1>3. QED
    BY <1>1, <1>2, BInvariance, StepRefines, PTL
       DEF Spec, PermitIsBarrier, Barrier!Spec

-----------------------------------------------------------------------------
(* A complete gang is not left waiting.                                    *)

\* A pod the scheduler works on has no node, and the informer does not show it
\* again once it has seen it go.
Unbound ==
    \A p \in Pods : stage[p] \notin {"out", "bound"} =>
        /\ pod[p] \in {"pending", "absent"}
        /\ lister[p] \in {"pending", "absent"}
        /\ lister[p] = "absent" => pod[p] = "absent"

\* A pod that is bound and no longer active is not so again.
Ending ==
    \A p \in Pods :
        stage[p] = "bound" /\ ~Active(p)
          => Selected(pod[p]) \in {"absent", "terminating"}

\* What Permit has counted as running covers the members that wait or were let
\* through, and when it answers Wait they are too few, the new one included.
CountFits ==
    \A p \in Pods :
        /\ stage[p] = "counted" /\ Uniform(GroupName(p))
             => Cardinality(Standing(GroupName(p))) <= seen
        /\ stage[p] = "toWait" /\ Uniform(GroupName(p))
             => Cardinality(Standing(GroupName(p))) < MinAvailable(p)

CInv == BInv /\ Unbound /\ Ending /\ CountFits /\ CompleteGangMovesOn

LEMMA UnboundInvariance ==
    ASSUME TypeOK, Unbound, [Next]_vars
    PROVE  Unbound'
<1> SUFFICES ASSUME NEW q \in Pods, stage'[q] \notin {"out", "bound"}
             PROVE  /\ pod'[q] \in {"pending", "absent"}
                    /\ lister'[q] \in {"pending", "absent"}
                    /\ lister'[q] = "absent" => pod'[q] = "absent"
    BY DEF Unbound
<1> USE DEF TypeOK, Unbound
<1>1. ASSUME NEW p \in Pods, Cycle(p) \/ WaitOnPermit(p) \/ Unreserve(p)
                             \/ UnreserveReturn(p) \/ SendVerdict(p)
                             \/ PermitTimeout(p) \/ BindFailure(p) \/ Requeue(p)
      PROVE  /\ pod' = pod /\ lister' = lister
             /\ stage[q] \notin {"out", "bound"}
    BY <1>1 DEF Cycle, PreFilter, FilterAndReserve, PermitCountRunning,
                PermitDecide, PermitRelease, PermitReturn, AddWaitingPod,
                WaitOnPermit, Unreserve, UnreserveReturn, Forget, SendVerdict,
                PermitTimeout, BindFailure, Requeue
<1>2. ASSUME NEW p \in Pods, Bind(p)
      PROVE  /\ pod'[q] = pod[q] /\ lister' = lister
             /\ stage[q] \notin {"out", "bound"}
    BY <1>2 DEF Bind
<1>3. ASSUME NEW p \in Pods, CreatePod(p) \/ DeletePod(p) \/ KubeletStep(p)
      PROVE  /\ pod'[q] \in {pod[q], "absent"} /\ lister' = lister
             /\ stage[q] \notin {"out", "bound"}
    BY <1>3 DEF CreatePod, DeletePod, KubeletStep
<1>4. ASSUME NEW p \in Pods, InformerSync(p)
      PROVE  /\ pod'[q] \in {"pending", "absent"}
             /\ lister'[q] \in {"pending", "absent"}
             /\ lister'[q] = "absent" => pod'[q] = "absent"
    BY <1>4 DEF InformerSync, Selected
<1>5. CASE Restart
    BY <1>5 DEF Restart, Selected, Status
<1>6. CASE UNCHANGED vars
    BY <1>6 DEF vars
<1>7. QED
    BY <1>1, <1>2, <1>3, <1>4, <1>5, <1>6 DEF Next, BindingCycle

LEMMA EndingInvariance ==
    ASSUME TypeOK, Unbound, Ending, [Next]_vars
    PROVE  Ending'
<1> SUFFICES ASSUME NEW q \in Pods, stage'[q] = "bound", ~Active(q)'
             PROVE  Selected(pod'[q]) \in {"absent", "terminating"}
    BY DEF Ending
<1> USE DEF TypeOK, Active, Selected
<1>1. ASSUME NEW p \in Pods, \/ PreFilter(p) \/ FilterAndReserve(p)
                             \/ PermitCountRunning(p) \/ PermitDecide(p)
                             \/ PermitRelease(p) \/ PermitReturn(p)
                             \/ AddWaitingPod(p)
      PROVE  stage[q] = "bound" /\ pod' = pod /\ lister' = lister
    BY <1>1 DEF PreFilter, FilterAndReserve, PermitCountRunning,
                PermitDecide, PermitRelease, PermitReturn, AddWaitingPod
<1>2. ASSUME NEW p \in Pods, \/ WaitOnPermit(p) \/ Unreserve(p)
                             \/ UnreserveReturn(p) \/ SendVerdict(p)
                             \/ PermitTimeout(p) \/ BindFailure(p) \/ Requeue(p)
      PROVE  stage[q] = "bound" /\ pod' = pod /\ lister' = lister
    BY <1>2 DEF WaitOnPermit, Unreserve, UnreserveReturn, Forget, SendVerdict,
                PermitTimeout, BindFailure, Requeue
<1>3. ASSUME NEW p \in Pods, Bind(p)
      PROVE  stage[q] = "bound" /\ pod'[q] = pod[q] /\ lister' = lister
    BY <1>3 DEF Bind, Unbound
<1>4. ASSUME NEW p \in Pods, CreatePod(p) \/ DeletePod(p) \/ KubeletStep(p)
      PROVE  Selected(pod'[q]) \in {"absent", "terminating"}
    BY <1>4 DEF CreatePod, DeletePod, KubeletStep, Ending
<1>5. ASSUME NEW p \in Pods, InformerSync(p)
      PROVE  Selected(pod'[q]) \in {"absent", "terminating"}
    BY <1>5 DEF InformerSync, Ending, Status
<1>6. ASSUME Restart
      PROVE  Selected(pod'[q]) \in {"absent", "terminating"}
    BY <1>6 DEF Restart
<1>7. CASE UNCHANGED vars
    BY <1>7 DEF vars, Ending
<1>8. stage[q] = "bound" /\ pod'[q] = pod[q] /\ lister' = lister
        => Selected(pod'[q]) \in {"absent", "terminating"}
    BY DEF Ending
<1>9. QED
    BY <1>1, <1>2, <1>3, <1>4, <1>5, <1>6, <1>7, <1>8
       DEF Next, Cycle, BindingCycle

\* In a gang of one generation of labels the selectors find every active
\* member.
LEMMA ActiveIsListed ==
    ASSUME NEW g \in Groups, Uniform(g), NEW q \in Pods, GroupName(q) = g,
           Active(q)
    PROVE  q \in ListGroup(Visible, g)
<1>1. q \in Visible /\ NameLabel(q) = g
    BY PodGroupAssumption DEF Visible, Active, GroupName
<1>2. CASE Labels[q].newName = g
    BY <1>1, <1>2 DEF ListGroup
<1>3. CASE \A p \in Pods : Labels[p].newName # g
  <2>1. Labels[q].legacyName = g
    BY <1>1, <1>3 DEF NameLabel
  <2>2. QED
    BY <1>1, <1>3, <2>1 DEF ListGroup, Visible
<1>4. QED
    BY <1>1, <1>2, <1>3 DEF Uniform

\* Only the framework's storing a pod adds to the held pods of a gang: a pod
\* that waits gets no second verdict.
LEMMA HeldShrinks ==
    ASSUME TypeOK, [Next]_vars, ~(\E p \in Pods : AddWaitingPod(p))
    PROVE  \A g : Held(g)' \subseteq Held(g)
<1> SUFFICES ASSUME NEW q \in Pods, stage'[q] = "waiting", signal'[q] = "none"
             PROVE  stage[q] = "waiting" /\ signal[q] = "none"
    BY DEF Held, WaitingOf, WaitingMap
<1>1. stage[q] = "waiting"
    BY WaitingMapShrinks
<1> USE DEF TypeOK
<1>2. ASSUME NEW p \in Pods, \/ PreFilter(p) \/ FilterAndReserve(p)
                             \/ PermitCountRunning(p) \/ PermitDecide(p)
                             \/ PermitRelease(p) \/ PermitReturn(p)
                             \/ Unreserve(p) \/ UnreserveReturn(p)
                             \/ Bind(p) \/ BindFailure(p) \/ Requeue(p)
                             \/ CreatePod(p) \/ DeletePod(p) \/ KubeletStep(p)
      PROVE  signal' = signal
    BY <1>2 DEF PreFilter, FilterAndReserve, PermitCountRunning, PermitDecide,
                PermitRelease, PermitReturn, Unreserve, UnreserveReturn,
                Bind, BindFailure, Requeue, CreatePod, DeletePod, KubeletStep
<1>3. ASSUME NEW p \in Pods, PermitTimeout(p) \/ SendVerdict(p) \/ InformerSync(p)
      PROVE  signal[q] = "none"
    BY <1>3 DEF PermitTimeout, SendVerdict, InformerSync, Send
<1>4. ASSUME NEW p \in Pods, WaitOnPermit(p)
      PROVE  signal[q] = "none"
    BY <1>4 DEF WaitOnPermit
<1>5. ASSUME Restart PROVE FALSE
    BY <1>5 DEF Restart
<1>6. CASE UNCHANGED vars
    BY <1>1, <1>6 DEF vars
<1>7. QED
    BY <1>1, <1>2, <1>3, <1>4, <1>5, <1>6 DEF Next, Cycle, BindingCycle

\* Only Permit's answer, and the restart, make a gang's member one that waits or
\* was let through; the informer never makes it active again.
LEMMA StandingShrinks ==
    ASSUME TypeOK, Unbound, Ending, [Next]_vars, ~Restart,
           ~(\E p \in Pods : PermitDecide(p) \/ PermitReturn(p))
    PROVE  \A g : Standing(g)' \subseteq Standing(g)
<1> DEFINE Stands == {"toWait", "waiting", "binding", "bound"}
<1> SUFFICES ASSUME NEW q \in Pods, IsPodInPodGroup(q), stage'[q] \in Stands,
                    Active(q)'
             PROVE  stage[q] \in Stands /\ Active(q)
    BY DEF Standing, Members
<1> USE DEF TypeOK, Active
<1>1. ASSUME NEW p \in Pods, \/ PreFilter(p) \/ FilterAndReserve(p)
                             \/ PermitCountRunning(p) \/ PermitRelease(p)
                             \/ AddWaitingPod(p)
      PROVE  stage[q] \in Stands /\ Active(q)
    BY <1>1 DEF PreFilter, FilterAndReserve, PermitCountRunning, PermitRelease,
                AddWaitingPod
<1>2. ASSUME NEW p \in Pods, \/ WaitOnPermit(p) \/ Bind(p) \/ Unreserve(p)
                             \/ UnreserveReturn(p) \/ SendVerdict(p)
                             \/ PermitTimeout(p) \/ BindFailure(p) \/ Requeue(p)
      PROVE  stage[q] \in Stands /\ Active(q)
    BY <1>2 DEF WaitOnPermit, Bind, Unreserve, UnreserveReturn, Forget,
                SendVerdict, PermitTimeout, BindFailure, Requeue
<1>3. ASSUME NEW p \in Pods, CreatePod(p) \/ DeletePod(p) \/ KubeletStep(p)
      PROVE  stage[q] \in Stands /\ Active(q)
    BY <1>3 DEF CreatePod, DeletePod, KubeletStep
<1>4. ASSUME NEW p \in Pods, InformerSync(p)
      PROVE  stage[q] \in Stands /\ Active(q)
  <2>1. stage[q] \in Stands
    BY <1>4 DEF InformerSync
  <2>2. CASE p # q
    BY <1>4, <2>1, <2>2 DEF InformerSync
  <2>3. CASE p = q
    <3>1. lister'[q] = Selected(pod[q]) /\ lister[q] # lister'[q]
      BY <1>4, <2>3 DEF InformerSync
    <3>2. CASE stage[q] = "bound"
      BY <2>1, <3>1, <3>2 DEF Ending
    <3>3. CASE stage[q] # "bound"
      BY <2>1, <3>1, <3>3 DEF Unbound, Selected
    <3>4. QED
      BY <3>2, <3>3
  <2>4. QED
    BY <2>2, <2>3
<1>5. CASE UNCHANGED vars
    BY <1>5 DEF vars
<1>6. QED
    BY <1>1, <1>2, <1>3, <1>4, <1>5 DEF Next, Cycle, BindingCycle

\* A gang that Permit is about to let go stays so until the loop is over.
LEMMA OpeningStays ==
    ASSUME TypeOK, [Next]_vars, ~Restart,
           NEW g, ~(\E p \in Members(g) : PermitReturn(p))
    PROVE  Opening(g) => Opening(g)'
<1> SUFFICES ASSUME NEW q \in Members(g), stage[q] \in {"toRelease", "allowing"}
             PROVE  stage'[q] \in {"toRelease", "allowing"}
    BY DEF Opening, Members
<1>0. q \in Pods
    BY DEF Members
<1> USE DEF TypeOK
<1>1. ASSUME NEW p \in Pods, \/ PreFilter(p) \/ FilterAndReserve(p)
                             \/ PermitCountRunning(p) \/ PermitDecide(p)
                             \/ PermitRelease(p) \/ AddWaitingPod(p)
      PROVE  stage'[q] \in {"toRelease", "allowing"}
    BY <1>0, <1>1 DEF PreFilter, FilterAndReserve, PermitCountRunning,
                      PermitDecide, PermitRelease, AddWaitingPod
<1>2. ASSUME NEW p \in Pods, PermitReturn(p)
      PROVE  stage'[q] \in {"toRelease", "allowing"}
    BY <1>0, <1>2 DEF PermitReturn
<1>3. ASSUME NEW p \in Pods, \/ WaitOnPermit(p) \/ Bind(p) \/ Unreserve(p)
                             \/ UnreserveReturn(p) \/ SendVerdict(p)
                             \/ PermitTimeout(p) \/ BindFailure(p) \/ Requeue(p)
      PROVE  stage'[q] \in {"toRelease", "allowing"}
    BY <1>0, <1>3 DEF WaitOnPermit, Bind, Unreserve, UnreserveReturn, Forget,
                      SendVerdict, PermitTimeout, BindFailure, Requeue
<1>4. ASSUME NEW p \in Pods, \/ CreatePod(p) \/ DeletePod(p) \/ KubeletStep(p)
                             \/ InformerSync(p)
      PROVE  stage'[q] \in {"toRelease", "allowing"}
    BY <1>0, <1>4 DEF CreatePod, DeletePod, KubeletStep, InformerSync
<1>5. CASE UNCHANGED vars
    BY <1>5 DEF vars
<1>6. QED
    BY <1>1, <1>2, <1>3, <1>4, <1>5 DEF Next, Cycle, BindingCycle

LEMMA StandingIsFinite ==
    \A g : IsFiniteSet(Standing(g)) /\ Cardinality(Standing(g)) \in Nat
  BY PodGroupAssumption, FS_Subset, FS_CardinalityType DEF Standing, Members

LEMMA StandingIsFiniteNext ==
    \A g : IsFiniteSet(Standing(g)') /\ Cardinality(Standing(g)') \in Nat
  BY PodGroupAssumption, FS_Subset, FS_CardinalityType DEF Standing, Members

\* Permit's count covers all members that wait or were let through; the pod
\* itself is none of them yet.
LEMMA CountCoversStanding ==
    ASSUME CInv, NEW p \in Pods, PermitCountRunning(p)
    PROVE  CountFits'
<1> DEFINE g == GroupName(p)
           running == {q \in ListGroup(Visible, g) : q # p /\ Active(q)}
<1>1. /\ stage[p] = "reserved" /\ stage \in [Pods -> Stages]
      /\ stage'[p] \in {"counted", "binding"}
      /\ UNCHANGED <<lister, signal>>
      /\ \A q \in Pods : q # p => stage'[q] = stage[q]
    BY DEF PermitCountRunning, CInv, BInv, TypeOK
<1>2. \A q \in Pods : q # p => stage'[q] \notin {"counted", "toWait"}
    BY <1>1 DEF CInv, BInv, OneCycle, CycleStages
<1>3. ASSUME stage'[p] = "counted", Uniform(g)
      PROVE  Cardinality(Standing(g)') <= seen'
  <2>1. seen' = Cardinality(running) /\ g \in Groups
    BY <1>1, <1>3, PodGroupAssumption
       DEF PermitCountRunning, CalculateRunningPodsExcluding, IsPodInPodGroup,
           GroupName, NameLabel
  <2>2. Standing(g)' \subseteq running
    <3> SUFFICES ASSUME NEW q \in Standing(g)' PROVE q \in running
        OBVIOUS
    <3>1. /\ q \in Pods /\ GroupName(q) = g /\ Active(q)
          /\ stage'[q] # "counted"
        BY <1>1 DEF Standing, Members, Active
    <3>2. q # p /\ q \in ListGroup(Visible, g)
        BY <1>3, <2>1, <3>1, ActiveIsListed
    <3>3. QED
        BY <3>1, <3>2
  <2>3. IsFiniteSet(running)
    BY PodGroupAssumption, FS_Subset DEF ListGroup, Visible
  <2>4. QED
    BY <2>1, <2>2, <2>3, FS_Subset
<1>4. QED
    BY <1>1, <1>2, <1>3 DEF CountFits

\* When Permit answers Wait, the members that stand, with the pod itself, are
\* fewer than it asks for.
LEMMA DecideKeepsCount ==
    ASSUME CInv, NEW p \in Pods, PermitDecide(p)
    PROVE  CountFits'
<1> DEFINE g == GroupName(p)
           counted == {q \in WaitingMap : g \in {Labels[q].newName,
                                                 Labels[q].legacyName}}
<1>1. /\ stage[p] = "counted" /\ IsPodInPodGroup(p)
      /\ stage' = [stage EXCEPT ![p] = IF QuorumReached(p) THEN "toRelease"
                                                           ELSE "toWait"]
      /\ stage \in [Pods -> Stages] /\ seen \in Nat
      /\ UNCHANGED <<lister, signal>>
    BY DEF PermitDecide, CInv, BInv, TypeOK, CountedAreMembers
<1>2. \A q \in Pods : q # p => stage'[q] \notin {"counted", "toWait"}
    BY <1>1 DEF CInv, BInv, OneCycle, CycleStages
<1>3. ASSUME ~QuorumReached(p), Uniform(g)
      PROVE  Cardinality(Standing(g)') < MinAvailable(p)
  <2>1. Cardinality(Standing(g)) <= seen
    BY <1>1, <1>3 DEF CInv, CountFits
  <2>2. Standing(g)' \subseteq Standing(g) \cup {p} /\ p \notin Standing(g)
    BY <1>1 DEF Standing, Members, Active
  <2>3. /\ IsFiniteSet(Standing(g) \cup {p})
        /\ Cardinality(Standing(g) \cup {p}) = Cardinality(Standing(g)) + 1
    BY <2>2, StandingIsFinite, FS_AddElement
  <2>4. Cardinality(Standing(g)') <= Cardinality(Standing(g)) + 1
    BY <2>2, <2>3, FS_Subset
  <2>5. Cardinality(counted) \in Nat
    BY PodGroupAssumption, FS_Subset, FS_CardinalityType DEF WaitingMap
  <2>6. ~(seen + Cardinality(counted) + 1 >= MinAvailable(p))
    BY <1>3 DEF QuorumReached, CalculateWaitingPods
  <2>7. QED
    BY <1>1, <2>1, <2>4, <2>5, <2>6, StandingIsFinite, StandingIsFiniteNext,
       MinAvailableIsInt
<1>4. /\ stage'[p] = IF QuorumReached(p) THEN "toRelease" ELSE "toWait"
      /\ stage'[p] # "counted"
    BY <1>1
<1>5. QED
    BY <1>2, <1>3, <1>4 DEF CountFits

\* In all other steps no pod is newly counted or told to wait, and the members
\* that stand only become fewer, for the pod is the only one in the cycle.
LEMMA OthersKeepCount ==
    ASSUME CInv, [Next]_vars,
           ~(\E p \in Pods : PermitCountRunning(p) \/ PermitDecide(p))
    PROVE  CountFits'
<1> SUFFICES ASSUME NEW p \in Pods, stage'[p] \in {"counted", "toWait"},
                    Uniform(GroupName(p))
             PROVE  /\ stage'[p] = "counted"
                          => Cardinality(Standing(GroupName(p))') <= seen'
                    /\ stage'[p] = "toWait"
                          => Cardinality(Standing(GroupName(p))')
                               < MinAvailable(p)
    BY DEF CountFits
<1>1. stage[p] = stage'[p] /\ seen' = seen /\ ~Restart
  <2> USE DEF CInv, BInv, TypeOK
  <2>1. ASSUME NEW q \in Pods, Cycle(q)
        PROVE  stage'[p] = stage[p] /\ seen' = seen
    BY <2>1 DEF Cycle, PreFilter, FilterAndReserve, AddWaitingPod,
                PermitRelease, PermitReturn
  <2>2. ASSUME NEW q \in Pods, \/ BindingCycle(q) \/ PermitTimeout(q)
                               \/ BindFailure(q) \/ Requeue(q) \/ SendVerdict(q)
        PROVE  stage'[p] = stage[p] /\ seen' = seen
    BY <2>2 DEF BindingCycle, WaitOnPermit, Bind, Unreserve, UnreserveReturn,
                Forget, PermitTimeout, BindFailure, Requeue, SendVerdict
  <2>3. ASSUME NEW q \in Pods, CreatePod(q) \/ DeletePod(q) \/ KubeletStep(q)
                               \/ InformerSync(q)
        PROVE  stage'[p] = stage[p] /\ seen' = seen
    BY <2>3 DEF CreatePod, DeletePod, KubeletStep, InformerSync
  <2>4. ASSUME Restart PROVE FALSE
    BY <2>4 DEF Restart
  <2>5. ASSUME UNCHANGED vars
        PROVE  stage'[p] = stage[p] /\ seen' = seen
    BY <2>5 DEF vars
  <2>6. QED
    BY <2>1, <2>2, <2>3, <2>4, <2>5 DEF Next
<1>2. ASSUME NEW q \in Pods, PermitReturn(q) PROVE FALSE
  <2>1. p = q
    BY <1>1, <1>2 DEF PermitReturn, CInv, BInv, OneCycle, CycleStages
  <2>2. QED
    BY <1>1, <1>2, <2>1 DEF PermitReturn
<1>3. Standing(GroupName(p))' \subseteq Standing(GroupName(p))
    BY <1>1, <1>2, StandingShrinks DEF CInv, BInv
<1>4. Cardinality(Standing(GroupName(p))') <= Cardinality(Standing(GroupName(p)))
    BY <1>3, StandingIsFinite, FS_Subset
<1>5. CASE stage'[p] = "counted"
  <2>1. Cardinality(Standing(GroupName(p))) <= seen /\ seen \in Nat
    BY <1>1, <1>5 DEF CInv, CountFits, BInv, TypeOK
  <2>2. QED
    BY <1>1, <1>4, <1>5, <2>1, StandingIsFinite, StandingIsFiniteNext
<1>6. CASE stage'[p] = "toWait"
  <2>1. Cardinality(Standing(GroupName(p))) < MinAvailable(p)
    BY <1>1, <1>6 DEF CInv, CountFits
  <2>2. QED
    BY <1>4, <1>6, <2>1, StandingIsFinite, StandingIsFiniteNext,
       MinAvailableIsInt
<1>7. QED
    BY <1>5, <1>6

\* The step that makes a pod wait carries the promise of the decision over to
\* the gang; the loop that lets the gang go ends with nobody held; any other
\* step leaves the held and the standing members as they are or lets some go.
LEMMA MovesOnInvariance ==
    ASSUME CInv, [Next]_vars
    PROVE  CompleteGangMovesOn'
<1> SUFFICES ASSUME NEW g \in Groups, Uniform(g), Held(g)' # {}, ~Opening(g)'
             PROVE  \E m \in Members(g) :
                       Cardinality(Standing(g)') < MinAvailable(m)
    BY DEF CompleteGangMovesOn, Members, Uniform
<1> DEFINE Goal == \E m \in Members(g) :
                      Cardinality(Standing(g)') < MinAvailable(m)
<1>0. TypeOK /\ Unbound /\ Ending
    BY DEF CInv, BInv
<1>1. ASSUME Restart PROVE FALSE
    BY <1>1 DEF Restart, Held, WaitingOf, WaitingMap
<1>2. ASSUME NEW p \in Pods, PermitDecide(p), GroupName(p) = g PROVE Goal
  <2>1. /\ stage[p] = "counted" /\ IsPodInPodGroup(p)
        /\ stage'[p] = IF QuorumReached(p) THEN "toRelease" ELSE "toWait"
    BY <1>0, <1>2 DEF PermitDecide, CInv, BInv, CountedAreMembers, TypeOK
  <2>2. p \in Members(g)
    BY <1>2, <2>1 DEF Members
  <2>3. stage'[p] = "toWait"
    BY <2>1, <2>2 DEF Opening
  <2>4. Cardinality(Standing(g)') < MinAvailable(p)
    BY <1>2, <2>3, DecideKeepsCount DEF CountFits
  <2>5. QED
    BY <2>2, <2>4
<1>3. ASSUME NEW p \in Pods, AddWaitingPod(p), GroupName(p) = g PROVE Goal
  <2>1. stage[p] = "toWait"
    BY <1>3 DEF AddWaitingPod
  <2>2. /\ p \in Members(g)
        /\ Cardinality(Standing(g)) < MinAvailable(p)
    BY <1>3, <2>1 DEF CInv, BInv, WaitFits, CountFits, Members
  <2>3. ASSUME NEW q \in Pods, PermitDecide(q) \/ PermitReturn(q) PROVE FALSE
    <3>1. q = p
      BY <2>1, <2>3 DEF PermitDecide, PermitReturn, CInv, BInv, OneCycle,
                        CycleStages
    <3>2. QED
      BY <2>1, <2>3, <3>1 DEF PermitDecide, PermitReturn
  <2>4. Standing(g)' \subseteq Standing(g)
    BY <1>0, <1>1, <2>3, StandingShrinks
  <2>5. Cardinality(Standing(g)') <= Cardinality(Standing(g))
    BY <2>4, StandingIsFinite, FS_Subset
  <2>6. Cardinality(Standing(g)') < MinAvailable(p)
    BY <2>2, <2>5, StandingIsFinite, StandingIsFiniteNext, MinAvailableIsInt
       DEF Members
  <2>7. QED
    BY <2>2, <2>6
<1>4. ASSUME NEW p \in Pods, PermitReturn(p), GroupName(p) = g PROVE FALSE
  <2>1. /\ stage[p] = "allowing" /\ visit[p] = {} /\ signal' = signal
        /\ ~(\E q \in Pods : AddWaitingPod(q))
    BY <1>4 DEF PermitReturn, AddWaitingPod, MapUnlocked, Looping
  <2>2. \A q \in WaitingOf(g) : signal[q] # "none"
    BY <1>4, <2>1 DEF CInv, BInv, LoopFits, Looping
  <2>3. Held(g) = {}
    BY <2>2 DEF Held
  <2>4. QED
    BY <1>0, <2>1, <2>3, HeldShrinks
<1>5. ASSUME \A p \in Pods : /\ PermitDecide(p) => GroupName(p) # g
                             /\ PermitReturn(p) => GroupName(p) # g
                             /\ AddWaitingPod(p) => GroupName(p) # g
      PROVE  Goal
  <2>1. Held(g)' \subseteq Held(g)
    <3>1. ASSUME NEW p \in Pods, AddWaitingPod(p)
          PROVE  Held(g)' \subseteq Held(g)
      <4>1. /\ GroupName(p) # g
            /\ stage' = [stage EXCEPT ![p] = "waiting"]
            /\ signal' = [signal EXCEPT ![p] = "none"]
          BY <1>5, <3>1 DEF AddWaitingPod
      <4>2. QED
          BY <1>0, <4>1 DEF Held, WaitingOf, WaitingMap, TypeOK
    <3>2. CASE ~(\E p \in Pods : AddWaitingPod(p))
        BY <1>0, <3>2, HeldShrinks
    <3>3. QED
        BY <3>1, <3>2
  <2>2. Standing(g)' \subseteq Standing(g)
    <3>1. ASSUME NEW p \in Pods, PermitDecide(p) \/ PermitReturn(p)
          PROVE  Standing(g)' \subseteq Standing(g)
      <4>1. /\ GroupName(p) # g /\ lister' = lister
            /\ \A q \in Pods : q # p => stage'[q] = stage[q]
          BY <1>0, <1>5, <3>1 DEF PermitDecide, PermitReturn, TypeOK
      <4>2. QED
          BY <4>1 DEF Standing, Members, Active
    <3>2. CASE ~(\E p \in Pods : PermitDecide(p) \/ PermitReturn(p))
        BY <1>0, <1>1, <3>2, StandingShrinks
    <3>3. QED
        BY <3>1, <3>2
  <2>3. ~Opening(g)
    <3>1. ~(\E p \in Members(g) : PermitReturn(p))
        BY <1>5 DEF Members
    <3>2. QED
        BY <1>0, <1>1, <3>1, OpeningStays
  <2>4. PICK m \in Members(g) : Cardinality(Standing(g)) < MinAvailable(m)
    BY <2>1, <2>3 DEF CInv, CompleteGangMovesOn
  <2>5. Cardinality(Standing(g)') <= Cardinality(Standing(g))
    BY <2>2, StandingIsFinite, FS_Subset
  <2>6. MinAvailable(m) \in Int
    BY MinAvailableIsInt DEF Members
  <2>7. Cardinality(Standing(g)') < MinAvailable(m)
    BY <2>4, <2>5, <2>6, StandingIsFinite, StandingIsFiniteNext
  <2>8. QED
    BY <2>7
<1>6. QED
    BY <1>2, <1>3, <1>4, <1>5

\* In a gang of one generation of labels, for every size, every cluster and
\* every order of deletions, timeouts, failed bindings and restarts: once as
\* many members wait or were let through as the largest min-available asks
\* for, none of them is left at Permit without a verdict, except while Permit
\* is letting them go (coscheduling.go, Permit and its two counts).
THEOREM CompleteGangsMoveOn == Spec => []CompleteGangMovesOn
<1>1. Init => CInv
  <2>1. Init => BInv
    BY GangAssumption
       DEF Init, BInv, TypeOK, OneCycle, CountedAreMembers, WaitFits,
           LoopFits, Looping, CycleStages, Status, Stages
  <2>2. Init => Unbound /\ Ending /\ CountFits
    BY DEF Init, Unbound, Ending, CountFits
  <2>3. Init => CompleteGangMovesOn
    BY DEF Init, CompleteGangMovesOn, Held, WaitingOf, WaitingMap
  <2>4. QED
    BY <2>1, <2>2, <2>3 DEF CInv
<1>2. CInv /\ [Next]_vars => CInv'
  <2>1. CInv /\ [Next]_vars => BInv' /\ Unbound' /\ Ending'
    BY BInvariance, UnboundInvariance, EndingInvariance DEF CInv, BInv
  <2>2. CInv /\ [Next]_vars => CountFits'
    BY CountCoversStanding, DecideKeepsCount, OthersKeepCount
  <2>3. QED
    BY <2>1, <2>2, MovesOnInvariance DEF CInv
<1>3. CInv => CompleteGangMovesOn
    BY DEF CInv
<1>4. QED
    BY <1>1, <1>2, <1>3, PTL DEF Spec
=============================================================================
