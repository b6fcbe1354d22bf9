-------------------- MODULE ResourceReservationProofs --------------------
(***************************************************************************)
(* Proofs about ResourceReservation, for any pods and gangs, any number of *)
(* failed API calls and restarts, with and without PostBind.               *)
(***************************************************************************)
EXTENDS ResourceReservation, TLAPS

\* The copy of a process that is fresh is of an object that exists, and once
\* the process acts on it the object is condemned.
CopyOK(i) ==
    /\ pc[i] \in {"put", "delete"} \/ (i = Cleaner /\ pc[i] = "check")
    /\ GangOf(i) \in Groups =>
         /\ crd[GangOf(i)].exists
         /\ pc[i] \in {"put", "delete"} => crd[GangOf(i)].condemned

CopiesOK == \A i \in fresh : CopyOK(i)

\* An object that has lost its finalizer is condemned.
BareIsCondemned ==
    \A g \in Groups : crd[g].exists /\ ~crd[g].finalizer => crd[g].condemned

-----------------------------------------------------------------------------
\* Settling an object keeps it one, and removes it only without a finalizer.
LEMMA SettleType == \A r \in Reservation :
                        /\ Settle(r) \in Reservation
                        /\ ~r.finalizer \/ Settle(r) = r
                        /\ Settle(r) = r \/ Settle(r) = NoReservation
  BY DEF Settle, Reservation, NoReservation

LEMMA FieldUpdates ==
    \A r \in Reservation :
        /\ [r EXCEPT !.finalizer = FALSE] \in Reservation
        /\ [r EXCEPT !.deleting = TRUE] \in Reservation
        /\ [r EXCEPT !.old = TRUE] \in Reservation
        /\ [r EXCEPT !.condemned = TRUE] \in Reservation
  BY DEF Reservation

LEMMA NewReservationType ==
    /\ NewReservation \in Reservation /\ NoReservation \in Reservation
    /\ NewReservation.exists /\ NewReservation.finalizer
    /\ ~NoReservation.exists
  BY DEF NewReservation, Reservation, NoReservation

-----------------------------------------------------------------------------
(* Types.                                                                  *)

LEMMA TypeInit == Init => TypeOK
  BY ReservationAssumption, NewReservationType
  DEF Init, TypeOK, Idle, Procs, PodStatus

LEMMA TypeStep == TypeOK /\ [Next]_vars => TypeOK'
<1> SUFFICES ASSUME TypeOK, [Next]_vars PROVE TypeOK'
    OBVIOUS
<1> USE ReservationAssumption, NewReservationType, SettleType
<1>1. CASE PreFilterStep
  <2>1. CASE PreFilterCreate
    BY <2>1 DEF PreFilterCreate, PreFilterSucceeds, Outdate, TypeOK, Fault,
                NoFault, Idle, Procs, PodStatus
  <2>2. CASE PreFilterFetch
    BY <2>2 DEF PreFilterFetch, PreFilterSucceeds, TypeOK, Fault, NoFault,
                Idle, PodStatus
  <2>3. CASE PreFilterUndo
    BY <2>3 DEF PreFilterUndo, TypeOK, Idle
  <2>4. QED
    BY <1>1, <2>1, <2>2, <2>3 DEF PreFilterStep
<1>2. ASSUME NEW p \in Pods, PreFilterStart(p)
      PROVE  TypeOK'
    BY <1>2, PodGroupAssumption
    DEF PreFilterStart, TypeOK, PodStatus, IsPodInPodGroup, GroupName, NameLabel
<1>3. ASSUME NEW i \in Procs, RemoveFinalizer(i)
      PROVE  TypeOK'
  <2>1. \A g \in Groups : [crd[g] EXCEPT !.finalizer = FALSE] \in Reservation
    BY FieldUpdates DEF TypeOK
  <2>2. crd' \in [Groups -> Reservation]
    BY <1>3, <2>1 DEF RemoveFinalizer, TypeOK
  <2>3. QED
    BY <1>3, <2>2 DEF RemoveFinalizer, TypeOK, Outdate, Fault, NoFault, Procs
<1>4. ASSUME NEW i \in Procs, DeleteSucceeds(i) \/ DeleteFails(i)
      PROVE  /\ crd' \in [Groups -> Reservation] /\ fresh' \subseteq Procs
             /\ faults' \in 0..MaxFaults
  <2>1. \A g \in Groups : [crd[g] EXCEPT !.deleting = TRUE] \in Reservation
    BY FieldUpdates DEF TypeOK
  <2>2. QED
    BY <1>4, <2>1 DEF DeleteSucceeds, DeleteFails, TypeOK, Outdate, Fault, NoFault
<1>5. ASSUME NEW p \in Pods, PostBindStep(p)
      PROVE  TypeOK'
  <2>1. CASE PostBindCheck(p)
    BY <2>1 DEF PostBindCheck, TypeOK, Procs
  <2>2. CASE PostBindList(p)
    <3>1. \A g \in Groups : [crd[g] EXCEPT !.condemned = TRUE] \in Reservation
      BY FieldUpdates DEF TypeOK
    <3>2. crd' \in [Groups -> Reservation]
      BY <2>2, <3>1 DEF PostBindList, TypeOK
    <3>3. QED
      BY <2>2, <3>2 DEF PostBindList, TypeOK, Procs, Fault, NoFault
  <2>3. CASE RemoveFinalizer(p)
    BY <2>3, <1>3 DEF Procs
  <2>4. CASE PostBindDelete(p)
    BY <2>4, <1>4 DEF PostBindDelete, TypeOK, Procs
  <2>5. CASE PostBindUntrack(p)
    BY <2>5 DEF PostBindUntrack, TypeOK, Procs
  <2>6. QED
    BY <1>5, <2>1, <2>2, <2>3, <2>4, <2>5 DEF PostBindStep
<1>6. CASE CleanupStep
  <2>1. CASE CleanupList
    BY <2>1 DEF CleanupList, TypeOK, Procs, Fault, NoFault
  <2>2. CASE CleanupCheck
    <3>1. \A g \in Groups : [crd[g] EXCEPT !.condemned = TRUE] \in Reservation
      BY FieldUpdates DEF TypeOK
    <3>2. crd' \in [Groups -> Reservation]
      BY <2>2, <3>1 DEF CleanupCheck, TypeOK
    <3>3. QED
      BY <2>2, <3>2 DEF CleanupCheck, TypeOK, Procs
  <2>3. CASE RemoveFinalizer(Cleaner)
    BY <2>3, <1>3 DEF Procs
  <2>4. CASE CleanupDelete
    BY <2>4, <1>4 DEF CleanupDelete, TypeOK, Procs
  <2>5. CASE CleanupUntrack
    BY <2>5 DEF CleanupUntrack, TypeOK, Procs
  <2>6. CASE \E g \in Groups : CleanupNext(g)
    BY <2>6 DEF CleanupNext, TypeOK, Procs
  <2>7. QED
    BY <1>6, <2>1, <2>2, <2>3, <2>4, <2>5, <2>6 DEF CleanupStep
<1>7. CASE CleanupTick
    BY <1>7 DEF CleanupTick, TypeOK
<1>8. ASSUME NEW p \in Pods, PodStep(p) \/ KubeletStep(p) \/ DeletePod(p)
      PROVE  TypeOK'
    BY <1>8 DEF PodStep, KubeletStep, DeletePod, TypeOK, Procs, PodStatus
<1>9. ASSUME NEW g \in Groups, ReservationAges(g)
      PROVE  TypeOK'
  <2>1. [crd[g] EXCEPT !.old = TRUE] \in Reservation
    BY FieldUpdates DEF TypeOK
  <2>2. QED
    BY <1>9, <2>1 DEF ReservationAges, TypeOK
<1>10. CASE Restart
    BY <1>10 DEF Restart, TypeOK, Fault, Idle, Procs, PodStatus
<1>11. CASE UNCHANGED vars
    BY <1>11 DEF vars, TypeOK
<1>12. QED
    BY <1>1, <1>2, <1>5, <1>6, <1>7, <1>8, <1>9, <1>10, <1>11 DEF Next

\* The plugin's map, the stored objects and the cleanup's loop variables stay
\* within their types, the current gang of the cleanup included.
THEOREM TypeCorrect == Spec => []TypeOK
  BY TypeInit, TypeStep, PTL DEF Spec

-----------------------------------------------------------------------------
(* The map.                                                                *)

LEMMA TrackedStep ==
    TypeOK /\ TrackedWasConfirmed /\ [Next]_vars => TrackedWasConfirmed'
<1> SUFFICES ASSUME TypeOK, TrackedWasConfirmed, [Next]_vars
             PROVE  TrackedWasConfirmed'
    OBVIOUS
<1> USE DEF TrackedWasConfirmed
<1>1. CASE PreFilterStep
  <2>1. CASE PreFilterSucceeds /\ tracked' = tracked
    BY <2>1 DEF PreFilterSucceeds
  <2>2. CASE pre.step # "idle" /\ tracked' = tracked /\ confirmed' = confirmed
             /\ \E x \in {"fetch", "undo"} : pre' = [pre EXCEPT !.step = x]
    <3>1. pre'.gang = pre.gang
      BY <2>2 DEF TypeOK, Idle
    <3>2. QED
      BY <2>2, <3>1
  <2>3. CASE PreFilterUndo
    BY <2>3 DEF PreFilterUndo
  <2>4. QED
    BY <1>1, <2>1, <2>2, <2>3
    DEF PreFilterStep, PreFilterCreate, PreFilterFetch
<1>2. ASSUME NEW p \in Pods, PreFilterStart(p)
      PROVE  TrackedWasConfirmed'
  <2>1. pre.gang = NoGang /\ NoGang \notin tracked
    BY <1>2, ReservationAssumption DEF PreFilterStart, TypeOK, Idle
  <2>2. tracked \subseteq confirmed
    BY <2>1
  <2>3. QED
    BY <1>2, <2>2 DEF PreFilterStart
<1>3. ASSUME NEW p \in Pods, PostBindStep(p)
      PROVE  TrackedWasConfirmed'
    BY <1>3 DEF PostBindStep, PostBindCheck, PostBindList, RemoveFinalizer,
                PostBindDelete, PostBindUntrack
<1>4. CASE CleanupStep \/ CleanupTick
    BY <1>4 DEF CleanupStep, CleanupTick, CleanupList, CleanupCheck,
                RemoveFinalizer, CleanupDelete, CleanupUntrack, CleanupNext
<1>5. ASSUME NEW p \in Pods, PodStep(p) \/ KubeletStep(p) \/ DeletePod(p)
      PROVE  TrackedWasConfirmed'
    BY <1>5 DEF PodStep, KubeletStep, DeletePod
<1>6. ASSUME NEW g \in Groups, ReservationAges(g)
      PROVE  TrackedWasConfirmed'
    BY <1>6 DEF ReservationAges
<1>7. CASE Restart
    BY <1>7 DEF Restart
<1>8. CASE UNCHANGED vars
    BY <1>8 DEF vars
<1>9. QED
    BY <1>1, <1>2, <1>3, <1>4, <1>5, <1>6, <1>7, <1>8 DEF Next

\* gangReservationsCreated claims a reservation only for gangs whose
\* reservation the API server has confirmed since the gang was put on the map:
\* no failing call, in whatever order, leaves a gang behind.
THEOREM TrackedIsConfirmed == Spec => []TrackedWasConfirmed
<1>1. Init => TrackedWasConfirmed
    BY DEF Init, TrackedWasConfirmed
<1>2. QED
    BY <1>1, TrackedStep, TypeCorrect, PTL DEF Spec

-----------------------------------------------------------------------------
(* The objects.                                                            *)

\* Which fields an update leaves alone.
LEMMA FieldsKept ==
    \A r \in Reservation :
        /\ LET s == [r EXCEPT !.finalizer = FALSE] IN
             s.exists = r.exists /\ s.condemned = r.condemned
        /\ LET s == [r EXCEPT !.deleting = TRUE] IN
             /\ s.exists = r.exists /\ s.condemned = r.condemned
             /\ s.finalizer = r.finalizer
        /\ LET s == [r EXCEPT !.old = TRUE] IN
             /\ s.exists = r.exists /\ s.condemned = r.condemned
             /\ s.finalizer = r.finalizer
        /\ LET s == [r EXCEPT !.condemned = TRUE] IN
             /\ s.exists = r.exists /\ s.condemned
             /\ s.finalizer = r.finalizer
  BY DEF Reservation

\* A copy stays good while its process does not move and its object is not
\* written, apart from fields that only ever become true.
LEMMA CopiesFrame ==
    ASSUME CopiesOK,
           \A i \in fresh' :
               /\ i \in fresh /\ pc'[i] = pc[i]
               /\ i = Cleaner => target' = target
               /\ GangOf(i) \in Groups =>
                    /\ crd[GangOf(i)].exists => crd'[GangOf(i)].exists
                    /\ crd[GangOf(i)].condemned => crd'[GangOf(i)].condemned
    PROVE  CopiesOK'
<1> SUFFICES ASSUME NEW i \in fresh' PROVE CopyOK(i)'
    BY DEF CopiesOK
<1>1. GangOf(i)' = GangOf(i)
    BY DEF GangOf
<1>2. CopyOK(i)
    BY DEF CopiesOK
<1>3. QED
    BY <1>1, <1>2 DEF CopyOK

\* What FinalizerProtects says of one step.
Protects ==
    \A g \in Groups : crd[g].exists /\ ~crd'[g].exists => crd[g].condemned

LEMMA ObjectStep ==
    ASSUME TypeOK, CopiesOK, BareIsCondemned, [Next]_vars
    PROVE  CopiesOK' /\ BareIsCondemned' /\ Protects
<1> DEFINE Goal == CopiesOK' /\ BareIsCondemned' /\ Protects
<1> SUFFICES Goal
    OBVIOUS
<1>0. ASSUME crd' = crd,
             \A i \in fresh' : /\ i \in fresh /\ pc'[i] = pc[i]
                               /\ i = Cleaner => target' = target
      PROVE  Goal
  <2>1. CopiesOK'
    BY <1>0, CopiesFrame
  <2>2. QED
    BY <1>0, <2>1 DEF BareIsCondemned, Protects
<1>1. CASE PreFilterStep
  <2>1. CASE crd' = crd
    BY <1>0, <1>1, <2>1 DEF PreFilterStep, PreFilterCreate, PreFilterFetch,
                            PreFilterUndo, Outdate
  <2>2. CASE PreFilterCreate /\ crd' # crd
    <3>1. /\ pre.gang \in Groups /\ ~crd[pre.gang].exists
          /\ crd' = [crd EXCEPT ![pre.gang] = NewReservation]
          /\ Outdate(pre.gang) /\ pc' = pc /\ target' = target
      BY <2>2, ReservationAssumption DEF PreFilterCreate, TypeOK, Idle
    <3>2. CopiesOK'
      BY <3>1, CopiesFrame DEF Outdate, TypeOK
    <3>3. QED
      BY <3>1, <3>2, NewReservationType DEF BareIsCondemned, Protects, TypeOK
  <2>3. QED
    BY <1>1, <2>1, <2>2 DEF PreFilterStep, PreFilterFetch, PreFilterUndo
<1>2. ASSUME NEW p \in Pods, PreFilterStart(p) \/ PodStep(p) \/ KubeletStep(p)
                             \/ DeletePod(p)
      PROVE  Goal
  <2>1. crd' = crd /\ target' = target /\ fresh' = fresh
    BY <1>2 DEF PreFilterStart, PodStep, KubeletStep, DeletePod
  <2>2. \A i \in fresh : pc'[i] = pc[i]
    BY <1>2 DEF PreFilterStart, PodStep, KubeletStep, DeletePod, CopiesOK,
                CopyOK, TypeOK
  <2>3. QED
    BY <1>0, <2>1, <2>2
<1>3. ASSUME NEW i \in Procs, RemoveFinalizer(i)
      PROVE  Goal
  <2>1. CASE crd' = crd /\ fresh' = fresh
    <3>1. target' = target
      BY <1>3 DEF RemoveFinalizer
    <3>2. ASSUME NEW j \in fresh PROVE CopyOK(j)'
      <4>1. CopyOK(j) /\ GangOf(j)' = GangOf(j)
        BY <3>1 DEF CopiesOK, GangOf
      <4>2. pc'[j] = pc[j] \/ (pc[j] = "put" /\ pc'[j] = "delete")
        BY <1>3 DEF RemoveFinalizer, TypeOK
      <4>3. QED
        BY <2>1, <4>1, <4>2 DEF CopyOK
    <3>3. QED
      BY <2>1, <3>2 DEF CopiesOK, BareIsCondemned, Protects
  <2>2. CASE i \in fresh /\ Outdate(GangOf(i))
             /\ crd' = [crd EXCEPT ![GangOf(i)] =
                          Settle([@ EXCEPT !.finalizer = FALSE])]
    <3>1. CopyOK(i) /\ pc[i] = "put"
      BY <1>3, <2>2 DEF CopiesOK, RemoveFinalizer
    <3>2. CopiesOK'
      BY <1>3, <2>2, CopiesFrame DEF RemoveFinalizer, Outdate, TypeOK
    <3>3. CASE GangOf(i) \notin Groups
      BY <2>2, <3>2, <3>3 DEF TypeOK, BareIsCondemned, Protects
    <3>4. CASE GangOf(i) \in Groups
      <4> DEFINE r == [crd[GangOf(i)] EXCEPT !.finalizer = FALSE]
      <4>1. r \in Reservation /\ r.condemned /\ crd[GangOf(i)].condemned
        BY <3>1, <3>4, FieldUpdates, FieldsKept DEF TypeOK, CopyOK
      <4>2. crd'[GangOf(i)] = r \/ crd'[GangOf(i)] = NoReservation
        BY <2>2, <3>4, <4>1, SettleType DEF TypeOK
      <4>3. \A g \in Groups : g # GangOf(i) => crd'[g] = crd[g]
        BY <2>2 DEF TypeOK
      <4>4. QED
        BY <3>2, <4>1, <4>2, <4>3, NewReservationType
        DEF BareIsCondemned, Protects
    <3>5. QED
      BY <3>3, <3>4
  <2>3. QED
    BY <1>3, <2>1, <2>2 DEF RemoveFinalizer
<1>4. ASSUME NEW i \in Procs, DeleteSucceeds(i) \/ DeleteFails(i),
             \A j \in Procs : j # i => pc'[j] = pc[j],
             i # Cleaner => target' = target
      PROVE  Goal
  <2>0. \A j \in fresh : j \in Procs
    BY DEF TypeOK
  <2>1. CASE DeleteFails(i)
    <3>1. \A j \in fresh' : /\ j \in fresh /\ pc'[j] = pc[j]
                            /\ j = Cleaner => target' = target
      BY <1>4, <2>0, <2>1 DEF DeleteFails
    <3>2. QED
      BY <1>0, <2>1, <3>1 DEF DeleteFails
  <2>2. CASE DeleteSucceeds(i)
    <3>1. CopiesOK'
      <4>1. \A j \in fresh' : /\ j \in fresh /\ GangOf(j) # GangOf(i)
                              /\ j # i /\ pc'[j] = pc[j]
                              /\ j = Cleaner => target' = target
        BY <1>4, <2>0, <2>2 DEF DeleteSucceeds, Outdate
      <4>2. \A g \in Groups : g # GangOf(i) => crd'[g] = crd[g]
        BY <2>2 DEF DeleteSucceeds, TypeOK
      <4>3. QED
        BY <4>1, <4>2, CopiesFrame
    <3>2. CASE GangOf(i) \notin Groups
      BY <2>2, <3>1, <3>2 DEF DeleteSucceeds, TypeOK, BareIsCondemned, Protects
    <3>3. CASE GangOf(i) \in Groups
      <4> DEFINE o == crd[GangOf(i)]
                 r == [o EXCEPT !.deleting = TRUE]
      <4>1. /\ r \in Reservation /\ o.exists /\ r.finalizer = o.finalizer
            /\ r.condemned = o.condemned /\ r.exists = o.exists
        BY <2>2, <3>3, FieldUpdates, FieldsKept DEF TypeOK, DeleteSucceeds
      <4>2. crd'[GangOf(i)] = Settle(r)
        BY <2>2, <3>3 DEF DeleteSucceeds, TypeOK
      <4>3. \A g \in Groups : g # GangOf(i) => crd'[g] = crd[g]
        BY <2>2 DEF DeleteSucceeds, TypeOK
      <4>4. o.finalizer \/ o.condemned
        BY <3>3, <4>1 DEF BareIsCondemned
      <4>5. \/ crd'[GangOf(i)] = r
            \/ crd'[GangOf(i)] = NoReservation /\ ~o.finalizer
        BY <4>1, <4>2, SettleType
      <4>6. BareIsCondemned'
        BY <4>1, <4>3, <4>4, <4>5, NewReservationType DEF BareIsCondemned
      <4>7. Protects
        BY <4>1, <4>3, <4>4, <4>5, NewReservationType DEF Protects
      <4>8. QED
        BY <3>1, <4>6, <4>7
    <3>4. QED
      BY <3>2, <3>3
  <2>3. QED
    BY <1>4, <2>1, <2>2
<1>5. ASSUME NEW p \in Pods, PostBindStep(p)
      PROVE  Goal
  <2>1. CASE PostBindCheck(p) \/ PostBindUntrack(p)
    <3>1. p \notin fresh
      BY <2>1, ReservationAssumption
      DEF PostBindCheck, PostBindUntrack, CopiesOK, CopyOK
    <3>2. QED
      BY <1>0, <2>1, <3>1 DEF PostBindCheck, PostBindUntrack, TypeOK
  <2>2. CASE PostBindList(p)
    <3>1. p \notin fresh /\ p # Cleaner
      BY <2>2, ReservationAssumption DEF PostBindList, CopiesOK, CopyOK
    <3>2. CASE crd' = crd /\ fresh' = fresh
      BY <1>0, <2>2, <3>1, <3>2 DEF PostBindList, TypeOK
    <3>3. CASE /\ crd[GroupName(p)].exists
               /\ crd' = [crd EXCEPT ![GroupName(p)].condemned = TRUE]
               /\ fresh' = fresh \cup {p}
               /\ pc' = [pc EXCEPT ![p] = IF crd[GroupName(p)].finalizer
                                         THEN "put" ELSE "delete"]
      <4>1. \A g \in Groups :
              /\ crd'[g].exists = crd[g].exists
              /\ crd'[g].finalizer = crd[g].finalizer
              /\ crd[g].condemned => crd'[g].condemned
              /\ g = GroupName(p) => crd'[g].condemned
        BY <3>3, FieldsKept DEF TypeOK
      <4>2. target' = target
        BY <2>2 DEF PostBindList
      <4>3. ASSUME NEW i \in fresh' PROVE CopyOK(i)'
        <5>1. GangOf(i)' = GangOf(i)
          BY <4>2 DEF GangOf
        <5>2. CASE i = p
          <6>1. GangOf(i) = GroupName(p)
            BY <5>2, <3>1 DEF GangOf
          <6>2. pc'[i] \in {"put", "delete"}
            BY <3>3, <5>2 DEF TypeOK, Procs
          <6>3. QED
            BY <3>3, <4>1, <5>1, <6>1, <6>2 DEF CopyOK
        <5>3. CASE i # p
          <6>1. CopyOK(i) /\ pc'[i] = pc[i]
            BY <3>3, <5>3 DEF CopiesOK, TypeOK
          <6>2. QED
            BY <4>1, <5>1, <6>1 DEF CopyOK
        <5>4. QED
          BY <5>2, <5>3
      <4>4. QED
        BY <4>1, <4>3 DEF CopiesOK, BareIsCondemned, Protects
    <3>4. QED
      BY <2>2, <3>2, <3>3 DEF PostBindList
  <2>3. CASE RemoveFinalizer(p)
    BY <2>3, <1>3 DEF Procs
  <2>4. CASE PostBindDelete(p)
    BY <2>4, <1>4 DEF PostBindDelete, TypeOK, Procs
  <2>5. QED
    BY <1>5, <2>1, <2>2, <2>3, <2>4 DEF PostBindStep
<1>6. CASE CleanupStep
  <2>1. CASE CleanupUntrack \/ \E g \in Groups : CleanupNext(g)
    <3>1. Cleaner \notin fresh
      BY <2>1 DEF CleanupUntrack, CleanupNext, CopiesOK, CopyOK
    <3>2. QED
      BY <1>0, <2>1, <3>1 DEF CleanupUntrack, CleanupNext, TypeOK
  <2>2. CASE CleanupList
    <3>1. Cleaner \notin fresh
      BY <2>2 DEF CleanupList, CopiesOK, CopyOK
    <3>2. CASE fresh' = fresh
      BY <1>0, <2>2, <3>1, <3>2 DEF CleanupList, TypeOK
    <3>3. CASE /\ crd[target].exists /\ pc' = [pc EXCEPT ![Cleaner] = "check"]
               /\ fresh' = fresh \cup {Cleaner} /\ target' = target
      <4>1. crd' = crd
        BY <2>2 DEF CleanupList
      <4>2. ASSUME NEW i \in fresh' PROVE CopyOK(i)'
        <5>1. GangOf(i)' = GangOf(i)
          BY <3>3 DEF GangOf
        <5>2. CASE i = Cleaner
          BY <3>3, <4>1, <5>1, <5>2 DEF CopyOK, GangOf, TypeOK, Procs
        <5>3. CASE i # Cleaner
          BY <3>3, <4>1, <5>1, <5>3 DEF CopiesOK, CopyOK, TypeOK
        <5>4. QED
          BY <5>2, <5>3
      <4>3. QED
        BY <4>1, <4>2 DEF CopiesOK, BareIsCondemned, Protects
    <3>4. QED
      BY <2>2, <3>2, <3>3 DEF CleanupList
  <2>3. CASE CleanupCheck
    <3>1. CASE fresh' = fresh \ {Cleaner} /\ crd' = crd
      BY <1>0, <2>3, <3>1 DEF CleanupCheck, TypeOK
    <3>2. CASE /\ crd' = IF Cleaner \in fresh
                         THEN [crd EXCEPT ![target].condemned = TRUE] ELSE crd
               /\ pc'[Cleaner] \in {"put", "delete"}
               /\ target' = target /\ fresh' = fresh
      <4>1. \A g \in Groups :
              /\ crd'[g].exists = crd[g].exists
              /\ crd'[g].finalizer = crd[g].finalizer
              /\ crd[g].condemned => crd'[g].condemned
              /\ g = target /\ Cleaner \in fresh => crd'[g].condemned
        BY <3>2, FieldsKept DEF TypeOK
      <4>2. \A i \in fresh : i # Cleaner => pc'[i] = pc[i]
        BY <2>3 DEF CleanupCheck, TypeOK
      <4>3. ASSUME NEW i \in fresh' PROVE CopyOK(i)'
        <5>1. CopyOK(i) /\ GangOf(i)' = GangOf(i)
          BY <3>2 DEF CopiesOK, GangOf
        <5>2. CASE i = Cleaner
          BY <3>2, <4>1, <5>1, <5>2 DEF CopyOK, GangOf
        <5>3. CASE i # Cleaner
          BY <3>2, <4>1, <4>2, <5>1, <5>3 DEF CopyOK
        <5>4. QED
          BY <5>2, <5>3
      <4>4. QED
        BY <4>1, <4>3 DEF CopiesOK, BareIsCondemned, Protects
    <3>3. QED
      BY <2>3, <3>1, <3>2 DEF CleanupCheck, TypeOK, Procs
  <2>4. CASE RemoveFinalizer(Cleaner)
    BY <2>4, <1>3 DEF Procs
  <2>5. CASE CleanupDelete
    BY <2>5, <1>4 DEF CleanupDelete, TypeOK, Procs
  <2>6. QED
    BY <1>6, <2>1, <2>2, <2>3, <2>4, <2>5 DEF CleanupStep
<1>7. CASE CleanupTick \/ UNCHANGED vars
    BY <1>0, <1>7 DEF CleanupTick, vars
<1>8. ASSUME NEW g \in Groups, ReservationAges(g)
      PROVE  Goal
  <2>1. \A h \in Groups : /\ crd'[h].exists = crd[h].exists
                          /\ crd'[h].finalizer = crd[h].finalizer
                          /\ crd'[h].condemned = crd[h].condemned
    BY <1>8, FieldsKept DEF ReservationAges, TypeOK
  <2>2. CopiesOK'
    BY <1>8, <2>1, CopiesFrame DEF ReservationAges
  <2>3. QED
    BY <2>1, <2>2 DEF BareIsCondemned, Protects
<1>9. CASE Restart
    BY <1>9 DEF Restart, CopiesOK, BareIsCondemned, Protects
<1>10. QED
    BY <1>1, <1>2, <1>5, <1>6, <1>7, <1>8, <1>9 DEF Next

\* No interleaving of a late DELETE by name, a re-created object, failed calls
\* and restarts removes a reservation that nobody has judged: the finalizer
\* stands between them.
THEOREM ReservationsProtected == Spec => FinalizerProtects
<1>1. Init => CopiesOK /\ BareIsCondemned
    BY NewReservationType DEF Init, CopiesOK, BareIsCondemned
<1>2. Protects <=> \A g \in Groups :
          crd[g].exists /\ ~crd'[g].exists => crd[g].condemned
    BY DEF Protects
<1>3. QED
    BY <1>1, <1>2, ObjectStep, TypeCorrect, PTL DEF Spec, FinalizerProtects
=============================================================================
