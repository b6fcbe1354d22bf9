------------------------ MODULE ResourceReservation ------------------------
(***************************************************************************)
(* The ResourceReservation plugin                                          *)
(* (pkg/plugins/resourcereservation/resourcereservation.go): one           *)
(* reservation object per gang at the API server, created by PreFilter,    *)
(* deleted by PostBind once the gang runs, or by the cleanup goroutine     *)
(* after reservationTTL; and the in-memory map gangReservationsCreated     *)
(* that says which gangs have one.                                         *)
(*                                                                         *)
(* PreFilter runs in the one scheduling cycle, PostBind in the binding     *)
(* cycle of each pod, the cleanup in a goroutine of its own.  Every API    *)
(* call is a step: it may fail, and others run between two calls.          *)
(***************************************************************************)
EXTENDS PodGroups

CONSTANTS PostBindEnabled,  \* does the profile call PostBind?
          Cleaner,    \* the cleanup goroutine
          NoGang,     \* no gang is being worked on
          MaxFaults   \* bound on failed API calls and scheduler restarts

ASSUME ReservationAssumption ==
    /\ PostBindEnabled \in BOOLEAN
    /\ Cleaner \notin Pods
    /\ NoGang \notin Groups
    /\ MaxFaults \in Nat

VARIABLES view,       \* the pods as the informer shows them
          crd,        \* the reservation of each gang at the API server
          tracked,    \* gangReservationsCreated
          confirmed,  \* history: tracked gangs whose reservation the API confirmed
          pre,        \* the PreFilter call under way
          pc,         \* next call of each PostBind and of the cleanup
          todo,       \* gangs the running cleanup has still to visit
          target,     \* the gang the cleanup works on
          fresh,      \* processes whose listed copy is the stored version
          faults

vars == <<view, crd, tracked, confirmed, pre, pc, todo, target, fresh, faults>>

Procs == Pods \cup {Cleaner}

\* "done" is a pod that has finished: the informer no longer lists it.
\* "stopping" is a pod deleted before it ran, "terminating" one deleted while
\* it ran.
PodStatus == {"absent", "pending", "passed", "bound", "running", "done",
              "stopping", "terminating"}

\* condemned is history: a process that judged the gang complete or gone has
\* seen this very object in its list.
Reservation == [exists: BOOLEAN, finalizer: BOOLEAN, deleting: BOOLEAN,
                old: BOOLEAN, condemned: BOOLEAN]

NoReservation == [exists |-> FALSE, finalizer |-> FALSE, deleting |-> FALSE,
                  old |-> FALSE, condemned |-> FALSE]

Idle == [step |-> "idle", gang |-> NoGang, pod |-> NoGang]

TypeOK ==
    /\ view \in [Pods -> PodStatus]
    /\ crd \in [Groups -> Reservation]
    /\ tracked \subseteq Groups
    /\ confirmed \subseteq Groups
    /\ pre \in {Idle} \cup [step: {"create", "fetch", "undo"},
                            gang: Groups, pod: Pods]
    /\ pc \in [Procs -> {"idle", "check", "list", "put", "delete", "untrack"}]
    /\ todo \subseteq Groups
    /\ target \in IF pc[Cleaner] = "idle" THEN {NoGang} ELSE Groups
    /\ fresh \subseteq Procs
    /\ faults \in 0..MaxFaults

Init ==
    /\ view = [p \in Pods |-> "absent"]
    /\ crd = [g \in Groups |-> NoReservation]
    /\ tracked = {} /\ confirmed = {}
    /\ pre = Idle
    /\ pc = [i \in Procs |-> "idle"]
    /\ todo = {} /\ target = NoGang
    /\ fresh = {}
    /\ faults = 0

Fault == faults < MaxFaults /\ faults' = faults + 1
NoFault == UNCHANGED faults

\* The gang a process works on.
GangOf(i) == IF i = Cleaner THEN target ELSE GroupName(i)

\* A write to the reservation of g outdates every copy of it.
Outdate(g) == fresh' = {i \in fresh : GangOf(i) # g}

\* What the API server is left with once the finalizer is off or the deletion
\* asked for: the object disappears when both are true.
Settle(r) == IF r.deleting /\ ~r.finalizer THEN NoReservation ELSE r

-----------------------------------------------------------------------------
(* PreFilter.                                                              *)

\* A member of a tracked gang passes at once; for an untracked one LoadOrStore
\* tracks the gang first and the reservation is created afterwards.
PreFilterStart(p) ==
    /\ pre.step = "idle" /\ view[p] = "pending" /\ IsPodInPodGroup(p)
    /\ IF GroupName(p) \in tracked
       THEN /\ view' = [view EXCEPT ![p] = "passed"]
            /\ UNCHANGED <<tracked, pre>>
       ELSE /\ tracked' = tracked \cup {GroupName(p)}
            /\ pre' = [step |-> "create", gang |-> GroupName(p), pod |-> p]
            /\ UNCHANGED view
    /\ UNCHANGED <<crd, confirmed, pc, todo, target, fresh, faults>>

PreFilterSucceeds ==
    /\ view' = [view EXCEPT ![pre.pod] = IF @ = "pending" THEN "passed" ELSE @]
    /\ confirmed' = confirmed \cup {pre.gang}
    /\ pre' = Idle

\* Mutation of NewReservation: the object is posted without the finalizer.
UnprotectedReservation == [NoReservation EXCEPT !.exists = TRUE]

\* The object createGangReservations posts.
NewReservation == [NoReservation EXCEPT !.exists = TRUE, !.finalizer = TRUE]

\* POST: an object of that name is fetched instead; a failed call may still
\* have created the object.
PreFilterCreate ==
    /\ pre.step = "create"
    /\ \/ /\ ~crd[pre.gang].exists /\ NoFault
          /\ crd' = [crd EXCEPT ![pre.gang] = NewReservation]
          /\ Outdate(pre.gang)
          /\ PreFilterSucceeds
       \/ /\ crd[pre.gang].exists /\ NoFault
          /\ pre' = [pre EXCEPT !.step = "fetch"]
          /\ UNCHANGED <<view, crd, confirmed, fresh>>
       \/ /\ Fault
          /\ pre' = [pre EXCEPT !.step = "undo"]
          /\ \/ UNCHANGED <<crd, fresh>>
             \/ /\ ~crd[pre.gang].exists
                /\ crd' = [crd EXCEPT ![pre.gang] = NewReservation]
                /\ Outdate(pre.gang)
          /\ UNCHANGED <<view, confirmed>>
    /\ UNCHANGED <<tracked, pc, todo, target>>

PreFilterFetch ==
    /\ pre.step = "fetch"
    /\ \/ crd[pre.gang].exists /\ NoFault /\ PreFilterSucceeds
       \/ /\ (~crd[pre.gang].exists /\ NoFault) \/ Fault
          /\ pre' = [pre EXCEPT !.step = "undo"]
          /\ UNCHANGED <<view, confirmed>>
    /\ UNCHANGED <<crd, tracked, pc, todo, target, fresh>>

\* Mutation of PreFilterUndo: the error path leaves the gang on the map.
PreFilterForget ==
    /\ pre.step = "undo"
    /\ pre' = Idle
    /\ UNCHANGED <<view, crd, tracked, confirmed, pc, todo, target, fresh, faults>>

\* The error path takes the gang off the map; the pod is retried later.
PreFilterUndo ==
    /\ pre.step = "undo"
    /\ tracked' = tracked \ {pre.gang}
    /\ confirmed' = confirmed \ {pre.gang}
    /\ pre' = Idle
    /\ UNCHANGED <<view, crd, pc, todo, target, fresh, faults>>

-----------------------------------------------------------------------------
(* PostBind of pod p, and the cleanup; both delete with the same calls.    *)

RunningMembers(g) == {p \in Pods : GroupName(p) = g /\ view[p] = "running"}

\* Terminating and unscheduled pods do not count.
IsGangComplete(p) == Cardinality(RunningMembers(GroupName(p))) >= MinAvailable(p)

\* Mutation of IsGangCompleteOrExpired: a gang without pods is not done.
IsGangRunning(g) == RunningMembers(g) # {}

\* The cleanup's test counts every pod of the gang that is still listed; a
\* pod that terminates keeps its phase Running.
IsGangCompleteOrExpired(g) ==
    \A p \in Pods : GroupName(p) = g =>
        view[p] \in {"absent", "done", "running", "terminating"}

PostBindCheck(p) ==
    /\ pc[p] = "check"
    /\ pc' = [pc EXCEPT ![p] = IF IsGangComplete(p) THEN "list" ELSE "idle"]
    /\ UNCHANGED <<view, crd, tracked, confirmed, pre, todo, target, fresh, faults>>

\* deleteGangReservations: nothing to delete, or a failed list, ends it.
PostBindList(p) ==
    LET g == GroupName(p) IN
    /\ pc[p] = "list"
    /\ \/ /\ crd[g].exists /\ NoFault
          /\ crd' = [crd EXCEPT ![g].condemned = TRUE]
          /\ fresh' = fresh \cup {p}
          /\ pc' = [pc EXCEPT ![p] = IF crd[g].finalizer THEN "put" ELSE "delete"]
       \/ /\ ~crd[g].exists /\ NoFault
          /\ pc' = [pc EXCEPT ![p] = "untrack"]
          /\ UNCHANGED <<crd, fresh>>
       \/ /\ Fault
          /\ pc' = [pc EXCEPT ![p] = "idle"]
          /\ UNCHANGED <<crd, fresh>>
    /\ UNCHANGED <<view, tracked, confirmed, pre, todo, target>>

\* PUT without the finalizer.  The copy carries its resourceVersion, so an
\* outdated one is refused; an error is only logged.
RemoveFinalizer(i) ==
    /\ pc[i] = "put"
    /\ pc' = [pc EXCEPT ![i] = "delete"]
    /\ \/ /\ i \in fresh /\ NoFault
          /\ crd' = [crd EXCEPT ![GangOf(i)] =
                       Settle([@ EXCEPT !.finalizer = FALSE])]
          /\ Outdate(GangOf(i))
       \/ /\ (i \notin fresh /\ NoFault) \/ Fault
          /\ UNCHANGED <<crd, fresh>>
    /\ UNCHANGED <<view, tracked, confirmed, pre, todo, target>>

\* DELETE by name: it takes whatever object now has that name, and succeeds
\* on one a finalizer keeps alive.
DeleteSucceeds(i) ==
    /\ crd[GangOf(i)].exists /\ NoFault
    /\ crd' = [crd EXCEPT ![GangOf(i)] = Settle([@ EXCEPT !.deleting = TRUE])]
    /\ Outdate(GangOf(i))

DeleteFails(i) ==
    /\ (~crd[GangOf(i)].exists /\ NoFault) \/ Fault
    /\ fresh' = fresh \ {i}
    /\ UNCHANGED crd

\* PostBind ignores the outcome of DELETE and untracks the gang.
PostBindDelete(p) ==
    /\ pc[p] = "delete"
    /\ DeleteSucceeds(p) \/ DeleteFails(p)
    /\ pc' = [pc EXCEPT ![p] = "untrack"]
    /\ UNCHANGED <<view, tracked, confirmed, pre, todo, target>>

PostBindUntrack(p) ==
    /\ pc[p] = "untrack"
    /\ tracked' = tracked \ {GroupName(p)}
    /\ confirmed' = confirmed \ {GroupName(p)}
    /\ pc' = [pc EXCEPT ![p] = "idle"]
    /\ UNCHANGED <<view, crd, pre, todo, target, fresh, faults>>

-----------------------------------------------------------------------------
(* The cleanup: on every tick it visits the tracked gangs one by one.      *)

CleanupTick ==
    /\ pc[Cleaner] = "idle" /\ todo = {} /\ tracked # {}
    /\ todo' = tracked
    /\ UNCHANGED <<view, crd, tracked, confirmed, pre, pc, target, fresh, faults>>

\* Range skips a key that was deleted before it is reached.
CleanupNext(g) ==
    /\ pc[Cleaner] = "idle" /\ g \in todo
    /\ todo' = todo \ {g}
    /\ IF g \in tracked
       THEN target' = g /\ pc' = [pc EXCEPT ![Cleaner] = "list"]
       ELSE UNCHANGED <<target, pc>>
    /\ UNCHANGED <<view, crd, tracked, confirmed, pre, fresh, faults>>

\* The cleanup goes on only with a reservation older than reservationTTL.
CleanupList ==
    /\ pc[Cleaner] = "list"
    /\ \/ /\ crd[target].exists /\ crd[target].old /\ NoFault
          /\ pc' = [pc EXCEPT ![Cleaner] = "check"]
          /\ fresh' = fresh \cup {Cleaner}
          /\ UNCHANGED target
       \/ /\ (~(crd[target].exists /\ crd[target].old) /\ NoFault) \/ Fault
          /\ pc' = [pc EXCEPT ![Cleaner] = "idle"]
          /\ target' = NoGang
          /\ UNCHANGED fresh
    /\ UNCHANGED <<view, crd, tracked, confirmed, pre, todo>>

\* The gang is looked up after the list; an active gang keeps its reservation.
CleanupCheck ==
    /\ pc[Cleaner] = "check"
    /\ IF IsGangCompleteOrExpired(target)
       THEN /\ crd' = IF Cleaner \in fresh
                      THEN [crd EXCEPT ![target].condemned = TRUE] ELSE crd
            /\ pc' = [pc EXCEPT ![Cleaner] =
                 IF Cleaner \in fresh /\ ~crd[target].finalizer
                 THEN "delete" ELSE "put"]
            /\ UNCHANGED <<target, fresh>>
       ELSE /\ pc' = [pc EXCEPT ![Cleaner] = "idle"]
            /\ target' = NoGang
            /\ fresh' = fresh \ {Cleaner}
            /\ UNCHANGED crd
    /\ UNCHANGED <<view, tracked, confirmed, pre, todo, faults>>

\* The cleanup untracks the gang only if DELETE succeeded.
CleanupDelete ==
    /\ pc[Cleaner] = "delete"
    /\ \/ DeleteSucceeds(Cleaner) /\ pc' = [pc EXCEPT ![Cleaner] = "untrack"]
                                  /\ UNCHANGED target
       \/ DeleteFails(Cleaner) /\ pc' = [pc EXCEPT ![Cleaner] = "idle"]
                               /\ target' = NoGang
    /\ UNCHANGED <<view, tracked, confirmed, pre, todo>>

\* Mutation of CleanupUntrack: the gang just cleaned stays the current one.
CleanupUntrackOnly ==
    /\ pc[Cleaner] = "untrack"
    /\ tracked' = tracked \ {target}
    /\ confirmed' = confirmed \ {target}
    /\ pc' = [pc EXCEPT ![Cleaner] = "idle"]
    /\ UNCHANGED <<view, crd, pre, todo, target, fresh, faults>>

CleanupUntrack ==
    /\ pc[Cleaner] = "untrack"
    /\ tracked' = tracked \ {target}
    /\ confirmed' = confirmed \ {target}
    /\ pc' = [pc EXCEPT ![Cleaner] = "idle"]
    /\ target' = NoGang
    /\ UNCHANGED <<view, crd, pre, todo, fresh, faults>>

-----------------------------------------------------------------------------
(* The cluster around the plugin.                                          *)

PodStep(p) ==
    /\ pc[p] = "idle"
    /\ \/ /\ view[p] = "absent" /\ pre.pod # p
          /\ view' = [view EXCEPT ![p] = "pending"]
          /\ UNCHANGED pc
       \* The cycle fails after PreFilter; Unreserve changes nothing.
       \/ /\ view[p] = "passed" /\ view' = [view EXCEPT ![p] = "pending"]
          /\ UNCHANGED pc
       \* The bind succeeds and the binding cycle calls PostBind.
       \/ /\ view[p] = "passed" /\ view' = [view EXCEPT ![p] = "bound"]
          /\ pc' = [pc EXCEPT ![p] = IF PostBindEnabled THEN "check" ELSE @]
    /\ UNCHANGED <<crd, tracked, confirmed, pre, todo, target, fresh, faults>>

KubeletStep(p) ==
    /\ \/ view[p] = "bound" /\ view' = [view EXCEPT ![p] = "running"]
       \/ view[p] = "running" /\ view' = [view EXCEPT ![p] = "done"]
       \/ view[p] \in {"stopping", "terminating"} /\ view' = [view EXCEPT ![p] = "absent"]
    /\ UNCHANGED <<crd, tracked, confirmed, pre, pc, todo, target, fresh, faults>>

DeletePod(p) ==
    /\ view[p] \notin {"absent", "stopping", "terminating"}
    /\ view' = [view EXCEPT ![p] = CASE @ = "bound" -> "stopping"
                                     [] @ = "running" -> "terminating"
                                     [] OTHER -> "absent"]
    /\ UNCHANGED <<crd, tracked, confirmed, pre, pc, todo, target, fresh, faults>>

\* A reservation outlives reservationTTL.
ReservationAges(g) ==
    /\ crd[g].exists /\ ~crd[g].old
    /\ crd' = [crd EXCEPT ![g].old = TRUE]
    /\ UNCHANGED <<view, tracked, confirmed, pre, pc, todo, target, fresh, faults>>

\* A new scheduler process starts with an empty map.
Restart ==
    /\ Fault
    /\ tracked' = {} /\ confirmed' = {}
    /\ pre' = Idle
    /\ pc' = [i \in Procs |-> "idle"]
    /\ todo' = {} /\ target' = NoGang /\ fresh' = {}
    /\ view' = [p \in Pods |-> IF view[p] = "passed" THEN "pending" ELSE view[p]]
    /\ UNCHANGED crd

-----------------------------------------------------------------------------
PreFilterStep == PreFilterCreate \/ PreFilterFetch \/ PreFilterUndo

PostBindStep(p) == \/ PostBindCheck(p) \/ PostBindList(p) \/ RemoveFinalizer(p)
                   \/ PostBindDelete(p) \/ PostBindUntrack(p)

CleanupStep == \/ CleanupList \/ CleanupCheck \/ RemoveFinalizer(Cleaner)
               \/ CleanupDelete \/ CleanupUntrack \/ \E g \in Groups : CleanupNext(g)

Next == \/ PreFilterStep \/ CleanupTick \/ CleanupStep \/ Restart
        \/ \E p \in Pods : \/ PreFilterStart(p) \/ PostBindStep(p) \/ PodStep(p)
                           \/ KubeletStep(p) \/ DeletePod(p)
        \/ \E g \in Groups : ReservationAges(g)

Spec == Init /\ [][Next]_vars

(* The goroutines keep running and the ticker keeps firing; pods and their *)
(* owners promise nothing.                                                 *)
Fairness == /\ WF_vars(PreFilterStep)
            /\ WF_vars(CleanupTick) /\ WF_vars(CleanupStep)
            /\ \A p \in Pods : WF_vars(PostBindStep(p))

FairSpec == Spec /\ Fairness

-----------------------------------------------------------------------------
(* Properties.                                                             *)

\* The map claims a reservation only for a gang whose reservation the API
\* server once confirmed, by creating it or by returning it: every failure of
\* PreFilter, at any call, takes the gang off the map again, so that the next
\* member retries.
TrackedWasConfirmed == tracked \ {pre.gang} \subseteq confirmed

\* A reservation disappears only if a process that judged its gang complete
\* or gone has seen this very object: a DELETE by name that arrives late, after
\* the object was replaced by a new one, is stopped by the finalizer.
FinalizerProtects ==
    [][\A g \in Groups :
         crd[g].exists /\ ~crd'[g].exists => crd[g].condemned]_vars

GangGone(g) == \A p \in Pods : GroupName(p) = g => view[p] = "absent"

\* What the comment on reservationTTL says: no expired reservation of a gang
\* that is gone stays for ever.
ExpiredAreCleaned ==
    \A g \in Groups : []<>~(crd[g].exists /\ crd[g].old /\ GangGone(g))
=============================================================================
