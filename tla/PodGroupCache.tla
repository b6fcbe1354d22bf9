--------------------------- MODULE PodGroupCache ---------------------------
(***************************************************************************)
(* The queue order of the Coscheduling plugin                              *)
(* (pkg/plugins/coscheduling/coscheduling.go, Less) and the map it rests   *)
(* on: podGroupInfos remembers when each gang was first compared, with     *)
(* podGroupCount beside it to enforce a size cap.                          *)
(*                                                                         *)
(* Less runs under a lock of the scheduling queue (one sorter per queue    *)
(* that compares with it); the cleanup goroutine removes stale entries     *)
(* under no lock at all.  Every operation on the map and on the counter    *)
(* is a step of its own.                                                   *)
(***************************************************************************)
EXTENDS PodGroups, Sequences

CONSTANTS Sorters,       \* the queues that call Less
          Priority,      \* the priority of every pod
          Key,           \* rank of the pod's "namespace/group" string
          Cap,           \* maxPodGroupEntries
          EvictShare,    \* emergency eviction takes 1/EvictShare of the map
          StaleTTL,      \* staleEntryTTL
          Threshold,     \* StarvationThreshold
          MaxClock,      \* bound on time
          MaxLost        \* no call or cleanup starts after so many lost deletions

ASSUME CacheAssumption ==
    /\ IsFiniteSet(Sorters) /\ Sorters # {}
    /\ IsFiniteSet(Groups)
    /\ Priority \in [Pods -> Int] /\ Key \in [Pods -> Int]
    /\ Cap \in Nat \ {0} /\ EvictShare \in Nat \ {0}
    /\ StaleTTL \in Nat /\ Threshold \in Nat /\ MaxClock \in Nat
    /\ MaxLost \in Nat

VARIABLES clock,
          since,   \* QueuedPodInfo.Timestamp: when the pod was last queued
          info,    \* podGroupInfos
          count,   \* podGroupCount
          pc,      \* next operation of each Less call
          pair,    \* the two pods it compares
          stamps,  \* the group timestamps it has obtained so far
          batch,   \* entries its emergency eviction has still to consider
          quota,   \* entries it has still to evict
          sweep,   \* the cleanup goroutine
          lost     \* history: deletions that found the entry already gone

lessVars == <<pc, pair, stamps, batch, quota>>
vars == <<clock, since, info, count, lessVars, sweep, lost>>

Time == 0..MaxClock
Never == -1
NoEntry == [timestamp |-> Never, updated |-> Never]
Entry == [timestamp: Time, updated: Time]

NoSweep == [pc |-> "idle", todo |-> {}, target |-> NoGroup, now |-> 0]

TypeOK ==
    /\ clock \in Time
    /\ since \in [Pods -> Time \cup {Never}]
    /\ info \in [Groups -> Entry \cup {NoEntry}]
    /\ count \in Int
    /\ pc \in [Sorters -> {"idle", "load", "cap", "range", "evict", "decrement",
                           "store", "add", "compare"}]
    /\ pair \in [Sorters -> (Pods \X Pods) \cup {<<>>}]
    /\ stamps \in [Sorters -> Seq(Time)]
    /\ \A s \in Sorters : Len(stamps[s]) <= 2
    /\ batch \in [Sorters -> SUBSET [group: Groups, updated: Time]]
    /\ quota \in [Sorters -> Int]
    /\ sweep \in [pc: {"idle", "visit", "delete", "decrement"},
                  todo: SUBSET Groups, target: Groups \cup {NoGroup}, now: Time]
    /\ lost \in Nat

Init ==
    /\ clock = 0
    /\ since = [p \in Pods |-> Never]
    /\ info = [g \in Groups |-> NoEntry]
    /\ count = 0
    /\ pc = [s \in Sorters |-> "idle"]
    /\ pair = [s \in Sorters |-> <<>>]
    /\ stamps = [s \in Sorters |-> <<>>]
    /\ batch = [s \in Sorters |-> {}]
    /\ quota = [s \in Sorters |-> 0]
    /\ sweep = NoSweep
    /\ lost = 0

Queued == {p \in Pods : since[p] # Never}
Entries == {g \in Groups : info[g] # NoEntry}

\* sync.Map.Delete reports nothing: deleting an absent key is not noticed.
DeleteEntry(g) ==
    /\ info' = [info EXCEPT ![g] = NoEntry]
    /\ lost' = IF g \in Entries THEN lost ELSE lost + 1

-----------------------------------------------------------------------------
(* Less.                                                                   *)

Starving(now, t) == now - t > Threshold

\* What Less looks at in a pod whose group has timestamp t.
Item(p, t) == [timestamp |-> t, priority |-> Priority[p], key |-> Key[p]]

\* Mutation of Before: equal keys are taken for smaller ones.
BeforeOrEqual(now, x, y) ==
    \/ Starving(now, x.timestamp) /\ ~Starving(now, y.timestamp)
    \/ /\ Starving(now, x.timestamp) = Starving(now, y.timestamp)
       /\ \/ x.priority > y.priority
          \/ /\ x.priority = y.priority
             /\ \/ x.timestamp < y.timestamp
                \/ x.timestamp = y.timestamp /\ x.key <= y.key

\* The verdict of Less: x goes before y.
Before(now, x, y) ==
    \/ Starving(now, x.timestamp) /\ ~Starving(now, y.timestamp)
    \/ /\ Starving(now, x.timestamp) = Starving(now, y.timestamp)
       /\ \/ x.priority > y.priority
          \/ /\ x.priority = y.priority
             /\ \/ x.timestamp < y.timestamp
                \/ x.timestamp = y.timestamp /\ x.key < y.key

\* The pod whose group timestamp the call needs next, and that timestamp
\* obtained.
Current(s) == pair[s][Len(stamps[s]) + 1]

Obtain(s, t) ==
    /\ stamps' = [stamps EXCEPT ![s] = Append(@, t)]
    /\ pc' = [pc EXCEPT ![s] = IF Len(stamps[s]) = 1 THEN "compare" ELSE "load"]

\* A pod is in one queue at a time and the queue's lock is held during a
\* comparison, so the pods that are compared stay as they are.
Compared == {p \in Pods : \E s \in Sorters :
                 pc[s] # "idle" /\ p \in {pair[s][1], pair[s][2]}}

LessStart(s, p, q) ==
    /\ pc[s] = "idle" /\ p # q /\ {p, q} \subseteq Queued \ Compared
    /\ lost <= MaxLost
    /\ pc' = [pc EXCEPT ![s] = "load"]
    /\ pair' = [pair EXCEPT ![s] = <<p, q>>]
    /\ UNCHANGED <<clock, since, info, count, stamps, batch, quota, sweep,
                   lost>>

\* Mutation of LoadInfo: the entry is used without looking whether it is there.
LoadUnchecked(s) ==
    LET p == Current(s) IN
    /\ pc[s] = "load"
    /\ IF ~IsPodInPodGroup(p) THEN Obtain(s, since[p])
       ELSE Obtain(s, info[GroupName(p)].timestamp)
    /\ UNCHANGED <<clock, since, info, count, pair, batch, quota, sweep, lost>>

\* getPodGroupInfoFromQueued: a pod outside any gang stands for itself.
LoadInfo(s) ==
    LET p == Current(s) IN
    /\ pc[s] = "load"
    /\ IF ~IsPodInPodGroup(p) THEN Obtain(s, since[p])
       ELSE IF GroupName(p) \in Entries THEN Obtain(s, info[GroupName(p)].timestamp)
       ELSE pc' = [pc EXCEPT ![s] = "cap"] /\ UNCHANGED stamps
    /\ UNCHANGED <<clock, since, info, count, pair, batch, quota, sweep, lost>>

\* Mutation of CheckCap: the check is off by one.
CheckCapLate(s) ==
    /\ pc[s] = "cap"
    /\ pc' = [pc EXCEPT ![s] = IF count > Cap THEN "range" ELSE "store"]
    /\ UNCHANGED <<clock, since, info, count, pair, stamps, batch, quota,
                   sweep, lost>>

CheckCap(s) ==
    /\ pc[s] = "cap"
    /\ pc' = [pc EXCEPT ![s] = IF count >= Cap THEN "range" ELSE "store"]
    /\ UNCHANGED <<clock, since, info, count, pair, stamps, batch, quota,
                   sweep, lost>>

\* evictOldestEntries collects the entries, of which at least one is to go ...
RangeEntries(s) ==
    /\ pc[s] = "range"
    /\ pc' = [pc EXCEPT ![s] = IF Entries = {} THEN "store" ELSE "evict"]
    /\ batch' = [batch EXCEPT ![s] =
                   {[group |-> g, updated |-> info[g].updated] : g \in Entries}]
    /\ quota' = [quota EXCEPT ![s] =
                   IF Cardinality(Entries) < EvictShare THEN 1
                   ELSE Cardinality(Entries) \div EvictShare]
    /\ UNCHANGED <<clock, since, info, count, pair, stamps, sweep, lost>>

\* ... and deletes the oldest, one after the other.
EvictOldest(s) ==
    /\ pc[s] = "evict"
    /\ pc' = [pc EXCEPT ![s] = "decrement"]
    /\ \E e \in batch[s] :
         /\ \A f \in batch[s] : e.updated <= f.updated
         /\ DeleteEntry(e.group)
         /\ batch' = [batch EXCEPT ![s] = @ \ {e}]
    /\ quota' = [quota EXCEPT ![s] = @ - 1]
    /\ UNCHANGED <<clock, since, count, pair, stamps, sweep>>

\* Mutation of EvictDecrement: an eviction is not counted.
EvictUncounted(s) ==
    LET last == quota[s] = 0 \/ batch[s] = {} IN
    /\ pc[s] = "decrement"
    /\ pc' = [pc EXCEPT ![s] = IF last THEN "store" ELSE "evict"]
    /\ batch' = [batch EXCEPT ![s] = IF last THEN {} ELSE @]
    /\ quota' = [quota EXCEPT ![s] = IF last THEN 0 ELSE @]
    /\ UNCHANGED <<clock, since, info, count, pair, stamps, sweep, lost>>

EvictDecrement(s) ==
    LET last == quota[s] = 0 \/ batch[s] = {} IN
    /\ pc[s] = "decrement"
    /\ count' = count - 1
    /\ pc' = [pc EXCEPT ![s] = IF last THEN "store" ELSE "evict"]
    /\ batch' = [batch EXCEPT ![s] = IF last THEN {} ELSE @]
    /\ quota' = [quota EXCEPT ![s] = IF last THEN 0 ELSE @]
    /\ UNCHANGED <<clock, since, info, pair, stamps, sweep, lost>>

\* LoadOrStore: the call goes on with the entry it made, stored or not.
StoreInfo(s) ==
    LET p == Current(s) IN
    /\ pc[s] = "store"
    /\ IF GroupName(p) \in Entries
       THEN Obtain(s, since[p]) /\ UNCHANGED info
       ELSE /\ info' = [info EXCEPT ![GroupName(p)] =
                          [timestamp |-> since[p], updated |-> clock]]
            /\ pc' = [pc EXCEPT ![s] = "add"]
            /\ UNCHANGED stamps
    /\ UNCHANGED <<clock, since, count, pair, batch, quota, sweep, lost>>

AddCount(s) ==
    /\ pc[s] = "add"
    /\ count' = count + 1
    /\ Obtain(s, since[Current(s)])
    /\ UNCHANGED <<clock, since, info, pair, batch, quota, sweep, lost>>

Compare(s) ==
    /\ pc[s] = "compare"
    /\ pc' = [pc EXCEPT ![s] = "idle"]
    /\ pair' = [pair EXCEPT ![s] = <<>>]
    /\ stamps' = [stamps EXCEPT ![s] = <<>>]
    /\ UNCHANGED <<clock, since, info, count, batch, quota, sweep, lost>>

-----------------------------------------------------------------------------
(* cleanupStaleEntries.                                                    *)

CleanupTick ==
    /\ sweep.pc = "idle" /\ Entries # {} /\ lost <= MaxLost
    /\ sweep' = [sweep EXCEPT !.pc = "visit", !.todo = Groups, !.now = clock]
    /\ UNCHANGED <<clock, since, info, count, lessVars, lost>>

\* Range reaches the keys in any order and sees what is stored by then.
CleanupVisit(g) ==
    /\ sweep.pc = "visit" /\ g \in sweep.todo
    /\ sweep' = IF g \in Entries /\ sweep.now - info[g].updated > StaleTTL
                THEN [sweep EXCEPT !.todo = @ \ {g}, !.pc = "delete", !.target = g]
                ELSE [sweep EXCEPT !.todo = @ \ {g}]
    /\ UNCHANGED <<clock, since, info, count, lessVars, lost>>

CleanupDelete ==
    /\ sweep.pc = "delete"
    /\ sweep' = [sweep EXCEPT !.pc = "decrement"]
    /\ DeleteEntry(sweep.target)
    /\ UNCHANGED <<clock, since, count, lessVars>>

CleanupDecrement ==
    /\ sweep.pc = "decrement"
    /\ sweep' = [sweep EXCEPT !.pc = "visit", !.target = NoGroup]
    /\ count' = count - 1
    /\ UNCHANGED <<clock, since, info, lessVars, lost>>

CleanupEnd ==
    /\ sweep.pc = "visit" /\ sweep.todo = {}
    /\ sweep' = NoSweep
    /\ UNCHANGED <<clock, since, info, count, lessVars, lost>>

-----------------------------------------------------------------------------
(* The scheduling queue.                                                   *)

\* A pod is queued for the first time, or again after a failed attempt: then
\* with a new timestamp.
Enqueue(p) ==
    /\ p \notin Compared
    /\ since' = [since EXCEPT ![p] = clock]
    /\ UNCHANGED <<clock, info, count, lessVars, sweep, lost>>

\* A pod was bound or deleted.
Leave(p) ==
    /\ p \in Queued \ Compared
    /\ since' = [since EXCEPT ![p] = Never]
    /\ UNCHANGED <<clock, info, count, lessVars, sweep, lost>>

Tick ==
    /\ clock < MaxClock
    /\ clock' = clock + 1
    /\ UNCHANGED <<since, info, count, lessVars, sweep, lost>>

-----------------------------------------------------------------------------
LessStep(s) ==
    \/ LoadInfo(s) \/ CheckCap(s) \/ RangeEntries(s) \/ EvictOldest(s)
    \/ EvictDecrement(s) \/ StoreInfo(s) \/ AddCount(s) \/ Compare(s)
    \/ \E p, q \in Pods : LessStart(s, p, q)

CleanupStep == \/ CleanupTick \/ CleanupDelete \/ CleanupDecrement \/ CleanupEnd
               \/ \E g \in Groups : CleanupVisit(g)

Next == \/ \E s \in Sorters : LessStep(s)
        \/ CleanupStep
        \/ \E p \in Pods : Enqueue(p) \/ Leave(p)
        \/ Tick

Spec == Init /\ [][Next]_vars

-----------------------------------------------------------------------------
(* Properties.                                                             *)

\* Deletions whose decrement is still to come, and stores whose increment is.
Decrementing == {s \in Sorters : pc[s] = "decrement"}
Sweeping == IF sweep.pc = "decrement" THEN 1 ELSE 0

\* The counter never claims entries that the map does not hold: a miscount
\* goes one way only, so an emergency eviction never throws away gangs of a
\* map that is below its cap.
NoPhantomEntries ==
    count <= Cardinality(Entries) + Cardinality(Decrementing) + Sweeping

\* The map exceeds maxPodGroupEntries only by the concurrent calls that have
\* passed the check together and by the deletions that eviction and cleanup
\* both counted: no other order of check, eviction, store and count adds to it.
CapUpToRaces ==
    Cardinality(Entries) <= Cap + (Cardinality(Sorters) - 1) + lost

\* The group timestamp a comparison that starts now would use for p.
Stamp(p) == IF IsPodInPodGroup(p) /\ GroupName(p) \in Entries
            THEN info[GroupName(p)].timestamp ELSE since[p]

\* At every moment Less orders the queued pods the way a heap needs it: no
\* cycle, and pods it cannot tell apart stand in the same relation to any
\* third, so that nothing gets between the equal pods of a gang.
OrderIsStrictWeak ==
    \A x, y, z \in {Item(p, Stamp(p)) : p \in Queued} :
        /\ Before(clock, x, y) => ~Before(clock, y, x)
        /\ Before(clock, x, y) => Before(clock, x, z) \/ Before(clock, z, y)
=============================================================================
