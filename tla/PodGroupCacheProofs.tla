------------------------ MODULE PodGroupCacheProofs ------------------------
(***************************************************************************)
(* Proofs about PodGroupCache, for any number of queues, gangs and pods,   *)
(* any cap and any run of the cleanup.                                     *)
(***************************************************************************)
EXTENDS PodGroupCache, FiniteSetTheorems, TLAPS

\* The Less calls about to increment the counter, and those about to store.
Adding == {s \in Sorters : pc[s] = "add"}
Storing == {s \in Sorters : pc[s] = "store"}

\* Their numbers, and that of the calls about to decrement.
NAdd == Cardinality(Adding)
NStore == Cardinality(Storing)
NDec == Cardinality(Decrementing)

\* The exact account of the counter: what it is short of the map is an
\* increment or a decrement under way, or a deletion counted twice.
Account ==
    count + NAdd + lost = Cardinality(Entries) + NDec + Sweeping

\* Every call that has passed the check, or has deleted an entry, may store
\* one; the room for it is already set aside.
RoomForStores ==
    Cardinality(Entries) + NStore + NDec
      <= Cap + (Cardinality(Sorters) - 1) + lost

Looking == {"cap", "range", "evict", "decrement", "store", "add"}

\* A Less call compares two queued pods, asks for at most two timestamps, and
\* works on the map only for a pod of a gang.
CallOK ==
    \A s \in Sorters :
        IF pc[s] = "idle" THEN stamps[s] = <<>>
        ELSE /\ pair[s] \in Pods \X Pods
             /\ pair[s][1] \in Queued /\ pair[s][2] \in Queued
             /\ pc[s] # "compare" => Len(stamps[s]) \in {0, 1}
             /\ pc[s] \in Looking => GroupName(Current(s)) \in Groups

IInv == TypeOK /\ CallOK /\ Account /\ RoomForStores

-----------------------------------------------------------------------------
(* Less as an order.                                                       *)

\* Less is a strict weak order on any three queue items at any one moment,
\* whatever their timestamps, priorities and keys.
THEOREM BeforeIsStrictWeak ==
    ASSUME NEW now \in Int,
           NEW x \in [timestamp: Int, priority: Int, key: Int],
           NEW y \in [timestamp: Int, priority: Int, key: Int],
           NEW z \in [timestamp: Int, priority: Int, key: Int]
    PROVE  /\ Before(now, x, y) => ~Before(now, y, x)
           /\ Before(now, x, y) => Before(now, x, z) \/ Before(now, z, y)
  BY CacheAssumption DEF Before, Starving

\* Type correctness of what Less compares.
LEMMA StampIsTime ==
    ASSUME TypeOK, NEW p \in Queued
    PROVE  Item(p, Stamp(p)) \in [timestamp: Int, priority: Int, key: Int]
<1>1. Stamp(p) \in Int
    BY CacheAssumption DEF TypeOK, Stamp, Queued, Entries, Entry, NoEntry, Never, Time
<1>2. QED
    BY <1>1, CacheAssumption DEF Item, Queued

-----------------------------------------------------------------------------
(* Counting.                                                               *)

\* Sets that differ in one element at most.
LEMMA MoveOne ==
    ASSUME NEW S, IsFiniteSet(S), NEW X \in SUBSET S, NEW Y \in SUBSET S,
           NEW s \in S, \A t \in S \ {s} : t \in X <=> t \in Y
    PROVE  /\ Cardinality(X) \in Nat /\ Cardinality(Y) \in Nat
           /\ s \in X /\ s \notin Y => Cardinality(Y) = Cardinality(X) - 1
           /\ s \notin X /\ s \in Y => Cardinality(Y) = Cardinality(X) + 1
           /\ (s \in X <=> s \in Y) => Cardinality(Y) = Cardinality(X)
<1>1. IsFiniteSet(X) /\ IsFiniteSet(Y)
    BY FS_Subset
<1>2. Cardinality(X) \in Nat /\ Cardinality(Y) \in Nat
    BY <1>1, FS_CardinalityType
<1>3. CASE s \in X /\ s \notin Y
  <2>1. Y = X \ {s}
      BY <1>3
  <2>2. QED
      BY <2>1, <1>1, <1>2, <1>3, FS_RemoveElement
<1>4. CASE s \notin X /\ s \in Y
  <2>1. Y = X \cup {s}
      BY <1>4
  <2>2. QED
      BY <2>1, <1>1, <1>2, <1>4, FS_AddElement
<1>5. CASE s \in X <=> s \in Y
  <2>1. X = Y
      BY <1>5
  <2>2. QED
      BY <2>1, <1>2, <1>5
<1>6. QED
    BY <1>3, <1>4, <1>5

\* The numbers involved are natural.
LEMMA Numbers ==
    /\ NAdd \in Nat /\ NStore \in Nat /\ NDec \in Nat
    /\ Cardinality(Entries) \in Nat
    /\ Sweeping \in {0, 1}
    /\ Cardinality(Sorters) \in Nat
<1>1. NAdd \in Nat /\ NStore \in Nat /\ NDec \in Nat
    BY CacheAssumption, FS_Subset, FS_CardinalityType
       DEF NAdd, NStore, NDec, Adding, Storing, Decrementing
<1>2. Cardinality(Entries) \in Nat
    BY CacheAssumption, FS_Subset, FS_CardinalityType DEF Entries
<1>3. QED
    BY <1>1, <1>2, CacheAssumption, FS_CardinalityType DEF Sweeping

\* Calls at different operations are different calls.
LEMMA DisjointCalls ==
    ASSUME NEW s \in Sorters, pc[s] = "cap"
    PROVE  NStore + NAdd <= Cardinality(Sorters) - 1
<1> DEFINE X == {t \in Sorters : pc[t] = "store"}
           Y == {t \in Sorters : pc[t] = "add"}
<1>1. IsFiniteSet(X) /\ IsFiniteSet(Y) /\ IsFiniteSet(Sorters \ {s})
    BY CacheAssumption, FS_Subset
<1>2. X \cap Y = {} /\ X \cup Y \subseteq Sorters \ {s}
    OBVIOUS
<1>3. Cardinality(X \cup Y) = Cardinality(X) + Cardinality(Y)
  <2>1. Cardinality(X \cup Y) = Cardinality(X) + Cardinality(Y) - Cardinality(X \cap Y)
      BY <1>1, FS_Union
  <2>2. Cardinality(X \cap Y) = 0
      BY <1>2, FS_EmptySet
  <2>3. Cardinality(X) \in Nat /\ Cardinality(Y) \in Nat
      BY <1>1, FS_CardinalityType
  <2> HIDE DEF X, Y
  <2>4. QED
      BY <2>1, <2>2, <2>3
<1>4. Cardinality(X \cup Y) <= Cardinality(Sorters \ {s})
    BY <1>1, <1>2, FS_Subset
<1>5. Cardinality(Sorters \ {s}) = Cardinality(Sorters) - 1
    BY CacheAssumption, FS_RemoveElement
<1>6. QED
    BY <1>3, <1>4, <1>5 DEF NStore, NAdd, Storing, Adding

\* Two operations never have more calls between them than there are.
LEMMA StoreAndDecrement == NStore + NDec <= Cardinality(Sorters)
<1> DEFINE X == {t \in Sorters : pc[t] = "store"}
           Y == {t \in Sorters : pc[t] = "decrement"}
<1>1. IsFiniteSet(X) /\ IsFiniteSet(Y) /\ IsFiniteSet(Sorters)
    BY CacheAssumption, FS_Subset
<1>2. X \cap Y = {} /\ X \cup Y \subseteq Sorters
    OBVIOUS
<1>3. Cardinality(X \cup Y) <= Cardinality(Sorters)
    BY <1>1, <1>2, FS_Subset
<1>4. Cardinality(X \cup Y) = Cardinality(X) + Cardinality(Y) - Cardinality(X \cap Y)
    BY <1>1, FS_Union
<1>5. Cardinality(X \cap Y) = 0
    BY <1>2, FS_EmptySet
<1>6. Cardinality(X) \in Nat /\ Cardinality(Y) \in Nat
    BY <1>1, FS_CardinalityType
<1>7. NStore = Cardinality(X) /\ NDec = Cardinality(Y)
    BY DEF NStore, NDec, Storing, Decrementing
<1> HIDE DEF X, Y
<1>8. QED
    BY <1>3, <1>4, <1>5, <1>6, <1>7

-----------------------------------------------------------------------------
(* Types.                                                                  *)

\* The timestamp Less obtains for a queued pod.
LEMMA CurrentIsQueued ==
    ASSUME TypeOK, CallOK, NEW s \in Sorters, pc[s] \notin {"idle", "compare"}
    PROVE  /\ Current(s) \in Pods
           /\ since[Current(s)] \in Time
           /\ Len(stamps[s]) \in {0, 1}
           /\ stamps[s] \in Seq(Time)
<1>1. Len(stamps[s]) \in {0, 1} /\ pair[s] \in Pods \X Pods
      /\ pair[s][1] \in Queued /\ pair[s][2] \in Queued
    BY DEF CallOK
<1>2. Current(s) \in Pods /\ Current(s) \in Queued
  <2>1. CASE Len(stamps[s]) = 0
    <3>1. Current(s) = pair[s][1]
        BY <2>1 DEF Current
    <3>2. QED
        BY <3>1, <1>1 DEF Queued
  <2>2. CASE Len(stamps[s]) = 1
    <3>1. Current(s) = pair[s][2]
        BY <2>2 DEF Current
    <3>2. QED
        BY <3>1, <1>1 DEF Queued
  <2>3. QED
      BY <2>1, <2>2, <1>1
<1>3. QED
    BY <1>1, <1>2 DEF TypeOK, Queued

\* Obtaining a timestamp keeps a call well formed.
LEMMA ObtainOK ==
    ASSUME TypeOK, CallOK, NEW s \in Sorters, pc[s] \notin {"idle", "compare"},
           NEW t \in Time, Obtain(s, t), UNCHANGED <<pair, since>>
    PROVE  /\ pc' \in [Sorters -> {"idle", "load", "cap", "range", "evict",
                                   "decrement", "store", "add", "compare"}]
           /\ stamps' \in [Sorters -> Seq(Time)]
           /\ \A r \in Sorters : Len(stamps'[r]) <= 2
           /\ CallOK'
<1>1. Len(stamps[s]) \in {0, 1} /\ stamps[s] \in Seq(Time)
    BY CurrentIsQueued
<1>2. /\ Append(stamps[s], t) \in Seq(Time)
      /\ Len(Append(stamps[s], t)) = Len(stamps[s]) + 1
    BY <1>1
<1>3. /\ pc' \in [Sorters -> {"idle", "load", "cap", "range", "evict",
                              "decrement", "store", "add", "compare"}]
      /\ \A r \in Sorters : r # s => pc'[r] = pc[r]
      /\ pc'[s] = IF Len(stamps[s]) = 1 THEN "compare" ELSE "load"
    BY DEF TypeOK, Obtain
<1>4. stamps'[s] = Append(stamps[s], t)
    BY DEF Obtain, TypeOK
<1>5. \A r \in Sorters : r # s => stamps'[r] = stamps[r]
    BY DEF Obtain, TypeOK
<1>6. CallOK'
  <2> SUFFICES ASSUME NEW r \in Sorters, pc'[r] # "idle"
               PROVE  /\ pair[r] \in Pods \X Pods
                      /\ pair[r][1] \in Queued /\ pair[r][2] \in Queued
                      /\ pc'[r] # "compare" => Len(stamps'[r]) \in {0, 1}
                      /\ pc'[r] \in Looking =>
                           r # s /\ GroupName(Current(r)) \in Groups
      BY <1>3, <1>5 DEF CallOK, Queued, Current
  <2>1. CASE r # s
      BY <2>1, <1>3, <1>5 DEF CallOK
  <2>2. CASE r = s
      BY <2>2, <1>1, <1>2, <1>3, <1>4 DEF CallOK, Looking
  <2>3. QED
      BY <2>1, <2>2
<1>7. stamps' \in [Sorters -> Seq(Time)]
    BY <1>2 DEF TypeOK, Obtain
<1>8. ASSUME NEW r \in Sorters PROVE Len(stamps'[r]) <= 2
  <2>1. CASE r = s
      BY <2>1, <1>1, <1>2, <1>4
  <2>2. CASE r # s
      BY <2>2, <1>5 DEF TypeOK
  <2>3. QED
      BY <2>1, <2>2
<1>9. QED
    BY <1>3, <1>6, <1>7, <1>8

-----------------------------------------------------------------------------
\* Every step keeps every variable in its range and every call well formed.
LEMMA TypeInvariance == TypeOK /\ CallOK /\ [Next]_vars => TypeOK' /\ CallOK'
<1> SUFFICES ASSUME TypeOK, CallOK, [Next]_vars PROVE TypeOK' /\ CallOK'
    OBVIOUS
<1>1. ASSUME NEW s \in Sorters, NEW p \in Pods, NEW q \in Pods, LessStart(s, p, q)
      PROVE  TypeOK' /\ CallOK'
  <2>1. TypeOK'
      BY <1>1 DEF LessStart, TypeOK
  <2>2. CallOK'
      BY <1>1 DEF LessStart, TypeOK, CallOK, Looking, Current, Queued
  <2>3. QED
      BY <2>1, <2>2
<1>2. ASSUME NEW s \in Sorters, LoadInfo(s)
      PROVE  TypeOK' /\ CallOK'
  <2> DEFINE p == Current(s)
  <2>1. p \in Pods /\ since[p] \in Time /\ pc[s] = "load"
      BY <1>2, CurrentIsQueued DEF LoadInfo
  <2>2. CASE ~IsPodInPodGroup(p)
    <3>1. Obtain(s, since[p]) /\ UNCHANGED <<pair, since>>
        BY <1>2, <2>2 DEF LoadInfo
    <3>2. QED
        BY <3>1, <2>1, <1>2, ObtainOK DEF LoadInfo, TypeOK
  <2>3. CASE IsPodInPodGroup(p) /\ GroupName(p) \in Entries
    <3>1. Obtain(s, info[GroupName(p)].timestamp) /\ UNCHANGED <<pair, since>>
        BY <1>2, <2>3 DEF LoadInfo
    <3>2. info[GroupName(p)].timestamp \in Time
        BY <2>3 DEF TypeOK, Entries, Entry
    <3>3. QED
        BY <3>1, <3>2, <2>1, <1>2, ObtainOK DEF LoadInfo, TypeOK
  <2>4. CASE IsPodInPodGroup(p) /\ GroupName(p) \notin Entries
    <3>1. GroupName(p) \in Groups
        BY <2>1, <2>4, PodGroupAssumption DEF IsPodInPodGroup, GroupName, NameLabel
    <3>2. pc' = [pc EXCEPT ![s] = "cap"] /\ UNCHANGED stamps
        BY <1>2, <2>4 DEF LoadInfo
    <3>3. TypeOK'
        BY <3>2, <1>2 DEF LoadInfo, TypeOK
    <3>4. CallOK'
        BY <3>1, <3>2, <2>1, <1>2 DEF LoadInfo, TypeOK, CallOK, Current, Queued
    <3>5. QED
        BY <3>3, <3>4
  <2>5. QED
      BY <2>2, <2>3, <2>4
<1>3. ASSUME NEW s \in Sorters, CheckCap(s)
      PROVE  TypeOK' /\ CallOK'
  <2>1. TypeOK'
      BY <1>3 DEF CheckCap, TypeOK
  <2>2. CallOK'
      BY <1>3 DEF CheckCap, TypeOK, CallOK, Looking, Current, Queued
  <2>3. QED
      BY <2>1, <2>2
<1>4. ASSUME NEW s \in Sorters, RangeEntries(s)
      PROVE  TypeOK' /\ CallOK'
  <2>1. CallOK'
      BY <1>4 DEF RangeEntries, TypeOK, CallOK, Looking, Current, Queued
  <2>2. {[group |-> g, updated |-> info[g].updated] : g \in Entries}
          \in SUBSET [group: Groups, updated: Time]
      BY DEF TypeOK, Entries, Entry
  <2>3. Cardinality(Entries) \div EvictShare \in Int
      BY Numbers, CacheAssumption
  <2>4. TypeOK'
      BY <1>4, <2>2, <2>3 DEF RangeEntries, TypeOK
  <2>5. QED
      BY <2>1, <2>4
<1>5. ASSUME NEW s \in Sorters, EvictOldest(s)
      PROVE  TypeOK' /\ CallOK'
  <2>1. CallOK'
      BY <1>5 DEF EvictOldest, TypeOK, CallOK, Looking, Current, Queued
  <2>2. TypeOK'
      BY <1>5 DEF EvictOldest, DeleteEntry, TypeOK
  <2>3. QED
      BY <2>1, <2>2
<1>6. ASSUME NEW s \in Sorters, EvictDecrement(s)
      PROVE  TypeOK' /\ CallOK'
  <2>1. CallOK'
      BY <1>6 DEF EvictDecrement, TypeOK, CallOK, Looking, Current, Queued
  <2>2. TypeOK'
      BY <1>6 DEF EvictDecrement, TypeOK
  <2>3. QED
      BY <2>1, <2>2
<1>7. ASSUME NEW s \in Sorters, StoreInfo(s)
      PROVE  TypeOK' /\ CallOK'
  <2> DEFINE p == Current(s)
  <2>1. p \in Pods /\ since[p] \in Time /\ pc[s] = "store"
      BY <1>7, CurrentIsQueued DEF StoreInfo
  <2>2. GroupName(p) \in Groups
      BY <2>1 DEF CallOK, Looking
  <2>3. CASE GroupName(p) \in Entries
    <3>1. Obtain(s, since[p]) /\ UNCHANGED <<pair, since>>
        BY <1>7, <2>3 DEF StoreInfo
    <3>2. QED
        BY <3>1, <2>1, <2>3, <1>7, ObtainOK DEF StoreInfo, TypeOK
  <2>4. CASE GroupName(p) \notin Entries
    <3>1. /\ pc' = [pc EXCEPT ![s] = "add"]
          /\ info' = [info EXCEPT ![GroupName(p)] =
                        [timestamp |-> since[p], updated |-> clock]]
          /\ UNCHANGED stamps
        BY <1>7, <2>4 DEF StoreInfo
    <3>2. TypeOK'
        BY <3>1, <2>1, <1>7 DEF StoreInfo, TypeOK, Entry
    <3>3. CallOK'
        BY <3>1, <2>1, <1>7 DEF StoreInfo, TypeOK, CallOK, Looking, Current, Queued
    <3>4. QED
        BY <3>2, <3>3
  <2>5. QED
      BY <2>3, <2>4
<1>8. ASSUME NEW s \in Sorters, AddCount(s)
      PROVE  TypeOK' /\ CallOK'
  <2>1. since[Current(s)] \in Time /\ pc[s] = "add"
      BY <1>8, CurrentIsQueued DEF AddCount
  <2>2. Obtain(s, since[Current(s)]) /\ UNCHANGED <<pair, since>>
      BY <1>8 DEF AddCount
  <2>3. /\ pc' \in [Sorters -> {"idle", "load", "cap", "range", "evict",
                                "decrement", "store", "add", "compare"}]
        /\ stamps' \in [Sorters -> Seq(Time)]
        /\ \A r \in Sorters : Len(stamps'[r]) <= 2
        /\ CallOK'
      BY <2>1, <2>2, ObtainOK
  <2>4. TypeOK'
      BY <2>3, <1>8 DEF AddCount, TypeOK
  <2>5. QED
      BY <2>3, <2>4
<1>9. ASSUME NEW s \in Sorters, Compare(s)
      PROVE  TypeOK' /\ CallOK'
  <2>1. <<>> \in Seq(Time) /\ Len(<<>>) = 0
      OBVIOUS
  <2>2. TypeOK'
      BY <1>9, <2>1 DEF Compare, TypeOK
  <2>3. CallOK'
      BY <1>9 DEF Compare, TypeOK, CallOK, Looking, Current, Queued
  <2>4. QED
      BY <2>2, <2>3
<1>10. ASSUME CleanupStep
       PROVE  TypeOK' /\ CallOK'
  <2>1. UNCHANGED <<clock, since, lessVars>>
      BY <1>10 DEF CleanupStep, CleanupTick, CleanupVisit, CleanupDelete,
                   CleanupDecrement, CleanupEnd
  <2>2. CallOK'
      BY <2>1 DEF lessVars, CallOK, Current, Queued
  <2>3. /\ sweep' \in [pc: {"idle", "visit", "delete", "decrement"},
                       todo: SUBSET Groups, target: Groups \cup {NoGroup}, now: Time]
        /\ info' \in [Groups -> Entry \cup {NoEntry}]
        /\ count' \in Int /\ lost' \in Nat
    <3>0. /\ sweep \in [pc: {"idle", "visit", "delete", "decrement"},
                        todo: SUBSET Groups, target: Groups \cup {NoGroup}, now: Time]
          /\ info \in [Groups -> Entry \cup {NoEntry}]
          /\ count \in Int /\ lost \in Nat /\ clock \in Time
        BY DEF TypeOK
    <3>1. CASE CleanupTick
        BY <3>0, <3>1 DEF CleanupTick
    <3>2. ASSUME NEW g \in Groups, CleanupVisit(g)
          PROVE  sweep' \in [pc: {"idle", "visit", "delete", "decrement"},
                             todo: SUBSET Groups, target: Groups \cup {NoGroup},
                             now: Time]
                 /\ info' \in [Groups -> Entry \cup {NoEntry}]
                 /\ count' \in Int /\ lost' \in Nat
        BY <3>0, <3>2 DEF CleanupVisit
    <3>3. CASE CleanupDelete
      <4>1. sweep' = [sweep EXCEPT !.pc = "decrement"] /\ count' = count
          BY <3>3 DEF CleanupDelete
      <4>2. /\ info' = [info EXCEPT ![sweep.target] = NoEntry]
            /\ lost' = lost \/ lost' = lost + 1
          BY <3>3 DEF CleanupDelete, DeleteEntry
      <4>3. lost' \in Nat
          BY <3>0, <4>2
      <4>4. info' \in [Groups -> Entry \cup {NoEntry}]
          BY <3>0, <4>2
      <4>5. QED
          BY <3>0, <4>1, <4>3, <4>4
    <3>4. CASE CleanupDecrement
      <4>1. /\ sweep' = [sweep EXCEPT !.pc = "visit", !.target = NoGroup]
            /\ count' = count - 1 /\ info' = info /\ lost' = lost
          BY <3>4 DEF CleanupDecrement
      <4>2. count' \in Int
          BY <3>0, <4>1
      <4>3. sweep' \in [pc: {"idle", "visit", "delete", "decrement"},
                        todo: SUBSET Groups, target: Groups \cup {NoGroup},
                        now: Time]
          BY <3>0, <4>1
      <4>4. QED
          BY <3>0, <4>1, <4>2, <4>3
    <3>5. CASE CleanupEnd
      <4>1. 0 \in Time
          BY CacheAssumption DEF Time
      <4>2. QED
          BY <3>0, <3>5, <4>1 DEF CleanupEnd, NoSweep
    <3>6. QED
        BY <1>10, <3>1, <3>2, <3>3, <3>4, <3>5 DEF CleanupStep
  <2>4. QED
      BY <2>1, <2>2, <2>3 DEF lessVars, TypeOK
<1>11. ASSUME NEW p \in Pods, Enqueue(p) \/ Leave(p)
       PROVE  TypeOK' /\ CallOK'
  <2>1. p \notin Compared /\ UNCHANGED lessVars
        /\ \A q \in Pods \ {p} : since'[q] = since[q]
      BY <1>11 DEF Enqueue, Leave, TypeOK
  <2>2. CallOK'
      BY <2>1 DEF lessVars, CallOK, Current, Queued, Compared
  <2>3. TypeOK'
    <3>1. CASE Enqueue(p)
        BY <3>1 DEF Enqueue, lessVars, TypeOK
    <3>2. CASE Leave(p)
        BY <3>2 DEF Leave, lessVars, TypeOK
    <3>3. QED
        BY <3>1, <3>2, <1>11
  <2>4. QED
      BY <2>2, <2>3
<1>12. CASE Tick
  <2>1. TypeOK'
      BY <1>12, CacheAssumption DEF Tick, lessVars, TypeOK, Time
  <2>2. CallOK'
      BY <1>12 DEF Tick, lessVars, CallOK, Current, Queued
  <2>3. QED
      BY <2>1, <2>2
<1>13. CASE UNCHANGED vars
  <2>1. CallOK'
      BY <1>13 DEF vars, lessVars, CallOK, Current, Queued
  <2>2. TypeOK'
      BY <1>13 DEF vars, lessVars, TypeOK
  <2>3. QED
      BY <2>1, <2>2
<1>14. QED
    BY <1>1, <1>2, <1>3, <1>4, <1>5, <1>6, <1>7, <1>8, <1>9, <1>10, <1>11,
       <1>12, <1>13 DEF Next, LessStep

-----------------------------------------------------------------------------
(* The accounting.                                                         *)

\* Call s goes on to operation w, every other call stays where it is.
Goes(s, w) == pc'[s] = w /\ \A t \in Sorters \ {s} : pc'[t] = pc[t]

\* A call that goes on from one operation to the next moves between the sets.
LEMMA PcMoves ==
    ASSUME NEW s \in Sorters, NEW w, Goes(s, w)
    PROVE  /\ NAdd' = NAdd + (IF w = "add" THEN 1 ELSE 0)
                           - (IF pc[s] = "add" THEN 1 ELSE 0)
           /\ NStore' = NStore + (IF w = "store" THEN 1 ELSE 0)
                               - (IF pc[s] = "store" THEN 1 ELSE 0)
           /\ NDec' = NDec + (IF w = "decrement" THEN 1 ELSE 0)
                           - (IF pc[s] = "decrement" THEN 1 ELSE 0)
<1>1. pc'[s] = w /\ \A t \in Sorters \ {s} : pc'[t] = pc[t]
    BY DEF Goes
<1>2. IsFiniteSet(Sorters)
    BY CacheAssumption
<1>3. NAdd' = NAdd + (IF w = "add" THEN 1 ELSE 0)
                   - (IF pc[s] = "add" THEN 1 ELSE 0)
  <2>1. /\ Adding \in SUBSET Sorters /\ Adding' \in SUBSET Sorters
        /\ \A t \in Sorters \ {s} : t \in Adding <=> t \in Adding'
        /\ s \in Adding <=> pc[s] = "add"
        /\ s \in Adding' <=> w = "add"
      BY <1>1 DEF Adding
  <2>2. QED
      BY <1>2, <2>1, MoveOne DEF NAdd
<1>4. NStore' = NStore + (IF w = "store" THEN 1 ELSE 0)
                       - (IF pc[s] = "store" THEN 1 ELSE 0)
  <2>1. /\ Storing \in SUBSET Sorters /\ Storing' \in SUBSET Sorters
        /\ \A t \in Sorters \ {s} : t \in Storing <=> t \in Storing'
        /\ s \in Storing <=> pc[s] = "store"
        /\ s \in Storing' <=> w = "store"
      BY <1>1 DEF Storing
  <2>2. QED
      BY <1>2, <2>1, MoveOne DEF NStore
<1>5. NDec' = NDec + (IF w = "decrement" THEN 1 ELSE 0)
                   - (IF pc[s] = "decrement" THEN 1 ELSE 0)
  <2>1. /\ Decrementing \in SUBSET Sorters /\ Decrementing' \in SUBSET Sorters
        /\ \A t \in Sorters \ {s} : t \in Decrementing <=> t \in Decrementing'
        /\ s \in Decrementing <=> pc[s] = "decrement"
        /\ s \in Decrementing' <=> w = "decrement"
      BY <1>1 DEF Decrementing
  <2>2. QED
      BY <1>2, <2>1, MoveOne DEF NDec
<1>6. QED
    BY <1>3, <1>4, <1>5

\* A deletion removes an entry or is lost.
LEMMA DeleteMove ==
    ASSUME TypeOK, NEW g, DeleteEntry(g)
    PROVE  \/ /\ Cardinality(Entries)' = Cardinality(Entries) - 1
              /\ lost' = lost
           \/ /\ Cardinality(Entries)' = Cardinality(Entries)
              /\ lost' = lost + 1
<1>1. IsFiniteSet(Entries)
    BY CacheAssumption, FS_Subset DEF Entries
<1>2. CASE g \in Entries
  <2>1. Entries' = Entries \ {g}
      BY <1>2 DEF DeleteEntry, Entries, TypeOK
  <2>2. QED
      BY <1>1, <1>2, <2>1, FS_RemoveElement DEF DeleteEntry
<1>3. CASE g \notin Entries
  <2>1. Entries' = Entries
      BY <1>3 DEF DeleteEntry, Entries, TypeOK
  <2>2. QED
      BY <1>3, <2>1 DEF DeleteEntry
<1>4. QED
    BY <1>2, <1>3

\* A store of an absent key adds an entry.
LEMMA StoreMove ==
    ASSUME TypeOK, NEW g \in Groups, g \notin Entries, NEW t,
           info' = [info EXCEPT ![g] = [timestamp |-> t, updated |-> clock]]
    PROVE  Cardinality(Entries)' = Cardinality(Entries) + 1
<1>1. IsFiniteSet(Entries)
    BY CacheAssumption, FS_Subset DEF Entries
<1>2. [timestamp |-> t, updated |-> clock] # NoEntry
  <2>1. clock # Never
      BY CacheAssumption DEF TypeOK, Time, Never
  <2>2. QED
      BY <2>1 DEF NoEntry
<1>3. Entries' = Entries \cup {g}
    BY <1>2 DEF Entries, TypeOK
<1>4. QED
    BY <1>1, <1>3, FS_AddElement

\* Every step keeps the account exact and the room for the stores under way.
LEMMA AccountInvariance ==
    TypeOK /\ CallOK /\ Account /\ RoomForStores /\ [Next]_vars
      => Account' /\ RoomForStores'
<1> SUFFICES ASSUME TypeOK, CallOK, Account, RoomForStores, [Next]_vars
             PROVE  Account' /\ RoomForStores'
    OBVIOUS
<1> DEFINE n == Cardinality(Entries)
           m == Cardinality(Sorters)
<1>0. /\ count \in Int /\ lost \in Nat /\ n \in Nat /\ m \in Nat /\ Cap \in Nat
      /\ Sweeping \in {0, 1}
      /\ NAdd \in Nat /\ NDec \in Nat /\ NStore \in Nat
    BY Numbers, CacheAssumption DEF TypeOK
<1>1. ASSUME UNCHANGED <<info, count, lost>>, sweep'.pc = sweep.pc,
             NAdd' = NAdd, NDec' = NDec,
             NStore' <= NStore, NStore' \in Nat
      PROVE  Account' /\ RoomForStores'
  <2>1. Entries' = Entries /\ Sweeping' = Sweeping
      BY <1>1 DEF Entries, Sweeping
  <2>2. QED
      BY <1>0, <1>1, <2>1 DEF Account, RoomForStores
<1>2. ASSUME NEW s \in Sorters, NEW p \in Pods, NEW q \in Pods, LessStart(s, p, q)
      PROVE  Account' /\ RoomForStores'
  <2>1. pc[s] = "idle" /\ Goes(s, "load")
        /\ UNCHANGED <<info, count, lost, sweep>>
      BY <1>2 DEF LessStart, Goes, TypeOK
  <2>2. NAdd' = NAdd /\ NDec' = NDec
        /\ NStore' = NStore
      BY <2>1, PcMoves, <1>0
  <2>3. QED
      BY <1>0, <1>1, <2>1, <2>2
<1>3. ASSUME NEW s \in Sorters, LoadInfo(s) \/ Compare(s)
      PROVE  Account' /\ RoomForStores'
  <2>1. PICK w \in {"compare", "load", "cap", "idle"} :
          /\ pc[s] \in {"load", "compare"} /\ Goes(s, w)
          /\ UNCHANGED <<info, count, lost, sweep>>
      BY <1>3 DEF LoadInfo, Compare, Obtain, Goes, TypeOK
  <2>2. NAdd' = NAdd /\ NDec' = NDec
        /\ NStore' = NStore
      BY <2>1, PcMoves, <1>0
  <2>3. QED
      BY <1>0, <1>1, <2>1, <2>2
<1>4. ASSUME NEW s \in Sorters, CheckCap(s)
      PROVE  Account' /\ RoomForStores'
  <2>1. pc[s] = "cap" /\ UNCHANGED <<info, count, lost, sweep>>
      BY <1>4 DEF CheckCap
  <2>2. Entries' = Entries /\ Sweeping' = Sweeping
      BY <2>1 DEF Entries, Sweeping
  <2>3. CASE count >= Cap
    <3>1. Goes(s, "range")
        BY <2>3, <1>4 DEF CheckCap, Goes, TypeOK
    <3>2. NAdd' = NAdd /\ NDec' = NDec
          /\ NStore' = NStore
        BY <2>1, <3>1, PcMoves, <1>0
    <3>3. QED
        BY <1>0, <1>1, <2>1, <3>2
  <2>4. CASE ~(count >= Cap)
    <3>1. Goes(s, "store")
        BY <2>4, <1>4 DEF CheckCap, Goes, TypeOK
    <3>2. NAdd' = NAdd /\ NDec' = NDec
          /\ NStore' = NStore + 1
        BY <2>1, <3>1, PcMoves, <1>0
    <3>3. NStore + NAdd <= m - 1
        BY <2>1, DisjointCalls
    <3>4. Account'
        BY <1>0, <2>1, <2>2, <3>2 DEF Account
    <3>5. RoomForStores'
        BY <1>0, <2>1, <2>2, <2>4, <3>2, <3>3 DEF Account, RoomForStores
    <3>6. QED
        BY <3>4, <3>5
  <2>5. QED
      BY <2>3, <2>4
<1>5. ASSUME NEW s \in Sorters, RangeEntries(s)
      PROVE  Account' /\ RoomForStores'
  <2>1. pc[s] = "range" /\ UNCHANGED <<info, count, lost, sweep>>
      BY <1>5 DEF RangeEntries
  <2>2. Entries' = Entries /\ Sweeping' = Sweeping
      BY <2>1 DEF Entries, Sweeping
  <2>3. CASE Entries # {}
    <3>1. Goes(s, "evict")
        BY <2>3, <1>5 DEF RangeEntries, Goes, TypeOK
    <3>2. NAdd' = NAdd /\ NDec' = NDec
          /\ NStore' = NStore
        BY <2>1, <3>1, PcMoves, <1>0
    <3>3. QED
        BY <1>0, <1>1, <2>1, <3>2
  <2>4. CASE Entries = {}
    <3>1. Goes(s, "store")
        BY <2>4, <1>5 DEF RangeEntries, Goes, TypeOK
    <3>2. NAdd' = NAdd /\ NDec' = NDec
          /\ NStore' = NStore + 1
        BY <2>1, <3>1, PcMoves, <1>0
    <3>3. Account'
        BY <1>0, <2>1, <2>2, <3>2 DEF Account
    <3>4. n = 0 /\ NStore' + NDec' <= m
      <4>1. (NStore + NDec <= Cardinality(Sorters))'
          BY StoreAndDecrement, PTL
      <4>2. QED
          BY <2>4, <4>1, FS_EmptySet
    <3>5. Cap >= 1
        BY CacheAssumption
    <3>6. RoomForStores'
        BY <1>0, <2>1, <2>2, <3>2, <3>4, <3>5 DEF RoomForStores
    <3>7. QED
        BY <3>3, <3>6
  <2>5. QED
      BY <2>3, <2>4
<1>6. ASSUME NEW s \in Sorters, EvictOldest(s)
      PROVE  Account' /\ RoomForStores'
  <2>1. PICK e \in batch[s] : DeleteEntry(e.group)
      BY <1>6 DEF EvictOldest
  <2>2. pc[s] = "evict" /\ Goes(s, "decrement")
        /\ UNCHANGED <<count, sweep>>
      BY <1>6 DEF EvictOldest, Goes, TypeOK
  <2>3. NAdd' = NAdd /\ NDec' = NDec + 1
        /\ NStore' = NStore
      BY <2>2, PcMoves, <1>0
  <2>4. Sweeping' = Sweeping
      BY <2>2 DEF Sweeping
  <2>5. \/ n' = n - 1 /\ lost' = lost
        \/ n' = n /\ lost' = lost + 1
      BY <2>1, DeleteMove
  <2>6. QED
      BY <1>0, <2>2, <2>3, <2>4, <2>5 DEF Account, RoomForStores
<1>7. ASSUME NEW s \in Sorters, EvictDecrement(s)
      PROVE  Account' /\ RoomForStores'
  <2>1. PICK w \in {"store", "evict"} : Goes(s, w)
      BY <1>7 DEF EvictDecrement, Goes, TypeOK
  <2>2. pc[s] = "decrement" /\ count' = count - 1 /\ UNCHANGED <<info, sweep, lost>>
      BY <1>7 DEF EvictDecrement
  <2>3. Entries' = Entries /\ Sweeping' = Sweeping
      BY <2>2 DEF Entries, Sweeping
  <2>4. /\ NAdd' = NAdd /\ NDec' = NDec - 1
        /\ NStore' \in {NStore, NStore + 1}
      BY <2>1, <2>2, PcMoves, <1>0
  <2>5. QED
      BY <1>0, <2>2, <2>3, <2>4 DEF Account, RoomForStores
<1>8. ASSUME NEW s \in Sorters, StoreInfo(s)
      PROVE  Account' /\ RoomForStores'
  <2>1. pc[s] = "store" /\ UNCHANGED <<count, sweep, lost>>
      BY <1>8 DEF StoreInfo
  <2>2. Sweeping' = Sweeping
      BY <2>1 DEF Sweeping
  <2>3. GroupName(Current(s)) \in Groups
      BY <2>1 DEF CallOK, Looking
  <2>4. CASE GroupName(Current(s)) \in Entries
    <3>1. PICK w \in {"compare", "load"} : Goes(s, w)
        BY <1>8, <2>4 DEF StoreInfo, Obtain, Goes, TypeOK
    <3>2. NAdd' = NAdd /\ NDec' = NDec
          /\ NStore' = NStore - 1
        BY <2>1, <3>1, PcMoves, <1>0
    <3>3. Entries' = Entries
        BY <1>8, <2>4 DEF StoreInfo, Entries
    <3>4. QED
        BY <1>0, <2>1, <2>2, <3>2, <3>3 DEF Account, RoomForStores
  <2>5. CASE GroupName(Current(s)) \notin Entries
    <3>1. /\ Goes(s, "add")
          /\ info' = [info EXCEPT ![GroupName(Current(s))] =
                        [timestamp |-> since[Current(s)], updated |-> clock]]
        BY <1>8, <2>5 DEF StoreInfo, Goes, TypeOK
    <3>2. NAdd' = NAdd + 1 /\ NDec' = NDec
          /\ NStore' = NStore - 1
        BY <2>1, <3>1, PcMoves, <1>0
    <3>3. n' = n + 1
        BY <2>3, <2>5, <3>1, StoreMove
    <3>4. QED
        BY <1>0, <2>1, <2>2, <3>2, <3>3 DEF Account, RoomForStores
  <2>6. QED
      BY <2>4, <2>5
<1>9. ASSUME NEW s \in Sorters, AddCount(s)
      PROVE  Account' /\ RoomForStores'
  <2>1. pc[s] = "add" /\ count' = count + 1 /\ UNCHANGED <<info, sweep, lost>>
      BY <1>9 DEF AddCount
  <2>2. PICK w \in {"compare", "load"} : Goes(s, w)
      BY <1>9 DEF AddCount, Obtain, Goes, TypeOK
  <2>3. Entries' = Entries /\ Sweeping' = Sweeping
      BY <2>1 DEF Entries, Sweeping
  <2>4. NAdd' = NAdd - 1 /\ NDec' = NDec
        /\ NStore' = NStore
      BY <2>1, <2>2, PcMoves, <1>0
  <2>5. QED
      BY <1>0, <2>1, <2>3, <2>4 DEF Account, RoomForStores
<1>10. ASSUME CleanupTick \/ CleanupEnd \/ \E g \in Groups : CleanupVisit(g)
       PROVE  Account' /\ RoomForStores'
  <2>1. UNCHANGED <<info, count, lost, pc>>
        /\ sweep.pc # "decrement" /\ sweep'.pc # "decrement"
    <3>1. sweep \in [pc: {"idle", "visit", "delete", "decrement"},
                     todo: SUBSET Groups, target: Groups \cup {NoGroup}, now: Time]
        BY DEF TypeOK
    <3>2. CASE CleanupTick
        BY <3>1, <3>2 DEF CleanupTick, lessVars
    <3>3. CASE CleanupEnd
        BY <3>1, <3>3 DEF CleanupEnd, NoSweep, lessVars
    <3>4. ASSUME NEW g \in Groups, CleanupVisit(g)
          PROVE  UNCHANGED <<info, count, lost, pc>>
                 /\ sweep.pc # "decrement" /\ sweep'.pc # "decrement"
        BY <3>1, <3>4 DEF CleanupVisit, lessVars
    <3>5. QED
        BY <1>10, <3>2, <3>3, <3>4
  <2>2. Entries' = Entries /\ Sweeping' = Sweeping
        /\ NAdd' = NAdd /\ NDec' = NDec
        /\ NStore' = NStore
      BY <2>1 DEF Entries, Sweeping, NAdd, NStore, NDec, Adding, Storing, Decrementing
  <2>3. QED
      BY <1>0, <2>1, <2>2 DEF Account, RoomForStores
<1>11. ASSUME CleanupDelete
       PROVE  Account' /\ RoomForStores'
  <2>1. UNCHANGED <<count, pc>> /\ Sweeping = 0 /\ Sweeping' = 1
      BY <1>11 DEF CleanupDelete, lessVars, Sweeping, TypeOK
  <2>2. \/ n' = n - 1 /\ lost' = lost
        \/ n' = n /\ lost' = lost + 1
      BY <1>11, DeleteMove DEF CleanupDelete
  <2>3. NAdd' = NAdd /\ NDec' = NDec
        /\ NStore' = NStore
      BY <2>1 DEF NAdd, NStore, NDec, Adding, Storing, Decrementing
  <2>4. QED
      BY <1>0, <2>1, <2>2, <2>3 DEF Account, RoomForStores
<1>12. ASSUME CleanupDecrement
       PROVE  Account' /\ RoomForStores'
  <2>1. UNCHANGED <<info, lost, pc>> /\ count' = count - 1
        /\ Sweeping = 1 /\ Sweeping' = 0
      BY <1>12 DEF CleanupDecrement, lessVars, Sweeping, TypeOK
  <2>2. Entries' = Entries
        /\ NAdd' = NAdd /\ NDec' = NDec
        /\ NStore' = NStore
      BY <2>1 DEF Entries, NAdd, NStore, NDec, Adding, Storing, Decrementing
  <2>3. QED
      BY <1>0, <2>1, <2>2 DEF Account, RoomForStores
<1>13. ASSUME (\E p \in Pods : Enqueue(p) \/ Leave(p)) \/ Tick \/ UNCHANGED vars
       PROVE  Account' /\ RoomForStores'
  <2>1. UNCHANGED <<info, count, lost, pc, sweep>>
      BY <1>13 DEF Enqueue, Leave, Tick, vars, lessVars
  <2>2. NAdd' = NAdd /\ NDec' = NDec
        /\ NStore' = NStore /\ Entries' = Entries /\ Sweeping' = Sweeping
      BY <2>1 DEF NAdd, NStore, NDec, Adding, Storing, Decrementing, Entries,
                  Sweeping
  <2>3. QED
      BY <1>0, <2>1, <2>2 DEF Account, RoomForStores
<1>14. QED
    BY <1>2, <1>3, <1>4, <1>5, <1>6, <1>7, <1>8, <1>9, <1>10, <1>11, <1>12,
       <1>13 DEF Next, LessStep, CleanupStep

-----------------------------------------------------------------------------
\* The initial state satisfies the inductive invariant.
LEMMA InitIInv == Init => IInv
<1> SUFFICES ASSUME Init PROVE IInv
    OBVIOUS
<1>1. 0 \in Time /\ <<>> \in Seq(Time) /\ Len(<<>>) = 0
    BY CacheAssumption DEF Time
<1>2. TypeOK
    BY <1>1 DEF Init, TypeOK, NoSweep
<1>3. CallOK
    BY DEF Init, CallOK
<1>4. Entries = {} /\ Sweeping = 0
    BY DEF Init, Entries, Sweeping, NoSweep
<1>5. NAdd = 0 /\ NDec = 0 /\ NStore = 0
  <2>1. Adding = {} /\ Decrementing = {} /\ Storing = {}
      BY DEF Init, Adding, Decrementing, Storing
  <2>2. QED
      BY <2>1, FS_EmptySet DEF NAdd, NDec, NStore
<1>6. Cardinality(Entries) = 0
    BY <1>4, FS_EmptySet
<1>7. Cardinality(Sorters) \in Nat /\ Cardinality(Sorters) >= 1
  <2>1. Cardinality(Sorters) \in Nat /\ Cardinality(Sorters) # 0
      BY CacheAssumption, FS_EmptySet, FS_CardinalityType
  <2>2. QED
      BY <2>1
<1>8. Account /\ RoomForStores
    BY <1>4, <1>5, <1>6, <1>7, CacheAssumption DEF Init, Account, RoomForStores
<1>9. QED
    BY <1>2, <1>3, <1>8 DEF IInv

\* Every reachable state satisfies it.
LEMMA Inductive == Spec => []IInv
<1>1. IInv /\ [Next]_vars => IInv'
    BY TypeInvariance, AccountInvariance DEF IInv
<1>2. QED
    BY InitIInv, <1>1, PTL DEF Spec

\* Type correctness of the cache, the queue and the calls under way.
THEOREM TypeCorrect == Spec => []TypeOK
<1>1. IInv => TypeOK
    BY DEF IInv
<1>2. QED
    BY <1>1, Inductive, PTL

\* The counter beside podGroupInfos never runs ahead of the map, whatever Less
\* calls and cleanups do at the same time.
THEOREM CounterNeverOvercounts == Spec => []NoPhantomEntries
<1>1. IInv => NoPhantomEntries
  <2> SUFFICES ASSUME IInv PROVE NoPhantomEntries
      OBVIOUS
  <2>1. count \in Int /\ lost \in Nat
      BY DEF IInv, TypeOK
  <2>2. Cardinality(Decrementing) = NDec
      BY DEF NDec
  <2>3. QED
      BY <2>1, <2>2, Numbers DEF IInv, Account, NoPhantomEntries
<1>2. QED
    BY <1>1, Inductive, PTL

\* The size of podGroupInfos exceeds the cap by no more than the calls that
\* raced through the check and the deletions counted twice.
THEOREM CapHoldsUpToRaces == Spec => []CapUpToRaces
<1>1. IInv => CapUpToRaces
  <2> SUFFICES ASSUME IInv PROVE CapUpToRaces
      OBVIOUS
  <2>1. lost \in Nat /\ Cap \in Nat
      BY CacheAssumption DEF IInv, TypeOK
  <2>2. QED
      BY <2>1, Numbers DEF IInv, RoomForStores, CapUpToRaces
<1>2. QED
    BY <1>1, Inductive, PTL

\* Less is a strict weak order on the queue in every reachable state.
THEOREM QueueIsOrdered == Spec => []OrderIsStrictWeak
<1>1. IInv => OrderIsStrictWeak
  <2> SUFFICES ASSUME IInv,
                      NEW x \in {Item(p, Stamp(p)) : p \in Queued},
                      NEW y \in {Item(p, Stamp(p)) : p \in Queued},
                      NEW z \in {Item(p, Stamp(p)) : p \in Queued}
               PROVE  /\ Before(clock, x, y) => ~Before(clock, y, x)
                      /\ Before(clock, x, y) => Before(clock, x, z) \/ Before(clock, z, y)
      BY DEF OrderIsStrictWeak
  <2>1. clock \in Int
      BY CacheAssumption DEF IInv, TypeOK, Time
  <2>2. /\ x \in [timestamp: Int, priority: Int, key: Int]
        /\ y \in [timestamp: Int, priority: Int, key: Int]
        /\ z \in [timestamp: Int, priority: Int, key: Int]
      BY StampIsTime DEF IInv
  <2>3. QED
      BY <2>1, <2>2, BeforeIsStrictWeak
<1>2. QED
    BY <1>1, Inductive, PTL
=============================================================================
