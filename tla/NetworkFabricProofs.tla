------------------------ MODULE NetworkFabricProofs ------------------------
(***************************************************************************)
(* A gang that requires one NVLink clique spans no more cliques than it    *)
(* had members at one moment whose clique the informers did not tell, for  *)
(* any cluster and any gang, and no node scores less for being closer to   *)
(* the members that are placed.                                            *)
(***************************************************************************)
EXTENDS NetworkFabric, FiniteSetTheorems, TLAPS

\* Where a pod is, and what the informer has of it, fit its phase.
PodsOK ==
    /\ \A p \in Pods :
         /\ phase[p] \in {"pending", "cycle", "gone"} <=> place[p] = NoNode
         /\ phase[p] \in {"pending", "cycle", "assumed"} => seen[p] = NoNode
         /\ phase[p] = "bound" => seen[p] \in {NoNode, place[p]}
    /\ current # NoPod => phase[current] = "cycle"

Dark(p) == {r \in Gang(p) : Unlocated(r)}

DarkBounded == \A p \in Pods : Cardinality(Dark(p)) <= peak[p]

\* The cliques a gang holds or seems to hold: of its members' nodes, and of the
\* nodes the informer still shows for members that are gone.
Span(p) == ({Partition(place[q]) : q \in {r \in Gang(p) : place[r] # NoNode}}
            \cup {Partition(seen[q]) : q \in {r \in Gang(p) : seen[r] # NoNode}})
           \ {""}

\* In the cycle under way, a node that passed is in the set K, or in no clique,
\* or the gang may have one more clique.
PassedIn(p, K) ==
    current \in Gang(p) =>
        \A n \in Nodes : verdict[n] = "pass" =>
            \/ Partition(n) \in K \cup {""}
            \/ Cardinality(Span(p)) + 1 <= peak[p]

\* The gang stays within a set of no more cliques than the peak.
Within(p, K) == /\ IsFiniteSet(K) /\ Cardinality(K) <= peak[p]
                /\ Span(p) \subseteq K /\ PassedIn(p, K)

SpanBounded == \A p \in Pods : StrictGang(p) => \E K : Within(p, K)

FInv == TypeOK /\ PodsOK /\ DarkBounded /\ SpanBounded

-----------------------------------------------------------------------------
\* The values of a function on a finite set are no more than its arguments.
LEMMA ImageBound ==
    ASSUME NEW S, IsFiniteSet(S), NEW f
    PROVE  /\ IsFiniteSet({f[x] : x \in S})
           /\ Cardinality({f[x] : x \in S}) <= Cardinality(S)
<1> DEFINE T == {f[x] : x \in S}
           g == [x \in S |-> f[x]]
<1>1. g \in Surjection(S, T)
    BY DEF Surjection
<1> HIDE DEF g, T
<1>2. IsFiniteSet(T) /\ Cardinality(T) <= Cardinality(S)
    BY <1>1, FS_Surjection
<1>3. QED
    BY <1>2 DEF T

\* Arithmetic of the bounds.
LEMMA LeqTrans ==
    \A a, b, c \in Nat : a <= b /\ b <= c => a <= c
  OBVIOUS

LEMMA RoomKept ==
    \A a, b, c, d \in Nat : a <= b /\ b + 1 <= c /\ c <= d => a + 1 <= d
  OBVIOUS

LEMMA RoomForOne ==
    \A a, b, c, d, e \in Nat :
        a <= b /\ b <= c /\ c = d - 1 /\ d <= e => a + 1 <= e
  OBVIOUS

LEMMA GangFinite ==
    ASSUME NEW p
    PROVE  \A S \in SUBSET Gang(p) : IsFiniteSet(S) /\ Cardinality(S) \in Nat
<1>1. IsFiniteSet(Pods)
    BY FabricAssumption DEF FabricAssumption
<1>2. \A S \in SUBSET Gang(p) : S \in SUBSET Pods
    BY DEF Gang
<1>3. \A S \in SUBSET Pods : IsFiniteSet(S)
    BY <1>1, FS_Subset
<1>4. QED
    BY <1>2, <1>3, FS_CardinalityType

LEMMA SpanFinite ==
    ASSUME NEW p
    PROVE  IsFiniteSet(Span(p)) /\ Cardinality(Span(p)) \in Nat
<1> DEFINE A == {r \in Gang(p) : place[r] # NoNode}
           B == {r \in Gang(p) : seen[r] # NoNode}
           f == [q \in Pods |-> Partition(place[q])]
           g == [q \in Pods |-> Partition(seen[q])]
           F == {f[q] : q \in A}
           G == {g[q] : q \in B}
<1>1. IsFiniteSet(A) /\ IsFiniteSet(B)
    BY GangFinite
<1> HIDE DEF f, g
<1>2. IsFiniteSet(F) /\ IsFiniteSet(G)
    BY <1>1, ImageBound
<1> HIDE DEF F, G
<1>3. IsFiniteSet(F \cup G)
    BY <1>2, FS_Union
<1>4. Span(p) \subseteq F \cup G
    BY DEF Span, F, G, f, g, Gang
<1>5. QED
    BY <1>3, <1>4, FS_Subset, FS_CardinalityType

-----------------------------------------------------------------------------
(* Types.                                                                  *)

LEMMA ScoreInRange ==
    ASSUME NEW p, NEW n
    PROVE  NodeScore(p, n) \in 0..100
<1>1. \A f : getFabricTierScore(f) \in 0..100
    BY DEF getFabricTierScore
<1>2. ASSUME NEW c, NEW M, NEW w \in Int
      PROVE  LevelScore(c, M, w) \in Int
  <2>1. -w \in Int /\ 0 \in Int
    OBVIOUS
  <2> DEFINE v == -w
  <2>2. LevelScore(c, M, w) \in {0, w, v}
    BY Zenon DEF LevelScore
  <2>3. QED
    BY <2>1, <2>2
<1>3. calculateLocalityScore(p, n) \in Int
    BY <1>2 DEF calculateLocalityScore
<1>4. getWorkloadFabricBonus(p, FabricType[n]) \in Int
    BY DEF getWorkloadFabricBonus
<1>5. \A x \in Int : Boost(x) \in Int
    BY DEF Boost
<1>6. \A x \in Int : Clamp(x) \in 0..100
    BY DEF Clamp
<1> DEFINE base == getFabricTierScore(FabricType[n])
           sum  == base + calculateLocalityScore(p, n)
                        + getWorkloadFabricBonus(p, FabricType[n])
<1>7. base \in 0..100 /\ sum \in Int
    BY <1>1, <1>3, <1>4
<1> HIDE DEF base, sum
<1>8. Clamp(IF p \in Sensitive THEN Boost(sum) ELSE sum) \in 0..100 /\ 0 \in 0..100
    BY <1>5, <1>6, <1>7
<1>9. QED
    BY <1>7, <1>8, Zenon DEF NodeScore, base, sum

LEMMA TypeInvariance ==
    ASSUME TypeOK, [Next]_vars
    PROVE  TypeOK'
<1> USE FabricAssumption DEF FabricAssumption, TypeOK
<1>1. ASSUME NEW n \in Nodes, Filter(n)
      PROVE  TypeOK'
    BY <1>1 DEF Filter, FilterVerdict
<1>2. ASSUME NEW n \in Nodes, Score(n)
      PROVE  TypeOK'
    BY <1>2, ScoreInRange DEF Score
<1>3. ASSUME NEW n \in Nodes, Select(n)
      PROVE  TypeOK'
    BY <1>3 DEF Select, EndCycle, Unscored
<1>4. ASSUME NEW n \in Nodes, NodeReturns(n) \/ PublishSlices(n)
      PROVE  TypeOK'
    BY <1>4 DEF NodeReturns, PublishSlices
<1>5. ASSUME Track
      PROVE  peak' \in [Pods -> Nat]
  <2>1. \A q \in Pods : Cardinality({r \in Gang(q) : Unlocated(r)'}) \in Nat
    BY GangFinite
  <2>2. QED
    BY <1>5, <2>1 DEF Track
<1>6. ASSUME NEW n \in Nodes, LoseNode(n) \/ WithdrawSlices(n)
      PROVE  TypeOK'
    BY <1>5, <1>6 DEF LoseNode, WithdrawSlices
<1>7. ASSUME NEW p \in Pods, BeginCycle(p)
      PROVE  TypeOK'
    BY <1>5, <1>7 DEF BeginCycle, Unscored
<1>8. ASSUME NEW p \in Pods, Bind(p) \/ BindFails(p) \/ DeletePod(p) \/ SeePod(p)
      PROVE  TypeOK'
    BY <1>8 DEF Bind, BindFails, DeletePod, SeePod
<1>9. CASE Unschedulable
    BY <1>9 DEF Unschedulable, EndCycle, Unscored
<1>10. CASE UNCHANGED vars
    BY <1>10 DEF vars
<1>11. QED
    BY <1>1, <1>2, <1>3, <1>4, <1>6, <1>7, <1>8, <1>9, <1>10 DEF Next

-----------------------------------------------------------------------------
(* Phases and members that cannot be located.                              *)

LEMMA PodsInvariance ==
    ASSUME TypeOK, PodsOK, [Next]_vars
    PROVE  PodsOK'
<1> USE FabricAssumption DEF FabricAssumption, TypeOK, PodsOK
<1>1. ASSUME NEW n \in Nodes,
             \/ Filter(n) \/ Score(n) \/ LoseNode(n) \/ NodeReturns(n)
             \/ PublishSlices(n) \/ WithdrawSlices(n)
      PROVE  PodsOK'
    BY <1>1 DEF Filter, Score, LoseNode, NodeReturns, PublishSlices, WithdrawSlices
<1>2. ASSUME NEW n \in Nodes, Select(n)
      PROVE  PodsOK'
    BY <1>2 DEF Select, EndCycle
<1>3. ASSUME NEW p \in Pods, BeginCycle(p)
      PROVE  PodsOK'
    BY <1>3 DEF BeginCycle
<1>4. ASSUME NEW p \in Pods, Bind(p) \/ BindFails(p) \/ DeletePod(p) \/ SeePod(p)
      PROVE  PodsOK'
    BY <1>4 DEF Bind, BindFails, DeletePod, SeePod
<1>5. CASE Unschedulable
    BY <1>5 DEF Unschedulable, EndCycle
<1>6. CASE UNCHANGED vars
    BY <1>6 DEF vars
<1>7. QED
    BY <1>1, <1>2, <1>3, <1>4, <1>5, <1>6 DEF Next

\* Members fall into the dark only when a cycle begins, a node is lost or slices
\* are withdrawn, and are counted then.
LEMMA DarkInvariance ==
    ASSUME TypeOK, PodsOK, DarkBounded, [Next]_vars
    PROVE  DarkBounded' /\ \A p \in Pods : peak[p] <= peak'[p]
<1> USE FabricAssumption DEF FabricAssumption, TypeOK
<1>1. ASSUME Track
      PROVE  DarkBounded' /\ \A q \in Pods : peak[q] <= peak'[q]
  <2> SUFFICES ASSUME NEW q \in Pods
               PROVE  Cardinality(Dark(q)') <= peak'[q] /\ peak[q] <= peak'[q]
    BY DEF DarkBounded
  <2> DEFINE D == {r \in Gang(q) : Unlocated(r)'}
  <2>1. Dark(q)' = D
    BY DEF Dark, Gang
  <2>2. Cardinality(D) \in Nat
    BY GangFinite
  <2>3. peak'[q] = IF Cardinality(D) > peak[q] THEN Cardinality(D) ELSE peak[q]
    BY <1>1 DEF Track
  <2> HIDE DEF D
  <2>4. QED
    BY <2>1, <2>2, <2>3
<1>2. ASSUME peak' = peak, \A r \in Pods : Unlocated(r)' => Unlocated(r)
      PROVE  DarkBounded' /\ \A q \in Pods : peak[q] <= peak'[q]
  <2> SUFFICES ASSUME NEW q \in Pods
               PROVE  Cardinality(Dark(q)') <= peak[q]
    BY <1>2 DEF DarkBounded
  <2>1. Dark(q)' \subseteq Dark(q)
    BY <1>2 DEF Dark, Gang
  <2>2. Dark(q) \in SUBSET Gang(q)
    BY DEF Dark
  <2>3. IsFiniteSet(Dark(q)) /\ Cardinality(Dark(q)) \in Nat
    BY <2>2, GangFinite
  <2>4. Cardinality(Dark(q)') \in Nat /\ Cardinality(Dark(q)') <= Cardinality(Dark(q))
    BY <2>1, <2>3, FS_Subset, FS_CardinalityType
  <2>5. QED
    BY <2>3, <2>4 DEF DarkBounded
<1>3. ASSUME NEW n \in Nodes, Filter(n) \/ Score(n)
      PROVE  peak' = peak /\ \A r \in Pods : Unlocated(r)' => Unlocated(r)
    BY <1>3 DEF Filter, Score, Unlocated, InFlight, Partition, getNodeClique
<1>4. ASSUME NEW n \in Nodes, NodeReturns(n) \/ PublishSlices(n)
      PROVE  peak' = peak /\ \A r \in Pods : Unlocated(r)' => Unlocated(r)
    BY <1>4 DEF NodeReturns, PublishSlices, Unlocated, InFlight, Partition, getNodeClique
<1>5. ASSUME NEW n \in Nodes, Select(n)
      PROVE  peak' = peak /\ \A r \in Pods : Unlocated(r)' => Unlocated(r)
    BY <1>5 DEF Select, Unlocated, InFlight, Partition, getNodeClique, PodsOK
<1>6. ASSUME NEW p \in Pods, Bind(p) \/ BindFails(p) \/ DeletePod(p) \/ SeePod(p)
      PROVE  peak' = peak /\ \A r \in Pods : Unlocated(r)' => Unlocated(r)
  <2>1. slices' = slices /\ nodes' = nodes /\ peak' = peak
    BY <1>6 DEF Bind, BindFails, DeletePod, SeePod
  <2>2. \A n : Partition(n)' = Partition(n) /\ getNodeClique(n)' = getNodeClique(n)
    BY <2>1 DEF Partition, getNodeClique
  <2>3. ASSUME NEW r \in Pods, InFlight(r)'
        PROVE  InFlight(r)
    BY <1>6, <2>3 DEF Bind, BindFails, DeletePod, SeePod, InFlight, PodsOK
  <2>4. ASSUME NEW r \in Pods, seen'[r] # NoNode, seen'[r] # seen[r]
        PROVE  InFlight(r)
    BY <1>6, <2>4 DEF Bind, BindFails, DeletePod, SeePod, InFlight, PodsOK
  <2>5. QED
    BY <2>1, <2>2, <2>3, <2>4 DEF Unlocated
<1>7. CASE Unschedulable
    BY <1>2, <1>7 DEF Unschedulable, Unlocated, InFlight, Partition, getNodeClique
<1>8. CASE UNCHANGED vars
    BY <1>2, <1>8 DEF vars, Unlocated, InFlight, Partition, getNodeClique
<1>9. ASSUME \/ \E p \in Pods : BeginCycle(p)
             \/ \E n \in Nodes : LoseNode(n) \/ WithdrawSlices(n)
      PROVE  Track
    BY <1>9 DEF BeginCycle, LoseNode, WithdrawSlices
<1>10. QED
    BY <1>1, <1>2, <1>3, <1>4, <1>5, <1>6, <1>7, <1>8, <1>9 DEF Next

-----------------------------------------------------------------------------
(* The span.                                                               *)

\* As long as no pod of the gang is placed, the span shrinks at most, and the
\* bound set of before will do.
LEMMA WithinKept ==
    ASSUME TypeOK, NEW p \in Pods, NEW K, Within(p, K),
           peak[p] \in Nat, peak'[p] \in Nat, peak[p] <= peak'[p],
           Span(p)' \subseteq Span(p),
           current' \in Gang(p) =>
             \A n \in Nodes : verdict'[n] = "pass" =>
               \/ current = current' /\ verdict[n] = "pass"
               \/ Partition(n) \in K \cup {""}
               \/ Cardinality(Span(p)) + 1 <= peak[p]
    PROVE  Within(p, K)'
<1>1. IsFiniteSet(Span(p)) /\ Cardinality(Span(p)) \in Nat
    BY SpanFinite
<1>2. Cardinality(Span(p)') \in Nat /\ Cardinality(Span(p)') <= Cardinality(Span(p))
    BY <1>1, FS_Subset, FS_CardinalityType
<1>3. Cardinality(K) \in Nat
    BY FS_CardinalityType DEF Within
<1>4. /\ IsFiniteSet(K) /\ Cardinality(K) <= peak[p]
      /\ Span(p) \subseteq K /\ PassedIn(p, K)
    BY DEF Within
<1>5. Cardinality(K) <= peak'[p]
    BY <1>3, <1>4, LeqTrans, Zenon
<1>6. ASSUME current' \in Gang(p), NEW n \in Nodes, verdict'[n] = "pass"
      PROVE  \/ Partition(n) \in K \cup {""}
             \/ Cardinality(Span(p)') + 1 <= peak'[p]
  <2>1. \/ Partition(n) \in K \cup {""}
        \/ Cardinality(Span(p)) + 1 <= peak[p]
    BY <1>4, <1>6 DEF PassedIn
  <2>2. CASE Cardinality(Span(p)) + 1 <= peak[p]
    <3>1. Cardinality(Span(p)') + 1 <= peak'[p]
        BY <1>1, <1>2, <2>2, RoomKept, Zenon
    <3>2. QED
        BY <3>1
  <2>3. QED
    BY <2>1, <2>2
<1>7. PassedIn(p, K)'
    BY <1>6 DEF PassedIn, Gang, Partition
<1>8. QED
    BY <1>4, <1>5, <1>7 DEF Within

\* When Filter finds no clique of the gang, no clique that it holds can be told
\* from the informers, and the pod of the cycle is in the dark with its members.
LEMMA UnseenSpan ==
    ASSUME TypeOK, PodsOK, DarkBounded, NEW p \in Pods, current \in Gang(p),
           "" \in getGangClique(current)
    PROVE  Cardinality(Span(p)) + 1 <= peak[p]
<1> DEFINE R == Dark(p) \ {current}
           f == [q \in Pods |-> IF seen[q] # NoNode THEN Partition(seen[q])
                                                  ELSE Partition(place[q])]
           F == {f[q] : q \in R}
<1>1. current \in Pods /\ current # NoPod /\ Gang(current) = Gang(p)
    BY FabricAssumption DEF Gang, FabricAssumption
<1>2. \A q \in Gang(p) : seen[q] \in nodes => getNodeClique(seen[q]) = ""
  <2>1. NoNode \notin nodes
    BY FabricAssumption DEF TypeOK, FabricAssumption
  <2> DEFINE found == {getNodeClique(seen[q]) :
                    q \in {r \in getGangMemberPods(current) : seen[r] \in nodes}} \ {""}
  <2>2. getGangClique(current) = IF found = {} THEN {""} ELSE found
    BY DEF getGangClique
  <2>3. "" \notin found
    OBVIOUS
  <2> HIDE DEF found
  <2>4. found = {}
    BY <2>2, <2>3
  <2>5. QED
    BY <1>1, <2>1, <2>4 DEF found, getGangMemberPods
<1>3. current \in Dark(p)
    BY <1>1 DEF Dark, Unlocated, InFlight, PodsOK
<1>4. seen[current] = NoNode /\ place[current] = NoNode
    BY <1>1 DEF PodsOK
<1>5. ASSUME NEW q \in Gang(p), seen[q] # NoNode, Partition(seen[q]) # ""
      PROVE  Partition(seen[q]) \in F
  <2>1. Unlocated(q)
    BY <1>2, <1>5 DEF Unlocated
  <2>2. q \in R /\ q \in Pods
    BY <1>4, <1>5, <2>1 DEF Dark, Gang
  <2>3. f[q] = Partition(seen[q])
    BY <1>5, <2>2
  <2>4. QED
    BY <2>2, <2>3
<1>6. ASSUME NEW q \in Gang(p), place[q] # NoNode, Partition(place[q]) # ""
      PROVE  Partition(place[q]) \in F
  <2>1. q \in Pods /\ phase[q] \in {"assumed", "bound"}
    BY <1>6 DEF PodsOK, TypeOK, Gang
  <2>2. CASE seen[q] # NoNode
    <3>1. seen[q] = place[q]
        BY <2>1, <2>2 DEF PodsOK
    <3>2. QED
        BY <1>5, <1>6, <2>2, <3>1
  <2>3. CASE seen[q] = NoNode
    <3>1. Unlocated(q)
        BY <2>1, <2>3 DEF Unlocated, InFlight
    <3>2. q \in R
        BY <1>4, <1>6, <3>1 DEF Dark
    <3>3. f[q] = Partition(place[q])
        BY <2>1, <2>3
    <3>4. QED
        BY <3>2, <3>3
  <2>4. QED
    BY <2>2, <2>3
<1>7. Span(p) \subseteq F
    BY <1>5, <1>6 DEF Span
<1>8. Dark(p) \in SUBSET Gang(p)
    BY DEF Dark
<1>9. IsFiniteSet(Dark(p)) /\ Cardinality(Dark(p)) \in Nat
    BY <1>8, GangFinite
<1>10. IsFiniteSet(R) /\ Cardinality(R) = Cardinality(Dark(p)) - 1
    BY <1>3, <1>9, FS_RemoveElement
<1> HIDE DEF R, f
<1>11. IsFiniteSet(F) /\ Cardinality(F) <= Cardinality(R)
    BY <1>10, ImageBound
<1> HIDE DEF F
<1>12. /\ Cardinality(F) \in Nat /\ Cardinality(Span(p)) \in Nat
       /\ Cardinality(Span(p)) <= Cardinality(F)
    BY <1>7, <1>11, FS_Subset, FS_CardinalityType
<1>13. Cardinality(Dark(p)) <= peak[p] /\ peak[p] \in Nat
    BY DEF DarkBounded, TypeOK
<1>14. Cardinality(R) \in Nat
    BY <1>10, FS_CardinalityType
<1>15. QED
    BY <1>9, <1>10, <1>11, <1>12, <1>13, <1>14, RoomForOne, Zenon

\* A clique that the informers show is the node's.
LEMMA ShownIsPartition ==
    \A n : getNodeClique(n) # "" => getNodeClique(n) = Partition(n)
  BY DEF getNodeClique, Partition

\* Filter lets a node pass only for a clique the gang holds, or if it holds none
\* that can be seen.
LEMMA FilterKeeps ==
    ASSUME FInv, NEW p \in Pods, StrictGang(p), NEW K, Within(p, K),
           NEW n \in Nodes, Filter(n)
    PROVE  Within(p, K)'
<1> USE DEF FInv
<1>1. UNCHANGED <<phase, place, seen, nodes, slices, current, peak>>
    BY DEF Filter
<1>2. PICK c \in getGangClique(current) :
          verdict' = [verdict EXCEPT ![n] = FilterVerdict(current, n, c)]
    BY DEF Filter
<1>3. ASSUME current \in Gang(p), FilterVerdict(current, n, c) = "pass"
      PROVE  \/ Partition(n) \in K \cup {""}
             \/ Cardinality(Span(p)) + 1 <= peak[p]
  <2>1. CliqueAdmits(n, c)
    BY <1>3 DEF FilterVerdict, StrictGang, Gang, requiresCliqueFilter
  <2>2. CASE c = ""
    BY <1>2, <1>3, <2>2, UnseenSpan
  <2>3. CASE c # ""
    <3>1. c = getNodeClique(n)
        BY <2>1, <2>3 DEF CliqueAdmits
    <3>2. PICK q \in Gang(current) : seen[q] \in nodes /\ c = getNodeClique(seen[q])
        BY <1>2, <2>3 DEF getGangClique, getGangMemberPods
    <3>3. c = Partition(n) /\ c = Partition(seen[q])
        BY <2>3, <3>1, <3>2, ShownIsPartition
    <3>4. seen[q] # NoNode
        BY <3>2, FabricAssumption DEF TypeOK, FabricAssumption
    <3>5. c \in Span(p)
        BY <1>3, <2>3, <3>2, <3>3, <3>4 DEF Span, Gang
    <3>6. QED
        BY <3>3, <3>5 DEF Within
  <2>4. QED
    BY <2>2, <2>3
<1>4. Span(p)' = Span(p)
    BY <1>1 DEF Span, Gang, Partition
<1>5. peak[p] \in Nat
    BY DEF TypeOK
<1>6. ASSUME current' \in Gang(p), NEW m \in Nodes, verdict'[m] = "pass"
      PROVE  \/ current = current' /\ verdict[m] = "pass"
             \/ Partition(m) \in K \cup {""}
             \/ Cardinality(Span(p)) + 1 <= peak[p]
  <2>1. CASE m = n
    <3>1. FilterVerdict(current, n, c) = "pass"
        BY <1>2, <1>6, <2>1 DEF TypeOK
    <3>2. QED
        BY <1>1, <1>3, <1>6, <2>1, <3>1
  <2>2. CASE m # n
    BY <1>1, <1>2, <1>6, <2>2 DEF TypeOK
  <2>3. QED
    BY <2>1, <2>2
<1>7. peak'[p] \in Nat /\ peak[p] <= peak'[p]
    BY <1>1, <1>5
<1>8. QED
    BY <1>4, <1>5, <1>6, <1>7, WithinKept

\* The span does not grow when what a member newly shows was already counted.
LEMMA SpanShrinks ==
    ASSUME NEW p \in Pods,
           \A r \in Gang(p) : place'[r] # NoNode => place'[r] = place[r],
           \A r \in Gang(p) : seen'[r] # NoNode => seen'[r] \in {seen[r], place[r]}
    PROVE  Span(p)' \subseteq Span(p)
<1> SUFFICES ASSUME NEW d \in Span(p)'
             PROVE  d \in Span(p)
    OBVIOUS
<1>1. d # ""
    BY DEF Span
<1>2. \A q \in Gang(p) : place[q] # NoNode /\ d = Partition(place[q]) => d \in Span(p)
    BY <1>1 DEF Span
<1>3. \A q \in Gang(p) : seen[q] # NoNode /\ d = Partition(seen[q]) => d \in Span(p)
    BY <1>1 DEF Span
<1>4. CASE \E q \in Gang(p) : place'[q] # NoNode /\ d = Partition(place'[q])
  <2>1. PICK q \in Gang(p) : place'[q] # NoNode /\ d = Partition(place'[q])
      BY <1>4
  <2>2. place[q] # NoNode /\ d = Partition(place[q])
      BY <2>1
  <2>3. QED
      BY <1>2, <2>2
<1>5. CASE \E q \in Gang(p) : seen'[q] # NoNode /\ d = Partition(seen'[q])
  <2>1. PICK q \in Gang(p) : seen'[q] # NoNode /\ d = Partition(seen'[q])
      BY <1>5
  <2>2. CASE seen'[q] = seen[q]
      BY <1>3, <2>1, <2>2
  <2>3. CASE seen'[q] = place[q]
      BY <1>2, <2>1, <2>3
  <2>4. QED
      BY <2>1, <2>2, <2>3
<1>6. QED
    BY <1>4, <1>5 DEF Span, Gang, Partition

\* Select takes a node that passed: its clique is held already, or there is room
\* for one more.
LEMMA SelectKeeps ==
    ASSUME FInv, NEW p \in Pods, StrictGang(p), NEW K, Within(p, K),
           NEW n \in Nodes, Select(n)
    PROVE  \E L : Within(p, L)'
<1> USE DEF FInv
<1> DEFINE c == Partition(n)
<1>1. /\ current # NoPod /\ verdict[n] = "pass" /\ current' = NoPod
      /\ place' = [place EXCEPT ![current] = n]
      /\ UNCHANGED <<seen, peak>>
    BY DEF Select, EndCycle
<1>2. current \in Pods /\ NoPod \notin Pods
    BY <1>1, FabricAssumption DEF TypeOK, FabricAssumption
<1>3. \A L : PassedIn(p, L)'
    BY <1>1, <1>2 DEF PassedIn, Gang
<1>4. /\ IsFiniteSet(K) /\ Cardinality(K) <= peak[p]
      /\ Span(p) \subseteq K /\ PassedIn(p, K)
    BY DEF Within
<1>5. CASE current \notin Gang(p)
  <2>1. \A r \in Gang(p) : place'[r] = place[r] /\ seen'[r] = seen[r]
    BY <1>1, <1>5 DEF Gang, TypeOK
  <2>2. Span(p)' \subseteq Span(p)
    BY <1>1, <2>1, SpanShrinks
  <2>3. Within(p, K)'
    BY <1>1, <1>3, <1>4, <2>2 DEF Within
  <2>4. QED
    BY <2>3
<1>6. CASE current \in Gang(p)
  <2>1. Span(p)' \subseteq Span(p) \cup ({c} \ {""})
    <3> SUFFICES ASSUME NEW d \in Span(p)'
                 PROVE  d \in Span(p) \cup ({c} \ {""})
        OBVIOUS
    <3>1. d # ""
        BY DEF Span
    <3>2. CASE \E q \in Gang(p) : seen'[q] # NoNode /\ d = Partition(seen'[q])
        BY <1>1, <3>1, <3>2 DEF Span, Gang
    <3>3. CASE \E q \in Gang(p) : place'[q] # NoNode /\ d = Partition(place'[q])
      <4>1. PICK q \in Gang(p) : place'[q] # NoNode /\ d = Partition(place'[q])
          BY <3>3
      <4>2. CASE q = current
        <5>1. place'[q] = n
            BY <1>1, <1>2, <4>2 DEF TypeOK
        <5>2. QED
            BY <3>1, <4>1, <5>1
      <4>3. CASE q # current
        <5>1. place'[q] = place[q]
            BY <1>1, <4>1, <4>3 DEF TypeOK, Gang
        <5>2. place[q] # NoNode /\ d = Partition(place[q])
            BY <1>1, <4>1, <5>1
        <5>3. d \in Span(p)
            BY <3>1, <5>2 DEF Span
        <5>4. QED
            BY <5>3
      <4>4. QED
          BY <4>2, <4>3
    <3>4. QED
        BY <3>2, <3>3 DEF Span, Gang, Partition
  <2>2. CASE c \in K \cup {""}
    <3>1. Span(p)' \subseteq K
        BY <1>4, <2>1, <2>2
    <3>2. Within(p, K)'
        BY <1>1, <1>3, <1>4, <3>1 DEF Within
    <3>3. QED
        BY <3>2
  <2>3. CASE c \notin K \cup {""}
    <3>1. Cardinality(Span(p)) + 1 <= peak[p]
        BY <1>1, <1>4, <1>6, <2>3 DEF PassedIn
    <3>2. IsFiniteSet(Span(p)) /\ Cardinality(Span(p)) \in Nat
        BY SpanFinite
    <3>3. c \notin Span(p)
        BY <1>4, <2>3
    <3>4. PICK L : L = Span(p) \cup {c}
        OBVIOUS
    <3>5. IsFiniteSet(L) /\ Cardinality(L) = Cardinality(Span(p)) + 1
        BY <3>2, <3>3, <3>4, FS_AddElement
    <3>6. Span(p)' \subseteq L
        BY <2>1, <3>4
    <3>7. Cardinality(L) <= peak'[p]
        BY <1>1, <3>1, <3>5, Zenon
    <3>8. Within(p, L)'
        BY <1>3, <3>5, <3>6, <3>7 DEF Within
    <3>9. QED
        BY <3>8
  <2>4. QED
    BY <2>2, <2>3
<1>7. QED
    BY <1>5, <1>6

\* Informer events, binds, faults and scores only shrink the span; a cycle
\* that begins or ends without a node forgets what passed.
LEMMA OthersKeep ==
    ASSUME FInv, [Next]_vars, NEW p \in Pods, NEW K, Within(p, K),
           ~(\E n \in Nodes : Filter(n) \/ Select(n))
    PROVE  Within(p, K)'
<1> USE FabricAssumption DEF FInv, FabricAssumption, TypeOK
<1>1. peak[p] \in Nat /\ peak'[p] \in Nat /\ peak[p] <= peak'[p]
    BY DarkInvariance, TypeInvariance
<1>2. ASSUME UNCHANGED <<current, verdict>>, Span(p)' \subseteq Span(p)
      PROVE  Within(p, K)'
    BY <1>1, <1>2, WithinKept
<1>3. ASSUME \A n \in Nodes : verdict'[n] # "pass", UNCHANGED <<place, seen>>
      PROVE  Within(p, K)'
  <2>1. Span(p)' = Span(p)
    BY <1>3 DEF Span, Gang, Partition
  <2>2. QED
    BY <1>1, <1>3, <2>1, WithinKept
<1>4. ASSUME NEW n \in Nodes, \/ LoseNode(n) \/ NodeReturns(n)
                               \/ PublishSlices(n) \/ WithdrawSlices(n)
      PROVE  Within(p, K)'
  <2>1. UNCHANGED <<place, seen, current, verdict>>
    BY <1>4 DEF LoseNode, NodeReturns, PublishSlices, WithdrawSlices
  <2>2. Span(p)' \subseteq Span(p)
    BY <2>1, SpanShrinks
  <2>3. QED
    BY <1>2, <2>1, <2>2
<1>5. ASSUME NEW q \in Pods, BindFails(q) \/ DeletePod(q)
      PROVE  Within(p, K)'
  <2>1. /\ place' = [place EXCEPT ![q] = NoNode]
        /\ UNCHANGED <<seen, current, verdict>>
    BY <1>5 DEF BindFails, DeletePod
  <2>2. \A r \in Gang(p) : place'[r] # NoNode => place'[r] = place[r]
    BY <2>1 DEF Gang
  <2>3. Span(p)' \subseteq Span(p)
    BY <2>1, <2>2, SpanShrinks
  <2>4. QED
    BY <1>2, <2>1, <2>3
<1>6. ASSUME NEW q \in Pods, SeePod(q)
      PROVE  Within(p, K)'
  <2>1. /\ seen' = [seen EXCEPT ![q] = place[q]]
        /\ UNCHANGED <<place, current, verdict>>
    BY <1>6 DEF SeePod
  <2>2. \A r \in Gang(p) : seen'[r] \in {seen[r], place[r]}
    BY <2>1 DEF Gang
  <2>3. Span(p)' \subseteq Span(p)
    BY <2>1, <2>2, SpanShrinks
  <2>4. QED
    BY <1>2, <2>1, <2>3
<1>7. ASSUME \/ \E n \in Nodes : Score(n)
             \/ \E q \in Pods : Bind(q)
             \/ UNCHANGED vars
      PROVE  Within(p, K)'
  <2>1. UNCHANGED <<place, seen, current, verdict>>
    BY <1>7 DEF Score, Bind, vars
  <2>2. Span(p)' \subseteq Span(p)
    BY <2>1 DEF Span, Gang, Partition
  <2>3. QED
    BY <1>2, <2>1, <2>2
<1>8. ASSUME NEW q \in Pods, BeginCycle(q)
      PROVE  Within(p, K)'
    BY <1>3, <1>8 DEF BeginCycle
<1>9. CASE Unschedulable
    BY <1>3, <1>9 DEF Unschedulable, EndCycle
<1>10. QED
    BY <1>4, <1>5, <1>6, <1>7, <1>8, <1>9 DEF Next

LEMMA SpanInvariance ==
    ASSUME FInv, [Next]_vars
    PROVE  SpanBounded'
<1> SUFFICES ASSUME NEW p \in Pods, StrictGang(p)
             PROVE  \E K : Within(p, K)'
    BY DEF SpanBounded, StrictGang, Gang
<1>1. PICK K : Within(p, K)
    BY DEF FInv, SpanBounded
<1>2. CASE \E n \in Nodes : Filter(n)
    BY <1>1, <1>2, FilterKeeps
<1>3. CASE \E n \in Nodes : Select(n)
    BY <1>1, <1>3, SelectKeeps
<1>4. CASE ~(\E n \in Nodes : Filter(n) \/ Select(n))
    BY <1>1, <1>4, OthersKeep
<1>5. QED
    BY <1>2, <1>3, <1>4

-----------------------------------------------------------------------------
LEMMA FInvHolds == Spec => []FInv
<1>1. ASSUME Init
      PROVE  FInv
  <2>1. /\ phase = [p \in Pods |-> "pending"] /\ place = [p \in Pods |-> NoNode]
        /\ seen = [p \in Pods |-> NoNode] /\ current = NoPod
        /\ peak = [p \in Pods |-> 0] /\ slices \subseteq Nodes
    BY <1>1 DEF Init
  <2>2. TypeOK
    <3>1. /\ nodes = Nodes /\ faults = 0
          /\ verdict = [n \in Nodes |-> "absent"] /\ score = [n \in Nodes |-> Unscored]
        BY <1>1 DEF Init
    <3>2. QED
        BY <2>1, <3>1, FabricAssumption DEF FabricAssumption, TypeOK, Unscored
  <2>3. PodsOK
    BY <2>1, FabricAssumption DEF FabricAssumption, PodsOK
  <2>4. ASSUME NEW p \in Pods
        PROVE  Cardinality(Dark(p)) <= peak[p]
    <3>1. Dark(p) = {}
        BY <2>1 DEF Dark, Unlocated, InFlight, Gang
    <3>2. QED
        BY <2>1, <3>1, FS_EmptySet
  <2>5. ASSUME NEW p \in Pods
        PROVE  Within(p, {})
    <3>1. Span(p) = {}
        BY <2>1 DEF Span, Gang
    <3>2. current \notin Gang(p)
        BY <2>1, FabricAssumption DEF Gang, FabricAssumption
    <3>3. IsFiniteSet({}) /\ Cardinality({}) <= peak[p]
        BY <2>1, FS_EmptySet
    <3>4. QED
        BY <3>1, <3>2, <3>3 DEF Within, PassedIn
  <2>6. QED
    BY <2>2, <2>3, <2>4, <2>5 DEF FInv, DarkBounded, SpanBounded
<1>2. FInv /\ [Next]_vars => FInv'
    BY TypeInvariance, PodsInvariance, DarkInvariance, SpanInvariance DEF FInv
<1>3. QED
    BY <1>1, <1>2, PTL DEF Spec

\* Types, the scores among them: Score never leaves 0..100.
THEOREM TypeCorrect == Spec => []TypeOK
<1>1. FInv => TypeOK
    BY DEF FInv
<1>2. QED
    BY <1>1, FInvHolds, PTL

\* Filter's check of the clique (networkfabric.go, Filter and getGangClique), made
\* on what the informers show, lets a gang span no more cliques than it had
\* members in the dark at one moment: in flight, or on a node whose clique is not
\* shown.
THEOREM CliquesFollowTheDark == Spec => []CliquesBounded
<1>1. FInv => CliquesBounded
  <2> SUFFICES ASSUME FInv, NEW p \in Pods, StrictGang(p)
               PROVE  Cardinality(CliquesOf(p)) <= peak[p]
    BY DEF CliquesBounded
  <2>1. PICK K : Within(p, K)
    BY DEF FInv, SpanBounded
  <2>2. IsFiniteSet(K) /\ Cardinality(K) <= peak[p] /\ Span(p) \subseteq K
    BY <2>1 DEF Within
  <2>3. CliquesOf(p) \subseteq Span(p)
    <3>1. \A q \in Placed(p) : q \in Gang(p) /\ place[q] # NoNode
        BY DEF FInv, PodsOK, Placed, Gang
    <3>2. QED
        BY <3>1 DEF CliquesOf, Span
  <2>4. /\ Cardinality(K) \in Nat /\ Cardinality(CliquesOf(p)) \in Nat
        /\ Cardinality(CliquesOf(p)) <= Cardinality(K)
    BY <2>2, <2>3, FS_Subset, FS_CardinalityType
  <2>5. peak[p] \in Nat
    BY DEF FInv, TypeOK
  <2>6. QED
    BY <2>2, <2>4, <2>5, LeqTrans, Zenon
<1>2. QED
    BY <1>1, FInvHolds, PTL

-----------------------------------------------------------------------------
(* The score and the distance to the placed members.                       *)

\* The nodes of the gang's members that both informers show.
Hosts(p) == {seen[q] : q \in getGangMemberPods(p)} \cap nodes

Level(p, n, Label, w) == LevelScore(Label[n], {Label[m] : m \in Hosts(p)}, w)

\* The score of one level is its weight, times the rank less one.
LEMMA LevelFollowsRank ==
    ASSUME NEW p, NEW n, NEW Label
    PROVE  /\ Rank(p, n, Label) \in 0..2
           /\ \A w \in Int : Level(p, n, Label, w) = w * (Rank(p, n, Label) - 1)
<1> DEFINE there == {Label[seen[q]] :
                       q \in {r \in getGangMemberPods(p) : seen[r] \in nodes}}
<1>1. {Label[m] : m \in Hosts(p)} = there
    BY DEF Hosts
<1> HIDE DEF there
<1>2. Rank(p, n, Label) = IF Label[n] # "" /\ Label[n] \in there THEN 2
                          ELSE IF Label[n] # "" /\ there \ {""} # {} THEN 0
                          ELSE 1
    BY Zenon DEF Rank, there
<1>3. ASSUME NEW w \in Int
      PROVE  LevelScore(Label[n], there, w) = w * (Rank(p, n, Label) - 1)
  <2>1. CASE Label[n] # "" /\ Label[n] \in there
    <3>1. Rank(p, n, Label) = 2 /\ LevelScore(Label[n], there, w) = w
        BY <1>2, <2>1 DEF LevelScore
    <3>2. QED
        BY <3>1
  <2>2. CASE Label[n] # "" /\ Label[n] \notin there /\ there \ {""} # {}
    <3>1. Rank(p, n, Label) = 0 /\ LevelScore(Label[n], there, w) = -w
        BY <1>2, <2>2 DEF LevelScore
    <3>2. QED
        BY <3>1
  <2>3. CASE Label[n] = "" \/ (Label[n] \notin there /\ there \ {""} = {})
    <3>1. Rank(p, n, Label) = 1 /\ LevelScore(Label[n], there, w) = 0
        BY <1>2, <2>3 DEF LevelScore
    <3>2. QED
        BY <3>1
  <2>4. QED
    BY <2>1, <2>2, <2>3
<1>4. Rank(p, n, Label) \in 0..2
  <2>1. Rank(p, n, Label) \in {0, 1, 2}
    BY <1>2, Zenon
  <2>2. QED
    BY <2>1
<1>5. QED
    BY <1>1, <1>3, <1>4, Zenon DEF Level

\* The locality score as a sum over the ranks, for a node whose clique Score
\* would know of a member, too.
LEMMA LocalityFollowsRanks ==
    ASSUME NEW p, NEW n, getNodeClique(n) = CliqueLabel[n]
    PROVE  calculateLocalityScore(p, n)
             = 40 * (Rank(p, n, CliqueLabel) - 1) + 30 * (Rank(p, n, FabricID) - 1)
               + 20 * (Rank(p, n, RackID) - 1) + 10 * (Rank(p, n, AZ) - 1)
<1>1. calculateLocalityScore(p, n)
        = Level(p, n, CliqueLabel, 40) + Level(p, n, FabricID, 30)
          + Level(p, n, RackID, 20) + Level(p, n, AZ, 10)
    BY Zenon DEF calculateLocalityScore, Hosts, Level
<1>2. /\ Level(p, n, CliqueLabel, 40) = 40 * (Rank(p, n, CliqueLabel) - 1)
      /\ Level(p, n, FabricID, 30) = 30 * (Rank(p, n, FabricID) - 1)
      /\ Level(p, n, RackID, 20) = 20 * (Rank(p, n, RackID) - 1)
      /\ Level(p, n, AZ, 10) = 10 * (Rank(p, n, AZ) - 1)
    BY LevelFollowsRank
<1>3. QED
    BY <1>1, <1>2, Zenon

\* The boost and the cap keep the order of two sums.
LEMMA BoostMonotone ==
    ASSUME NEW x \in Int, NEW y \in Int, x >= y
    PROVE  Boost(x) \in Int /\ Boost(y) \in Int /\ Boost(x) >= Boost(y)
  BY Z3 DEF Boost

LEMMA ClampMonotone ==
    ASSUME NEW x \in Int, NEW y \in Int, x >= y
    PROVE  Clamp(x) >= Clamp(y)
  BY DEF Clamp

\* Of two nodes of one fabric type, the better locality makes no lower score.
LEMMA ScoreFollowsLocality ==
    ASSUME NEW p, NEW n, NEW m, FabricType[n] = FabricType[m],
           calculateLocalityScore(p, n) \in Int,
           calculateLocalityScore(p, m) \in Int,
           calculateLocalityScore(p, n) >= calculateLocalityScore(p, m)
    PROVE  NodeScore(p, n) >= NodeScore(p, m)
<1> DEFINE base == getFabricTierScore(FabricType[n])
           bonus == getWorkloadFabricBonus(p, FabricType[n])
           Sum(x) == base + calculateLocalityScore(p, x) + bonus
           Boosted(x) == IF p \in Sensitive THEN Boost(Sum(x)) ELSE Sum(x)
           Result(x) ==
             IF PodGroup[p] = "" \/ getGangMemberPods(p) = {} THEN base
             ELSE IF ~meetsFabricTierRequirement(FabricType[n], MinFabricTier[p])
                  THEN 0
             ELSE Clamp(Boosted(x))
<1>1. NodeScore(p, n) = Result(n) /\ NodeScore(p, m) = Result(m)
    BY Zenon DEF NodeScore
<1>2. base \in Int
    BY DEF getFabricTierScore
<1>3. bonus \in Int
    BY DEF getWorkloadFabricBonus
<1> HIDE DEF base, bonus
<1>4. Sum(n) \in Int /\ Sum(m) \in Int /\ Sum(n) >= Sum(m)
    BY <1>2, <1>3
<1> HIDE DEF Sum
<1>5. Boosted(n) \in Int /\ Boosted(m) \in Int /\ Boosted(n) >= Boosted(m)
    BY <1>4, BoostMonotone
<1> HIDE DEF Boosted
<1>6. Clamp(Boosted(n)) >= Clamp(Boosted(m)) /\ base >= base /\ 0 >= 0
    BY <1>2, <1>5, ClampMonotone
<1>7. QED
    BY <1>1, <1>6, Zenon

\* Of two nodes of one fabric type, the one that is at least as close to the
\* placed members at every level scores at least as much (networkfabric.go,
\* Score and calculateLocalityScore).
THEOREM CloserScoresNoLess == Spec => []LocalityNeverHurts
<1>1. ASSUME NEW p \in Pods, NEW n \in Nodes, NEW m \in Nodes,
             FabricType[n] = FabricType[m],
             \A x \in {n, m} : getNodeClique(x) = CliqueLabel[x],
             \A Label \in {CliqueLabel, FabricID, RackID, AZ} :
                Rank(p, n, Label) >= Rank(p, m, Label)
      PROVE  NodeScore(p, n) >= NodeScore(p, m)
  <2>1. \A Label \in {CliqueLabel, FabricID, RackID, AZ} :
          /\ Rank(p, n, Label) \in 0..2 /\ Rank(p, m, Label) \in 0..2
    BY LevelFollowsRank
  <2> DEFINE L(x) == 40 * (Rank(p, x, CliqueLabel) - 1)
                     + 30 * (Rank(p, x, FabricID) - 1)
                     + 20 * (Rank(p, x, RackID) - 1) + 10 * (Rank(p, x, AZ) - 1)
  <2>2. calculateLocalityScore(p, n) = L(n) /\ calculateLocalityScore(p, m) = L(m)
    <3>1. getNodeClique(n) = CliqueLabel[n] /\ getNodeClique(m) = CliqueLabel[m]
        BY <1>1, Zenon
    <3>2. QED
        BY <3>1, LocalityFollowsRanks
  <2>3. L(n) \in Int /\ L(m) \in Int /\ L(n) >= L(m)
    <3>1. /\ Rank(p, n, CliqueLabel) >= Rank(p, m, CliqueLabel)
          /\ Rank(p, n, FabricID) >= Rank(p, m, FabricID)
          /\ Rank(p, n, RackID) >= Rank(p, m, RackID)
          /\ Rank(p, n, AZ) >= Rank(p, m, AZ)
        BY <1>1
    <3>2. /\ Rank(p, n, CliqueLabel) \in 0..2 /\ Rank(p, m, CliqueLabel) \in 0..2
          /\ Rank(p, n, FabricID) \in 0..2 /\ Rank(p, m, FabricID) \in 0..2
          /\ Rank(p, n, RackID) \in 0..2 /\ Rank(p, m, RackID) \in 0..2
          /\ Rank(p, n, AZ) \in 0..2 /\ Rank(p, m, AZ) \in 0..2
        BY <2>1
    <3>3. \A a, b, c, d, e, f, g, h \in 0..2 :
            a >= b /\ c >= d /\ e >= f /\ g >= h =>
              LET x == 40 * (a - 1) + 30 * (c - 1) + 20 * (e - 1) + 10 * (g - 1)
                  y == 40 * (b - 1) + 30 * (d - 1) + 20 * (f - 1) + 10 * (h - 1)
              IN  x \in Int /\ y \in Int /\ x >= y
        OBVIOUS
    <3>4. QED
        BY <3>1, <3>2, <3>3, Zenon
  <2> HIDE DEF L
  <2>4. QED
    BY <1>1, <2>2, <2>3, ScoreFollowsLocality
<1>2. LocalityNeverHurts
    BY <1>1, Zenon DEF LocalityNeverHurts
<1>3. QED
    BY <1>2, PTL
=============================================================================
