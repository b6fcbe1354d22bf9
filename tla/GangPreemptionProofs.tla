------------------------ MODULE GangPreemptionProofs ------------------------
(***************************************************************************)
(* What PostFilter's search promises of the pods it names as victims: that *)
(* they suffice, that they are the cheapest and no more than needed, and   *)
(* that it finds some when it can.  And MinimumPreemptionGap bounds how    *)
(* often it searches, whatever a gang's members, the clock, failed         *)
(* searches and restarts do.                                               *)
(***************************************************************************)
EXTENDS GangPreemption, SumTheorems

\* What the cooldown remembers: searches up to the last one were a gap apart,
\* and each restart may have cost one.
Paced ==
    /\ clock \in Nat /\ restarts \in Nat
    /\ last \in [Groups -> Nat \cup {Never}]
    /\ searches \in [Groups -> Nat]
    /\ \A g \in Groups :
         IF last[g] = Never
         THEN searches[g] <= restarts + (clock \div Gap)
         ELSE /\ last[g] <= clock
              /\ searches[g] <= 1 + restarts + (last[g] \div Gap)

-----------------------------------------------------------------------------
LEMMA DivType ==
    ASSUME NEW a \in Nat, NEW k \in Nat \ {0}
    PROVE  a \div k \in Nat
  BY Z3

LEMMA DivMonotone ==
    ASSUME NEW a \in Nat, NEW b \in Nat, NEW k \in Nat \ {0}, a <= b
    PROVE  /\ a \div k \in Nat /\ b \div k \in Nat
           /\ a \div k <= b \div k
           /\ b - a >= k => (a \div k) + 1 <= b \div k
  BY Z3

\* A gang member names a group.
LEMMA GangHasName ==
    ASSUME NEW p \in Pods, IsPodInPodGroup(p)
    PROVE  GroupName(p) \in Groups
  BY PodGroupAssumption
  DEF IsPodInPodGroup, GroupName, Labelled, NameLabel, PodGroupAssumption

\* A search is counted only when the gang is not in its cooldown.
LEMMA SearchPaced ==
    ASSUME PreemptionAssumption, Paced, NEW g \in Groups, ~InCooldown(g),
           Attempt(g), clock' = clock, restarts' = restarts
    PROVE  Paced'
<1>1. /\ clock \in Nat /\ restarts \in Nat /\ Gap \in Nat \ {0}
      /\ last \in [Groups -> Nat \cup {Never}]
      /\ searches \in [Groups -> Nat]
      /\ last' = [last EXCEPT ![g] = clock]
      /\ searches' = [searches EXCEPT ![g] = @ + 1]
    BY DEF Paced, PreemptionAssumption, Attempt
<1>2. clock \div Gap \in Nat
    BY <1>1, DivType
<1>3. searches[g] <= restarts + (clock \div Gap)
  <2>1. CASE last[g] = Never
    BY <2>1 DEF Paced
  <2>2. CASE last[g] # Never
    <3>1. /\ last[g] \in Nat /\ last[g] <= clock
          /\ searches[g] <= 1 + restarts + (last[g] \div Gap)
        BY <1>1, <2>2 DEF Paced
    <3>2. clock - last[g] >= Gap
        BY <1>1, <2>2, <3>1 DEF InCooldown
    <3>3. last[g] \div Gap \in Nat /\ (last[g] \div Gap) + 1 <= clock \div Gap
        BY <1>1, <3>1, <3>2, DivMonotone
    <3>4. QED
        BY <1>1, <1>2, <3>1, <3>3
  <2>3. QED
    BY <2>1, <2>2
<1>4. ASSUME NEW h \in Groups
      PROVE  IF last'[h] = Never
             THEN searches'[h] <= restarts + (clock \div Gap)
             ELSE /\ last'[h] <= clock
                  /\ searches'[h] <= 1 + restarts + (last'[h] \div Gap)
  <2>1. CASE h = g
    BY <1>1, <1>2, <1>3, <2>1 DEF Never
  <2>2. CASE h # g
    <3>1. last'[h] = last[h] /\ searches'[h] = searches[h]
        BY <1>1, <2>2
    <3>2. QED
        BY <3>1 DEF Paced
  <2>3. QED
    BY <2>1, <2>2
<1>5. /\ last' \in [Groups -> Nat \cup {Never}]
      /\ searches' \in [Groups -> Nat]
    BY <1>1
<1>6. QED
    BY <1>1, <1>4, <1>5 DEF Paced

\* Time that passes raises the bound of a gang that has no entry.
LEMMA TickPaced ==
    ASSUME PreemptionAssumption, Paced, Tick
    PROVE  Paced'
<1>1. /\ clock \in Nat /\ restarts \in Nat /\ Gap \in Nat \ {0}
      /\ searches \in [Groups -> Nat] /\ clock' = clock + 1
      /\ UNCHANGED <<last, searches, restarts>>
    BY DEF Paced, PreemptionAssumption, Tick
<1>2. /\ clock \div Gap \in Nat /\ clock' \div Gap \in Nat
      /\ clock \div Gap <= clock' \div Gap
  <2>1. clock' \in Nat /\ clock <= clock'
    BY <1>1
  <2>2. QED
    BY <1>1, <2>1, DivMonotone
<1>3. ASSUME NEW h \in Groups
      PROVE  IF last'[h] = Never
             THEN searches'[h] <= restarts' + (clock' \div Gap)
             ELSE /\ last'[h] <= clock'
                  /\ searches'[h] <= 1 + restarts' + (last'[h] \div Gap)
  <2>1. CASE last[h] = Never
    BY <1>1, <1>2, <2>1 DEF Paced
  <2>2. CASE last[h] # Never
    <3>1. last[h] \in Nat
        BY <2>2 DEF Paced
    <3>2. QED
        BY <1>1, <2>2, <3>1 DEF Paced
  <2>3. QED
    BY <2>1, <2>2
<1>4. QED
    BY <1>1, <1>3 DEF Paced

\* A restart forgets the last search of every gang, and is counted for it.
LEMMA RestartPaced ==
    ASSUME PreemptionAssumption, Paced, Restart
    PROVE  Paced'
<1>1. /\ clock \in Nat /\ restarts \in Nat /\ Gap \in Nat \ {0}
      /\ searches \in [Groups -> Nat] /\ restarts' = restarts + 1
      /\ last' = [g \in Groups |-> Never] /\ UNCHANGED <<clock, searches>>
    BY DEF Paced, PreemptionAssumption, Restart
<1>2. ASSUME NEW h \in Groups
      PROVE  searches[h] <= restarts + 1 + (clock \div Gap)
  <2>1. CASE last[h] = Never
    <3>1. clock \div Gap \in Nat
        BY <1>1, DivType
    <3>2. QED
        BY <1>1, <2>1, <3>1 DEF Paced
  <2>2. CASE last[h] # Never
    <3>1. /\ last[h] \in Nat /\ last[h] <= clock
          /\ searches[h] <= 1 + restarts + (last[h] \div Gap)
      <4>1. last[h] \in Nat
          BY <2>2 DEF Paced
      <4>2. QED
          BY <2>2, <4>1 DEF Paced
    <3>2. /\ last[h] \div Gap \in Nat /\ clock \div Gap \in Nat
          /\ last[h] \div Gap <= clock \div Gap
        BY <1>1, <3>1, DivMonotone
    <3>3. QED
        BY <1>1, <3>1, <3>2
  <2>3. QED
    BY <2>1, <2>2
<1>3. QED
    BY <1>1, <1>2 DEF Paced, Never

\* No other step touches the attempts.
LEMMA PacedInvariant ==
    ASSUME PreemptionAssumption
    PROVE  Spec => []Paced
<1>1. ASSUME Init
      PROVE  Paced
    BY <1>1, DivMonotone DEF Init, Paced, Never, PreemptionAssumption
<1>2. ASSUME Paced, [Next]_vars
      PROVE  Paced'
  <2>1. CASE UNCHANGED <<clock, last, searches, restarts>>
    BY <1>2, <2>1 DEF Paced
  <2>2. ASSUME NEW p \in Pods, PostFilter(p)
        PROVE  Paced'
    <3>1. CASE PostFilterNotGang(p) \/ PostFilterCooldown(p)
        BY <2>1, <3>1 DEF PostFilterNotGang, PostFilterCooldown, Return
    <3>2. CASE PostFilterSearch(p)
      <4>1. clock' = clock /\ restarts' = restarts
          BY <3>2 DEF PostFilterSearch, Return
      <4>2. GroupName(p) \in Groups
          BY <3>2, GangHasName DEF PostFilterSearch
      <4>3. QED
          BY <1>2, <3>2, <4>1, <4>2, SearchPaced DEF PostFilterSearch
    <3>3. QED
        BY <2>2, <3>1, <3>2 DEF PostFilter
  <2>3. CASE \E p \in Pods : \/ \E n \in Nodes : Schedule(p, n)
                            \/ FilterFails(p) \/ PodFinishes(p)
    BY <2>1, <2>3 DEF Schedule, FilterFails, PodFinishes
  <2>4. CASE \E n \in Nodes : LoseNode(n)
    BY <2>1, <2>4 DEF LoseNode
  <2>5. CASE Tick
    BY <1>2, <2>5, TickPaced
  <2>6. CASE Restart
    BY <1>2, <2>6, RestartPaced
  <2>7. QED
    BY <1>2, <2>1, <2>2, <2>3, <2>4, <2>5, <2>6 DEF Next, vars
<1>3. QED
    BY <1>1, <1>2, PTL DEF Spec

\* MinimumPreemptionGap bounds how often victims are searched for a gang by the
\* time that has passed (gang_preemption.go, lastPreemptionAttempts).
THEOREM SearchesBounded == Spec => []PreemptionStormBounded
<1>1. Paced => PreemptionStormBounded
  <2> SUFFICES ASSUME Paced, NEW g \in Groups
               PROVE  searches[g] <= 1 + restarts + (clock \div Gap)
    BY DEF PreemptionStormBounded
  <2>1. clock \in Nat /\ restarts \in Nat /\ Gap \in Nat \ {0} /\ searches[g] \in Nat
    BY PreemptionAssumption DEF Paced, PreemptionAssumption
  <2>2. clock \div Gap \in Nat
    BY <2>1, DivType
  <2>3. CASE last[g] = Never
    BY <2>1, <2>2, <2>3 DEF Paced
  <2>4. CASE last[g] # Never
    <3>1. last[g] \in Nat /\ last[g] <= clock
        BY <2>4 DEF Paced
    <3>2. last[g] \div Gap \in Nat /\ last[g] \div Gap <= clock \div Gap
        BY <2>1, <3>1, DivMonotone
    <3>3. QED
        BY <2>1, <2>2, <2>4, <3>2 DEF Paced
  <2>5. QED
    BY <2>3, <2>4
<1>2. QED
    BY <1>1, PacedInvariant, PreemptionAssumption, PTL

-----------------------------------------------------------------------------
(* Lemmas on the requests.                                                 *)

LEMMA MinAvailableIsInt == \A p \in Pods : MinAvailable(p) \in Int
<1> SUFFICES ASSUME NEW p \in Pods PROVE MinAvailable(p) \in Int
    OBVIOUS
<1>1. MinLabel(p) \in MinValue
    BY PodGroupAssumption DEF MinLabel
<1>2. QED
    BY <1>1 DEF MinAvailable, LabelErr, Labelled, MinValue

LEMMA NeedsAreIntegers ==
    ASSUME NEW p \in Pods
    PROVE  \A r \in Resources : CalculateGangResourceNeeds(p)[r] \in Int
<1>1. MinAvailable(p) \in Int /\ \A r \in Resources : Request[p][r] \in Nat
    BY MinAvailableIsInt, PreemptionAssumption
<1>2. QED
    BY <1>1 DEF CalculateGangResourceNeeds

\* What a set of pods asks for is a number, 0 if it is empty, and no part of the
\* set asks for more.
LEMMA RequestedGrows ==
    ASSUME NEW S \in SUBSET Pods, NEW T \in SUBSET S, NEW r \in Resources
    PROVE  /\ Requested(S, r) \in Nat /\ Requested(T, r) \in Nat
           /\ Requested(T, r) <= Requested(S, r)
           /\ Requested({}, r) = 0
<1> DEFINE f == [p \in Pods |-> Request[p][r]]
<1>1. IsFiniteSet(S) /\ IsFiniteSet(T)
    BY PodGroupAssumption, FS_Subset
<1>2. \A p \in Pods : f[p] \in Nat
    BY PreemptionAssumption
<1> HIDE DEF f
<1>3. /\ SumFunctionOnSet(f, S) \in Nat /\ SumFunctionOnSet(f, T) \in Nat
      /\ SumFunctionOnSet(f, T) <= SumFunctionOnSet(f, S)
      /\ SumFunctionOnSet(f, {}) = 0
    BY <1>1, <1>2, SumNat, SumMonotone, SumEmpty
<1>4. QED
    BY <1>3 DEF Requested, f

\* Pods that suffice still do when others join them.
LEMMA SufficesGrows ==
    ASSUME NEW p \in Pods, NEW S \in SUBSET Pods, NEW T \in SUBSET S,
           Suffices(T, CalculateGangResourceNeeds(p))
    PROVE  Suffices(S, CalculateGangResourceNeeds(p))
<1> SUFFICES ASSUME NEW r \in Resources
             PROVE  Requested(S, r) >= CalculateGangResourceNeeds(p)[r]
    BY DEF Suffices
<1>1. CalculateGangResourceNeeds(p)[r] \in Int
    BY NeedsAreIntegers
<1>2. Requested(T, r) >= CalculateGangResourceNeeds(p)[r]
    BY DEF Suffices
<1>3. QED
    BY <1>1, <1>2, RequestedGrows

-----------------------------------------------------------------------------
(* Lemmas on the greedy choice.                                            *)

\* A non-empty set of numbers has a least member.
LEMMA LeastExists ==
    ASSUME NEW S, S \subseteq Nat, S # {}
    PROVE  Min(S) \in S /\ \A y \in S : Min(S) <= y
<1>1. PICK R : R = OpToRel(<, Nat)
    BY Zenon
<1>2. IsWellFoundedOn(R, Nat)
    BY <1>1, NatLessThanWellFounded, Zenon
<1>3. PICK x \in S : \A y \in S : <<y, x>> \notin R
    BY <1>2, WFMin, Zenon
<1>4. \A y \in Nat : y < x => <<y, x>> \in R
    BY <1>1, Zenon DEF OpToRel
<1>5. \A y \in S : x <= y
  <2>1. \A y \in S : ~(y < x)
    BY <1>3, <1>4, Zenon
  <2>2. QED
    BY <2>1
<1>6. QED
    BY <1>5, Zenon DEF Min

\* A sorted list of candidates holds each of them once.
LEMMA SortedIsList ==
    ASSUME NEW C \in SUBSET Pods, NEW s \in Sorted(C)
    PROVE  /\ s \in Seq(Pods) /\ Len(s) = Cardinality(C) /\ Len(s) \in Nat
           /\ C = {s[i] : i \in 1..Len(s)}
           /\ \A i, j \in 1..Len(s) : i # j => s[i] # s[j]
           /\ \A i, j \in 1..Len(s) : i < j => ~Cheaper(s[j], s[i])
           /\ s = <<>> <=> C = {}
<1> DEFINE n == Cardinality(C)
           D == 1..n
<1>1. IsFiniteSet(C) /\ n \in Nat
    BY PodGroupAssumption, FS_Subset, FS_CardinalityType
<1>2. /\ s \in [D -> C]
      /\ \A i, j \in D : i # j => s[i] # s[j]
      /\ \A i, j \in D : i < j => ~Cheaper(s[j], s[i])
    BY Zenon DEF Sorted, SetToSeqs
<1>3. IsFiniteSet(D) /\ Cardinality(D) = n
    BY <1>1, FS_Interval
<1>4. s \in Injection(D, C)
    BY <1>2, Zenon DEF Injection, IsInjective
<1>5. s \in Surjection(D, C)
    BY <1>1, <1>3, <1>4, FS_Injection
<1>6. C = {s[i] : i \in D}
    BY <1>2, <1>5, Zenon DEF Surjection
<1> HIDE DEF n
<1>7. s \in Seq(C) /\ Len(s) = n
    BY <1>1, <1>2
<1>8. s = <<>> <=> n = 0
    BY <1>7
<1>9. C = {} <=> n = 0
    BY <1>1, FS_EmptySet DEF n
<1>10. QED
    BY <1>1, <1>2, <1>6, <1>7, <1>8, <1>9 DEF n

\* The loop takes the first k candidates: k is the first number at which it may
\* stop.
LEMMA GreedyTakesPrefix ==
    ASSUME NEW C \in SUBSET Pods, NEW s \in Sorted(C), C # {}, NEW needs
    PROVE  \E k \in 1..Len(s) :
             /\ Greedy(s, needs) = {s[i] : i \in 1..k}
             /\ k <= MaxVictims
             /\ \/ k = Len(s) \/ k = MaxVictims
                \/ Suffices({s[i] : i \in 1..k}, needs)
             /\ \A j \in 1..Len(s) :
                  j < k => ~Suffices({s[i] : i \in 1..j}, needs)
<1> DEFINE Prefix(k) == {s[i] : i \in 1..k}
           stops == {k \in 1..Len(s) :
                       k = Len(s) \/ k = MaxVictims \/ Suffices(Prefix(k), needs)}
           m == Min(stops)
<1>1. Len(s) \in Nat /\ s # <<>> /\ s \in Seq(Pods) /\ MaxVictims \in Nat \ {0}
    BY SortedIsList, PreemptionAssumption
<1>2. Len(s) \in 1..Len(s)
    BY <1>1
<1>3. stops # {} /\ stops \subseteq Nat
    BY <1>1, <1>2
<1>4. m \in stops /\ \A y \in stops : m <= y
    BY <1>3, LeastExists
<1>5. Greedy(s, needs) = Prefix(m)
    BY <1>1, Zenon DEF Greedy
<1> HIDE DEF m
<1>6. m <= MaxVictims
  <2>1. m \in 1..Len(s)
    BY <1>4
  <2>2. CASE MaxVictims \in 1..Len(s)
    <3>1. MaxVictims \in stops
        BY <2>2
    <3>2. QED
        BY <1>4, <3>1
  <2>3. CASE MaxVictims \notin 1..Len(s)
    BY <1>1, <2>1, <2>3
  <2>4. QED
    BY <2>2, <2>3
<1>7. ASSUME NEW j \in 1..Len(s), j < m
      PROVE  ~Suffices(Prefix(j), needs)
  <2>1. ~(m <= j)
    BY <1>1, <1>4, <1>7
  <2>2. QED
    BY <1>4, <2>1
<1>8. QED
    BY <1>4, <1>5, <1>6, <1>7

\* The first k of a list are k pods; without the last of them they are the
\* first k - 1.
LEMMA PrefixSize ==
    ASSUME NEW C \in SUBSET Pods, NEW s \in Sorted(C), NEW k \in 1..Len(s)
    PROVE  /\ Cardinality({s[i] : i \in 1..k}) <= k
           /\ {s[i] : i \in 1..k} \ {s[k]} = {s[i] : i \in 1..(k-1)}
<1> DEFINE V == {s[i] : i \in 1..k}
           f == [i \in 1..k |-> s[i]]
<1>1. /\ Len(s) \in Nat /\ s \in Seq(Pods)
      /\ \A i, j \in 1..Len(s) : i # j => s[i] # s[j]
    BY SortedIsList
<1>2. f \in Surjection(1..k, V)
    BY Zenon DEF Surjection
<1>3. k \in Nat
    BY <1>1
<1>4. Cardinality(V) <= k
  <2>1. ExistsSurjection(1..k, V)
    BY <1>2, Zenon DEF ExistsSurjection
  <2>2. QED
    BY <1>3, <2>1, FS_SurjCardinalityBound
<1>5. V \ {s[k]} = {s[i] : i \in 1..(k-1)}
    BY <1>1
<1>6. QED
    BY <1>4, <1>5

\* Whatever the search finds is a set of pods.
LEMMA VictimsArePods ==
    ASSUME NEW p, NEW V \in FindPreemptionVictims(p)
    PROVE  V \subseteq Pods
<1> DEFINE C == Candidates(p)
           needs == CalculateGangResourceNeeds(p)
<1>1. PICK s \in Sorted(C) : V \subseteq Greedy(s, needs)
  <2>1. PICK s \in Sorted(C) :
          V = IF Suffices(Greedy(s, needs), needs) THEN Greedy(s, needs) ELSE {}
    BY Zenon DEF FindPreemptionVictims
  <2>2. QED
    BY <2>1
<1>2. C \in SUBSET Pods
    BY DEF Candidates, Listed
<1> HIDE DEF C, needs
<1>3. CASE C = {}
  <2>1. s = <<>>
    BY <1>2, <1>3, SortedIsList
  <2>2. Greedy(s, needs) = {}
    BY <2>1, Zenon DEF Greedy
  <2>3. QED
    BY <1>1, <2>2
<1>4. CASE C # {}
  <2>1. PICK k \in 1..Len(s) : Greedy(s, needs) = {s[i] : i \in 1..k}
    BY <1>2, <1>4, GreedyTakesPrefix
  <2>2. C = {s[i] : i \in 1..Len(s)} /\ Len(s) \in Nat
    BY <1>2, SortedIsList
  <2>3. {s[i] : i \in 1..k} \subseteq C
    BY <2>1, <2>2
  <2>4. QED
    BY <1>1, <1>2, <2>1, <2>3, Zenon
<1>5. QED
    BY <1>3, <1>4

-----------------------------------------------------------------------------
(* The search as a step.                                                   *)

\* In a step that ends with a search, PostFilter searches: its result is the
\* checked greedy choice from some sorted list of the candidates.
LEMMA SearchStep ==
    ASSUME [Next]_vars, NEW p \in Pods, Searching(p)
    PROVE  \E s \in Sorted(Candidates(p)) :
             LET needs == CalculateGangResourceNeeds(p)
                 G == Greedy(s, needs)
                 V == IF Suffices(G, needs) THEN G ELSE {}
             IN  IF V = {} THEN result'.kind = "noVictims"
                 ELSE /\ result'.kind = "preempt" /\ result'.victims = V
                      /\ result'.nominee \in SelectNominatedNode(V)
<1>1. current = p /\ current' = NoPod /\ p # NoPod
    BY PreemptionAssumption DEF Searching
<1>2. PICK q \in Pods : PostFilter(q)
    BY <1>1 DEF Searching, Next, vars, Schedule, FilterFails, PodFinishes,
                LoseNode, Tick, Restart, NoResult
<1>3. PostFilterSearch(p)
    BY <1>1, <1>2 DEF PostFilter, PostFilterNotGang, PostFilterCooldown,
                      PostFilterSearch, Return, Searching
<1>4. PICK V \in FindPreemptionVictims(p) :
         IF V = {} THEN Return(p, "noVictims", {}, NoNode)
         ELSE \E n \in SelectNominatedNode(V) : Return(p, "preempt", V, n)
    BY <1>3 DEF PostFilterSearch
<1>5. PICK s \in Sorted(Candidates(p)) :
         V = LET G == Greedy(s, CalculateGangResourceNeeds(p))
             IN  IF Suffices(G, CalculateGangResourceNeeds(p)) THEN G ELSE {}
    BY Zenon DEF FindPreemptionVictims
<1>6. IF V = {} THEN result'.kind = "noVictims"
      ELSE /\ result'.kind = "preempt" /\ result'.victims = V
           /\ result'.nominee \in SelectNominatedNode(V)
    BY <1>4 DEF Return
<1>7. QED
    BY <1>5, <1>6, Zenon
-----------------------------------------------------------------------------
(* The promises of the search.                                             *)

\* What a search that announces a preemption has found.
LEMMA SearchFound ==
    ASSUME [Next]_vars, NEW p \in Pods, Searching(p), result'.kind = "preempt"
    PROVE  \E s \in Sorted(Candidates(p)), k \in Nat :
             /\ k \in 1..Len(s) /\ k <= MaxVictims
             /\ result'.victims = {s[i] : i \in 1..k}
             /\ Suffices(result'.victims, CalculateGangResourceNeeds(p))
             /\ \A j \in 1..Len(s) : j < k =>
                  ~Suffices({s[i] : i \in 1..j}, CalculateGangResourceNeeds(p))
             /\ result'.nominee \in SelectNominatedNode(result'.victims)
<1> DEFINE C == Candidates(p)
           needs == CalculateGangResourceNeeds(p)
<1>1. PICK s \in Sorted(C) :
        /\ Suffices(Greedy(s, needs), needs)
        /\ Greedy(s, needs) # {} /\ result'.victims = Greedy(s, needs)
        /\ result'.nominee \in SelectNominatedNode(Greedy(s, needs))
    BY SearchStep
<1>2. C \in SUBSET Pods
    BY DEF Candidates, Listed
<1>3. C # {}
  <2> SUFFICES ASSUME C = {} PROVE FALSE
    OBVIOUS
  <2>1. s = <<>>
    BY <1>2, SortedIsList
  <2>2. QED
    BY <1>1, <2>1, Zenon DEF Greedy
<1> HIDE DEF C, needs
<1>4. PICK k \in 1..Len(s) :
        /\ Greedy(s, needs) = {s[i] : i \in 1..k} /\ k <= MaxVictims
        /\ \A j \in 1..Len(s) : j < k => ~Suffices({s[i] : i \in 1..j}, needs)
    BY <1>2, <1>3, GreedyTakesPrefix
<1>5. k \in Nat
    BY <1>2, SortedIsList
<1>6. QED
    BY <1>1, <1>4, <1>5 DEF C, needs

\* A node is nominated only if some victim is placed on it.
LEMMA NomineeHostsVictim ==
    ASSUME NEW V \in SUBSET Pods, NEW n \in SelectNominatedNode(V), n # NoNode
    PROVE  \E v \in V : place[v] = n
<1>1. Requested({v \in V : place[v] = n}, Cpu) > 0
    BY Zenon DEF SelectNominatedNode
<1>2. Requested({}, Cpu) = 0
    BY RequestedGrows, PreemptionAssumption
<1>3. {v \in V : place[v] = n} # {}
    BY <1>1, <1>2
<1>4. QED
    BY <1>3

\* The victims of an announced preemption suffice for the whole gang, are few
\* enough, strangers to it, and on nodes of the cycle's snapshot
\* (gang_preemption.go, findPreemptionVictims and selectNominatedNode).
THEOREM PreemptionSuffices == Spec => VictimsSuffice
<1>1. ASSUME [Next]_vars, NEW p \in Pods, Searching(p), result'.kind = "preempt"
      PROVE  LET V == result'.victims IN
             /\ V # {} /\ Cardinality(V) <= MaxVictims
             /\ Suffices(V, CalculateGangResourceNeeds(p))
             /\ V \cap Members(GroupName(p)) = {}
             /\ {place[v] : v \in V} \cup {result'.nominee}
                  \subseteq snapshot \cup {NoNode}
  <2> DEFINE C == Candidates(p)
             V == result'.victims
  <2>1. PICK s \in Sorted(C), k \in Nat :
          /\ k \in 1..Len(s) /\ k <= MaxVictims
          /\ V = {s[i] : i \in 1..k}
          /\ Suffices(V, CalculateGangResourceNeeds(p))
          /\ result'.nominee \in SelectNominatedNode(V)
    BY <1>1, SearchFound
  <2>2. C \in SUBSET Pods
    BY DEF Candidates, Listed
  <2>3. V \subseteq C /\ V # {}
    <3>1. C = {s[i] : i \in 1..Len(s)} /\ Len(s) \in Nat
        BY <2>2, SortedIsList
    <3>2. QED
        BY <2>1, <3>1
  <2>4. Cardinality(V) <= MaxVictims
    <3>1. Cardinality(V) <= k
        BY <2>1, <2>2, PrefixSize
    <3>2. MaxVictims \in Nat /\ Cardinality(V) \in Nat
        BY <2>2, <2>3, FS_Subset, FS_CardinalityType, PodGroupAssumption,
           PreemptionAssumption
    <3>3. QED
        BY <2>1, <3>1, <3>2
  <2>5. V \cap Members(GroupName(p)) = {}
    BY <2>3 DEF Candidates, SameGang, Members, IsPodInPodGroup
  <2>6. {place[v] : v \in V} \subseteq snapshot
    BY <2>3 DEF Candidates
  <2>7. result'.nominee \in snapshot \cup {NoNode}
    BY <2>1, <2>2, <2>3, <2>6, NomineeHostsVictim
  <2>8. QED
    BY <2>1, <2>3, <2>4, <2>5, <2>6, <2>7
<1>2. [Next]_vars
     => [\A p \in Pods : Searching(p) /\ result'.kind = "preempt" =>
           LET V == result'.victims IN
           /\ V # {} /\ Cardinality(V) <= MaxVictims
           /\ Suffices(V, CalculateGangResourceNeeds(p))
           /\ V \cap Members(GroupName(p)) = {}
           /\ {place[v] : v \in V} \cup {result'.nominee}
                \subseteq snapshot \cup {NoNode}]_vars
    BY <1>1
<1>3. QED
    BY <1>2, PTL DEF Spec, VictimsSuffice

\* No candidate that is spared is cheaper than a victim (gang_preemption.go, the
\* sort of findPreemptionVictims).
THEOREM CheapestGoFirst == Spec => CheapestFirst
<1>1. ASSUME [Next]_vars, NEW p \in Pods, Searching(p), result'.kind = "preempt",
             NEW v \in result'.victims,
             NEW u \in Candidates(p) \ result'.victims
      PROVE  ~Cheaper(u, v)
  <2> DEFINE C == Candidates(p)
  <2>1. PICK s \in Sorted(C), k \in Nat :
          k \in 1..Len(s) /\ result'.victims = {s[i] : i \in 1..k}
    BY <1>1, SearchFound
  <2>2. /\ C = {s[i] : i \in 1..Len(s)} /\ Len(s) \in Nat
        /\ \A i, j \in 1..Len(s) : i < j => ~Cheaper(s[j], s[i])
    <3>1. C \in SUBSET Pods
        BY DEF Candidates, Listed
    <3>2. QED
        BY <3>1, SortedIsList
  <2>3. PICK i \in 1..k : v = s[i]
    BY <1>1, <2>1
  <2>4. PICK j \in 1..Len(s) : u = s[j]
    BY <1>1, <2>2
  <2>5. i \in 1..Len(s) /\ i < j
    <3>1. j \notin 1..k
        BY <1>1, <2>1, <2>4
    <3>2. QED
        BY <2>1, <2>2, <2>3, <2>4, <3>1
  <2>6. QED
    BY <2>2, <2>3, <2>4, <2>5
<1>2. [Next]_vars
     => [\A p \in Pods : Searching(p) /\ result'.kind = "preempt" =>
           \A v \in result'.victims, u \in Candidates(p) \ result'.victims :
              ~Cheaper(u, v)]_vars
    BY <1>1
<1>3. QED
    BY <1>2, PTL DEF Spec, CheapestFirst

\* For a gang that asks for something, the victims without the last one taken,
\* one of the dearest, would not suffice (gang_preemption.go, the early stop of
\* findPreemptionVictims).
THEOREM VictimsAreNeeded == Spec => NoNeedlessVictim
<1>1. ASSUME [Next]_vars, NEW p \in Pods, Searching(p), result'.kind = "preempt",
             NEW r \in Resources, CalculateGangResourceNeeds(p)[r] > 0
      PROVE  \E v \in result'.victims :
                /\ ~Suffices(result'.victims \ {v}, CalculateGangResourceNeeds(p))
                /\ \A u \in result'.victims : ~Cheaper(v, u)
  <2> DEFINE C == Candidates(p)
             needs == CalculateGangResourceNeeds(p)
             V == result'.victims
  <2>1. PICK s \in Sorted(C), k \in Nat :
          /\ k \in 1..Len(s) /\ V = {s[i] : i \in 1..k}
          /\ \A j \in 1..Len(s) : j < k => ~Suffices({s[i] : i \in 1..j}, needs)
    BY <1>1, SearchFound
  <2>2. C \in SUBSET Pods
    BY DEF Candidates, Listed
  <2>3. /\ Len(s) \in Nat /\ C = {s[i] : i \in 1..Len(s)}
        /\ \A i, j \in 1..Len(s) : i < j => ~Cheaper(s[j], s[i])
    BY <2>2, SortedIsList
  <2>4. s[k] \in V /\ s[k] \in Pods
    BY <2>1, <2>2, <2>3
  <2>5. ~Suffices(V \ {s[k]}, needs)
    <3>1. V \ {s[k]} = {s[i] : i \in 1..(k-1)}
        BY <2>1, <2>2, PrefixSize
    <3>2. CASE k = 1
      <4>1. V \ {s[k]} = {}
          BY <3>1, <3>2
      <4>2. Requested({}, r) = 0 /\ needs[r] \in Int /\ needs[r] > 0
          BY <1>1, RequestedGrows, NeedsAreIntegers
      <4>3. ~(Requested({}, r) >= needs[r])
          BY <4>2
      <4>4. QED
          BY <4>1, <4>3, Zenon DEF Suffices
    <3>3. CASE k # 1
      <4>1. k - 1 \in 1..Len(s) /\ k - 1 < k
          BY <2>1, <2>3, <3>3
      <4>2. QED
          BY <2>1, <3>1, <4>1
    <3>4. QED
        BY <3>2, <3>3
  <2>6. ASSUME NEW u \in V PROVE ~Cheaper(s[k], u)
    <3>1. PICK i \in 1..k : u = s[i]
        BY <2>1, <2>6
    <3>2. CASE i = k
      <4>1. /\ Priority[s[k]] \in Int /\ Request[s[k]][Cpu] \in Nat
            /\ GetTierPriority(GetTenantTierFromPod(s[k])) \in Int
          BY <2>4, PreemptionAssumption DEF GetTierPriority
      <4>2. QED
          BY <3>1, <3>2, <4>1 DEF Cheaper
    <3>3. CASE i # k
      <4>1. i \in 1..Len(s) /\ i < k
          BY <2>1, <2>3, <3>1, <3>3
      <4>2. QED
          BY <2>1, <2>3, <3>1, <4>1
    <3>4. QED
        BY <3>2, <3>3
  <2>7. QED
    BY <2>4, <2>5, <2>6
<1>2. [Next]_vars
     => [\A p \in Pods :
           LET needs == CalculateGangResourceNeeds(p)
               V == result'.victims
           IN  /\ Searching(p) /\ result'.kind = "preempt"
               /\ \E r \in Resources : needs[r] > 0
               => \E v \in V : /\ ~Suffices(V \ {v}, needs)
                               /\ \A u \in V : ~Cheaper(v, u)]_vars
    BY <1>1
<1>3. QED
    BY <1>2, PTL DEF Spec, NoNeedlessVictim

\* The search gives up only when no set of candidates would suffice, or when
\* there are more of them than MaxVictimsPerGang (gang_preemption.go,
\* findPreemptionVictims).
THEOREM SearchSucceedsIfPossible == Spec => GivesUpOnlyWhenHopeless
<1>1. ASSUME [Next]_vars, NEW p \in Pods, Searching(p),
             result'.kind = "noVictims"
      PROVE  LET C == Candidates(p) IN
             \/ Cardinality(C) > MaxVictims
             \/ \A S \in SUBSET C :
                  S # {} => ~Suffices(S, CalculateGangResourceNeeds(p))
  <2> DEFINE C == Candidates(p)
             needs == CalculateGangResourceNeeds(p)
  <2> SUFFICES ASSUME ~(Cardinality(C) > MaxVictims),
                      NEW S \in SUBSET C, S # {}, Suffices(S, needs)
               PROVE  FALSE
    OBVIOUS
  <2>1. C \in SUBSET Pods /\ C # {}
    BY DEF Candidates, Listed
  <2>2. Suffices(C, needs)
    BY <2>1, SufficesGrows
  <2>3. PICK s \in Sorted(C) :
          ~Suffices(Greedy(s, needs), needs) \/ Greedy(s, needs) = {}
    BY <1>1, SearchStep
  <2>4. PICK k \in 1..Len(s) :
          /\ Greedy(s, needs) = {s[i] : i \in 1..k}
          /\ \/ k = Len(s) \/ k = MaxVictims
             \/ Suffices({s[i] : i \in 1..k}, needs)
    BY <2>1, GreedyTakesPrefix
  <2>5. /\ Len(s) \in Nat /\ Len(s) = Cardinality(C)
        /\ C = {s[i] : i \in 1..Len(s)}
    BY <2>1, SortedIsList
  <2>6. Greedy(s, needs) # {}
    <3>1. 1 \in 1..k
      <4>1. k \in 1..Len(s) /\ Len(s) \in Nat
          BY <2>4, <2>5
      <4>2. QED
          BY <4>1
    <3>2. s[1] \in {s[i] : i \in 1..k}
        BY <3>1
    <3>3. QED
        BY <2>4, <3>2
  <2>7. k = Len(s)
    <3>1. k = Len(s) \/ k = MaxVictims
      <4>1. ~Suffices(Greedy(s, needs), needs)
          BY <2>3, <2>6
      <4>2. QED
          BY <2>4, <4>1, Zenon
    <3>2. MaxVictims \in Nat /\ Len(s) \in Nat /\ Cardinality(C) = Len(s)
        BY <2>5, PreemptionAssumption
    <3>3. k \in 1..Len(s) /\ ~(Cardinality(C) > MaxVictims)
        BY <2>4
    <3> HIDE DEF C, needs
    <3>4. QED
        BY <3>1, <3>2, <3>3
  <2>8. QED
    BY <2>2, <2>3, <2>4, <2>5, <2>6, <2>7
<1>2. [Next]_vars
     => [\A p \in Pods : Searching(p) /\ result'.kind = "noVictims" =>
           LET C == Candidates(p) IN
           \/ Cardinality(C) > MaxVictims
           \/ \A S \in SUBSET C :
                S # {} => ~Suffices(S, CalculateGangResourceNeeds(p))]_vars
    BY <1>1
<1>3. QED
    BY <1>2, PTL DEF Spec, GivesUpOnlyWhenHopeless

\* The state is well formed: a search names pods and a node of the cluster, and
\* the time of an attempt is a time of the clock; a restart is one of the faults
\* that are counted (gang_preemption.go, PostFilter and its callers).
THEOREM TypeCorrect == Spec => []TypeOK
<1> DEFINE Inv == TypeOK /\ restarts <= faults
<1>1. Init => Inv
    BY PreemptionAssumption DEF Init, TypeOK, NoResult, Kinds
<1>2. ASSUME Inv, [Next]_vars
      PROVE  Inv'
  <2> USE <1>2 DEF TypeOK
  <2>1. ASSUME NEW p \in Pods, PostFilter(p)
        PROVE  Inv'
    <3>1. CASE PostFilterNotGang(p) \/ PostFilterCooldown(p)
        BY <3>1 DEF PostFilterNotGang, PostFilterCooldown, Return, cluster, Kinds
    <3>2. CASE PostFilterSearch(p)
      <4>1. last' \in [Groups -> (0..MaxClock) \cup {Never}]
            /\ searches' \in [Groups -> Nat]
        <5>1. /\ last' = [last EXCEPT ![GroupName(p)] = clock]
              /\ searches' = [searches EXCEPT ![GroupName(p)] = @ + 1]
            BY <3>2 DEF PostFilterSearch, Attempt
        <5>2. /\ clock \in 0..MaxClock /\ searches \in [Groups -> Nat]
              /\ last \in [Groups -> (0..MaxClock) \cup {Never}]
            OBVIOUS
        <5>3. last' \in [Groups -> (0..MaxClock) \cup {Never}]
            BY ONLY <5>1, <5>2
        <5>4. searches' \in [Groups -> Nat]
          <6>1. GroupName(p) \in Groups
              BY <3>2, GangHasName DEF PostFilterSearch
          <6>2. QED
              BY ONLY <5>1, <5>2, <6>1
        <5>5. QED
            BY <5>3, <5>4
      <4>2. PICK V \in FindPreemptionVictims(p) :
               IF V = {} THEN Return(p, "noVictims", {}, NoNode)
               ELSE \E n \in SelectNominatedNode(V) : Return(p, "preempt", V, n)
          BY <3>2 DEF PostFilterSearch
      <4>3. V \subseteq Pods
          BY VictimsArePods
      <4>4. CASE V = {}
          BY <4>1, <4>2, <4>4 DEF Return, cluster, Kinds
      <4>5. CASE V # {}
        <5>1. PICK n \in SelectNominatedNode(V) : Return(p, "preempt", V, n)
            BY <4>2, <4>5
        <5>2. n \in Nodes \cup {NoNode}
            BY Zenon DEF SelectNominatedNode
        <5>3. QED
            BY <4>1, <4>3, <5>1, <5>2 DEF Return, cluster, Kinds
      <4>6. QED
          BY <4>4, <4>5
    <3>3. QED
        BY <2>1, <3>1, <3>2 DEF PostFilter
  <2>2. ASSUME NEW p \in Pods, NEW n \in Nodes, Schedule(p, n)
        PROVE  Inv'
    BY <2>2, PreemptionAssumption DEF Schedule, NoResult, Kinds
  <2>3. ASSUME NEW p \in Pods, FilterFails(p) \/ PodFinishes(p)
        PROVE  Inv'
    BY <2>3 DEF FilterFails, PodFinishes, cluster, NoResult, Kinds
  <2>4. ASSUME NEW n \in Nodes, LoseNode(n)
        PROVE  Inv'
    BY <2>4, PreemptionAssumption DEF LoseNode, Fault
  <2>5. CASE Tick
    BY <2>5, PreemptionAssumption DEF Tick, cluster
  <2>6. CASE Restart
    BY <2>6, PreemptionAssumption DEF Restart, Fault, cluster, NoResult, Kinds
  <2>7. CASE UNCHANGED vars
    BY <2>7 DEF vars
  <2>8. QED
    BY <2>1, <2>2, <2>3, <2>4, <2>5, <2>6, <2>7 DEF Next
<1>3. QED
    BY <1>1, <1>2, PTL DEF Spec
=============================================================================
