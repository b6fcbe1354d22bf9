---------------------------- MODULE NUMATopology ----------------------------
(***************************************************************************)
(* The NUMATopology plugin (pkg/plugins/numatopology): its Filter, and the *)
(* parts of the score of one NUMA node of a server.  Scores are integers:  *)
(* a component score counts hundredths of a point, a total ten-thousandths *)
(* (the weights are percents), where the code has floats.                  *)
(***************************************************************************)
EXTENDS GpuCluster

Points(x) == 100 * x       \* x points of a component score
Point == Points(100)       \* one point of a total
NeutralScore == 50         \* MaxNodeScore / 2
CrossScore == 25           \* MaxNodeScore / 4
NoGangScore == Points(50)  \* affinity without a gang or a recorded member

getNUMAPolicy(p) ==
    IF Ask[p].policy \in {"single-numa-node", "best-effort", "none"}
      THEN Ask[p].policy
    ELSE IF ClassifyPod(p) = "batch" THEN "single-numa-node"
    ELSE "none"

\* The NUMA nodes whose labels can be read.
parseNUMATopology(n) == {i \in DOMAIN Board[n].numa : Board[n].numa[i].labels.ok}

Numa(n, i) == Board[n].numa[i].labels

isMemoryIntensive(p) ==
    \/ Ask[p].memoryIntensive
    \/ /\ Attr[p].mem > 16
       /\ Attr[p].mem \div Max({1, Attr[p].cpu}) > 4

FitsIn(p, n, i) ==
    Numa(n, i).cpus >= Attr[p].cpu /\ Numa(n, i).mem >= Attr[p].mem

-----------------------------------------------------------------------------
(* GPU alignment: Board[n].gpuNuma gives the NUMA node of each GPU that    *)
(* carries the label (getGPUNUMAMapping).                                  *)

GpusOn(n, i) ==
    Cardinality({g \in DOMAIN Board[n].gpuNuma : Board[n].gpuNuma[g] = i})

canFitGPUsInNUMA(p, n, i) ==
    \/ Attr[p].gpu = 0
    \/ DOMAIN Board[n].gpuNuma = {}
    \/ GpusOn(n, i) >= Attr[p].gpu

calculateGPUNUMABonus(p, n, i) ==
    IF Attr[p].gpu = 0 \/ DOMAIN Board[n].gpuNuma = {} THEN 0
    ELSE IF GpusOn(n, i) >= Attr[p].gpu THEN 15
    ELSE -25

NUMAFilter(p, n) ==
    \/ getNUMAPolicy(p) # "single-numa-node"
    \/ Cardinality(parseNUMATopology(n)) <= 1
    \/ \E i \in parseNUMATopology(n) : FitsIn(p, n, i) /\ canFitGPUsInNUMA(p, n, i)

-----------------------------------------------------------------------------
(* Score: the NUMA nodes that come into question, and what each is worth.  *)

\* Mutation of Eligible: the avoid list is read as the prefer list.
EligiblePreferred(p, n) ==
    {i \in parseNUMATopology(n) : FitsIn(p, n, i) /\ i \notin Ask[p].prefer}

Eligible(p, n) ==
    {i \in parseNUMATopology(n) : FitsIn(p, n, i) /\ i \notin Ask[p].avoid}

FitScore(p, n, i) ==
    LET numa == Numa(n, i)
        fit == (Points(60) * (numa.cpus - Attr[p].cpu)) \div numa.cpus
               + (Points(40) * (numa.mem - Attr[p].mem)) \div numa.mem
    IN  IF i \in Ask[p].prefer THEN Min({Points(100), (fit * 12) \div 10}) ELSE fit

BandwidthScore(p, n, i) ==
    IF isMemoryIntensive(p) /\ Numa(n, i).bandwidth
    THEN Points(100) - (Points(100) * Attr[p].mem) \div Numa(n, i).mem
    ELSE Points(50)

\* Distances to NUMA nodes without readable labels count too.
calculateNUMADistanceScore(p, n, i) ==
    LET distance == Board[n].numa[i].distance
        others == DOMAIN distance \ {i}
        average == (100 * SumFunctionOnSet(distance, others))
                       \div Cardinality(others)
        score == Points(100) - ((average - Points(10)) * 5 * Ask[p].weight) \div 50
    IN  IF DOMAIN distance = {} THEN Points(50)
        ELSE IF others = {} THEN Points(100)
        ELSE Max({0, Min({Points(100), score})})

\* Mutation of SpreadScore: packed and isolated change places.
SpreadScoreSwapped(spread, count) ==
    CASE spread \in {"packed", "none"} -> IF count > 0 THEN 0 ELSE Points(100)
      [] spread = "isolated"           -> IF count > 0 THEN Points(100) ELSE Points(20)
      [] spread = "balanced"           -> Max({0, Points(100 - 20 * count)})
      [] OTHER                         -> Points(50)

\* The branches of calculateGangAffinityScore, for a NUMA node that holds
\* count recorded members of the gang.
SpreadScore(spread, count) ==
    CASE spread \in {"packed", "none"} -> IF count > 0 THEN Points(100) ELSE Points(20)
      [] spread = "balanced"           -> Max({0, Points(100 - 20 * count)})
      [] spread = "isolated"           -> IF count > 0 THEN 0 ELSE Points(100)
      [] OTHER                         -> Points(50)

\* For a gang whose recorded spread policy is policy and whose recorded
\* members are at ids.
GangScore(p, policy, ids, i) ==
    IF DOMAIN ids = {} THEN NoGangScore
    ELSE SpreadScore(IF policy = "" THEN Ask[p].spread ELSE policy,
                     Cardinality({k \in DOMAIN ids : ids[k] = i}))

\* The weighted total, before it is capped.
Total(p, n, i, gang) ==
    40 * FitScore(p, n, i) + 25 * BandwidthScore(p, n, i)
    + 20 * calculateNUMADistanceScore(p, n, i) + 15 * gang
    + Point * calculateGPUNUMABonus(p, n, i)

Capped(total) == Max({0, Min({100 * Point, total})})
=============================================================================
