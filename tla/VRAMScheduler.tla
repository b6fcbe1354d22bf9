--------------------------- MODULE VRAMScheduler ---------------------------
(***************************************************************************)
(* The VRAMScheduler plugin (pkg/plugins/vramscheduler): how much VRAM a   *)
(* pod asks for, which GPUs a node has, and the Filter and the Score made  *)
(* of both.  Templates and ResourceSlices come from informers, so they are *)
(* arguments here: known is the set of templates, listed the set of slices *)
(* the informers show at the time of the call.                             *)
(***************************************************************************)
EXTENDS GpuCluster

-----------------------------------------------------------------------------
(* The request (vramscheduler.go, dra.go).  note is the annotation of the  *)
(* pod, 0 if it is missing or does not parse.                              *)

isGPUClaim(claim) ==
    \/ claim.gpuName
    \/ claim.template # NoTemplate /\ Template[claim.template].gpuClass

\* What one claim contributes, 0 if it is passed over.  A claim that is
\* already allocated is looked at and yields nothing.
ClaimVRAM(claim, note, known) ==
    IF claim.template # NoTemplate /\ claim.template \notin known THEN 0
    ELSE IF claim.template # NoTemplate /\ Template[claim.template].memory > 0
      THEN Template[claim.template].memory
    ELSE IF isGPUClaim(claim) THEN note
    ELSE 0

\* The first claim that yields something decides.
getVRAMFromResourceClaim(p, note, known) ==
    LET vram(i) == ClaimVRAM(Ask[p].claims[i], note, known)
        found == {i \in DOMAIN Ask[p].claims : vram(i) > 0}
    IN  IF found = {} THEN 0 ELSE vram(Min(found))

getVRAMRequest(p, note, known) ==
    LET vram == getVRAMFromResourceClaim(p, note, known)
    IN  IF vram > 0 THEN vram ELSE note

\* One GPU serves a VRAM request that asks for no GPU by count.
GpusRequested(p) == IF Attr[p].gpu = 0 THEN 1 ELSE Attr[p].gpu

-----------------------------------------------------------------------------
(* The GPUs of a node: ResourceSlices, else NFD labels, else the labels an *)
(* operator has set.                                                       *)

NoSwitch == ""

\* The model is kept in the field of the PCIe switch where that is empty.
parseGPUDeviceFromDRA(d) ==
    [name |-> d.name, vram |-> d.vram, numa |-> d.numa, domain |-> d.domain,
     peers |-> d.peers,
     switch |-> IF d.switch = NoSwitch THEN d.model ELSE d.switch]

getGPUTopologyFromDRA(n, listed) ==
    {parseGPUDeviceFromDRA(d) :
        d \in {e \in UNION {s.devices : s \in {x \in listed : x.node = n
                                                            /\ x.gpuDriver}} :
                   e.vram > 0}}

\* A GPU of which only labels tell: its links are not known.
LabelledGPU(name, vram, numa) ==
    [name |-> name, vram |-> vram, numa |-> numa, domain |-> -1, peers |-> 0,
     switch |-> NoSwitch]

\* VRAM by PCI device id, 0 for an unknown one.
DeviceIDToVRAM(id) ==
    CASE id = "2322"                                                -> 141
      [] id \in {"2330", "2331", "20b2", "20b5"}                    -> 80
      [] id = "740c"                                                -> 64
      [] id \in {"26b5", "26b1", "2235", "2204", "2206", "0bd5"}    -> 48
      [] id \in {"20b0", "20b1"}                                    -> 40
      [] id \in {"1db5", "1db6", "740f", "7408", "738c"}            -> 32
      [] id \in {"27b8", "20b7"}                                    -> 24
      [] id \in {"1eb8", "1db4", "56c0"}                            -> 16
      [] id = "56c1"                                                -> 12
      [] OTHER                                                      -> 0

\* One entry for every device that some label stands for: a device with both
\* a "present" and a "count" label is entered twice.
scanNFDForPCIDevices(n) ==
    LET nfd == Board[n].nfd
    IN  UNION {{<<id, label, i>> :
                   label \in (IF nfd[id].present THEN {"present"} ELSE {})
                             \cup (IF nfd[id].count # NoLabel THEN {"count"} ELSE {}),
                   i \in 1..(IF nfd[id].count > 0 THEN nfd[id].count ELSE 1)} :
               id \in {d \in DOMAIN nfd : DeviceIDToVRAM(d) > 0}}

\* The GPUs are dealt out to the NUMA nodes in the order in which they were
\* found; a remainder lands on a NUMA node that does not exist.
getTopologyFromNFD(n) ==
    LET found == SetToSeq(scanNFDForPCIDevices(n))
        perNuma == IF Board[n].nfdNuma > 0 THEN Len(found) \div Board[n].nfdNuma ELSE 0
    IN  {LabelledGPU(i, DeviceIDToVRAM(found[i][1]),
                     IF perNuma > 0 THEN (i - 1) \div perNuma ELSE -1) :
            i \in DOMAIN found}

inferVRAMFromModel(model) ==
    CASE model = "MI300"                                 -> 192
      [] model = "H200"                                  -> 141
      [] model \in {"H100-80GB", "H100", "A100-80GB"}    -> 80
      [] model \in {"L40S", "L40", "A40", "RTX8000"}     -> 48
      [] model \in {"A100-40GB", "A100"}                 -> 40
      [] model \in {"V100-32GB", "V100"}                 -> 32
      [] model \in {"L4", "A30", "RTX6000"}              -> 24
      [] model \in {"T4", "V100-16GB"}                   -> 16
      [] OTHER                                           -> 0

\* VRAM per GPU and number of GPUs by the operator's labels.  One GPU unless
\* a count is there and parses.
getNodeGPUVRAMFromLabels(n) ==
    LET b == Board[n]
        count == IF b.count < 0 THEN 1 ELSE b.count
        inferred == inferVRAMFromModel(b.model)
    IN  IF b.vram = BadLabel THEN [vram |-> 0, count |-> 0]
        ELSE IF b.vram # NoLabel THEN [vram |-> b.vram, count |-> count]
        ELSE IF inferred > 0 THEN [vram |-> inferred, count |-> count]
        ELSE [vram |-> 0, count |-> 0]

TopologyFromLabels(n) ==
    {LabelledGPU(i, getNodeGPUVRAMFromLabels(n).vram, -1) :
        i \in 1..getNodeGPUVRAMFromLabels(n).count}

getNodeGPUTopology(n, listed) ==
    IF getGPUTopologyFromDRA(n, listed) # {}
      THEN getGPUTopologyFromDRA(n, listed)
    ELSE IF getTopologyFromNFD(n) # {} THEN getTopologyFromNFD(n)
    ELSE TopologyFromLabels(n)

\* Mutation of getNodeGPUVRAM: the largest GPU stands for the node.
LargestGPUVRAM(n, listed) ==
    LET gpus == getNodeGPUTopology(n, listed)
    IN  IF gpus = {} THEN getNodeGPUVRAMFromLabels(n).vram
        ELSE Max({g.vram : g \in gpus})

\* VRAM per GPU: the smallest GPU stands for the node.
getNodeGPUVRAM(n, listed) ==
    LET gpus == getNodeGPUTopology(n, listed)
    IN  IF gpus = {} THEN getNodeGPUVRAMFromLabels(n).vram
        ELSE Min({g.vram : g \in gpus})

-----------------------------------------------------------------------------
(* Filter and Score.                                                       *)

VRAMFilter(p, n, note, known, listed) ==
    LET request == getVRAMRequest(p, note, known)
        perGPU == getNodeGPUVRAM(n, listed)
    IN  \/ request = 0
        \/ perGPU > 0 /\ request <= perGPU * GpusRequested(p)

\* Percent of the VRAM in use from which a fit is perfect, good, acceptable
\* and poor.
Thresholds(tier) ==
    CASE tier = "gold"   -> <<98, 85, 70, 50>>
      [] tier = "bronze" -> <<90, 60, 40, 20>>
      [] OTHER           -> <<95, 70, 50, 30>>

\* Mutation of calculateUtilizationScore: good and acceptable are swapped.
UtilizationScoreSwapped(need, have, tier) ==
    LET reached(i) == 100 * need >= Thresholds(tier)[i] * have
    IN  IF reached(1) THEN 100
        ELSE IF reached(2) THEN 60
        ELSE IF reached(3) THEN 80
        ELSE IF reached(4) THEN 30
        ELSE 0

calculateUtilizationScore(need, have, tier) ==
    LET reached(i) == 100 * need >= Thresholds(tier)[i] * have
    IN  IF reached(1) THEN 100
        ELSE IF reached(2) THEN 80
        ELSE IF reached(3) THEN 60
        ELSE IF reached(4) THEN 30
        ELSE 0

isHighEndGPU(n) ==
    Board[n].model \in {"H100", "H100-80GB", "H200", "A100-80GB", "MI300"}

\* Some group of the GPUs, formed by key, has at least count members.
Together(gpus, key(_), count) ==
    \E g \in gpus : Cardinality({h \in gpus : key(h) = key(g)}) >= count

checkGPUNUMALocality(gpus, count) ==
    Together({g \in gpus : g.numa >= 0}, LAMBDA g : g.numa, count)

checkNVLinkConnectivity(gpus, count) ==
    \/ Together({g \in gpus : g.domain >= 0}, LAMBDA g : g.domain, count)
    \/ \E g \in gpus : g.peers >= count - 1

checkPCIeLocality(gpus, count) ==
    Together({g \in gpus : g.switch # NoSwitch}, LAMBDA g : g.switch, count)

calculateGPUTopologyBonus(gpus, count) ==
    IF count <= 1 \/ Cardinality(gpus) < count THEN 0
    ELSE (IF checkGPUNUMALocality(gpus, count) THEN 15 ELSE 0)
         + (IF checkNVLinkConnectivity(gpus, count) THEN 25 ELSE 0)
         + (IF checkPCIeLocality(gpus, count) THEN 10 ELSE 0)

\* Mutation of VRAMScore: the topology bonus is not capped.
VRAMScoreUncapped(p, n, tier, request, perGPU, gpus) ==
    LET count == GpusRequested(p) IN
    IF request = 0 THEN 60
    ELSE IF perGPU = 0 THEN 0
    ELSE IF request > perGPU * count THEN 0
    ELSE calculateUtilizationScore(request, perGPU, tier)
         + calculateGPUTopologyBonus(gpus, count)

\* request and perGPU are read first, the GPUs for the bonus in a later read.
VRAMScore(p, n, tier, request, perGPU, gpus) ==
    LET count == GpusRequested(p)
        base == calculateUtilizationScore(request, perGPU, tier)
        premium == IF isHighEndGPU(n) /\ 10 * request >= 7 * perGPU
                   THEN Min({100, base + 10}) ELSE base
        stranded == IF 10 * request < 3 * perGPU
                    THEN Max({0, premium - 20}) ELSE premium
    IN  IF request = 0 THEN 60
        ELSE IF perGPU = 0 THEN 0
        ELSE IF request > perGPU * count THEN 0
        ELSE IF request > perGPU
          THEN calculateUtilizationScore(request, perGPU * count, tier)
        ELSE Min({100, stranded + calculateGPUTopologyBonus(gpus, count)})
=============================================================================
