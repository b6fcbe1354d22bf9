\* Three members, two cliques, one fault; slices come and go.
CONSTANTS
    a1 = a1  a2 = a2  a3 = a3  n1 = n1  n2 = n2  n3 = n3
    Pods = {a1, a2, a3}
    NoPod = NoPod
    Nodes = {n1, n2, n3}
    NoNode = NoNode
    PodGroup <- MCPodGroup
    Strict <- MCStrict
    Sensitive <- MCSensitive
    MinFabricTier <- MCMinFabricTier
    WorkloadType <- MCWorkloadType
    FabricType <- MCFabricType
    FabricID <- MCFabricID
    RackID <- MCRackID
    AZ <- MCAZ
    CliqueLabel <- MCCliqueLabel
    SliceClique <- MCSliceClique
    MaxFaults = 1
SPECIFICATION Spec
CHECK_DEADLOCK FALSE
INVARIANTS TypeOK CliquesBounded LocalityNeverHurts
