\* Three pods, two nodes, two faults.
CONSTANTS
    gpuPod = gpuPod  memPod = memPod  otherPod = otherPod  n1 = n1  n2 = n2
    Pods = {gpuPod, memPod, otherPod}
    NoPod = NoPod
    Nodes = {n1, n2}
    NoNode = NoNode
    Attr <- MCAttr
    Hw <- MCHw
    Extra <- MCExtra
    Foreign = {otherPod}
    NamespaceLabels <- MCNamespaceLabels
    MaxFaults = 2
SPECIFICATION Spec
CHECK_DEADLOCK FALSE
INVARIANTS TypeOK ExplicitTierWins IslandsProtected ScoresInRange NeverFullerForBackfill
