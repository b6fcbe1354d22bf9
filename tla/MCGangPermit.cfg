\* ProfileClassifier in the profile: PreFilter passes label-only gangs unseen.
CONSTANTS
    a1 = a1  a2 = a2  a3 = a3  a4 = a4  b1 = b1  c1 = c1  ga = ga  gb = gb
    Pods = {a1, a2, a3, a4, b1}
    Groups = {ga, gb}
    NoGroup = NoGroup  NoMin = NoMin  BadMin = BadMin
    Labels <- FourAndOne
    Capacity = 5
    Profiled = TRUE
    ProfileGang <- NotGang
    Finishing = FALSE
    MaxFaults = 1
SYMMETRY MembersOfA
SPECIFICATION Spec
INVARIANTS TypeOK CompleteGangMovesOn
PROPERTY PermitIsBarrier
CHECK_DEADLOCK FALSE
