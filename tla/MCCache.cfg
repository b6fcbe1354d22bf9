\* One queue, with room in the map for one gang of two.
CONSTANTS
    p1 = p1  p2 = p2  p3 = p3   g1 = g1  g2 = g2  s1 = s1 
    NoGroup = NoGroup  NoMin = NoMin  BadMin = BadMin
    Pods = {p1, p2, p3}
    Groups = {g1, g2}
    Labels <- TwoGangsAndPod
    Sorters = {s1}
    Priority <- RaisedThird
    Key <- KeyByGang
    Cap = 1
    EvictShare = 1
    StaleTTL = 0
    Threshold = 0
    MaxClock = 1
    MaxLost = 1
SPECIFICATION Spec
INVARIANTS TypeOK NoPhantomEntries CapUpToRaces OrderIsStrictWeak
