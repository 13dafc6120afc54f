SPECIFICATION Spec
CONSTANTS
    Objects = {a, b}
    Fields = {f}
    Roots = {r1}
    Mutators = {m1, m2}
    Workers = {w1}
    Main = Main
    Null = Null
    NoPacket = NoPacket
    None = None
    SIZE = 2
    PACKETS_COUNT = 5
    SSB_SIZE = 1
    POP_REMSET_COUNT = 0
    threads_available = 2
    MaxPins = 1
SYMMETRY Symmetry
INVARIANTS
    NoDanglingPointer
    AccessibleIsMarked
    PacketsAccounted
    MarkingComplete
    CycleEndsClean
PROPERTIES
    FreesOnlyGarbage
