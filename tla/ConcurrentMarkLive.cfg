SPECIFICATION FairSpec
CONSTANTS
    Objects = {a, b}
    Fields = {f}
    Roots = {r1}
    Mutators = {m1}
    Workers = {w1}
    Main = Main
    Null = Null
    NoPacket = NoPacket
    None = None
    SIZE = 1
    PACKETS_COUNT = 7
    SSB_SIZE = 1
    POP_REMSET_COUNT = 1
    threads_available = 2
    MaxPins = 1
PROPERTIES
    PauseEnds
