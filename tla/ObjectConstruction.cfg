SPECIFICATION Spec
CONSTANTS
    Threads = {t1, t2}
    Statics = {s}
    Cells = {c1, c2}
    node = node
    mixed = mixed
    Types <- MCTypes
    type_size <- MCtype_size
    members <- MCmembers
    Kinds <- MCKinds
    MaxNest = 2
    Null = Null
    Data = Data
    None = None
SYMMETRY ConstructionSymmetry
CHECK_DEADLOCK FALSE
INVARIANTS
    MetaExact
PROPERTIES
    ConstructsCellsOnce
