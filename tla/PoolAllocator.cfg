SPECIFICATION Spec
CONSTANTS
    N = 2
    BLOCK_SIZE = 1
    PAGE_SIZE = 4
    cell_size = 2
    Blocks = {4, 12}
    MaxNest = 2
    None = None
INVARIANTS
    CellsAccounted
    DescriptorsMatch
PROPERTIES
    UsesCellsOnce
