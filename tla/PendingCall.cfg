SPECIFICATION FairCallSpec
CONSTANTS
    DEPTH_STACK_SIZE = 2
    MaxNested = 2
    MaxSafe = 2
INVARIANTS
    CallTypeOK
    DepthsMatchScopes
    NoForgottenSignal
PROPERTIES
    KeepsPromise
    SignalsAnswered
