CONSTANTS
    Addrs <- MCAddrs
    JAddrs <- MCJAddrs
    Ops <- MCOps
    InitMem <- MCInitMem
    Pre <- MCPre
    K = 2
    MaxCrashes = 2
SPECIFICATION Spec
PROPERTIES
    AtomicMutations
    CallsComplete
