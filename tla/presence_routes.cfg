SPECIFICATION FairSpec
CONSTANTS
    i1 = i1
    i2 = i2
    None = None
    Instances <- AllInstances
    Faults <- AllFaults
    Dials = 3
    Balancer <- FirstToOne
INVARIANTS
    RoutesAgree
    RemovalIsKept
PROPERTIES
    LiveConnectionKept
    WorkstationReturns
CHECK_DEADLOCK FALSE
