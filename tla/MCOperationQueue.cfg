SPECIFICATION Spec
CONSTANTS
    o1 = o1
    o2 = o2
    o3 = o3
    NoOp = NoOp
    Ops <- MCOps
    RunsWhenCancelled <- MCRunsWhenCancelled
INVARIANTS
    TokensExact
    NoAssertFailure
    NoOperationStranded
    ReferencesExact
    Rendezvous
PROPERTIES
    ImplementsExecutor
    EveryOperationSettles
    IdleWorkerStops
