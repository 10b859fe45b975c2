\* Three nas_ip for a pool of two, under fairness; no symmetry.
CONSTANTS
    Nas = {n1, n2, n3}
    Worker = {w1, w2, w3}
    NoNas = NoNas
    PoolSize = 2
SPECIFICATION FairReportSpec
INVARIANTS CycleInv PoolWithinSize NothingOutlivesCycle CycleReported NamesListedOnce
PROPERTIES CycleEnds StopsAfterCancel ResultIsComplete ImplementsRounds
