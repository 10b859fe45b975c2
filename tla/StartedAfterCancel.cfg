\* May the pool start a function after the context has ended?
CONSTANTS
    Nas = {n1, n2}
    Worker = {w1, w2}
    NoNas = NoNas
    PoolSize = 1
SPECIFICATION CycleSpec
PROPERTIES NotStartedAfterCancel
