\* Two nas_ip with one file each, two goroutines, a pool of two.  A cycle begins with
\* files of one nas_ip at most, and the other gets its own while jobs work.
CONSTANTS
    Nas = {n1, n2}
    File = {f1}
    Worker = {w1, w2}
    NoNas = NoNas
    Content = {"internal"}
    MaxCaptures = 1
    PoolSize = 2
    Settles = TRUE
SPECIFICATION SystemSpec
SYMMETRY Symmetry
CONSTRAINT OneBusy
INVARIANT JobMatchesGoroutine
PROPERTY KeepsAggregateContract
