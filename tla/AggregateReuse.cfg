\* Two nas_ip, one with internal traffic, and two goroutines, a name that comes back after
\* its file was moved, processes of at most two jobs.
CONSTANTS
    Nas = {n1, n2}
    File = {f1}
    Worker = {w1, w2}
    NoNas = NoNas
    Content = {"internal", "external", "unreadable", "broken"}
    MaxCaptures = 2
    MaxJobs = 2
SPECIFICATION MetricsSpec
SYMMETRY Symmetry
CONSTRAINT SomeInternal
INVARIANTS NoDoubleCount MetricsBracketBilling EveryJobReported
PROPERTIES StuckIsReported
CHECK_DEADLOCK FALSE
