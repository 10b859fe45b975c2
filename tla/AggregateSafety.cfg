\* One nas_ip, three files of every kind, names delivered once, a server that settles
\* what is in doubt before the next job loads its checkpoint.
CONSTANTS
    Nas = {n1}
    File = {f1, f2, f3}
    Worker = {w1}
    NoNas = NoNas
    Content = {"internal", "external", "unreadable", "broken"}
    MaxCaptures = 1
    Settles = TRUE
SPECIFICATION LateSpec
SYMMETRY Symmetry
INVARIANTS IInv DoubtMatchesTmp NoDoubleCount ReplaySafe
PROPERTIES DropsOnlyCountedFiles CheckpointOutlivesFiles ImplementsAccounting
CHECK_DEADLOCK FALSE
