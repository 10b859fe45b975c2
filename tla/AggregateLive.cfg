\* One nas_ip, two files of every kind, under fairness; no symmetry.
CONSTANTS
    Nas = {n1}
    File = {f1, f2}
    Worker = {w1}
    NoNas = NoNas
    Content = {"internal", "external", "unreadable", "broken"}
    MaxCaptures = 1
SPECIFICATION FairSpec
PROPERTIES InternalIsSettled LeftoversAreRemoved
CHECK_DEADLOCK FALSE
