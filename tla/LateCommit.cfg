\* One nas_ip, one file, a server that may apply a commit when a later job is under way.
CONSTANTS
    Nas = {n1}
    File = {f1}
    Worker = {w1}
    NoNas = NoNas
    Content = {"internal"}
    MaxCaptures = 1
    Settles = FALSE
SPECIFICATION LateSpec
INVARIANTS NoDoubleCount
CHECK_DEADLOCK FALSE
