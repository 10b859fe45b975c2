\* One nas_ip, one file, under fairness: is the checkpoint always released?
CONSTANTS
    Nas = {n1}
    File = {f1}
    Worker = {w1}
    NoNas = NoNas
    Content = {"internal"}
    MaxCaptures = 1
SPECIFICATION FairSpec
PROPERTIES CheckpointIsReleased
CHECK_DEADLOCK FALSE
