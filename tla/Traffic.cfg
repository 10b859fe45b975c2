\* Two clients, one address outside, one that cannot be classified, an ip written otherwise, two lines.
CONSTANTS
    Addr = {c1, c2, ext, odd}
    InternalNet = {c1, c2}
    Unclassified = {odd}
    NoAddr = NoAddr
    SessionIP = {c1, c2, alias}
    SessID = {s1, s2}
    NasIP = {n1, n2}
    ByteSize <- Doctets
    MaxInteger = 1
    MaxLines = 2
SPECIFICATION TrafficSpec
SYMMETRY Symmetry
INVARIANTS TrafficInv TrafficIsSum VerdictIsSound ChunksBillSessions OverflowBlocksBatch
CHECK_DEADLOCK FALSE
