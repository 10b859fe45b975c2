\* Two sessions, any order of calls.
CONSTANTS
    Session = {s1, s2}
    Free = {s1, s2}
    MaxOpenConns = 2
SPECIFICATION TransactionsSpec
INVARIANTS ErrClosedUnreachable
