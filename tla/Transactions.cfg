\* Two goroutines of the usecases, a free one and two probes share four connections;
\* no symmetry.
CONSTANTS
    Session = {s1, s2, s3}
    Free = {s3}
    MaxOpenConns = 4
    Request = {r1, r2}
SPECIFICATION FairPoolSpec
INVARIANTS TransactionsInv NoTransactionLost ReturnsConnection NeverMisused ReserveSuffices HalfStartedAfterFailure
PROPERTIES AllAnswered
