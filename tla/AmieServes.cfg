SPECIFICATION FairSpec
CONSTANTS
    p1 = p1  p2 = p2  i1 = i1  None = None
    Packets = {p1, i1}
    Informs = {i1}
    MaxAttempts = 3
    BatchSize = 1
    CoreCalls = 2
    MaxFaults = 2
    MaxLostAcks = 1
INVARIANTS  AttemptsAccounted TablesAgree RunsAccounted
PROPERTIES RunsOnlyWhenDue ImplementsLedger EventuallySettled
