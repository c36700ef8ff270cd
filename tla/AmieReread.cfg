SPECIFICATION Spec
CONSTANTS
    p1 = p1
    p2 = p2
    i1 = i1
    None = None
    Packets = {p1}
    Informs = {}
    MaxAttempts = 3
    BatchSize = 1
    CoreCalls = 1
    MaxFaults = 0
    MaxLostAcks = 1
INVARIANTS RereadIsPreIncrement
