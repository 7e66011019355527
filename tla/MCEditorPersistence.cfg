SPECIFICATION FairSpec
CONSTANTS
    Commit <- MCCommit
    Holder <- MCHolder
    NoHold = "nobody"
    Typed = {"t1", "t2"}
    Remote = {"r1"}
    Name = {"mine"}
    FirstName = "first"
    Retries = 1
    Delays = 1
    MaxFaults = 1
INVARIANTS GateSound NothingTypedIsLost UnsavedIsScheduled CaughtUp
PROPERTIES RemoteTextKept EveryEditSettles
CHECK_DEADLOCK FALSE
