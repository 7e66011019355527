SPECIFICATION MSpec
CONSTANTS
    Connector = {c1, c2}
    Pauser = {p1}
    Maintainer = {m1}
    Reader = {r1}
    Session = {s1}
    Saver = {a1}
    Copier = {b1}
    Canceller = {x1}
    MaxCalls = 4
    MaxAsked = 2
    MaxTogether = 4
    MaxFaults = 2
    None = None
CHECK_DEADLOCK FALSE
INVARIANT NoStrayWorker
INVARIANT MaintenanceKeepsOut
INVARIANT SwapAlone
INVARIANT AnsweredIsKept
INVARIANT ReportIsTrue
PROPERTY OvertakenStops
PROPERTY EveryCallReturns
