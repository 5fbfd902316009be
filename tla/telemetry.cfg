\* Two attempts of the same route at the same time, with redirects.
CONSTANTS
    a1 = a1
    a2 = a2
    Attempt = {a1, a2}
    Method <- MCMethod
    Path <- MCPath
    Operation <- MCSameOperation
    NoOperation = NoOperation
    Client = "catfact"
    Foreign = {a1}
    ReadEarly = {a2}
    Failures = {"SocketTimeoutError"}
    Ok = 200
    MaxHops <- MCMaxHops
    MaxTime = 1
SPECIFICATION MCSpec
INVARIANTS
    PhasesTellTheWaits
    FirstByteOnce
    GaugeShowsOpenAttempts
    SinksTellTheSame
CHECK_DEADLOCK FALSE
