\* Handlers read the body of an answer, as those of asyncly do.
CONSTANTS
    a1 = a1
    a2 = a2
    Attempt = {a1, a2}
    Method <- MCMethod
    Path <- MCPath
    Operation <- MCOperation
    NoOperation = NoOperation
    Client = "catfact"
    Foreign = {}
    ReadEarly = {}
    Failures = {"SocketTimeoutError"}
    Ok = 200
    MaxHops <- MCMaxHops
    MaxTime = 1
SPECIFICATION Spec
INVARIANT BodyReadIsTold
CHECK_DEADLOCK FALSE
