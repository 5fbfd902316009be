\* Any order of enable, disable, overlapping blocks and one attempt.
CONSTANTS
    Attempt = {a1}
    Block = {b1, b2}
    Sink = {full, plain, ending}
    StartSinks = {full}
    EndSinks = {full, ending}
    PhaseSinks = {full}
    Noop = Noop
    Resolver = {custom}
    DefaultResolver = default
    Status <- MCStatus
    NoOverride = NoOverride
SPECIFICATION MCSpec
SYMMETRY Symmetry
INVARIANTS
    TypeOK
    FlagsDescribeSink
    SampleGoesToStartSink
    LoneEndNeedsHalfSink
    SampleMatchesResult
    FailureIsNamed
    UndisturbedFlightIsBracketed
