\* Metrics are reconfigured while an attempt is in flight.
CONSTANTS
    Attempt = {a1}
    Block = {b1, b2}
    Sink = {full, plain}
    StartSinks = {full}
    EndSinks = {full}
    PhaseSinks = {full}
    Noop = Noop
    NoOverride = NoOverride
    Resolver = {}
    DefaultResolver = default
    Status <- MCOneStatus
SPECIFICATION Spec
INVARIANT FlightIsBracketed
