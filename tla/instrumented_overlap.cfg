\* Two tasks whose instrument() blocks overlap without nesting.
CONSTANTS
    Attempt = {a1}
    Block = {b1, b2}
    Sink = {full, plain}
    StartSinks = {full}
    EndSinks = {full}
    PhaseSinks = {full}
    Noop = Noop
    NoOverride = NoOverride
    Resolver = {}
    DefaultResolver = default
    Status <- MCOneStatus
SPECIFICATION BlocksSpec
INVARIANT OpenBlockHasItsSink
