\* Any credentials through a proxy that requires some; two requests at a time.
CONSTANTS
    own = own
    right = right
    wrong = wrong
    bearer = bearer
    thing = thing
    Nothing = Nothing
    Absent = Absent
    Raises = Raises
    NotJson = NotJson
    NotText = NotText
    TheProxy = TheProxy
    Json = Json
    Credentials <- MCCredentials
    r1 = r1
    r2 = r2
    Request = {r1, r2}
    Idempotent = {r1}
    Calls <- MCCalls
    DefaultProxyAuth = right
    ExpectedAuth = right
    MaxAttempts = 2
    HopByHop <- MCHopByHop
SPECIFICATION Spec
INVARIANTS
    ProxySeesTheCallersCredentials
    CredentialsStayOnTheirHop
    ForwardsAreAuthenticated
    AnswersAreRecorded
CHECK_DEADLOCK FALSE
