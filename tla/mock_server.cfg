\* Requests over two handlers, plain, delayed and sequence responses.
CONSTANTS
    r1 = r1
    r2 = r2
    r3 = r3
    r4 = r4
    r5 = r5
    ha = ha
    hb = hb
    ok = ok
    busy = busy
    slow = slow
    lag = lag
    play = play
    once = once
    tail = tail
    Request <- MCRequest
    Handler = {ha, hb}
    Routes <- MCRoutes
    Plain = {ok, busy}
    Latency = {slow, lag}
    Sequence = {play, once, tail}
    Wrapped <- MCWrapped
    Items <- MCItems
    OnExhausted <- MCOnExhausted
    Content <- MCContent
    Json <- MCJson
    Criteria <- MCCriteria
    Times <- MCTimes
    Nothing = Nothing
    NotJson = NotJson
    NotText = NotText
    text = text
    other = other
    binary = binary
    Doc = Doc
    Tag = Tag
SPECIFICATION MCSpec
INVARIANTS
    TypeOK
    HistoriesAgree
    RecordedOnce
    PlayedInOrder
    SequenceFollowsHistory
    AssertionsTellTheHistory
