SPECIFICATION Spec
CONSTANTS
    Agents = {a1}
    Timers = {a1}
    Snapshot = {a1}
    Queries = {q1}
    Api = api
    Models = {m1, m2}
    Home = m1
    Divider = 3
    Capacity = 2
    Feeds = {"candle", "outside", "forced", "event", "config", "pause"}
    None = None
INVARIANTS
    TypeOK
    OneCycleAtATime
    OwnModel
    EveryNthCandle

    
