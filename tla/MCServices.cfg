\* The candle store: a repair gets fewer candles than pass, so that it reaches some gaps
\* and not others.
CONSTANTS
    MaxSlot = 4
    Lookback = 2
    Depth = 2
    GapCheck = 2
    Spare = 1
    History = 4
    MaxExtras = 2
\* The reporting mirror, with slots that have two keys.
    MaxRow = 3
    BarRows = 2
    Batch = 2
    ParamSets = {p1, p2}
    MaxPasses = 3
    MaxLate = 1
\* Notifications: an hour is longer than the window for repeated messages.
    Threshold = 2
    Window = 1
    Hour = 2
    Cap = 2
    MaxClock = 3
    MaxAlerts = 5
\* The watch for stale agents.
    Grace = 1
    Room = 2
    MaxTime = 4
    MaxArrivals = 4
\* Tool calls.
    Dispatchers = {d1, d2}
    Calls = {k1, k2, k3}
    MaxVerdicts = 3
\* The turns of a cycle.
    ModelCalls = {order, note, notice}
    Trading = {order}
    Requirements = {{note}, {notice, order}}
    MaxToolTurns = 3
    MaxReminders = 2
    MaxBatch = 2
\* Notes.
    Notes = {n1, n2}
    Backlog = 2
    MaxRequests = 5
\* The log of events.
    Events = {e1, e2, e3}
    NoEvent = NoEvent
\* The terms of a position: the order for five units is rounded to two of the venue's lots.
    Size = 5
    Lot = 3
    Amounts = {0, 4}
    Limits = {stop}
    Prices = {1}
    MaxTermCalls = 2
    MaxTroubles = 1
SPECIFICATION ServicesSpec
INVARIANTS
    ServicesTypeOK
    
    NothingSkipped
    BarsFollowRows
    CapHolds
    SuppressedAreTold
    RunsOnlyApproved
    DecisionsCarriedOutOnce
    NotesStay
    TracesAreComplete
    TermsAgree
PROPERTIES
    FinishedStays
    ServesFresh
    WordsAlternate
    AlarmIsFounded
CHECK_DEADLOCK FALSE
