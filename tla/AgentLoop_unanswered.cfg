SPECIFICATION FairSpec
CONSTANTS
    Agents = {a1}
    Timers = {a1}
    Snapshot = {a1}
    Queries = {q1}
    Api = api
    Models = {m1}
    Home = m1
    Divider = 1
    Capacity = 1
    Feeds = {}
    None = None
CHECK_DEADLOCK FALSE
PROPERTIES
    QuestionsAreAnswered
