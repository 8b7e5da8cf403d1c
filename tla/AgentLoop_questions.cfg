SPECIFICATION FairSpec
CONSTANTS
    Agents = {a1, a2}
    Timers = {a1}
    Snapshot = {}
    Queries = {q1, q2}
    Api = api
    Models = {m1}
    Home = m1
    Divider = 1
    Capacity = 1
    Feeds = {"pause"}
    None = None
CHECK_DEADLOCK FALSE
PROPERTIES
    CyclesEnd
    QuestionsAreAnswered
    ServesQuestions
