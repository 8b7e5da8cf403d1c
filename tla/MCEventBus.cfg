SYMMETRY Alike
SPECIFICATION Spec
CONSTANTS
    Members = {agent, service, notifier}
    Agents = {agent}
    Servers = {service}
    Concurrent = {service}
    Notifier = notifier
    Topics = {t}
    Requests = {r1, r2}
    Saves = {s1, s2}
    None = none
    Capacity = 2
    MaxLoad = 3
INVARIANTS TypeOK InOrder LateAnswersGoHome WaitsForSomething RoutingAgrees
PROPERTY ServesCalls
CHECK_DEADLOCK FALSE
