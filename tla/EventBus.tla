------------------------------ MODULE EventBus ------------------------------
(***************************************************************************)
(* The event bus: every message goes through one inbound queue and one     *)
(* dispatch loop, which resolves the future a caller waits on, delivers to *)
(* a named member, or fans out by the routing table.  Composed with the    *)
(* store of the routing rules, which change while messages are under way.  *)
(*                                                                         *)
(* Agents ask services (bus_request) and give up after a timeout; services *)
(* answer.  A configuration save stops agents, whose queue is lost, and    *)
(* starts them again under the same name.                                  *)
(***************************************************************************)
EXTENDS RoutingStore, FiniteSets

CONSTANTS
    Agents,      \* members that ask, and that come and go
    Servers,     \* services that answer requests
    Concurrent,  \* servers that work on every request in a task of its own
    Requests,    \* calls of bus_request, each used once
    None,        \* a field that is not given
    Capacity,    \* maxsize of a member's queue
    MaxLoad      \* bound on messages published without being asked, and saves

ASSUME EventBusAssumption ==
    /\ Members = Agents \cup Servers \cup {Notifier}
    /\ Concurrent \subseteq Servers
    /\ Agents \cap Servers = {} /\ Notifier \notin Agents \cup Servers
    /\ None \notin Members \cup Requests \cup Topics
    /\ Capacity \in Nat \ {0} /\ MaxLoad \in Nat

VARIABLES
    registered,  \* members with a queue
    inbound,     \* published, not yet dispatched
    queue,       \* each member's queue
    call,        \* the future of each request
    post,        \* who sent each request to whom
    serving,     \* the requests each server is working on
    number,      \* messages published so far
    work,        \* history: what became of each request
    taken,       \* history: the number of the last message each member took
    lost         \* history: the requests no queue had room for

busVars == <<registered, inbound, queue, call, post, serving, number, work, taken, lost>>
vars == <<storeVars, busVars>>

\* Numbers stand for the order of publication; an answer carries the request's id.
Message == {m \in [n: Nat,
                   kind: {"event", "request", "answer", "reload"},
                   topic: Topics \cup {None},
                   to: Members \cup {None},
                   about: Requests \cup {None}] :
               IF m.kind \in {"request", "answer"}
               THEN m.about \in Requests /\ m.to \in Members
               ELSE m.about = None /\ m.to = None}

TypeOK ==
    /\ StoreTypeOK
    /\ registered \in SUBSET Members
    /\ inbound \in Seq(Message)
    /\ queue \in [Members -> Seq(Message)]
    /\ \A m \in Members : Len(queue[m]) <= Capacity
    /\ call \in [Requests -> {"unused", "waiting", "answered", "expired"}]
    /\ post \in [Requests -> [from: Members, to: Members]]
    /\ serving \in [Members -> SUBSET Requests]
    /\ number \in Nat
    /\ work \in [Requests -> {"none", "queued", "running", "answered", "silent"}]
    /\ taken \in [Members -> Nat]
    /\ lost \in SUBSET Requests

Init ==
    /\ StoreInit
    /\ registered = Members
    /\ inbound = <<>>
    /\ queue = [m \in Members |-> <<>>]
    /\ call = [r \in Requests |-> "unused"]
    /\ post = [r \in Requests |-> [from |-> Notifier, to |-> Notifier]]
    /\ serving = [m \in Members |-> {}]
    /\ number = 0
    /\ work = [r \in Requests |-> "none"]
    /\ taken = [m \in Members |-> 0]
    /\ lost = {}

\* What has been published of its own accord, and saved, so far.
Load == number - Cardinality({r \in Requests : work[r] = "answered"})
        + Cardinality({s \in Saves : save[s].pc # "unused"})

-----------------------------------------------------------------------------
(* Publishing *)

Publish(kind, topic, to, about) ==
    /\ number' = number + 1
    /\ inbound' = Append(inbound, [n |-> number + 1, kind |-> kind, topic |-> topic,
                                   to |-> to, about |-> about])

\* Any member, adapter or timer reports something; nobody is named.
PublishEvent(topic) ==
    /\ Load < MaxLoad
    /\ Publish("event", topic, None, None)
    /\ UNCHANGED <<storeVars, registered, queue, call, post, serving, work, taken, lost>>

PublishReload ==
    /\ Load < MaxLoad
    /\ Publish("reload", None, None, None)
    /\ UNCHANGED <<storeVars, registered, queue, call, post, serving, work, taken, lost>>

\* bus_request, from a cycle of an agent, which waits for one answer at a time: the
\* future is registered under the request's id, the request itself carries no
\* correlation id.
Ask(r, from, to) ==
    /\ Load < MaxLoad
    /\ call[r] = "unused"
    /\ from \in registered
    /\ \A q \in Requests : ~(call[q] = "waiting" /\ post[q].from = from)
    /\ call' = [call EXCEPT ![r] = "waiting"]
    /\ post' = [post EXCEPT ![r] = [from |-> from, to |-> to]]
    /\ Publish("request", None, to, r)
    /\ UNCHANGED <<storeVars, registered, queue, serving, work, taken, lost>>

\* The timeout of bus_request.
GiveUp(r) ==
    /\ call[r] = "waiting"
    /\ call' = [call EXCEPT ![r] = "expired"]
    /\ UNCHANGED <<storeVars, registered, inbound, queue, post, serving, number, work,
                   taken, lost>>

-----------------------------------------------------------------------------
(* The dispatch loop *)

\* Mutant: the request carries its own id as correlation id.
ResolvesBoth(m) == m.kind \in {"answer", "request"} /\ call[m.about] = "waiting"

\* Mutant: a message with a target is delivered to it, whether a future waits or not.
ResolvesUntargeted(m) == m.kind = "answer" /\ m.to = None /\ call[m.about] = "waiting"

\* A message is consumed by the future that waits under its correlation id.
Resolves(m) == m.kind = "answer" /\ call[m.about] = "waiting"

\* Mutant: queues without a limit.
HasRoomAlways(m) == m \in registered

HasRoom(m) == m \in registered /\ Len(queue[m]) < Capacity

Dispatching(m) == inbound # <<>> /\ m = Head(inbound) /\ inbound' = Tail(inbound)

\* The reload shortcut.
DispatchReload(m) ==
    /\ Dispatching(m)
    /\ m.kind = "reload"
    /\ Reload
    /\ UNCHANGED <<registered, queue, call, post, serving, number, work, taken, lost>>

\* A future that is still waiting takes its answer; nobody else sees it.
Resolve(m) ==
    /\ Dispatching(m)
    /\ m.kind # "reload"
    /\ Resolves(m)
    /\ call' = [call EXCEPT ![m.about] = "answered"]
    /\ UNCHANGED <<storeVars, registered, queue, post, serving, number, work, taken, lost>>

\* A named target gets the message, or it is dropped.
Direct(m) ==
    /\ Dispatching(m)
    /\ m.kind # "reload"
    /\ ~Resolves(m)
    /\ m.to # None
    /\ queue' = IF HasRoom(m.to) THEN [queue EXCEPT ![m.to] = Append(@, m)] ELSE queue
    /\ IF m.kind = "request"
       THEN IF HasRoom(m.to)
            THEN work' = [work EXCEPT ![m.about] = "queued"] /\ UNCHANGED lost
            ELSE lost' = lost \cup {m.about} /\ UNCHANGED work
       ELSE UNCHANGED <<work, lost>>
    /\ UNCHANGED <<storeVars, registered, call, post, serving, number, taken>>

\* Mutant: one copy for each rule that names the member.
CopyPerRule(m, x) == (IF x \in table.designer[m.topic] THEN <<m>> ELSE <<>>)
                     \o (IF x = Notifier /\ m.topic \in table.service THEN <<m>> ELSE <<>>)

Copy(m, x) == IF x \in Targets(m.topic) THEN <<m>> ELSE <<>>

\* Everybody the rules name gets the message once, who has no room left goes without.
Route(m) ==
    /\ Dispatching(m)
    /\ m.kind # "reload"
    /\ ~Resolves(m)
    /\ m.to = None
    /\ queue' = [x \in Members |-> IF HasRoom(x) THEN queue[x] \o Copy(m, x) ELSE queue[x]]
    /\ UNCHANGED <<storeVars, registered, call, post, serving, number, work, taken, lost>>

Dispatch ==
    inbound # <<>> /\ LET m == Head(inbound)
                      IN DispatchReload(m) \/ Resolve(m) \/ Direct(m) \/ Route(m)

-----------------------------------------------------------------------------
(* The members *)

\* A service starts on a request; anything else its queue holds is ignored.  Agents
\* and the notification service take what comes.
Take(x) ==
    /\ x \in registered
    /\ queue[x] # <<>>
    /\ serving[x] = {} \/ x \in Concurrent
    /\ LET m == Head(queue[x]) IN
       /\ IF m.kind = "request"
          THEN /\ serving' = [serving EXCEPT ![x] = @ \cup {m.about}]
               /\ work' = [work EXCEPT ![m.about] = "running"]
          ELSE UNCHANGED <<serving, work>>
       /\ taken' = [taken EXCEPT ![x] = m.n]
    /\ queue' = [queue EXCEPT ![x] = Tail(@)]
    /\ UNCHANGED <<storeVars, registered, inbound, call, post, number, lost>>

\* Mutant: a cancelled call of the model ends without an answer.
ReplyOrNot(x, r) ==
    /\ r \in serving[x]
    /\ serving' = [serving EXCEPT ![x] = @ \ {r}]
    /\ \/ /\ work' = [work EXCEPT ![r] = "answered"]
          /\ Publish("answer", None, post[r].from, r)
       \/ /\ work' = [work EXCEPT ![r] = "silent"]
          /\ UNCHANGED <<number, inbound>>
    /\ UNCHANGED <<storeVars, registered, queue, call, post, taken, lost>>

\* Whatever comes of it, success, error or cancellation, is sent to whoever asked,
\* with the id of the request as correlation id.
Reply(x, r) ==
    /\ r \in serving[x]
    /\ serving' = [serving EXCEPT ![x] = @ \ {r}]
    /\ work' = [work EXCEPT ![r] = "answered"]
    /\ Publish("answer", None, post[r].from, r)
    /\ UNCHANGED <<storeVars, registered, queue, call, post, taken, lost>>

\* A configuration save stops an agent: its loops are cancelled, the futures they
\* wait on with them, and its queue goes.
Unregister(a) ==
    /\ a \in registered
    /\ registered' = registered \ {a}
    /\ queue' = [queue EXCEPT ![a] = <<>>]
    /\ call' = [r \in Requests |-> IF call[r] = "waiting" /\ post[r].from = a
                                  THEN "expired" ELSE call[r]]
    /\ UNCHANGED <<storeVars, inbound, post, serving, number, work, taken, lost>>

\* Another save starts it again, under the same name and with an empty queue.
Register(a) ==
    /\ a \notin registered
    /\ registered' = registered \cup {a}
    /\ UNCHANGED <<storeVars, inbound, queue, call, post, serving, number, work, taken, lost>>

-----------------------------------------------------------------------------
BusNext ==
    \/ \E topic \in Topics : PublishEvent(topic)
    \/ PublishReload
    \/ \E r \in Requests, a \in Agents, x \in Servers : Ask(r, a, x)
    \/ \E r \in Requests : GiveUp(r) \/ \E x \in Servers : Reply(x, r)
    \/ Dispatch
    \/ \E x \in Members : Take(x)
    \/ \E a \in Agents : Unregister(a) \/ Register(a)

StoreStep == UNCHANGED busVars /\ StoreNext /\ Load' <= MaxLoad

Next == BusNext \/ StoreStep

Spec == Init /\ [][Next]_vars

-----------------------------------------------------------------------------
\* What a member gets comes in the order of publication, and nothing twice: a queue
\* holds only younger messages than the last one taken, each older than the next,
\* and what is still to be dispatched is younger than all of them.
InOrder ==
    /\ \A x \in Members : \A i \in 1..Len(queue[x]) :
          /\ queue[x][i].n > taken[x]
          /\ \A j \in 1..(i - 1) : queue[x][j].n < queue[x][i].n
          /\ \A k \in 1..Len(inbound) : queue[x][i].n < inbound[k].n
    /\ \A k \in 1..Len(inbound) : \A l \in 1..(k - 1) : inbound[l].n < inbound[k].n

\* An answer that comes too late is delivered as an ordinary message, to nobody but
\* the member that has given up the call; an answer that is still waited for is
\* never put into a queue.
LateAnswersGoHome ==
    \A x \in Members : \A i \in 1..Len(queue[x]) :
        queue[x][i].kind = "answer" =>
            /\ post[queue[x][i].about].from = x
            /\ call[queue[x][i].about] = "expired"

\* Whoever waits for an answer does not wait in vain, unless the request found no
\* room: the request is on its way, being worked on, or answered, and the answer on
\* its way back ("so no request is ever left without an answer").
WaitsForSomething ==
    \A r \in Requests : call[r] = "waiting" =>
        \/ r \in lost
        \/ \E k \in 1..Len(inbound) : inbound[k].about = r
        \/ \E i \in 1..Len(queue[post[r].to]) : queue[post[r].to][i].about = r
        \/ r \in serving[post[r].to]

\* A call of bus_request lives as the abstract call does: asked, worked on at most
\* once, and ended once, with the answer to this very request or without one.
Calls == INSTANCE QueryService WITH Queries <- Requests

ServesCalls == Calls!Spec
=============================================================================
