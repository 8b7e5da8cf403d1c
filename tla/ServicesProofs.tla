--------------------------- MODULE ServicesProofs ---------------------------
(***************************************************************************)
(* Theorems about the services that share no state: the approval of tool   *)
(* calls, the watch for stale agents, the notifications and the log of     *)
(* events, and, with the theorems of CandleProofs and ToolsProofs, about   *)
(* all that run beside each other.                                         *)
(***************************************************************************)
EXTENDS MCServices, CandleProofs, ToolsProofs

-----------------------------------------------------------------------------
(* Tool calls.                                                             *)

\* A wait is for a call that a supervisor was asked about, and it counts as approved only
\* when its own call was.
WaitsOwn ==
    \A d \in Dispatchers : waitsFor[d] # NoCall =>
        /\ mode[waitsFor[d].call] = "supervisor"
        /\ waitsFor[d].state = "approved" => waitsFor[d].call \in inTime

ToolInv == ToolTypeOK /\ WaitsOwn /\ RunsOnlyApproved

LEMMA ToolInvInit == ToolInit => ToolInv
  BY ToolApprovalAssumption DEF ToolInit, ToolInv, ToolTypeOK, WaitsOwn, RunsOnlyApproved

\* Every step of a tool call preserves the invariant.
LEMMA ToolInvStep == ToolInv /\ [ToolNext]_toolVars => ToolInv'
<1> SUFFICES ASSUME ToolInv, [ToolNext]_toolVars PROVE ToolInv'
  OBVIOUS
<1> USE ToolApprovalAssumption DEF ToolInv, ToolTypeOK, WaitsOwn, RunsOnlyApproved,
        Waits, Verdict, NoCall, Modes
<1>1. ASSUME NEW d \in Dispatchers, NEW k \in Calls, NEW m \in Modes, Execute(d, k, m)
      PROVE  ToolInv'
  <2>1. mode' = [mode EXCEPT ![k] = m] /\ mode[k] = "none"
    BY <1>1 DEF Execute
  <2>2. ToolTypeOK'
    BY <1>1 DEF Execute
  <2>3. RunsOnlyApproved'
    BY <1>1 DEF Execute
  <2>4. WaitsOwn'
    BY <1>1 DEF Execute
  <2> QED  BY <2>2, <2>3, <2>4
<1>2. ASSUME NEW k \in Calls, NEW approved \in BOOLEAN, Answers(k, approved)
      PROVE  ToolInv'
  BY <1>2 DEF Answers
<1>3. ASSUME NEW v \in Verdict, Dispatch(v) PROVE ToolInv'
  <2>1. CASE v.call \notin futures
    BY <1>3, <2>1 DEF Dispatch
  <2>2. CASE v.call \in futures
    <3>1. waitsFor' = [d \in Dispatchers |->
             IF ~Resolved(d, v) THEN waitsFor[d]
             ELSE [waitsFor[d] EXCEPT !.state = IF v.approved THEN "approved" ELSE "rejected"]]
      BY <1>3, <2>2 DEF Dispatch
    <3>2. inTime' = IF v.approved THEN inTime \cup {v.call} ELSE inTime
      BY <1>3, <2>2 DEF Dispatch
    <3>3. \A d \in Dispatchers : Resolved(d, v) =>
             /\ waitsFor[d] # NoCall /\ waitsFor[d].call = v.call
             /\ waitsFor'[d] \in Waits /\ waitsFor'[d].call = v.call
             /\ waitsFor'[d].state = "approved" => v.approved
      BY <3>1 DEF Resolved
    <3>4. \A d \in Dispatchers : ~Resolved(d, v) => waitsFor'[d] = waitsFor[d]
      BY <3>1
    <3>5. ToolTypeOK'
      BY <1>3, <3>1, <3>2, <3>3, <3>4 DEF Dispatch
    <3>6. WaitsOwn'
      BY <1>3, <3>2, <3>3, <3>4 DEF Dispatch
    <3>7. RunsOnlyApproved'
      BY <1>3, <3>2 DEF Dispatch
    <3> QED  BY <3>5, <3>6, <3>7
  <2> QED  BY <2>1, <2>2
<1>4. ASSUME NEW d \in Dispatchers, Resume(d) PROVE ToolInv'
  BY <1>4 DEF Resume
<1>5. ASSUME NEW d \in Dispatchers, Abandon(d) PROVE ToolInv'
  BY <1>5 DEF Abandon, TakenBack
<1>6. CASE UNCHANGED toolVars
  BY <1>6 DEF toolVars
<1> QED  BY <1>1, <1>2, <1>3, <1>4, <1>5, <1>6 DEF ToolNext

\* A tool that needs an approval runs only when its own request was approved in time,
\* for any number of agents, calls and answers.
THEOREM OnlyApprovedRun == ToolSpec => []RunsOnlyApproved
<1>1. ToolInv => RunsOnlyApproved
  BY DEF ToolInv
<1> QED  BY <1>1, ToolInvInit, ToolInvStep, PTL DEF ToolSpec

-----------------------------------------------------------------------------
(* Stale agents.                                                           *)

\* Whatever of the agent's triggers is pending has left a trace: its newest delivery waits
\* in the queue, is being prepared, or was lost since the agent last reacted.
PendingHasReason ==
    pending["trigger"] # NotPending =>
        \/ unseen
        \/ doing = "preparing" /\ taken = pending["trigger"]
        \/ \E i \in DOMAIN queue :
              queue[i].sort = "trigger" /\ queue[i].at = pending["trigger"]

\* After an alarm the agent stays reported until something happens or is delivered.
AlarmedIsReported ==
    alarmed => reported /\ Stale

HealthInv == HealthTypeOK /\ PendingHasReason /\ AlarmedIsReported

LEMMA HealthInvInit == HealthInit => HealthInv
<1> SUFFICES ASSUME HealthInit PROVE HealthInv
  OBVIOUS
<1> USE DEF HealthInit
<1>1. NothingPending \in [Sorts -> Times \cup {NotPending}]
      /\ NothingPending["trigger"] = NotPending
  BY DEF NothingPending, Sorts
<1>2. 0 \in Times /\ 0 \in 0..MaxArrivals /\ 0 \in Nat
  BY AgentHealthAssumption DEF Times
<1>3. <<>> \in Seq([sort: Sorts, at: Times])
  OBVIOUS
<1>4. HealthTypeOK
  BY <1>1, <1>2, <1>3 DEF HealthTypeOK
<1>5. PendingHasReason /\ AlarmedIsReported
  BY <1>1 DEF PendingHasReason, AlarmedIsReported
<1> QED  BY <1>4, <1>5 DEF HealthInv

\* Taking a message from the head leaves the others in the queue.
LEMMA TailKeeps ==
    ASSUME NEW S, NEW q \in Seq(S), q # <<>>, NEW i \in DOMAIN q
    PROVE  q[i] = Head(q) \/ \E j \in DOMAIN Tail(q) : Tail(q)[j] = q[i]
<1>1. CASE i = 1
  BY <1>1
<1>2. CASE i # 1
  <2>1. i - 1 \in DOMAIN Tail(q) /\ Tail(q)[i - 1] = q[i]
    BY <1>2
  <2> QED  BY <2>1
<1> QED  BY <1>1, <1>2

LEMMA TailTyped ==
    ASSUME NEW S, NEW q \in Seq(S), q # <<>> PROVE Tail(q) \in Seq(S) /\ Head(q) \in S
  OBVIOUS

LEMMA AppendKeeps ==
    ASSUME NEW S, NEW q \in Seq(S), NEW e \in S
    PROVE  /\ Append(q, e) \in Seq(S)
           /\ \A i \in DOMAIN q : i \in DOMAIN Append(q, e) /\ Append(q, e)[i] = q[i]
  OBVIOUS

\* Every step of the agent, of the monitoring bus and of the watch loop preserves it.
LEMMA HealthInvStep == HealthInv /\ [HealthNext]_healthVars => HealthInv'
<1> SUFFICES ASSUME HealthInv, [HealthNext]_healthVars PROVE HealthInv'
  OBVIOUS
<1> USE AgentHealthAssumption DEF HealthInv, HealthTypeOK, Sorts, Times, NotPending
<1>a. ASSUME Reacts, queue' \in Seq([sort: Sorts, at: Times]), taken' \in Times,
             doing' \in {"idle", "preparing", "thinking"}
      PROVE  HealthInv'
  BY <1>a DEF Reacts, Handled, NothingPending, PendingHasReason, AlarmedIsReported
<1>b. ASSUME pending' = pending, time' = time PROVE Stale <=> Stale'
  BY <1>b DEF Stale
<1>c. Stale \in BOOLEAN
  BY DEF Stale
<1>d. queue \in Seq([sort: Sorts, at: Times]) /\ <<>> \in Seq([sort: Sorts, at: Times])
  OBVIOUS
<1>e. ASSUME queue # <<>>
      PROVE  /\ Tail(queue) \in Seq([sort: Sorts, at: Times])
             /\ Head(queue) \in [sort: Sorts, at: Times]
  BY <1>d, <1>e, TailTyped
<1>f. ASSUME queue # <<>>, NEW i \in DOMAIN queue
      PROVE  queue[i] = Head(queue) \/ \E j \in DOMAIN Tail(queue) : Tail(queue)[j] = queue[i]
  BY <1>d, <1>f, TailKeeps
<1>1. CASE Ticks
  <2>1. HealthTypeOK'
    BY <1>1 DEF Ticks, agentVars
  <2>2. PendingHasReason'
    BY <1>1 DEF Ticks, agentVars, PendingHasReason
  <2>3. Stale => Stale'
    BY <1>1 DEF Ticks, Stale
  <2>4. alarmed' = alarmed /\ reported' = reported
    BY <1>1 DEF Ticks
  <2>5. AlarmedIsReported'
    BY <2>3, <2>4, Zenon DEF AlarmedIsReported
  <2> QED  BY <2>1, <2>2, <2>5
<1>2. ASSUME NEW sort \in Sorts, Delivered(sort) PROVE HealthInv'
  <2>1. pending' = [pending EXCEPT ![sort] = time] /\ alarmed' = FALSE
    BY <1>2 DEF Delivered
  <2>a. queue' \in Seq([sort: Sorts, at: Times])
    <3>1. [sort |-> sort, at |-> time] \in [sort: Sorts, at: Times]
      OBVIOUS
    <3>2. queue' = queue \/ queue' = Append(queue, [sort |-> sort, at |-> time])
      BY <1>2 DEF Delivered
    <3>3. Append(queue, [sort |-> sort, at |-> time]) \in Seq([sort: Sorts, at: Times])
      BY <1>d, <3>1, AppendKeeps
    <3> QED  BY <1>d, <3>2, <3>3
  <2>b. unseen' \in BOOLEAN
    BY <1>2 DEF Delivered
  <2>c. pending' \in [Sorts -> Times \cup {NotPending}]
    BY <2>1
  <2>2. HealthTypeOK'
    <3>1. time' = time /\ doing' = doing /\ taken' = taken /\ enabled' = enabled
          /\ reported' = reported /\ alarms' = alarms /\ arrivals' \in 0..MaxArrivals
      BY <1>2 DEF Delivered
    <3> QED  BY <2>1, <2>a, <2>b, <2>c, <3>1
  <2>3. AlarmedIsReported'
    BY <2>1 DEF AlarmedIsReported
  <2>4. PendingHasReason'
    <3>1. CASE sort = "reply"
      <4>1. pending'["trigger"] = pending["trigger"] /\ doing' = doing /\ taken' = taken
            /\ unseen' = unseen
        BY <1>2, <3>1 DEF Delivered
      <4>2. \A i \in DOMAIN queue : i \in DOMAIN queue' /\ queue'[i] = queue[i]
        <5>1. queue' = queue \/ queue' = Append(queue, [sort |-> sort, at |-> time])
          BY <1>2 DEF Delivered
        <5>2. [sort |-> sort, at |-> time] \in [sort: Sorts, at: Times]
          OBVIOUS
        <5>3. CASE queue' = queue
          BY <5>3
        <5>4. CASE queue' = Append(queue, [sort |-> sort, at |-> time])
          BY <1>d, <5>2, <5>4, AppendKeeps
        <5> QED  BY <5>1, <5>3, <5>4
      <4> QED  BY <4>1, <4>2 DEF PendingHasReason
    <3>2. CASE sort = "trigger" /\ Len(queue) < Room
      <4>1. queue' = Append(queue, [sort |-> sort, at |-> time])
        BY <1>2, <3>2 DEF Delivered
      <4>2. Len(queue) + 1 \in DOMAIN queue'
            /\ queue'[Len(queue) + 1] = [sort |-> sort, at |-> time]
        BY <4>1
      <4>3. pending'["trigger"] = time
        BY <2>1, <3>2
      <4> QED  BY <4>2, <4>3, <3>2 DEF PendingHasReason
    <3>3. CASE sort = "trigger" /\ ~(Len(queue) < Room)
      <4>1. unseen'
        BY <1>2, <3>3 DEF Delivered
      <4> QED  BY <4>1 DEF PendingHasReason
    <3> QED  BY <3>1, <3>2, <3>3
  <2> QED  BY <2>2, <2>3, <2>4
<1>3. CASE Skip
  BY <1>3, <1>a, TailTyped DEF Skip, TakeNext
<1>4. CASE Prepare
  <2>1. Head(queue).sort = "trigger" /\ queue # <<>> /\ queue' = Tail(queue)
        /\ doing = "idle" /\ doing' = "preparing" /\ taken' = Head(queue).at /\ Silent
    BY <1>4 DEF Prepare, TakeNext
  <2>2. HealthTypeOK'
    BY <2>1, <1>e DEF Silent
  <2>3. AlarmedIsReported'
    BY <2>1 DEF Silent, AlarmedIsReported, Stale
  <2>4. PendingHasReason'
    BY <2>1, <1>f DEF Silent, PendingHasReason
  <2> QED  BY <2>2, <2>3, <2>4
<1>5. CASE InputBuilt
  BY <1>5, <1>a DEF InputBuilt
<1>6. CASE EndUnnoticed
  BY <1>6 DEF EndUnnoticed, PendingHasReason, AlarmedIsReported, Stale
<1>7. CASE EndThinking
  BY <1>7 DEF EndThinking, Silent, PendingHasReason, AlarmedIsReported, Stale
<1>8. CASE TakeReply
  <2>1. Head(queue).sort = "reply" /\ queue # <<>> /\ queue' = Tail(queue)
        /\ doing' = doing /\ taken' = taken /\ Silent
    BY <1>8 DEF TakeReply, TakeNext
  <2>2. HealthTypeOK'
    BY <2>1, <1>e DEF Silent
  <2>3. AlarmedIsReported'
    BY <2>1 DEF Silent, AlarmedIsReported, Stale
  <2>4. PendingHasReason'
    BY <2>1, <1>f DEF Silent, PendingHasReason
  <2> QED  BY <2>2, <2>3, <2>4
<1>9. CASE Disable
  <2>1. pending' = pending /\ time' = time /\ reported' = reported /\ alarmed' = alarmed
    BY <1>9 DEF Disable
  <2>2. AlarmedIsReported'
    BY <2>1, <1>b, Zenon DEF AlarmedIsReported, HealthInv
  <2>3. unseen' \in BOOLEAN
    BY <1>9 DEF Disable
  <2>4. HealthTypeOK'
    BY <1>9, <1>d, <2>3 DEF Disable
  <2>5. PendingHasReason'
    BY <1>9 DEF Disable, PendingHasReason
  <2> QED  BY <2>2, <2>4, <2>5
<1>10. CASE Enable
  BY <1>10 DEF Enable, agentVars, PendingHasReason, AlarmedIsReported, Stale
<1>11. CASE Look
  <2>1. HealthTypeOK'
    <3>1. reported' \in BOOLEAN /\ alarmed' \in BOOLEAN
      BY <1>11, <1>c DEF Look
    <3>2. alarms' \in Nat
      BY <1>11 DEF Look
    <3> QED  BY <1>11, <3>1, <3>2 DEF Look, agentVars
  <2>2. pending' = pending /\ time' = time
    BY <1>11 DEF Look
  <2>3. reported' = Stale /\ (alarmed' => alarmed \/ Stale)
    BY <1>11 DEF Look
  <2>4. AlarmedIsReported'
    BY <2>2, <2>3, <1>b, Zenon DEF AlarmedIsReported, HealthInv
  <2>5. PendingHasReason'
    BY <1>11 DEF Look, agentVars, PendingHasReason
  <2> QED  BY <2>1, <2>4, <2>5
<1>12. CASE UNCHANGED healthVars
  BY <1>12 DEF healthVars, PendingHasReason, AlarmedIsReported, Stale
<1> QED  BY <1>1, <1>2, <1>3, <1>4, <1>5, <1>6, <1>7, <1>8, <1>9, <1>10, <1>11, <1>12
         DEF HealthNext

\* An alarm about an agent is founded, and it is not repeated without something new.
THEOREM AlarmsAreFounded == HealthSpec => AlarmIsFounded
<1>1. HealthInv /\ [HealthNext]_healthVars =>
        [alarms' # alarms =>
          /\ ~alarmed
          /\ \/ unseen
             \/ doing = "preparing" /\ time - taken > Grace
             \/ \E i \in DOMAIN queue :
                   queue[i].sort = "trigger" /\ time - queue[i].at > Grace]_healthVars
  <2> SUFFICES ASSUME HealthInv, HealthNext, alarms' # alarms
               PROVE  /\ ~alarmed
                      /\ \/ unseen
                         \/ doing = "preparing" /\ time - taken > Grace
                         \/ \E i \in DOMAIN queue :
                               queue[i].sort = "trigger" /\ time - queue[i].at > Grace
    OBVIOUS
  <2>1. Look
    BY DEF HealthNext, Ticks, Delivered, Skip, Prepare, InputBuilt, EndUnnoticed,
           EndThinking, TakeReply, Disable, Enable, Reacts, Silent
  <2>2. Stale /\ ~reported
    BY <2>1 DEF Look, News
  <2> QED  BY <2>2 DEF HealthInv, PendingHasReason, AlarmedIsReported, Stale
<1> QED  BY <1>1, HealthInvInit, HealthInvStep, PTL DEF HealthSpec, AlarmIsFounded

-----------------------------------------------------------------------------
(* Notifications.                                                          *)

PostRecords == [kind: Kinds, notice: BOOLEAN, repeats: Nat, at: Nat]

\* What the counting of repeated messages looks at.
CountTypes ==
    /\ clock \in Nat
    /\ alerts \in Seq(Keys)
    /\ recent \in [Keys -> [at: Nat, suppressed: Nat]]
    /\ posting \in [Callers -> PostRecords \cup {Nothing}]
    /\ owed \in [Keys -> Int]

\* The management API posts test messages only, and the loop, which handles one message
\* after the other, posts one that names what was suppressed of its key.
PostsOfTheirOwn ==
    /\ posting["api"].kind \notin Keys
    /\ posting["loop"].kind \in Keys =>
          posting["loop"].repeats = recent[posting["loop"].kind].suppressed

InProgress == [k \in Keys |-> IF posting["loop"].kind = k THEN 1 ELSE 0]
AllTold == \A k \in Keys : owed[k] = recent[k].suppressed + InProgress[k]

CountInv == CountTypes /\ PostsOfTheirOwn /\ AllTold

LEMMA CountInvInit == AlertInit => CountInv
<1> SUFFICES ASSUME AlertInit PROVE CountInv
  OBVIOUS
<1> USE DEF AlertInit
<1>1. 0 \in Nat /\ Never \in Nat /\ <<>> \in Seq(Keys)
  BY AlertingAssumption DEF Never
<1>2. Nothing.kind = "none" /\ "none" \notin Keys
  BY DEF Nothing, Keys, Words
<1>3. CountTypes
  BY <1>1 DEF CountTypes
<1>4. posting["api"].kind = "none" /\ posting["loop"].kind = "none"
  BY <1>2 DEF Callers
<1>5. PostsOfTheirOwn
  BY <1>2, <1>4 DEF PostsOfTheirOwn
<1>6. AllTold
  BY <1>2, <1>4 DEF AllTold, InProgress
<1> QED  BY <1>3, <1>5, <1>6 DEF CountInv

\* The messages of a key that are posted are those of the loop, of which there is one.
LEMMA OnePost ==
    ASSUME posting["api"].kind \notin Keys, NEW k \in Keys
    PROVE  Cardinality({c \in Callers : posting[c].kind = k}) = InProgress[k]
<1>1. CASE posting["loop"].kind = k
  <2>1. {c \in Callers : posting[c].kind = k} = {"loop"}
    BY <1>1 DEF Callers
  <2> QED  BY <1>1, <2>1, FS_Singleton DEF InProgress
<1>2. CASE posting["loop"].kind # k
  <2>1. {c \in Callers : posting[c].kind = k} = {}
    BY <1>2 DEF Callers
  <2> QED  BY <1>2, <2>1, FS_EmptySet DEF InProgress
<1> QED  BY <1>1, <1>2

LEMMA CountOneMore ==
    ASSUME NEW r \in [at: Nat, suppressed: Nat]
    PROVE  [r EXCEPT !.suppressed = @ + 1] = [at |-> r.at, suppressed |-> r.suppressed + 1]
  OBVIOUS

\* notify() keeps count, for the loop and for the management API.
LEMMA NotifyCounts ==
    ASSUME CountInv, NEW c \in Callers, NEW topic \in Kinds, Notify(c, topic),
           posting[c] = Nothing, clock' = clock, alerts' \in Seq(Keys),
           c = "api" => topic \notin Keys, c = "loop" => topic \in Keys
    PROVE  CountInv'
<1> USE DEF CountInv, CountTypes, PostsOfTheirOwn, AllTold, InProgress
<1>1. Nothing.kind \notin Keys
  BY DEF Nothing, Keys, Words
<1>2. CASE Suppress(topic)
  <2>1. topic \in Keys /\ posting' = posting /\ c = "loop"
    BY <1>2 DEF Suppress, Repeated, Callers
  <2>2. recent' = [recent EXCEPT ![topic].suppressed = @ + 1]
    BY <1>2 DEF Suppress
  <2>3. owed' = [owed EXCEPT ![topic] = @ + 1]
    BY <1>2, <2>1 DEF Suppress, Owe
  <2>4. /\ recent' \in [Keys -> [at: Nat, suppressed: Nat]]
        /\ \A k \in Keys : recent'[k].suppressed =
              IF k = topic THEN recent[k].suppressed + 1 ELSE recent[k].suppressed
    <3>1. recent[topic] \in [at: Nat, suppressed: Nat]
      BY <2>1
    <3>2. [recent[topic] EXCEPT !.suppressed = @ + 1]
             = [at |-> recent[topic].at, suppressed |-> recent[topic].suppressed + 1]
      BY <3>1, CountOneMore
    <3>3. recent' = [recent EXCEPT ![topic] =
             [at |-> recent[topic].at, suppressed |-> recent[topic].suppressed + 1]]
      BY <2>2, <3>2
    <3> QED  BY <2>1, <3>1, <3>3
  <2>5. owed' \in [Keys -> Int]
        /\ \A k \in Keys : owed'[k] = IF k = topic THEN owed[k] + 1 ELSE owed[k]
    BY <2>1, <2>3
  <2>6. CountTypes'
    BY <2>1, <2>4, <2>5
  <2>7. PostsOfTheirOwn'
    BY <1>1, <2>1
  <2>8. AllTold'
    <3> SUFFICES ASSUME NEW k \in Keys
                 PROVE  owed'[k] = recent'[k].suppressed + InProgress'[k]
      OBVIOUS
    <3>1. InProgress'[k] = InProgress[k] /\ InProgress[k] \in Nat
      BY <2>1
    <3>2. owed[k] = recent[k].suppressed + InProgress[k]
      OBVIOUS
    <3>3. owed[k] \in Int /\ recent[k].suppressed \in Nat
      OBVIOUS
    <3> HIDE DEF CountInv, CountTypes, PostsOfTheirOwn, AllTold, InProgress
    <3>4. CASE k = topic
      <4>1. owed'[k] = owed[k] + 1 /\ recent'[k].suppressed = recent[k].suppressed + 1
        BY <2>4, <2>5, <3>4
      <4> QED  BY <3>1, <3>2, <3>3, <4>1
    <3>5. CASE k # topic
      <4>1. owed'[k] = owed[k] /\ recent'[k].suppressed = recent[k].suppressed
        BY <2>4, <2>5, <3>5
      <4> QED  BY <3>1, <3>2, <4>1
    <3> QED  BY <3>4, <3>5
  <2> QED  BY <2>6, <2>7, <2>8
<1>3. CASE GiveUp(topic)
  BY <1>3 DEF GiveUp
<1>4. CASE Post(c, topic)
  <2> DEFINE post == [kind |-> topic, notice |-> ~WithinLimit, at |-> clock,
                      repeats |-> IF topic \in Keys THEN recent[topic].suppressed ELSE 0]
  <2>1. posting' = [posting EXCEPT ![c] = post] /\ recent' = recent
    BY <1>4 DEF Post
  <2>2. WithinLimit \in BOOLEAN
    BY DEF WithinLimit
  <2>3. post \in PostRecords
    BY <2>2 DEF PostRecords
  <2>4. owed' = IF topic \in Keys THEN [owed EXCEPT ![topic] = @ + 1] ELSE owed
    BY <1>4 DEF Post, Owe
  <2>5. post.kind = topic /\ (topic \in Keys => post.repeats = recent[topic].suppressed)
    OBVIOUS
  <2> HIDE DEF post
  <2>6. CountTypes'
    BY <2>1, <2>3, <2>4
  <2>7. PostsOfTheirOwn'
    BY <2>1, <2>5 DEF Callers
  <2>8. AllTold'
    BY <1>1, <2>1, <2>4, <2>5 DEF Callers
  <2> QED  BY <2>6, <2>7, <2>8
<1> QED  BY <1>2, <1>3, <1>4 DEF Notify

\* The end of a post keeps count, too.
LEMMA PostEndCounts ==
    ASSUME CountInv, NEW c \in Callers, Arrives(c) \/ PostFails(c)
    PROVE  CountInv'
<1> USE DEF CountInv, CountTypes, PostsOfTheirOwn, AllTold, InProgress
<1> DEFINE post == posting[c]
<1>1. Nothing.kind \notin Keys /\ Nothing \in {Nothing}
  BY DEF Nothing, Keys, Words
<1>2. post \in PostRecords /\ posting' = [posting EXCEPT ![c] = Nothing]
      /\ clock' = clock /\ alerts' = alerts
  <2>1. post \in PostRecords \cup {Nothing} /\ post # Nothing
    BY DEF Arrives, PostFails
  <2>2. posting' = [posting EXCEPT ![c] = Nothing] /\ clock' = clock /\ alerts' = alerts
    BY DEF Arrives, PostFails
  <2> QED  BY <2>1, <2>2
<1>3. post.kind \in Keys => c = "loop" /\ post.repeats = recent[post.kind].suppressed
  BY DEF Callers
<1>4. c = "loop" => posting'["loop"] = Nothing /\ posting'["api"] = posting["api"]
  BY <1>2 DEF Callers
<1>5. c = "api" => posting'["api"] = Nothing /\ posting'["loop"] = posting["loop"]
  BY <1>2 DEF Callers
<1>6. post.at \in Nat /\ post.repeats \in Nat
  BY <1>2 DEF PostRecords
<1>7. CASE Arrives(c) /\ post.kind \in Keys
  <2>1. recent' = [recent EXCEPT ![post.kind] = [at |-> post.at, suppressed |-> 0]]
    BY <1>7 DEF Arrives, Marked
  <2>2. owed' = [owed EXCEPT ![post.kind] = @ + (-1 - post.repeats)]
    BY <1>7 DEF Arrives, Owe
  <2>3. CountTypes'
    BY <1>2, <1>6, <1>7, <2>1, <2>2
  <2>4. PostsOfTheirOwn'
    BY <1>1, <1>3, <1>4, <1>7
  <2>5. AllTold'
    <3>1. c = "loop" /\ post.repeats = recent[post.kind].suppressed
      BY <1>3, <1>7
    <3>2. \A k \in Keys : InProgress[k] = (IF post.kind = k THEN 1 ELSE 0)
                          /\ InProgress'[k] = 0
      BY <1>1, <1>4, <3>1
    <3>3. recent'[post.kind].suppressed = 0
          /\ \A k \in Keys : k # post.kind => recent'[k] = recent[k]
      BY <1>7, <2>1
    <3>4. owed'[post.kind] = owed[post.kind] + (-1 - post.repeats)
          /\ \A k \in Keys : k # post.kind => owed'[k] = owed[k]
      BY <1>7, <2>2
    <3>5. \A k \in Keys : owed[k] = recent[k].suppressed + InProgress[k]
      OBVIOUS
    <3>6. recent[post.kind].suppressed \in Nat
      BY <1>7
    <3> HIDE DEF CountInv, CountTypes, PostsOfTheirOwn, InProgress, post
    <3>7. owed'[post.kind] = recent'[post.kind].suppressed + InProgress'[post.kind]
      BY <1>7, <3>1, <3>2, <3>3, <3>4, <3>5, <3>6
    <3>8. \A k \in Keys : k # post.kind => owed'[k] = recent'[k].suppressed + InProgress'[k]
      BY <3>2, <3>3, <3>4, <3>5
    <3> QED  BY <3>7, <3>8
  <2> QED  BY <2>3, <2>4, <2>5
<1>8. CASE PostFails(c) /\ post.kind \in Keys
  <2>1. recent' = recent /\ owed' = [owed EXCEPT ![post.kind] = @ + -1]
    BY <1>8 DEF PostFails, Owe
  <2>2. CountTypes'
    BY <1>2, <1>8, <2>1
  <2>3. PostsOfTheirOwn'
    BY <1>1, <1>3, <1>4, <1>8
  <2>4. AllTold'
    BY <1>1, <1>3, <1>4, <1>8, <2>1
  <2> QED  BY <2>2, <2>3, <2>4
<1>9. CASE post.kind \notin Keys
  <2>1. recent' = recent /\ owed' = owed
    BY <1>9 DEF Arrives, PostFails, Marked, Owe
  <2>2. posting["loop"].kind \notin Keys => posting'["loop"].kind \notin Keys
    BY <1>1, <1>4, <1>5 DEF Callers
  <2>3. posting["loop"].kind \in Keys => posting'["loop"] = posting["loop"]
    BY <1>5, <1>9 DEF Callers
  <2>4. posting'["api"].kind \notin Keys
    BY <1>1, <1>4, <1>5 DEF Callers
  <2>5. CountTypes'
    BY <1>2, <2>1
  <2>6. PostsOfTheirOwn' /\ AllTold'
    BY <2>1, <2>2, <2>3, <2>4
  <2> QED  BY <2>5, <2>6
<1> QED  BY <1>7, <1>8, <1>9

LEMMA CountInvStep == CountInv /\ [AlertNext]_alertVars => CountInv'
<1> SUFFICES ASSUME CountInv, [AlertNext]_alertVars PROVE CountInv'
  OBVIOUS
<1> USE DEF CountInv, CountTypes, PostsOfTheirOwn, AllTold, InProgress
<1>a. ASSUME UNCHANGED <<recent, posting, owed>>, clock' \in Nat, alerts' \in Seq(Keys)
      PROVE  CountInv'
  BY <1>a
<1>b. ASSUME NEW k \in Keys PROVE Append(alerts, k) \in Seq(Keys)
  BY AppendKeeps
<1>c. "up" \in Keys /\ "down" \in Keys /\ "other" \in Keys
  BY DEF Keys, Words
<1>1. CASE TimePasses
  <2>1. clock' \in Nat /\ alerts' = alerts
    BY <1>1 DEF TimePasses
  <2> QED  BY <1>1, <1>a, <2>1 DEF TimePasses
<1>2. CASE PollSucceeds
  <2>1. alerts' \in Seq(Keys)
    BY <1>2, <1>b, <1>c DEF PollSucceeds, RaiseIf, Raise
  <2> QED  BY <1>2, <1>a, <2>1 DEF PollSucceeds
<1>3. CASE PollFails
  <2>1. alerts' \in Seq(Keys)
    BY <1>3, <1>b, <1>c DEF PollFails, RaiseIf, Raise
  <2> QED  BY <1>3, <1>a, <2>1 DEF PollFails
<1>4. CASE AgentAsks
  <2>1. alerts' \in Seq(Keys)
    BY <1>4, <1>b, <1>c DEF AgentAsks, Raise
  <2> QED  BY <1>4, <1>a, <2>1 DEF AgentAsks
<1>5. CASE Handle
  <2>1. Head(alerts) \in Keys /\ Tail(alerts) \in Seq(Keys)
    BY <1>5, TailTyped DEF Handle
  <2>2. Head(alerts) \in Kinds /\ "loop" \in Callers /\ "loop" # "api"
    BY <2>1 DEF Kinds, Callers
  <2> QED  BY <1>5, <2>1, <2>2, NotifyCounts DEF Handle
<1>6. CASE SendTest
  <2>1. "test" \in Kinds /\ "test" \notin Keys /\ "api" \in Callers /\ "api" # "loop"
    BY DEF Kinds, Keys, Words, Callers
  <2> QED  BY <1>6, <2>1, NotifyCounts DEF SendTest
<1>7. ASSUME NEW c \in Callers, Arrives(c) \/ PostFails(c) PROVE CountInv'
  BY <1>7, PostEndCounts
<1>8. CASE UNCHANGED alertVars
  BY <1>8 DEF alertVars
<1> QED  BY <1>1, <1>2, <1>3, <1>4, <1>5, <1>6, <1>7, <1>8 DEF AlertNext

\* A repeated message is never lost silently, whatever the cap, the window and the
\* number of messages.
THEOREM NothingSuppressedIsLost == AlertSpec => []SuppressedAreTold
<1>1. CountInv => SuppressedAreTold
  BY OnePost DEF CountInv, PostsOfTheirOwn, AllTold, SuppressedAreTold
<1> QED  BY <1>1, CountInvInit, CountInvStep, PTL DEF AlertSpec

-----------------------------------------------------------------------------
(* The cap on messages.                                                    *)

\* The times of the messages that arrived, and of those the service still counts.
CapTypes == phone \in Seq(Nat) /\ sent \in Seq(Nat) /\ capTold \in BOOLEAN

\* Nothing is dated in the future.
NoneAhead ==
    /\ \A i \in DOMAIN phone : phone[i] <= clock
    /\ \A c \in Callers : posting[c] # Nothing => posting[c].at <= clock

\* What the service counts are the last messages that arrived; those it forgot are more
\* than an hour old.
SentIsTail ==
    LET past == Len(phone) - Len(sent)
    IN /\ past \in Nat
       /\ \A i \in DOMAIN sent : sent[i] = phone[past + i]
       /\ \A i \in 1..past : clock - phone[i] > Hour

\* Of the messages of the hour from t: those that arrived, and those being posted.
ArrivedIn(ph, t) == {i \in DOMAIN ph : ph[i] \in t..(t + Hour)}
PostsOnTheWay(ps, t) == {c \in Callers : ps[c] # Nothing /\ ps[c].at \in t..(t + Hour)}
Used(t) == Cardinality(ArrivedIn(phone, t)) + Cardinality(PostsOnTheWay(posting, t))

\* An hour, its posts in progress included, exceeds the cap by the other caller's message
\* and, once the notice was sent, by the notice.
HoursHold ==
    \A t \in Nat :
        /\ Used(t) <= Cap + 2
        /\ ~capTold /\ clock <= t + Hour => Used(t) <= Cap + 1

CapInv == CountInv /\ CapTypes /\ NoneAhead /\ SentIsTail /\ HoursHold

\* Forgetting what is more than an hour old cuts off a part at the front.
LEMMA SuffixOf ==
    ASSUME NEW S, NEW s \in Seq(S), NEW c \in 1..(Len(s) + 1)
    PROVE  LET rest == SubSeq(s, c, Len(s))
           IN /\ rest \in Seq(S) /\ Len(rest) = Len(s) + 1 - c
              /\ \A i \in 1..Len(rest) : rest[i] = s[c - 1 + i] /\ c - 1 + i \in 1..Len(s)
<1>1. Len(s) \in Nat
  OBVIOUS
<1>2. SubSeq(s, c, Len(s)) \in Seq(S) /\ Len(SubSeq(s, c, Len(s))) = Len(s) + 1 - c
  BY <1>1
<1>3. ASSUME NEW i \in 1..(Len(s) + 1 - c)
      PROVE  SubSeq(s, c, Len(s))[i] = s[c - 1 + i] /\ c - 1 + i \in 1..Len(s)
  BY <1>1
<1> QED  BY <1>2, <1>3

LEMMA IndexBack ==
    ASSUME NEW n \in Nat, NEW past \in Nat, NEW c \in 1..(n + 1), NEW i \in Nat,
           past < i, i < past + c
    PROVE  i - past \in 1..(c - 1) /\ i - past \in 1..n
OBVIOUS

\* Forgetting what is more than an hour old cuts off a part at the front.
LEMMA CountedIsTail ==
    ASSUME sent \in Seq(Nat), clock \in Nat
    PROVE  \E c \in 1..(Len(sent) + 1) :
              /\ Counted = SubSeq(sent, c, Len(sent))
              /\ \A i \in 1..(c - 1) : clock - sent[i] > Hour
<1> DEFINE old == {n \in 0..Len(sent) : \A i \in 1..n : clock - sent[i] > Hour}
<1> DEFINE c == Cardinality(old)
<1>1. Len(sent) \in Nat
  OBVIOUS
<1>2. IsFiniteSet(0..Len(sent)) /\ Cardinality(0..Len(sent)) = Len(sent) + 1
  BY <1>1, FS_Interval
<1>3. old \in SUBSET (0..Len(sent)) /\ {0} \in SUBSET old
  OBVIOUS
<1> HIDE DEF old
<1>4. IsFiniteSet(old) /\ c <= Len(sent) + 1
  BY <1>2, <1>3, FS_Subset
<1>5. c >= 1 /\ c \in Nat
  <2>1. Cardinality({0}) = 1
    BY FS_Singleton
  <2>2. Cardinality({0}) <= c
    BY <1>3, <1>4, FS_Subset
  <2>3. c \in Nat
    BY <1>4, FS_CardinalityType
  <2> QED  BY <2>1, <2>2, <2>3
<1>6. \A m, n \in Nat : n \in old /\ m <= n => m \in old
  BY <1>1 DEF old
<1>7. c - 1 \in old
  <2> SUFFICES ASSUME c - 1 \notin old PROVE FALSE
    OBVIOUS
  <2>1. old \in SUBSET (0..(c - 2))
    BY <1>1, <1>3, <1>5, <1>6
  <2> HIDE DEF c
  <2>2. c - 2 \in Int
    BY <1>5
  <2>3. IsFiniteSet(0..(c - 2))
        /\ Cardinality(0..(c - 2)) = IF 0 > c - 2 THEN 0 ELSE (c - 2) - 0 + 1
    <3>1. \A d \in Int : /\ IsFiniteSet(0..d)
                         /\ Cardinality(0..d) = IF 0 > d THEN 0 ELSE d - 0 + 1
      BY FS_Interval
    <3> QED  BY <2>2, <3>1, Zenon
  <2>4. c <= Cardinality(0..(c - 2))
    <3> DEFINE below == 0..(c - 2)
    <3>1. old \in SUBSET below /\ IsFiniteSet(below)
      BY <2>1, <2>3
    <3> HIDE DEF below
    <3>2. Cardinality(old) <= Cardinality(below)
      BY <3>1, FS_Subset
    <3> QED  BY <3>2 DEF below, c
  <2>5. Cardinality(0..(c - 2)) <= c - 1
    BY <1>5, <2>3
  <2> QED  BY <1>5, <2>3, <2>4, <2>5
<1>8. \A i \in 1..(c - 1) : clock - sent[i] > Hour
  BY <1>7 DEF old
<1>9. Counted = SubSeq(sent, c, Len(sent))
  BY DEF Counted, old
<1> HIDE DEF c
<1> QED  BY <1>1, <1>4, <1>5, <1>8, <1>9

LEMMA TwoCallers == IsFiniteSet(Callers) /\ Cardinality(Callers) = 2
<1>1. IsFiniteSet({"loop"}) /\ Cardinality({"loop"}) = 1
  BY FS_Singleton
<1>2. Callers = {"loop"} \cup {"api"} /\ "api" \notin {"loop"}
  BY DEF Callers
<1>3. IsFiniteSet({"loop"} \cup {"api"}) /\ Cardinality({"loop"} \cup {"api"}) = 1 + 1
  BY <1>1, <1>2, FS_AddElement
<1> QED  BY <1>2, <1>3

\* A finite number of messages.
LEMMA UsedTypes ==
    ASSUME phone \in Seq(Nat), NEW t \in Nat
    PROVE  /\ IsFiniteSet(ArrivedIn(phone, t)) /\ Cardinality(ArrivedIn(phone, t)) \in Nat
           /\ IsFiniteSet(PostsOnTheWay(posting, t)) /\ Cardinality(PostsOnTheWay(posting, t)) \in Nat
           /\ Cardinality(PostsOnTheWay(posting, t)) <= 2
<1>1. IsFiniteSet(Callers) /\ Cardinality(Callers) = 2
  BY TwoCallers
<1>2. PostsOnTheWay(posting, t) \in SUBSET Callers
  BY DEF PostsOnTheWay
<1>3. IsFiniteSet(1..Len(phone))
  BY FS_Interval
<1>4. ArrivedIn(phone, t) \in SUBSET (1..Len(phone))
  BY DEF ArrivedIn
<1> QED  BY <1>1, <1>2, <1>3, <1>4, FS_Subset, FS_CardinalityType

\* The messages that arrived in an hour that is not over are all counted.
LEMMA ArrivedAreCounted ==
    ASSUME CountInv, CapTypes, NoneAhead, SentIsTail, NEW t \in Nat, clock <= t + Hour
    PROVE  Cardinality(ArrivedIn(phone, t)) <= Len(Counted) /\ Len(Counted) \in Nat
<1> USE AlertingAssumption DEF CapTypes
<1>1. clock \in Nat
  BY DEF CountInv, CountTypes
<1>2. PICK c \in 1..(Len(sent) + 1) :
              /\ Counted = SubSeq(sent, c, Len(sent))
              /\ \A i \in 1..(c - 1) : clock - sent[i] > Hour
  BY <1>1, CountedIsTail
<1>3. Len(Counted) = Len(sent) + 1 - c
  BY <1>2
<1> DEFINE past == Len(phone) - Len(sent)
           first == past + c
<1>4. past \in Nat /\ first \in Nat /\ Len(phone) \in Nat
  BY DEF SentIsTail
<1>5. ASSUME NEW i \in DOMAIN phone, i < first PROVE clock - phone[i] > Hour
  <2>1. CASE i <= past
    BY <2>1 DEF SentIsTail
  <2>2. CASE i > past
    <3>1. i - past \in 1..(c - 1) /\ i - past \in DOMAIN sent
      <4>1. i \in Nat /\ Len(sent) \in Nat /\ DOMAIN sent = 1..Len(sent)
        OBVIOUS
      <4> HIDE DEF past
      <4> QED  BY <1>4, <1>5, <2>2, <4>1, IndexBack DEF first
    <3>2. sent[i - past] = phone[past + (i - past)]
      BY <3>1 DEF SentIsTail
    <3>3. past + (i - past) = i
      BY <1>4
    <3>4. clock - sent[i - past] > Hour
      BY <1>2, <3>1
    <3> QED  BY <3>2, <3>3, <3>4
  <2> QED  BY <1>4, <2>1, <2>2
<1>6. ArrivedIn(phone, t) \in SUBSET (first..Len(phone))
  <2> SUFFICES ASSUME NEW i \in ArrivedIn(phone, t) PROVE i \in first..Len(phone)
    OBVIOUS
  <2>1. i \in DOMAIN phone /\ t <= phone[i] /\ phone[i] \in Nat
    BY DEF ArrivedIn
  <2>2. ~(clock - phone[i] > Hour)
    BY <1>1, <2>1
  <2>3. ~(i < first)
    BY <1>5, <2>1, <2>2
  <2>4. Len(phone) \in Nat /\ i \in 1..Len(phone)
    BY <2>1
  <2> HIDE DEF first
  <2> QED  BY <1>4, <2>3, <2>4
<1>7. IsFiniteSet(first..Len(phone))
      /\ Cardinality(first..Len(phone)) =
            IF first > Len(phone) THEN 0 ELSE Len(phone) - first + 1
  <2>1. first \in Int /\ Len(phone) \in Int
    BY <1>4
  <2> HIDE DEF first
  <2> QED  BY <2>1, FS_Interval
<1>8. Cardinality(ArrivedIn(phone, t)) <= Cardinality(first..Len(phone))
  BY <1>6, <1>7, FS_Subset
<1>9. Cardinality(first..Len(phone)) <= Len(Counted)
  BY <1>3, <1>4, <1>7
<1>10. Cardinality(ArrivedIn(phone, t)) \in Nat
  BY UsedTypes
<1>11. Len(Counted) \in Nat
  BY <1>3
<1> HIDE DEF first
<1> QED  BY <1>4, <1>7, <1>8, <1>9, <1>10, <1>11

LEMMA CapInvInit == AlertInit => CapInv
<1> SUFFICES ASSUME AlertInit PROVE CapInv
  OBVIOUS
<1> USE AlertingAssumption DEF AlertInit
<1>1. CapTypes
  <2>1. <<>> \in Seq(Nat) /\ FALSE \in BOOLEAN
    OBVIOUS
  <2> QED  BY <2>1, Zenon DEF CapTypes
<1>a. NoneAhead
  BY DEF NoneAhead
<1>b. SentIsTail
  <2>1. Len(phone) = 0 /\ Len(sent) = 0 /\ DOMAIN sent = {} /\ Len(phone) - Len(sent) = 0
    OBVIOUS
  <2> QED  BY <2>1 DEF SentIsTail
<1>2. HoursHold
  <2> SUFFICES ASSUME NEW t \in Nat PROVE Used(t) = 0
    BY DEF HoursHold
  <2>1. ArrivedIn(phone, t) = {} /\ PostsOnTheWay(posting, t) = {}
    BY DEF ArrivedIn, PostsOnTheWay
  <2>2. Cardinality(ArrivedIn(phone, t)) = 0 /\ Cardinality(PostsOnTheWay(posting, t)) = 0
    BY <2>1, FS_EmptySet
  <2> QED  BY <2>2 DEF Used
<1> QED  BY <1>1, <1>a, <1>b, <1>2, CountInvInit DEF CapInv

\* The clock may advance while nothing is sent.
LEMMA WaitingCaps ==
    ASSUME CapInv, CountInv', clock' >= clock, UNCHANGED <<sent, capTold, posting, phone>>
    PROVE  CapInv'
<1> USE AlertingAssumption DEF CapInv
<1>1. clock \in Nat /\ clock' \in Nat
  BY DEF CountInv, CountTypes
<1>2. CapTypes'
  BY DEF CapTypes
<1>3. NoneAhead'
  <2>1. \A i \in DOMAIN phone : phone[i] \in Nat
    BY DEF CapTypes
  <2>2. \A c \in Callers : posting[c] # Nothing => posting[c].at \in Nat
    BY DEF CountInv, CountTypes, PostRecords
  <2> QED  BY <1>1, <2>1, <2>2 DEF NoneAhead
<1>4. SentIsTail'
  <2>1. \A i \in 1..(Len(phone) - Len(sent)) : phone[i] \in Nat
    BY DEF CapTypes, SentIsTail
  <2> QED  BY <1>1, <2>1 DEF SentIsTail
<1>5. HoursHold'
  <2>1. \A t : Used(t)' = Used(t)
    BY DEF Used, ArrivedIn, PostsOnTheWay
  <2>2. \A t \in Nat : clock' <= t + Hour => clock <= t + Hour
    BY <1>1
  <2> HIDE DEF Used
  <2> QED  BY <2>1, <2>2 DEF HoursHold
<1> QED  BY <1>2, <1>3, <1>4, <1>5

\* Forgetting keeps the end of what arrived.
LEMMA CountedKeepsTail ==
    ASSUME CapInv, phone' = phone, clock' = clock, sent' = Counted
    PROVE  sent' \in Seq(Nat) /\ SentIsTail'
<1> USE DEF CapInv, CapTypes
<1>1. clock \in Nat
  BY DEF CountInv, CountTypes
<1>2. PICK c \in 1..(Len(sent) + 1) :
              /\ Counted = SubSeq(sent, c, Len(sent))
              /\ \A i \in 1..(c - 1) : clock - sent[i] > Hour
  BY <1>1, CountedIsTail
<1>3. /\ sent' \in Seq(Nat) /\ Len(sent') = Len(sent) + 1 - c
      /\ \A i \in DOMAIN sent' : sent'[i] = sent[c - 1 + i] /\ c - 1 + i \in DOMAIN sent
  <2>1. DOMAIN sent = 1..Len(sent) /\ sent' = SubSeq(sent, c, Len(sent))
    BY <1>2
  <2>2. sent' \in Seq(Nat)
    BY <2>1, SuffixOf
  <2>3. DOMAIN sent' = 1..Len(sent')
    BY <2>2
  <2>4. Len(sent') = Len(sent) + 1 - c
        /\ \A i \in 1..Len(sent') : sent'[i] = sent[c - 1 + i] /\ c - 1 + i \in 1..Len(sent)
    BY <2>1, SuffixOf
  <2> QED  BY <2>1, <2>2, <2>3, <2>4
<1> DEFINE past == Len(phone) - Len(sent)
<1>4. past \in Nat /\ Len(phone') - Len(sent') = past + (c - 1) /\ Len(phone) \in Nat
  BY <1>3 DEF SentIsTail
<1>5. \A i \in DOMAIN sent' : sent'[i] = phone'[past + (c - 1) + i]
  <2> SUFFICES ASSUME NEW i \in DOMAIN sent'
               PROVE  sent'[i] = phone'[past + (c - 1) + i]
    OBVIOUS
  <2>1. sent'[i] = sent[c - 1 + i] /\ c - 1 + i \in DOMAIN sent
    BY <1>3
  <2>2. sent[c - 1 + i] = phone[past + (c - 1 + i)]
    BY <2>1 DEF SentIsTail
  <2>3. i \in Nat /\ past \in Nat /\ c \in Nat
    <3>1. Len(sent') \in Nat /\ DOMAIN sent' = 1..Len(sent')
      BY <1>3
    <3> QED  BY <1>4, <3>1
  <2> HIDE DEF past
  <2>4. past + (c - 1 + i) = past + (c - 1) + i
    BY <2>3
  <2> QED  BY <2>1, <2>2, <2>4 DEF past
<1>6. \A i \in 1..(past + (c - 1)) : clock' - phone'[i] > Hour
  <2> SUFFICES ASSUME NEW i \in 1..(past + (c - 1)) PROVE clock - phone[i] > Hour
    OBVIOUS
  <2>1. CASE i <= past
    BY <2>1 DEF SentIsTail
  <2>2. CASE i > past
    <3>1. i - past \in 1..(c - 1) /\ i - past \in DOMAIN sent
      <4>1. i \in Nat /\ i < past + c /\ Len(sent) \in Nat /\ DOMAIN sent = 1..Len(sent)
        BY <1>4
      <4> HIDE DEF past
      <4> QED  BY <1>4, <2>2, <4>1, IndexBack
    <3>2. sent[i - past] = phone[past + (i - past)]
      BY <3>1 DEF SentIsTail
    <3>3. past + (i - past) = i
      BY <1>4
    <3>4. clock - sent[i - past] > Hour
      BY <1>2, <3>1
    <3> QED  BY <3>2, <3>3, <3>4
  <2> QED  BY <1>4, <2>1, <2>2
<1>7. past + (c - 1) \in Nat
  BY <1>4
<1> HIDE DEF past
<1> QED  BY <1>3, <1>4, <1>5, <1>6, <1>7 DEF SentIsTail

\* notify() posts within the cap, or the notice, which is the only one beyond it.
LEMMA NotifyCaps ==
    ASSUME CapInv, CountInv', NEW c \in Callers, NEW topic, Notify(c, topic),
           posting[c] = Nothing, clock' = clock, phone' = phone
    PROVE  CapInv'
<1> USE AlertingAssumption
<1>0. CountInv /\ CapTypes /\ NoneAhead /\ SentIsTail /\ HoursHold /\ clock \in Nat
      /\ phone \in Seq(Nat)
  BY DEF CapInv, CountInv, CountTypes, CapTypes
<1>1. CASE Suppress(topic)
  BY <1>0, <1>1, WaitingCaps DEF Suppress
<1>2. CASE GiveUp(topic)
  <2>1. posting' = posting /\ capTold' = capTold /\ sent' = Counted
    BY <1>2 DEF GiveUp
  <2>2. CapTypes' /\ SentIsTail'
    BY <1>0, <2>1, CountedKeepsTail DEF CapTypes
  <2>3. NoneAhead'
    BY <1>0, <2>1 DEF NoneAhead
  <2>4. HoursHold'
    BY <1>0, <2>1 DEF HoursHold, Used, ArrivedIn, PostsOnTheWay
  <2> QED  BY <2>2, <2>3, <2>4 DEF CapInv
<1>3. CASE Post(c, topic)
  <2> DEFINE post == [kind |-> topic, notice |-> ~WithinLimit, at |-> clock,
                      repeats |-> IF topic \in Keys THEN recent[topic].suppressed ELSE 0]
  <2>1. posting' = [posting EXCEPT ![c] = post] /\ sent' = Counted
        /\ capTold' = ~WithinLimit /\ (WithinLimit \/ ~capTold)
    BY <1>3 DEF Post
  <2>2. post.at = clock
    OBVIOUS
  <2>3. DOMAIN posting = Callers /\ posting'[c] = post /\ posting'[c] \in PostRecords \cup {Nothing}
    BY <1>0, <2>1 DEF CountInv, CountTypes
  <2>4. post # Nothing
    <3>1. DOMAIN post # DOMAIN Nothing
      BY DEF Nothing
    <3> QED  BY <3>1
  <2> HIDE DEF post
  <2>5. WithinLimit \in BOOLEAN
    BY DEF WithinLimit
  <2>6. CapTypes' /\ SentIsTail'
    BY <1>0, <2>1, <2>5, CountedKeepsTail DEF CapTypes
  <2>7. NoneAhead'
    BY <1>0, <2>1, <2>2, <2>3 DEF NoneAhead
  <2>8. HoursHold'
    <3> SUFFICES ASSUME NEW t \in Nat
                 PROVE  /\ Used(t)' <= Cap + 2
                        /\ ~capTold' /\ clock' <= t + Hour => Used(t)' <= Cap + 1
      BY DEF HoursHold
    <3> DEFINE arrived == Cardinality(ArrivedIn(phone, t))
               before == PostsOnTheWay(posting, t)
               after == PostsOnTheWay(posting', t)
    <3>1. arrived \in Nat /\ IsFiniteSet(before) /\ Cardinality(before) \in Nat
      BY <1>0, UsedTypes
    <3>2. Used(t) = arrived + Cardinality(before) /\ Used(t)' = arrived + Cardinality(after)
      BY DEF Used
    <3>3. Used(t) <= Cap + 2 /\ (~capTold /\ clock <= t + Hour => Used(t) <= Cap + 1)
      BY <1>0 DEF HoursHold
    <3>4. CASE clock \notin t..(t + Hour)
      <4>1. after = before
        BY <2>1, <2>2, <2>3, <3>4 DEF PostsOnTheWay
      <4>2. clock <= t + Hour => Used(t) = 0
        <5> SUFFICES ASSUME clock <= t + Hour PROVE Used(t) = 0
          OBVIOUS
        <5>1. ~(t <= clock)
          BY <1>0, <3>4
        <5>2. ArrivedIn(phone, t) = {}
          BY <1>0, <5>1 DEF NoneAhead, ArrivedIn
        <5>3. before = {}
          BY <1>0, <5>1 DEF NoneAhead, PostsOnTheWay, CountInv, CountTypes, PostRecords
        <5> QED  BY <3>2, <5>2, <5>3, FS_EmptySet
      <4> HIDE DEF arrived, before, after
      <4> QED  BY <3>1, <3>2, <3>3, <4>1, <4>2
    <3>5. CASE clock \in t..(t + Hour)
      <4>1. after = before \cup {c} /\ c \notin before
        BY <2>1, <2>2, <2>3, <2>4, <3>5 DEF PostsOnTheWay
      <4>2. Cardinality(after) = Cardinality(before) + 1
        BY <3>1, <4>1, FS_AddElement
      <4>3. clock <= t + Hour
        BY <1>0, <3>5
      <4>4. arrived <= Len(Counted) /\ Len(Counted) \in Nat
        BY <1>0, <4>3, ArrivedAreCounted
      <4>5. Cardinality(after) <= 2
        <5>1. CountInv' /\ phone' \in Seq(Nat)
          BY <1>0
        <5>2. after = PostsOnTheWay(posting, t)'
          BY DEF PostsOnTheWay
        <5>3. after \in SUBSET Callers /\ IsFiniteSet(Callers) /\ Cardinality(Callers) = 2
          BY TwoCallers DEF PostsOnTheWay
        <5> HIDE DEF after
        <5> QED  BY <5>3, FS_Subset
      <4>6. WithinLimit => arrived <= Cap - 1
        BY <3>1, <4>4 DEF WithinLimit
      <4> HIDE DEF arrived, before, after
      <4>7. CASE WithinLimit
        <5>1. Used(t)' <= Cap + 1
          BY <3>1, <3>2, <4>2, <4>5, <4>6, <4>7
        <5> QED  BY <3>1, <3>2, <4>2, <5>1
      <4>8. CASE ~WithinLimit
        <5>1. capTold' /\ ~capTold
          BY <2>1, <4>8
        <5>2. Used(t)' <= Cap + 2
          BY <3>1, <3>2, <3>3, <4>2, <4>3, <5>1
        <5> QED  BY <5>1, <5>2
      <4> QED  BY <4>7, <4>8
    <3> QED  BY <3>4, <3>5
  <2> QED  BY <2>6, <2>7, <2>8 DEF CapInv
<1> QED  BY <1>1, <1>2, <1>3 DEF Notify

\* A message that arrives is counted where it was being posted.
LEMMA ArrivalCaps ==
    ASSUME CapInv, CountInv', NEW c \in Callers, Arrives(c)
    PROVE  CapInv'
<1> USE AlertingAssumption
<1> DEFINE post == posting[c]
<1>0. CountInv /\ CapTypes /\ NoneAhead /\ SentIsTail /\ HoursHold /\ clock \in Nat
      /\ phone \in Seq(Nat) /\ sent \in Seq(Nat) /\ DOMAIN posting = Callers
  BY DEF CapInv, CountInv, CountTypes, CapTypes
<1>1. post # Nothing /\ posting' = [posting EXCEPT ![c] = Nothing] /\ capTold' = capTold
      /\ sent' = Append(sent, post.at) /\ phone' = Append(phone, post.at) /\ clock' = clock
  BY DEF Arrives
<1>2. post.at \in Nat /\ post.at <= clock
  BY <1>0, <1>1 DEF NoneAhead, CountInv, CountTypes, PostRecords
<1> HIDE DEF post
<1>3. CapTypes'
  BY <1>0, <1>1, <1>2 DEF CapTypes
<1>4. Len(phone') = Len(phone) + 1 /\ Len(sent') = Len(sent) + 1
      /\ Len(phone) \in Nat /\ Len(sent) \in Nat
      /\ DOMAIN phone' = DOMAIN phone \cup {Len(phone) + 1} /\ Len(phone) + 1 \notin DOMAIN phone
      /\ phone'[Len(phone) + 1] = post.at /\ \A i \in DOMAIN phone : phone'[i] = phone[i]
  BY <1>0, <1>1, <1>2
<1>5. NoneAhead'
  <2>1. \A i \in DOMAIN phone' : phone'[i] <= clock'
    BY <1>0, <1>1, <1>2, <1>4 DEF NoneAhead
  <2>2. \A d \in Callers : posting'[d] # Nothing => posting'[d] = posting[d]
    BY <1>0, <1>1
  <2> QED  BY <1>0, <1>1, <2>1, <2>2 DEF NoneAhead
<1>6. SentIsTail'
  <2> DEFINE past == Len(phone) - Len(sent)
  <2>1. past \in Nat /\ Len(phone') - Len(sent') = past
    BY <1>0, <1>4 DEF SentIsTail
  <2>2. \A i \in DOMAIN sent' : sent'[i] = phone'[past + i]
    <3> SUFFICES ASSUME NEW i \in DOMAIN sent' PROVE sent'[i] = phone'[past + i]
      OBVIOUS
    <3>1. CASE i \in DOMAIN sent
      <4>1. sent[i] = phone[past + i]
        BY <1>0, <3>1 DEF SentIsTail
      <4>2. past + i \in DOMAIN phone
        <5>1. Len(phone) \in Nat /\ DOMAIN phone = 1..Len(phone)
          BY <1>0
        <5>2. Len(sent) \in Nat /\ i \in 1..Len(sent)
          BY <1>0, <3>1
        <5> QED  BY <2>1, <5>1, <5>2
      <4>3. sent'[i] = sent[i]
        BY <1>0, <1>1, <1>2, <3>1
      <4> QED  BY <1>4, <4>1, <4>2, <4>3
    <3>2. CASE i \notin DOMAIN sent
      <4>1. i = Len(sent) + 1 /\ sent'[i] = post.at
        BY <1>0, <1>1, <1>2, <3>2
      <4>2. past + i = Len(phone) + 1
        BY <1>4, <4>1
      <4> QED  BY <1>4, <4>1, <4>2
    <3> QED  BY <3>1, <3>2
  <2>3. \A i \in 1..past : clock' - phone'[i] > Hour
    <3>1. \A i \in 1..past : i \in DOMAIN phone
      BY <1>0, <1>4, <2>1
    <3> QED  BY <1>0, <1>1, <1>4, <3>1 DEF SentIsTail
  <2> HIDE DEF past
  <2> QED  BY <2>1, <2>2, <2>3 DEF SentIsTail
<1>7. \A t \in Nat : Used(t)' = Used(t)
  <2> SUFFICES ASSUME NEW t \in Nat PROVE Used(t)' = Used(t)
    OBVIOUS
  <2> DEFINE arrived == ArrivedIn(phone, t)
             arrivedNow == ArrivedIn(phone', t)
             under == PostsOnTheWay(posting, t)
             underNow == PostsOnTheWay(posting', t)
  <2>1. IsFiniteSet(arrived) /\ Cardinality(arrived) \in Nat
        /\ IsFiniteSet(under) /\ Cardinality(under) \in Nat
    BY <1>0, UsedTypes
  <2>2. underNow = under \ {c}
    BY <1>0, <1>1 DEF PostsOnTheWay
  <2>3. Used(t) = Cardinality(arrived) + Cardinality(under)
        /\ Used(t)' = Cardinality(arrivedNow) + Cardinality(underNow)
    BY DEF Used
  <2>4. CASE post.at \in t..(t + Hour)
    <3>1. arrivedNow = arrived \cup {Len(phone) + 1} /\ Len(phone) + 1 \notin arrived
      BY <1>4, <2>4 DEF ArrivedIn
    <3>2. c \in under
      BY <1>1, <2>4 DEF PostsOnTheWay, post
    <3>3. Cardinality(arrivedNow) = Cardinality(arrived) + 1
      BY <2>1, <3>1, FS_AddElement
    <3>4. Cardinality(underNow) = Cardinality(under) - 1
      BY <2>1, <2>2, <3>2, FS_RemoveElement
    <3> HIDE DEF arrived, arrivedNow, under, underNow
    <3> QED  BY <2>1, <2>3, <3>3, <3>4
  <2>5. CASE post.at \notin t..(t + Hour)
    <3>1. arrivedNow = arrived
      BY <1>4, <2>5 DEF ArrivedIn
    <3>2. c \notin under
      BY <2>5 DEF PostsOnTheWay, post
    <3>3. underNow = under
      BY <2>2, <3>2
    <3> QED  BY <2>3, <3>1, <3>3
  <2> QED  BY <2>4, <2>5
<1>8. HoursHold'
  BY <1>0, <1>1, <1>7 DEF HoursHold
<1> QED  BY <1>3, <1>5, <1>6, <1>8 DEF CapInv

\* A post that fails leaves room.
LEMMA FailureCaps ==
    ASSUME CapInv, CountInv', NEW c \in Callers, PostFails(c)
    PROVE  CapInv'
<1> USE AlertingAssumption
<1>0. CountInv /\ CapTypes /\ NoneAhead /\ SentIsTail /\ HoursHold
      /\ phone \in Seq(Nat) /\ DOMAIN posting = Callers
  BY DEF CapInv, CountInv, CountTypes, CapTypes
<1>1. posting' = [posting EXCEPT ![c] = Nothing]
      /\ UNCHANGED <<capTold, sent, phone, clock>>
  BY DEF PostFails, phoneVars
<1>2. CapTypes' /\ SentIsTail'
  BY <1>0, <1>1 DEF CapTypes, SentIsTail
<1>3. NoneAhead'
  <2>1. \A d \in Callers : posting'[d] # Nothing => posting'[d] = posting[d]
    BY <1>0, <1>1
  <2> QED  BY <1>0, <1>1, <2>1 DEF NoneAhead
<1>4. \A t \in Nat : Used(t)' <= Used(t) /\ Used(t) \in Nat /\ Used(t)' \in Nat
  <2> SUFFICES ASSUME NEW t \in Nat
               PROVE  Used(t)' <= Used(t) /\ Used(t) \in Nat /\ Used(t)' \in Nat
    OBVIOUS
  <2> DEFINE arrived == Cardinality(ArrivedIn(phone, t))
             under == PostsOnTheWay(posting, t)
             underNow == PostsOnTheWay(posting', t)
  <2>1. arrived \in Nat /\ IsFiniteSet(under) /\ Cardinality(under) \in Nat
    BY <1>0, UsedTypes
  <2>2. underNow \in SUBSET under
    BY <1>0, <1>1 DEF PostsOnTheWay
  <2>3. Used(t) = arrived + Cardinality(under) /\ Used(t)' = arrived + Cardinality(underNow)
    BY <1>1 DEF Used
  <2> HIDE DEF arrived, under, underNow
  <2>4. Cardinality(underNow) <= Cardinality(under) /\ Cardinality(underNow) \in Nat
    BY <2>1, <2>2, FS_Subset, FS_CardinalityType
  <2> QED  BY <2>1, <2>3, <2>4
<1>5. HoursHold'
  <2> SUFFICES ASSUME NEW t \in Nat
               PROVE  /\ Used(t)' <= Cap + 2
                      /\ ~capTold' /\ clock' <= t + Hour => Used(t)' <= Cap + 1
    BY DEF HoursHold
  <2>1. Used(t) <= Cap + 2 /\ (~capTold /\ clock <= t + Hour => Used(t) <= Cap + 1)
    BY <1>0 DEF HoursHold
  <2>2. Used(t)' <= Used(t) /\ Used(t) \in Nat /\ Used(t)' \in Nat
    BY <1>4
  <2> HIDE DEF Used
  <2>3. Used(t)' <= Cap + 2
    BY <2>1, <2>2
  <2>4. ASSUME ~capTold' /\ clock' <= t + Hour PROVE Used(t)' <= Cap + 1
    <3>1. ~capTold /\ clock <= t + Hour
      BY <1>1, <2>4
    <3> QED  BY <2>1, <2>2, <3>1
  <2> QED  BY <2>3, <2>4
<1> QED  BY <1>0, <1>2, <1>3, <1>5 DEF CapInv

LEMMA CapInvStep == CapInv /\ [AlertNext]_alertVars => CapInv'
<1> SUFFICES ASSUME CapInv, [AlertNext]_alertVars PROVE CapInv'
  OBVIOUS
<1>0. CountInv' /\ clock \in Nat
  BY CountInvStep DEF CapInv, CountInv, CountTypes
<1>1. ASSUME clock' >= clock, UNCHANGED <<sent, capTold, posting, phone>> PROVE CapInv'
  BY <1>0, <1>1, WaitingCaps
<1>2. CASE TimePasses
  BY <1>0, <1>1, <1>2 DEF TimePasses, phoneVars
<1>3. CASE PollSucceeds
  BY <1>0, <1>1, <1>3 DEF PollSucceeds, phoneVars
<1>4. CASE PollFails
  BY <1>0, <1>1, <1>4 DEF PollFails, phoneVars
<1>5. CASE AgentAsks
  BY <1>0, <1>1, <1>5 DEF AgentAsks, phoneVars
<1>6. CASE Handle
  <2>1. "loop" \in Callers
    BY DEF Callers
  <2>2. Notify("loop", Head(alerts)) /\ posting["loop"] = Nothing /\ clock' = clock
        /\ phone' = phone
    BY <1>6 DEF Handle, phoneVars
  <2> QED  BY <1>0, <2>1, <2>2, NotifyCaps
<1>7. CASE SendTest
  <2>1. "api" \in Callers
    BY DEF Callers
  <2>2. Notify("api", "test") /\ posting["api"] = Nothing /\ clock' = clock
        /\ phone' = phone
    BY <1>7 DEF SendTest, phoneVars
  <2> QED  BY <1>0, <2>1, <2>2, NotifyCaps
<1>8. ASSUME NEW c \in Callers, Arrives(c) \/ PostFails(c) PROVE CapInv'
  BY <1>0, <1>8, ArrivalCaps, FailureCaps
<1>9. CASE UNCHANGED alertVars
  BY <1>0, <1>1, <1>9 DEF alertVars
<1> QED  BY <1>2, <1>3, <1>4, <1>5, <1>6, <1>7, <1>8, <1>9 DEF AlertNext

\* In no hour do more messages arrive than the cap, the notice and the second caller of
\* notify() make room for, whatever the cap, the hour, and the order in which posts that
\* are in progress at the same time arrive.
THEOREM CapIsKept == AlertSpec => []CapHolds
<1>1. CapInv => CapHolds
  <2> SUFFICES ASSUME CapInv, NEW t \in 0..clock
               PROVE  Cardinality(ArrivedIn(phone, t)) <= Cap + Cardinality(Callers)
    BY DEF CapHolds, ArrivedIn
  <2>1. t \in Nat /\ phone \in Seq(Nat)
    BY DEF CapInv, CountInv, CountTypes, CapTypes
  <2>2. Used(t) <= Cap + 2
    BY <2>1 DEF CapInv, HoursHold
  <2>3. Cardinality(ArrivedIn(phone, t)) \in Nat /\ Cardinality(PostsOnTheWay(posting, t)) \in Nat
    BY <2>1, UsedTypes
  <2>4. Cardinality(ArrivedIn(phone, t)) <= Cap + 2
    BY AlertingAssumption, <2>2, <2>3 DEF Used
  <2> QED  BY <2>4, TwoCallers
<1> QED  BY <1>1, CapInvInit, CapInvStep, PTL DEF AlertSpec

-----------------------------------------------------------------------------
(* The log of events.                                                      *)

\* A set of numbers that has zero, and with every number the next one, has them all.
LEMMA NumberInduction ==
    ASSUME NEW T, 0 \in T, \A n \in Nat : n \in T => n + 1 \in T
    PROVE  Nat \subseteq T
<1> DEFINE Smaller == {ss \in Nat \X Nat : ss[1] < ss[2]}
<1>1. SUFFICES ASSUME Nat \ T # {} PROVE FALSE
  OBVIOUS
<1>2. PICK x \in Nat \ T : \A y \in Nat \ T : ~ (<<y, x>> \in Smaller)
  <2>1. Nat \ T \subseteq Nat
    OBVIOUS
  <2>2. IsWellFoundedOn(Smaller, Nat)
    BY NatLessThanWellFounded DEF OpToRel
  <2> HIDE DEF Smaller
  <2> QED  BY <1>1, <2>1, <2>2, WFMin
<1>3. x # 0 /\ x - 1 \in Nat /\ x - 1 < x /\ (x - 1) + 1 = x
  OBVIOUS
<1>4. x - 1 \in Nat \ T
  BY <1>3
<1>5. <<x - 1, x>> \in Smaller
  BY <1>3
<1> QED  BY <1>2, <1>4, <1>5

\* Only what was published is held, waits to be written, or is written, and it is written
\* once; what was not published has led to nothing.
PublishedOnly ==
    /\ alive \subseteq named /\ writes \subseteq named /\ table \subseteq named
    /\ early \subseteq table /\ writes \cap table = {}
    /\ \A e \in Events : cause[e] \in named \cup {NoEvent}
    /\ \A e \in Events \ named : chain[e] = <<>> /\ cause[e] = NoEvent

\* The chain of an event ends with the event it reacts to, and the events before an event of
\* it are the chain of that one.
ChainsAreCauses ==
    \A e \in Events :
        /\ cause[e] = NoEvent => chain[e] = <<>>
        /\ cause[e] # NoEvent =>
              Len(chain[e]) > 0 /\ chain[e][Len(chain[e])] = cause[e]
        /\ \A i \in DOMAIN chain[e] :
              /\ chain[e][i] \in named /\ chain[e][i] # e
              /\ Len(chain[chain[e][i]]) = i - 1
              /\ \A j \in 1..(i - 1) : chain[chain[e][i]][j] = chain[e][j]

\* Those that a root counts: the written events of its chains, but for the early ones.
CountedBy(r) == {d \in table \ early : Len(chain[d]) > 0 /\ chain[d][1] = r}
RootsCount ==
    \A r \in Events : chain[r] = <<>> => count[r] = Cardinality(CountedBy(r))

LogInv == LogTypeOK /\ PublishedOnly /\ ChainsAreCauses /\ RootsCount

LEMMA LogInvInit == LogInit => LogInv
<1> SUFFICES ASSUME LogInit PROVE LogInv
  OBVIOUS
<1> USE DEF LogInit
<1>1. <<>> \in Seq(Events) /\ Len(<<>>) = 0 /\ DOMAIN <<>> = {}
  OBVIOUS
<1>2. LogTypeOK
  BY <1>1 DEF LogTypeOK
<1>3. PublishedOnly
  BY DEF PublishedOnly
<1>4. ChainsAreCauses
  BY <1>1 DEF ChainsAreCauses
<1>5. RootsCount
  <2>1. \A r : CountedBy(r) = {}
    BY DEF CountedBy
  <2> QED  BY <2>1, FS_EmptySet DEF RootsCount
<1> QED  BY <1>2, <1>3, <1>4, <1>5 DEF LogInv

LEMMA PublishKeeps ==
    ASSUME LogInv, NEW e \in Events, NEW p \in Events \cup {NoEvent}, Publish(e, p)
    PROVE  LogInv'
<1> DEFINE mine == IF p = NoEvent THEN <<>> ELSE Append(chain[p], p)
<1>0. LogTypeOK /\ PublishedOnly /\ ChainsAreCauses /\ RootsCount /\ NoEvent \notin Events
  BY EventLogAssumption DEF LogInv
<1>1. /\ e \notin named /\ named' = named \cup {e}
      /\ chain' = [chain EXCEPT ![e] = mine] /\ cause' = [cause EXCEPT ![e] = p]
      /\ alive' = alive \cup {e} /\ writes' = writes \cup {e}
      /\ table' = table /\ count' = count /\ early' = early
      /\ p # NoEvent => p \in named
  BY <1>0 DEF Publish, Extended, PublishedOnly
<1>2. chain \in [Events -> Seq(Events)] /\ mine \in Seq(Events)
  BY <1>0 DEF LogTypeOK
<1>3. p # NoEvent => /\ Len(mine) = Len(chain[p]) + 1 /\ mine[Len(mine)] = p
                     /\ \A i \in DOMAIN chain[p] : mine[i] = chain[p][i]
                     /\ DOMAIN mine = DOMAIN chain[p] \cup {Len(chain[p]) + 1}
                     /\ Len(chain[p]) \in Nat
  BY <1>2
<1>4. p = NoEvent => mine = <<>>
  OBVIOUS
<1> HIDE DEF mine
<1>5. \A d \in Events : chain'[d] = IF d = e THEN mine ELSE chain[d]
  BY <1>1, <1>2
<1>6. \A d \in Events : cause'[d] = IF d = e THEN p ELSE cause[d]
  BY <1>0, <1>1 DEF LogTypeOK
<1>7. LogTypeOK'
  BY <1>0, <1>1, <1>2 DEF LogTypeOK
<1>8. PublishedOnly'
  BY <1>0, <1>1, <1>5, <1>6 DEF PublishedOnly
<1>9. ChainsAreCauses'
  <2> SUFFICES ASSUME NEW d \in Events
               PROVE  /\ cause'[d] = NoEvent => chain'[d] = <<>>
                      /\ cause'[d] # NoEvent =>
                            Len(chain'[d]) > 0 /\ chain'[d][Len(chain'[d])] = cause'[d]
                      /\ \A i \in DOMAIN chain'[d] :
                            /\ chain'[d][i] \in named' /\ chain'[d][i] # d
                            /\ Len(chain'[chain'[d][i]]) = i - 1
                            /\ \A j \in 1..(i - 1) : chain'[chain'[d][i]][j] = chain'[d][j]
    BY DEF ChainsAreCauses
  <2>1. named \subseteq Events
    BY <1>0 DEF LogTypeOK
  <2>2. \A x \in named : chain'[x] = chain[x]
    BY <1>1, <1>5, <2>1
  <2>3. \A x \in Events : \A i \in DOMAIN chain[x] :
           /\ chain[x][i] \in named /\ chain[x][i] # x
           /\ Len(chain[chain[x][i]]) = i - 1
           /\ \A j \in 1..(i - 1) : chain[chain[x][i]][j] = chain[x][j]
    BY <1>0 DEF ChainsAreCauses
  <2>4. CASE d # e
    <3>1. chain'[d] = chain[d] /\ cause'[d] = cause[d]
      BY <1>5, <1>6, <2>4
    <3>2. /\ cause[d] = NoEvent => chain[d] = <<>>
          /\ cause[d] # NoEvent => Len(chain[d]) > 0 /\ chain[d][Len(chain[d])] = cause[d]
      BY <1>0 DEF ChainsAreCauses
    <3> QED  BY <1>1, <2>2, <2>3, <3>1, <3>2
  <2>5. CASE d = e /\ p = NoEvent
    <3>1. chain'[d] = <<>> /\ cause'[d] = NoEvent /\ DOMAIN <<>> = {}
      BY <1>4, <1>5, <1>6, <2>5
    <3> QED  BY <3>1
  <2>6. CASE d = e /\ p # NoEvent
    <3>1. chain'[d] = mine /\ cause'[d] = p /\ p \in named /\ p # e /\ p \in Events
      BY <1>1, <1>5, <1>6, <2>1, <2>6
    <3>2. Len(mine) > 0 /\ mine[Len(mine)] = p
      <4>1. Len(mine) = Len(chain[p]) + 1 /\ Len(chain[p]) \in Nat
        BY <1>3, <2>6, Zenon
      <4>2. mine[Len(mine)] = p
        BY <1>3, <2>6, Zenon
      <4> QED  BY <4>1, <4>2
    <3>3. ASSUME NEW i \in DOMAIN mine
          PROVE  /\ mine[i] \in named' /\ mine[i] # e
                 /\ Len(chain'[mine[i]]) = i - 1
                 /\ \A j \in 1..(i - 1) : chain'[mine[i]][j] = mine[j]
      <4>1. CASE i \in DOMAIN chain[p]
        <5>1. mine[i] = chain[p][i] /\ \A j \in 1..(i - 1) : mine[j] = chain[p][j]
          <6>1. i \in 1..Len(chain[p]) /\ DOMAIN chain[p] = 1..Len(chain[p])
            BY <1>2, <3>1, <4>1
          <6>2. \A j \in 1..(i - 1) : j \in DOMAIN chain[p]
            BY <1>3, <2>6, <6>1
          <6> QED  BY <1>3, <2>6, <4>1, <6>2
        <5>2. mine[i] \in named /\ chain'[mine[i]] = chain[mine[i]]
          BY <2>2, <2>3, <3>1, <4>1, <5>1
        <5> QED  BY <1>1, <2>3, <3>1, <4>1, <5>1, <5>2
      <4>2. CASE i \notin DOMAIN chain[p]
        <5>1. i = Len(chain[p]) + 1 /\ mine[i] = p
          BY <1>3, <2>6, <4>2
        <5>2. chain'[p] = chain[p]
          BY <2>2, <3>1
        <5>3. Len(chain[p]) = i - 1
          BY <1>3, <2>6, <5>1
        <5>4. \A j \in 1..(i - 1) : j \in DOMAIN chain[p]
          BY <1>2, <3>1, <5>3
        <5> QED  BY <1>1, <1>3, <2>6, <3>1, <5>1, <5>2, <5>3, <5>4
      <4> QED  BY <4>1, <4>2
    <3> QED  BY <2>6, <3>1, <3>2, <3>3
  <2> QED  BY <2>4, <2>5, <2>6
<1>10. RootsCount'
  <2> SUFFICES ASSUME NEW r \in Events, chain'[r] = <<>>
               PROVE  count[r] = Cardinality(CountedBy(r)')
    BY <1>1 DEF RootsCount
  <2>1. chain[r] = <<>>
    BY <1>0, <1>1, <1>5 DEF PublishedOnly
  <2>2. \A d \in table : chain'[d] = chain[d]
    BY <1>0, <1>1, <1>5 DEF PublishedOnly, LogTypeOK
  <2>3. CountedBy(r)' = CountedBy(r)
    BY <1>1, <2>2 DEF CountedBy
  <2> QED  BY <1>0, <2>1, <2>3 DEF RootsCount
<1> QED  BY <1>7, <1>8, <1>9, <1>10 DEF LogInv

LEMMA WriteKeeps ==
    ASSUME LogInv, NEW e \in Events, WriteRow(e)
    PROVE  LogInv'
<1>0. LogTypeOK /\ PublishedOnly /\ ChainsAreCauses /\ RootsCount
  BY DEF LogInv
<1>1. /\ e \in writes /\ writes' = writes \ {e} /\ table' = table \cup {e}
      /\ named' = named /\ chain' = chain /\ alive' = alive /\ cause' = cause
      /\ e \notin table
  BY <1>0 DEF WriteRow, PublishedOnly
<1>2. chain \in [Events -> Seq(Events)] /\ count \in [Events -> Nat] /\ chain[e] \in Seq(Events)
  BY <1>0 DEF LogTypeOK
<1>3. chain[e] # <<>> => Len(chain[e]) > 0 /\ chain[e][1] \in Events
  BY <1>2
<1>4. ChainsAreCauses'
  BY <1>0, <1>1 DEF ChainsAreCauses
<1>5. \A r \in Events : IsFiniteSet(CountedBy(r))
  <2>1. \A r \in Events : CountedBy(r) \in SUBSET Events
    BY <1>0 DEF CountedBy, LogTypeOK
  <2> QED  BY <2>1, EventLogAssumption, FS_Subset
<1>6. CASE chain[e] = <<>>
  <2>1. count' = count /\ early' = early
    BY <1>6 DEF WriteRow
  <2>2. \A r : CountedBy(r)' = CountedBy(r)
    <3>1. ~(Len(chain[e]) > 0)
      BY <1>6
    <3> QED  BY <1>1, <2>1, <3>1 DEF CountedBy
  <2>3. RootsCount'
    BY <1>0, <1>1, <2>1, <2>2 DEF RootsCount
  <2>4. LogTypeOK' /\ PublishedOnly'
    BY <1>0, <1>1, <2>1 DEF LogTypeOK, PublishedOnly
  <2> QED  BY <1>4, <2>3, <2>4 DEF LogInv
<1>7. CASE chain[e] # <<>> /\ chain[e][1] \in table
  <2> DEFINE root == chain[e][1]
  <2>1. count' = [count EXCEPT ![root] = @ + 1] /\ early' = early
    BY <1>7 DEF WriteRow
  <2>2. root \in Events /\ Len(chain[e]) > 0 /\ chain[e][1] = root
    BY <1>3, <1>7
  <2>3. e \notin early
    BY <1>0, <1>1 DEF PublishedOnly
  <2> HIDE DEF root
  <2>4. \A r \in Events : CountedBy(r)' = IF r = root THEN CountedBy(r) \cup {e} ELSE CountedBy(r)
    BY <1>1, <2>1, <2>2, <2>3 DEF CountedBy
  <2>5. e \notin CountedBy(root)
    BY <1>1 DEF CountedBy
  <2>6. count' \in [Events -> Nat] /\ count'[root] = count[root] + 1
        /\ \A r \in Events \ {root} : count'[r] = count[r]
    BY <1>2, <2>1, <2>2
  <2>7. RootsCount'
    <3> SUFFICES ASSUME NEW r \in Events, chain[r] = <<>>
                 PROVE  count'[r] = Cardinality(CountedBy(r)')
      BY <1>1 DEF RootsCount
    <3>1. count[r] = Cardinality(CountedBy(r))
      BY <1>0 DEF RootsCount
    <3>2. CASE r = root
      <4>1. Cardinality(CountedBy(r) \cup {e}) = Cardinality(CountedBy(r)) + 1
        BY <1>5, <2>5, <3>2, FS_AddElement
      <4>2. CountedBy(r)' = CountedBy(r) \cup {e} /\ count'[r] = count[r] + 1
        BY <2>4, <2>6, <3>2
      <4> QED  BY <3>1, <4>1, <4>2
    <3>3. CASE r # root
      BY <2>4, <2>6, <3>1, <3>3
    <3> QED  BY <3>2, <3>3
  <2>8. LogTypeOK' /\ PublishedOnly'
    BY <1>0, <1>1, <2>1, <2>6 DEF LogTypeOK, PublishedOnly
  <2> QED  BY <1>4, <2>7, <2>8 DEF LogInv
<1>8. CASE chain[e] # <<>> /\ chain[e][1] \notin table
  <2>1. early' = early \cup {e} /\ count' = count
    BY <1>8 DEF WriteRow
  <2>2. \A r : CountedBy(r)' = CountedBy(r)
    BY <1>1, <2>1 DEF CountedBy
  <2>3. RootsCount'
    BY <1>0, <1>1, <2>1, <2>2 DEF RootsCount
  <2>4. LogTypeOK' /\ PublishedOnly'
    BY <1>0, <1>1, <2>1 DEF LogTypeOK, PublishedOnly
  <2> QED  BY <1>4, <2>3, <2>4 DEF LogInv
<1> QED  BY <1>6, <1>7, <1>8

LEMMA LogInvStep == LogInv /\ [LogNext]_eventVars => LogInv'
<1> SUFFICES ASSUME LogInv, [LogNext]_eventVars PROVE LogInv'
  OBVIOUS
<1>1. ASSUME UNCHANGED <<named, chain, table, count, cause, early>>,
             alive' \subseteq alive, writes' \subseteq writes
      PROVE  LogInv'
  BY <1>1 DEF LogInv, LogTypeOK, PublishedOnly, ChainsAreCauses, RootsCount, CountedBy
<1>2. ASSUME NEW e \in Events, NEW p \in Events \cup {NoEvent}, Publish(e, p) PROVE LogInv'
  BY <1>2, PublishKeeps
<1>3. ASSUME NEW e \in Events, Forgotten(e) PROVE LogInv'
  BY <1>1, <1>3 DEF Forgotten
<1>4. ASSUME NEW e \in Events, WriteRow(e) PROVE LogInv'
  BY <1>4, WriteKeeps
<1>5. ASSUME NEW e \in Events, WriteFails(e) PROVE LogInv'
  BY <1>1, <1>5 DEF WriteFails
<1>6. CASE EndOfProcess
  BY <1>1, <1>6 DEF EndOfProcess
<1>7. CASE UNCHANGED eventVars
  BY <1>1, <1>7 DEF eventVars
<1> QED  BY <1>2, <1>3, <1>4, <1>5, <1>6, <1>7 DEF LogNext

\* A chain has at most as many events as there are.
LEMMA ChainsAreShort ==
    ASSUME LogInv, NEW e \in Events
    PROVE  /\ chain[e] \in Seq(Events) /\ Cardinality(Events) \in Nat \ {0}
           /\ Len(chain[e]) <= Cardinality(Events)
<1> DEFINE s == chain[e]
<1>1. s \in Seq(Events) /\ Len(s) \in Nat
  BY DEF LogInv, LogTypeOK
<1>2. \A i, j \in DOMAIN s : i < j => s[i] # s[j]
  <2> SUFFICES ASSUME NEW i \in DOMAIN s, NEW j \in DOMAIN s, i < j PROVE s[i] # s[j]
    OBVIOUS
  <2>1. i \in DOMAIN chain[s[j]] /\ chain[s[j]][i] = s[i]
    <3>1. Len(chain[s[j]]) = j - 1 /\ \A k \in 1..(j - 1) : chain[s[j]][k] = s[k]
      BY DEF LogInv, ChainsAreCauses
    <3>2. s[j] \in Events /\ i \in 1..(j - 1)
      BY <1>1
    <3>3. chain[s[j]] \in Seq(Events)
      BY <3>2 DEF LogInv, LogTypeOK
    <3> QED  BY <3>1, <3>2, <3>3
  <2>2. s[j] \in Events
    BY <1>1
  <2> QED  BY <2>1, <2>2 DEF LogInv, ChainsAreCauses
<1> HIDE DEF s
<1>3. IsFiniteSet(Events) /\ Cardinality(Events) \in Nat
  BY EventLogAssumption, FS_CardinalityType
<1>4. s \in Injection(1..Len(s), Events)
  <2>1. s \in [1..Len(s) -> Events]
    BY <1>1
  <2>2. \A i, j \in 1..Len(s) : s[i] = s[j] => i = j
    BY <1>1, <1>2
  <2> QED  BY <2>1, <2>2 DEF Injection, IsInjective
<1>5. Cardinality(1..Len(s)) <= Cardinality(Events)
  BY <1>3, <1>4, FS_Injection
<1>6. Cardinality(1..Len(s)) = Len(s)
  <2>1. 1 \in Int /\ Len(s) \in Int
    BY <1>1
  <2>2. Cardinality(1..Len(s)) = IF 1 > Len(s) THEN 0 ELSE Len(s) - 1 + 1
    BY <2>1, FS_Interval
  <2> QED  BY <1>1, <2>2
<1>7. Cardinality(Events) # 0
  BY <1>3, FS_EmptySet
<1> QED  BY <1>1, <1>3, <1>5, <1>6, <1>7 DEF s

\* What led to an event is its chain.
LEMMA CausesAreChains ==
    ASSUME LogInv, NEW e \in Events
    PROVE  Causes(e) = {e} \cup ToSet(chain[e])
<1> DEFINE K == Cardinality(Events)
           s == chain[e]
           LastIs(n) == {e} \cup {s[i] : i \in {j \in DOMAIN s : j > Len(s) - n}}
           Further(S) == S \cup ({cause[d] : d \in S} \ {NoEvent})
           Steps(F) == [n \in 0..K |-> IF n = 0 THEN {e} ELSE Further(F[n - 1])]
           above == CHOOSE F : F = Steps(F)
<1>1. s \in Seq(Events) /\ K \in Nat \ {0} /\ Len(s) <= K /\ Len(s) \in Nat
  BY ChainsAreShort
<1>2. NoEvent \notin Events /\ cause \in [Events -> Events \cup {NoEvent}]
  BY EventLogAssumption DEF LogInv, LogTypeOK
<1>3. cause[e] = IF Len(s) = 0 THEN NoEvent ELSE s[Len(s)]
  BY <1>1 DEF LogInv, ChainsAreCauses
<1>4. \A i \in DOMAIN s : cause[s[i]] = IF i = 1 THEN NoEvent ELSE s[i - 1]
  <2> SUFFICES ASSUME NEW i \in DOMAIN s
               PROVE  cause[s[i]] = IF i = 1 THEN NoEvent ELSE s[i - 1]
    OBVIOUS
  <2>1. Len(chain[s[i]]) = i - 1 /\ \A j \in 1..(i - 1) : chain[s[i]][j] = s[j]
    BY DEF LogInv, ChainsAreCauses
  <2>2. s[i] \in Events /\ i \in Nat /\ i >= 1
    BY <1>1
  <2>3. chain[s[i]] = <<>> => Len(chain[s[i]]) = 0
    OBVIOUS
  <2>4. cause[s[i]] = NoEvent <=> i = 1
    BY <2>1, <2>2, <2>3 DEF LogInv, ChainsAreCauses
  <2>5. cause[s[i]] # NoEvent => cause[s[i]] = chain[s[i]][Len(chain[s[i]])]
    BY <2>2 DEF LogInv, ChainsAreCauses
  <2> QED  BY <2>1, <2>2, <2>4, <2>5
<1>5. \A n \in Nat : LastIs(n + 1) = Further(LastIs(n))
  <2> SUFFICES ASSUME NEW n \in Nat PROVE LastIs(n + 1) = Further(LastIs(n))
    OBVIOUS
  <2>1. ASSUME NEW x \in LastIs(n + 1) PROVE x \in Further(LastIs(n))
    <3>1. CASE x = e
      BY <3>1
    <3>2. ASSUME NEW i \in DOMAIN s, i > Len(s) - (n + 1), x = s[i]
          PROVE  x \in Further(LastIs(n))
      <4>1. x \in Events /\ i \in 1..Len(s)
        BY <1>1, <3>2
      <4>2. CASE i > Len(s) - n
        BY <3>2, <4>2
      <4>3. CASE ~(i > Len(s) - n) /\ i = Len(s)
        <5>1. cause[e] = x /\ e \in LastIs(n)
          BY <1>1, <1>3, <3>2, <4>1, <4>3
        <5> QED  BY <1>2, <4>1, <5>1
      <4>4. CASE ~(i > Len(s) - n) /\ i # Len(s)
        <5>1. i + 1 \in DOMAIN s /\ i + 1 > Len(s) - n /\ i + 1 # 1 /\ (i + 1) - 1 = i
          BY <1>1, <3>2, <4>1, <4>4
        <5>2. cause[s[i + 1]] = x /\ s[i + 1] \in LastIs(n)
          BY <1>4, <3>2, <5>1
        <5> QED  BY <1>2, <4>1, <5>2
      <4> QED  BY <4>2, <4>3, <4>4
    <3> QED  BY <3>1, <3>2
  <2>2. ASSUME NEW x \in Further(LastIs(n)) PROVE x \in LastIs(n + 1)
    <3>1. CASE x \in LastIs(n)
      <4>1. \A i \in DOMAIN s : i > Len(s) - n => i > Len(s) - (n + 1)
        BY <1>1
      <4> QED  BY <3>1, <4>1
    <3>2. CASE x = cause[e] /\ x # NoEvent
      <4>1. x = s[Len(s)] /\ Len(s) \in DOMAIN s /\ Len(s) > Len(s) - (n + 1)
        BY <1>1, <1>3, <3>2
      <4> QED  BY <4>1
    <3>3. ASSUME NEW i \in DOMAIN s, i > Len(s) - n, x = cause[s[i]], x # NoEvent
          PROVE  x \in LastIs(n + 1)
      <4>1. i # 1 /\ x = s[i - 1]
        BY <1>4, <3>3
      <4>2. i - 1 \in DOMAIN s /\ i - 1 > Len(s) - (n + 1)
        BY <1>1, <3>3, <4>1
      <4> QED  BY <4>1, <4>2
    <3> QED  BY <3>1, <3>2, <3>3
  <2> QED  BY <2>1, <2>2
<1>6. LastIs(0) = {e} /\ LastIs(K) = {e} \cup ToSet(s)
  <2>1. \A i \in DOMAIN s : ~(i > Len(s) - 0) /\ i > Len(s) - K
    BY <1>1
  <2> QED  BY <2>1 DEF ToSet
<1> HIDE DEF LastIs, Further
<1>7. \E F : F = Steps(F)
  <2> DEFINE G == [n \in 0..K |-> LastIs(n)]
  <2>1. \A n \in 0..K : n # 0 => n - 1 \in 0..K /\ n - 1 \in Nat /\ (n - 1) + 1 = n
    BY <1>1
  <2>2. \A n \in 0..K : LastIs(n) = IF n = 0 THEN {e} ELSE Further(G[n - 1])
    BY <1>5, <1>6, <2>1
  <2>3. G = Steps(G)
    BY <2>2
  <2> QED  BY <2>3
<1>8. above = Steps(above)
  BY <1>7
<1> HIDE DEF above
<1>9. \A n \in Nat : n <= K => above[n] = LastIs(n)
  <2> DEFINE T == {n \in Nat : n <= K => above[n] = LastIs(n)}
  <2>1. 0 \in T
    BY <1>1, <1>6, <1>8
  <2>2. ASSUME NEW n \in Nat, n \in T PROVE n + 1 \in T
    <3> SUFFICES ASSUME n + 1 <= K PROVE above[n + 1] = LastIs(n + 1)
      OBVIOUS
    <3>1. n <= K /\ n + 1 \in 0..K /\ n + 1 # 0 /\ (n + 1) - 1 = n
      BY <1>1
    <3>2. above[n + 1] = Further(above[n])
      BY <1>8, <3>1
    <3>3. above[n] = LastIs(n)
      BY <2>2, <3>1
    <3> QED  BY <1>5, <3>2, <3>3
  <2> HIDE DEF T
  <2>3. Nat \subseteq T
    BY <2>1, <2>2, NumberInduction
  <2> QED  BY <2>3 DEF T
<1>10. Causes(e) = above[K]
  BY DEF Causes, above, Further
<1> QED  BY <1>1, <1>6, <1>9, <1>10

\* The rows that read_trace finds below an event are those that name it.
LEMMA TracesAreNamings ==
    ASSUME LogInv, NEW e \in Events
    PROVE  Trace(e) = (ToSet(chain[e]) \cap table)
                      \cup {e} \cup {d \in table : e \in ToSet(chain[d])}
<1> DEFINE K == Cardinality(Events)
           below == {d \in table : e \in ToSet(chain[d])}
           Found(n) == IF n = 0 THEN {e} ELSE {e} \cup below
           Further(S) == S \cup {d \in table : ToSet(chain[d]) \cap S # {}}
           Steps(F) == [n \in 0..K |-> IF n = 0 THEN {e} ELSE Further(F[n - 1])]
           naming == CHOOSE F : F = Steps(F)
<1>1. K \in Nat \ {0}
  BY ChainsAreShort
<1>2. ASSUME NEW d \in table, NEW x \in below, x \in ToSet(chain[d]) PROVE d \in below
  <2>0. d \in Events /\ chain[d] \in Seq(Events)
    BY DEF LogInv, LogTypeOK
  <2>1. PICK i \in DOMAIN chain[d] : x = chain[d][i]
    BY <1>2 DEF ToSet
  <2>2. x \in Events /\ chain[x] \in Seq(Events) /\ i \in 1..Len(chain[d])
    BY <2>0, <2>1 DEF LogInv, LogTypeOK
  <2>3. PICK j \in DOMAIN chain[x] : e = chain[x][j]
    BY DEF ToSet
  <2>4. Len(chain[x]) = i - 1 /\ \A k \in 1..(i - 1) : chain[x][k] = chain[d][k]
    BY <2>0, <2>1 DEF LogInv, ChainsAreCauses
  <2>5. j \in DOMAIN chain[d] /\ e = chain[d][j]
    <3>1. DOMAIN chain[d] = 1..Len(chain[d]) /\ Len(chain[d]) \in Nat
      BY <2>0
    <3>2. DOMAIN chain[x] = 1..(i - 1)
      BY <2>2, <2>4
    <3>3. j \in 1..(i - 1) /\ chain[x][j] = chain[d][j]
      BY <2>3, <2>4, <3>2
    <3>4. j \in 1..Len(chain[d])
      BY <2>2, <3>1, <3>3
    <3> QED  BY <2>3, <3>1, <3>3, <3>4
  <2> QED  BY <2>5 DEF ToSet
<1>3. Further({e}) = {e} \cup below /\ Further({e} \cup below) = {e} \cup below
  <2>1. \A d \in table : ToSet(chain[d]) \cap {e} # {} <=> e \in ToSet(chain[d])
    OBVIOUS
  <2>2. \A d \in table : ToSet(chain[d]) \cap ({e} \cup below) # {} => d \in below
    BY <1>2
  <2> HIDE DEF below
  <2>3. Further({e}) = {e} \cup below
    BY <2>1 DEF below
  <2>4. Further({e} \cup below) = {e} \cup below
    BY <2>2, <2>3
  <2> QED  BY <2>3, <2>4
<1>4. \A n \in Nat : Found(n + 1) = Further(Found(n))
  <2> SUFFICES ASSUME NEW n \in Nat PROVE Found(n + 1) = Further(Found(n))
    OBVIOUS
  <2> HIDE DEF below, Further
  <2> QED  BY <1>3
<1>5. Found(0) = {e} /\ Found(K) = {e} \cup below
  BY <1>1
<1> HIDE DEF Found, Further
<1>6. \E F : F = Steps(F)
  <2> DEFINE G == [n \in 0..K |-> Found(n)]
  <2>1. \A n \in 0..K : n # 0 => n - 1 \in 0..K /\ n - 1 \in Nat /\ (n - 1) + 1 = n
    BY <1>1
  <2>2. \A n \in 0..K : Found(n) = IF n = 0 THEN {e} ELSE Further(G[n - 1])
    BY <1>4, <1>5, <2>1
  <2>3. G = Steps(G)
    BY <2>2
  <2> QED  BY <2>3
<1>7. naming = Steps(naming)
  BY <1>6
<1> HIDE DEF naming
<1>8. \A n \in Nat : n <= K => naming[n] = Found(n)
  <2> DEFINE T == {n \in Nat : n <= K => naming[n] = Found(n)}
  <2>1. 0 \in T
    BY <1>1, <1>5, <1>7
  <2>2. ASSUME NEW n \in Nat, n \in T PROVE n + 1 \in T
    <3> SUFFICES ASSUME n + 1 <= K PROVE naming[n + 1] = Found(n + 1)
      OBVIOUS
    <3>1. n <= K /\ n + 1 \in 0..K /\ n + 1 # 0 /\ (n + 1) - 1 = n
      BY <1>1
    <3>2. naming[n + 1] = Further(naming[n])
      BY <1>7, <3>1
    <3>3. naming[n] = Found(n)
      BY <2>2, <3>1
    <3> QED  BY <1>4, <3>2, <3>3
  <2> HIDE DEF T
  <2>3. Nat \subseteq T
    BY <2>1, <2>2, NumberInduction
  <2> QED  BY <2>3 DEF T
<1>9. Trace(e) = (ToSet(chain[e]) \cap table) \cup naming[K]
  BY DEF Trace, naming, Further
<1> HIDE DEF below
<1>10. Trace(e) = (ToSet(chain[e]) \cap table) \cup ({e} \cup below)
  BY <1>1, <1>5, <1>8, <1>9
<1> QED  BY <1>10 DEF below

\* Traces are complete and exact, and roots count their descendants, for any number of
\* events, written in any order, lost, or cut off by the end of the process.
THEOREM WholeTraces == LogSpec => []TracesAreComplete
<1>1. LogInv => TracesAreComplete
  <2> SUFFICES ASSUME LogInv, NEW e \in table
               PROVE  /\ Trace(e) = {d \in table : d \in Causes(e) \/ e \in Causes(d)}
                      /\ cause[e] = NoEvent =>
                            count[e] = Cardinality(
                               {d \in table \ (early \cup {e}) : e \in Causes(d)})
    BY DEF TracesAreComplete
  <2>1. table \subseteq Events /\ e \in Events
    BY DEF LogInv, LogTypeOK
  <2>2. \A d \in table : Causes(d) = {d} \cup ToSet(chain[d])
    BY <2>1, CausesAreChains
  <2>3. Trace(e) = (ToSet(chain[e]) \cap table)
                   \cup {e} \cup {d \in table : e \in ToSet(chain[d])}
    BY <2>1, TracesAreNamings
  <2>4. Trace(e) = {d \in table : d \in Causes(e) \/ e \in Causes(d)}
    <3>1. \A d : d \in Trace(e) <=> d \in table /\ (d \in Causes(e) \/ e \in Causes(d))
      BY <2>2, <2>3
    <3> QED  BY <3>1
  <2>5. ASSUME cause[e] = NoEvent
        PROVE  count[e] = Cardinality({d \in table \ (early \cup {e}) : e \in Causes(d)})
    <3>1. chain[e] = <<>> /\ Len(chain[e]) = 0
      BY <2>1, <2>5 DEF LogInv, ChainsAreCauses
    <3>2. \A d \in table :
             e \in ToSet(chain[d]) <=> Len(chain[d]) > 0 /\ chain[d][1] = e
      <4> SUFFICES ASSUME NEW d \in table
                   PROVE  e \in ToSet(chain[d]) <=> Len(chain[d]) > 0 /\ chain[d][1] = e
        OBVIOUS
      <4>1. d \in Events /\ chain[d] \in Seq(Events)
        BY <2>1 DEF LogInv, LogTypeOK
      <4>2. ASSUME NEW i \in DOMAIN chain[d], e = chain[d][i] PROVE i = 1
        <5>1. Len(chain[e]) = i - 1
          BY <4>1, <4>2 DEF LogInv, ChainsAreCauses
        <5> QED  BY <3>1, <4>1, <5>1
      <4>3. Len(chain[d]) > 0 <=> 1 \in DOMAIN chain[d]
        BY <4>1
      <4>4. \A i \in DOMAIN chain[d] : Len(chain[d]) > 0
        BY <4>1
      <4> QED  BY <4>2, <4>3, <4>4 DEF ToSet
    <3>3. \A d \in table : Len(chain[d]) > 0 /\ chain[d][1] = e => d # e
      BY <3>1
    <3>4. {d \in table \ (early \cup {e}) : e \in Causes(d)} = CountedBy(e)
      <4>1. \A d : d \in {x \in table \ (early \cup {e}) : e \in Causes(x)}
                      <=> d \in CountedBy(e)
        BY <2>2, <3>2, <3>3 DEF CountedBy
      <4> QED  BY <4>1
    <3> QED  BY <2>1, <3>1, <3>4 DEF LogInv, RootsCount
  <2> QED  BY <2>4, <2>5
<1> QED  BY <1>1, LogInvInit, LogInvStep, PTL DEF LogSpec

-----------------------------------------------------------------------------
(* The words about the broker.                                             *)

\* What the messages tell of the broker: g[0] when those not yet handled begin, g[i] after
\* the i-th of them, and at their end what the polls know.  A word that did arrive, or is
\* being posted, agrees with it unless one was missed since.
InFlight == posting["loop"].kind \in Words
Known == IF lost THEN "down" ELSE "up"
Said == IF lastWord = "none" THEN "up" ELSE lastWord
Tells(g) ==
    /\ g[Len(alerts)] = Known
    /\ \A i \in DOMAIN alerts :
          IF alerts[i] \in Words THEN g[i] = alerts[i] /\ g[i - 1] # alerts[i]
          ELSE g[i] = g[i - 1]
    /\ InFlight => g[0] = posting["loop"].kind
    /\ ~missed => (InFlight <=> g[0] # Said)

WordsTold == \E g \in [0..Len(alerts) -> Words] : Tells(g)
WordsTypes == lost \in BOOLEAN /\ missed \in BOOLEAN /\ lastWord \in Words \cup {"none"}
WordsInv == CountInv /\ WordsTypes /\ WordsTold

LEMMA WordsInvInit == AlertInit => WordsInv
<1> SUFFICES ASSUME AlertInit PROVE WordsInv
  OBVIOUS
<1>1. CountInv
  BY CountInvInit
<1> USE DEF AlertInit
<1>2. WordsTypes
  BY DEF WordsTypes
<1> DEFINE g == [i \in 0..0 |-> "up"]
<1>3. Len(alerts) = 0 /\ DOMAIN alerts = {}
  OBVIOUS
<1>4. ~InFlight
  <2>1. posting["loop"].kind = "none"
    BY DEF Callers, Nothing
  <2> QED  BY <2>1 DEF InFlight, Words
<1>5. g \in [0..Len(alerts) -> Words] /\ g[0] = "up"
  BY <1>3 DEF Words
<1>6. Tells(g)
  <2> HIDE DEF g
  <2> QED  BY <1>3, <1>4, <1>5 DEF Tells, Known, Said
<1>7. WordsTold
  BY <1>5, <1>6 DEF WordsTold
<1> QED  BY <1>1, <1>2, <1>7 DEF WordsInv

\* A word is raised when what the polls know changes, and only then.
LEMMA RaisedWords ==
    ASSUME WordsInv, NEW k \in Keys, alerts' = Append(alerts, k), lost' \in BOOLEAN,
           IF k \in Words THEN Known' = k /\ Known # k ELSE Known' = Known,
           UNCHANGED <<posting, missed, lastWord>>
    PROVE  WordsTypes' /\ WordsTold'
<1>0. WordsTypes /\ alerts \in Seq(Keys)
  BY DEF WordsInv, CountInv, CountTypes
<1>1. PICK g \in [0..Len(alerts) -> Words] : Tells(g)
  BY DEF WordsInv, WordsTold
<1> DEFINE n == Len(alerts)
<1>2. n \in Nat /\ Len(alerts') = n + 1 /\ DOMAIN alerts = 1..n /\ DOMAIN alerts' = 1..(n + 1)
      /\ alerts'[n + 1] = k /\ \A i \in 1..n : alerts'[i] = alerts[i]
  BY <1>0
<1>3. WordsTypes' /\ Known' \in Words
  BY <1>0 DEF WordsTypes, Known, Words
<1>4. g \in [0..n -> Words] /\ g[n] = Known
  BY <1>1 DEF Tells
<1> HIDE DEF n
<1>5. PICK h \in [0..(n + 1) -> Words] : h = [i \in 0..(n + 1) |-> IF i = n + 1 THEN Known' ELSE g[i]]
  BY <1>2, <1>3, <1>4
<1>6. h[n + 1] = Known' /\ h[n] = Known /\ h[0] = g[0]
      /\ \A i \in 1..n : h[i] = g[i] /\ h[i - 1] = g[i - 1]
  BY <1>2, <1>4, <1>5
<1>7. Tells(h)'
  <2>1. \A i \in 1..n : IF alerts'[i] \in Words THEN h[i] = alerts'[i] /\ h[i - 1] # alerts'[i]
                         ELSE h[i] = h[i - 1]
    <3>1. \A i \in 1..n : IF alerts[i] \in Words THEN g[i] = alerts[i] /\ g[i - 1] # alerts[i]
                           ELSE g[i] = g[i - 1]
      BY <1>1, <1>2 DEF Tells
    <3> QED  BY <1>2, <1>6, <3>1
  <2>2. IF k \in Words THEN h[n + 1] = k /\ h[n] # k ELSE h[n + 1] = h[n]
    BY <1>6
  <2>3. \A i \in DOMAIN alerts' : i \in 1..n \/ (i = n + 1 /\ i - 1 = n)
    BY <1>2
  <2>4. \A i \in DOMAIN alerts' :
           IF alerts'[i] \in Words THEN h[i] = alerts'[i] /\ h[i - 1] # alerts'[i]
           ELSE h[i] = h[i - 1]
    BY <1>2, <2>1, <2>2, <2>3
  <2>5. InFlight' = InFlight /\ Said' = Said /\ missed' = missed
    BY DEF InFlight, Said
  <2>6. (InFlight => g[0] = posting["loop"].kind) /\ (~missed => (InFlight <=> g[0] # Said))
    BY <1>1 DEF Tells
  <2>7. (InFlight' => h[0] = posting'["loop"].kind) /\ (~missed' => (InFlight' <=> h[0] # Said'))
    BY <1>6, <2>5, <2>6
  <2>8. h[Len(alerts')] = Known'
    BY <1>2, <1>6
  <2> QED  BY <2>4, <2>7, <2>8 DEF Tells
<1>8. WordsTold'
  BY <1>2, <1>5, <1>7 DEF WordsTold
<1> QED  BY <1>3, <1>8

\* Nothing but the way of the messages to the phone moves: the words stay as told.
LEMMA StillWords ==
    ASSUME WordsInv, UNCHANGED <<alerts, lost, missed, lastWord>>,
           posting'["loop"] = posting["loop"]
    PROVE  WordsTypes' /\ WordsTold'
BY DEF WordsInv, WordsTypes, WordsTold, Tells, InFlight, Known, Said

\* The loop takes a message: what it posts is under way, and another word is missed.
LEMMA TakenWords ==
    ASSUME WordsInv, ~InFlight, alerts # <<>>, alerts' = Tail(alerts),
           lost' = lost, lastWord' = lastWord,
           \/ posting'["loop"].kind \notin Words /\ missed' = (missed \/ Head(alerts) \in Words)
           \/ posting'["loop"].kind = Head(alerts) /\ missed' = missed
    PROVE  WordsTypes' /\ WordsTold'
<1>0. WordsTypes /\ alerts \in Seq(Keys)
  BY DEF WordsInv, CountInv, CountTypes
<1>1. PICK g \in [0..Len(alerts) -> Words] : Tells(g)
  BY DEF WordsInv, WordsTold
<1> DEFINE n == Len(alerts)
<1>2. n \in Nat /\ n # 0 /\ n - 1 \in Nat /\ DOMAIN alerts = 1..n
      /\ Len(alerts') = n - 1 /\ DOMAIN alerts' = 1..(n - 1)
      /\ alerts[1] = Head(alerts) /\ \A i \in 1..(n - 1) : alerts'[i] = alerts[i + 1]
  BY <1>0
<1>3. WordsTypes'
  BY <1>0 DEF WordsTypes
<1>4. g \in [0..n -> Words] /\ g[n] = Known
  BY <1>1 DEF Tells
<1>5. \A i \in 1..n : IF alerts[i] \in Words THEN g[i] = alerts[i] /\ g[i - 1] # alerts[i]
                     ELSE g[i] = g[i - 1]
  BY <1>1, <1>2 DEF Tells
<1>6. ~missed => g[0] = Said
  BY <1>1 DEF Tells
<1> HIDE DEF n
<1>7. PICK h \in [0..(n - 1) -> Words] : h = [i \in 0..(n - 1) |-> g[i + 1]]
  <2>1. \A i \in 0..(n - 1) : i + 1 \in 0..n
    BY <1>2
  <2> QED  BY <1>4, <2>1
<1>8. h[0] = g[1] /\ h[n - 1] = g[n]
      /\ \A i \in 1..(n - 1) : h[i] = g[i + 1] /\ h[i - 1] = g[i]
  BY <1>2, <1>7
<1>9. IF Head(alerts) \in Words THEN h[0] = Head(alerts) /\ g[0] # Head(alerts)
      ELSE h[0] = g[0]
  <2>1. 1 \in 1..n /\ 1 - 1 = 0
    BY <1>2
  <2> QED  BY <1>2, <1>5, <1>8, <2>1
<1>10. \A i \in 1..(n - 1) :
          IF alerts'[i] \in Words THEN h[i] = alerts'[i] /\ h[i - 1] # alerts'[i]
          ELSE h[i] = h[i - 1]
  <2>1. \A i \in 1..(n - 1) : i + 1 \in 1..n /\ (i + 1) - 1 = i
    BY <1>2
  <2> QED  BY <1>2, <1>5, <1>8, <2>1
<1>11. Said' = Said /\ Known' = Known
  BY DEF Said, Known
<1>12. (InFlight' => h[0] = posting'["loop"].kind) /\ (~missed' => (InFlight' <=> h[0] # Said'))
  <2>1. CASE posting'["loop"].kind \notin Words /\ missed' = (missed \/ Head(alerts) \in Words)
    <3>1. ~InFlight' /\ (~missed' => ~missed /\ Head(alerts) \notin Words)
      BY <2>1 DEF InFlight
    <3> QED  BY <1>6, <1>9, <1>11, <3>1
  <2>2. CASE posting'["loop"].kind = Head(alerts) /\ missed' = missed
    <3>1. InFlight' <=> Head(alerts) \in Words
      BY <2>2 DEF InFlight
    <3> QED  BY <1>6, <1>9, <1>11, <2>2, <3>1
  <2> QED  BY <2>1, <2>2
<1>13. Tells(h)'
  <2>1. h[Len(alerts')] = Known'
    BY <1>2, <1>4, <1>8, <1>11
  <2> QED  BY <1>2, <1>10, <1>12, <2>1 DEF Tells
<1>14. WordsTold'
  BY <1>2, <1>7, <1>13 DEF WordsTold
<1> QED  BY <1>3, <1>14

\* The post of the loop ends: its word has arrived, or is missed.
LEMMA EndedWords ==
    ASSUME WordsInv, NEW w, w = posting["loop"].kind, posting'["loop"].kind \notin Words,
           alerts' = alerts, lost' = lost,
           \/ w \in Words /\ lastWord' = w /\ missed' = FALSE
           \/ lastWord' = lastWord /\ missed' = (missed \/ w \in Words)
    PROVE  WordsTypes' /\ WordsTold'
<1>0. WordsTypes
  BY DEF WordsInv
<1>1. PICK g \in [0..Len(alerts) -> Words] : Tells(g)
  BY DEF WordsInv, WordsTold
<1>2. WordsTypes'
  BY <1>0 DEF WordsTypes
<1>3. ~InFlight' /\ Known' = Known /\ (InFlight <=> w \in Words)
  BY DEF InFlight, Known
<1>4. ~missed' => g[0] = Said'
  <2>1. CASE w \in Words /\ lastWord' = w /\ missed' = FALSE
    <3>1. Said' = w
      BY <2>1 DEF Said, Words
    <3>2. g[0] = w
      BY <1>1, <1>3, <2>1 DEF Tells
    <3> QED  BY <3>1, <3>2
  <2>2. CASE lastWord' = lastWord /\ missed' = (missed \/ w \in Words)
    <3>1. Said' = Said /\ (~missed' => ~missed /\ ~InFlight)
      BY <1>3, <2>2 DEF Said
    <3> QED  BY <1>1, <3>1 DEF Tells
  <2> QED  BY <2>1, <2>2
<1>5. Tells(g)'
  BY <1>1, <1>3, <1>4 DEF Tells
<1> QED  BY <1>1, <1>2, <1>5 DEF WordsTold

LEMMA WordsInvStep == WordsInv /\ [AlertNext]_alertVars => WordsInv'
<1> SUFFICES ASSUME WordsInv, [AlertNext]_alertVars PROVE WordsTypes' /\ WordsTold'
  BY CountInvStep DEF WordsInv
<1>0. WordsTypes /\ CountTypes /\ PostsOfTheirOwn /\ alerts \in Seq(Keys)
  BY DEF WordsInv, CountInv, CountTypes
<1>1. CASE TimePasses
  BY <1>1, StillWords DEF TimePasses, pollVarsOfBroker, phoneVars
<1>2. CASE PollSucceeds
  <2>1. CASE lost
    <3>1. "up" \in Keys /\ "up" \in Words /\ Known = "down" /\ Known' = "up"
      BY <1>2, <2>1 DEF Keys, Words, Known, PollSucceeds
    <3>2. alerts' = Append(alerts, "up") /\ lost' = FALSE
          /\ UNCHANGED <<posting, missed, lastWord>>
      BY <1>2, <2>1 DEF PollSucceeds, RaiseIf, Raise, phoneVars
    <3> QED  BY <3>1, <3>2, RaisedWords
  <2>2. CASE ~lost
    <3>1. alerts' = alerts /\ lost' = lost
          /\ UNCHANGED <<posting, missed, lastWord>>
      BY <1>0, <1>2, <2>2 DEF PollSucceeds, RaiseIf, phoneVars, WordsTypes
    <3> QED  BY <3>1, StillWords
  <2> QED  BY <2>1, <2>2
<1>3. CASE PollFails
  <2> DEFINE n == IF failures < Threshold THEN failures + 1 ELSE failures
  <2>0. lost' = (lost \/ IsLost(n)) /\ RaiseIf(IsLost(n), "down")
        /\ UNCHANGED <<posting, missed, lastWord>>
    BY <1>3 DEF PollFails, phoneVars
  <2> HIDE DEF n
  <2>1. CASE IsLost(n)
    <3>1. lost' = TRUE /\ lost = FALSE /\ alerts' = Append(alerts, "down")
      BY <1>0, <2>0, <2>1 DEF IsLost, RaiseIf, Raise, WordsTypes
    <3>2. "down" \in Keys /\ "down" \in Words /\ Known = "up" /\ Known' = "down"
      BY <3>1 DEF Keys, Words, Known
    <3> QED  BY <2>0, <3>1, <3>2, RaisedWords
  <2>2. CASE ~IsLost(n)
    <3>1. lost' = lost /\ alerts' = alerts
      BY <1>0, <2>0, <2>2 DEF RaiseIf, WordsTypes
    <3> QED  BY <2>0, <3>1, StillWords
  <2> QED  BY <2>1, <2>2
<1>4. CASE AgentAsks
  <2>1. alerts' = Append(alerts, "other") /\ lost' = lost
        /\ UNCHANGED <<posting, missed, lastWord>>
    BY <1>4 DEF AgentAsks, Raise, pollVarsOfBroker, phoneVars
  <2>2. "other" \in Keys /\ "other" \notin Words /\ Known' = Known /\ lost' \in BOOLEAN
    BY <1>0, <2>1 DEF Keys, Words, Known, WordsTypes
  <2> QED  BY <2>1, <2>2, RaisedWords
<1>5. CASE Handle
  <2> DEFINE k == Head(alerts)
  <2>1. posting["loop"] = Nothing /\ alerts # <<>> /\ alerts' = Tail(alerts)
        /\ lost' = lost /\ lastWord' = lastWord /\ Notify("loop", k)
    BY <1>5 DEF Handle, pollVarsOfBroker, phoneVars
  <2>2. ~InFlight
    <3>1. Nothing.kind \notin Words
      BY DEF Nothing, Words
    <3> QED  BY <2>1, <3>1 DEF InFlight
  <2>3. CASE Suppress(k) \/ GiveUp(k)
    <3>1. posting' = posting /\ missed' = (missed \/ k \in Words)
      BY <2>3 DEF Suppress, GiveUp, Misses
    <3>2. posting'["loop"].kind \notin Words
      BY <2>2, <3>1 DEF InFlight
    <3> QED  BY <2>1, <2>2, <3>1, <3>2, TakenWords
  <2>4. CASE Post("loop", k)
    <3>1. missed' = missed /\ DOMAIN posting = Callers /\ "loop" \in Callers
      BY <1>0, <2>4 DEF Post, CountTypes, Callers
    <3>2. posting'["loop"].kind = k
      BY <2>4, <3>1 DEF Post
    <3> QED  BY <2>1, <2>2, <3>1, <3>2, TakenWords
  <2> QED  BY <2>1, <2>3, <2>4 DEF Notify
<1>6. CASE SendTest
  <2>1. posting'["loop"] = posting["loop"] /\ missed' = missed
    <3>1. "test" \notin Words /\ "test" \notin Keys /\ DOMAIN posting = Callers
          /\ "loop" \in Callers /\ "loop" # "api"
      BY <1>0 DEF Words, Keys, CountTypes, Callers
    <3>2. Suppress("test") \/ GiveUp("test") \/ Post("api", "test")
      BY <1>6 DEF SendTest, Notify
    <3> QED  BY <1>0, <3>1, <3>2 DEF Suppress, GiveUp, Post, Misses, WordsTypes
  <2> QED  BY <1>6, <2>1, StillWords DEF SendTest, pollVarsOfBroker, phoneVars
<1>7. ASSUME NEW c \in Callers, Arrives(c) \/ PostFails(c) PROVE WordsTypes' /\ WordsTold'
  <2> DEFINE w == posting[c].kind
             word == w \in Words /\ ~posting[c].notice
  <2>1. posting' = [posting EXCEPT ![c] = Nothing] /\ DOMAIN posting = Callers
        /\ alerts' = alerts /\ lost' = lost
    BY <1>0, <1>7 DEF Arrives, PostFails, pollVarsOfBroker, CountTypes
  <2>2. \/ word /\ lastWord' = w /\ missed' = FALSE
        \/ lastWord' = lastWord /\ missed' = (missed \/ w \in Words)
    BY <1>7 DEF Arrives, PostFails, Misses, phoneVars
  <2>3. CASE c = "loop"
    <3>1. posting'["loop"].kind \notin Words
      BY <2>1, <2>3 DEF Nothing, Words
    <3> QED  BY <2>1, <2>2, <2>3, <3>1, EndedWords
  <2>4. CASE c = "api"
    <3>1. w \notin Words
      BY <1>0, <2>4 DEF PostsOfTheirOwn, Keys
    <3>2. posting'["loop"] = posting["loop"]
      BY <2>1, <2>4 DEF Callers
    <3>3. lastWord' = lastWord /\ missed' = missed
      BY <1>0, <2>2, <3>1 DEF WordsTypes
    <3> QED  BY <2>1, <3>2, <3>3, StillWords
  <2> QED  BY <2>3, <2>4 DEF Callers
<1>8. CASE UNCHANGED alertVars
  BY <1>8, StillWords DEF alertVars
<1> QED  BY <1>1, <1>2, <1>3, <1>4, <1>5, <1>6, <1>7, <1>8 DEF AlertNext

\* The phone is told of losses and recoveries in turn, whatever is suppressed, over the cap,
\* fails, or is posted in between, as long as none of these words was itself missed.
THEOREM LossesAndRecoveriesInTurn == AlertSpec => WordsAlternate
<1>1. WordsInv /\ [AlertNext]_alertVars =>
        [\A c \in Callers :
          posting[c].kind \in Words /\ ~posting[c].notice /\ phone' # phone
             /\ posting'[c] # posting[c] =>
                missed \/ (posting[c].kind # lastWord
                           /\ (lastWord = "none" => posting[c].kind = "down"))]_alertVars
  <2> SUFFICES ASSUME WordsInv, AlertNext, NEW c \in Callers,
                      posting[c].kind \in Words, ~missed
               PROVE  posting[c].kind # lastWord
                      /\ (lastWord = "none" => posting[c].kind = "down")
    OBVIOUS
  <2>1. c = "loop"
    BY DEF WordsInv, CountInv, PostsOfTheirOwn, Keys, Callers
  <2>2. PICK g : Tells(g)
    BY DEF WordsInv, WordsTold
  <2>3. posting[c].kind # Said
    BY <2>1, <2>2 DEF Tells, InFlight
  <2> QED  BY <2>3 DEF Said, Words
<1> QED  BY <1>1, WordsInvInit, WordsInvStep, PTL DEF AlertSpec, WordsAlternate

-----------------------------------------------------------------------------
(* The types of the notifications.                                         *)

\* What is suppressed was asked for, and no longer waits.
SuppressedWereAsked ==
    \A k \in Keys : recent[k].suppressed + Len(alerts) <= asked

AlertInv == AlertTypeOK /\ SuppressedWereAsked

LEMMA AlertInvInit == AlertInit => AlertInv
<1> SUFFICES ASSUME AlertInit PROVE AlertInv
  OBVIOUS
<1> USE AlertingAssumption DEF AlertInit
<1>1. /\ <<>> \in Seq(Keys) /\ <<>> \in Seq(0..MaxClock) /\ Len(<<>>) = 0
      /\ 0 \in 0..MaxClock /\ 0 \in 0..MaxAlerts /\ 0 \in 0..Threshold /\ 0 \in Int
      /\ Never \in 0..Never
  BY DEF Never
<1>2. /\ recent \in [Keys -> [at: 0..Never, suppressed: 0..MaxAlerts]]
      /\ posting \in [Callers -> Posts \cup {Nothing}]
      /\ owed \in [Keys -> Int]
  BY <1>1
<1>3. AlertTypeOK
  BY <1>1, <1>2 DEF AlertTypeOK
<1>4. SuppressedWereAsked
  BY <1>1 DEF SuppressedWereAsked
<1> QED  BY <1>3, <1>4 DEF AlertInv

LEMMA LastPart ==
    ASSUME NEW S, NEW s \in Seq(S), NEW d \in 1..(Len(s) + 1)
    PROVE  SubSeq(s, d, Len(s)) \in Seq(S)
  OBVIOUS

LEMMA RaiseTyped ==
    ASSUME AlertInv, NEW k \in Keys, Raise(k), recent' = recent
    PROVE  /\ alerts' \in Seq(Keys) /\ asked' \in 0..MaxAlerts
           /\ SuppressedWereAsked'
<1>1. /\ alerts \in Seq(Keys) /\ asked \in 0..MaxAlerts /\ MaxAlerts \in Nat
      /\ \A q \in Keys : recent[q].suppressed \in Nat
      /\ asked < MaxAlerts /\ asked' = asked + 1 /\ alerts' = Append(alerts, k)
  BY AlertingAssumption DEF AlertInv, AlertTypeOK, Raise
<1>2. alerts' \in Seq(Keys) /\ Len(alerts') = Len(alerts) + 1 /\ Len(alerts) \in Nat
  BY <1>1
<1>3. asked' \in 0..MaxAlerts
  BY <1>1
<1>4. ASSUME NEW q \in Keys PROVE recent'[q].suppressed + Len(alerts') <= asked'
  <2>1. recent[q].suppressed + Len(alerts) <= asked
    BY DEF AlertInv, SuppressedWereAsked
  <2> QED  BY <1>1, <1>2, <2>1
<1> QED  BY <1>2, <1>3, <1>4 DEF SuppressedWereAsked

\* What notify() leaves behind.
LEMMA NotifyTyped ==
    ASSUME AlertInv, NEW c \in Callers, NEW topic \in Kinds, Notify(c, topic),
           clock' = clock
    PROVE  /\ sent' \in Seq(0..MaxClock) /\ capTold' \in BOOLEAN
           /\ posting' \in [Callers -> Posts \cup {Nothing}]
           /\ missed' \in BOOLEAN
           /\ owed' \in [Keys -> Int]
           /\ recent' \in [Keys -> [at: 0..Never, suppressed: Nat]]
           /\ \A k \in Keys :
                 \/ recent'[k].suppressed = recent[k].suppressed
                 \/ topic = k /\ recent'[k].suppressed = recent[k].suppressed + 1
<1>1. /\ AlertTypeOK /\ MaxAlerts \in Nat /\ MaxClock \in Nat /\ Never \in Nat
      /\ clock \in 0..MaxClock
      /\ recent \in [Keys -> [at: 0..Never, suppressed: 0..MaxAlerts]]
      /\ recent \in [Keys -> [at: 0..Never, suppressed: Nat]]
  <2>1. AlertTypeOK /\ MaxAlerts \in Nat /\ MaxClock \in Nat
    BY AlertingAssumption DEF AlertInv
  <2>2. 0..MaxAlerts \subseteq Nat
    BY <2>1
  <2> QED  BY <2>1, <2>2 DEF AlertTypeOK, Never
<1>2. Counted \in Seq(0..MaxClock)
  <2>1. sent \in Seq(0..MaxClock) /\ sent \in Seq(Nat) /\ clock \in Nat
    <3>1. sent \in Seq(0..MaxClock) /\ 0..MaxClock \subseteq Nat
      BY <1>1 DEF AlertTypeOK
    <3> QED  BY <1>1, <3>1
  <2>2. PICK d \in 1..(Len(sent) + 1) : Counted = SubSeq(sent, d, Len(sent))
    BY <2>1, CountedIsTail
  <2> QED  BY <2>1, <2>2, LastPart
<1>3. \A n \in Int : Owe(topic, n) => owed' \in [Keys -> Int]
  BY <1>1 DEF Owe, AlertTypeOK
<1>4. CASE Suppress(topic)
  <2>1. topic \in Keys /\ recent' = [recent EXCEPT ![topic].suppressed = @ + 1]
    BY <1>4 DEF Suppress, Repeated
  <2>2. /\ recent' \in [Keys -> [at: 0..Never, suppressed: Nat]]
        /\ \A k \in Keys : recent'[k].suppressed =
              IF k = topic THEN recent[k].suppressed + 1 ELSE recent[k].suppressed
    <3> DEFINE r == recent[topic]
    <3>1. r \in [at: 0..Never, suppressed: Nat]
      BY <1>1, <2>1
    <3> HIDE DEF r
    <3>2. /\ [r EXCEPT !.suppressed = @ + 1] \in [at: 0..Never, suppressed: Nat]
          /\ [r EXCEPT !.suppressed = @ + 1].suppressed = r.suppressed + 1
      BY <3>1
    <3>3. recent' = [recent EXCEPT ![topic] = [r EXCEPT !.suppressed = @ + 1]]
      BY <2>1 DEF r
    <3> QED  BY <1>1, <2>1, <3>2, <3>3 DEF r
  <2>3. missed' \in BOOLEAN
    BY <1>4 DEF Suppress, Misses
  <2>4. owed' \in [Keys -> Int]
    BY <1>3, <1>4 DEF Suppress
  <2> QED  BY <1>1, <1>4, <2>2, <2>3, <2>4 DEF Suppress, AlertTypeOK
<1>5. CASE GiveUp(topic)
  <2>1. missed' \in BOOLEAN
    BY <1>5 DEF GiveUp, Misses
  <2> QED  BY <1>1, <1>2, <1>5, <2>1 DEF GiveUp, AlertTypeOK
<1>6. CASE Post(c, topic)
  <2> DEFINE post == [kind |-> topic, notice |-> ~WithinLimit, at |-> clock,
                      repeats |-> IF topic \in Keys THEN recent[topic].suppressed ELSE 0]
  <2>1. posting' = [posting EXCEPT ![c] = post] /\ recent' = recent
    BY <1>6 DEF Post
  <2>2. (~WithinLimit) \in BOOLEAN
    BY DEF WithinLimit
  <2>3. (IF topic \in Keys THEN recent[topic].suppressed ELSE 0) \in 0..MaxAlerts
    BY <1>1
  <2>4. post \in Posts
    BY <1>1, <2>2, <2>3 DEF Posts
  <2> HIDE DEF post
  <2>5. posting' \in [Callers -> Posts \cup {Nothing}]
    BY <1>1, <2>1, <2>4 DEF AlertTypeOK
  <2>6. owed' \in [Keys -> Int] /\ capTold' \in BOOLEAN
    BY <1>3, <1>6, <2>2 DEF Post
  <2> QED  BY <1>1, <1>2, <1>6, <2>1, <2>5, <2>6 DEF Post, AlertTypeOK
<1> QED  BY <1>4, <1>5, <1>6 DEF Notify

LEMMA AlertInvStep == AlertInv /\ [AlertNext]_alertVars => AlertInv'
<1> SUFFICES ASSUME AlertInv, [AlertNext]_alertVars PROVE AlertInv'
  OBVIOUS
<1>1. /\ AlertTypeOK /\ SuppressedWereAsked
      /\ MaxAlerts \in Nat /\ MaxClock \in Nat /\ Threshold \in Nat \ {0} /\ Never \in Nat
      /\ alerts \in Seq(Keys) /\ asked \in 0..MaxAlerts /\ failures \in 0..Threshold
      /\ clock \in 0..MaxClock
  BY AlertingAssumption DEF AlertInv, AlertTypeOK, Never
<1>2. {"up", "down", "other"} \subseteq Keys /\ Keys \subseteq Kinds /\ "test" \in Kinds
  BY DEF Keys, Words, Kinds
<1>3. CASE TimePasses
  <2>1. clock' \in 0..MaxClock
    BY <1>1, <1>3 DEF TimePasses
  <2> QED  BY <1>1, <1>3, <2>1 DEF TimePasses, AlertInv, AlertTypeOK, SuppressedWereAsked,
                                   pollVarsOfBroker, phoneVars
<1>4. CASE PollSucceeds
  <2>0. /\ failures' = 0 /\ lost' = FALSE
        /\ UNCHANGED <<clock, recent, sent, capTold, posting, phone, lastWord, missed, owed>>
    BY <1>4 DEF PollSucceeds, phoneVars
  <2>1. /\ failures' \in 0..Threshold /\ lost' \in BOOLEAN
        /\ UNCHANGED <<clock, recent, sent, capTold, posting, phone, lastWord, missed, owed>>
    <3>1. 0 \in 0..Threshold
      BY <1>1
    <3> QED  BY <2>0, <3>1
  <2>2. alerts' \in Seq(Keys) /\ asked' \in 0..MaxAlerts /\ SuppressedWereAsked'
    <3>1. CASE Raise("up")
      BY <1>2, <2>1, <3>1, RaiseTyped
    <3>2. CASE UNCHANGED <<alerts, asked>>
      BY <1>1, <2>1, <3>2 DEF SuppressedWereAsked
    <3> QED  BY <1>4, <3>1, <3>2 DEF PollSucceeds, RaiseIf
  <2> QED  BY <1>1, <2>1, <2>2 DEF AlertInv, AlertTypeOK
<1>5. CASE PollFails
  <2>1. /\ failures' \in 0..Threshold
        /\ UNCHANGED <<clock, recent, sent, capTold, posting, phone, lastWord, missed, owed>>
    BY <1>1, <1>5 DEF PollFails, phoneVars
  <2>2. lost' \in BOOLEAN
    BY <1>5 DEF PollFails
  <2>3. alerts' \in Seq(Keys) /\ asked' \in 0..MaxAlerts /\ SuppressedWereAsked'
    <3>1. CASE Raise("down")
      BY <1>2, <2>1, <3>1, RaiseTyped
    <3>2. CASE UNCHANGED <<alerts, asked>>
      BY <1>1, <2>1, <3>2 DEF SuppressedWereAsked
    <3> QED  BY <1>5, <3>1, <3>2 DEF PollFails, RaiseIf
  <2> QED  BY <1>1, <2>1, <2>2, <2>3 DEF AlertInv, AlertTypeOK
<1>6. CASE AgentAsks
  <2>1. alerts' \in Seq(Keys) /\ asked' \in 0..MaxAlerts /\ SuppressedWereAsked'
    BY <1>2, <1>6, RaiseTyped DEF AgentAsks
  <2> QED  BY <1>1, <1>6, <2>1 DEF AgentAsks, AlertInv, AlertTypeOK, pollVarsOfBroker, phoneVars
<1>7. CASE Handle
  <2> DEFINE topic == Head(alerts)
  <2>1. topic \in Keys /\ alerts' \in Seq(Keys) /\ Len(alerts') = Len(alerts) - 1
        /\ Len(alerts) \in Nat
    BY <1>1, <1>7 DEF Handle
  <2>2. /\ Notify("loop", topic) /\ topic \in Kinds /\ "loop" \in Callers
        /\ UNCHANGED <<clock, failures, lost, phone, lastWord, asked>>
    BY <1>2, <1>7, <2>1 DEF Handle, Callers, pollVarsOfBroker, phoneVars
  <2> HIDE DEF topic
  <2>3. /\ sent' \in Seq(0..MaxClock) /\ capTold' \in BOOLEAN
        /\ posting' \in [Callers -> Posts \cup {Nothing}]
        /\ missed' \in BOOLEAN
        /\ owed' \in [Keys -> Int]
        /\ recent' \in [Keys -> [at: 0..Never, suppressed: Nat]]
        /\ \A k \in Keys :
              \/ recent'[k].suppressed = recent[k].suppressed
              \/ topic = k /\ recent'[k].suppressed = recent[k].suppressed + 1
    BY <2>2, NotifyTyped
  <2>4. SuppressedWereAsked'
    <3> SUFFICES ASSUME NEW k \in Keys
                 PROVE  recent'[k].suppressed + Len(alerts') <= asked'
      BY DEF SuppressedWereAsked
    <3>1. recent[k].suppressed \in Nat /\ asked' = asked /\ asked \in Nat
      BY <1>1, <2>2 DEF AlertTypeOK
    <3>2. recent[k].suppressed + Len(alerts) <= asked
      BY <1>1 DEF SuppressedWereAsked
    <3>3. recent'[k].suppressed = recent[k].suppressed
          \/ recent'[k].suppressed = recent[k].suppressed + 1
      BY <2>3
    <3> QED  BY <2>1, <3>1, <3>2, <3>3
  <2>5. recent' \in [Keys -> [at: 0..Never, suppressed: 0..MaxAlerts]]
    <3> SUFFICES ASSUME NEW k \in Keys
                 PROVE  recent'[k] \in [at: 0..Never, suppressed: 0..MaxAlerts]
      BY <2>3
    <3>1. recent'[k] \in [at: 0..Never, suppressed: Nat]
      BY <2>3
    <3>2. recent'[k].suppressed + Len(alerts') <= asked /\ Len(alerts') \in Nat
      <4>1. Len(alerts') \in Nat
        BY <2>1
      <4> QED  BY <2>2, <2>4, <4>1 DEF SuppressedWereAsked
    <3>3. recent'[k].suppressed \in 0..MaxAlerts
      BY <1>1, <3>1, <3>2
    <3> QED  BY <3>1, <3>3
  <2> QED  BY <1>1, <2>1, <2>2, <2>3, <2>4, <2>5 DEF AlertInv, AlertTypeOK
<1>8. CASE SendTest
  <2>1. /\ Notify("api", "test") /\ "api" \in Callers
        /\ asked' = asked + 1 /\ asked' \in 0..MaxAlerts
        /\ UNCHANGED <<clock, failures, lost, phone, lastWord, alerts>>
    BY <1>1, <1>8 DEF SendTest, Callers, pollVarsOfBroker, phoneVars
  <2>2. /\ sent' \in Seq(0..MaxClock) /\ capTold' \in BOOLEAN
        /\ posting' \in [Callers -> Posts \cup {Nothing}]
        /\ missed' \in BOOLEAN
        /\ owed' \in [Keys -> Int]
    BY <1>2, <2>1, NotifyTyped
  <2>3. recent' = recent
    <3>1. "test" \notin Keys
      BY DEF Keys, Words
    <3> QED  BY <2>1, <3>1 DEF Notify, Suppress, Repeated, GiveUp, Post
  <2>4. SuppressedWereAsked'
    <3> SUFFICES ASSUME NEW k \in Keys
                 PROVE  recent'[k].suppressed + Len(alerts') <= asked'
      BY DEF SuppressedWereAsked
    <3>1. recent[k].suppressed \in Nat /\ asked \in Nat /\ Len(alerts) \in Nat
      BY <1>1 DEF AlertTypeOK
    <3>2. recent[k].suppressed + Len(alerts) <= asked
      BY <1>1 DEF SuppressedWereAsked
    <3> QED  BY <2>1, <2>3, <3>1, <3>2
  <2> QED  BY <1>1, <2>1, <2>2, <2>3, <2>4 DEF AlertInv, AlertTypeOK
<1>9. ASSUME NEW c \in Callers, Arrives(c) \/ PostFails(c) PROVE AlertInv'
  <2> DEFINE post == posting[c]
  <2>1. post \in Posts /\ posting' = [posting EXCEPT ![c] = Nothing]
        /\ UNCHANGED <<clock, failures, lost, alerts, capTold, asked>>
    BY <1>1, <1>9 DEF Arrives, PostFails, AlertTypeOK, pollVarsOfBroker
  <2>2. posting' \in [Callers -> Posts \cup {Nothing}]
    BY <1>1, <2>1 DEF AlertTypeOK
  <2>3. post.at \in 0..MaxClock /\ post.repeats \in Nat /\ post.kind \in Kinds
    BY <1>1, <2>1 DEF Posts
  <2> HIDE DEF post
  <2>4. ASSUME NEW n \in Int, Owe(post.kind, n) PROVE owed' \in [Keys -> Int]
    <3>1. owed \in [Keys -> Int]
      BY <1>1 DEF AlertTypeOK
    <3>2. CASE post.kind \in Keys
      <4>1. owed[post.kind] + n \in Int
        BY <3>1, <3>2
      <4>2. owed' = [owed EXCEPT ![post.kind] = owed[post.kind] + n]
        BY <2>4, <3>2 DEF Owe
      <4> QED  BY <3>1, <4>1, <4>2
    <3>3. CASE post.kind \notin Keys
      BY <2>4, <3>1, <3>3 DEF Owe
    <3> QED  BY <3>2, <3>3
  <2>5. owed' \in [Keys -> Int]
    <3>1. -1 - post.repeats \in Int /\ -1 \in Int
      BY <2>3
    <3>2. Owe(post.kind, -1 - post.repeats) \/ Owe(post.kind, -1)
      BY <1>9 DEF Arrives, PostFails, post
    <3> QED  BY <2>4, <3>1, <3>2
  <2>6. missed' \in BOOLEAN /\ lastWord' \in Words \cup {"none"}
    <3>1. CASE Arrives(c)
      BY <1>1, <3>1 DEF Arrives, AlertTypeOK, post
    <3>2. CASE PostFails(c)
      BY <1>1, <3>2 DEF PostFails, AlertTypeOK, Misses, phoneVars
    <3> QED  BY <1>9, <3>1, <3>2
  <2>7. sent' \in Seq(0..MaxClock) /\ phone' \in Seq(0..MaxClock)
    <3>1. sent \in Seq(0..MaxClock) /\ phone \in Seq(0..MaxClock)
      BY <1>1 DEF AlertTypeOK
    <3>2. CASE Arrives(c)
      <4>1. sent' = Append(sent, post.at) /\ phone' = Append(phone, post.at)
        BY <3>2 DEF Arrives, post
      <4> QED  BY <2>3, <3>1, <4>1
    <3>3. CASE PostFails(c)
      BY <3>1, <3>3 DEF PostFails, phoneVars
    <3> QED  BY <1>9, <3>2, <3>3
  <2>8. /\ recent' \in [Keys -> [at: 0..Never, suppressed: 0..MaxAlerts]]
        /\ \A k \in Keys : recent'[k].suppressed \in {0, recent[k].suppressed}
    <3>1. recent \in [Keys -> [at: 0..Never, suppressed: 0..MaxAlerts]]
      BY <1>1 DEF AlertTypeOK
    <3>2. CASE Arrives(c)
      <4>1. recent' = IF post.kind \in Keys
                      THEN [recent EXCEPT ![post.kind] = [at |-> post.at, suppressed |-> 0]]
                      ELSE recent
        BY <3>2 DEF Arrives, Marked, post
      <4>2. [at |-> post.at, suppressed |-> 0] \in [at: 0..Never, suppressed: 0..MaxAlerts]
        <5>1. post.at \in 0..Never
          BY <1>1, <2>3 DEF Never
        <5> QED  BY <1>1, <5>1
      <4> QED  BY <3>1, <4>1, <4>2
    <3>3. CASE PostFails(c)
      BY <3>1, <3>3 DEF PostFails
    <3> QED  BY <1>9, <3>2, <3>3
  <2>9. SuppressedWereAsked'
    <3> SUFFICES ASSUME NEW k \in Keys
                 PROVE  recent'[k].suppressed + Len(alerts') <= asked'
      BY DEF SuppressedWereAsked
    <3>1. recent[k].suppressed \in Nat /\ asked \in Nat /\ Len(alerts) \in Nat
      BY <1>1 DEF AlertTypeOK
    <3>2. recent[k].suppressed + Len(alerts) <= asked
      BY <1>1 DEF SuppressedWereAsked
    <3> QED  BY <2>1, <2>8, <3>1, <3>2
  <2> QED  BY <1>1, <2>1, <2>2, <2>5, <2>6, <2>7, <2>8, <2>9 DEF AlertInv, AlertTypeOK
<1>10. CASE UNCHANGED alertVars
  BY <1>1, <1>10 DEF alertVars, AlertInv, AlertTypeOK, SuppressedWereAsked
<1> QED  BY <1>3, <1>4, <1>5, <1>6, <1>7, <1>8, <1>9, <1>10 DEF AlertNext

-----------------------------------------------------------------------------
(* All of them beside each other.                                          *)

LEMMA OnePartMoves ==
    ASSUME [ServicesNext]_servicesVars
    PROVE  /\ [CandleNext]_candleVars /\ [MirrorNext]_mirrorVars /\ [AlertNext]_alertVars
           /\ [HealthNext]_healthVars /\ [ToolNext]_toolVars /\ [TurnNext]_turnVars
           /\ [MemoryNext]_memoryVars /\ [LogNext]_eventVars /\ [TermsNext]_termVars
           /\ part' = part
BY DEF ServicesNext, servicesVars

\* Each of the services that TLC checks side by side is, whatever the others do, the one
\* that its own theorems are about.
THEOREM ServicesAreParts ==
    ServicesSpec => /\ CandleSpec /\ MirrorSpec /\ AlertSpec /\ HealthSpec /\ ToolSpec
                    /\ TurnSpec /\ MemorySpec /\ LogSpec /\ TermsSpec
<1>1. ServicesInit => /\ CandleInit /\ MirrorInit /\ AlertInit /\ HealthInit /\ ToolInit
                      /\ TurnInit /\ MemoryInit /\ LogInit /\ TermsInit
  BY DEF ServicesInit
<1>2. [ServicesNext]_servicesVars =>
         /\ [CandleNext]_candleVars /\ [MirrorNext]_mirrorVars /\ [AlertNext]_alertVars
         /\ [HealthNext]_healthVars /\ [ToolNext]_toolVars /\ [TurnNext]_turnVars
         /\ [MemoryNext]_memoryVars /\ [LogNext]_eventVars /\ [TermsNext]_termVars
  BY OnePartMoves
<1> QED
  BY <1>1, <1>2, PTL DEF ServicesSpec, CandleSpec, MirrorSpec, AlertSpec, HealthSpec, ToolSpec,
                         TurnSpec, MemorySpec, LogSpec, TermsSpec

\* The variables of every service are what their comments say: no queue, count or time
\* leaves its range, whatever the order of polls, posts, calls and passes.
THEOREM ServicesTyped == ServicesSpec => []ServicesTypeOK
<1> DEFINE Inv ==
       /\ part \in Parts
       /\ CandleInv /\ MirrorInv /\ AlertInv /\ HealthInv /\ ToolInv
       /\ TurnInv /\ MemoryInv /\ LogInv /\ TermsInv
<1>1. ServicesInit => Inv
  BY CandleInvInit, MirrorInvInit, AlertInvInit, HealthInvInit, ToolInvInit, TurnInvInit,
     MemoryInvInit, LogInvInit, TermsInvInit DEF ServicesInit
<1>2. Inv /\ [ServicesNext]_servicesVars => Inv'
  <2> SUFFICES ASSUME Inv, [ServicesNext]_servicesVars PROVE Inv'
    OBVIOUS
  <2>1. CandleInv' /\ MirrorInv' /\ AlertInv'
    BY OnePartMoves, CandleInvStep, MirrorInvStep, AlertInvStep
  <2>2. HealthInv' /\ ToolInv' /\ TurnInv'
    BY OnePartMoves, HealthInvStep, ToolInvStep, TurnInvStep
  <2>3. MemoryInv' /\ LogInv' /\ TermsInv'
    BY OnePartMoves, MemoryInvStep, LogInvStep, TermsInvStep
  <2>4. part' \in Parts
    BY OnePartMoves
  <2> QED  BY <2>1, <2>2, <2>3, <2>4
<1>3. Inv => ServicesTypeOK
  BY CandleInvTypes
     DEF ServicesTypeOK, MirrorInv, AlertInv, HealthInv, ToolInv, TurnInv, MemoryInv, LogInv,
         TermsInv
<1> QED  BY <1>1, <1>2, <1>3, PTL DEF ServicesSpec
=============================================================================
