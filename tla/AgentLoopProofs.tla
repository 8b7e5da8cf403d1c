-------------------------- MODULE AgentLoopProofs --------------------------
(***************************************************************************)
(* What holds of AgentLoop for every set of agents, questions and models,  *)
(* every AnyCandle divider and every size of the inboxes.                  *)
(***************************************************************************)
EXTENDS AgentLoop, TLAPS

-----------------------------------------------------------------------------
(* Types.                                                                  *)

LEMMA DividerPositive == Divider \in Nat /\ 0 < Divider
BY AgentLoopAssumption

LEMMA SetCycle ==
    ASSUME NEW a \in Agents, NEW t \in Tasks, NEW c \in Cycle,
           cycle \in [Agents -> [Tasks -> Cycle]],
           cycle' = [cycle EXCEPT ![a][t] = c]
    PROVE  /\ cycle' \in [Agents -> [Tasks -> Cycle]]
           /\ cycle'[a][t] = c
           /\ \A b \in Agents, u \in Tasks :
                 b # a \/ u # t => cycle'[b][u] = cycle[b][u]
<1>1. cycle' = [cycle EXCEPT ![a] = [cycle[a] EXCEPT ![t] = c]]
  OBVIOUS
<1>2. [cycle[a] EXCEPT ![t] = c] \in [Tasks -> Cycle]
  OBVIOUS
<1>3. QED
  BY <1>1, <1>2

LEMMA OffTyped == Off \in Cycle
BY DEF Off, Cycle

LEMMA BegunTyped ==
    ASSUME NEW trigger \in {"timer", "candle", "event", "query"},
           NEW q \in Queries \cup {None}
    PROVE  Begun(trigger, q) \in Cycle
BY DEF Begun, Cycle

LEMMA InitTyped == Init => TypeOK
<1> SUFFICES ASSUME Init PROVE TypeOK
  OBVIOUS
<1>1. cycle \in [Agents -> [Tasks -> Cycle]]
  BY OffTyped DEF Init
<1>2. /\ inbox \in [Agents -> Seq(Message)]
      /\ \A a \in Agents : Len(inbox[a]) <= Capacity
  BY AgentLoopAssumption DEF Init
<1>3. /\ count \in [Agents -> 0..Divider]
      /\ streak \in [Agents -> Nat]
  BY AgentLoopAssumption DEF Init
<1>4. post \in [Queries -> [from: Agents \cup {Api, None}, to: Agents \cup {None},
                           llm: Models \cup {None}]]
  BY DEF Init
<1>5. QED
  BY <1>1, <1>2, <1>3, <1>4, AgentLoopAssumption DEF Init, TypeOK

\* Appending to an inbox with room keeps it an inbox.
LEMMA AppendTyped ==
    ASSUME TypeOK, NEW a \in Agents, NEW m \in Message, Len(inbox[a]) < Capacity,
           inbox' = [inbox EXCEPT ![a] = Append(inbox[a], m)]
    PROVE  /\ inbox' \in [Agents -> Seq(Message)]
           /\ \A b \in Agents : Len(inbox'[b]) <= Capacity
<1>1. inbox[a] \in Seq(Message) /\ \A b \in Agents : Len(inbox[b]) <= Capacity
  BY DEF TypeOK
<1>2. /\ Append(inbox[a], m) \in Seq(Message)
      /\ Len(Append(inbox[a], m)) = Len(inbox[a]) + 1
  BY <1>1
<1>3. Len(inbox[a]) \in Nat /\ Capacity \in Nat
  BY <1>1, AgentLoopAssumption
<1>4. \A b \in Agents : inbox'[b] = IF b = a THEN Append(inbox[a], m) ELSE inbox[b]
  BY DEF TypeOK
<1>5. QED
  BY <1>1, <1>2, <1>3, <1>4 DEF TypeOK

LEMMA TakesTyped ==
    ASSUME TypeOK, NEW a \in Agents, NEW kind, Takes(a, kind)
    PROVE  /\ inbox' \in [Agents -> Seq(Message)]
           /\ \A b \in Agents : Len(inbox'[b]) <= Capacity
           /\ Head(inbox[a]) \in Message
           /\ Head(inbox[a]).kind = kind
<1>1. inbox[a] \in Seq(Message) /\ inbox[a] # <<>>
  BY DEF TypeOK, Takes
<1>2. /\ Head(inbox[a]) \in Message
      /\ Tail(inbox[a]) \in Seq(Message)
      /\ Len(Tail(inbox[a])) = Len(inbox[a]) - 1
      /\ Len(inbox[a]) \in Nat
  BY <1>1
<1>3. \A b \in Agents : Len(inbox[b]) <= Capacity
  BY DEF TypeOK
<1>4. \A b \in Agents : inbox'[b] = IF b = a THEN Tail(inbox[a]) ELSE inbox[b]
  BY DEF TypeOK, Takes
<1>5. Len(Tail(inbox[a])) <= Capacity
  BY <1>2, <1>3, AgentLoopAssumption
<1>6. QED
  BY <1>2, <1>3, <1>4, <1>5 DEF TypeOK, Takes

LEMMA ArrivesTyped ==
    ASSUME TypeOK, NEW a \in Agents, NEW m \in Message, Arrives(a, m)
    PROVE  TypeOK'
<1>1. /\ inbox' \in [Agents -> Seq(Message)]
      /\ \A b \in Agents : Len(inbox'[b]) <= Capacity
  BY AppendTyped DEF Arrives
<1>2. QED
  BY <1>1 DEF Arrives, TypeOK, model, questions, history

LEMMA FeedTyped ==
    ASSUME TypeOK, NEW a \in Agents,
           CandleArrives(a) \/ EventArrives(a) \/ ConfigArrives(a)
    PROVE  TypeOK'
<1>1. PICK m \in Message : Arrives(a, m)
  BY DEF CandleArrives, EventArrives, ConfigArrives, Message
<1>2. QED
  BY <1>1, ArrivesTyped

LEMMA PublishTyped ==
    ASSUME TypeOK, NEW q \in Queries, NEW from \in Agents \cup {Api},
           NEW to \in Agents, NEW m \in Models \cup {None}, Publish(q, from, to, m)
    PROVE  /\ post' \in [Queries -> [from: Agents \cup {Api, None},
                                     to: Agents \cup {None},
                                     llm: Models \cup {None}]]
           /\ call' \in [Queries -> {"unused", "waiting", "answered", "expired"}]
           /\ wire' \subseteq [kind: {"query", "answer"}, id: Queries]
BY DEF TypeOK, Publish

LEMMA QuestionTyped ==
    ASSUME TypeOK, NEW q \in Queries,
           ApiAsks(q) \/ DeliverQuery(q) \/ DeliverAnswer(q) \/ Expire(q),
           [kind |-> "query", id |-> q] \in wire => post[q].to \in Agents
    PROVE  TypeOK'
<1>1. CASE ApiAsks(q)
  <2>1. PICK a \in Agents, m \in Models \cup {None} : Publish(q, Api, a, m)
    BY <1>1 DEF ApiAsks
  <2>2. QED
    BY <1>1, <2>1, PublishTyped DEF ApiAsks, TypeOK, model, history
<1>2. CASE DeliverQuery(q)
  <2>1. post[q].to \in Agents
    BY <1>2 DEF DeliverQuery
  <2>2. [kind |-> "query", id |-> q] \in Message
    BY DEF Message
  <2>3. /\ inbox' \in [Agents -> Seq(Message)]
        /\ \A b \in Agents : Len(inbox'[b]) <= Capacity
    BY <1>2, <2>1, <2>2, AppendTyped DEF DeliverQuery, TypeOK
  <2>4. wire' \subseteq [kind: {"query", "answer"}, id: Queries]
    BY <1>2 DEF DeliverQuery, TypeOK
  <2>5. QED
    BY <1>2, <2>3, <2>4 DEF DeliverQuery, TypeOK, model, history
<1>3. CASE DeliverAnswer(q)
  <2>1. /\ call' \in [Queries -> {"unused", "waiting", "answered", "expired"}]
        /\ wire' \subseteq [kind: {"query", "answer"}, id: Queries]
    BY <1>3 DEF DeliverAnswer, TypeOK
  <2>2. QED
    BY <1>3, <2>1 DEF DeliverAnswer, TypeOK, model, history
<1>4. CASE Expire(q)
  <2>1. call' \in [Queries -> {"unused", "waiting", "answered", "expired"}]
    BY <1>4 DEF Expire, TypeOK
  <2>2. QED
    BY <1>4, <2>1 DEF Expire, TypeOK, model, history
<1>5. QED
  BY <1>1, <1>2, <1>3, <1>4

LEMMA StartsTyped ==
    ASSUME TypeOK, NEW a \in Agents, NEW t \in Tasks,
           NEW trigger \in {"timer", "candle", "event", "query"},
           NEW q \in Queries \cup {None}, Starts(a, t, trigger, q)
    PROVE  /\ lock' \in [Agents -> Tasks \cup {"free"}]
           /\ cycle' \in [Agents -> [Tasks -> Cycle]]
           /\ cycle'[a][t] = Begun(trigger, q)
           /\ \A b \in Agents, u \in Tasks :
                 b # a \/ u # t => cycle'[b][u] = cycle[b][u]
<1>1. Begun(trigger, q) \in Cycle
  BY BegunTyped
<1>2. cycle \in [Agents -> [Tasks -> Cycle]] /\ cycle' = [cycle EXCEPT ![a][t] = Begun(trigger, q)]
  BY DEF TypeOK, Starts
<1>3. lock' \in [Agents -> Tasks \cup {"free"}]
  BY DEF TypeOK, Starts
<1>4. /\ cycle' \in [Agents -> [Tasks -> Cycle]]
      /\ cycle'[a][t] = Begun(trigger, q)
      /\ \A b \in Agents, u \in Tasks :
            b # a \/ u # t => cycle'[b][u] = cycle[b][u]
  BY ONLY <1>1, <1>2, SetCycle, a \in Agents, t \in Tasks
<1>5. QED
  BY <1>3, <1>4

LEMMA TaskTyped ==
    ASSUME TypeOK, NEW a \in Agents, TimerTick(a) \/ StartQuery(a) \/ Take(a)
    PROVE  TypeOK'
<1>1. CASE TimerTick(a)
  BY <1>1, StartsTyped DEF TimerTick, TypeOK, Tasks, model, questions, history
<1>2. CASE StartQuery(a)
  <2>1. waits[a] \in Queries /\ post[waits[a]].llm \in Models \cup {None}
    BY <1>2 DEF StartQuery, TypeOK
  <2>2. /\ lock' \in [Agents -> Tasks \cup {"free"}]
        /\ cycle' \in [Agents -> [Tasks -> Cycle]]
    BY <1>2, <2>1, StartsTyped DEF StartQuery, Tasks
  <2>3. /\ llm' \in [Agents -> Models]
        /\ saved' \in [Agents -> Models \cup {None}]
        /\ waits' \in [Agents -> Queries \cup {None}]
    BY <1>2, <2>1 DEF StartQuery, TypeOK
  <2>4. QED
    BY <1>2, <2>2, <2>3 DEF StartQuery, TypeOK, questions, history
<1>3. CASE TakeQuery(a)
  <2>1. Head(inbox[a]).id \in Queries
    BY <1>3, TakesTyped DEF TakeQuery, Message
  <2>2. waits' \in [Agents -> Queries \cup {None}]
    BY <1>3, <2>1 DEF TakeQuery, TypeOK
  <2>3. QED
    BY <1>3, <2>2, TakesTyped DEF TakeQuery, TypeOK, model, questions, history
<1>4. CASE TakeConfig(a)
  <2>1. Head(inbox[a]).llm \in Models
    BY <1>4, TakesTyped DEF TakeConfig, Message
  <2>2. /\ llm' \in [Agents -> Models]
        /\ setting' \in [Agents -> Models]
    BY <1>4, <2>1 DEF TakeConfig, TypeOK
  <2>3. /\ count' \in [Agents -> 0..Divider]
        /\ streak' \in [Agents -> Nat]
        /\ owed' \in [Agents -> {"nothing", "next", "lost"}]
    BY <1>4, AgentLoopAssumption DEF TakeConfig, TypeOK, Forgotten
  <2>4. QED
    BY <1>4, <2>2, <2>3, TakesTyped DEF TakeConfig, TypeOK, questions
<1>5. CASE TakeEvent(a)
  <2>1. /\ lock' \in [Agents -> Tasks \cup {"free"}]
        /\ cycle' \in [Agents -> [Tasks -> Cycle]]
    BY <1>5, StartsTyped DEF TakeEvent, Tasks, TypeOK
  <2>2. QED
    BY <1>5, <2>1, TakesTyped DEF TakeEvent, TypeOK, model, questions, history
<1>6. CASE TakeCandle(a)
  <2> DEFINE m == Head(inbox[a])
             due == m.force \/ Due(a)
  <2>1. m.force \in BOOLEAN /\ m.inSession \in BOOLEAN
    BY <1>6, TakesTyped DEF TakeCandle, Message
  <2>2. count[a] \in 0..Divider /\ streak[a] \in Nat
    BY DEF TypeOK
  <2>3. CountAfter(a, due) \in 0..Divider
    BY <2>2, AgentLoopAssumption DEF CountAfter, Due
  <2>4. count' \in [Agents -> 0..Divider]
    BY <1>6, <2>3 DEF TakeCandle, TypeOK
  <2>5. streak' \in [Agents -> Nat]
    BY <1>6, <2>2 DEF TakeCandle, TypeOK
  <2>6. owed' \in [Agents -> {"nothing", "next", "lost"}]
    BY <1>6, <2>1 DEF TakeCandle, TypeOK, Forgotten
  <2>7. /\ lock' \in [Agents -> Tasks \cup {"free"}]
        /\ cycle' \in [Agents -> [Tasks -> Cycle]]
    BY <1>6, StartsTyped DEF TakeCandle, Tasks, TypeOK
  <2>8. QED
    BY <1>6, <2>4, <2>5, <2>6, <2>7, TakesTyped
       DEF TakeCandle, TypeOK, model, questions
<1>7. QED
  BY <1>1, <1>2, <1>3, <1>4, <1>5, <1>6 DEF Take

-----------------------------------------------------------------------------
(* The inductive invariant.  Types alone are not one: the model put back    *)
(* after a question is what the handler saved before it.                   *)

\* A task with a cycle holds the agent's lock.
Serial == \A a \in Agents, t \in Tasks : cycle[a][t] # Off => lock[a] = t

\* Only the message loop answers questions.
QueryTask ==
    \A a \in Agents :
        /\ cycle[a]["timer"].query = None
        /\ \A t \in Tasks : cycle[a][t].trigger = "query" <=> cycle[a][t].query # None

\* The configured model is in use, or saved by the handler of a question.
ModelKept ==
    \A a \in Agents :
        IF cycle[a]["messages"].query = None
        THEN llm[a] = setting[a]
        ELSE saved[a] = setting[a]

\* A question under way has a target.
Addressed ==
    \A q \in Queries : [kind |-> "query", id |-> q] \in wire => post[q].to \in Agents

\* The candles that the divider alone kept from a cycle are all counted, and a
\* promised cycle is due.
Counted ==
    \A a \in Agents :
        /\ streak[a] <= count[a]
        /\ streak[a] < Divider
        /\ owed[a] = "next" => count[a] + 1 >= Divider

LoopInv == TypeOK /\ Serial /\ QueryTask /\ ModelKept /\ Addressed /\ Counted

LEMMA InitInv == Init => LoopInv
<1> SUFFICES ASSUME Init PROVE LoopInv
  OBVIOUS
<1>1. Serial /\ QueryTask /\ ModelKept
  BY DEF Init, Serial, QueryTask, ModelKept, Tasks, Off
<1>2. Addressed
  BY DEF Init, Addressed
<1>3. Counted
  <2>1. \A a \in Agents : streak[a] = 0 /\ count[a] = 0
    BY DEF Init
  <2>2. \A a \in Agents : owed[a] # "next"
    BY DEF Init
  <2>3. 0 <= 0 /\ 0 < Divider
    BY DividerPositive
  <2>4. QED
    BY <2>1, <2>2, <2>3, Zenon DEF Counted
<1>4. QED
  BY <1>1, <1>2, <1>3, InitTyped DEF LoopInv

\* A cycle begins where none runs.
LEMMA StartsKeeps ==
    ASSUME LoopInv, NEW a \in Agents, NEW t \in Tasks,
           NEW trigger \in {"timer", "candle", "event", "query"},
           NEW q \in Queries \cup {None}, Starts(a, t, trigger, q),
           lock[a] = "free", trigger = "query" <=> q # None, t = "timer" => q = None
    PROVE  Serial' /\ QueryTask'
<1>1. /\ cycle'[a][t] = Begun(trigger, q)
      /\ \A b \in Agents, u \in Tasks :
            b # a \/ u # t => cycle'[b][u] = cycle[b][u]
  BY StartsTyped DEF LoopInv
<1>2. \A b \in Agents : lock'[b] = IF b = a THEN t ELSE lock[b]
  BY DEF Starts, LoopInv, TypeOK
<1>3. \A u \in Tasks : cycle[a][u] = Off
  BY DEF LoopInv, Serial, Tasks
<1>4. Serial'
  BY <1>1, <1>2, <1>3 DEF Serial, LoopInv
<1>5. QueryTask'
  BY <1>1 DEF QueryTask, LoopInv, Begun, Tasks
<1>6. QED
  BY <1>4, <1>5

\* A running cycle goes on.
LEMMA GoesKeeps ==
    ASSUME LoopInv, NEW a \in Agents, NEW t \in Tasks, NEW c \in Cycle,
           cycle[a][t] # Off, Goes(a, t, c), UNCHANGED <<lock, model>>,
           c.trigger = cycle[a][t].trigger, c.query = cycle[a][t].query
    PROVE  /\ cycle' \in [Agents -> [Tasks -> Cycle]]
           /\ Serial' /\ QueryTask' /\ ModelKept'
<1>1. /\ cycle' \in [Agents -> [Tasks -> Cycle]]
      /\ cycle'[a][t] = c
      /\ \A b \in Agents, u \in Tasks :
            b # a \/ u # t => cycle'[b][u] = cycle[b][u]
  BY SetCycle DEF Goes, LoopInv, TypeOK
<1>2. Serial'
  BY <1>1 DEF Serial, LoopInv
<1>3. \A b \in Agents, u \in Tasks : /\ cycle'[b][u].query = cycle[b][u].query
                                     /\ cycle'[b][u].trigger = cycle[b][u].trigger
  BY <1>1
<1>4. QueryTask'
  BY <1>3 DEF QueryTask, LoopInv, Tasks
<1>5. ModelKept'
  BY <1>3 DEF ModelKept, LoopInv, Tasks, model
<1>6. QED
  BY <1>1, <1>2, <1>4, <1>5

\* A cycle ends: the lock is free, and the agent has its own model again.
LEMMA EndsKeeps ==
    ASSUME LoopInv, NEW a \in Agents, NEW t \in Tasks, NEW answers \in BOOLEAN,
           cycle[a][t] # Off, Ends(a, t, answers)
    PROVE  /\ cycle' \in [Agents -> [Tasks -> Cycle]]
           /\ lock' \in [Agents -> Tasks \cup {"free"}]
           /\ llm' \in [Agents -> Models]
           /\ saved' \in [Agents -> Models \cup {None}]
           /\ setting' \in [Agents -> Models]
           /\ wire' \subseteq [kind: {"query", "answer"}, id: Queries]
           /\ outcome' \in [Queries -> {"none", "answered", "silent"}]
           /\ Serial' /\ QueryTask' /\ ModelKept'
           /\ \A q \in Queries : [kind |-> "query", id |-> q] \in wire' =>
                                   [kind |-> "query", id |-> q] \in wire
<1> DEFINE q == cycle[a][t].query
<1>1. /\ cycle' \in [Agents -> [Tasks -> Cycle]]
      /\ cycle'[a][t] = Off
      /\ \A b \in Agents, u \in Tasks :
            b # a \/ u # t => cycle'[b][u] = cycle[b][u]
  BY SetCycle, OffTyped DEF Ends, Goes, LoopInv, TypeOK
<1>2. \A b \in Agents : lock'[b] = IF b = a THEN "free" ELSE lock[b]
  BY DEF Ends, LoopInv, TypeOK
<1>3. \A u \in Tasks : u # t => cycle[a][u] = Off
  BY DEF LoopInv, Serial
<1>4. Serial'
  BY <1>1, <1>2, <1>3 DEF Serial, LoopInv
<1>5. QueryTask'
  BY <1>1 DEF QueryTask, LoopInv, Off, Tasks
<1>6. cycle[a][t] \in Cycle /\ q \in Queries \cup {None}
  BY DEF LoopInv, TypeOK, Cycle
<1>7. CASE q = None
  <2>1. UNCHANGED <<llm, saved, setting, wire, outcome>>
    BY <1>7 DEF Ends, model
  <2>2. ModelKept'
    BY <1>1, <1>3, <1>7, <2>1 DEF ModelKept, LoopInv, Off, Tasks
  <2>3. lock' \in [Agents -> Tasks \cup {"free"}]
    BY DEF Ends, LoopInv, TypeOK
  <2>4. QED
    BY <1>1, <1>4, <1>5, <2>1, <2>2, <2>3 DEF LoopInv, TypeOK
<1>8. CASE q # None
  <2>1. t = "messages" /\ saved[a] = setting[a] /\ setting[a] \in Models
    BY <1>8 DEF LoopInv, QueryTask, ModelKept, Tasks, TypeOK
  <2>2. /\ llm' = [llm EXCEPT ![a] = saved[a]]
        /\ saved' = [saved EXCEPT ![a] = None]
        /\ UNCHANGED setting
        /\ wire' = wire \/ wire' = wire \cup {[kind |-> "answer", id |-> q]}
        /\ outcome' = [outcome EXCEPT ![q] = IF answers THEN "answered"
                                                       ELSE "silent"]
    BY <1>8 DEF Ends
  <2>3. /\ llm' \in [Agents -> Models]
        /\ saved' \in [Agents -> Models \cup {None}]
        /\ setting' \in [Agents -> Models]
    BY <2>1, <2>2 DEF LoopInv, TypeOK
  <2>4. ModelKept'
    BY <1>1, <2>1, <2>2 DEF ModelKept, LoopInv, TypeOK, Off, Tasks
  <2>5. /\ wire' \subseteq [kind: {"query", "answer"}, id: Queries]
        /\ outcome' \in [Queries -> {"none", "answered", "silent"}]
    BY <1>6, <1>8, <2>2 DEF LoopInv, TypeOK
  <2>6. \A p \in Queries : [kind |-> "query", id |-> p] \in wire' =>
                            [kind |-> "query", id |-> p] \in wire
    BY <2>2
  <2>7. lock' \in [Agents -> Tasks \cup {"free"}]
    BY DEF Ends, LoopInv, TypeOK
  <2>8. QED
    BY <1>1, <1>4, <1>5, <2>3, <2>4, <2>5, <2>6, <2>7
<1>9. QED
  BY <1>7, <1>8

-----------------------------------------------------------------------------
(* Every step keeps it.                                                    *)

LEMMA FeedKeeps ==
    ASSUME LoopInv, NEW a \in Agents,
           CandleArrives(a) \/ EventArrives(a) \/ ConfigArrives(a)
    PROVE  LoopInv'
<1>1. UNCHANGED <<count, lock, waits, cycle, model, paused, questions, history>>
  BY DEF CandleArrives, EventArrives, ConfigArrives, Arrives
<1>2. TypeOK'
  BY FeedTyped DEF LoopInv
<1>3. QED
  BY <1>1, <1>2 DEF LoopInv, Serial, QueryTask, ModelKept, Addressed, Counted,
                    model, questions, history

LEMMA QuestionKeeps ==
    ASSUME LoopInv, NEW q \in Queries,
           ApiAsks(q) \/ DeliverQuery(q) \/ DeliverAnswer(q) \/ Expire(q)
    PROVE  LoopInv'
<1>1. TypeOK'
  BY QuestionTyped DEF LoopInv, Addressed
<1>2. UNCHANGED <<count, lock, cycle, model, history>>
  BY DEF ApiAsks, DeliverQuery, DeliverAnswer, Expire
<1>3. Addressed'
  <2>1. CASE ApiAsks(q)
    BY <2>1 DEF ApiAsks, Publish, Addressed, LoopInv, TypeOK
  <2>2. CASE DeliverQuery(q) \/ DeliverAnswer(q) \/ Expire(q)
    BY <2>2 DEF DeliverQuery, DeliverAnswer, Expire, Addressed, LoopInv
  <2>3. QED
    BY <2>1, <2>2
<1>4. QED
  BY <1>1, <1>2, <1>3 DEF LoopInv, Serial, QueryTask, ModelKept, Counted, model, history

LEMMA TaskKeeps ==
    ASSUME LoopInv, NEW a \in Agents, TimerTick(a) \/ StartQuery(a) \/ Take(a)
    PROVE  LoopInv'
<1>1. TypeOK'
  BY TaskTyped DEF LoopInv
<1>2. Addressed'
  BY DEF TimerTick, StartQuery, Take, TakeQuery, TakeConfig, TakeEvent, TakeCandle,
         questions, Addressed, LoopInv
<1>3. CASE TimerTick(a)
  <2>1. Serial' /\ QueryTask'
    BY <1>3, StartsKeeps DEF TimerTick, Tasks
  <2>2. \A b \in Agents : cycle'[b]["messages"] = cycle[b]["messages"]
    BY <1>3, StartsTyped DEF TimerTick, Tasks, LoopInv
  <2>3. ModelKept' /\ Counted'
    BY <1>3, <2>2 DEF TimerTick, ModelKept, Counted, LoopInv, model, history
  <2>4. QED
    BY <1>1, <1>2, <2>1, <2>3 DEF LoopInv
<1>4. CASE StartQuery(a)
  <2>1. waits[a] \in Queries
    BY <1>4 DEF StartQuery, LoopInv, TypeOK
  <2>2. Serial' /\ QueryTask'
    BY <1>4, <2>1, StartsKeeps, AgentLoopAssumption DEF StartQuery, Tasks
  <2>3. /\ cycle'[a]["messages"] = Begun("query", waits[a])
        /\ \A b \in Agents : b # a => cycle'[b]["messages"] = cycle[b]["messages"]
    BY <1>4, <2>1, StartsTyped DEF StartQuery, Tasks, LoopInv
  <2>4. cycle[a]["messages"].query = None
    BY <1>4 DEF StartQuery, LoopInv, Serial, Tasks, Off
  <2>5. saved' = [saved EXCEPT ![a] = setting[a]] /\ UNCHANGED setting
    BY <1>4, <2>4 DEF StartQuery, LoopInv, ModelKept
  <2>6. \A b \in Agents : b # a => llm'[b] = llm[b] /\ saved'[b] = saved[b]
    BY <1>4 DEF StartQuery, LoopInv, TypeOK
  <2>7. saved'[a] = setting'[a] /\ waits[a] # None
    BY <1>4, <2>5 DEF StartQuery, LoopInv, TypeOK
  <2>8. ModelKept'
    BY <2>3, <2>5, <2>6, <2>7 DEF ModelKept, LoopInv, Begun
  <2>9. QED
    BY <1>1, <1>2, <1>4, <2>2, <2>8 DEF LoopInv, StartQuery, Counted, history
<1>5. CASE TakeQuery(a)
  BY <1>1, <1>2, <1>5 DEF TakeQuery, LoopInv, Serial, QueryTask, ModelKept, Counted,
                          model, history
<1>6. CASE TakeConfig(a)
  <2>1. cycle[a]["messages"].query = None
    BY <1>6 DEF TakeConfig, Takes, Off
  <2>2. ModelKept'
    BY <1>6, <2>1 DEF TakeConfig, ModelKept, LoopInv, TypeOK
  <2>3. \A b \in Agents :
            \/ streak'[b] = 0 /\ count'[b] = 0 /\ owed'[b] # "next"
            \/ streak'[b] = streak[b] /\ count'[b] = count[b] /\ owed'[b] = owed[b]
    BY <1>6 DEF TakeConfig, LoopInv, TypeOK, Forgotten
  <2>4. Counted'
    BY <2>3, DividerPositive DEF Counted, LoopInv
  <2>5. QED
    BY <1>1, <1>2, <1>6, <2>2, <2>4 DEF TakeConfig, LoopInv, Serial, QueryTask
<1>7. CASE TakeEvent(a)
  <2>1. CASE UNCHANGED <<lock, cycle>>
    BY <1>1, <1>2, <1>7, <2>1 DEF TakeEvent, LoopInv, Serial, QueryTask, ModelKept,
                                  Counted, model, history
  <2>2. CASE Starts(a, "messages", "event", None) /\ lock[a] = "free"
    <3>1. Serial' /\ QueryTask'
      BY <2>2, StartsKeeps DEF Tasks
    <3>2. \A b \in Agents : cycle'[b]["messages"].query = cycle[b]["messages"].query
      <4>1. cycle[a]["messages"] = Off
        BY <1>7 DEF TakeEvent, Takes
      <4>2. /\ cycle'[a]["messages"] = Begun("event", None)
           /\ \A b \in Agents : b # a => cycle'[b]["messages"] = cycle[b]["messages"]
        BY <2>2, StartsTyped DEF Tasks, LoopInv
      <4>3. QED
        BY <4>1, <4>2 DEF Begun, Off
    <3>3. ModelKept' /\ Counted'
      BY <1>7, <3>2 DEF TakeEvent, ModelKept, Counted, LoopInv, model, history
    <3>4. QED
      BY <1>1, <1>2, <3>1, <3>3 DEF LoopInv
  <2>3. QED
    BY <1>7, <2>1, <2>2 DEF TakeEvent
<1>8. CASE TakeCandle(a)
  <2> DEFINE m == Head(inbox[a])
             due == m.force \/ Due(a)
             free == ~paused /\ m.inSession /\ lock[a] = "free"
  <2>1. Serial' /\ QueryTask' /\ ModelKept'
    <3>1. CASE UNCHANGED <<lock, cycle>>
      BY <1>8, <3>1 DEF TakeCandle, LoopInv, Serial, QueryTask, ModelKept, model
    <3>2. CASE Starts(a, "messages", "candle", None) /\ lock[a] = "free"
      <4>1. Serial' /\ QueryTask'
        BY <3>2, StartsKeeps DEF Tasks
      <4>2. \A b \in Agents : cycle'[b]["messages"].query = cycle[b]["messages"].query
        <5>1. cycle[a]["messages"] = Off
          BY <1>8 DEF TakeCandle, Takes
        <5>2. /\ cycle'[a]["messages"] = Begun("candle", None)
             /\ \A b \in Agents : b # a => cycle'[b]["messages"] = cycle[b]["messages"]
          BY <3>2, StartsTyped DEF Tasks, LoopInv
        <5>3. QED
          BY <5>1, <5>2 DEF Begun, Off
      <4>3. QED
        BY <1>8, <4>1, <4>2 DEF TakeCandle, ModelKept, LoopInv, model
    <3>3. QED
      BY <1>8, <3>1, <3>2 DEF TakeCandle
  <2>2. /\ count[a] \in 0..Divider /\ streak[a] \in Nat
        /\ m.force \in BOOLEAN /\ m.inSession \in BOOLEAN
        /\ streak[a] <= count[a] /\ streak[a] < Divider
        /\ owed[a] = "next" => count[a] + 1 >= Divider
    <3>1. m \in Message /\ m.kind = "candle"
      BY <1>8, TakesTyped DEF TakeCandle, LoopInv
    <3>2. m.force \in BOOLEAN /\ m.inSession \in BOOLEAN
      BY <3>1 DEF Message
    <3>3. count[a] \in 0..Divider /\ streak[a] \in Nat
      BY DEF LoopInv, TypeOK
    <3>4. QED
      BY <3>2, <3>3 DEF LoopInv, Counted
  <2>3. /\ count'[a] = CountAfter(a, due)
        /\ streak'[a] = IF free /\ ~due THEN streak[a] + 1 ELSE 0
        /\ due /\ owed'[a] = "next" => ~paused /\ ~m.inSession
        /\ ~due => owed'[a] = owed[a]
    BY <1>8 DEF TakeCandle, LoopInv, TypeOK, Forgotten
  <2>4. /\ streak'[a] <= count'[a]
        /\ streak'[a] < Divider
        /\ owed'[a] = "next" => count'[a] + 1 >= Divider
    <3>1. CASE due
      <4>1. streak'[a] = 0 /\ count'[a] \in {0, Divider - 1}
        BY <2>3, <3>1 DEF CountAfter
      <4>2. owed'[a] = "next" => ~paused /\ ~m.inSession
        BY <2>3, <3>1
      <4>3. CASE ~paused /\ ~m.inSession /\ Divider > 1
        <5>1. count'[a] = Divider - 1
          BY <2>3, <3>1, <4>3 DEF CountAfter
        <5>2. QED
          BY <4>1, <5>1, DividerPositive
      <4>4. CASE ~(~paused /\ ~m.inSession)
        <5>1. owed'[a] # "next"
          BY <4>2, <4>4
        <5>2. streak'[a] <= count'[a] /\ streak'[a] < Divider
          BY <4>1, DividerPositive
        <5>3. QED
          BY <5>1, <5>2
      <4>5. CASE ~(Divider > 1)
        <5>1. Divider = 1
          BY <4>5, DividerPositive
        <5>2. QED
          BY <4>1, <5>1
      <4>6. QED
        BY <4>3, <4>4, <4>5
    <3>2. CASE ~due
      <4>1. count'[a] = count[a] + 1 /\ count[a] + 1 < Divider
        <5>1. count'[a] = count[a] + 1
          BY <2>3, <3>2 DEF CountAfter
        <5>2. ~Due(a)
          BY <3>2
        <5>3. QED
          BY <2>2, <5>1, <5>2, DividerPositive DEF Due
      <4>2. owed'[a] = owed[a] /\ streak'[a] \in {0, streak[a] + 1}
        BY <2>3, <3>2
      <4>3. QED
        BY <2>2, <4>1, <4>2, DividerPositive
    <3>3. QED
      BY <3>1, <3>2
  <2>5. \A b \in Agents : b # a => /\ streak'[b] = streak[b]
                                  /\ count'[b] = count[b]
                                  /\ owed'[b] = owed[b]
    BY <1>8 DEF TakeCandle, LoopInv, TypeOK
  <2>6. Counted'
    BY <2>4, <2>5 DEF Counted, LoopInv
  <2>7. QED
    BY <1>1, <1>2, <2>1, <2>6 DEF LoopInv
<1>9. QED
  BY <1>3, <1>4, <1>5, <1>6, <1>7, <1>8 DEF Take

LEMMA CycleStepKeeps ==
    ASSUME LoopInv, NEW a \in Agents, NEW t \in Tasks, CycleStep(a, t)
    PROVE  LoopInv'
<1>1. cycle[a][t] # Off /\ cycle[a][t] \in Cycle
  <2>1. cycle[a][t].pc \in {"begin", "think", "ask"}
    BY Zenon DEF CycleStep, CyclePaused, CycleBuilds, CycleCancelled, CycleAsks,
                 CycleHears, CycleDone, CycleWantsNextCandle
  <2>2. cycle[a][t].pc # Off.pc
    BY <2>1 DEF Off
  <2>3. QED
    BY <2>2 DEF LoopInv, TypeOK
<1>2. ASSUME NEW answers \in BOOLEAN, Ends(a, t, answers),
             UNCHANGED <<inbox, waits, paused, post, call>>,
             count' \in [Agents -> 0..Divider], owed' \in [Agents -> {"nothing", "next", "lost"}],
             UNCHANGED streak, Counted'
      PROVE  LoopInv'
  <2>1. /\ cycle' \in [Agents -> [Tasks -> Cycle]]
        /\ lock' \in [Agents -> Tasks \cup {"free"}]
        /\ llm' \in [Agents -> Models]
        /\ saved' \in [Agents -> Models \cup {None}]
        /\ setting' \in [Agents -> Models]
        /\ wire' \subseteq [kind: {"query", "answer"}, id: Queries]
        /\ outcome' \in [Queries -> {"none", "answered", "silent"}]
        /\ Serial' /\ QueryTask' /\ ModelKept'
        /\ \A q \in Queries : [kind |-> "query", id |-> q] \in wire' =>
                                [kind |-> "query", id |-> q] \in wire
    BY <1>1, <1>2, EndsKeeps
  <2>2. TypeOK'
    BY <1>2, <2>1 DEF LoopInv, TypeOK
  <2>3. Addressed'
    BY <1>2, <2>1 DEF LoopInv, Addressed
  <2>4. QED
    BY <1>2, <2>1, <2>2, <2>3 DEF LoopInv
<1>3. ASSUME NEW c \in Cycle, Goes(a, t, c),
             c.trigger = cycle[a][t].trigger, c.query = cycle[a][t].query,
             UNCHANGED <<inbox, count, lock, waits, model, paused, outcome, history>>,
             post' \in [Queries -> [from: Agents \cup {Api, None},
                                    to: Agents \cup {None},
                                    llm: Models \cup {None}]],
             call' \in [Queries -> {"unused", "waiting", "answered", "expired"}],
             wire' \subseteq [kind: {"query", "answer"}, id: Queries],
             Addressed'
      PROVE  LoopInv'
  <2>1. /\ cycle' \in [Agents -> [Tasks -> Cycle]]
        /\ Serial' /\ QueryTask' /\ ModelKept'
    BY <1>1, <1>3, GoesKeeps
  <2>2. TypeOK'
    BY <1>3, <2>1 DEF LoopInv, TypeOK, model, history
  <2>3. Counted'
    BY <1>3 DEF LoopInv, Counted, history
  <2>4. QED
    BY <1>3, <2>1, <2>2, <2>3 DEF LoopInv
<1>4. UNCHANGED history /\ UNCHANGED count => Counted'
  BY DEF LoopInv, Counted, history
<1>5. CASE CyclePaused(a, t) \/ CycleCancelled(a, t) \/ CycleDone(a, t)
  <2>1. UNCHANGED <<inbox, count, waits, paused, post, call, streak, owed>>
    BY <1>5 DEF CyclePaused, CycleCancelled, CycleDone, history
  <2>2. PICK answers \in BOOLEAN : Ends(a, t, answers)
    BY <1>5 DEF CyclePaused, CycleCancelled, CycleDone
  <2>3. Counted'
    BY <1>4, <2>1 DEF history
  <2>4. count' \in [Agents -> 0..Divider] /\ owed' \in [Agents -> {"nothing", "next", "lost"}]
    BY <2>1 DEF LoopInv, TypeOK
  <2>5. QED
    BY <1>2, <2>1, <2>2, <2>3, <2>4
<1>6. CASE CycleWantsNextCandle(a, t)
  <2>1. /\ Ends(a, t, TRUE)
        /\ UNCHANGED <<inbox, waits, paused, post, call, streak>>
        /\ count' = [count EXCEPT ![a] = Divider]
        /\ owed' = [owed EXCEPT ![a] = "next"]
    BY <1>6 DEF CycleWantsNextCandle
  <2>2. count' \in [Agents -> 0..Divider]
    BY <2>1, DividerPositive DEF LoopInv, TypeOK
  <2>3. owed' \in [Agents -> {"nothing", "next", "lost"}]
    BY <2>1 DEF LoopInv, TypeOK
  <2>4. \A b \in Agents : /\ streak'[b] <= count'[b]
                          /\ streak'[b] < Divider
    <3>1. \A b \in Agents : /\ count'[b] = IF b = a THEN Divider ELSE count[b]
                            /\ streak'[b] = streak[b]
                            /\ streak[b] \in Nat /\ count[b] \in 0..Divider
                            /\ streak[b] <= count[b] /\ streak[b] < Divider
      BY <2>1 DEF LoopInv, TypeOK, Counted
    <3>2. QED
      BY <3>1, DividerPositive
  <2>5. \A b \in Agents : owed'[b] = "next" => count'[b] + 1 >= Divider
    <3>1. TAKE b \in Agents
    <3>2. CASE b = a
      <4>1. count'[b] = Divider
        BY <2>1, <3>2 DEF LoopInv, TypeOK
      <4>2. count'[b] + 1 >= Divider
        BY <4>1, DividerPositive
      <4>3. QED
        BY <4>2
    <3>3. CASE b # a
      <4>1. count'[b] = count[b] /\ owed'[b] = owed[b]
        BY <2>1, <3>3 DEF LoopInv, TypeOK
      <4>2. QED
        BY <4>1 DEF LoopInv, Counted
    <3>4. QED
      BY <3>2, <3>3
  <2>6. Counted'
    BY <2>4, <2>5 DEF Counted
  <2>7. QED
    BY <1>2, <2>1, <2>2, <2>3, <2>6
<1>7. CASE CycleBuilds(a, t)
  <2> DEFINE c == [cycle[a][t] EXCEPT !.pc = "think"]
  <2>1. Goes(a, t, c) /\ UNCHANGED <<inbox, count, lock, waits, model, paused, post, call,
                                     wire, outcome, history>>
    BY <1>7 DEF CycleBuilds, questions
  <2>2. c \in Cycle /\ c.trigger = cycle[a][t].trigger /\ c.query = cycle[a][t].query
    BY <1>1 DEF Cycle
  <2>3. Addressed'
    BY <2>1 DEF LoopInv, Addressed
  <2> HIDE DEF c
  <2>4. QED
    BY <1>3, <2>1, <2>2, <2>3 DEF LoopInv, TypeOK
<1>8. CASE CycleHears(a, t)
  <2> DEFINE c == [cycle[a][t] EXCEPT !.pc = "think", !.ask = None]
  <2>1. Goes(a, t, c) /\ UNCHANGED <<inbox, count, lock, waits, model, paused, post, call,
                                     wire, outcome, history>>
    BY <1>8 DEF CycleHears, questions
  <2>2. c \in Cycle /\ c.trigger = cycle[a][t].trigger /\ c.query = cycle[a][t].query
    BY <1>1 DEF Cycle
  <2>3. Addressed'
    BY <2>1 DEF LoopInv, Addressed
  <2> HIDE DEF c
  <2>4. QED
    BY <1>3, <2>1, <2>2, <2>3 DEF LoopInv, TypeOK
<1>9. ASSUME NEW q \in Queries, CycleAsks(a, t, q) PROVE LoopInv'
  <2> DEFINE c == [cycle[a][t] EXCEPT !.pc = "ask", !.ask = q]
  <2>1. /\ Goes(a, t, c)
        /\ UNCHANGED <<inbox, count, lock, waits, model, paused, outcome, history>>
    BY <1>9 DEF CycleAsks
  <2>2. c \in Cycle /\ c.trigger = cycle[a][t].trigger /\ c.query = cycle[a][t].query
    BY <1>1 DEF Cycle
  <2>3. PICK b \in Agents : Publish(q, a, b, None)
    BY <1>9 DEF CycleAsks
  <2>4. /\ post' \in [Queries -> [from: Agents \cup {Api, None},
                                  to: Agents \cup {None},
                                  llm: Models \cup {None}]]
        /\ call' \in [Queries -> {"unused", "waiting", "answered", "expired"}]
        /\ wire' \subseteq [kind: {"query", "answer"}, id: Queries]
    BY <2>3, PublishTyped DEF LoopInv
  <2>5. Addressed'
    BY <2>3 DEF Publish, Addressed, LoopInv, TypeOK
  <2> HIDE DEF c
  <2>6. QED
    BY <1>3, <2>1, <2>2, <2>4, <2>5
<1>10. QED
  BY <1>5, <1>6, <1>7, <1>8, <1>9 DEF CycleStep

\* Every step of the agents keeps LoopInv.
LEMMA StepInv == LoopInv /\ [Next]_vars => LoopInv'
<1> SUFFICES ASSUME LoopInv, [Next]_vars PROVE LoopInv'
  OBVIOUS
<1>1. CASE UNCHANGED vars
  BY <1>1 DEF vars, LoopInv, TypeOK, Serial, QueryTask, ModelKept, Addressed, Counted
<1>2. CASE TogglePause
  <2>1. UNCHANGED <<inbox, count, lock, waits, cycle, model, questions, history>>
        /\ paused' \in BOOLEAN
    BY <1>2 DEF TogglePause
  <2>2. QED
    BY <2>1 DEF LoopInv, TypeOK, Serial, QueryTask, ModelKept, Addressed, Counted,
                model, questions, history
<1>3. QED
  BY <1>1, <1>2, FeedKeeps, QuestionKeeps, TaskKeeps, CycleStepKeeps DEF Next

\* The inductive invariant of the agents.
THEOREM LoopInvariant == Spec => []LoopInv
<1>1. QED
  BY InitInv, StepInv, PTL DEF Spec

-----------------------------------------------------------------------------
(* What follows.                                                           *)

\* Every variable keeps its type: inboxes never exceed their capacity, the
\* AnyCandle counter never exceeds the divider.
THEOREM TypeCorrect == Spec => []TypeOK
<1>1. LoopInv => TypeOK
  BY DEF LoopInv
<1>2. QED
  BY <1>1, LoopInvariant, PTL

\* The timer's cycle and a message's cycle of one agent never overlap.
THEOREM CyclesExclude == Spec => []OneCycleAtATime
<1>1. LoopInv => OneCycleAtATime
  BY DEF LoopInv, Serial, OneCycleAtATime, Tasks
<1>2. QED
  BY <1>1, LoopInvariant, PTL

\* An agent that does not answer a question works on its configured model.
THEOREM OwnModelKept == Spec => []OwnModel
<1>1. LoopInv => OwnModel
  BY DEF LoopInv, TypeOK, QueryTask, ModelKept, OwnModel, Tasks
<1>2. QED
  BY <1>1, LoopInvariant, PTL

\* Of AnyCandle candles in a row that find the agent free, running and in
\* session, one starts a cycle.
THEOREM NthCandle == Spec => []EveryNthCandle
<1>1. LoopInv => EveryNthCandle
  BY DEF LoopInv, Counted, EveryNthCandle
<1>2. QED
  BY <1>1, LoopInvariant, PTL

\* Only its own message loop takes something out of an inbox, and a candle is
\* taken by TakeCandle.
LEMMA OnlyTakes ==
    ASSUME LoopInv, Next, NEW a \in Agents, Len(inbox'[a]) < Len(inbox[a]),
           Head(inbox[a]).kind = "candle"
    PROVE  TakeCandle(a)
<1>1. inbox \in [Agents -> Seq(Message)] /\ \A b \in Agents : Len(inbox[b]) \in Nat
  BY DEF LoopInv, TypeOK
<1>2. inbox'[a] # inbox[a]
  BY <1>1
<1>3. ASSUME NEW b \in Agents, NEW m, inbox' = [inbox EXCEPT ![b] = Append(@, m)]
      PROVE  FALSE
  <2>1. b = a
    BY <1>1, <1>2, <1>3
  <2>2. inbox'[a] = Append(inbox[a], m)
    BY <1>1, <1>3, <2>1
  <2>3. Len(inbox'[a]) = Len(inbox[a]) + 1
    BY <1>1, <2>2
  <2>4. QED
    BY <1>1, <2>3
<1>4. ASSUME NEW b \in Agents, CandleArrives(b) \/ EventArrives(b) \/ ConfigArrives(b)
      PROVE  FALSE
  BY <1>3, <1>4 DEF CandleArrives, EventArrives, ConfigArrives, Arrives
<1>5. ASSUME NEW q \in Queries,
             ApiAsks(q) \/ DeliverQuery(q) \/ DeliverAnswer(q) \/ Expire(q)
      PROVE  FALSE
  <2>1. CASE ApiAsks(q) \/ DeliverAnswer(q) \/ Expire(q)
    BY <1>2, <2>1 DEF ApiAsks, DeliverAnswer, Expire
  <2>2. CASE DeliverQuery(q)
    <3>1. post[q].to \in Agents
      BY <2>2 DEF DeliverQuery, LoopInv, Addressed
    <3>2. \/ inbox' = inbox
          \/ inbox' = [inbox EXCEPT ![post[q].to] = Append(@, [kind |-> "query", id |-> q])]
      BY <2>2 DEF DeliverQuery
    <3>3. QED
      BY <1>2, <1>3, <3>1, <3>2
  <2>3. QED
    BY <1>5, <2>1, <2>2
<1>6. ASSUME NEW b \in Agents, TimerTick(b) \/ Take(b) \/ StartQuery(b)
      PROVE  TakeCandle(a)
  <2>1. CASE TimerTick(b) \/ StartQuery(b)
    BY <1>2, <2>1 DEF TimerTick, StartQuery
  <2>2. CASE Take(b)
    <3>1. PICK kind : Takes(b, kind)
      BY <2>2 DEF Take, TakeQuery, TakeConfig, TakeEvent, TakeCandle
    <3>2. b = a
      BY <1>1, <1>2, <3>1 DEF Takes
    <3>3. QED
      BY <2>2, <3>2 DEF Take, TakeQuery, TakeConfig, TakeEvent, Takes
  <2>3. QED
    BY <1>6, <2>1, <2>2
<1>7. ASSUME NEW b \in Agents, NEW t \in Tasks, CycleStep(b, t) PROVE FALSE
  BY <1>2, <1>7 DEF CycleStep, CyclePaused, CycleBuilds, CycleCancelled, CycleAsks,
                    CycleHears, CycleDone, CycleWantsNextCandle
<1>8. CASE TogglePause
  BY <1>2, <1>8 DEF TogglePause
<1>9. QED
  BY <1>4, <1>5, <1>6, <1>7, <1>8 DEF Next

\* A promised cycle, whether the session filter rejected it or the model asked
\* for it, is started by the next candle, or that candle is rejected in its turn
\* and the one after it is due, unless it finds the agent paused or at work; then
\* the promise is lost and the count starts over.
THEOREM OwedRuns == Spec => OwedRunsNext
<1> DEFINE Made(a) == owed[a] = "next" /\ CandleTaken(a)
                      => \/ CandleRuns(a)
                         \/ ~paused /\ ~Head(inbox[a]).inSession /\ count'[a] + 1 >= Divider
                         \/ /\ paused \/ (Head(inbox[a]).inSession /\ lock[a] # "free")
                            /\ owed'[a] = "lost" /\ count'[a] = 0
<1>1. ASSUME LoopInv, LoopInv', Next, NEW a \in Agents PROVE Made(a)
  <2>1. SUFFICES ASSUME owed[a] = "next", CandleTaken(a)
                 PROVE  \/ CandleRuns(a)
                        \/ ~paused /\ ~Head(inbox[a]).inSession /\ count'[a] + 1 >= Divider
                        \/ /\ paused \/ (Head(inbox[a]).inSession /\ lock[a] # "free")
                           /\ owed'[a] = "lost" /\ count'[a] = 0
    OBVIOUS
  <2>2. TakeCandle(a)
    BY <1>1, <2>1, OnlyTakes DEF CandleTaken
  <2>3. count[a] + 1 >= Divider
    BY <1>1, <2>1 DEF LoopInv, Counted
  <2>4. Due(a)
    BY <2>3 DEF Due
  <2>5. CASE ~paused /\ Head(inbox[a]).inSession /\ lock[a] = "free"
    <3>1. Starts(a, "messages", "candle", None)
      BY <2>1, <2>2, <2>4, <2>5 DEF TakeCandle
    <3>2. cycle'[a]["messages"] = Begun("candle", None)
      BY <1>1, <3>1, StartsTyped DEF LoopInv, Tasks
    <3>3. QED
      BY <3>2 DEF Begun, CandleRuns
  <2>6. CASE ~paused /\ ~Head(inbox[a]).inSession
    <3>1. owed'[a] = "next"
      BY <1>1, <2>1, <2>2, <2>4, <2>6 DEF TakeCandle, LoopInv, TypeOK
    <3>2. count'[a] + 1 >= Divider
      BY <1>1, <3>1 DEF LoopInv, Counted
    <3>3. QED
      BY <2>6, <3>2
  <2>7. CASE paused \/ (Head(inbox[a]).inSession /\ lock[a] # "free")
    <3>1. owed'[a] = "lost"
      BY <1>1, <2>1, <2>2, <2>4, <2>7 DEF TakeCandle, Forgotten, LoopInv, TypeOK
    <3>2. count'[a] = 0
      BY <1>1, <2>2, <2>4, <2>7 DEF TakeCandle, CountAfter, LoopInv, TypeOK
    <3>3. QED
      BY <2>7, <3>1, <3>2
  <2>8. QED
    BY <2>5, <2>6, <2>7
<1>2. LoopInv /\ LoopInv' /\ [Next]_vars => [\A a \in Agents : Made(a)]_vars
  BY <1>1
<1>3. QED
  BY <1>2, LoopInvariant, PTL DEF Spec, OwedRunsNext

-----------------------------------------------------------------------------
(* The loops serve questions as QueryService says.                         *)
(*                                                                         *)
(* A question is in one place at a time: on the wire, in an inbox, with a  *)
(* handler that waits for the lock, in a cycle, or over (OnePlace); and in *)
(* that place once (OneCopy).  So what a step moves is one question.       *)

OnWire(q) == [kind |-> "query", id |-> q] \in wire
Answering(q) == [kind |-> "answer", id |-> q] \in wire
Holds(a, i, q) == i \in DOMAIN inbox[a] /\ inbox[a][i] = [kind |-> "query", id |-> q]
Handled(q) == \E a \in Agents : waits[a] = q
Worked(q) == \E a \in Agents, t \in Tasks : cycle[a][t].query = q

OnePlace(q) ==
    /\ OnWire(q) => ~InInbox(q) /\ ~Handled(q) /\ ~Worked(q) /\ outcome[q] = "none"
    /\ InInbox(q) => ~Handled(q) /\ ~Worked(q) /\ outcome[q] = "none"
    /\ Handled(q) => ~Worked(q) /\ outcome[q] = "none"
    /\ Worked(q) => outcome[q] = "none"
    /\ Answering(q) => outcome[q] = "answered"
    /\ call[q] = "unused" =>
          ~OnWire(q) /\ ~InInbox(q) /\ ~Handled(q) /\ ~Worked(q) /\ outcome[q] = "none"

OneInbox ==
    \A q \in Queries : \A a, b \in Agents : \A i, j \in Nat :
        Holds(a, i, q) /\ Holds(b, j, q) => a = b /\ i = j
OneHandler == \A a, b \in Agents : waits[a] = waits[b] /\ waits[a] # None => a = b
OneCycle ==
    \A a, b \in Agents : \A t, u \in Tasks :
        cycle[a][t].query = cycle[b][u].query /\ cycle[a][t].query # None => a = b /\ t = u
OneCopy == OneInbox /\ OneHandler /\ OneCycle

QuestionInv == LoopInv /\ OneCopy /\ \A q \in Queries : OnePlace(q)

\* A step leaves a question where it is.
Same(q) ==
    /\ OnWire(q)' => OnWire(q)
    /\ Answering(q)' => Answering(q)
    /\ InInbox(q)' <=> InInbox(q)
    /\ Handled(q)' <=> Handled(q)
    /\ Worked(q)' <=> Worked(q)
    /\ outcome'[q] = outcome[q]
    /\ call'[q] = "unused" <=> call[q] = "unused"

\* What a step may do to a question, in the words of QueryService.
Turns(q) ==
    \/ UNCHANGED call /\ WorkOn(q)' = WorkOn(q)
    \/ /\ call[q] = "unused" /\ call' = [call EXCEPT ![q] = "waiting"]
       /\ WorkOn(q)' = WorkOn(q)
    \/ /\ UNCHANGED call /\ call[q] # "unused"
       /\ WorkOn(q) = "none" /\ WorkOn(q)' = "queued"
    \/ UNCHANGED call /\ WorkOn(q) = "queued" /\ WorkOn(q)' = "running"
    \/ UNCHANGED call /\ WorkOn(q) = "running" /\ WorkOn(q)' \in {"answered", "silent"}
    \/ /\ call[q] = "waiting" /\ call' = [call EXCEPT ![q] = "answered"]
       /\ WorkOn(q) = "answered" /\ WorkOn(q)' = "answered"
    \/ /\ call[q] = "waiting" /\ call' = [call EXCEPT ![q] = "expired"]
       /\ WorkOn(q)' = WorkOn(q)

Still == UNCHANGED call /\ \A q \in Queries : Same(q)
MovesOne(q) == Turns(q) /\ OnePlace(q)' /\ \A p \in Queries \ {q} : Same(p)
QuestionStep == OneCopy' /\ (Still \/ \E q \in Queries : MovesOne(q))

WorkFacts(q) ==
    /\ outcome[q] # "none" => WorkOn(q) = outcome[q]
    /\ outcome[q] = "none" /\ Worked(q) => WorkOn(q) = "running"
    /\ outcome[q] = "none" /\ ~Worked(q) /\ (InInbox(q) \/ Handled(q)) => WorkOn(q) = "queued"
    /\ outcome[q] = "none" /\ ~Worked(q) /\ ~InInbox(q) /\ ~Handled(q) => WorkOn(q) = "none"

LEMMA WorkIs == ASSUME NEW q, OnePlace(q) PROVE WorkFacts(q)
<1> DEFINE over == outcome[q] # "none"
<1>1. WorkOn(q) = CASE over -> outcome[q]
                    [] Worked(q) -> "running"
                    [] InInbox(q) \/ Handled(q) -> "queued"
                    [] OTHER -> "none"
  BY DEF WorkOn, Worked, Handled
<1>2. /\ ~(over /\ Worked(q)) /\ ~(over /\ (InInbox(q) \/ Handled(q)))
      /\ ~(Worked(q) /\ (InInbox(q) \/ Handled(q)))
  BY DEF OnePlace
<1>3. QED
  BY <1>1, <1>2 DEF WorkFacts

\* The same of the next state.
LEMMA WorkIsNext == ASSUME NEW q, OnePlace(q)' PROVE WorkFacts(q)'
<1> DEFINE over == outcome'[q] # "none"
<1>1. WorkOn(q)' = CASE over -> outcome'[q]
                     [] Worked(q)' -> "running"
                     [] InInbox(q)' \/ Handled(q)' -> "queued"
                     [] OTHER -> "none"
  BY DEF WorkOn, Worked, Handled
<1>2. /\ ~(over /\ Worked(q)') /\ ~(over /\ (InInbox(q)' \/ Handled(q)'))
      /\ ~(Worked(q)' /\ (InInbox(q)' \/ Handled(q)'))
  BY DEF OnePlace
<1>3. QED
  BY <1>1, <1>2 DEF WorkFacts

LEMMA SameIsKept ==
    ASSUME NEW q \in Queries, Same(q), OnePlace(q)
    PROVE  WorkOn(q)' = WorkOn(q) /\ OnePlace(q)'
<1>1. OnePlace(q)'
  BY DEF Same, OnePlace
<1>2. WorkOn(q)' = WorkOn(q)
  BY <1>1, WorkIs, WorkIsNext DEF Same, WorkFacts
<1>3. QED
  BY <1>1, <1>2

LEMMA InboxAppended ==
    ASSUME TypeOK, NEW a \in Agents, NEW m \in Message,
           inbox' = [inbox EXCEPT ![a] = Append(inbox[a], m)]
    PROVE  \A b \in Agents : \A q \in Queries : \A i \in Nat :
              Holds(b, i, q)' <=> \/ Holds(b, i, q)
                                  \/ /\ b = a /\ i = Len(inbox[a]) + 1
                                     /\ m = [kind |-> "query", id |-> q]
<1>1. inbox[a] \in Seq(Message) /\ Len(inbox[a]) \in Nat
  BY DEF TypeOK
<1>2. \A b \in Agents : inbox'[b] = IF b = a THEN Append(inbox[a], m) ELSE inbox[b]
  BY DEF TypeOK
<1>3. /\ DOMAIN inbox[a] = 1..Len(inbox[a])
      /\ DOMAIN Append(inbox[a], m) = 1..(Len(inbox[a]) + 1)
      /\ \A i \in 1..Len(inbox[a]) : Append(inbox[a], m)[i] = inbox[a][i]
      /\ Append(inbox[a], m)[Len(inbox[a]) + 1] = m
  BY <1>1
<1> SUFFICES ASSUME NEW b \in Agents, NEW q \in Queries, NEW i \in Nat
             PROVE  Holds(b, i, q)' <=> \/ Holds(b, i, q)
                                       \/ /\ b = a /\ i = Len(inbox[a]) + 1
                                          /\ m = [kind |-> "query", id |-> q]
  OBVIOUS
<1>5. CASE b # a
  BY <1>2, <1>5 DEF Holds
<1>6. CASE b = a
  <2>1. inbox'[b] = Append(inbox[a], m)
    BY <1>2, <1>6
  <2>2. CASE i \in 1..Len(inbox[a])
    BY <1>1, <1>3, <1>6, <2>1, <2>2 DEF Holds
  <2>3. CASE i = Len(inbox[a]) + 1
    BY <1>1, <1>3, <1>6, <2>1, <2>3 DEF Holds
  <2>4. CASE i \notin 1..(Len(inbox[a]) + 1)
    BY <1>1, <1>3, <1>6, <2>1, <2>4 DEF Holds
  <2>5. QED
    BY <1>1, <2>2, <2>3, <2>4
<1>7. QED
  BY <1>5, <1>6

LEMMA InboxTaken ==
    ASSUME TypeOK, NEW a \in Agents, NEW kind, Takes(a, kind)
    PROVE  /\ \A b \in Agents : \A q \in Queries : \A i \in Nat :
                 Holds(b, i, q)' <=> IF b = a THEN i # 0 /\ Holds(a, i + 1, q)
                                              ELSE Holds(b, i, q)
           /\ \A q \in Queries : Holds(a, 1, q) <=> Head(inbox[a]) = [kind |-> "query", id |-> q]
<1>1. inbox[a] \in Seq(Message) /\ Len(inbox[a]) \in Nat /\ inbox[a] # <<>>
  BY DEF TypeOK, Takes
<1>2. \A b \in Agents : inbox'[b] = IF b = a THEN Tail(inbox[a]) ELSE inbox[b]
  BY DEF TypeOK, Takes
<1>3. /\ DOMAIN inbox[a] = 1..Len(inbox[a]) /\ Len(inbox[a]) > 0
      /\ DOMAIN Tail(inbox[a]) = 1..(Len(inbox[a]) - 1)
      /\ \A i \in 1..(Len(inbox[a]) - 1) : Tail(inbox[a])[i] = inbox[a][i + 1]
      /\ Head(inbox[a]) = inbox[a][1]
  BY <1>1
<1>4. ASSUME NEW b \in Agents, NEW q \in Queries, NEW i \in Nat
      PROVE  Holds(b, i, q)' <=> IF b = a THEN i # 0 /\ Holds(a, i + 1, q) ELSE Holds(b, i, q)
  <2>1. CASE b # a
    BY <1>2, <2>1 DEF Holds
  <2>2. CASE b = a
    <3>1. inbox'[b] = Tail(inbox[a])
      BY <1>2, <2>2
    <3>2. i \in 1..(Len(inbox[a]) - 1) <=> i # 0 /\ i + 1 \in 1..Len(inbox[a])
      BY <1>1, <1>3
    <3>3. QED
      BY <1>3, <2>2, <3>1, <3>2 DEF Holds
  <2>3. QED
    BY <2>1, <2>2
<1>5. \A q \in Queries : Holds(a, 1, q) <=> Head(inbox[a]) = [kind |-> "query", id |-> q]
  BY <1>1, <1>3 DEF Holds
<1>6. QED
  BY <1>4, <1>5

LEMMA HeldInInbox ==
    ASSUME TypeOK, NEW q
    PROVE  InInbox(q) <=> \E a \in Agents : \E i \in Nat : Holds(a, i, q)
<1>1. \A a \in Agents : inbox[a] \in Seq(Message)
  BY DEF TypeOK
<1>2. ASSUME NEW a \in Agents PROVE DOMAIN inbox[a] \subseteq Nat
  <2>1. inbox[a] \in Seq(Message)
    BY <1>1
  <2>2. DOMAIN inbox[a] = 1..Len(inbox[a]) /\ Len(inbox[a]) \in Nat
    BY <2>1
  <2>3. QED
    BY <2>2
<1>3. QED
  BY <1>2 DEF InInbox, Holds

\* The same of the next state.
LEMMA HeldInInboxNext ==
    ASSUME TypeOK', NEW q
    PROVE  InInbox(q)' <=> \E a \in Agents : \E i \in Nat : Holds(a, i, q)'
<1>1. \A a \in Agents : inbox'[a] \in Seq(Message)
  BY DEF TypeOK
<1>2. ASSUME NEW a \in Agents PROVE DOMAIN inbox'[a] \subseteq Nat
  <2>1. inbox'[a] \in Seq(Message)
    BY <1>1
  <2>2. DOMAIN inbox'[a] = 1..Len(inbox'[a]) /\ Len(inbox'[a]) \in Nat
    BY <2>1
  <2>3. QED
    BY <2>2
<1>3. QED
  BY <1>2 DEF InInbox, Holds

\* Something that is no question arrives.
LEMMA FeedMoves ==
    ASSUME QuestionInv, NEW a \in Agents,
           CandleArrives(a) \/ EventArrives(a) \/ ConfigArrives(a)
    PROVE  QuestionStep
<1>1. PICK m \in Message : Arrives(a, m) /\ m.kind # "query"
  <2>1. CASE CandleArrives(a)
    <3>1. PICK s \in BOOLEAN, f \in BOOLEAN :
             Arrives(a, [kind |-> "candle", inSession |-> s, force |-> f])
      BY <2>1 DEF CandleArrives
    <3>2. QED
      BY <3>1 DEF Message
  <2>2. CASE EventArrives(a)
    BY <2>2 DEF EventArrives, Message
  <2>3. CASE ConfigArrives(a)
    BY <2>3 DEF ConfigArrives, Message
  <2>4. QED
    BY <2>1, <2>2, <2>3
<1>2. TypeOK /\ TypeOK'
  BY FeedTyped DEF QuestionInv, LoopInv
<1>3. \A b \in Agents : \A q \in Queries : \A i \in Nat : Holds(b, i, q)' <=> Holds(b, i, q)
  <2>1. inbox' = [inbox EXCEPT ![a] = Append(inbox[a], m)]
    BY <1>1 DEF Arrives
  <2>2. \A q \in Queries : m # [kind |-> "query", id |-> q]
    BY <1>1
  <2>3. QED
    BY <1>2, <2>1, <2>2, InboxAppended
<1>4. \A q \in Queries : InInbox(q)' <=> InInbox(q)
  <2> TAKE q \in Queries
  <2>1. InInbox(q) <=> \E b \in Agents : \E i \in Nat : Holds(b, i, q)
    BY <1>2, HeldInInbox
  <2>2. InInbox(q)' <=> \E b \in Agents : \E i \in Nat : Holds(b, i, q)'
    BY <1>2, HeldInInboxNext
  <2>3. QED
    BY <1>3, <2>1, <2>2
<1>5. OneInbox'
  BY <1>3 DEF OneInbox, QuestionInv, OneCopy
<1>6. UNCHANGED <<waits, cycle, wire, outcome, call>>
  BY <1>1 DEF Arrives, questions
<1>7. OneHandler' /\ OneCycle'
  BY <1>6 DEF OneHandler, OneCycle, QuestionInv, OneCopy
<1>8. \A q \in Queries : Same(q)
  BY <1>4, <1>6 DEF Same, OnWire, Answering, Handled, Worked
<1>9. QED
  BY <1>5, <1>6, <1>7, <1>8 DEF QuestionStep, OneCopy, Still

\* What happens to one question while the inboxes, the handlers and the cycles stay.
LEMMA CallMoves ==
    ASSUME QuestionInv, NEW q \in Queries, UNCHANGED <<inbox, waits, outcome>>,
           \A a \in Agents, t \in Tasks : cycle'[a][t].query = cycle[a][t].query,
           \A p \in Queries \ {q} : /\ OnWire(p)' => OnWire(p)
                                    /\ Answering(p)' => Answering(p)
                                    /\ call'[p] = call[p],
           OnWire(q)' => OnWire(q) \/ call[q] = "unused",
           Answering(q)' => Answering(q),
           call'[q] = "unused" <=> FALSE,
           \/ call[q] = "unused" /\ call' = [call EXCEPT ![q] = "waiting"]
           \/ /\ call[q] = "waiting" /\ Answering(q)
              /\ call' = [call EXCEPT ![q] = "answered"]
           \/ call[q] = "waiting" /\ call' = [call EXCEPT ![q] = "expired"]
           \/ UNCHANGED call /\ call[q] # "unused"
    PROVE  QuestionStep
<1>1. \A p \in Queries : /\ InInbox(p)' <=> InInbox(p)
                         /\ Handled(p)' <=> Handled(p)
                         /\ Worked(p)' <=> Worked(p)
  BY DEF InInbox, Handled, Worked
<1>2. OneCopy'
  BY DEF OneCopy, OneInbox, OneHandler, OneCycle, QuestionInv, Holds
<1>3. \A p \in Queries \ {q} : Same(p)
  BY <1>1 DEF Same
<1>4. OnePlace(q) /\ OnePlace(q)'
  BY <1>1 DEF QuestionInv, OnePlace
<1>5. WorkOn(q)' = WorkOn(q) /\ (Answering(q) => WorkOn(q) = "answered")
  BY <1>1, <1>4, WorkIs, WorkIsNext DEF WorkFacts, OnePlace
<1>6. Turns(q)
  BY <1>5 DEF Turns
<1>7. QED
  BY <1>2, <1>3, <1>4, <1>6 DEF QuestionStep, MovesOne

LEMMA PublishMoves ==
    ASSUME QuestionInv, NEW q \in Queries, NEW from, NEW to, NEW m,
           Publish(q, from, to, m), UNCHANGED <<inbox, waits, outcome>>,
           \A a \in Agents, t \in Tasks : cycle'[a][t].query = cycle[a][t].query
    PROVE  QuestionStep
<1>1. /\ call[q] = "unused" /\ call' = [call EXCEPT ![q] = "waiting"]
      /\ wire' = wire \cup {[kind |-> "query", id |-> q]}
      /\ DOMAIN call = Queries
  BY DEF Publish, QuestionInv, LoopInv, TypeOK
<1>2. /\ \A p \in Queries \ {q} : OnWire(p)' => OnWire(p)
      /\ \A p \in Queries : Answering(p)' => Answering(p)
  BY <1>1 DEF OnWire, Answering
<1>3. call'[q] = "waiting" /\ \A p \in Queries \ {q} : call'[p] = call[p]
  BY <1>1
<1>4. QED
  BY <1>1, <1>2, <1>3, CallMoves

LEMMA QuestionMoves ==
    ASSUME QuestionInv, NEW q \in Queries,
           ApiAsks(q) \/ DeliverQuery(q) \/ DeliverAnswer(q) \/ Expire(q)
    PROVE  QuestionStep
<1>0. /\ TypeOK /\ Addressed /\ DOMAIN call = Queries /\ OnePlace(q)
      /\ call = [p \in Queries |-> call[p]]
      /\ call[q] \in {"unused", "waiting", "answered", "expired"}
  BY DEF QuestionInv, LoopInv, TypeOK
<1>1. CASE ApiAsks(q)
  <2>1. PICK a \in Agents, m \in Models \cup {None} : Publish(q, Api, a, m)
    BY <1>1 DEF ApiAsks
  <2>2. QED
    BY <1>1, <2>1, PublishMoves DEF ApiAsks
<1>2. CASE Expire(q)
  <2>1. /\ call[q] = "waiting" /\ call' = [call EXCEPT ![q] = "expired"]
        /\ UNCHANGED <<inbox, waits, outcome, cycle, wire>>
    BY <1>2 DEF Expire
  <2>2. call'[q] = "expired" /\ \A p \in Queries \ {q} : call'[p] = call[p]
    BY <1>0, <2>1
  <2>3. \A p \in Queries : (OnWire(p)' => OnWire(p)) /\ (Answering(p)' => Answering(p))
    BY <2>1 DEF OnWire, Answering
  <2>4. QED
    BY <2>1, <2>2, <2>3, CallMoves
<1>3. CASE DeliverAnswer(q)
  <2>1. /\ Answering(q) /\ wire' = wire \ {[kind |-> "answer", id |-> q]}
        /\ call' = [call EXCEPT ![q] = IF @ = "waiting" THEN "answered" ELSE @]
        /\ UNCHANGED <<inbox, waits, outcome, cycle>>
    BY <1>3 DEF DeliverAnswer, Answering
  <2>2. call[q] # "unused"
    BY <1>0, <2>1 DEF OnePlace
  <2>3. \A p \in Queries : (OnWire(p)' => OnWire(p)) /\ (Answering(p)' => Answering(p))
    BY <2>1 DEF OnWire, Answering
  <2>4. \/ call[q] = "waiting" /\ call' = [call EXCEPT ![q] = "answered"]
        \/ call' = call
    BY <1>0, <2>1
  <2>5. call'[q] # "unused" /\ \A p \in Queries \ {q} : call'[p] = call[p]
    BY <1>0, <2>2, <2>4
  <2>6. QED
    BY <2>1, <2>2, <2>3, <2>4, <2>5, CallMoves
<1>4. CASE DeliverQuery(q)
  <2> DEFINE a == post[q].to
             m == [kind |-> "query", id |-> q]
  <2>1. /\ OnWire(q) /\ wire' = wire \ {m}
        /\ UNCHANGED <<waits, outcome, cycle, call>>
        /\ a \in Agents /\ m \in Message
    BY <1>0, <1>4 DEF DeliverQuery, OnWire, Addressed, Message
  <2>2. \A p \in Queries : /\ (OnWire(p)' => OnWire(p)) /\ (Answering(p)' => Answering(p))
                           /\ Handled(p)' <=> Handled(p)
                           /\ Worked(p)' <=> Worked(p)
    BY <2>1 DEF OnWire, Answering, Handled, Worked
  <2>3. call[q] # "unused"
    BY <1>0, <2>1 DEF OnePlace
  <2>4. CASE inbox' = inbox
    BY <2>1, <2>2, <2>3, <2>4, CallMoves
  <2>5. CASE inbox' = [inbox EXCEPT ![a] = Append(inbox[a], m)] /\ Len(inbox[a]) < Capacity
    <3>1. TypeOK'
      BY <1>0, <1>4, QuestionTyped DEF Addressed
    <3>2. \A b \in Agents : \A p \in Queries : \A i \in Nat :
              Holds(b, i, p)' <=> \/ Holds(b, i, p)
                                  \/ b = a /\ i = Len(inbox[a]) + 1 /\ p = q
      <4>1. \A p \in Queries : m = [kind |-> "query", id |-> p] <=> p = q
        OBVIOUS
      <4> HIDE DEF a, m
      <4>2. TypeOK /\ a \in Agents /\ m \in Message
        BY <1>0, <2>1
      <4>3. inbox' = [inbox EXCEPT ![a] = Append(inbox[a], m)]
        BY <2>5
      <4>4. \A b \in Agents : \A p \in Queries : \A i \in Nat :
                Holds(b, i, p)' <=> \/ Holds(b, i, p)
                                    \/ /\ b = a /\ i = Len(inbox[a]) + 1
                                       /\ m = [kind |-> "query", id |-> p]
        BY <4>2, <4>3, InboxAppended, Zenon
      <4>5. QED
        BY <4>1, <4>4
    <3>3. Len(inbox[a]) + 1 \in Nat
      BY <1>0, <2>1 DEF TypeOK
    <3>4. \A p \in Queries : /\ InInbox(p) <=> \E b \in Agents : \E i \in Nat : Holds(b, i, p)
                             /\ InInbox(p)' <=> \E b \in Agents : \E i \in Nat : Holds(b, i, p)'
      BY <1>0, <3>1, HeldInInbox, HeldInInboxNext
    <3> HIDE DEF a, m
    <3>5. \A p \in Queries \ {q} : InInbox(p)' <=> InInbox(p)
      BY <3>2, <3>4
    <3>6. InInbox(q)' /\ ~InInbox(q)
      BY <1>0, <2>1, <3>2, <3>3, <3>4 DEF OnePlace
    <3>7. OneInbox'
      <4>1. \A b \in Agents : \A i \in Nat : ~Holds(b, i, q)
        BY <3>4, <3>6
      <4>2. QED
        BY <3>2, <4>1 DEF OneInbox, QuestionInv, OneCopy
    <3>8. OneHandler' /\ OneCycle'
      BY <2>1 DEF OneHandler, OneCycle, QuestionInv, OneCopy
    <3>9. \A p \in Queries \ {q} : Same(p)
      BY <2>1, <2>2, <3>5 DEF Same
    <3>10. ~OnWire(q)'
      BY <2>1 DEF OnWire, m
    <3>11. OnePlace(q)'
      BY <1>0, <2>1, <2>2, <2>3, <3>6, <3>10 DEF OnePlace
    <3>12. WorkOn(q) = "none" /\ WorkOn(q)' = "queued"
      BY <1>0, <2>1, <3>6, <3>11, WorkIs, WorkIsNext DEF WorkFacts, OnePlace
    <3>13. QED
      BY <2>1, <2>3, <3>7, <3>8, <3>9, <3>11, <3>12
         DEF QuestionStep, OneCopy, MovesOne, Turns
  <2>6. QED
    BY <1>4, <2>4, <2>5 DEF DeliverQuery
<1>5. QED
  BY <1>1, <1>2, <1>3, <1>4

\* The message loop takes the head of its inbox: every other question stays in place.
LEMMA TakesMoves ==
    ASSUME QuestionInv, TypeOK', NEW a \in Agents, NEW kind, Takes(a, kind)
    PROVE  /\ OneInbox'
           /\ \A q \in Queries :
                 IF Head(inbox[a]) = [kind |-> "query", id |-> q]
                 THEN InInbox(q) /\ ~InInbox(q)'
                 ELSE InInbox(q)' <=> InInbox(q)
<1>0. TypeOK /\ OneInbox
  BY DEF QuestionInv, LoopInv, OneCopy
<1>1. /\ \A b \in Agents : \A q \in Queries : \A i \in Nat :
            Holds(b, i, q)' <=> IF b = a THEN i # 0 /\ Holds(a, i + 1, q) ELSE Holds(b, i, q)
      /\ \A q \in Queries : Holds(a, 1, q) <=> Head(inbox[a]) = [kind |-> "query", id |-> q]
      /\ \A q \in Queries : ~Holds(a, 0, q)
  <2>1. inbox[a] \in Seq(Message)
    BY <1>0 DEF TypeOK
  <2>2. 0 \notin DOMAIN inbox[a]
    BY <2>1
  <2>3. \A q \in Queries : ~Holds(a, 0, q)
    BY <2>2 DEF Holds
  <2>4. QED
    BY <1>0, <2>3, InboxTaken
<1>2. \A q \in Queries : /\ InInbox(q) <=> \E b \in Agents : \E i \in Nat : Holds(b, i, q)
                         /\ InInbox(q)' <=> \E b \in Agents : \E i \in Nat : Holds(b, i, q)'
  BY <1>0, HeldInInbox, HeldInInboxNext
<1>3. OneInbox'
  <2> SUFFICES ASSUME NEW q \in Queries, NEW b \in Agents, NEW c \in Agents,
                      NEW i \in Nat, NEW j \in Nat, Holds(b, i, q)', Holds(c, j, q)'
               PROVE  b = c /\ i = j
    BY DEF OneInbox
  <2> DEFINE x == IF b = a THEN i + 1 ELSE i
             y == IF c = a THEN j + 1 ELSE j
  <2>1. x \in Nat /\ y \in Nat /\ Holds(b, x, q) /\ Holds(c, y, q)
    BY <1>1
  <2>2. b = c /\ x = y
    BY <1>0, <2>1 DEF OneInbox
  <2>3. QED
    BY <2>2
<1>4. ASSUME NEW q \in Queries, Head(inbox[a]) = [kind |-> "query", id |-> q]
      PROVE  InInbox(q) /\ ~InInbox(q)'
  <2>1. Holds(a, 1, q) /\ 1 \in Nat
    BY <1>1, <1>4
  <2>2. ASSUME NEW b \in Agents, NEW i \in Nat, Holds(b, i, q)' PROVE FALSE
    <3>1. CASE b = a
      <4>1. i # 0 /\ i + 1 \in Nat /\ Holds(a, i + 1, q)
        BY <1>1, <2>2, <3>1
      <4>2. i + 1 = 1
        BY <1>0, <2>1, <4>1 DEF OneInbox
      <4>3. QED
        BY <4>1, <4>2
    <3>2. CASE b # a
      BY <1>0, <1>1, <2>1, <2>2, <3>2 DEF OneInbox
    <3>3. QED
      BY <3>1, <3>2
  <2>3. QED
    BY <1>2, <2>1, <2>2
<1>5. ASSUME NEW q \in Queries, Head(inbox[a]) # [kind |-> "query", id |-> q]
      PROVE  InInbox(q)' <=> InInbox(q)
  <2>1. ASSUME NEW b \in Agents, NEW i \in Nat, Holds(b, i, q)' PROVE InInbox(q)
    <3>1. i + 1 \in Nat
      OBVIOUS
    <3>2. QED
      BY <1>1, <1>2, <2>1, <3>1
  <2>2. ASSUME NEW b \in Agents, NEW i \in Nat, Holds(b, i, q) PROVE InInbox(q)'
    <3>1. CASE b # a
      BY <1>1, <1>2, <2>2, <3>1
    <3>2. CASE b = a
      <4>1. i # 0 /\ i # 1
        BY <1>1, <1>5, <2>2, <3>2
      <4>2. i - 1 \in Nat /\ i - 1 # 0 /\ (i - 1) + 1 = i
        BY <4>1
      <4>3. Holds(a, i - 1, q)'
        BY <1>1, <2>2, <3>2, <4>2
      <4>4. QED
        BY <1>2, <4>2, <4>3
    <3>3. QED
      BY <3>1, <3>2
  <2>3. QED
    BY <1>2, <2>1, <2>2
<1>6. QED
  BY <1>3, <1>4, <1>5

\* A cycle that answers nobody begins or ends.
LEMMA BeginMoves ==
    ASSUME QuestionInv, NEW a \in Agents, NEW t \in Tasks,
           NEW trigger \in {"timer", "candle", "event", "query"},
           Starts(a, t, trigger, None), lock[a] = "free"
    PROVE  \A b \in Agents, u \in Tasks : cycle'[b][u].query = cycle[b][u].query
<1>1. /\ cycle'[a][t] = Begun(trigger, None)
      /\ \A b \in Agents, u \in Tasks : b # a \/ u # t => cycle'[b][u] = cycle[b][u]
  BY StartsTyped DEF QuestionInv, LoopInv
<1>2. cycle[a][t] = Off
  BY DEF QuestionInv, LoopInv, Serial, Tasks
<1>3. QED
  BY <1>1, <1>2 DEF Off, Begun

LEMMA StaysStill ==
    ASSUME QuestionInv, UNCHANGED <<waits, wire, outcome, call>>,
           \A q \in Queries : InInbox(q)' <=> InInbox(q),
           OneInbox',
           \A a \in Agents, t \in Tasks : cycle'[a][t].query = cycle[a][t].query
    PROVE  QuestionStep
<1>1. \A q \in Queries : Same(q)
  BY DEF Same, OnWire, Answering, Handled, Worked
<1>2. OneHandler' /\ OneCycle'
  BY DEF OneHandler, OneCycle, QuestionInv, OneCopy
<1>3. QED
  BY <1>1, <1>2 DEF QuestionStep, OneCopy, Still

LEMMA TaskMoves ==
    ASSUME QuestionInv, TypeOK', NEW a \in Agents, TimerTick(a) \/ StartQuery(a) \/ Take(a)
    PROVE  QuestionStep
<1>0. TypeOK /\ QueryTask /\ OneCopy /\ "timer" \in Tasks /\ "messages" \in Tasks
  BY DEF QuestionInv, LoopInv, Tasks
<1>1. ASSUME UNCHANGED inbox
      PROVE  (\A q \in Queries : InInbox(q)' <=> InInbox(q)) /\ OneInbox'
  BY <1>0, <1>1 DEF InInbox, OneInbox, OneCopy, Holds
<1>2. CASE TimerTick(a)
  <2>1. \A b \in Agents, u \in Tasks : cycle'[b][u].query = cycle[b][u].query
    BY <1>0, <1>2, BeginMoves DEF TimerTick
  <2>2. QED
    BY <1>1, <1>2, <2>1, StaysStill DEF TimerTick, questions
<1>3. CASE TakeConfig(a) \/ TakeEvent(a) \/ TakeCandle(a)
  <2>1. PICK kind \in {"config", "event", "candle"} : Takes(a, kind)
    BY <1>3 DEF TakeConfig, TakeEvent, TakeCandle
  <2>2. \A q \in Queries : Head(inbox[a]) # [kind |-> "query", id |-> q]
    BY <2>1 DEF Takes
  <2>3. (\A q \in Queries : InInbox(q)' <=> InInbox(q)) /\ OneInbox'
    BY <2>1, <2>2, TakesMoves
  <2>4. \/ UNCHANGED cycle
        \/ /\ lock[a] = "free"
           /\ \E trigger \in {"timer", "candle", "event", "query"} :
                 Starts(a, "messages", trigger, None)
    BY <1>3 DEF TakeConfig, TakeEvent, TakeCandle
  <2>5. \A b \in Agents, u \in Tasks : cycle'[b][u].query = cycle[b][u].query
    BY <1>0, <2>4, BeginMoves
  <2>6. UNCHANGED <<waits, wire, outcome, call>>
    BY <1>3 DEF TakeConfig, TakeEvent, TakeCandle, questions
  <2>7. QED
    BY <2>3, <2>5, <2>6, StaysStill
<1>4. CASE TakeQuery(a)
  <2>1. Takes(a, "query") /\ waits[a] = None /\ UNCHANGED <<cycle, wire, outcome, call>>
    BY <1>4 DEF TakeQuery, Takes, questions
  <2>2. PICK q \in Queries : Head(inbox[a]) = [kind |-> "query", id |-> q]
    BY <1>0, <2>1, TakesTyped DEF Message
  <2>3. waits' = [waits EXCEPT ![a] = q]
    <3>1. Head(inbox[a]).id = q
      BY <2>2
    <3>2. waits' = [waits EXCEPT ![a] = Head(inbox[a]).id]
      BY <1>4 DEF TakeQuery
    <3>3. QED
      BY <3>1, <3>2
  <2>4. \A p \in Queries : Head(inbox[a]) = [kind |-> "query", id |-> p] <=> p = q
    BY <2>2
  <2>5. /\ OneInbox' /\ InInbox(q) /\ ~InInbox(q)'
        /\ \A p \in Queries \ {q} : InInbox(p)' <=> InInbox(p)
    BY <2>1, <2>4, TakesMoves
  <2>6. \A b \in Agents : waits'[b] = IF b = a THEN q ELSE waits[b]
    BY <1>0, <2>3 DEF TypeOK
  <2>7. /\ Handled(q)' /\ ~Handled(q)
        /\ \A p \in Queries \ {q} : Handled(p)' <=> Handled(p)
    <3>1. OnePlace(q) /\ None \notin Queries
      BY AgentLoopAssumption DEF QuestionInv
    <3>2. QED
      BY <2>1, <2>5, <2>6, <3>1 DEF Handled, OnePlace
  <2>8. OneHandler' /\ OneCycle'
    BY <1>0, <2>1, <2>6, <2>7 DEF OneHandler, OneCycle, OneCopy, Handled
  <2>9. \A p \in Queries : /\ OnWire(p)' <=> OnWire(p)
                           /\ Answering(p)' <=> Answering(p)
                           /\ Worked(p)' <=> Worked(p)
    BY <2>1 DEF OnWire, Answering, Worked
  <2>10. \A p \in Queries \ {q} : Same(p)
    BY <2>1, <2>5, <2>7, <2>9 DEF Same
  <2>11. OnePlace(q) /\ OnePlace(q)'
    BY <2>1, <2>5, <2>7, <2>9 DEF QuestionInv, OnePlace
  <2>12. WorkOn(q) = "queued" /\ WorkOn(q)' = "queued"
    BY <2>1, <2>5, <2>7, <2>9, <2>11, WorkIs, WorkIsNext DEF WorkFacts, OnePlace
  <2>13. QED
    BY <2>1, <2>5, <2>8, <2>10, <2>11, <2>12 DEF QuestionStep, OneCopy, MovesOne, Turns
<1>5. CASE StartQuery(a)
  <2> DEFINE q == waits[a]
  <2>1. /\ q \in Queries /\ Starts(a, "messages", "query", q)
        /\ waits' = [waits EXCEPT ![a] = None]
        /\ UNCHANGED <<inbox, wire, outcome, call>>
        /\ None \notin Queries
    BY <1>0, <1>5, AgentLoopAssumption DEF StartQuery, TypeOK, questions
  <2>2. /\ cycle'[a]["messages"] = Begun("query", q)
        /\ \A b \in Agents, u \in Tasks : b # a \/ u # "messages" => cycle'[b][u] = cycle[b][u]
        /\ cycle[a]["messages"] = Off
    BY <1>0, <1>5, <2>1, StartsTyped DEF StartQuery, QuestionInv, LoopInv, Serial
  <2>3. \A b \in Agents : waits'[b] = IF b = a THEN None ELSE waits[b]
    BY <1>0, <2>1 DEF TypeOK
  <2>4. PICK r \in Queries : r = q
    BY <2>1
  <2> HIDE DEF q
  <2>5. \A b \in Agents, u \in Tasks :
           cycle'[b][u].query = IF b = a /\ u = "messages" THEN r ELSE cycle[b][u].query
    BY <2>2, <2>4 DEF Begun
  <2>6. cycle[a]["messages"].query = None
    BY <2>2 DEF Off
  <2>7. OnePlace(r) /\ Handled(r) /\ ~Worked(r)
    BY <2>4 DEF QuestionInv, OnePlace, Handled, q
  <2>8. /\ ~Handled(r)' /\ Worked(r)'
        /\ \A p \in Queries \ {r} : (Handled(p)' <=> Handled(p)) /\ (Worked(p)' <=> Worked(p))
    <3>1. waits[a] = r
      BY <2>4 DEF q
    <3>2. ~Handled(r)'
      BY <1>0, <2>1, <2>3, <3>1 DEF Handled, OneCopy, OneHandler
    <3>3. Worked(r)'
      BY <1>0, <2>5 DEF Worked
    <3>4. \A p \in Queries \ {r} : Handled(p)' <=> Handled(p)
      BY <2>1, <2>3, <3>1 DEF Handled
    <3>5. ASSUME NEW p \in Queries \ {r} PROVE Worked(p)' <=> Worked(p)
      BY <1>0, <2>1, <2>5, <2>6 DEF Worked
    <3>6. QED
      BY <3>2, <3>3, <3>4, <3>5
  <2>9. OneHandler' /\ OneCycle'
    BY <1>0, <2>3, <2>5, <2>7 DEF OneHandler, OneCycle, OneCopy, Worked
  <2>10. /\ OneInbox'
         /\ \A p \in Queries : /\ InInbox(p)' <=> InInbox(p)
                               /\ OnWire(p)' <=> OnWire(p)
                               /\ Answering(p)' <=> Answering(p)
    BY <1>1, <2>1 DEF OnWire, Answering
  <2>11. \A p \in Queries \ {r} : Same(p)
    BY <2>1, <2>8, <2>10 DEF Same
  <2>12. OnePlace(r)'
    BY <2>1, <2>7, <2>8, <2>10 DEF OnePlace
  <2>13. WorkOn(r) = "queued" /\ WorkOn(r)' = "running"
    BY <2>1, <2>7, <2>8, <2>12, WorkIs, WorkIsNext DEF WorkFacts, OnePlace
  <2>14. QED
    BY <2>1, <2>9, <2>10, <2>11, <2>12, <2>13 DEF QuestionStep, OneCopy, MovesOne, Turns
<1>6. QED
  BY <1>2, <1>3, <1>4, <1>5 DEF Take

LEMMA EndsMoves ==
    ASSUME QuestionInv, TypeOK', NEW a \in Agents, NEW t \in Tasks, NEW answers \in BOOLEAN,
           Ends(a, t, answers), UNCHANGED <<inbox, waits, call>>
    PROVE  QuestionStep
<1> DEFINE q == cycle[a][t].query
<1>0. /\ TypeOK /\ OneCopy /\ cycle[a][t] \in Cycle /\ q \in Queries \cup {None}
      /\ None \notin Queries
  <2>1. TypeOK /\ OneCopy
    BY DEF QuestionInv, LoopInv
  <2>2. cycle \in [Agents -> [Tasks -> Cycle]]
    BY <2>1 DEF TypeOK
  <2>3. cycle[a][t] \in Cycle
    BY <2>2
  <2>4. q \in Queries \cup {None}
    BY <2>3 DEF Cycle
  <2>5. None \notin Queries
    BY AgentLoopAssumption
  <2>6. QED
    BY <2>1, <2>3, <2>4, <2>5
<1>1. \A b \in Agents, u \in Tasks :
         cycle'[b][u].query = IF b = a /\ u = t THEN None ELSE cycle[b][u].query
  <2>1. /\ cycle'[a][t] = Off
        /\ \A b \in Agents, u \in Tasks : b # a \/ u # t => cycle'[b][u] = cycle[b][u]
    BY <1>0, SetCycle, OffTyped DEF Ends, Goes, TypeOK
  <2>2. QED
    BY <2>1 DEF Off
<1>2. OneInbox' /\ OneHandler' /\ OneCycle'
  <2>1. OneInbox' /\ OneHandler'
    BY <1>0 DEF OneInbox, OneHandler, OneCopy, Holds
  <2>2. OneCycle'
    BY <1>0, <1>1 DEF OneCycle, OneCopy
  <2>3. QED
    BY <2>1, <2>2
<1>3. \A p \in Queries : (InInbox(p)' <=> InInbox(p)) /\ (Handled(p)' <=> Handled(p))
  BY DEF InInbox, Handled
<1>4. CASE q = None
  <2>1. UNCHANGED <<wire, outcome>>
    BY <1>4 DEF Ends
  <2>2. \A b \in Agents, u \in Tasks : cycle'[b][u].query = cycle[b][u].query
    BY <1>1, <1>4
  <2>3. QED
    BY <1>2, <1>3, <2>1, <2>2, StaysStill
<1>5. CASE q # None
  <2> DEFINE x == IF answers THEN "answered" ELSE "silent"
  <2>1. PICK r \in Queries : r = q
    BY <1>0, <1>5
  <2>2. /\ wire' = IF answers THEN wire \cup {[kind |-> "answer", id |-> r]} ELSE wire
        /\ outcome' = [outcome EXCEPT ![r] = x]
    BY <1>5, <2>1 DEF Ends
  <2>3. outcome'[r] = x /\ \A p \in Queries \ {r} : outcome'[p] = outcome[p]
    BY <1>0, <2>2 DEF TypeOK
  <2>4. /\ \A p \in Queries : OnWire(p)' <=> OnWire(p)
        /\ \A p \in Queries \ {r} : Answering(p)' <=> Answering(p)
        /\ Answering(r)' => Answering(r) \/ x = "answered"
    BY <2>2 DEF OnWire, Answering
  <2>5. OnePlace(r) /\ Worked(r)
    BY <2>1 DEF QuestionInv, Worked
  <2> HIDE DEF q
  <2>6. ~Worked(r)'
    <3>1. \A b \in Agents, u \in Tasks : cycle[b][u].query = r => b = a /\ u = t
      BY <1>0, <2>1 DEF OneCopy, OneCycle, q
    <3>2. QED
      BY <1>0, <1>1, <3>1 DEF Worked
  <2>7. \A p \in Queries \ {r} : Worked(p)' <=> Worked(p)
    BY <1>0, <1>1, <2>1 DEF Worked, q
  <2>8. \A p \in Queries \ {r} : Same(p)
    BY <1>3, <2>3, <2>4, <2>7 DEF Same
  <2>9. OnePlace(r)'
    BY <1>3, <2>3, <2>4, <2>5, <2>6 DEF OnePlace
  <2>10. WorkOn(r) = "running" /\ WorkOn(r)' \in {"answered", "silent"}
    BY <2>3, <2>5, <2>9, WorkIs, WorkIsNext DEF WorkFacts, OnePlace
  <2>11. QED
    BY <1>2, <2>8, <2>9, <2>10 DEF QuestionStep, OneCopy, MovesOne, Turns
<1>6. QED
  BY <1>4, <1>5

LEMMA CycleMoves ==
    ASSUME QuestionInv, TypeOK', NEW a \in Agents, NEW t \in Tasks, CycleStep(a, t)
    PROVE  QuestionStep
<1>0. TypeOK /\ OneCopy /\ cycle[a][t] \in Cycle
  <2>1. TypeOK /\ OneCopy
    BY DEF QuestionInv, LoopInv
  <2>2. cycle \in [Agents -> [Tasks -> Cycle]]
    BY <2>1 DEF TypeOK
  <2>3. QED
    BY <2>1, <2>2
<1>1. ASSUME NEW c \in Cycle, Goes(a, t, c), c.query = cycle[a][t].query
      PROVE  \A b \in Agents, u \in Tasks : cycle'[b][u].query = cycle[b][u].query
  <2>1. /\ cycle'[a][t] = c
        /\ \A b \in Agents, u \in Tasks : b # a \/ u # t => cycle'[b][u] = cycle[b][u]
    BY <1>0, <1>1, SetCycle DEF Goes, TypeOK
  <2>2. QED
    BY <1>1, <2>1
<1>2. CASE CyclePaused(a, t) \/ CycleCancelled(a, t) \/ CycleDone(a, t)
           \/ CycleWantsNextCandle(a, t)
  BY <1>2, EndsMoves DEF CyclePaused, CycleCancelled, CycleDone, CycleWantsNextCandle
<1>3. CASE CycleBuilds(a, t) \/ CycleHears(a, t)
  <2>1. PICK c \in {[cycle[a][t] EXCEPT !.pc = "think"],
                    [cycle[a][t] EXCEPT !.pc = "think", !.ask = None]} : Goes(a, t, c)
    BY <1>3 DEF CycleBuilds, CycleHears
  <2>2. c \in Cycle /\ c.query = cycle[a][t].query
    BY <1>0, <2>1 DEF Cycle
  <2>3. /\ \A b \in Agents, u \in Tasks : cycle'[b][u].query = cycle[b][u].query
        /\ UNCHANGED <<inbox, waits, wire, outcome, call>>
    BY <1>1, <1>3, <2>1, <2>2 DEF CycleBuilds, CycleHears, questions
  <2>4. (\A q \in Queries : InInbox(q)' <=> InInbox(q)) /\ OneInbox'
    BY <1>0, <2>3 DEF InInbox, OneInbox, OneCopy, Holds
  <2>5. QED
    BY <2>3, <2>4, StaysStill
<1>4. ASSUME NEW q \in Queries, CycleAsks(a, t, q) PROVE QuestionStep
  <2>1. PICK b \in Agents : Publish(q, a, b, None)
    BY <1>4 DEF CycleAsks
  <2> DEFINE c == [cycle[a][t] EXCEPT !.pc = "ask", !.ask = q]
  <2>2. c \in Cycle /\ c.query = cycle[a][t].query /\ Goes(a, t, c)
    BY <1>0, <1>4 DEF CycleAsks, Cycle
  <2>3. \A d \in Agents, u \in Tasks : cycle'[d][u].query = cycle[d][u].query
    BY <1>1, <2>2
  <2>4. QED
    BY <1>4, <2>1, <2>3, PublishMoves DEF CycleAsks
<1>5. QED
  BY <1>2, <1>3, <1>4 DEF CycleStep

LEMMA QuestionInvStep ==
    ASSUME QuestionInv, [Next]_vars
    PROVE  QuestionInv' /\ QuestionStep
<1>1. LoopInv' /\ TypeOK'
  BY StepInv DEF QuestionInv, LoopInv
<1>2. QuestionStep
  <2>1. CASE UNCHANGED vars \/ TogglePause
    <3>1. UNCHANGED <<inbox, waits, cycle, wire, outcome, call>>
      BY <2>1 DEF vars, TogglePause, questions
    <3>2. (\A q \in Queries : InInbox(q)' <=> InInbox(q)) /\ OneInbox'
      BY <3>1 DEF QuestionInv, InInbox, OneInbox, OneCopy, Holds
    <3>3. QED
      BY <3>1, <3>2, StaysStill
  <2>2. QED
    BY <1>1, <2>1, FeedMoves, QuestionMoves, TaskMoves, CycleMoves DEF Next
<1>3. \A q \in Queries : OnePlace(q)'
  BY <1>2, SameIsKept DEF QuestionStep, Still, MovesOne, QuestionInv
<1>4. QED
  BY <1>1, <1>2, <1>3 DEF QuestionStep, QuestionInv

LEMMA ServiceSteps ==
    ASSUME QuestionInv, [Next]_vars
    PROVE  [Service!Next]_(Service!calls)
<1> DEFINE work == [q \in Queries |-> WorkOn(q)]
<1>0. call \in [Queries -> {"unused", "waiting", "answered", "expired"}]
  BY DEF QuestionInv, LoopInv, TypeOK
<1>1. QuestionStep
  BY QuestionInvStep
<1>2. CASE Still
  <2>1. work' = work /\ UNCHANGED call
    BY <1>2, SameIsKept DEF Still, QuestionInv
  <2>2. QED
    BY <2>1 DEF Service!calls
<1>3. ASSUME NEW q \in Queries, MovesOne(q) PROVE [Service!Next]_(Service!calls)
  <2>1. \A p \in Queries \ {q} : WorkOn(p)' = WorkOn(p)
    BY <1>3, SameIsKept DEF MovesOne, QuestionInv
  <2>2. work' = [work EXCEPT ![q] = WorkOn(q)'] /\ work[q] = WorkOn(q)
    BY <2>1
  <2>3. WorkOn(q)' = WorkOn(q) => work' = work
    BY <2>1
  <2>4. CASE UNCHANGED call /\ WorkOn(q)' = WorkOn(q)
    BY <2>3, <2>4 DEF Service!calls
  <2>5. CASE /\ call[q] = "unused" /\ call' = [call EXCEPT ![q] = "waiting"]
             /\ WorkOn(q)' = WorkOn(q)
    <3>1. Service!Ask(q)
      BY <2>3, <2>5 DEF Service!Ask
    <3>2. QED
      BY <3>1 DEF Service!Next
  <2>6. CASE /\ UNCHANGED call /\ call[q] # "unused"
             /\ WorkOn(q) = "none" /\ WorkOn(q)' = "queued"
    <3>1. Service!Enqueue(q)
      BY <2>2, <2>6 DEF Service!Enqueue
    <3>2. QED
      BY <3>1 DEF Service!Next
  <2>7. CASE UNCHANGED call /\ WorkOn(q) = "queued" /\ WorkOn(q)' = "running"
    <3>1. Service!Run(q)
      BY <2>2, <2>7 DEF Service!Run
    <3>2. QED
      BY <3>1 DEF Service!Next
  <2>8. CASE UNCHANGED call /\ WorkOn(q) = "running" /\ WorkOn(q)' \in {"answered", "silent"}
    <3>1. Service!End(q)
      BY <2>2, <2>8 DEF Service!End
    <3>2. QED
      BY <3>1 DEF Service!Next
  <2>9. CASE /\ call[q] = "waiting" /\ call' = [call EXCEPT ![q] = "answered"]
             /\ WorkOn(q) = "answered" /\ WorkOn(q)' = "answered"
    <3>1. Service!Answer(q)
      BY <2>2, <2>3, <2>9 DEF Service!Answer
    <3>2. QED
      BY <3>1 DEF Service!Next
  <2>10. CASE /\ call[q] = "waiting" /\ call' = [call EXCEPT ![q] = "expired"]
              /\ WorkOn(q)' = WorkOn(q)
    <3>1. Service!GiveUp(q)
      BY <2>3, <2>10 DEF Service!GiveUp
    <3>2. QED
      BY <3>1 DEF Service!Next
  <2>11. QED
    BY <1>3, <2>4, <2>5, <2>6, <2>7, <2>8, <2>9, <2>10 DEF MovesOne, Turns
<1>4. QED
  BY <1>1, <1>2, <1>3 DEF QuestionStep

LEMMA ServiceStarts == Init => QuestionInv /\ Service!Init
<1> SUFFICES ASSUME Init PROVE QuestionInv /\ Service!Init
  OBVIOUS
<1>1. LoopInv
  BY InitInv
<1>2. /\ \A q \in Queries : ~InInbox(q)
      /\ \A a \in Agents : \A i, q : ~Holds(a, i, q)
  BY DEF Init, InInbox, Holds
<1>3. None \notin Queries
  BY AgentLoopAssumption
<1>4. \A a \in Agents, t \in Tasks : cycle[a][t].query = None /\ waits[a] = None
  BY DEF Init, Off
<1>5. OneCopy
  BY <1>2, <1>4 DEF OneCopy, OneInbox, OneHandler, OneCycle, Init
<1>6. \A q \in Queries : ~OnWire(q) /\ ~Answering(q) /\ outcome[q] = "none"
  BY DEF Init, OnWire, Answering
<1>7. \A q \in Queries : ~Handled(q) /\ ~Worked(q)
  BY <1>3, <1>4 DEF Handled, Worked, Init
<1>8. \A q \in Queries : OnePlace(q)
  BY <1>2, <1>6, <1>7 DEF OnePlace
<1>9. \A q \in Queries : WorkOn(q) = "none"
  BY <1>2, <1>6, <1>7, <1>8, WorkIs DEF WorkFacts
<1>10. QED
  BY <1>1, <1>5, <1>8, <1>9 DEF QuestionInv, Service!Init, Init

\* The loops of the agents implement QueryService: every question is worked on at most
\* once, and an asker that gets an answer gets the one to its own question, whatever
\* agents ask each other, expire and run in between.
THEOREM QuestionsAreServed == Spec => ServesQuestions
<1>1. Spec => Service!Spec
  BY ServiceStarts, ServiceSteps, QuestionInvStep, PTL DEF Spec, Service!Spec
<1>2. QED
  BY <1>1 DEF ServesQuestions
=============================================================================
