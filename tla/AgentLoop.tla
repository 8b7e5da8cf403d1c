----------------------------- MODULE AgentLoop -----------------------------
(***************************************************************************)
(* The agents: for each one the task of its message loop, the task of its  *)
(* timer loop, the lock that keeps their decision cycles apart, and the    *)
(* questions agents put to each other from inside a cycle (AgentBridgeTool)*)
(* or get from the management API.                                         *)
(*                                                                         *)
(* One message is taken and judged without giving way to another task;     *)
(* waiting for the lock, building the snapshot, a turn of the model and    *)
(* waiting for an answer are where the tasks interleave.                   *)
(***************************************************************************)
EXTENDS Naturals, Sequences

CONSTANTS
    Agents,
    Timers,      \* the agents with an enabled timer
    Snapshot,    \* the agents with a snapshot profile
    Queries,     \* ids of AGENT_QUERY messages
    Api,         \* the management API, which asks as well
    Models,      \* LLM modules
    Home,        \* the model every agent is configured with at first
    Divider,     \* AnyCandle
    Capacity,    \* size of a member queue
    Feeds,       \* which messages arrive besides questions
    None

FeedKinds == {"candle", "outside", "forced", "event", "config", "pause"}

ASSUME AgentLoopAssumption ==
    /\ Timers \subseteq Agents
    /\ Snapshot \subseteq Agents
    /\ Home \in Models
    /\ Divider \in Nat \ {0}
    /\ Capacity \in Nat \ {0}
    /\ Feeds \subseteq FeedKinds
    /\ None \notin Queries \cup Models

VARIABLES
    inbox,      \* member queue of each agent
    count,      \* _m5_candle_event_count
    lock,       \* _run_lock: "free" or the task that holds it
    waits,      \* the question whose handler waits for the lock
    cycle,      \* the decision cycle of each task
    llm,        \* _llm_name
    saved,      \* saved_llm_name of the question handler
    setting,    \* the model the latest configuration names
    paused,     \* runtime_control
    post,       \* what each question is: who asks whom, on which model
    call,       \* the asker's future
    wire,       \* questions and answers published and not yet dispatched
    outcome,    \* history: how the cycle for a question ended
    streak,     \* history: candles in a row the divider alone kept from a cycle
    owed        \* history: the next candle is promised a cycle, or was and got none

vars == <<inbox, count, lock, waits, cycle, llm, saved, setting, paused, post,
          call, wire, outcome, streak, owed>>
history == <<streak, owed>>
model == <<llm, saved, setting>>
questions == <<post, call, wire, outcome>>

Tasks == {"timer", "messages"}

Message == [kind: {"candle"}, inSession: BOOLEAN, force: BOOLEAN]
           \cup [kind: {"event"}]
           \cup [kind: {"config"}, llm: Models]
           \cup [kind: {"query"}, id: Queries]

Cycle == [pc: {"off", "begin", "think", "ask"},
          trigger: {"none", "timer", "candle", "event", "query"},
          query: Queries \cup {None},    \* the question it answers
          ask: Queries \cup {None}]      \* the question it has put itself

Off == [pc |-> "off", trigger |-> "none", query |-> None, ask |-> None]

Begun(trigger, q) == [pc |-> "begin", trigger |-> trigger, query |-> q, ask |-> None]

TypeOK ==
    /\ inbox \in [Agents -> Seq(Message)]
    /\ \A a \in Agents : Len(inbox[a]) <= Capacity
    /\ count \in [Agents -> 0..Divider]
    /\ lock \in [Agents -> Tasks \cup {"free"}]
    /\ waits \in [Agents -> Queries \cup {None}]
    /\ cycle \in [Agents -> [Tasks -> Cycle]]
    /\ llm \in [Agents -> Models]
    /\ saved \in [Agents -> Models \cup {None}]
    /\ setting \in [Agents -> Models]
    /\ paused \in BOOLEAN
    /\ post \in [Queries -> [from: Agents \cup {Api, None},
                             to: Agents \cup {None},
                             llm: Models \cup {None}]]
    /\ call \in [Queries -> {"unused", "waiting", "answered", "expired"}]
    /\ wire \subseteq [kind: {"query", "answer"}, id: Queries]
    /\ outcome \in [Queries -> {"none", "answered", "silent"}]
    /\ streak \in [Agents -> Nat]
    /\ owed \in [Agents -> {"nothing", "next", "lost"}]

Init ==
    /\ inbox = [a \in Agents |-> <<>>]
    /\ count = [a \in Agents |-> 0]
    /\ lock = [a \in Agents |-> "free"]
    /\ waits = [a \in Agents |-> None]
    /\ cycle = [a \in Agents |-> [t \in Tasks |-> Off]]
    /\ llm = [a \in Agents |-> Home]
    /\ saved = [a \in Agents |-> None]
    /\ setting = [a \in Agents |-> Home]
    /\ paused = FALSE
    /\ post = [q \in Queries |-> [from |-> None, to |-> None, llm |-> None]]
    /\ call = [q \in Queries |-> "unused"]
    /\ wire = {}
    /\ outcome = [q \in Queries |-> "none"]
    /\ streak = [a \in Agents |-> 0]
    /\ owed = [a \in Agents |-> "nothing"]

-----------------------------------------------------------------------------
(* What arrives.                                                           *)

Arrives(a, m) ==
    /\ Len(inbox[a]) < Capacity
    /\ inbox' = [inbox EXCEPT ![a] = Append(@, m)]
    /\ UNCHANGED <<count, lock, waits, cycle, model, paused, questions, history>>

\* M5_CANDLE_TRIGGER from the broker adapter, or forced through the API.
CandleArrives(a) ==
    \E s, f \in BOOLEAN :
        /\ IF f THEN "forced" \in Feeds ELSE "candle" \in Feeds
        /\ s \/ "outside" \in Feeds
        /\ Arrives(a, [kind |-> "candle", inSession |-> s, force |-> f])

\* Another of the agent's event_triggers.
EventArrives(a) == "event" \in Feeds /\ Arrives(a, [kind |-> "event"])

\* AGENT_CONFIG_RESPONSE after the configuration was changed.
ConfigArrives(a) ==
    /\ "config" \in Feeds
    /\ \E m \in Models : Arrives(a, [kind |-> "config", llm |-> m])

\* runtime_control.pause() and resume().
TogglePause ==
    /\ "pause" \in Feeds
    /\ paused' = ~paused
    /\ UNCHANGED <<inbox, count, lock, waits, cycle, model, questions, history>>

-----------------------------------------------------------------------------
(* Questions on the bus.  A question goes to the inbox of its target past  *)
(* the routing table; a full inbox drops it.  An answer carries the id of  *)
(* the question, resolves the future registered for that id, and is        *)
(* discarded when there is none any more.                                  *)

Publish(q, from, to, m) ==
    /\ call[q] = "unused"
    /\ post' = [post EXCEPT ![q] = [from |-> from, to |-> to, llm |-> m]]
    /\ call' = [call EXCEPT ![q] = "waiting"]
    /\ wire' = wire \cup {[kind |-> "query", id |-> q]}

ApiAsks(q) ==
    /\ \E a \in Agents, m \in Models \cup {None} : Publish(q, Api, a, m)
    /\ UNCHANGED <<inbox, count, lock, waits, cycle, model, paused, outcome, history>>

\* Mutant: the member queue is not bounded.
DeliverQueryUnbounded(q) ==
    /\ [kind |-> "query", id |-> q] \in wire
    /\ wire' = wire \ {[kind |-> "query", id |-> q]}
    /\ inbox' = [inbox EXCEPT ![post[q].to] =
                    Append(@, [kind |-> "query", id |-> q])]
    /\ UNCHANGED <<count, lock, waits, cycle, model, paused, post, call, outcome,
                   history>>

DeliverQuery(q) ==
    LET a == post[q].to IN
    /\ [kind |-> "query", id |-> q] \in wire
    /\ wire' = wire \ {[kind |-> "query", id |-> q]}
    /\ inbox' = IF Len(inbox[a]) < Capacity
                THEN [inbox EXCEPT ![a] = Append(@, [kind |-> "query", id |-> q])]
                ELSE inbox
    /\ UNCHANGED <<count, lock, waits, cycle, model, paused, post, call, outcome,
                   history>>

\* Mutant: the future is found by asker and target, not by the id.
DeliverAnswerByName(q) ==
    /\ [kind |-> "answer", id |-> q] \in wire
    /\ wire' = wire \ {[kind |-> "answer", id |-> q]}
    /\ LET open == {p \in Queries : call[p] = "waiting" /\ post[p] = post[q]} IN
       \/ open = {} /\ UNCHANGED call
       \/ \E p \in open : call' = [call EXCEPT ![p] = "answered"]
    /\ UNCHANGED <<inbox, count, lock, waits, cycle, model, paused, post, outcome,
                   history>>

DeliverAnswer(q) ==
    /\ [kind |-> "answer", id |-> q] \in wire
    /\ wire' = wire \ {[kind |-> "answer", id |-> q]}
    /\ call' = [call EXCEPT ![q] = IF @ = "waiting" THEN "answered" ELSE @]
    /\ UNCHANGED <<inbox, count, lock, waits, cycle, model, paused, post, outcome,
                   history>>

\* Mutant: only the API's request has a timeout.
ExpireForApi(q) ==
    /\ call[q] = "waiting"
    /\ post[q].from = Api
    /\ call' = [call EXCEPT ![q] = "expired"]
    /\ UNCHANGED <<inbox, count, lock, waits, cycle, model, paused, post, wire,
                   outcome, history>>

\* The asker's wait_for times out and takes its future back.
Expire(q) ==
    /\ call[q] = "waiting"
    /\ call' = [call EXCEPT ![q] = "expired"]
    /\ UNCHANGED <<inbox, count, lock, waits, cycle, model, paused, post, wire,
                   outcome, history>>

-----------------------------------------------------------------------------
(* The timer loop: a tick that meets a running cycle, or the handler of a  *)
(* question in line for the lock, is skipped.                              *)

Starts(a, t, trigger, q) ==
    /\ lock' = [lock EXCEPT ![a] = t]
    /\ cycle' = [cycle EXCEPT ![a][t] = Begun(trigger, q)]

TimerTick(a) ==
    /\ a \in Timers
    /\ ~paused
    /\ cycle[a]["timer"] = Off
    /\ lock[a] = "free"
    /\ waits[a] = None
    /\ Starts(a, "timer", "timer", None)
    /\ UNCHANGED <<inbox, count, waits, model, paused, questions, history>>

-----------------------------------------------------------------------------
(* The message loop.                                                       *)

Takes(a, kind) ==
    /\ cycle[a]["messages"] = Off
    /\ waits[a] = None
    /\ inbox[a] # <<>>
    /\ Head(inbox[a]).kind = kind
    /\ inbox' = [inbox EXCEPT ![a] = Tail(@)]

\* A question waits for the lock rather than being skipped.
TakeQuery(a) ==
    /\ Takes(a, "query")
    /\ waits' = [waits EXCEPT ![a] = Head(inbox[a]).id]
    /\ UNCHANGED <<count, lock, cycle, model, paused, questions, history>>

\* Mutant: the question does not wait for the lock.
StartQueryAtOnce(a) ==
    LET q == waits[a] IN
    /\ q # None
    /\ Starts(a, "messages", "query", q)
    /\ waits' = [waits EXCEPT ![a] = None]
    /\ saved' = [saved EXCEPT ![a] = llm[a]]
    /\ llm' = [llm EXCEPT ![a] = IF post[q].llm = None THEN @ ELSE post[q].llm]
    /\ UNCHANGED <<inbox, count, setting, paused, questions, history>>

\* Under the lock it may run on a model of its own.
StartQuery(a) ==
    LET q == waits[a] IN
    /\ q # None
    /\ lock[a] = "free"
    /\ Starts(a, "messages", "query", q)
    /\ waits' = [waits EXCEPT ![a] = None]
    /\ saved' = [saved EXCEPT ![a] = llm[a]]
    /\ llm' = [llm EXCEPT ![a] = IF post[q].llm = None THEN @ ELSE post[q].llm]
    /\ UNCHANGED <<inbox, count, setting, paused, questions, history>>

\* A promise of a cycle that nothing in the code remembers any more.
Forgotten(promise) == IF promise = "nothing" THEN promise ELSE "lost"

\* _apply_config, whether or not a timer cycle is running.
TakeConfig(a) ==
    /\ Takes(a, "config")
    /\ setting' = [setting EXCEPT ![a] = Head(inbox[a]).llm]
    /\ llm' = [llm EXCEPT ![a] = Head(inbox[a]).llm]
    /\ count' = [count EXCEPT ![a] = 0]
    /\ streak' = [streak EXCEPT ![a] = 0]
    /\ owed' = [owed EXCEPT ![a] = Forgotten(@)]
    /\ UNCHANGED <<lock, waits, cycle, saved, paused, questions>>

\* A trigger that is not a candle: skipped when paused or when a cycle runs.
TakeEvent(a) ==
    /\ Takes(a, "event")
    /\ IF paused \/ lock[a] # "free"
       THEN UNCHANGED <<lock, cycle>>
       ELSE Starts(a, "messages", "event", None)
    /\ UNCHANGED <<count, waits, model, paused, questions, history>>

\* Mutant: due one candle late.
DueLate(a) == count[a] >= Divider

\* _should_run_for_trigger.
Due(a) == count[a] + 1 >= Divider

\* Mutant: a due run that the session rejects starts the count over.
CountForgetting(a, due) == IF due THEN 0 ELSE count[a] + 1

\* The counter after a candle: a due run that the session rejects is retried.
\* (With AnyCandle = 1 it is not looked at; it stays 0 here.)
CountAfter(a, due) ==
    CASE ~due -> count[a] + 1
      [] due /\ ~paused /\ ~Head(inbox[a]).inSession /\ Divider > 1 -> Divider - 1
      [] OTHER -> 0

\* A due run that meets a pause or a running cycle is dropped, and the counter,
\* set back before either is looked at, starts over.
TakeCandle(a) ==
    LET m == Head(inbox[a])
        due == m.force \/ Due(a)
        free == ~paused /\ m.inSession /\ lock[a] = "free"
    IN
    /\ Takes(a, "candle")
    /\ count' = [count EXCEPT ![a] = CountAfter(a, due)]
    /\ IF due /\ free
       THEN Starts(a, "messages", "candle", None)
       ELSE UNCHANGED <<lock, cycle>>
    /\ streak' = [streak EXCEPT ![a] = IF free /\ ~due THEN @ + 1 ELSE 0]
    /\ owed' = [owed EXCEPT ![a] = CASE ~due -> @
                                     [] due /\ free -> "nothing"
                                     [] due /\ ~paused /\ ~m.inSession -> "next"
                                     [] OTHER -> Forgotten(@)]
    /\ UNCHANGED <<waits, model, paused, questions>>

Take(a) == TakeQuery(a) \/ TakeConfig(a) \/ TakeEvent(a) \/ TakeCandle(a)

-----------------------------------------------------------------------------
(* One decision cycle, _run_cycle.                                         *)

Goes(a, t, c) == cycle' = [cycle EXCEPT ![a][t] = c]

\* Mutant: the model of a question stays.
EndsKeepingModel(a, t, answers) ==
    LET q == cycle[a][t].query IN
    /\ Goes(a, t, Off)
    /\ lock' = [lock EXCEPT ![a] = "free"]
    /\ UNCHANGED model
    /\ IF q = None
       THEN UNCHANGED <<wire, outcome>>
       ELSE /\ wire' = IF answers THEN wire \cup {[kind |-> "answer", id |-> q]}
                                  ELSE wire
            /\ outcome' = [outcome EXCEPT ![q] = IF answers THEN "answered"
                                                           ELSE "silent"]

\* The cycle is over: the lock is released, and a question's handler first puts
\* the agent's own model back.
Ends(a, t, answers) ==
    LET q == cycle[a][t].query IN
    /\ Goes(a, t, Off)
    /\ lock' = [lock EXCEPT ![a] = "free"]
    /\ IF q = None
       THEN UNCHANGED <<model, wire, outcome>>
       ELSE /\ llm' = [llm EXCEPT ![a] = saved[a]]
            /\ saved' = [saved EXCEPT ![a] = None]
            /\ UNCHANGED setting
            /\ wire' = IF answers THEN wire \cup {[kind |-> "answer", id |-> q]}
                                  ELSE wire
            /\ outcome' = [outcome EXCEPT ![q] = IF answers THEN "answered"
                                                           ELSE "silent"]

\* Paused in the meantime: a question is told so, everything else is dropped.
CyclePaused(a, t) ==
    /\ cycle[a][t].pc = "begin"
    /\ paused
    /\ Ends(a, t, TRUE)
    /\ UNCHANGED <<inbox, count, waits, paused, post, call, history>>

CycleBuilds(a, t) ==
    /\ cycle[a][t].pc = "begin"
    /\ ~paused
    /\ Goes(a, t, [cycle[a][t] EXCEPT !.pc = "think"])
    /\ UNCHANGED <<inbox, count, lock, waits, model, paused, questions, history>>

\* _should_use_snapshot_context: invalid snapshot, or cancelled by its script.
CycleCancelled(a, t) ==
    /\ cycle[a][t].pc = "begin"
    /\ ~paused
    /\ a \in Snapshot
    /\ cycle[a][t].trigger # "timer"
    /\ Ends(a, t, FALSE)
    /\ UNCHANGED <<inbox, count, waits, paused, post, call, history>>

\* A turn of the model calls the bridge tool.
CycleAsks(a, t, q) ==
    /\ cycle[a][t].pc = "think"
    /\ \E b \in Agents : Publish(q, a, b, None)
    /\ Goes(a, t, [cycle[a][t] EXCEPT !.pc = "ask", !.ask = q])
    /\ UNCHANGED <<inbox, count, lock, waits, model, paused, outcome, history>>

\* The tool returns the answer, or an error after its timeout.
CycleHears(a, t) ==
    /\ cycle[a][t].pc = "ask"
    /\ call[cycle[a][t].ask] # "waiting"
    /\ Goes(a, t, [cycle[a][t] EXCEPT !.pc = "think", !.ask = None])
    /\ UNCHANGED <<inbox, count, lock, waits, model, paused, questions, history>>

\* Mutant: the failure of the model is not told to whoever asked.
CycleDoneOrFailed(a, t) ==
    /\ cycle[a][t].pc = "think"
    /\ \E answers \in BOOLEAN : Ends(a, t, answers)
    /\ UNCHANGED <<inbox, count, waits, paused, post, call, history>>

\* A last turn, without CheckNextCandle in its text; or the model failed, and a
\* question is told so.
CycleDone(a, t) ==
    /\ cycle[a][t].pc = "think"
    /\ Ends(a, t, TRUE)
    /\ UNCHANGED <<inbox, count, waits, paused, post, call, history>>

\* _maybe_accelerate_candle_counter.
CycleWantsNextCandle(a, t) ==
    /\ cycle[a][t].pc = "think"
    /\ cycle[a][t].trigger = "candle"
    /\ Divider > 1
    /\ Ends(a, t, TRUE)
    /\ count' = [count EXCEPT ![a] = Divider]
    /\ owed' = [owed EXCEPT ![a] = "next"]
    /\ UNCHANGED <<inbox, waits, paused, post, call, streak>>

CycleStep(a, t) ==
    \/ CyclePaused(a, t)
    \/ CycleBuilds(a, t)
    \/ CycleCancelled(a, t)
    \/ \E q \in Queries : CycleAsks(a, t, q)
    \/ CycleHears(a, t)
    \/ CycleDone(a, t)
    \/ CycleWantsNextCandle(a, t)

-----------------------------------------------------------------------------
Next ==
    \/ \E a \in Agents : CandleArrives(a) \/ EventArrives(a) \/ ConfigArrives(a)
    \/ TogglePause
    \/ \E q \in Queries : ApiAsks(q) \/ DeliverQuery(q) \/ DeliverAnswer(q) \/ Expire(q)
    \/ \E a \in Agents : TimerTick(a) \/ Take(a) \/ StartQuery(a)
    \/ \E a \in Agents, t \in Tasks : CycleStep(a, t)

Spec == Init /\ [][Next]_vars

\* Tasks that can run do run, a model's turn ends (the LLM adapters have
\* timeouts), and so does every wait.  Nobody has to ask, tick or resume.
Fairness ==
    /\ \A q \in Queries : /\ WF_vars(DeliverQuery(q))
                          /\ WF_vars(DeliverAnswer(q))
                          /\ WF_vars(Expire(q))
    /\ \A a \in Agents : WF_vars(Take(a)) /\ WF_vars(StartQuery(a))
    /\ \A a \in Agents, t \in Tasks : WF_vars(CycleStep(a, t))

FairSpec == Spec /\ Fairness

-----------------------------------------------------------------------------
(* Properties.                                                             *)

\* The timer's cycle and a message's cycle share one ToolContext and one
\* system prompt: they never run at the same time (_run_lock).
OneCycleAtATime ==
    \A a \in Agents : cycle[a]["timer"] = Off \/ cycle[a]["messages"] = Off

\* Whatever a question asked for and whatever configuration arrives in between,
\* an agent that does not answer a question works on its configured model: "no
\* other cycle can observe self._llm_name/_llm_service_id mid-swap".
OwnModel ==
    \A a \in Agents :
        cycle[a]["messages"].trigger # "query" => llm[a] = setting[a]

\* "AnyCandle = 3 -> every third candle": of Divider candles in a row that find
\* the agent free, running and in session, one starts a cycle, whatever forced
\* runs, early triggers, rejected sessions and new configurations came before.
EveryNthCandle == \A a \in Agents : streak[a] < Divider

\* The loop takes a candle from its inbox.
CandleTaken(a) == /\ Len(inbox'[a]) < Len(inbox[a])
                  /\ Head(inbox[a]).kind = "candle"
CandleRuns(a) == cycle'[a]["messages"].trigger = "candle"

\* A run the session filter rejected, or one the model asked for with
\* CheckNextCandle, is promised to the next candle.  That candle starts it, or
\* is rejected by the filter too and leaves the one after it due.  The code
\* breaks the promise in one way only: the candle finds the agent paused or with
\* a cycle running, nothing remembers the promise, and the count starts over, so
\* that the run may be a whole divider away (EveryNthCandle).
OwedRunsNext ==
    [][\A a \in Agents :
         owed[a] = "next" /\ CandleTaken(a)
         => \/ CandleRuns(a)
            \/ ~paused /\ ~Head(inbox[a]).inSession /\ count'[a] + 1 >= Divider
            \/ /\ paused \/ (Head(inbox[a]).inSession /\ lock[a] # "free")
               /\ owed'[a] = "lost" /\ count'[a] = 0]_vars

\* No cycle hangs: agents that ask each other, or themselves, in a circle get
\* out of it.
CyclesEnd ==
    \A a \in Agents, t \in Tasks : cycle[a][t] # Off ~> cycle[a][t] = Off

\* "A query expects a response": once in its target's inbox, a question is
\* answered.  Holds of agents without a snapshot profile.
InInbox(q) ==
    \E a \in Agents : \E i \in DOMAIN inbox[a] : inbox[a][i] = [kind |-> "query", id |-> q]
QuestionsAreAnswered ==
    \A q \in Queries : InInbox(q) ~> outcome[q] = "answered"

\* Calls and cycles together implement QueryService.
WorkOn(q) ==
    CASE outcome[q] # "none" -> outcome[q]
      [] \E a \in Agents, t \in Tasks : cycle[a][t].query = q -> "running"
      [] InInbox(q) \/ \E a \in Agents : waits[a] = q -> "queued"
      [] OTHER -> "none"
Service == INSTANCE QueryService
             WITH work <- [q \in Queries |-> WorkOn(q)]
ServesQuestions == Service!Spec
=============================================================================
