# A verification project for OpenForexAI

OpenForexAI runs LLM agents that analyse currency pairs and trade them through a
broker. This directory holds TLA+ models of the parts of it in which several
tasks, a broker and a database have to agree, the TLC configurations that check
them, and TLAPS proofs about them. Paths are relative to `src/openforexai/`
unless they start with `docs/` or `tests/`.

## 1. The system

One Python process, one asyncio event loop. Everything that moves is a task of
that loop; an `await` is the only place where another task can run. The parts
talk through an event bus, and share one database and the broker's account.

| Part | Keeps | Does | Talks to |
|---|---|---|---|
| Order book and reconciliation (`adapters/brokers/base.py`, `tools/trading/`, `repository_service.py`) | rows of `order_book_entries`; the locals of a reconciliation pass | place, close, modify a position; a pass every `sync_interval` and one whenever the `trigger_sync` tool asks | broker account; repository service by bus requests with a 15 s timeout |
| Broker account and connection health (`base.py`) | last poll's success | polls the account, reports disconnect and recovery on the edge | monitoring, notifications |
| M5 candle stream (`base.py`) | `last_m5`, the pending delayed trigger | fetches candles, publishes them and the agents' `M5_CANDLE_TRIGGER` | data container, agents |
| Venues (`mt5.py`, `oanda.py`) | - | orders, positions, history, candles | terminal thread, REST |
| Event bus and routing (`messaging/`) | inbound queue, one bounded queue per member, response futures, routing table | dispatch direct, by response future, or by routing rule | everybody |
| Agents (`agents/agent.py`, `tools/system/agent_bridge.py`) | inbox, AnyCandle counter, run lock, model in use, configuration | message loop, timer loop, decision cycles; ask other agents | bus, LLM service, tools |
| Repository service and databases | tables | one message at a time; broadcasts `POSITION_CLOSED` | bus |
| Event log, monitoring, agent health, alert bridge | pending triggers, last activity | record, detect stale agents, raise alerts | notifications |
| Notifications | sent keys, sends of the last hour | deduplicate, cap, send | mail, messengers |
| Reporting sync | watermark per table and pair | mirrors new rows into a reporting database | two databases |
| Data container, resampler, indicators | M5 candles per pair | append, repair gaps, resample | candle stream, tools |
| Tool dispatcher | - | allow list, supervisor approval with a timeout | agents, bus |
| Semantic memory (`services/semantic_memory_service.py`) | notes with embeddings | one request after the other: remember, rewrite, forget, recall | agents' tool, bus |
| Configuration service, management API, bootstrap, composers | the configuration file; the agents and composers the API knows | answer requests for configuration; a save starts, stops and refreshes members | agents, composers, bus, routing store |
| LLM adapters and service | model in use | one task per request | agents, bus |

What is hard in it:

* **Two writers of one row.** `place_order`, `close_position` and two
  reconciliation passes write the order book. They share no lock; each acts on
  rows it read several `await`s ago.
* **A venue that answers late or not at all.** An order may be placed after its
  caller gave up; MT5 reports a failed read as an account without positions.
* **Restarts.** Tasks, queues and futures disappear; rows and positions do not.
* **Questions between agents.** They are asked from inside a cycle, so the asker
  holds its own lock and takes no message while it waits. Circles are possible.
* **Swapped state.** A question may ask for another model, which replaces the
  agent's own for the time of its cycle, while a timer wants to start cycles and
  configurations arrive.
* **Counting.** AnyCandle must give every n-th candle a cycle although candles
  are skipped for pauses, sessions, running cycles and forced runs.
* **Limits.** Member queues are bounded and drop silently.

What makes each part correct: book and broker agree in the end, and no position
has two rows; an agent runs one cycle at a time on its own model; the bus
delivers to a member in the order of publication and an answer only to the call
it belongs to; what stands in the configuration is what runs; a finished candle
stays, no gap is left, and an agent never decides on older data than what
triggered it; a mirrored table misses no row and a bar is what its rows make it;
the phone is told of a loss and a recovery in turn, nothing suppressed is
forgotten, and the cap holds; an agent reported stale has left something
undone; a tool that needs approval runs only after its own; a decision is
carried out once; a note stays until it is forgotten; a trace is complete.

## 2. Modules

| Module | Models | Kind |
|---|---|---|
| `PositionLedger` | what the order book promises about a position | abstract specification |
| `OrderBook` | the rows, both tools, the adapter's inbox task, both passes, broker, clock, restart | detailed; refines `PositionLedger` |
| `OrderBookProofs` | type correctness, three inductive invariants, four safety theorems, the refinement | TLAPS |
| `QueryService` | the life of a question or a request | abstract specification |
| `AgentLoop` | agents' loops, lock, divider, questions | detailed; refines `QueryService` |
| `RoutingStore` | rule file, routing table, the store and its writers | component |
| `EventBus` | publish, dispatch, members, calls of `bus_request`; extends `RoutingStore` | composition; refines `QueryService` |
| `MCEventBus` | its small instance | for TLC |
| `RoutingStoreProofs` | the inductive invariant of the rule store | TLAPS |
| `EventBusProofs` | type correctness, the inductive invariant, four safety theorems, the refinement | TLAPS |
| `AgentLoopProofs` | type correctness, two inductive invariants, three safety theorems, one about steps, the refinement | TLAPS |
| `MemberLife` | agents, composers, the configuration service and the saves that start and stop them | composition |
| `CandleStore` | polling loop, delayed trigger, data container, readers, backfill | composition |
| `ReportingMirror` | the passes that copy candles and keys and build bars | component |
| `Alerting` | account polls, alert bridge, notification service | composition |
| `AgentHealth` | an agent's queue, what monitoring records of it, the watcher | composition |
| `ToolApproval` | dispatchers, the bus's futures, the supervisor | composition |
| `ToolTurns` | the turns of a cycle, and the fallback after them | component |
| `SemanticMemory` | the memory service and its callers | component |
| `EventLog` | published events, the threads that write them, the traces | component |
| `PositionTerms` | units and limits of one position at the venue and in its entry: both tools, the adapter, the pass, the API's view, hands | composition |
| `MCServices` | the nine modules above, one at a time, with small constants | for TLC |
| `MemberLifeProofs` | type correctness, two inductive invariants, two safety theorems, one about steps | TLAPS |
| `ServicesProofs` | approvals, alarms, suppressed messages, the cap, losses and recoveries, traces; `MCServices` implements the nine specifications | TLAPS |
| `ToolsProofs` | tool turns, notes, the terms of a position | TLAPS |
| `CandleProofs` | finished candles, gaps, questions; the mirror | TLAPS |

Every boundary between two actions is an `await` at which another task may run
(or the point where the process ends). `PROJECT.json` maps each definition to
the lines it stands for. Definitions preceded by "Mutant:" are not part of any
specification: they are wrong variants of the definition that follows, kept to
show that the properties notice.

### OrderBook

`book` is the table, restricted to one adapter and one pair; a row knows its
position, its status and whether its `broker_order_id` is set (`ticket`). An
order's position carries its `sync_key` in the comment, so position and order
share a name; positions opened by hand (`Manual`) have none. `pass[w]` holds the
local variables of `_sync_pair` for the periodic pass (`"loop"`) and the one run
by `trigger_sync` inside the inbox task (`"tool"`); while the latter runs the
adapter handles no order (`AdapterFree`).

The actions `Place*` and `Close*` are the awaits of the two tools, `Handle*` the
adapter's handlers, `Pass*` the awaits of `_sync_pair` in order: snapshot of the
broker, local rows, one position after the other (refresh, or look-up followed
by re-sync or import), then the sweep of what is left with a second read or the
deal history before a row is closed or rejected. `*Lost`, `PassAbort`, a failed
`ReadPositions` and `Restart` are faults, and `MaxFaults` bounds their number.

Abstracted: a repository request is one step (its requester waits for it); a
write carried out after its requester timed out shows as a tool that stops
although its row was saved; prices, volumes and reasons are left out. The order
of requests in the adapter's inbox is free, which allows more than the code
does. Partial closes and `modify_position` are in `PositionTerms`; cancelling a
resting order is not modelled, so that `BookConverges` holds for one that rests
only because its row is closed while it waits (`order_book_resting`). A rejected
update also writes `broker_order_id` (`order_execution.py:551`), for an order
that no broker position stands for; the model leaves that out. The API's view,
which also ends entries, is left to `PositionTerms`. MT5 is the venue; its order
ticket equals the position's id.

### AgentLoop

Per agent: its member queue, `_m5_candle_event_count`, `_run_lock`, the handler
of a question in line for the lock (`waits`), and the cycle each of the two
tasks runs (`cycle[a]["messages"]`, `cycle[a]["timer"]`). A message is taken and
judged in one action, for the loop suspends nowhere between: publishing a
monitoring event puts it into an unbounded queue. `asyncio.Lock` is fair, so a
tick does not overtake a waiting question. A cycle begins, builds its context
(or is cancelled there, or finds the system paused), thinks, asks through the
bridge tool any number of times, and ends. `call` is the asker's future, `wire`
what is published and not dispatched; an answer whose future is gone is
discarded, as no routing rule takes `agent_query_response`.

`streak` and `owed` are history variables for the two candle properties, and
`outcome` for how work on a question ended; no guard reads them. A run the
session filter rejects, or one asked for with `CheckNextCandle`, is promised to
the next candle: the code calls it "re-analyse" with the next candle
(`agent.py:404, 417`) and a retry by "the very next trigger" (`677-680`). It does
not keep that. `_should_run_for_trigger` sets the counter back (`398-401`) before
the message loop skips the candle for a pause (`656-665`) or a running cycle
(`700-708`); nothing remembers the promise (`owed` is `"lost"`), and the candle
after it that finds the agent free starts no cycle. `OwedRunsNext` says that this
is the only way a promise is broken: the next candle starts the cycle, is
rejected in turn and leaves its successor due, or meets a pause or a running
cycle, and then the count starts over. `EveryNthCandle` bounds the delay.

Abstracted: prompts, tools other than the bridge, what a snapshot contains, the
texts. All targets of questions are registered agents. The order of messages on
the bus is free. With AnyCandle = 1 the counter is never looked at and stays 0.
Agents are not stopped or restarted.

### RoutingStore and EventBus

`file` is `event_routing.json5`, `table` the rules the bus routes by. A save
waits for the store's lock (`line`, first come first served), reads the file,
writes it in another thread (`SaveBegins`, `SaveWrites` or `SaveFails`), and
back in the event loop releases the lock and reloads (`SaveEnds`,
`SaveAborts`). A rule is an event type with its sender pattern and the members
it names; `Targets` is the union over all rules that match.

`inbound` is the one queue all messages go through. `Dispatch` takes the first
and reloads the table, completes a future, delivers to a named member or fans
out, in this order of precedence. `call[r]` is the future of request `r`,
`serving` what a service works on: one request at a time, or in a task each
(`Concurrent`, as the LLM service does). `number` counts publications and gives
each message its place. `Unregister` is a configuration save that disables an
agent, `Register` one that enables it again. `designed`, `unsaved`, `work`,
`taken` and `lost` are history; no guard but the bound `Load` reads them.

Abstracted: payloads and their schemas (a message that fails validation is never
published), the event log, monitoring, the agent's start before its loops run.
The rule file is only edited through the store.

### MemberLife

`config` is the configuration file: a version, the members it enables, and those
whose part of it a member cannot apply. `instance[m]` is the sequence of all
objects created under the name `m`, each with its life, its queue and the
configuration it has; `registered` are the names with a queue on the bus,
`active` those the endpoints know. `Save` is one save of the system
configuration with all that follows in the endpoint: members are stopped,
started, asked to refresh. The configuration service reads the file at one time
and the profiles an agent refers to at another (`ReadDesign`, `Answer`), so
that `has` keeps two versions. `ReadForNotifications` and `WriteNotifications`
are the save of the notifications, which writes back the whole file it read;
a system save in between is undone (`reverted`, excepted by name in the
properties). `Lose` is an answer that meets a full queue.

What the model shows beside the properties: an agent whose start failed or timed
out stays registered and is not started by later saves (`Failed`), although the
comment at `management/api.py:4804` says it will be; a composer of the bootstrap
that is stopped while it waits for its configuration starts its loops
nevertheless when the answer comes (`Forgetful`); and a refresh keeps the old
broker and LLM service of an agent (`_apply_config`), which the module does not
tell apart. Left out: the few rounds of the event loop between `task.cancel()`
and the end of the task, and the reload of LLM modules, which ends loops started
by the API only.

### CandleStore

A candle is its slot and whether the slot was over when the venue was asked: a
`"forming"` row becomes `"final"` only by being fetched again, and `"null"` marks
a candle that a reader put where the venue had none. A fetch brings the latest
candles only, as many as were asked for (`Newest`): `GapCheck` for a repair
(`_GAP_CHECK_COUNT`, 200 in the code), as many or `Depth + Spare` for a reader,
whatever is more, `History` for the backfill. `Poll` is a round of
`_m5_loop`: it announces a gap, publishes its window without the newest candle
and schedules the delayed trigger. Publishing never suspends, so each is one
step. `Trigger` fetches again or falls back to what it was scheduled with.
Fetches of the container go through the adapter's queue (`requests`); the answer
to one that was given up comes as bulk data. `SaveUpdate`, `SaveBulk`,
`EndRepair`, `SaveRead` and `EndRead` are the writers under the pair's lock,
`EndBackfill` the one without it. `published`, `failed`, `overtaken`, `beyond`
and `raced` are history.

One assumption stands in a guard (`RepairIsPrompt`): fewer than `GapCheck` slots
begin between a repair's fetch and its writing. All it waits for there is the
pair's lock, and a reader that holds it gives its own fetch up after a minute,
while 200 slots are almost 17 hours.

The code does less here than its documents say in places the properties leave
open. After a restart no gap is announced, and only an empty store is
backfilled, against `docs/ui.config.broker_modules.en.md:297`. A repair only
inserts what is missing: a half-built or null candle from before an outage
stays. A failed fetch of a reader puts null candles where the venue has real
ones; so does a slot that ends after a reader's fetch and before it looks for
holes up to the present (`overtaken`, `container.py:814-825`), which `NoGapLeft`
excepts by name; the proof of `NoGapLeft` found it, no run did. A gap longer
than `GapCheck` slots keeps its oldest ones without rows although its repair
succeeds and is reported as finished, against
`docs/ui.config.broker_modules.en.md:296` ("the adapter fetches the missing
candles"): only a read that looks back so far fetches them. `NoGapLeft` excepts
exactly the slots older than the candles that a repair got (`beyond`); without
that exception TLC refutes it. And a backfill that overlaps with a reader or
with updates can write over finished candles (`raced`).

### ReportingMirror

`rows` is the production table as the mirror may find it: the newest row still
forms, a repaired row comes late (`latecomers`). `rowKeys` are its market keys, by
slot and parameter set as in its primary key; `WriteKeys` saves those of one set,
and the sets one after the other. `disk` is the reporting
database, `work` what the pass in progress has not committed. `SyncM5`,
`SyncBars` and `SyncKeys` are the tables of a pass in their order, `FailPass`
rolls back and starts the mark of the candles over, `CutPass` ends a pass with
the program. The newest row is copied half-built and never again, and late rows
are not mirrored at all: the properties are about what was there in time.

The watermark of the keys is a slot without a set, and `sync_keys` asks for
slots after it, in the order of slots and up to a batch
(`reporting_sync.py:145-161`). Where a batch ends between two sets of a slot, or
a pass runs between the saves of two sets, the second key is never copied,
against the comment at `reporting_sync.py:27-29` ("the cap only shapes latency,
never completeness"). `NothingSkipped` says that nothing else is lost: it
excepts keys of a slot at which a pass ended (`seams`) and of which another
set's key was copied (`CutOff`); without that exception TLC refutes it.
`_MARKET_KEY_MAX_PER_CALL` (`container.py`), which writes the keys of one set
twenty at a time, is left out. `BarsFollowRows` compares a bar with the copied
rows it is made of; whether that is "the same bar the agent sees"
(`reporting_sync.py:77`), whose rows may have changed in production since, is
not claimed.

After a failure, bars that were built are not built again (`broken`), and the mark
is reset although the docstring speaks of continuing from the same one.

### Alerting

`PollSucceeds` and `PollFails` are the account loop with its edge;
`Raise`, the alert bridge, hands messages to the service's loop, a test notice
comes from the API beside it (`Callers`). `Notify` decides without suspending:
repeated within the window, over the cap, or posted; `Arrives` and `PostFails`
end a post. Times are counted in steps of a clock; `phone` is the history of
what arrived, `owed` of what was suppressed and not told. Left out: settings
that change, are disabled or have no receiver, and a monitoring queue that
overflows.

### AgentHealth

Deliveries are recorded when the bus puts a message into a queue (and also when
the queue drops it), reactions when the agent says so; `pending` and `reported`
are what monitoring and the watcher keep, `queue`, `doing` and `taken` what the
agent really does. `AlarmIsFounded` says what an alarm means; what it does not
mean shows in the model too: a trigger that came during a long cycle stays
pending and the agent is reported although it works, against the comment at
`agent_health.py:30-33`; and new triggers that come more often than the grace
period hide a stall.

### ToolApproval and ToolTurns

`ToolApproval`: `Execute` judges a call, `Dispatch` is the bus completing or
discarding an answer, `Resume` what the call does then, `Abandon` its timeout.
Without a bus the code approves by itself; the module always has one. It has the
supervised mode only: `human` rejects and any other approves at once
(`dispatcher.py:213-220`).
`ToolTurns` is `_run_with_tools` for each kind of cycle: the model answers with
words or calls or fails, calls are run one after the other and counted however
they ended, reminders name the required tools that were not called, and a broker
agent's written decision is carried out by the fallback if no trading tool was
called. Left out: the context budget, images, agents without a dispatcher.

### SemanticMemory and EventLog

`SemanticMemory` serves one request at a time; `copies[n]` counts the rows of a
note, `known` is what callers have been told or have read, so that a request to
rewrite a note comes from somebody who could know it. A rewrite deletes
(`UpdateDeletes`), embeds again and inserts; if that fails the note is gone
(`gone`), although the docstring promises that the id stays valid, and it loses
its expiry. A caller that gives up and asks again stores a note twice, under two
ids: these are two notes here.

`EventLog`: an event carries the chain of those that led to it; rows are written
in any order, or not at all. A root written after one of its descendants has
lost it from its count (`early`), a limit of the count that no comment names.

### PositionTerms

One position and its one entry. `venue` is what the broker has, `entry` the row;
`wish`, `progress` and `read` are a call of `close_position` or `modify_order`
and its locals, `asking` the adapter's inbox, `desk` the request it works on with
the position it has read. `TakeRequest` and `SendClose` or `SendLimits` are the
two reads and writes of an MT5 handler, `FindEntry` and `RecordClose` those of
the tool after the answer. `sync` is the pass (`SyncReads`, then `SyncRefreshes`
or `SyncSweeps`), `view` the order book view of the API
(`_reconcile_order_book_entries_with_broker`). Troubles are lost writes, calls
that fail after a full, partial or no execution, failed reads, changes by hand
and restarts.

Units and volumes differ. MT5 deals in hundredths of a lot (`Lot` units each):
an order and a close are rounded to the nearest (`mt5.py:311, 454`; `Rounded`),
and a volume is read back as whole units, cut off, so that a float may lose one
(`mt5.py:366, 448`; `Readings`). The entry takes the units of the order, and
`close_position` subtracts the units it was asked for (`close_position.py:180-185`).
`rounding` counts what the venue has sent and read short of that. OANDA is sent
units; the module follows MT5.

What the module shows of the code:

* A pass never refreshes units and sets `confirmed_by_broker`, although
  `models/trade.py:181` calls the flag a confirmation "of the full record"; the
  view repairs units, but of unconfirmed entries only. After a lost partial close
  and a pass, the entry shows too many units until it ends.
* A failed read looks like an account without positions (`mt5.py:355-357`). If
  both reads of a sweep fail, the pass ends the entry of a live position
  (`base.py:915-923`); the view acts on one read and ends every open entry that is
  not confirmed, for `get_closed_trade_result` takes the opening deal if there is
  no other (`mt5.py:564-571`). A later pass that finds the position opens the
  entry again. `NeverUnderstated` excepts the time in between (`overlooked`).
* The calls subtract what was asked for and not what was closed. Of 1400 units to
  close the venue closes 1000, and the entry shows 400 too few from then on.
  `NeverUnderstated` allows for what the roundings add up to (`rounding`), which
  bounds the loss. Nothing has to fail or overlap for it, against
  `docs/openforexai.tools.trading.en.md:140` ("updates the local order book for full
  and partial closes").
* If the view writes the units between a partial deal and the look-up of its
  call, they are subtracted twice: the third exception (`misled`).
* A limit removed at the venue stays in the entry, as the comment at
  `base.py:883-889` wants it.

`NeverUnderstated` states these three exceptions; in every other case the entry
shows the position or more.

Abstracted: the steps and limits of a volume other than a hundredth of a lot, more
than one view at a time, agents without a pair (whose requests go to another
adapter), limits given as 0, closing of several positions by one call (one call
after the other in the code).

## 3. Runs

Two actors per kind of conflict are enough for the interleavings the properties
name; the constants below are the smallest that make each case happen.

| Run | Instance | Shows |
|---|---|---|
| `order_book_two_passes` | one order, both passes, two faults | the program's own orders are never imported, running calls are protected, one failed read closes nothing; refines `PositionLedger` |
| `order_book_one_pass` | a resting order, a manual position, the periodic pass, one fault, fairness | one row per position; book and broker agree in the end |
| `order_book_duplicate` | one manual position, both passes | violated: two rows for one position |
| `order_book_closed_once` | one order, the periodic pass | violated: `POSITION_CLOSED` twice for one position |
| `order_book_resting` | a resting order | violated: its row is marked CLOSED while it waits |
| `agent_triggers` | one agent with a timer, AnyCandle = 3, all messages, two models, a question | cycles exclude each other, own model, every third candle, a promised cycle is the next candle's unless that meets a pause or a running cycle |
| `agent_questions` | two agents, two questions, inboxes of one, pauses, fairness | cycles end, questions are answered; refines `QueryService` |
| `event_bus` | an agent, a service with one task per request, one event type, queues of two, two saves | order of delivery, late answers, no call waits in vain, rules of two owners; refines `QueryService` |
| `agent_unanswered` | one agent with a snapshot profile | violated: a question without an answer |
| `member_life` | an agent and a composer, three saves and new members, one edit of a profile, one lost answer, fairness | one instance runs, the registry follows the configuration, nobody goes back, the latest configuration runs in the end |
| `services` | nine modules, one at a time, see below | fifteen properties of candles, mirror, notices, alarms, approvals, turns, notes, traces and a position's terms |
| `keys_of_finished` | four slots, nothing lost or late, a window of three | violated: a market key of a half-built candle |

The runs that end in a violation show disagreements between the code and what
its comments, docs or tests say; `PROJECT.json` quotes both under "findings".
Others are exceptions of properties that hold, and are told with their modules in
section 2: the lost promise of a cycle (`OwedRunsNext`), the gap that is longer than
a repair (`NoGapLeft`), the key of a split slot (`NothingSkipped`), and the rounding
and the failed reads of a position (`NeverUnderstated`).

`services` checks one module per behaviour (`part`): they share no state, and a
property of one reads only its variables, so that interleaving them would add
nothing. Its bounds: four slots with a window of two are two polls with a gap
between them, an update, a repair and a late answer; a repair that gets two
candles closes a gap of one slot and leaves part of one of two; two extras are a
restart and a reader, a reader and a question, or a late answer and a reader.
Two parameter sets, three rows and batches of two let a batch end between the
keys of a slot or after it, and give a full bar that grows from two batches and
a bar that is not complete; three passes are one that fails, one that is cut and
one that goes on. The cap is shown for one API caller beside the alert bridge.
An hour of two steps, a window of one and a cap of two let the cap be reached,
an hour end and a repeated message come in and outside its window; five alerts
fill the cap, exceed it and start over. Two dispatchers and three calls let a
late approval meet a second call of the same agent and one of another. Three
turns with two reminders reach both limits. Two notes and five requests are two
that remember, a rewrite, and its repetition after a timeout. Three events are a
root, one in between and a leaf. Two lots and two calls are a partial close and
one of the rest, or one that overlaps with new limits. The order of five units
is rounded up to two lots of three, and a close of four down to one, so that
what is asked for, dealt and read differ in both directions. One limit at one
price is one that is set, kept or removed, and one trouble any of those listed.

**Fairness.** Weak fairness only, and only of what the event loop, a timeout or
the clock brings about: ready tasks run, requests end (with an answer or at
their timeout), grace periods pass, a pass once started goes on and the periodic
one starts again after its sleep, a turn of the model ends (its adapters have
timeouts). No agent has to ask, place, close or tick, nobody has to resume a
paused system, and the broker need not fill, open or close anything. `CyclesEnd`
and `QuestionsAreAnswered` rest on a finite set of questions: a model that asks
for ever is cut by the turn limit of `_run_with_tools` in the code and by the
number of questions in the model. In `member_life` the service, the bus and
every member's own steps are fair, and so are answers and timeouts; no save has
to happen.

**Deadlock** is switched off in `agent_questions`, `agent_unanswered` and
`event_bus`: with all questions, requests and saves used up the system is at
rest. `MaxLoad` bounds what is published unasked and saved in one behaviour of
`event_bus` to three: two saves that overlap and an event, or a call given up, a
second one and an event, are among them, and three events fill a queue of two.
It is off in `member_life`, `services` and `keys_of_finished` as well: bounded
saves, slots, passes, alerts and requests come to an end.

## 4. Proofs

All theorems hold for every value of the constants that satisfies the module's
ASSUME, hence for any number of orders, passes, agents, questions and faults.

`OrderBookProofs`: `TypeCorrect` (the types are proved here only, no run repeats
them); `NoOwnOrderImported` and `GraceProtects` from the inductive invariant
`BookInv`. That a row was not imported says too little to be inductive: an
import is decided on a look-up made earlier. Its parts are `TypeOK` and
`OwnOrdersNeverImported` themselves; `RowFirst`, an order's row precedes
everything else about it, so that a look-up for a position of the program's own
never comes back empty; `RunningIsFresh`, a running call has a row within the
grace period; `ClosersHoldRows`, whoever closes holds an existing row; and
`SafeLocals`, what a pass remembers stays true while others act: the rows it
holds exist, the orders in its snapshot have been placed, those it takes for
aged or suspects are done, and a failed look-up ends at a manual position.
`ClosedAfterGoodRead` needs more, `ReachInv`: an order is asked for and accepted
at most once (`AskedOnce`), and a row with a broker id, and whatever a pass saw,
stands for something the broker has accepted (`RowsReached`, `SawReached`); so
what an undisturbed read did not show is over, or rests. `LedgerIsKept`, that
the book implements `PositionLedger`, follows from it: a step changes the record
of one position (`NextMovesOne`), and each way it writes the book
(`NextBookSteps`) is a step of the ledger. `OneRowOfOnePass` adds `RowInv`: a
pass that looked for a row and found none may rely on there being none until it
imports (`LooksOnce`). Its hypothesis `OnePass`, that only one of the two passes
exists, is needed: `order_book_duplicate` shows two rows with both.

`AgentLoopProofs`: `TypeCorrect`; `CyclesExclude`, `OwnModelKept`, `NthCandle`
and `OwedRuns` from `LoopInv`. It adds to the types: a task with a cycle holds
the lock (`Serial`); only the message loop answers questions (`QueryTask`); the
configured model is in use, or saved by the handler of a question (`ModelKept`);
a question under way has a target (`Addressed`); candles skipped by the divider
alone are all counted and a promised cycle is due (`Counted`). `OwedRuns` is
about steps: `OnlyTakes` shows that nothing but the message loop removes from an
inbox, and `Counted` that the candle it takes is due, so that only the filter, a
pause or a running cycle can keep it from starting the promised cycle.
`QuestionsAreServed`, that the loops implement `QueryService`, rests on
`QuestionInv`: a question is on the wire, in one inbox, with one handler, in one
cycle, or over (`OnePlace`), and there once (`OneCopy`), so that a step moves
one question (`QuestionStep`).

`RoutingStoreProofs` and `EventBusProofs`: `RulesAgree` from `StoreInv`,
`TypeCorrect`, `DeliversInOrder`, `LateAnswersOnlyGoHome` and `NobodyForgotten`
from `BusInv`, and from it as well `CallsServed`, that the bus implements
`QueryService`. `StoreInv` describes the file while the lock is held: only the
head of the line works (`Queued`), what it is about to write keeps the other
owner's part of the file (`Prepared`), the table lags behind only between a
write and the reload (`Reloaded`), and an owner's latest rules are in the file,
or in the last of its saves in line, or it was told of a failure (`Newest`).
`BusInv` says where messages are: numbers grow from what was taken over the
queues to the inbound queue (`Ordered`); the place of a message tells how far its
request is, and who its sender and its target are (`Placed`); no two messages on
the way are about one request (`Single`), without which completing a future
could leave a second answer behind that finds no waiting call; whoever waits can
point to something (`Backed`); and an agent waits for one call (`OneWait`), so
that stopping it ends at most one and is a step of `QueryService`.

`MemberLifeProofs`: `TypeCorrect`, `OneRuns` and `QueuesFollowConfig` from `Inv`:
only the latest instance under a name lives, unless it is ending or forgot that
it was stopped (`OnlyLatestLives`); whoever has a queue has an instance
(`RegisteredExist`); and queues, endpoints and configuration agree (`Registry`).
`ConfigGoesForward` from `ConfigInv`: what a member has, what lies in its inbox,
what is on the bus for it and what the service is about to answer are in the
order of the saves (`InOrder`, `TellsInOrder`), for the service reads one
configuration at a time (`ReadOnce`) and the bus keeps the order. The property
excepts a save of the notifications that undoes another save (`reverted`).

`ServicesProofs`: `OnlyApprovedRun` from `ToolInv`, by `WaitsOwn`: a dispatcher
waits for its own call, and its future is approved only if that call was.
`AlarmsAreFounded` from `HealthInv`: whatever is pending has a reason in the
queue, in the agent's hands or in `unseen` (`PendingHasReason`), and an agent
with an alarm stays reported (`AlarmedIsReported`). The three about
notifications build on each other. `NothingSuppressedIsLost` from `CountInv`:
each caller posts messages of its own kinds, and the one that posts a repeated
message tells what was counted for it (`PostsOfTheirOwn`). `CapIsKept` from
`CapInv`: what the service counts is the end of what arrived (`SentIsTail`), and
in any hour what arrived and what is being posted exceed the cap by at most the
other caller's message and the notice (`HoursHold`). `LossesAndRecoveriesInTurn`
from `WordsInv`: some reading of the unhandled alerts leads from what was last
said to what the polls know (`WordsTold`). `WholeTraces` from `LogInv`: a chain
is the causes of its event, one after the other (`ChainsAreCauses`), and a root
counts what is written of its chains (`RootsCount`); that following causes and
following chains give the same events is shown by `NumberInduction`.
`ServicesAreParts` says that the composition the run checks implements the
specification of each of its nine modules, so that every theorem about one of
them is one about `MCServices`; `ServicesTyped` adds their types.

`ToolsProofs`: `CarriedOutOnce` from `TurnInv`: a call that reached a
venue is counted or stands in the results of the turn (`ReachedAreCounted`), and
who leaves the turns has called everything, been reminded, or used them up
(`LeavesAccounted`). `NotesAreKept` from `MemoryInv`: a request to remember has
an id of its own and a rewrite one that somebody knows (`OnTheWay`), only a
rewrite deletes, and what it deleted is to come back (`Phases`).
`ExposureIsCovered` from `TermsInv`: what a call, the view or the pass has read
was true once (`ReadsAreOld`), a call that executed a deal is one to close
(`DealtCalls`), the entry is open unless failed reads ended it (`OpenKept`), and,
unless the view made a call subtract twice, the entry's units and what rounding lost
are at least the units at the venue and all those that calls have executed but not
yet subtracted (`BookCovers`). Those units are a sum over calls; it is stated by the
partial sums, whose existence is the invariant. `CloseSent` is where a volume is
sent: what is due of the call exceeds what the venue closed by no more than
`rounding` grew.

`CandleProofs`: `FinishedCandlesStay` from `StoreInv`. A writer can only harm a
finished candle with an unfinished one that it fetched before: what is finished
anywhere was over when it was fetched (`OnlyOver`), and what a reader got or
found missing is not finished in the store as long as it holds the lock
(`ReaderHolds`). `GapsAreRepaired` from `CoverInv`: what a poll has passed is in
the store, in an update, older than what a repair got (`beyond`), or a gap
notice or repair is to come (`AllUnderway`), a repair's answer reaches back far
enough to find its holes when it writes (`RepairRecent`, from `RepairIsPrompt`),
and a null candle where the venue has one has its excuse (`NullsExcused`).
`AgentsAreServedFresh` from `AnswersFresh`: when the messages before a question
are handled, what it counts on is finished in the store, and no later one of
them brings it unfinished. `MirrorHasNoHoles` and `BarsAreOfTheirRows` from
`MirrorInv`, which says the same of the mirror on disk and of the one a pass
works on (`SoundCopy`), so that a pass cut anywhere leaves a sound mirror: up to
its watermarks nothing but latecomers is missing (`NoHole`), a bar was built
after the last of its rows (`BarsEnded`), and, unless a pass has failed, no row
is ahead of the watermark (`RowsMarked`). For the keys `MirrorHasNoHoles` adds
`KeysInv`: no pass holds keys it has not committed, the slot of the watermark is
a seam with a key in the copy, and every key not written late is copied, after
the watermark, or cut off at a seam.

Every invariant and action property of the passing runs is proved, and so are the
refinements. Only model-checked is liveness (`BookConverges`, `CyclesEnd`,
`QuestionsAreAnswered`, `ConfigConverges`): fairness and ENABLED are out of the
prover's reach. So are theorems that take an operator as a parameter; where a
proof needs induction over numbers (chains of events, the latest of some
candles) it is stated with sets, from `WFMin`.

## 5. What is left

In the order in which it would add most:

1. The cancellation of resting orders in `OrderBook`; the OANDA venue, whose
   posts are repeated.
2. The cycles in which a composer runs its script; the reload of LLM modules and its effect
   on agents that use them.
3. Pure algorithms of `data/` and `tools/market/` that work on integers (swing
   levels, buckets) against reference definitions.

## 6. Not modelled

The modules cover the code in which tasks wait for each other, and leave most of
the source lines aside: request formatting and REST retries of the venues and
LLM adapters; table definitions and plain queries of two database adapters; the
reading endpoints of the management API and the user interface; the text of
snapshots and prompts; bootstrap wiring. Little state is decided there: what is
hard about it is formats and other programs. Indicator formulas work on
floating-point numbers, of which TLC has none. One of the hazards in
`PROJECT.json` has no property, with the reason. Of the modelled parts, what
each module leaves out is named in section 2.

## 7. Running it

    tlc -workers 2 -config AgentLoop_triggers.cfg AgentLoop.tla
    tlapm AgentLoopProofs.tla
