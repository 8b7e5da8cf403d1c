----------------------------- MODULE CandleStore -----------------------------
(***************************************************************************)
(* M5 candles of one pair on their way from the venue into the store: the  *)
(* polling loop and the delayed trigger of the broker adapter, the message *)
(* loop of the data container with its repair of gaps, a reader that       *)
(* completes the store before it reads, the initial backfill, agents that  *)
(* ask for candles, and a restart of the program.  A candle is known by    *)
(* its slot, the number of its five minutes; what is told apart of its     *)
(* content is whether the slot was over when the venue was asked.          *)
(***************************************************************************)
EXTENDS Naturals, Sequences, FiniteSets

CONSTANTS
    MaxSlot,     \* bound: slots that pass
    Lookback,    \* candle_poll_lookback: candles in the window of a poll
    Depth,       \* slots a reader wants to be complete
    GapCheck,    \* _GAP_CHECK_COUNT: candles a repair asks for, and rows it looks at
    Spare,       \* candles a reader asks for beyond its depth
    History,     \* _M5_BACKFILL: candles the backfill asks for
    MaxExtras    \* bound: readers, questions, restarts and fetches that fail, together

ASSUME CandleStoreAssumption ==
    /\ MaxSlot \in Nat \ {0}
    /\ Lookback \in Nat /\ Lookback >= 2
    /\ Depth \in Nat \ {0}
    /\ GapCheck \in Nat \ {0} /\ Spare \in Nat \ {0} /\ History \in Nat \ {0}
    /\ MaxExtras \in Nat

Slots == 1..MaxSlot

VARIABLES
    now,        \* the slot in progress
    traded,     \* slots in which the venue has prices; the others have no candle
    forming,    \* the venue also delivers the candle of the slot in progress
    lastM5,     \* _last_m5_time_by_pair, 0 for None
    delayed,    \* the delayed trigger: the candle it was scheduled with, if any
    inbox,      \* queue of the data container
    repair,     \* the message loop's repair: "no", "waiting" or "answered"
    reader,     \* get_candles: "no", "waiting", "answered" or "saved"; it holds the lock
    backfill,   \* _initial_backfill: "due", "waiting", "answered" or "done"
    requests,   \* fetches in the queue of the adapter
    answer,     \* the candles each of the three has got
    absent,     \* slots that the reader has found missing after its fetch
    store,      \* the table of M5 candles
    keys,       \* the market keys: the form that each one's candle had
    published,  \* history: slots of finished candles that were sent to the container
    failed,     \* history: a fetch for the container failed or was given up
    overtaken,  \* history: slots that ended after a reader's fetch, before it looked for holes
    beyond,     \* history: slots older than the candles that a repair got
    raced,      \* history: the backfill wrote beside a reader or over rows of others
    extras      \* readers, questions, restarts and failures so far

candleVars == <<now, traded, forming, lastM5, delayed, inbox, repair, reader, backfill,
                requests, answer, absent, store, keys, published, failed, overtaken, beyond, raced,
                extras>>
containerVars == <<inbox, repair, reader, backfill, requests, answer, absent, store, keys>>
pollVars == <<lastM5, delayed, published>>
clockVars == <<now, traded, forming, overtaken, beyond>>
worldVars == <<clockVars, failed, raced, extras>>

Fetchers == {"repair", "reader", "backfill"}
Forms == {"none", "forming", "final", "null"}
Candle == [slot: Slots, form: {"forming", "final"}]
Rows == SUBSET Candle

Message == [kind: {"update"}, rows: Rows] \cup [kind: {"bulk"}, rows: Rows]
           \cup [kind: {"gap"}] \cup [kind: {"question"}, needs: SUBSET Slots]

CandleTypeOK ==
    /\ now \in 0..MaxSlot
    /\ traded \in SUBSET Slots
    /\ forming \in BOOLEAN
    /\ lastM5 \in 0..MaxSlot
    /\ delayed \in Rows /\ Cardinality(delayed) <= 1
    /\ inbox \in Seq(Message)
    /\ repair \in {"no", "waiting", "answered"}
    /\ reader \in {"no", "waiting", "answered", "saved"}
    /\ backfill \in {"due", "waiting", "answered", "done"}
    /\ requests \in Seq([by: Fetchers, late: BOOLEAN])
    /\ answer \in [Fetchers -> Rows]
    /\ absent \in SUBSET Slots
    /\ store \in [Slots -> Forms]
    /\ keys \in [Slots -> {"none", "forming", "final"}]
    /\ published \in SUBSET Slots
    /\ overtaken \in SUBSET Slots /\ beyond \in SUBSET Slots
    /\ failed \in BOOLEAN /\ raced \in BOOLEAN
    /\ extras \in 0..MaxExtras

CandleInit ==
    /\ now = 0 /\ traded = {} /\ forming \in BOOLEAN
    /\ lastM5 = 0 /\ delayed = {}
    /\ inbox = <<>> /\ repair = "no" /\ reader = "no" /\ backfill = "due"
    /\ requests = <<>> /\ answer = [f \in Fetchers |-> {}] /\ absent = {}
    /\ store = [s \in Slots |-> "none"] /\ keys = [s \in Slots |-> "none"]
    /\ published = {} /\ overtaken = {} /\ beyond = {} /\ failed = FALSE /\ raced = FALSE
    /\ extras = 0

-----------------------------------------------------------------------------
(* The venue.                                                              *)

\* A repair that has its answer waits for no more than a reader's fetch, which is given up
\* after a minute: fewer than GapCheck slots begin before it writes.
RepairIsPrompt == \A c \in answer["repair"] : c.form = "forming" => now + 1 < c.slot + GapCheck

\* The next five minutes begin, with or without a price.
SlotBegins(hasPrice) ==
    /\ now < MaxSlot
    /\ RepairIsPrompt
    /\ now' = now + 1
    /\ traded' = IF hasPrice THEN traded \cup {now'} ELSE traded
    /\ overtaken' = IF reader = "answered" /\ now # 0 THEN overtaken \cup {now} ELSE overtaken
    /\ UNCHANGED <<forming, beyond, failed, raced, extras>>
    /\ UNCHANGED <<pollVars, containerVars>>

\* What the venue has for get_historical_m5_candles, which returns the latest of them.
Fetched == {[slot |-> s, form |-> IF s = now THEN "forming" ELSE "final"] :
               s \in {t \in traded : t < now \/ forming}}

\* The candles after all but the latest n of a set.
Newest(rows, n) == {c \in rows : Cardinality({d \in rows : d.slot > c.slot}) < n}

-----------------------------------------------------------------------------
(* The broker adapter.                                                     *)

\* The candles of a set, oldest first.
OldestFirst(rows) ==
    {q \in [1..Cardinality(rows) -> rows] : \A i, j \in DOMAIN q : i < j => q[i].slot < q[j].slot}

\* _publish_m5_candle_update, of one candle after the other.
Updates(q) == [k \in DOMAIN q |-> [kind |-> "update", rows |-> {q[k]}]]

\* Mutant: a gap is never announced.
NoGapBefore(t) == FALSE

\* More than one slot between the latest finished candle and the one before it.
GapBefore(t) == lastM5 # 0 /\ t > lastM5 + 1

\* What a poll publishes: all of its window but the newest candle.
ToPublish(window) == window \ Newest(window, 1)

\* Mutant: the previous trigger is not cancelled.
ScheduledBeside(rows) == delayed \cup rows

\* _schedule_agent_trigger: the new trigger replaces one that is still delayed.
Scheduled(rows) == rows

\* One round of _m5_loop, if the venue has a new finished candle.  A gap is announced
\* first.  The first round after the start triggers nobody.
Poll ==
    LET window == Newest(Fetched, Lookback)
    IN /\ Cardinality(window) >= 2
       /\ \E c \in Newest(window \ Newest(window, 1), 1) :
             /\ c.slot > lastM5
             /\ lastM5' = c.slot
             /\ \E q \in OldestFirst(ToPublish(window)) :
                   inbox' = inbox
                      \o (IF GapBefore(c.slot) THEN <<[kind |-> "gap"]>> ELSE <<>>)
                      \o Updates(q)
       /\ published' = published \cup {c.slot : c \in ToPublish(window)}
       /\ delayed' = IF lastM5 = 0 THEN delayed ELSE Scheduled(Newest(window, 1))
       /\ UNCHANGED <<repair, reader, backfill, requests, answer, absent, store, keys>>
       /\ UNCHANGED worldVars

\* The delayed trigger asks the venue again, falls back to the candle it was scheduled
\* with, and sends it to the container before it triggers the agents.
Trigger(fetches) ==
    LET latest == IF fetches /\ Fetched # {} THEN Newest(Fetched, 1) ELSE delayed
    IN /\ delayed # {}
       /\ delayed' = {}
       /\ \E q \in OldestFirst(latest) : inbox' = inbox \o Updates(q)
       /\ published' = published \cup {c.slot : c \in {d \in latest : d.form = "final"}}
       /\ UNCHANGED <<lastM5, repair, reader, backfill, requests, answer, absent, store, keys>>
       /\ UNCHANGED worldVars

\* A fetch of the container.  Its answer goes to the call that waits for it, or, when that
\* was given up, into the queue of the container as bulk data.
Deliver(rows) ==
    LET r == Head(requests)
    IN /\ requests' = Tail(requests)
       /\ answer' = IF r.late THEN answer ELSE [answer EXCEPT ![r.by] = rows]
       /\ inbox' = IF r.late /\ rows # {}
                      THEN Append(inbox, [kind |-> "bulk", rows |-> rows]) ELSE inbox
       /\ repair' = IF ~r.late /\ r.by = "repair" THEN "answered" ELSE repair
       /\ reader' = IF ~r.late /\ r.by = "reader" THEN "answered" ELSE reader
       /\ backfill' = IF ~r.late /\ r.by = "backfill" THEN "answered" ELSE backfill
       /\ UNCHANGED <<absent, store, keys>>

\* What each of the three asks for.
Count(f) ==
    CASE f = "repair" -> GapCheck
      [] f = "reader" -> IF Depth + Spare > GapCheck THEN Depth + Spare ELSE GapCheck
      [] f = "backfill" -> History

AdapterAnswers ==
    LET f == Head(requests).by
        rows == Newest(Fetched, Count(f))
    IN /\ requests # <<>>
       /\ Deliver(rows)
       /\ beyond' = IF f = "repair" THEN beyond \cup {c.slot : c \in Fetched \ rows} ELSE beyond
       /\ UNCHANGED <<pollVars, now, traded, forming, overtaken, failed, raced, extras>>

AdapterFails ==
    /\ requests # <<>>
    /\ extras < MaxExtras /\ extras' = extras + 1
    /\ Deliver({})
    /\ failed' = TRUE
    /\ UNCHANGED <<pollVars, clockVars, raced>>

-----------------------------------------------------------------------------
(* The data container.                                                     *)

\* Mutant: the lock is not looked at.
UnlockedAlways == TRUE

Unlocked == reader = "no"

\* Writing replaces the rows of the same slots.
Written(rows) ==
    [s \in Slots |-> IF \E c \in rows : c.slot = s
                        THEN (CHOOSE c \in rows : c.slot = s).form
                        ELSE store[s]]

Stored == {s \in Slots : store[s] # "none"}

\* The message loop handles one message after the other.
Handles(kind) == repair = "no" /\ inbox # <<>> /\ Head(inbox).kind = kind

\* _maintain_market_keys: a key for every stored candle whose time is over and that has
\* none yet, computed from the row as it is.
Keyless(st) == {s \in Slots : s < now /\ st[s] \in {"forming", "final"} /\ keys[s] = "none"}

\* _on_m5_candle writes under the lock of the pair and then maintains the keys ...
SaveUpdate ==
    /\ Handles("update") /\ Unlocked
    /\ store' = Written(Head(inbox).rows)
    /\ keys' = [s \in Slots |-> IF s \in Keyless(store') THEN store'[s] ELSE keys[s]]
    /\ inbox' = Tail(inbox)
    /\ UNCHANGED <<repair, reader, backfill, requests, answer, absent>>
    /\ UNCHANGED <<pollVars, worldVars>>

\* ... _on_candle_data_bulk writes only.
SaveBulk ==
    /\ Handles("bulk") /\ Unlocked
    /\ store' = Written(Head(inbox).rows)
    /\ inbox' = Tail(inbox)
    /\ UNCHANGED <<repair, reader, backfill, requests, answer, absent, keys>>
    /\ UNCHANGED <<pollVars, worldVars>>

\* _on_gap_detected asks the adapter for the latest candles and waits.
BeginRepair ==
    /\ Handles("gap")
    /\ inbox' = Tail(inbox)
    /\ repair' = "waiting"
    /\ requests' = Append(requests, [by |-> "repair", late |-> FALSE])
    /\ UNCHANGED <<reader, backfill, answer, absent, store, keys>>
    /\ UNCHANGED <<pollVars, worldVars>>

\* It writes what the latest rows of the store have no candle for; an older row is written
\* again.
LatestRows == {s \in Stored : Cardinality({t \in Stored : t > s}) < GapCheck}
ToRepair(rows) == {c \in rows : c.slot \notin LatestRows}
EndRepair ==
    /\ repair = "answered" /\ Unlocked
    /\ store' = Written(ToRepair(answer["repair"]))
    /\ repair' = "no"
    /\ answer' = [answer EXCEPT !["repair"] = {}]
    /\ UNCHANGED <<inbox, reader, backfill, requests, absent, keys>>
    /\ UNCHANGED <<pollVars, worldVars>>

\* An agent asks for candles; it counts on those that were sent before.
Ask ==
    /\ extras < MaxExtras /\ published # {}
    /\ extras' = extras + 1
    /\ inbox' = Append(inbox, [kind |-> "question", needs |-> published])
    /\ UNCHANGED <<repair, reader, backfill, requests, answer, absent, store, keys>>
    /\ UNCHANGED <<pollVars, clockVars, failed, raced>>

\* The container answers from the store.
Serve ==
    /\ Handles("question")
    /\ inbox' = Tail(inbox)
    /\ UNCHANGED <<repair, reader, backfill, requests, answer, absent, store, keys>>
    /\ UNCHANGED <<pollVars, worldVars>>

-----------------------------------------------------------------------------
(* A reader and the backfill.                                              *)

SlotMax(S) == CHOOSE s \in S : \A t \in S : t <= s

\* The slots up to the latest that is stored or over, as deep as the reader needs.
MissingSlots(st) ==
    LET rows == {s \in Slots : st[s] # "none"}
        end == SlotMax(rows \cup {IF now = 0 THEN 0 ELSE now - 1})
    IN {s \in Slots : s <= end /\ s + Depth > end /\ st[s] = "none"}

\* get_candles: _ensure_m5_complete_for_read, under the lock, fetches if a slot is missing.
BeginRead ==
    /\ extras < MaxExtras /\ reader = "no"
    /\ MissingSlots(store) # {}
    /\ extras' = extras + 1
    /\ reader' = "waiting"
    /\ requests' = Append(requests, [by |-> "reader", late |-> FALSE])
    /\ UNCHANGED <<inbox, repair, backfill, answer, absent, store, keys>>
    /\ UNCHANGED <<pollVars, clockVars, failed, raced>>

\* It writes what it got, and looks again which slots are missing ...
SaveRead ==
    /\ reader = "answered"
    /\ store' = Written(answer["reader"])
    /\ absent' = IF \A s \in Slots : store'[s] = "none" THEN {} ELSE MissingSlots(store')
    /\ reader' = "saved"
    /\ answer' = [answer EXCEPT !["reader"] = {}]
    /\ UNCHANGED <<inbox, repair, backfill, requests, keys>>
    /\ UNCHANGED <<pollVars, worldVars>>

\* Mutant: the store is not looked at again.
ToNullWithoutLook == {s \in Slots : s < now}

\* ... which it fills with null candles.
ToNull == absent
EndRead ==
    /\ reader = "saved"
    /\ store' = [s \in Slots |-> IF s \in ToNull THEN "null" ELSE store[s]]
    /\ absent' = {}
    /\ reader' = "no"
    /\ UNCHANGED <<inbox, repair, backfill, requests, answer, keys>>
    /\ UNCHANGED <<pollVars, worldVars>>

\* After 60 s without an answer a fetch returns nothing.
GiveUpRequest(f) ==
    requests' = [k \in DOMAIN requests |->
                    IF requests[k].by = f THEN [by |-> f, late |-> TRUE] ELSE requests[k]]

GivesUp(f) ==
    /\ extras < MaxExtras /\ extras' = extras + 1
    /\ \E k \in DOMAIN requests : requests[k].by = f /\ ~requests[k].late
    /\ GiveUpRequest(f)
    /\ repair' = IF f = "repair" THEN "no" ELSE repair
    /\ reader' = IF f = "reader" THEN "answered" ELSE reader
    /\ backfill' = IF f = "backfill" THEN "done" ELSE backfill
    /\ failed' = TRUE
    /\ UNCHANGED <<inbox, answer, absent, store, keys>>
    /\ UNCHANGED <<pollVars, clockVars, raced>>

\* The backfill looks whether the store is empty, and asks for history if so.
BeginBackfill ==
    /\ backfill = "due"
    /\ \/ /\ Stored # {}
          /\ backfill' = "done" /\ requests' = requests
       \/ /\ Stored = {}
          /\ backfill' = "waiting"
          /\ requests' = Append(requests, [by |-> "backfill", late |-> FALSE])
    /\ UNCHANGED <<inbox, repair, reader, answer, absent, store, keys>>
    /\ UNCHANGED <<pollVars, worldVars>>

\* It writes what it got, without the lock.
EndBackfill ==
    /\ backfill = "answered"
    /\ store' = Written(answer["backfill"])
    /\ backfill' = "done"
    /\ answer' = [answer EXCEPT !["backfill"] = {}]
    /\ raced' = (raced \/ reader # "no" \/ \E c \in answer["backfill"] : store[c.slot] # "none")
    /\ UNCHANGED <<inbox, repair, reader, requests, absent, keys>>
    /\ UNCHANGED <<pollVars, clockVars, failed, extras>>

\* The program ends and starts again: the store is all that stays.
Restart ==
    /\ extras < MaxExtras
    /\ extras' = extras + 1
    /\ lastM5' = 0 /\ delayed' = {} /\ published' = {}
    /\ inbox' = <<>> /\ repair' = "no" /\ reader' = "no" /\ backfill' = "due"
    /\ requests' = <<>> /\ answer' = [f \in Fetchers |-> {}] /\ absent' = {}
    /\ UNCHANGED <<clockVars, store, keys, failed, raced>>

-----------------------------------------------------------------------------
ContainerStep ==
    SaveUpdate \/ SaveBulk \/ BeginRepair \/ EndRepair \/ Serve \/ SaveRead \/ EndRead
    \/ BeginBackfill \/ EndBackfill

CandleNext ==
    \/ \E hasPrice \in BOOLEAN : SlotBegins(hasPrice)
    \/ Poll
    \/ \E fetches \in BOOLEAN : Trigger(fetches)
    \/ AdapterAnswers \/ AdapterFails
    \/ \E f \in Fetchers : GivesUp(f)
    \/ Ask \/ BeginRead \/ Restart
    \/ ContainerStep

CandleSpec == CandleInit /\ [][CandleNext]_candleVars

\* The behaviours among them in which the container never has to ask the venue, as one whose
\* store held older candles, and has handled all messages, the one of the delayed trigger
\* too, before the next slot begins.
Undisturbed == requests' = <<>> /\ (now' # now => inbox = <<>> /\ delayed = {})
UndisturbedSpec == CandleInit /\ [][CandleNext /\ Undisturbed]_candleVars

-----------------------------------------------------------------------------
(* Properties.                                                             *)

\* Once a finished candle is stored, no unfinished one, null candle or older version takes
\* its place, whatever order updates, repairs, late answers and readers come in.  Two
\* writers are outside the protection of the lock: the backfill of an empty store, and a
\* message with the candle in progress that waited in the queue while a reader fetched.
FinishedStays ==
    [][\A s \in Slots :
          store[s] = "final" /\ store'[s] # "final" =>
              \/ raced'
              \/ Handles("update") /\ [slot |-> s, form |-> "forming"] \in Head(inbox).rows
              \/ Handles("bulk") /\ [slot |-> s, form |-> "forming"] \in Head(inbox).rows]_candleVars

\* An agent that asks for candles is served from a store that has every finished candle
\* that was sent before it asked: it never decides on older data than what triggered it.
ServesFresh ==
    [][Handles("question") /\ inbox' = Tail(inbox) =>
          raced \/ \A s \in Head(inbox).needs : store[s] = "final"]_candleVars

\* A candle that the polls have passed since the first one after the start.
Passed(s) == s \in traded /\ (\E t \in published : t <= s) /\ s <= lastM5

\* When the message loop has nothing left to do, no candle since the first poll after the
\* start is missing up to the latest one that was sent, unless a fetch has failed: what a
\* poll jumps over is announced as a gap, and the repair brings it.  Two kinds of candles
\* escape it: one that was older than the latest GapCheck candles when the venue answered a
\* repair, however long the announced gap is, and one whose slot ended between the fetch of
\* a reader and its look for holes, for it gets a null candle, which the repair takes for
\* the candle.
NoGapLeft ==
    inbox = <<>> /\ repair = "no" /\ ~failed =>
        \A s \in Slots : Passed(s) =>
                \/ store[s] \in {"forming", "final"}
                \/ store[s] = "null" /\ s \in overtaken
                \/ s \in beyond

\* A market key is a statement about a finished candle: a key is never computed from a
\* candle that was still being built when the venue gave it.
KeysAreOfFinishedCandles == \A s \in Slots : keys[s] # "forming"
=============================================================================
