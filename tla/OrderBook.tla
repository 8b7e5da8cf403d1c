----------------------------- MODULE OrderBook -----------------------------
(***************************************************************************)
(* The order book of one broker adapter and one pair, and everything that  *)
(* writes to it: the place_order and close_position tools, the adapter's   *)
(* inbox task, and the reconciliation passes of BrokerBase._sync_pair that *)
(* the periodic _sync_loop ("loop") and the trigger_sync tool ("tool", run *)
(* inside the inbox task) start.  Every `await` of the code at which       *)
(* another task may run is a boundary between two actions.                 *)
(*                                                                         *)
(* A position is named by the order that opens it (its sync_key travels in *)
(* the broker's comment field) or, when it was opened by hand at the       *)
(* broker, by a member of Manual, which carries no sync_key.               *)
(***************************************************************************)
EXTENDS Naturals, FiniteSets

CONSTANTS
    Orders,     \* orders agents place; also the ids of their rows
    Resting,    \* the LIMIT / STOP orders among them: they may rest at the broker
    Manual,     \* positions opened outside the program
    Imports,    \* ids of the rows a pass creates for a position it does not know
    Passes,     \* which of the two reconciliation passes exist: "loop", "tool"
    None,       \* no row, no position
    MaxFaults,  \* bound on failed reads, aborted passes, lost writes, restarts
    MaxEvents   \* POSITION_CLOSED broadcasts are counted up to this

ASSUME OrderBookAssumption ==
    /\ Resting \subseteq Orders
    /\ Orders \cap Manual = {}
    /\ Orders \cap Imports = {}
    /\ None \notin Orders \cup Manual \cup Imports
    /\ Passes \subseteq {"loop", "tool"}
    /\ MaxFaults \in Nat
    /\ MaxEvents \in Nat

Positions == Orders \cup Manual
RowIds == Orders \cup Imports

VARIABLES
    broker,     \* the broker's account: what has become of each position
    book,       \* order_book_entries
    fresh,      \* rows requested less than _SYNC_GRACE_SECONDS ago
    placing,    \* where each place_order call is
    closing,    \* where each close_position call is
    closeRow,   \* the row a close_position call is about to update
    inbox,      \* requests the adapter has not handled
    pass,       \* the locals of each reconciliation pass
    events,     \* POSITION_CLOSED broadcasts per row
    faults

vars == <<broker, book, fresh, placing, closing, closeRow, inbox, pass,
          events, faults>>

BrokerState == {"none", "inflight", "resting", "open", "closed"}
Status == {"ABSENT", "PENDING", "OPEN", "CLOSED", "REJECTED"}
Row == [of: Positions \cup {None}, status: Status, ticket: BOOLEAN]
Request == [kind: {"order", "close"}, of: Positions]
PlaceState == {"idle", "saved", "sent", "accepted", "refused", "error", "done"}
CloseState == {"idle", "sent", "closed", "found"}
PassPc == {"idle", "local", "match", "found", "sweep", "close", "reject"}
Pass == [pc: PassPc,
         snap: SUBSET Positions,     \* broker_positions
         aged: SUBSET RowIds,        \* past the grace period at the pass's `now`
         loc: SUBSET RowIds,         \* local_open
         ticketed: SUBSET RowIds,    \* the ones of local_open with a broker_order_id
         todo: SUBSET Positions,     \* broker positions still to be matched
         matched: SUBSET RowIds,     \* matched_entry_ids
         suspects: SUBSET RowIds,    \* rows of local_open still to be swept
         at: Positions \cup {None},  \* the broker position being looked up
         row: RowIds \cup {None},    \* what the look-up found; the row to end
         blind: BOOLEAN]             \* the latest broker read of the pass failed

IdlePass == [pc |-> "idle", snap |-> {}, aged |-> {}, loc |-> {},
             ticketed |-> {}, todo |-> {}, matched |-> {}, suspects |-> {},
             at |-> None, row |-> None, blind |-> FALSE]

TypeOK ==
    /\ broker \in [Positions -> BrokerState]
    /\ book \in [RowIds -> Row]
    /\ fresh \subseteq RowIds
    /\ placing \in [Orders -> PlaceState]
    /\ closing \in [Positions -> CloseState]
    /\ closeRow \in [Positions -> RowIds \cup {None}]
    /\ inbox \subseteq Request
    /\ pass \in [Passes -> Pass]
    /\ events \in [RowIds -> 0..MaxEvents]
    /\ faults \in 0..MaxFaults

Init ==
    /\ broker = [p \in Positions |-> "none"]
    /\ book = [r \in RowIds |->
                 [of |-> None, status |-> "ABSENT", ticket |-> FALSE]]
    /\ fresh = {}
    /\ placing = [o \in Orders |-> "idle"]
    /\ closing = [p \in Positions |-> "idle"]
    /\ closeRow = [p \in Positions |-> None]
    /\ inbox = {}
    /\ pass = [w \in Passes |-> IdlePass]
    /\ events = [r \in RowIds |-> 0]
    /\ faults = 0

-----------------------------------------------------------------------------
(* Helpers.                                                                *)

Exists(r) == book[r].status # "ABSENT"
Live(r) == book[r].status \in {"PENDING", "OPEN"}
LiveRows == {r \in RowIds : Live(r)}
OpenPositions == {p \in Positions : broker[p] = "open"}

Fault == faults < MaxFaults /\ faults' = faults + 1

\* get_open_positions: MT5 cannot tell a failed positions_get (None) from an
\* account without positions, and returns [] for both.
ReadPositions(seen) ==
    \/ seen = OpenPositions /\ UNCHANGED faults
    \/ seen = {} /\ seen # OpenPositions /\ Fault

\* Mutant: the sync_key is not compared.
RefersByTicket(r, p, hasTicket) == book[r].of = p /\ hasTicket

\* A broker position matches a row by broker_order_id, else by sync_key.
Refers(r, p, hasTicket) == book[r].of = p /\ (hasTicket \/ p \in Orders)

\* local_by_broker_order_id and local_by_sync_key, as the pass read them.
LocalMatches(w, p) ==
    {r \in pass[w].loc : Refers(r, p, r \in pass[w].ticketed)}

\* Mutant: only live rows are looked through.
FindAmongLive(p) ==
    {r \in RowIds : Live(r) /\ Refers(r, p, book[r].ticket)}

\* find_order_book_entry_by_broker_ref: any status.
FindByBrokerRef(p) ==
    {r \in RowIds : Exists(r) /\ Refers(r, p, book[r].ticket)}

\* update_order_book_entry.
WriteRow(r, s, hasTicket) ==
    book' = [book EXCEPT ![r] = [of |-> book[r].of, status |-> s,
                                 ticket |-> hasTicket]]
SetStatus(r, s) == WriteRow(r, s, book[r].ticket)
\* Mutant: a re-sync that leaves the status alone.
SetTicketOnly(r) == WriteRow(r, book[r].status, TRUE)
SetOpen(r) == WriteRow(r, "OPEN", TRUE)

\* RepositoryService: an update to CLOSED broadcasts POSITION_CLOSED.
PublishPositionClosed(r) ==
    events' = [events EXCEPT ![r] = IF @ < MaxEvents THEN @ + 1 ELSE @]

\* trigger_sync runs inside the inbox task, which handles nothing meanwhile.
AdapterFree == "tool" \in Passes => pass["tool"].pc = "idle"

toolVars == <<placing, closing, closeRow>>

-----------------------------------------------------------------------------
(* place_order.                                                            *)

\* The PENDING row is written before anything is sent.  The tool may lose the
\* answer (repo_request timed out) and stop there.
PlaceSave(o) ==
    /\ placing[o] = "idle"
    /\ book' = [book EXCEPT ![o] = [of |-> o, status |-> "PENDING",
                                    ticket |-> FALSE]]
    /\ fresh' = fresh \cup {o}
    /\ \E next \in {"saved", "done"} : placing' = [placing EXCEPT ![o] = next]
    /\ UNCHANGED <<broker, closing, closeRow, inbox, pass, events, faults>>

PlaceSend(o) ==
    /\ placing[o] = "saved"
    /\ placing' = [placing EXCEPT ![o] = "sent"]
    /\ inbox' = inbox \cup {[kind |-> "order", of |-> o]}
    /\ UNCHANGED <<broker, book, fresh, closing, closeRow, pass, events, faults>>

\* bus_request's 30 s are over: the tool raises, the row stays PENDING and the
\* request stays in the adapter's inbox.
PlaceTimeout(o) ==
    /\ placing[o] = "sent"
    /\ placing' = [placing EXCEPT ![o] = "done"]
    /\ UNCHANGED <<broker, book, fresh, closing, closeRow, inbox, pass, events,
                   faults>>

\* Mutant: an errored request is recorded as if the order had been accepted.
PlaceRecordOptimistic(o) ==
    /\ placing[o] \in {"accepted", "refused", "error"}
    /\ IF placing[o] = "refused"
       THEN SetStatus(o, "REJECTED")
       ELSE SetOpen(o)
    /\ placing' = [placing EXCEPT ![o] = "done"]
    /\ UNCHANGED <<broker, fresh, closing, closeRow, inbox, pass, events, faults>>

\* The answer is written to the row; an unfilled order is recorded OPEN by the
\* MT5 adapter and PENDING by the OANDA one.
PlaceRecord(o) ==
    /\ placing[o] \in {"accepted", "refused", "error"}
    /\ IF placing[o] = "accepted"
       THEN \E s \in IF o \in Resting THEN {"OPEN", "PENDING"} ELSE {"OPEN"} :
              WriteRow(o, s, TRUE)
       ELSE SetStatus(o, "REJECTED")
    /\ placing' = [placing EXCEPT ![o] = "done"]
    /\ UNCHANGED <<broker, fresh, closing, closeRow, inbox, pass, events, faults>>

\* The final update never reaches the repository.
PlaceRecordLost(o) ==
    /\ placing[o] \in {"accepted", "refused", "error"}
    /\ Fault
    /\ placing' = [placing EXCEPT ![o] = "done"]
    /\ UNCHANGED <<broker, book, fresh, closing, closeRow, inbox, pass, events>>

\* Adapter: _handle_order_request.  A call that outlives the API timeout is
\* answered with an error while the terminal thread goes on ("inflight").
HandleOrder(o) ==
    LET reply(s) == placing' = IF placing[o] = "sent"
                               THEN [placing EXCEPT ![o] = s] ELSE placing
        landsAs == IF o \in Resting THEN {"open", "resting"} ELSE {"open"}
    IN
    /\ AdapterFree
    /\ [kind |-> "order", of |-> o] \in inbox
    /\ inbox' = inbox \ {[kind |-> "order", of |-> o]}
    /\ \/ \E s \in landsAs : broker' = [broker EXCEPT ![o] = s]
          /\ reply("accepted")
       \/ UNCHANGED broker /\ reply("refused")
       \/ UNCHANGED broker /\ reply("error")
       \/ broker' = [broker EXCEPT ![o] = "inflight"] /\ reply("error")
    /\ UNCHANGED <<book, fresh, closing, closeRow, pass, events, faults>>

-----------------------------------------------------------------------------
(* close_position.                                                         *)

CloseSend(p) ==
    /\ closing[p] = "idle"
    /\ broker[p] = "open"
    /\ closing' = [closing EXCEPT ![p] = "sent"]
    /\ inbox' = inbox \cup {[kind |-> "close", of |-> p]}
    /\ UNCHANGED <<broker, book, fresh, placing, closeRow, pass, events, faults>>

CloseTimeout(p) ==
    /\ closing[p] = "sent"
    /\ closing' = [closing EXCEPT ![p] = "idle"]
    /\ UNCHANGED <<broker, book, fresh, placing, closeRow, inbox, pass, events,
                   faults>>

\* Adapter: _handle_close_request.  The broker closes the position, refuses, or
\* closes it without the adapter learning of it in time.
HandleClose(p) ==
    LET reply(s) == closing' = IF closing[p] = "sent"
                               THEN [closing EXCEPT ![p] = s] ELSE closing
    IN
    /\ AdapterFree
    /\ [kind |-> "close", of |-> p] \in inbox
    /\ inbox' = inbox \ {[kind |-> "close", of |-> p]}
    /\ \/ /\ broker[p] = "open"
          /\ broker' = [broker EXCEPT ![p] = "closed"]
          /\ \E s \in {"closed", "idle"} : reply(s)
       \/ UNCHANGED broker /\ reply("idle")
    /\ UNCHANGED <<book, fresh, placing, closeRow, pass, events, faults>>

\* The tool looks its row up among the live ones, by broker_order_id only.
CloseLookup(p) ==
    LET mine == {r \in LiveRows : book[r].of = p /\ book[r].ticket} IN
    /\ closing[p] = "closed"
    /\ \/ /\ mine = {}
          /\ closing' = [closing EXCEPT ![p] = "idle"]
          /\ UNCHANGED closeRow
       \/ \E r \in mine :
            /\ closing' = [closing EXCEPT ![p] = "found"]
            /\ closeRow' = [closeRow EXCEPT ![p] = r]
    /\ UNCHANGED <<broker, book, fresh, placing, inbox, pass, events, faults>>

CloseRecord(p) ==
    /\ closing[p] = "found"
    /\ SetStatus(closeRow[p], "CLOSED")
    /\ PublishPositionClosed(closeRow[p])
    /\ closing' = [closing EXCEPT ![p] = "idle"]
    /\ closeRow' = [closeRow EXCEPT ![p] = None]
    /\ UNCHANGED <<broker, fresh, placing, inbox, pass, faults>>

CloseRecordLost(p) ==
    /\ closing[p] = "found"
    /\ Fault
    /\ closing' = [closing EXCEPT ![p] = "idle"]
    /\ closeRow' = [closeRow EXCEPT ![p] = None]
    /\ UNCHANGED <<broker, book, fresh, placing, inbox, pass, events>>

-----------------------------------------------------------------------------
(* _sync_pair, one await at a time.                                        *)

PassGoes(w, locals) ==
    /\ pass' = [pass EXCEPT ![w] = locals]
    /\ UNCHANGED <<broker, fresh, toolVars, inbox>>

\* Mutant: no grace period.
PassSnapshotNoGrace(w) ==
    /\ pass[w].pc = "idle"
    /\ \E seen \in {OpenPositions, {}} :
         /\ ReadPositions(seen)
         /\ PassGoes(w, [IdlePass EXCEPT !.pc = "local", !.snap = seen,
                                        !.aged = RowIds,
                                        !.blind = seen # OpenPositions])
    /\ UNCHANGED <<book, events>>

\* broker_positions = await get_open_positions(); now = utcnow()
PassSnapshot(w) ==
    /\ pass[w].pc = "idle"
    /\ \E seen \in {OpenPositions, {}} :
         /\ ReadPositions(seen)
         /\ PassGoes(w, [IdlePass EXCEPT
                           !.pc = "local",
                           !.snap = seen,
                           !.aged = {r \in RowIds : Exists(r)} \ fresh,
                           !.blind = seen # OpenPositions])
    /\ UNCHANGED <<book, events>>

\* local_open = await get_open_order_book_entries
PassLocal(w) ==
    /\ pass[w].pc = "local"
    /\ PassGoes(w, [pass[w] EXCEPT
                      !.pc = "match",
                      !.loc = LiveRows,
                      !.ticketed = {r \in LiveRows : book[r].ticket},
                      !.todo = pass[w].snap])
    /\ UNCHANGED <<book, events, faults>>

\* A broker position that matches a row of local_open refreshes it.
PassRefresh(w, p) ==
    /\ pass[w].pc = "match"
    /\ p \in pass[w].todo
    /\ \E r \in LocalMatches(w, p) :
         /\ SetOpen(r)
         /\ PassGoes(w, [pass[w] EXCEPT !.todo = @ \ {p},
                                        !.matched = @ \cup {r}])
    /\ UNCHANGED <<events, faults>>

\* One that matches none is looked up among the rows of every status...
PassFind(w, p) ==
    LET found == FindByBrokerRef(p) IN
    /\ pass[w].pc = "match"
    /\ p \in pass[w].todo
    /\ LocalMatches(w, p) = {}
    /\ \E r \in IF found = {} THEN {None} ELSE found :
         PassGoes(w, [pass[w] EXCEPT !.pc = "found", !.at = p, !.row = r,
                                     !.todo = @ \ {p}])
    /\ UNCHANGED <<book, events, faults>>

\* ... and that row re-synced (re-opened when it had been ended) ...
PassResync(w) ==
    /\ pass[w].pc = "found"
    /\ pass[w].row # None
    /\ SetOpen(pass[w].row)
    /\ PassGoes(w, [pass[w] EXCEPT !.pc = "match", !.at = None, !.row = None,
                                   !.matched = @ \cup {pass[w].row}])
    /\ UNCHANGED <<events, faults>>

\* ... or a new row imported; its requested_at is the position's opened_at.
PassImport(w) ==
    /\ pass[w].pc = "found"
    /\ pass[w].row = None
    /\ \E i \in Imports :
         /\ ~Exists(i)
         /\ book' = [book EXCEPT ![i] = [of |-> pass[w].at, status |-> "OPEN",
                                         ticket |-> TRUE]]
         /\ fresh' \in {fresh, fresh \cup {i}}
         /\ pass' = [pass EXCEPT ![w] =
                       [pass[w] EXCEPT !.pc = "match", !.at = None,
                                       !.matched = @ \cup {i}]]
    /\ UNCHANGED <<broker, toolVars, inbox, events, faults>>

\* What is left of local_open: rows past the grace period that the snapshot
\* does not know.  The other locals are not read again.
PassMatched(w) ==
    LET left == (pass[w].loc \ pass[w].matched) \cap pass[w].aged
        gone == {r \in left : r \in pass[w].ticketed =>
                                book[r].of \notin pass[w].snap}
    IN
    /\ pass[w].pc = "match"
    /\ pass[w].todo = {}
    /\ PassGoes(w, [IdlePass EXCEPT !.pc = "sweep",
                                    !.suspects = gone,
                                    !.ticketed = gone \cap pass[w].ticketed])
    /\ UNCHANGED <<book, events, faults>>

\* Mutant: the snapshot is believed, no second read.
PassBelieveSnapshot(w, r) ==
    /\ pass[w].pc = "sweep"
    /\ r \in pass[w].suspects \cap pass[w].ticketed
    /\ PassGoes(w, [pass[w] EXCEPT !.pc = "close", !.row = r,
                                   !.suspects = @ \ {r}])
    /\ UNCHANGED <<book, events, faults>>

\* A row with a broker id is re-verified against a fresh broker read.
PassReverify(w, r) ==
    /\ pass[w].pc = "sweep"
    /\ r \in pass[w].suspects \cap pass[w].ticketed
    /\ \E seen \in {OpenPositions, {}} :
         /\ ReadPositions(seen)
         /\ PassGoes(w, IF book[r].of \in seen
                        THEN [pass[w] EXCEPT !.suspects = @ \ {r}]
                        ELSE [pass[w] EXCEPT !.pc = "close", !.row = r,
                                             !.suspects = @ \ {r},
                                             !.blind = seen # OpenPositions])
    /\ UNCHANGED <<book, events>>

\* An orphan (no broker id) is looked for in the broker's deal history, where
\* the opening deal of a live position carries the sync_key as well.
PassHistory(w, r) ==
    /\ pass[w].pc = "sweep"
    /\ r \in pass[w].suspects \ pass[w].ticketed
    /\ \/ /\ broker[book[r].of] \in {"open", "closed"}
          /\ PassGoes(w, [pass[w] EXCEPT !.pc = "close", !.row = r,
                                         !.suspects = @ \ {r}])
          /\ UNCHANGED faults
       \/ /\ PassGoes(w, [pass[w] EXCEPT !.pc = "reject", !.row = r,
                                         !.suspects = @ \ {r}])
          /\ IF broker[book[r].of] \in {"open", "closed"}
             THEN Fault
             ELSE UNCHANGED faults
    /\ UNCHANGED <<book, events>>

PassClose(w) ==
    /\ pass[w].pc = "close"
    /\ WriteRow(pass[w].row, "CLOSED", TRUE)
    /\ PublishPositionClosed(pass[w].row)
    /\ PassGoes(w, [pass[w] EXCEPT !.pc = "sweep", !.row = None])
    /\ UNCHANGED faults

PassReject(w) ==
    /\ pass[w].pc = "reject"
    /\ SetStatus(pass[w].row, "REJECTED")
    /\ PassGoes(w, [pass[w] EXCEPT !.pc = "sweep", !.row = None])
    /\ UNCHANGED <<events, faults>>

PassFinish(w) ==
    /\ pass[w].pc = "sweep"
    /\ pass[w].suspects = {}
    /\ PassGoes(w, IdlePass)
    /\ UNCHANGED <<book, events, faults>>

\* A broker call raised or a repository request timed out: the pass ends.
PassAbort(w) ==
    /\ pass[w].pc # "idle"
    /\ Fault
    /\ PassGoes(w, IdlePass)
    /\ UNCHANGED <<book, events>>

-----------------------------------------------------------------------------
(* The broker, the clock and the process.                                  *)

BrokerOpens(p) ==
    /\ \/ p \in Manual /\ broker[p] = "none"
       \/ broker[p] \in {"inflight", "resting"}
    /\ broker' = [broker EXCEPT ![p] = "open"]
    /\ UNCHANGED <<book, fresh, toolVars, inbox, pass, events, faults>>

\* Stop loss, take profit, margin call, or closed by hand.
BrokerCloses(p) ==
    /\ broker[p] = "open"
    /\ broker' = [broker EXCEPT ![p] = "closed"]
    /\ UNCHANGED <<book, fresh, toolVars, inbox, pass, events, faults>>

\* The grace period (120 s) is longer than a place_order call may last: 15 s
\* to save the row, 30 s for the broker's answer, 15 s to record it.
GraceEnds(r) ==
    /\ r \in fresh
    /\ r \in Orders => placing[r] = "done"
    /\ fresh' = fresh \ {r}
    /\ UNCHANGED <<broker, book, toolVars, inbox, pass, events, faults>>

\* Tasks, queues and futures are gone; the database and the broker are not.
Restart ==
    /\ Fault
    /\ placing' = [o \in Orders |-> IF placing[o] = "idle" THEN "idle" ELSE "done"]
    /\ closing' = [p \in Positions |-> "idle"]
    /\ closeRow' = [p \in Positions |-> None]
    /\ inbox' = {}
    /\ pass' = [w \in Passes |-> IdlePass]
    /\ UNCHANGED <<broker, book, fresh, events>>

-----------------------------------------------------------------------------
PlaceTool(o) ==
    \/ PlaceSave(o)
    \/ PlaceSend(o)
    \/ PlaceTimeout(o)
    \/ PlaceRecord(o)
    \/ PlaceRecordLost(o)

CloseTool(p) ==
    \/ CloseSend(p)
    \/ CloseTimeout(p)
    \/ CloseLookup(p)
    \/ CloseRecord(p)
    \/ CloseRecordLost(p)

SyncPass(w) ==
    \/ PassSnapshot(w)
    \/ PassLocal(w)
    \/ \E p \in Positions : PassRefresh(w, p) \/ PassFind(w, p)
    \/ PassResync(w)
    \/ PassImport(w)
    \/ PassMatched(w)
    \/ \E r \in RowIds : PassReverify(w, r) \/ PassHistory(w, r)
    \/ PassClose(w)
    \/ PassReject(w)
    \/ PassFinish(w)

Next ==
    \/ \E o \in Orders : PlaceTool(o) \/ HandleOrder(o)
    \/ \E p \in Positions : CloseTool(p) \/ HandleClose(p)
    \/ \E w \in Passes : SyncPass(w) \/ PassAbort(w)
    \/ \E p \in Positions : BrokerOpens(p) \/ BrokerCloses(p)
    \/ \E r \in RowIds : GraceEnds(r)
    \/ Restart

Spec == Init /\ [][Next]_vars

\* The _sync_loop starts over after its sleep; a pass once started goes on.
Runs(w) == w = "loop" \/ pass[w].pc # "idle"

\* Tasks that can run do run (the event loop serves every ready task), and
\* time passes.  Nothing obliges an agent to act or the broker to open, fill or
\* close anything.
Fairness ==
    /\ \A o \in Orders : /\ WF_vars(PlaceSend(o))
                         /\ WF_vars(PlaceRecord(o))
                         /\ WF_vars(HandleOrder(o))
    /\ \A p \in Positions : /\ WF_vars(CloseLookup(p))
                            /\ WF_vars(CloseRecord(p))
    /\ \A w \in Passes : WF_vars(Runs(w) /\ SyncPass(w))
    /\ \A r \in RowIds : WF_vars(GraceEnds(r))

FairSpec == Spec /\ Fairness

-----------------------------------------------------------------------------
(* Properties.                                                             *)

\* The row of an order is written before the order is sent, so whatever the
\* passes, timeouts, failed reads and restarts do, a position the program
\* asked for is never imported as a stranger's (_sync_pair looks through rows
\* of every status, by broker id and by sync_key, before it imports).
OwnOrdersNeverImported ==
    \A i \in Imports : Exists(i) => book[i].of \in Manual

\* "The same broker position can never legitimately correspond to two
\* order_book_entries rows."  Holds of one pass at a time; the pass started by
\* trigger_sync breaks it when it overlaps with the periodic one.
OneRowPerPosition ==
    \A r, s \in RowIds :
        r # s /\ Exists(r) /\ Exists(s) => book[r].of # book[s].of

\* A pass never ends the row of an order whose place_order call still runs,
\* although pass and call know nothing of each other: a row that is requested
\* after the pass's `now`, or less than the grace period before it, is left alone.
GraceProtectsPlacing ==
    \A w \in Passes, o \in Orders :
        pass[w].pc \in {"close", "reject"} /\ pass[w].row = o
            => placing[o] = "done"

\* A pass about to close a market order's row that carries a broker id has seen
\* the position gone in a broker read that worked, or its re-verification read
\* failed: one failed read (the snapshot) never closes a live position's row.
ClosedOnlyAfterAGoodRead ==
    \A w \in Passes :
        LET r == pass[w].row IN
        pass[w].pc = "close" /\ r \in pass[w].ticketed /\ ~pass[w].blind
            => broker[book[r].of] = "closed" \/ book[r].of \in Resting

\* The record of each position, whatever rows it is made of.
RowsOf(p) == {r \in RowIds : Exists(r) /\ book[r].of = p}
RecordOf(p) ==
    LET has(s) == \E r \in RowsOf(p) : book[r].status = s IN
    CASE RowsOf(p) = {} -> "unknown"
      [] has("OPEN") -> "live"
      [] has("PENDING") /\ ~has("OPEN") -> "requested"
      [] OTHER -> "ended"
ActualOf(p) ==
    CASE broker[p] \in {"none", "inflight"} -> "none"
      [] broker[p] = "resting" -> "working"
      [] OTHER -> broker[p]

\* The order book keeps the promises of PositionLedger.
Ledger == INSTANCE PositionLedger
            WITH actual <- [p \in Positions |-> ActualOf(p)],
                 record <- [p \in Positions |-> RecordOf(p)]
KeepsLedger == Ledger!Spec

\* Once agents and broker stop acting and nothing fails any more, the book and
\* the broker agree for good: every open position has an OPEN row, and every
\* live row stands for an open position.  Wrong closes and rejections heal.
Agreement ==
    /\ \A p \in OpenPositions : \E r \in RowIds :
          book[r].of = p /\ book[r].status = "OPEN"
    /\ \A r \in LiveRows : broker[book[r].of] = "open"
BookConverges == <>[]Agreement

\* RepositoryService: POSITION_CLOSED "fires once" for a position.
PositionClosedFiresOnce == \A r \in RowIds : events[r] < 2

\* CLOSED means "position fully closed": not an order that waits to be filled.
RestingOrdersAreNotClosed ==
    \A o \in Resting : broker[o] = "resting" => book[o].status # "CLOSED"

=============================================================================
