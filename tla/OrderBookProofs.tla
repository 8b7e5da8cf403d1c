-------------------------- MODULE OrderBookProofs --------------------------
(***************************************************************************)
(* Proofs about OrderBook for every set of orders, positions and rows, any *)
(* number of faults and any overlap of the two passes.                     *)
(***************************************************************************)
EXTENDS OrderBook, TLAPS

-----------------------------------------------------------------------------
(* Type correctness.                                                       *)

\* Changing the locals of one pass keeps them typed.
LEMMA PassTyped ==
    ASSUME pass \in [Passes -> Pass], NEW w \in Passes, NEW l \in Pass,
           pass' = [pass EXCEPT ![w] = l]
    PROVE  pass' \in [Passes -> Pass]
OBVIOUS

LEMMA IdlePassTyped == IdlePass \in Pass
BY DEF IdlePass, Pass, PassPc

\* So does writing a status to a row (or to none).
LEMMA RowTyped ==
    ASSUME TypeOK, NEW r, NEW s \in Status, NEW t, r \in RowIds => t \in BOOLEAN,
           WriteRow(r, s, t)
    PROVE  book' \in [RowIds -> Row]
<1>1. CASE r \in RowIds
  <2>1. [of |-> book[r].of, status |-> s, ticket |-> t] \in Row
    BY <1>1 DEF TypeOK, Row
  <2>2. QED
    BY <2>1 DEF TypeOK, WriteRow
<1>2. CASE r \notin RowIds
  BY <1>2 DEF TypeOK, WriteRow
<1>3. QED
  BY <1>1, <1>2

\* The fault counter stays within its bound.
LEMMA FaultTyped == TypeOK /\ (Fault \/ UNCHANGED faults) => faults' \in 0..MaxFaults
BY OrderBookAssumption DEF TypeOK, Fault

LEMMA EventsTyped ==
    ASSUME TypeOK, NEW r, PublishPositionClosed(r)
    PROVE  events' \in [RowIds -> 0..MaxEvents]
<1> DEFINE n == IF events[r] < MaxEvents THEN events[r] + 1 ELSE events[r]
<1>1. r \in RowIds => n \in 0..MaxEvents
  BY OrderBookAssumption DEF TypeOK
<1>2. events' = [events EXCEPT ![r] = n]
  BY DEF PublishPositionClosed
<1> HIDE DEF n
<1>3. QED
  BY <1>1, <1>2 DEF TypeOK

LEMMA InitTyped == Init => TypeOK
BY OrderBookAssumption, IdlePassTyped
   DEF Init, TypeOK, BrokerState, Row, Status, PlaceState, CloseState, Positions,
       RowIds

LEMMA PlaceToolTyped ==
    ASSUME TypeOK, NEW o \in Orders, PlaceTool(o) \/ HandleOrder(o)
    PROVE  TypeOK'
<1>0. o \in Positions /\ o \in RowIds
  BY DEF Positions, RowIds
<1>1. CASE PlaceSave(o)
  BY <1>0, <1>1 DEF PlaceSave, TypeOK, Row, Status, PlaceState
<1>2. CASE PlaceSend(o)
  BY <1>0, <1>2 DEF PlaceSend, TypeOK, PlaceState, Request
<1>3. CASE PlaceTimeout(o)
  BY <1>0, <1>3 DEF PlaceTimeout, TypeOK, PlaceState
<1>4. CASE PlaceRecord(o)
  <2>1. book' \in [RowIds -> Row]
    <3>1. book[o].ticket \in BOOLEAN
      BY <1>0 DEF TypeOK, Row
    <3>2. PICK s \in Status, t \in BOOLEAN : WriteRow(o, s, t)
      BY <1>4, <3>1 DEF PlaceRecord, SetStatus, Status
    <3>3. QED
      BY <3>2, RowTyped
  <2>2. placing' \in [Orders -> PlaceState]
    BY <1>4 DEF PlaceRecord, TypeOK, PlaceState
  <2>3. QED
    BY <1>4, <2>1, <2>2 DEF PlaceRecord, TypeOK
<1>5. CASE PlaceRecordLost(o)
  BY <1>0, <1>5, FaultTyped DEF PlaceRecordLost, TypeOK, PlaceState
<1>6. CASE HandleOrder(o)
  <2>1. broker' \in [Positions -> BrokerState]
    BY <1>0, <1>6 DEF HandleOrder, TypeOK, BrokerState
  <2>2. placing' \in [Orders -> PlaceState]
    BY <1>6 DEF HandleOrder, TypeOK, PlaceState
  <2>3. QED
    BY <1>6, <2>1, <2>2 DEF HandleOrder, TypeOK
<1>7. QED
  BY <1>1, <1>2, <1>3, <1>4, <1>5, <1>6 DEF PlaceTool

LEMMA CloseToolTyped ==
    ASSUME TypeOK, NEW p \in Positions, CloseTool(p) \/ HandleClose(p)
    PROVE  TypeOK'
<1>1. CASE CloseSend(p)
  BY <1>1 DEF CloseSend, TypeOK, CloseState, Request
<1>2. CASE CloseTimeout(p)
  BY <1>2 DEF CloseTimeout, TypeOK, CloseState
<1>3. CASE CloseLookup(p)
  BY <1>3 DEF CloseLookup, TypeOK, CloseState, LiveRows
<1>4. CASE CloseRecord(p)
  <2>1. book' \in [RowIds -> Row]
    BY <1>4, RowTyped DEF CloseRecord, SetStatus, TypeOK, Row, Status
  <2>2. events' \in [RowIds -> 0..MaxEvents]
    BY <1>4, EventsTyped DEF CloseRecord
  <2>3. QED
    BY <1>4, <2>1, <2>2 DEF CloseRecord, TypeOK, CloseState
<1>5. CASE CloseRecordLost(p)
  BY <1>5, FaultTyped DEF CloseRecordLost, TypeOK, CloseState
<1>6. CASE HandleClose(p)
  BY <1>6 DEF HandleClose, TypeOK, CloseState, BrokerState
<1>7. QED
  BY <1>1, <1>2, <1>3, <1>4, <1>5, <1>6 DEF CloseTool

LEMMA SyncPassTyped ==
    ASSUME TypeOK, NEW w \in Passes, SyncPass(w) \/ PassAbort(w)
    PROVE  TypeOK'
<1>0. pass[w] \in Pass /\ OpenPositions \subseteq Positions /\ LiveRows \subseteq RowIds
  BY DEF TypeOK, OpenPositions, LiveRows
<1>1. CASE PassSnapshot(w)
  <2>1. PICK seen \in {OpenPositions, {}} :
          /\ ReadPositions(seen)
          /\ PassGoes(w, [IdlePass EXCEPT
                            !.pc = "local",
                            !.snap = seen,
                            !.aged = {r \in RowIds : Exists(r)} \ fresh,
                            !.blind = seen # OpenPositions])
    BY <1>1 DEF PassSnapshot
  <2>2. [IdlePass EXCEPT !.pc = "local", !.snap = seen,
                         !.aged = {r \in RowIds : Exists(r)} \ fresh,
                         !.blind = seen # OpenPositions] \in Pass
    <3> DEFINE b == seen # OpenPositions
               a == {r \in RowIds : Exists(r)} \ fresh
    <3>1. b \in BOOLEAN /\ a \in SUBSET RowIds /\ seen \in SUBSET Positions
      BY <1>0
    <3> HIDE DEF a, b
    <3>2. [IdlePass EXCEPT !.pc = "local", !.snap = seen, !.aged = a,
                           !.blind = b] \in Pass
      BY <3>1 DEF IdlePass, Pass, PassPc
    <3>3. QED
      BY <3>2 DEF a, b
  <2>3. pass' \in [Passes -> Pass]
    BY <2>1, <2>2, PassTyped DEF PassGoes, TypeOK
  <2>4. QED
    BY <1>1, <2>1, <2>3, FaultTyped
       DEF PassSnapshot, PassGoes, ReadPositions, toolVars, TypeOK
<1>2. CASE PassLocal(w)
  <2>1. pass' \in [Passes -> Pass]
    BY <1>0, <1>2 DEF PassLocal, PassGoes, Pass, PassPc, TypeOK
  <2>2. QED
    BY <1>2, <2>1 DEF PassLocal, PassGoes, toolVars, TypeOK
<1>3. ASSUME NEW p \in Positions, PassRefresh(w, p)
      PROVE  TypeOK'
  <2>1. PICK r \in LocalMatches(w, p) :
          /\ SetOpen(r)
          /\ PassGoes(w, [pass[w] EXCEPT !.todo = @ \ {p},
                                         !.matched = @ \cup {r}])
    BY <1>3 DEF PassRefresh
  <2>2. r \in RowIds
    BY <1>0, <2>1 DEF LocalMatches, Pass
  <2>3. pass' \in [Passes -> Pass]
    BY <1>0, <2>1, <2>2 DEF PassGoes, Pass, TypeOK
  <2>4. book' \in [RowIds -> Row]
    BY <2>1, <2>2, RowTyped DEF SetOpen, Status
  <2>5. QED
    BY <1>3, <2>1, <2>3, <2>4 DEF PassRefresh, PassGoes, toolVars, TypeOK
<1>4. ASSUME NEW p \in Positions, PassFind(w, p)
      PROVE  TypeOK'
  <2>1. PICK r \in RowIds \cup {None} :
          PassGoes(w, [pass[w] EXCEPT !.pc = "found", !.at = p, !.row = r,
                                      !.todo = @ \ {p}])
    BY <1>4 DEF PassFind, FindByBrokerRef
  <2>2. pass' \in [Passes -> Pass]
    BY <1>0, <2>1 DEF PassGoes, Pass, PassPc, TypeOK
  <2>3. QED
    BY <1>4, <2>1, <2>2 DEF PassFind, PassGoes, toolVars, TypeOK
<1>5. CASE PassResync(w)
  <2>1. pass[w].row \in RowIds
    BY <1>0, <1>5 DEF PassResync, Pass
  <2>2. pass' \in [Passes -> Pass]
    BY <1>0, <1>5, <2>1 DEF PassResync, PassGoes, Pass, PassPc, TypeOK
  <2>3. book' \in [RowIds -> Row]
    BY <1>5, <2>1, RowTyped DEF PassResync, SetOpen, Status
  <2>4. QED
    BY <1>5, <2>2, <2>3 DEF PassResync, PassGoes, toolVars, TypeOK
<1>6. CASE PassImport(w)
  <2>1. PICK i \in Imports :
          /\ book' = [book EXCEPT ![i] = [of |-> pass[w].at, status |-> "OPEN",
                                          ticket |-> TRUE]]
          /\ fresh' \in {fresh, fresh \cup {i}}
          /\ pass' = [pass EXCEPT ![w] =
                        [pass[w] EXCEPT !.pc = "match", !.at = None,
                                        !.matched = @ \cup {i}]]
    BY <1>6 DEF PassImport
  <2>2. i \in RowIds
    BY DEF RowIds
  <2>3. pass' \in [Passes -> Pass]
    BY <1>0, <2>1, <2>2 DEF Pass, PassPc, TypeOK
  <2>4. book' \in [RowIds -> Row]
    BY <1>0, <2>1, <2>2 DEF Pass, TypeOK, Row, Status
  <2>5. QED
    BY <1>6, <2>1, <2>2, <2>3, <2>4 DEF PassImport, toolVars, TypeOK
<1>7. CASE PassMatched(w)
  <2>1. pass' \in [Passes -> Pass]
    BY <1>0, <1>7 DEF PassMatched, PassGoes, IdlePass, Pass, PassPc, TypeOK
  <2>2. QED
    BY <1>7, <2>1 DEF PassMatched, PassGoes, toolVars, TypeOK
<1>8. ASSUME NEW r \in RowIds, PassReverify(w, r)
      PROVE  TypeOK'
  <2>1. pass' \in [Passes -> Pass]
    <3>1. PICK seen \in {OpenPositions, {}} :
            PassGoes(w, IF book[r].of \in seen
                        THEN [pass[w] EXCEPT !.suspects = @ \ {r}]
                        ELSE [pass[w] EXCEPT !.pc = "close", !.row = r,
                                             !.suspects = @ \ {r},
                                             !.blind = seen # OpenPositions])
      BY <1>8 DEF PassReverify
    <3> DEFINE b == seen # OpenPositions
    <3>2. b \in BOOLEAN
      OBVIOUS
    <3> HIDE DEF b
    <3>3. /\ [pass[w] EXCEPT !.suspects = @ \ {r}] \in Pass
          /\ [pass[w] EXCEPT !.pc = "close", !.row = r, !.suspects = @ \ {r},
                             !.blind = b] \in Pass
      BY <1>0, <3>2 DEF Pass, PassPc
    <3>4. QED
      BY <3>1, <3>3 DEF PassGoes, TypeOK, b
  <2>2. QED
    BY <1>8, <2>1, FaultTyped DEF PassReverify, ReadPositions, PassGoes, toolVars, TypeOK
<1>9. ASSUME NEW r \in RowIds, PassHistory(w, r)
      PROVE  TypeOK'
  <2>1. pass' \in [Passes -> Pass]
    <3>1. /\ [pass[w] EXCEPT !.pc = "close", !.row = r, !.suspects = @ \ {r}] \in Pass
          /\ [pass[w] EXCEPT !.pc = "reject", !.row = r, !.suspects = @ \ {r}] \in Pass
      BY <1>0 DEF Pass, PassPc
    <3>2. QED
      BY <1>9, <3>1 DEF PassHistory, PassGoes, TypeOK
  <2>2. QED
    BY <1>9, <2>1, FaultTyped DEF PassHistory, PassGoes, toolVars, TypeOK
<1>10. CASE PassClose(w)
  <2>1. pass' \in [Passes -> Pass]
    BY <1>0, <1>10 DEF PassClose, PassGoes, Pass, PassPc, TypeOK
  <2>2. book' \in [RowIds -> Row]
    BY <1>10, RowTyped DEF PassClose, Status
  <2>3. events' \in [RowIds -> 0..MaxEvents]
    BY <1>10, EventsTyped DEF PassClose
  <2>4. QED
    BY <1>10, <2>1, <2>2, <2>3 DEF PassClose, PassGoes, toolVars, TypeOK
<1>11. CASE PassReject(w)
  <2>1. pass' \in [Passes -> Pass]
    BY <1>0, <1>11 DEF PassReject, PassGoes, Pass, PassPc, TypeOK
  <2>2. book' \in [RowIds -> Row]
    BY <1>11, RowTyped DEF PassReject, SetStatus, TypeOK, Row, Status
  <2>3. QED
    BY <1>11, <2>1, <2>2 DEF PassReject, PassGoes, toolVars, TypeOK
<1>12. CASE PassFinish(w)
  BY <1>12, IdlePassTyped, PassTyped DEF PassFinish, PassGoes, toolVars, TypeOK
<1>13. CASE PassAbort(w)
  BY <1>13, IdlePassTyped, PassTyped, FaultTyped DEF PassAbort, PassGoes, toolVars, TypeOK
<1>14. QED
  BY <1>1, <1>2, <1>3, <1>4, <1>5, <1>6, <1>7, <1>8, <1>9, <1>10, <1>11, <1>12,
     <1>13 DEF SyncPass

LEMMA EnvironmentTyped ==
    ASSUME TypeOK,
           \/ \E p \in Positions : BrokerOpens(p) \/ BrokerCloses(p)
           \/ \E r \in RowIds : GraceEnds(r)
           \/ Restart
    PROVE  TypeOK'
<1>1. ASSUME NEW p \in Positions, BrokerOpens(p) \/ BrokerCloses(p)
      PROVE  TypeOK'
  BY <1>1 DEF BrokerOpens, BrokerCloses, toolVars, TypeOK, BrokerState
<1>2. ASSUME NEW r \in RowIds, GraceEnds(r)
      PROVE  TypeOK'
  BY <1>2 DEF GraceEnds, toolVars, TypeOK
<1>3. CASE Restart
  <2>1. pass' \in [Passes -> Pass]
    BY <1>3, IdlePassTyped DEF Restart
  <2>2. QED
    BY <1>3, <2>1, FaultTyped DEF Restart, TypeOK, PlaceState, CloseState
<1>4. QED
  BY <1>1, <1>2, <1>3

LEMMA NextTyped == TypeOK /\ [Next]_vars => TypeOK'
<1> SUFFICES ASSUME TypeOK, [Next]_vars PROVE TypeOK'
  OBVIOUS
<1>1. CASE UNCHANGED vars
  BY <1>1 DEF vars, TypeOK
<1>2. CASE Next
  BY <1>2, PlaceToolTyped, CloseToolTyped, SyncPassTyped, EnvironmentTyped DEF Next
<1>3. QED
  BY <1>1, <1>2

\* Every variable keeps its type, whatever the constants.
THEOREM TypeCorrect == Spec => []TypeOK
BY InitTyped, NextTyped, PTL DEF Spec

-----------------------------------------------------------------------------
(* Own orders are never imported, and the grace period protects the calls. *)
(*                                                                         *)
(* Neither is inductive.  What makes them so: the row of an order precedes *)
(* everything else about it (RowFirst), a running call has a young row     *)
(* (RunningIsFresh), nobody holds a row that does not exist, and what a    *)
(* pass remembers stays true while the others move (SafeLocals).           *)

RowFirst ==
    \A o \in Orders :
        IF placing[o] = "idle"
        THEN /\ ~Exists(o)
             /\ broker[o] = "none"
             /\ [kind |-> "order", of |-> o] \notin inbox
        ELSE Exists(o) /\ book[o].of = o

RunningIsFresh == \A o \in Orders : placing[o] \in {"idle", "done"} \/ o \in fresh

ClosersHoldRows == \A p \in Positions : closeRow[p] # None => Exists(closeRow[p])

\* What a pass may rely on, whatever happens between its awaits.
SafeLocals(l) ==
    /\ \A r \in l.loc \cup l.suspects : Exists(r)
    /\ l.row # None => Exists(l.row)
    /\ \A o \in Orders : o \in l.snap \cup l.todo => placing[o] # "idle"
    /\ \A o \in Orders : o \in l.aged \cup l.suspects => placing[o] = "done"
    /\ \A o \in Orders : l.pc \in {"close", "reject"} /\ l.row = o
                            => placing[o] = "done"
    /\ l.pc = "found" /\ l.row = None => l.at \in Manual

BookInv ==
    /\ TypeOK
    /\ RowFirst
    /\ RunningIsFresh
    /\ ClosersHoldRows
    /\ \A w \in Passes : SafeLocals(pass[w])
    /\ OwnOrdersNeverImported

\* What every step does to the rows and to the calls.
RowsPersist ==
    \A r \in RowIds : Exists(r) => Exists(r)' /\ book'[r].of = book[r].of
SameRows ==
    \A r \in RowIds : Exists(r)' = Exists(r) /\ book'[r].of = book[r].of
CallsAdvance ==
    \A o \in Orders : /\ placing[o] # "idle" => placing'[o] # "idle"
                      /\ placing[o] = "done" => placing'[o] = "done"

LEMMA SafeLocalsStable ==
    ASSUME NEW l \in Pass, SafeLocals(l), RowsPersist, CallsAdvance
    PROVE  SafeLocals(l)'
<1>1. /\ l.loc \subseteq RowIds /\ l.suspects \subseteq RowIds
      /\ l.row \in RowIds \cup {None}
  BY DEF Pass
<1>2. QED
  BY <1>1 DEF SafeLocals, RowsPersist, CallsAdvance

\* Writing a row that exists creates none and rebinds none.
LEMMA WriteKeepsRows ==
    ASSUME TypeOK, NEW r, r \in RowIds => Exists(r),
           NEW s \in Status \ {"ABSENT"}, NEW t, WriteRow(r, s, t)
    PROVE  SameRows
BY DEF TypeOK, WriteRow, SameRows, Exists

LEMMA SameRowsPersist == SameRows => RowsPersist
BY DEF SameRows, RowsPersist

LEMMA InitSafe == Init => BookInv
<1> SUFFICES ASSUME Init PROVE BookInv
  OBVIOUS
<1>1. TypeOK
  BY InitTyped
<1>2. \A r \in RowIds : ~Exists(r)
  BY DEF Init, Exists
<1>3. \A o \in Orders : o \in RowIds /\ o \in Positions
  BY DEF RowIds, Positions
<1>4. Imports \subseteq RowIds
  BY DEF RowIds
<1>5. SafeLocals(IdlePass)
  BY DEF SafeLocals, IdlePass
<1>6. \A w \in Passes : SafeLocals(pass[w])
  BY <1>5 DEF Init
<1>7. QED
  BY <1>1, <1>2, <1>3, <1>4, <1>6
     DEF Init, BookInv, RowFirst, RunningIsFresh, ClosersHoldRows,
         OwnOrdersNeverImported

\* What the passes remember survives any step that is not their own.
LEMMA OthersSafe ==
    ASSUME BookInv, RowsPersist, CallsAdvance, UNCHANGED pass
    PROVE  \A w \in Passes : SafeLocals(pass[w])'
<1> TAKE w \in Passes
<1>1. PICK l \in Pass : l = pass[w] /\ SafeLocals(l)
  BY DEF BookInv, TypeOK
<1>2. SafeLocals(l)'
  BY <1>1, SafeLocalsStable
<1>3. QED
  BY <1>1, <1>2 DEF SafeLocals

\* A step of a pass that creates no row keeps the invariant when what it
\* remembers afterwards is safe.
LEMMA PassStepSafe ==
    ASSUME BookInv, TypeOK', SameRows, NEW w \in Passes, NEW l, SafeLocals(l),
           PassGoes(w, l)
    PROVE  BookInv'
<1>1. /\ pass' = [pass EXCEPT ![w] = l]
      /\ UNCHANGED <<broker, fresh, placing, closing, closeRow, inbox>>
  BY DEF PassGoes, toolVars
<1>2. l \in Pass
  BY <1>1 DEF BookInv, TypeOK
<1>3. RowsPersist /\ CallsAdvance
  BY <1>1, SameRowsPersist DEF CallsAdvance
<1>4. \A v \in Passes : pass[v] \in Pass /\ SafeLocals(pass[v])
  BY DEF BookInv, TypeOK
<1>5. \A v \in Passes : pass'[v] = IF v = w THEN l ELSE pass[v]
  BY <1>1 DEF BookInv, TypeOK
<1>6. \A k \in Pass : SafeLocals(k) => SafeLocals(k)'
  BY <1>3, SafeLocalsStable
<1>7. \A v \in Passes : SafeLocals(pass[v])'
  <2> TAKE v \in Passes
  <2>1. PICK k \in Pass : k = pass'[v] /\ SafeLocals(k)
    BY <1>2, <1>4, <1>5
  <2>2. SafeLocals(k)'
    BY <1>6, <2>1
  <2>3. QED
    BY <2>1, <2>2 DEF SafeLocals
<1>8. (\A o \in Orders : o \in RowIds) /\ Imports \subseteq RowIds
  BY DEF RowIds
<1>9. RowFirst' /\ RunningIsFresh' /\ OwnOrdersNeverImported'
  BY <1>1, <1>8 DEF SameRows, BookInv, RowFirst, RunningIsFresh,
                     OwnOrdersNeverImported
<1>10. ClosersHoldRows'
  <2>1. \A p \in Positions : closeRow[p] \in RowIds \cup {None}
    BY DEF BookInv, TypeOK
  <2>2. QED
    BY <1>1, <2>1 DEF SameRows, BookInv, ClosersHoldRows
<1>11. QED
  BY <1>7, <1>9, <1>10 DEF BookInv

LEMMA PlaceToolSafe ==
    ASSUME BookInv, TypeOK', NEW o \in Orders, PlaceTool(o) \/ HandleOrder(o)
    PROVE  BookInv'
<1>0. /\ \A q \in Orders : q \in RowIds /\ q \in Positions
      /\ Imports \subseteq RowIds
      /\ Imports \cap Orders = {}
  BY OrderBookAssumption DEF RowIds, Positions
<1>1. ASSUME UNCHANGED pass, RowsPersist, CallsAdvance, RowFirst', RunningIsFresh',
             UNCHANGED closeRow, \A i \in Imports : book'[i] = book[i]
      PROVE  BookInv'
  <2>1. \A p \in Positions : closeRow[p] \in RowIds \cup {None}
    BY DEF BookInv, TypeOK
  <2>2. ClosersHoldRows'
    BY <1>1, <2>1 DEF BookInv, ClosersHoldRows, RowsPersist
  <2>3. OwnOrdersNeverImported'
    BY <1>1 DEF BookInv, OwnOrdersNeverImported, Exists
  <2>4. QED
    BY <1>1, <2>2, <2>3, OthersSafe DEF BookInv
<1>2. CASE PlaceSave(o)
  <2>1. /\ book' = [book EXCEPT ![o] = [of |-> o, status |-> "PENDING",
                                        ticket |-> FALSE]]
        /\ placing' \in {[placing EXCEPT ![o] = "saved"],
                         [placing EXCEPT ![o] = "done"]}
        /\ fresh' = fresh \cup {o}
        /\ UNCHANGED <<broker, closeRow, inbox, pass>>
        /\ placing[o] = "idle"
    BY <1>2 DEF PlaceSave
  <2>2. ~Exists(o)
    BY <2>1 DEF BookInv, RowFirst
  <2>3. RowsPersist /\ CallsAdvance
    BY <1>0, <2>1, <2>2 DEF BookInv, TypeOK, RowsPersist, CallsAdvance, Exists
  <2>4. RowFirst' /\ RunningIsFresh'
    BY <1>0, <2>1 DEF BookInv, TypeOK, RowFirst, RunningIsFresh, Exists
  <2>5. \A i \in Imports : book'[i] = book[i]
    BY <1>0, <2>1 DEF BookInv, TypeOK
  <2>6. QED
    BY <1>1, <2>1, <2>3, <2>4, <2>5
<1>3. CASE PlaceSend(o)
  <2>1. RowsPersist /\ CallsAdvance
    BY <1>0, <1>3 DEF PlaceSend, BookInv, TypeOK, RowsPersist, CallsAdvance, Exists
  <2>2. RowFirst' /\ RunningIsFresh'
    BY <1>0, <1>3
       DEF PlaceSend, BookInv, TypeOK, RowFirst, RunningIsFresh, Exists
  <2>3. QED
    BY <1>1, <1>3, <2>1, <2>2 DEF PlaceSend
<1>4. CASE PlaceTimeout(o) \/ PlaceRecordLost(o)
  <2>1. RowsPersist /\ CallsAdvance
    BY <1>0, <1>4 DEF PlaceTimeout, PlaceRecordLost, BookInv, TypeOK, RowsPersist,
                      CallsAdvance, Exists
  <2>2. RowFirst' /\ RunningIsFresh'
    BY <1>0, <1>4 DEF PlaceTimeout, PlaceRecordLost, BookInv, TypeOK, RowFirst,
                      RunningIsFresh, Exists
  <2>3. QED
    BY <1>1, <1>4, <2>1, <2>2 DEF PlaceTimeout, PlaceRecordLost
<1>5. CASE PlaceRecord(o)
  <2>1. PICK s \in Status \ {"ABSENT"}, t \in {TRUE, book[o].ticket} :
                WriteRow(o, s, t)
    BY <1>5 DEF PlaceRecord, SetStatus, Status
  <2>2. Exists(o)
    BY <1>5 DEF PlaceRecord, BookInv, RowFirst
  <2>3. SameRows
    BY <2>1, <2>2, WriteKeepsRows DEF BookInv
  <2>4. RowsPersist /\ CallsAdvance
    BY <1>5, <2>3, SameRowsPersist DEF PlaceRecord, BookInv, TypeOK, CallsAdvance
  <2>5. RowFirst' /\ RunningIsFresh'
    BY <1>0, <1>5, <2>3
       DEF PlaceRecord, BookInv, TypeOK, RowFirst, RunningIsFresh, SameRows
  <2>6. \A i \in Imports : book'[i] = book[i]
    BY <1>0, <2>1 DEF BookInv, TypeOK, WriteRow
  <2>7. QED
    BY <1>1, <1>5, <2>4, <2>5, <2>6 DEF PlaceRecord
<1>6. CASE HandleOrder(o)
  <2>1. placing[o] # "idle"
    BY <1>6 DEF HandleOrder, BookInv, RowFirst
  <2>2. \A q \in Orders :
            /\ q # o => placing'[q] = placing[q]
            /\ \/ placing'[q] = placing[q]
               \/ /\ placing[q] = "sent"
                  /\ placing'[q] \in {"accepted", "refused", "error"}
    <3>1. \/ placing' = placing
          \/ \E s \in {"accepted", "refused", "error"} :
               placing[o] = "sent" /\ placing' = [placing EXCEPT ![o] = s]
      BY <1>6 DEF HandleOrder
    <3>2. QED
      BY <3>1 DEF BookInv, TypeOK
  <2>3. /\ UNCHANGED <<book, fresh, closeRow, pass>>
        /\ \A q \in Orders \ {o} : broker'[q] = broker[q]
        /\ inbox' \subseteq inbox
    BY <1>0, <1>6 DEF HandleOrder, BookInv, TypeOK
  <2>4. RowsPersist /\ CallsAdvance
    BY <2>2, <2>3 DEF RowsPersist, CallsAdvance, Exists
  <2>5. RowFirst'
    <3>1. \A q \in Orders : placing'[q] = "idle" <=> placing[q] = "idle"
      BY <2>2
    <3>2. QED
      BY <1>0, <2>1, <2>3, <3>1 DEF BookInv, RowFirst, Exists
  <2>6. RunningIsFresh'
    BY <2>2, <2>3 DEF BookInv, RunningIsFresh
  <2>7. QED
    BY <1>1, <2>3, <2>4, <2>5, <2>6
<1>7. QED
  BY <1>2, <1>3, <1>4, <1>5, <1>6 DEF PlaceTool

LEMMA CloseToolSafe ==
    ASSUME BookInv, TypeOK', NEW p \in Positions, CloseTool(p) \/ HandleClose(p)
    PROVE  BookInv'
<1>0. /\ \A q \in Orders : q \in RowIds /\ q \in Positions
      /\ Imports \subseteq RowIds
  BY DEF RowIds, Positions
<1>1. ASSUME UNCHANGED <<pass, placing, fresh>>, SameRows, ClosersHoldRows',
             \A q \in Orders : /\ broker[q] = "none" => broker'[q] = "none"
                               /\ [kind |-> "order", of |-> q] \in inbox'
                                    => [kind |-> "order", of |-> q] \in inbox
      PROVE  BookInv'
  <2>1. RowsPersist /\ CallsAdvance
    BY <1>1, SameRowsPersist DEF CallsAdvance
  <2>2. RowFirst' /\ RunningIsFresh' /\ OwnOrdersNeverImported'
    BY <1>0, <1>1 DEF BookInv, RowFirst, RunningIsFresh, OwnOrdersNeverImported,
                       SameRows
  <2>3. QED
    BY <1>1, <2>1, <2>2, OthersSafe DEF BookInv
<1>2. CASE CloseSend(p) \/ CloseTimeout(p) \/ CloseRecordLost(p) \/ HandleClose(p)
  <2>1. SameRows
    BY <1>2 DEF CloseSend, CloseTimeout, CloseRecordLost, HandleClose, SameRows,
                Exists
  <2>2. ClosersHoldRows'
    BY <1>2 DEF CloseSend, CloseTimeout, CloseRecordLost, HandleClose, BookInv,
                TypeOK, ClosersHoldRows, Exists
  <2>3. \A q \in Orders : broker[q] = "none" => broker'[q] = "none"
    BY <1>0, <1>2
       DEF CloseSend, CloseTimeout, CloseRecordLost, HandleClose, BookInv, TypeOK
  <2>4. QED
    BY <1>1, <1>2, <2>1, <2>2, <2>3
       DEF CloseSend, CloseTimeout, CloseRecordLost, HandleClose
<1>3. CASE CloseLookup(p)
  <2>1. SameRows
    BY <1>3 DEF CloseLookup, SameRows, Exists
  <2>2. ClosersHoldRows'
    BY <1>3 DEF CloseLookup, LiveRows, Live, BookInv, TypeOK, ClosersHoldRows, Exists
  <2>3. QED
    BY <1>1, <1>3, <2>1, <2>2 DEF CloseLookup
<1>4. CASE CloseRecord(p)
  <2>1. closeRow[p] \in RowIds => Exists(closeRow[p])
    BY OrderBookAssumption DEF BookInv, ClosersHoldRows, RowIds
  <2>2. SameRows
    BY <1>4, <2>1, WriteKeepsRows DEF CloseRecord, SetStatus, BookInv, Status
  <2>3. ClosersHoldRows'
    <3>1. \A q \in Positions : closeRow'[q] \in {None, closeRow[q]}
                               /\ closeRow[q] \in RowIds \cup {None}
      BY <1>4 DEF CloseRecord, BookInv, TypeOK
    <3>2. QED
      BY <2>2, <3>1 DEF BookInv, ClosersHoldRows, SameRows
  <2>4. QED
    BY <1>1, <1>4, <2>2, <2>3 DEF CloseRecord
<1>5. QED
  BY <1>2, <1>3, <1>4 DEF CloseTool

LEMMA EnvironmentSafe ==
    ASSUME BookInv, TypeOK',
           \/ \E p \in Positions : BrokerOpens(p) \/ BrokerCloses(p)
           \/ \E r \in RowIds : GraceEnds(r)
           \/ Restart
    PROVE  BookInv'
<1>0. /\ \A q \in Orders : q \in RowIds /\ q \in Positions /\ q \notin Manual
      /\ Imports \subseteq RowIds
  BY OrderBookAssumption DEF RowIds, Positions
<1>1. ASSUME NEW p \in Positions, BrokerOpens(p) \/ BrokerCloses(p)
      PROVE  BookInv'
  <2>1. UNCHANGED <<book, fresh, placing, closing, closeRow, inbox, pass>>
    BY <1>1 DEF BrokerOpens, BrokerCloses, toolVars
  <2>2. \A q \in Orders : broker[q] = "none" => broker'[q] = "none"
    BY <1>0, <1>1 DEF BrokerOpens, BrokerCloses, BookInv, TypeOK
  <2>3. RowsPersist /\ CallsAdvance
    BY <2>1 DEF RowsPersist, CallsAdvance, Exists
  <2>4. RowFirst' /\ RunningIsFresh' /\ ClosersHoldRows' /\ OwnOrdersNeverImported'
    BY <2>1, <2>2 DEF BookInv, RowFirst, RunningIsFresh, ClosersHoldRows,
                       OwnOrdersNeverImported, Exists
  <2>5. QED
    BY <2>1, <2>3, <2>4, OthersSafe DEF BookInv
<1>2. ASSUME NEW r \in RowIds, GraceEnds(r)
      PROVE  BookInv'
  <2>1. UNCHANGED <<broker, book, placing, closing, closeRow, inbox, pass>>
    BY <1>2 DEF GraceEnds, toolVars
  <2>2. RowsPersist /\ CallsAdvance
    BY <2>1 DEF RowsPersist, CallsAdvance, Exists
  <2>3. RunningIsFresh'
    BY <1>2, <2>1 DEF GraceEnds, BookInv, RunningIsFresh
  <2>4. RowFirst' /\ ClosersHoldRows' /\ OwnOrdersNeverImported'
    BY <2>1 DEF BookInv, RowFirst, ClosersHoldRows, OwnOrdersNeverImported, Exists
  <2>5. QED
    BY <2>1, <2>2, <2>3, <2>4, OthersSafe DEF BookInv
<1>3. CASE Restart
  <2>1. \A q \in Orders :
           placing'[q] = IF placing[q] = "idle" THEN "idle" ELSE "done"
    BY <1>3 DEF Restart
  <2>2. /\ UNCHANGED <<broker, book, fresh>>
        /\ inbox' = {}
        /\ \A p \in Positions : closeRow'[p] = None
        /\ \A w \in Passes : pass'[w] = IdlePass
    BY <1>3 DEF Restart
  <2>3. RowFirst' /\ RunningIsFresh' /\ ClosersHoldRows' /\ OwnOrdersNeverImported'
    BY <2>1, <2>2 DEF BookInv, RowFirst, RunningIsFresh, ClosersHoldRows,
                       OwnOrdersNeverImported, Exists
  <2>4. \A w \in Passes : SafeLocals(pass[w])'
    BY <2>2 DEF SafeLocals, IdlePass
  <2>5. QED
    BY <2>3, <2>4 DEF BookInv
<1>4. QED
  BY <1>1, <1>2, <1>3

LEMMA SyncPassSafe ==
    ASSUME BookInv, TypeOK', NEW w \in Passes, SyncPass(w) \/ PassAbort(w)
    PROVE  BookInv'
<1> DEFINE l == pass[w]
<1>0. /\ \A q \in Orders : q \in RowIds /\ q \in Positions /\ q \notin Manual
      /\ Imports \subseteq RowIds /\ Imports \cap Orders = {}
      /\ None \notin RowIds /\ None \notin Positions
  BY OrderBookAssumption DEF RowIds, Positions
<1>1. l \in Pass /\ SafeLocals(l)
  BY DEF BookInv, TypeOK
<1>2. /\ l.loc \subseteq RowIds /\ l.suspects \subseteq RowIds
      /\ l.row \in RowIds \cup {None} /\ l.at \in Positions \cup {None}
      /\ l.snap \subseteq Positions /\ l.todo \subseteq Positions
  BY <1>1 DEF Pass
<1>3. UNCHANGED book => SameRows
  BY DEF SameRows, Exists
<1>4. SafeLocals(IdlePass)
  BY DEF SafeLocals, IdlePass
\* Everything the broker holds of ours was asked for.
<1>5. \A o \in Orders : o \in OpenPositions => placing[o] # "idle"
  BY DEF OpenPositions, BookInv, RowFirst
\* A row past the grace period belongs to no running call.
<1>6. \A o \in Orders : Exists(o) /\ o \notin fresh => placing[o] = "done"
  BY DEF BookInv, RowFirst, RunningIsFresh
<1>7. CASE PassSnapshot(w)
  <2>1. PICK seen \in {OpenPositions, {}} :
          PassGoes(w, [IdlePass EXCEPT
                         !.pc = "local", !.snap = seen,
                         !.aged = {r \in RowIds : Exists(r)} \ fresh,
                         !.blind = seen # OpenPositions])
    BY <1>7 DEF PassSnapshot
  <2> DEFINE b == seen # OpenPositions
             a == {r \in RowIds : Exists(r)} \ fresh
  <2>2. \A o \in Orders : /\ o \in seen => placing[o] # "idle"
                          /\ o \in a => placing[o] = "done"
    BY <1>5, <1>6
  <2> HIDE DEF a, b
  <2>3. SafeLocals([IdlePass EXCEPT !.pc = "local", !.snap = seen, !.aged = a,
                                   !.blind = b])
    BY <2>2 DEF SafeLocals, IdlePass
  <2>4. QED
    BY <1>3, <1>7, <2>1, <2>3, PassStepSafe DEF PassSnapshot, a, b
<1>8. CASE PassLocal(w)
  <2>1. SafeLocals([l EXCEPT !.pc = "match", !.loc = LiveRows,
                             !.ticketed = {r \in LiveRows : book[r].ticket},
                             !.todo = l.snap])
    <3>1. \A r \in LiveRows : Exists(r)
      BY DEF LiveRows, Live, Exists
    <3> DEFINE t == {r \in LiveRows : book[r].ticket}
    <3> HIDE DEF t
    <3>2. SafeLocals([l EXCEPT !.pc = "match", !.loc = LiveRows, !.ticketed = t,
                               !.todo = l.snap])
      BY <1>1, <3>1 DEF SafeLocals, Pass
    <3>3. QED
      BY <3>2 DEF t
  <2>2. QED
    BY <1>3, <1>8, <2>1, PassStepSafe DEF PassLocal
<1>9. ASSUME NEW p \in Positions, PassRefresh(w, p)
      PROVE  BookInv'
  <2>1. PICK r \in LocalMatches(w, p) :
          /\ SetOpen(r)
          /\ PassGoes(w, [l EXCEPT !.todo = @ \ {p}, !.matched = @ \cup {r}])
    BY <1>9 DEF PassRefresh
  <2>2. Exists(r)
    BY <1>1, <2>1 DEF LocalMatches, SafeLocals
  <2>3. SameRows
    BY <2>1, <2>2, WriteKeepsRows DEF SetOpen, BookInv, Status
  <2>4. SafeLocals([l EXCEPT !.todo = @ \ {p}, !.matched = @ \cup {r}])
    BY <1>1 DEF SafeLocals, Pass
  <2>5. QED
    BY <2>1, <2>3, <2>4, PassStepSafe
<1>10. ASSUME NEW p \in Positions, PassFind(w, p)
       PROVE  BookInv'
  <2>1. PICK r \in IF FindByBrokerRef(p) = {} THEN {None} ELSE FindByBrokerRef(p) :
          PassGoes(w, [l EXCEPT !.pc = "found", !.at = p, !.row = r,
                                !.todo = @ \ {p}])
    BY <1>10 DEF PassFind
  <2>2. r # None => Exists(r)
    BY <2>1 DEF FindByBrokerRef
  \* The row of an order of ours is found by the sync_key, whatever its status.
  <2>3. r = None => p \in Manual
    <3>1. p \in l.todo
      BY <1>10 DEF PassFind
    <3>2. p \in Orders => p \in FindByBrokerRef(p)
      BY <1>0, <1>1, <3>1 DEF SafeLocals, BookInv, RowFirst, FindByBrokerRef, Refers
    <3>3. r = None => FindByBrokerRef(p) = {}
      BY <1>0, <2>1 DEF FindByBrokerRef
    <3>4. QED
      BY <3>2, <3>3 DEF Positions
  <2>4. SafeLocals([l EXCEPT !.pc = "found", !.at = p, !.row = r, !.todo = @ \ {p}])
    BY <1>1, <2>2, <2>3 DEF SafeLocals, Pass
  <2>5. QED
    BY <1>3, <1>10, <2>1, <2>4, PassStepSafe DEF PassFind
<1>11. CASE PassResync(w)
  <2>1. Exists(l.row)
    BY <1>1, <1>11 DEF PassResync, SafeLocals
  <2>2. SameRows
    BY <1>11, <2>1, WriteKeepsRows DEF PassResync, SetOpen, BookInv, Status
  <2>3. SafeLocals([l EXCEPT !.pc = "match", !.at = None, !.row = None,
                             !.matched = @ \cup {pass[w].row}])
    BY <1>1 DEF SafeLocals, Pass
  <2>4. QED
    BY <1>11, <2>2, <2>3, PassStepSafe DEF PassResync
<1>12. CASE PassImport(w)
  <2>1. PICK i \in Imports :
          /\ ~Exists(i)
          /\ book' = [book EXCEPT ![i] = [of |-> l.at, status |-> "OPEN",
                                          ticket |-> TRUE]]
          /\ fresh' \in {fresh, fresh \cup {i}}
          /\ pass' = [pass EXCEPT ![w] =
                        [l EXCEPT !.pc = "match", !.at = None,
                                  !.matched = @ \cup {i}]]
    BY <1>12 DEF PassImport
  <2>2. /\ l.at \in Manual
        /\ l.row = None
        /\ UNCHANGED <<broker, placing, closing, closeRow, inbox>>
    BY <1>1, <1>12 DEF PassImport, SafeLocals, toolVars
  <2>3. RowsPersist /\ CallsAdvance
    BY <1>0, <2>1, <2>2 DEF BookInv, TypeOK, RowsPersist, CallsAdvance, Exists
  <2>4. RowFirst' /\ RunningIsFresh'
    BY <1>0, <2>1, <2>2 DEF BookInv, TypeOK, RowFirst, RunningIsFresh, Exists
  <2>5. OwnOrdersNeverImported'
    BY <1>0, <2>1, <2>2 DEF BookInv, TypeOK, OwnOrdersNeverImported, Exists
  <2>6. ClosersHoldRows'
    <3>1. \A p \in Positions : closeRow[p] \in RowIds \cup {None}
      BY DEF BookInv, TypeOK
    <3>2. QED
      BY <2>2, <2>3, <3>1 DEF BookInv, ClosersHoldRows, RowsPersist
  <2>7. \A v \in Passes : SafeLocals(pass[v])'
    <3>1. TAKE v \in Passes
    <3> DEFINE m == [l EXCEPT !.pc = "match", !.at = None, !.matched = @ \cup {i}]
    <3>2. m \in Pass /\ SafeLocals(m)
      <4>1. m \in Pass
        BY <2>1 DEF BookInv, TypeOK
      <4>2. QED
        BY <1>1, <4>1 DEF SafeLocals, Pass
    <3>3. PICK k \in Pass : k = pass'[v] /\ SafeLocals(k)
      BY <2>1, <3>2 DEF BookInv, TypeOK
    <3>4. SafeLocals(k)'
      BY <2>3, <3>3, SafeLocalsStable
    <3>5. QED
      BY <3>3, <3>4 DEF SafeLocals
  <2>8. QED
    BY <2>4, <2>5, <2>6, <2>7 DEF BookInv
<1>13. CASE PassMatched(w)
  <2>1. PICK gone \in SUBSET (l.loc \cap l.aged), t \in SUBSET RowIds :
          PassGoes(w, [IdlePass EXCEPT !.pc = "sweep", !.suspects = gone,
                                       !.ticketed = t])
    <3> DEFINE left == (l.loc \ l.matched) \cap l.aged
               gone == {r \in left : r \in l.ticketed => book[r].of \notin l.snap}
    <3>1. /\ gone \in SUBSET (l.loc \cap l.aged)
          /\ gone \cap l.ticketed \in SUBSET RowIds
      BY <1>2
    <3>2. PassGoes(w, [IdlePass EXCEPT !.pc = "sweep", !.suspects = gone,
                                       !.ticketed = gone \cap l.ticketed])
      BY <1>13 DEF PassMatched
    <3> HIDE DEF gone
    <3>3. QED
      BY <3>1, <3>2
  <2>2. SafeLocals([IdlePass EXCEPT !.pc = "sweep", !.suspects = gone,
                                    !.ticketed = t])
    BY <1>1, <2>1 DEF SafeLocals, IdlePass
  <2>3. QED
    BY <1>3, <1>13, <2>1, <2>2, PassStepSafe DEF PassMatched
<1>14. ASSUME NEW r \in RowIds, PassReverify(w, r)
       PROVE  BookInv'
  <2>1. r \in l.suspects
    BY <1>14 DEF PassReverify
  <2>2. PICK seen \in {OpenPositions, {}} :
          PassGoes(w, IF book[r].of \in seen
                      THEN [l EXCEPT !.suspects = @ \ {r}]
                      ELSE [l EXCEPT !.pc = "close", !.row = r,
                                     !.suspects = @ \ {r},
                                     !.blind = seen # OpenPositions])
    BY <1>14 DEF PassReverify
  <2> DEFINE b == seen # OpenPositions
  <2> HIDE DEF b
  <2>3. /\ SafeLocals([l EXCEPT !.suspects = @ \ {r}])
        /\ SafeLocals([l EXCEPT !.pc = "close", !.row = r, !.suspects = @ \ {r},
                                !.blind = b])
    BY <1>1, <2>1 DEF SafeLocals, Pass
  <2>4. CASE book[r].of \in seen
    BY <1>3, <1>14, <2>2, <2>3, <2>4, PassStepSafe DEF PassReverify
  <2>5. CASE book[r].of \notin seen
    BY <1>3, <1>14, <2>2, <2>3, <2>5, PassStepSafe DEF PassReverify, b
  <2>6. QED
    BY <2>4, <2>5
<1>15. ASSUME NEW r \in RowIds, PassHistory(w, r)
       PROVE  BookInv'
  <2>1. r \in l.suspects
    BY <1>15 DEF PassHistory
  <2>2. /\ SafeLocals([l EXCEPT !.pc = "close", !.row = r, !.suspects = @ \ {r}])
        /\ SafeLocals([l EXCEPT !.pc = "reject", !.row = r, !.suspects = @ \ {r}])
    BY <1>1, <2>1 DEF SafeLocals, Pass
  <2>3. QED
    BY <1>3, <1>15, <2>2, PassStepSafe DEF PassHistory
<1>16. CASE PassClose(w) \/ PassReject(w)
  <2>1. l.row \in RowIds => Exists(l.row)
    BY <1>0, <1>1 DEF SafeLocals
  <2>2. SameRows
    BY <1>16, <2>1, WriteKeepsRows DEF PassClose, PassReject, SetStatus, BookInv, Status
  <2>3. SafeLocals([l EXCEPT !.pc = "sweep", !.row = None])
    BY <1>1 DEF SafeLocals, Pass
  <2>4. QED
    BY <1>16, <2>2, <2>3, PassStepSafe DEF PassClose, PassReject
<1>17. CASE PassFinish(w) \/ PassAbort(w)
  BY <1>3, <1>4, <1>17, PassStepSafe DEF PassFinish, PassAbort
<1>18. QED
  BY <1>7, <1>8, <1>9, <1>10, <1>11, <1>12, <1>13, <1>14, <1>15, <1>16, <1>17
     DEF SyncPass

LEMMA BookInvInductive == BookInv /\ [Next]_vars => BookInv'
<1> SUFFICES ASSUME BookInv, [Next]_vars PROVE BookInv'
  OBVIOUS
<1>1. TypeOK'
  BY NextTyped DEF BookInv
<1>2. CASE UNCHANGED vars
  <2>1. /\ UNCHANGED <<broker, book, fresh, placing, closing, closeRow, inbox, pass>>
        /\ RowsPersist /\ CallsAdvance
    BY <1>2 DEF vars, RowsPersist, CallsAdvance, Exists
  <2>2. RowFirst' /\ RunningIsFresh' /\ ClosersHoldRows' /\ OwnOrdersNeverImported'
    BY <2>1 DEF BookInv, RowFirst, RunningIsFresh, ClosersHoldRows,
                OwnOrdersNeverImported, Exists
  <2>3. QED
    BY <1>1, <2>1, <2>2, OthersSafe DEF BookInv
<1>3. CASE Next
  BY <1>1, <1>3, PlaceToolSafe, CloseToolSafe, SyncPassSafe, EnvironmentSafe DEF Next
<1>4. QED
  BY <1>2, <1>3

\* Whatever the overlap of passes, tools and failures, the position of an order
\* the program placed is never imported as one opened outside it.
THEOREM NoOwnOrderImported == Spec => []OwnOrdersNeverImported
<1>1. BookInv => OwnOrdersNeverImported
  BY DEF BookInv
<1>2. QED
  BY <1>1, InitSafe, BookInvInductive, PTL DEF Spec

\* A pass never ends the row of an order whose place_order call is running.
THEOREM GraceProtects == Spec => []GraceProtectsPlacing
<1>1. BookInv => GraceProtectsPlacing
  BY DEF BookInv, SafeLocals, GraceProtectsPlacing
<1>2. QED
  BY <1>1, InitSafe, BookInvInductive, PTL DEF Spec

-----------------------------------------------------------------------------
(* What has a broker id was accepted by the broker.                        *)
(*                                                                         *)
(* An order is asked for once and accepted at most once (AskedOnce); a row *)
(* with a broker id, and whatever a pass saw or is about to close, stands  *)
(* for a position that the broker has accepted (RowsReached, SawReached).  *)

Reached(p) == broker[p] \in {"resting", "open", "closed"}
Asking(o) == [kind |-> "order", of |-> o]

AskedOnce ==
    \A o \in Orders :
        /\ placing[o] \in {"idle", "saved"} => broker[o] = "none" /\ Asking(o) \notin inbox
        /\ Asking(o) \in inbox => broker[o] = "none"
        /\ placing[o] = "accepted" => Reached(o)

OnlyRestingRest == \A p \in Positions : broker[p] = "resting" => p \in Resting

RowsReached ==
    \A r \in RowIds : Exists(r) =>
        /\ book[r].of \in Positions
        /\ book[r].ticket => Reached(book[r].of)
        /\ book[r].status = "OPEN" => book[r].ticket

SawReached(l) ==
    /\ \A p \in l.snap \cup l.todo : Reached(p)
    /\ \A r \in l.ticketed : Exists(r) /\ Reached(book[r].of)
    /\ l.pc = "found" => /\ l.at \in Positions /\ Reached(l.at)
                         /\ l.row # None => Exists(l.row) /\ book[l.row].of = l.at
    /\ l.pc = "close" =>
          /\ l.row # None /\ Exists(l.row) /\ Reached(book[l.row].of)
          /\ l.row \in l.ticketed /\ ~l.blind =>
                broker[book[l.row].of] = "closed" \/ book[l.row].of \in Resting

ReachInv ==
    /\ BookInv
    /\ AskedOnce
    /\ OnlyRestingRest
    /\ RowsReached
    /\ \A w \in Passes : SawReached(pass[w])

\* What the broker accepted stays accepted, and what it closed stays closed.
BrokerAdvances ==
    \A p \in Positions : /\ Reached(p) => Reached(p)'
                         /\ broker[p] = "closed" => broker'[p] = "closed"

LEMMA InitReached == Init => ReachInv
<1> SUFFICES ASSUME Init PROVE ReachInv
  OBVIOUS
<1>1. BookInv
  BY InitSafe
<1>2. \A r \in RowIds : ~Exists(r)
  BY DEF Init, Exists
<1>3. \A o \in Orders : o \in Positions
  BY DEF Positions
<1>4. SawReached(IdlePass)
  BY DEF SawReached, IdlePass
<1>5. \A w \in Passes : SawReached(pass[w])
  BY <1>4 DEF Init
<1>6. AskedOnce /\ OnlyRestingRest /\ RowsReached
  BY <1>2, <1>3 DEF Init, AskedOnce, OnlyRestingRest, RowsReached
<1>7. QED
  BY <1>1, <1>5, <1>6 DEF ReachInv

LEMMA SawReachedStable ==
    ASSUME RowsReached, NEW l \in Pass, SawReached(l), RowsPersist, BrokerAdvances
    PROVE  SawReached(l)'
<1>1. /\ l.ticketed \subseteq RowIds /\ l.row \in RowIds \cup {None}
      /\ l.snap \subseteq Positions /\ l.todo \subseteq Positions
  BY DEF Pass
<1>2. \A r \in RowIds : Exists(r) =>
         /\ Exists(r)' /\ book'[r].of = book[r].of /\ book[r].of \in Positions
  BY DEF RowsPersist, RowsReached
<1>3. \A p \in Positions : Reached(p) => Reached(p)'
  BY DEF BrokerAdvances
<1>4. \A p \in l.snap \cup l.todo : Reached(p)'
  BY <1>1, <1>3 DEF SawReached
<1>5. \A r \in l.ticketed : Exists(r)' /\ Reached(book[r].of)'
  <2> TAKE r \in l.ticketed
  <2>1. r \in RowIds /\ Exists(r) /\ Reached(book[r].of)
    BY <1>1 DEF SawReached
  <2>2. book[r].of \in Positions /\ book'[r].of = book[r].of /\ Exists(r)'
    BY <1>2, <2>1
  <2>3. broker'[book[r].of] \in {"resting", "open", "closed"}
    BY <1>3, <2>1, <2>2 DEF Reached
  <2>4. QED
    BY <2>2, <2>3 DEF Reached
<1>6. ASSUME l.pc = "found"
      PROVE  /\ l.at \in Positions /\ Reached(l.at)'
             /\ l.row # None => Exists(l.row)' /\ book'[l.row].of = l.at
  BY <1>1, <1>2, <1>3, <1>6 DEF SawReached
<1>7. ASSUME l.pc = "close"
      PROVE  /\ l.row # None /\ Exists(l.row)' /\ Reached(book[l.row].of)'
             /\ l.row \in l.ticketed /\ ~l.blind =>
                   broker'[book'[l.row].of] = "closed" \/ book'[l.row].of \in Resting
  <2>1. l.row # None /\ l.row \in RowIds /\ Exists(l.row) /\ Reached(book[l.row].of)
    BY <1>1, <1>7 DEF SawReached
  <2>2. /\ book[l.row].of \in Positions /\ book'[l.row].of = book[l.row].of
        /\ Exists(l.row)'
    BY <1>2, <2>1
  <2>3. broker'[book[l.row].of] \in {"resting", "open", "closed"}
    BY <1>3, <2>1, <2>2 DEF Reached
  <2>4. l.row \in l.ticketed /\ ~l.blind =>
           broker[book[l.row].of] = "closed" \/ book[l.row].of \in Resting
    BY <1>7 DEF SawReached
  <2>5. l.row \in l.ticketed /\ ~l.blind =>
           broker'[book'[l.row].of] = "closed" \/ book'[l.row].of \in Resting
    BY <2>2, <2>4 DEF BrokerAdvances
  <2>6. QED
    BY <2>1, <2>2, <2>3, <2>5 DEF Reached
<1>8. QED
  BY <1>4, <1>5, <1>6, <1>7 DEF SawReached

\* A step of the tools, the adapter, the broker or the clock.
LEMMA OthersReached ==
    ASSUME ReachInv, BookInv', RowsPersist, BrokerAdvances, UNCHANGED pass,
           AskedOnce', OnlyRestingRest', RowsReached'
    PROVE  ReachInv'
<1>1. \A w \in Passes : SawReached(pass[w])'
  <2> TAKE w \in Passes
  <2>1. PICK l \in Pass : l = pass[w] /\ SawReached(l)
    BY DEF ReachInv, BookInv, TypeOK
  <2>2. SawReached(l)'
    BY <2>1, SawReachedStable DEF ReachInv
  <2>3. QED
    BY <2>1, <2>2 DEF SawReached
<1>2. QED
  BY <1>1 DEF ReachInv

\* A step of a pass, which leaves the broker and the calls alone.
LEMMA PassReached ==
    ASSUME ReachInv, BookInv', RowsPersist, UNCHANGED <<broker, placing, inbox>>,
           NEW w \in Passes, NEW l \in Pass, SawReached(l),
           pass' = [pass EXCEPT ![w] = l], RowsReached'
    PROVE  ReachInv'
<1>1. AskedOnce' /\ OnlyRestingRest' /\ BrokerAdvances
  BY DEF ReachInv, AskedOnce, OnlyRestingRest, BrokerAdvances, Reached, Asking
<1>2. \A v \in Passes : SawReached(pass[v])'
  <2> TAKE v \in Passes
  <2>1. PICK k \in Pass : k = pass'[v] /\ SawReached(k)
    BY DEF ReachInv, BookInv, TypeOK
  <2>2. SawReached(k)'
    BY <1>1, <2>1, SawReachedStable DEF ReachInv
  <2>3. QED
    BY <2>1, <2>2 DEF SawReached
<1>3. QED
  BY <1>1, <1>2 DEF ReachInv

\* Writing the status and the broker id of a row that exists.
LEMMA WriteReached ==
    ASSUME ReachInv, NEW r, r \in RowIds => Exists(r), UNCHANGED broker,
           NEW s \in Status \ {"ABSENT"}, NEW t, WriteRow(r, s, t),
           r \in RowIds /\ t => Reached(book[r].of), s = "OPEN" => t
    PROVE  RowsReached'
<1>1. \A q \in RowIds : book'[q] = IF q = r THEN [of |-> book[r].of, status |-> s, ticket |-> t]
                                   ELSE book[q]
  BY DEF WriteRow, ReachInv, BookInv, TypeOK
<1>2. \A q \in RowIds : Exists(q)' => Exists(q)
  BY <1>1 DEF Exists
<1>3. QED
  BY <1>1, <1>2 DEF ReachInv, RowsReached, Reached, Exists

LEMMA PlaceToolReached ==
    ASSUME ReachInv, BookInv', NEW o \in Orders, PlaceTool(o) \/ HandleOrder(o)
    PROVE  ReachInv'
<1>0. o \in RowIds /\ o \in Positions /\ \A q \in Orders : q \in RowIds /\ q \in Positions
  BY DEF RowIds, Positions
<1>1. /\ TypeOK /\ AskedOnce /\ OnlyRestingRest /\ RowsReached /\ RowFirst
      /\ DOMAIN placing = Orders /\ DOMAIN broker = Positions
  BY DEF ReachInv, BookInv, TypeOK
<1>2. \A q \in Orders : q # o => Asking(q) # Asking(o)
  BY DEF Asking
<1>3. CASE PlaceSave(o)
  <2>1. /\ book' = [book EXCEPT ![o] = [of |-> o, status |-> "PENDING", ticket |-> FALSE]]
        /\ placing[o] = "idle" /\ UNCHANGED <<broker, inbox, pass>>
        /\ \A q \in Orders : placing'[q] = IF q = o THEN placing'[o] ELSE placing[q]
        /\ placing'[o] \in {"saved", "done"}
    BY <1>1, <1>3 DEF PlaceSave
  <2>2. ~Exists(o)
    BY <1>1, <2>1 DEF RowFirst
  <2>3. \A r \in RowIds \ {o} : book'[r] = book[r]
    BY <2>1 DEF TypeOK
  <2>4. book'[o] = [of |-> o, status |-> "PENDING", ticket |-> FALSE]
    BY <1>0, <1>1, <2>1 DEF TypeOK
  <2>5. RowsPersist
    BY <2>2, <2>3 DEF RowsPersist, Exists
  <2>6. RowsReached'
    BY <1>0, <1>1, <2>1, <2>3, <2>4 DEF RowsReached, Reached, Exists
  <2>7. AskedOnce' /\ OnlyRestingRest' /\ BrokerAdvances
    BY <1>1, <2>1 DEF AskedOnce, OnlyRestingRest, BrokerAdvances, Reached, Asking
  <2>8. QED
    BY <2>1, <2>5, <2>6, <2>7, OthersReached
<1>4. CASE PlaceSend(o)
  <2>1. /\ placing[o] = "saved" /\ inbox' = inbox \cup {Asking(o)}
        /\ UNCHANGED <<broker, book, pass>>
        /\ \A q \in Orders : placing'[q] = IF q = o THEN "sent" ELSE placing[q]
    BY <1>1, <1>4 DEF PlaceSend, Asking
  <2>2. RowsPersist /\ RowsReached' /\ OnlyRestingRest' /\ BrokerAdvances
    BY <1>1, <2>1 DEF RowsPersist, RowsReached, OnlyRestingRest, BrokerAdvances, Reached, Exists
  <2>3. AskedOnce'
    <3>1. \A q \in Orders : Asking(q) \in inbox' <=> Asking(q) \in inbox \/ q = o
      BY <1>2, <2>1
    <3> HIDE DEF Asking
    <3>2. QED
      BY <1>1, <2>1, <3>1 DEF AskedOnce, Reached
  <2>4. QED
    BY <2>1, <2>2, <2>3, OthersReached
<1>5. CASE PlaceTimeout(o) \/ PlaceRecordLost(o)
  <2>1. /\ placing[o] \notin {"idle", "saved"} /\ UNCHANGED <<broker, book, inbox, pass>>
        /\ \A q \in Orders : placing'[q] = IF q = o THEN "done" ELSE placing[q]
    BY <1>1, <1>5 DEF PlaceTimeout, PlaceRecordLost
  <2>2. RowsPersist /\ RowsReached' /\ OnlyRestingRest' /\ BrokerAdvances
    BY <1>1, <2>1 DEF RowsPersist, RowsReached, OnlyRestingRest, BrokerAdvances, Reached, Exists
  <2>3. AskedOnce'
    BY <1>1, <2>1 DEF AskedOnce, Reached, Asking
  <2>4. QED
    BY <2>1, <2>2, <2>3, OthersReached
<1>6. CASE PlaceRecord(o)
  <2>1. /\ placing[o] \in {"accepted", "refused", "error"} /\ UNCHANGED <<broker, inbox, pass>>
        /\ \A q \in Orders : placing'[q] = IF q = o THEN "done" ELSE placing[q]
    BY <1>1, <1>6 DEF PlaceRecord
  <2>2. Exists(o) /\ book[o].of = o
    BY <1>1, <2>1 DEF RowFirst
  <2>3. PICK s \in Status \ {"ABSENT"}, t \in {TRUE, book[o].ticket} :
           WriteRow(o, s, t) /\ (t => Reached(o)) /\ (s = "OPEN" => t)
    <3>1. CASE placing[o] = "accepted"
      <4>1. \E s \in {"OPEN", "PENDING"} : WriteRow(o, s, TRUE)
        BY <1>6, <3>1 DEF PlaceRecord
      <4>2. Reached(o)
        BY <1>1, <3>1 DEF AskedOnce
      <4>3. QED
        BY <4>1, <4>2 DEF Status
    <3>2. CASE placing[o] # "accepted"
      <4>1. WriteRow(o, "REJECTED", book[o].ticket)
        BY <1>6, <3>2 DEF PlaceRecord, SetStatus
      <4>2. book[o].ticket => Reached(o)
        BY <1>0, <1>1, <2>2 DEF RowsReached
      <4>3. "REJECTED" \in Status \ {"ABSENT"} /\ "REJECTED" # "OPEN"
        BY DEF Status
      <4>4. QED
        BY <4>1, <4>2, <4>3, Zenon
    <3>3. QED
      BY <3>1, <3>2
  <2>4. RowsReached'
    BY <1>0, <2>1, <2>2, <2>3, WriteReached
  <2>5. RowsPersist
    BY <1>1, <2>2, <2>3, WriteKeepsRows, SameRowsPersist
  <2>6. AskedOnce' /\ OnlyRestingRest' /\ BrokerAdvances
    BY <1>1, <2>1 DEF AskedOnce, OnlyRestingRest, BrokerAdvances, Reached, Asking
  <2>7. QED
    BY <2>1, <2>4, <2>5, <2>6, OthersReached
<1>7. CASE HandleOrder(o)
  <2>1. /\ Asking(o) \in inbox /\ inbox' = inbox \ {Asking(o)} /\ UNCHANGED <<book, pass>>
        /\ \A p \in Positions : broker'[p] = IF p = o THEN broker'[o] ELSE broker[p]
        /\ \A q \in Orders : q # o => placing'[q] = placing[q]
    BY <1>1, <1>7 DEF HandleOrder, Asking
  <2>2. broker[o] = "none"
    BY <1>1, <2>1 DEF AskedOnce
  <2>3. /\ broker'[o] \in {"none", "inflight", "open", "resting"}
        /\ broker'[o] = "resting" => o \in Resting
    BY <1>0, <1>1, <1>7, <2>2 DEF HandleOrder
  <2>4. placing'[o] \in {placing[o], "refused", "error"}
        \/ (placing'[o] = "accepted" /\ broker'[o] \in {"open", "resting"})
    BY <1>0, <1>1, <1>7 DEF HandleOrder
  <2>5. placing[o] \notin {"idle", "saved"}
    BY <1>1, <2>1 DEF AskedOnce
  <2>6. BrokerAdvances
    BY <2>1, <2>2 DEF BrokerAdvances, Reached
  <2>7. RowsPersist /\ OnlyRestingRest'
    BY <1>1, <2>1, <2>3 DEF RowsPersist, OnlyRestingRest, Exists
  <2>8. RowsReached'
    BY <1>1, <2>1, <2>6 DEF RowsReached, BrokerAdvances, Exists, Reached
  <2>9. AskedOnce'
    <3>1. \A q \in Orders : Asking(q) \in inbox' <=> Asking(q) \in inbox /\ q # o
      BY <1>2, <2>1
    <3>2. ASSUME NEW q \in Orders, q # o
          PROVE  /\ placing'[q] \in {"idle", "saved"} =>
                       broker'[q] = "none" /\ Asking(q) \notin inbox'
                 /\ Asking(q) \in inbox' => broker'[q] = "none"
                 /\ placing'[q] = "accepted" => Reached(q)'
      BY <1>0, <1>1, <2>1, <3>1, <3>2 DEF AskedOnce, Reached
    <3>3. /\ placing'[o] \notin {"idle", "saved"} /\ Asking(o) \notin inbox'
          /\ placing'[o] = "accepted" => Reached(o)'
      <4>1. placing[o] # "accepted"
        BY <1>1, <2>2 DEF AskedOnce, Reached
      <4>2. QED
        BY <2>4, <2>5, <3>1, <4>1 DEF Reached
    <3>4. QED
      BY <3>2, <3>3 DEF AskedOnce, Asking, Reached
  <2>10. QED
    BY <2>1, <2>6, <2>7, <2>8, <2>9, OthersReached
<1>8. QED
  BY <1>3, <1>4, <1>5, <1>6, <1>7 DEF PlaceTool

LEMMA CloseToolReached ==
    ASSUME ReachInv, BookInv', NEW p \in Positions, CloseTool(p) \/ HandleClose(p)
    PROVE  ReachInv'
<1>1. /\ TypeOK /\ AskedOnce /\ OnlyRestingRest /\ RowsReached /\ ClosersHoldRows
      /\ DOMAIN broker = Positions
  BY DEF ReachInv, BookInv, TypeOK
<1>2. /\ UNCHANGED <<placing, pass>>
      /\ \A o \in Orders : Asking(o) \in inbox' => Asking(o) \in inbox
  BY DEF CloseTool, CloseSend, CloseTimeout, CloseLookup, CloseRecord, CloseRecordLost,
         HandleClose, Asking
<1>3. \A q \in Positions : \/ broker'[q] = broker[q]
                           \/ broker[q] = "open" /\ broker'[q] = "closed"
  BY <1>1 DEF CloseTool, CloseSend, CloseTimeout, CloseLookup, CloseRecord,
              CloseRecordLost, HandleClose
<1>4. BrokerAdvances /\ OnlyRestingRest'
  BY <1>1, <1>3 DEF BrokerAdvances, OnlyRestingRest, Reached
<1>5. AskedOnce'
  <2>1. \A o \in Orders : o \in Positions
    BY DEF Positions
  <2>2. QED
    BY <1>1, <1>2, <1>3, <2>1 DEF AskedOnce, Reached, Asking
<1>6. CASE CloseRecord(p)
  <2>1. closeRow[p] \in RowIds => Exists(closeRow[p]) /\ book[closeRow[p]].of \in Positions
           /\ (book[closeRow[p]].ticket => Reached(book[closeRow[p]].of))
    BY <1>1, OrderBookAssumption DEF ClosersHoldRows, RowsReached, RowIds
  <2>2. WriteRow(closeRow[p], "CLOSED", book[closeRow[p]].ticket) /\ UNCHANGED broker
    BY <1>6 DEF CloseRecord, SetStatus
  <2>3. "CLOSED" \in Status \ {"ABSENT"} /\ "CLOSED" # "OPEN"
    BY DEF Status
  <2>4. RowsReached'
    BY <2>1, <2>2, <2>3, WriteReached
  <2>5. RowsPersist
    BY <1>1, <2>1, <2>2, <2>3, WriteKeepsRows, SameRowsPersist
  <2>6. QED
    BY <1>2, <1>4, <1>5, <2>4, <2>5, OthersReached
<1>7. CASE ~CloseRecord(p)
  <2>1. book' = book
    BY <1>7 DEF CloseTool, CloseSend, CloseTimeout, CloseLookup, CloseRecordLost, HandleClose
  <2>2. RowsPersist
    BY <2>1 DEF RowsPersist, Exists
  <2>3. RowsReached'
    BY <1>1, <1>4, <2>1 DEF RowsReached, BrokerAdvances, Exists, Reached
  <2>4. QED
    BY <1>2, <1>4, <1>5, <2>2, <2>3, OthersReached
<1>8. QED
  BY <1>6, <1>7

LEMMA EnvironmentReached ==
    ASSUME ReachInv, BookInv',
           \/ \E p \in Positions : BrokerOpens(p) \/ BrokerCloses(p)
           \/ \E r \in RowIds : GraceEnds(r)
    PROVE  ReachInv'
<1>1. /\ TypeOK /\ AskedOnce /\ OnlyRestingRest /\ RowsReached /\ RowFirst
      /\ DOMAIN broker = Positions
      /\ \A o \in Orders : o \in Positions /\ o \notin Manual
  BY OrderBookAssumption DEF ReachInv, BookInv, TypeOK, Positions
<1>2. /\ UNCHANGED <<book, placing, inbox, pass>>
      /\ \A q \in Positions :
            \/ broker'[q] = broker[q]
            \/ broker[q] = "open" /\ broker'[q] = "closed"
            \/ /\ broker[q] \in {"inflight", "resting"} \/ q \in Manual
               /\ broker[q] \in {"inflight", "resting", "none"} /\ broker'[q] = "open"
  BY <1>1 DEF BrokerOpens, BrokerCloses, GraceEnds, toolVars
<1>3. BrokerAdvances
  BY <1>2 DEF BrokerAdvances, Reached
<1>4. RowsPersist /\ OnlyRestingRest'
  BY <1>1, <1>2 DEF RowsPersist, OnlyRestingRest, Exists
<1>5. RowsReached'
  BY <1>1, <1>2, <1>3 DEF RowsReached, BrokerAdvances, Exists, Reached
<1>6. AskedOnce'
  BY <1>1, <1>2 DEF AskedOnce, Reached, Asking
<1>7. QED
  BY <1>2, <1>3, <1>4, <1>5, <1>6, OthersReached

LEMMA RestartReached == ReachInv /\ BookInv' /\ Restart => ReachInv'
<1> SUFFICES ASSUME ReachInv, BookInv', Restart PROVE ReachInv'
  OBVIOUS
<1>1. /\ UNCHANGED <<broker, book>> /\ inbox' = {}
      /\ \A o \in Orders : placing'[o] = IF placing[o] = "idle" THEN "idle" ELSE "done"
      /\ \A w \in Passes : pass'[w] = IdlePass
  BY DEF Restart
<1>2. AskedOnce' /\ OnlyRestingRest' /\ RowsReached'
  BY <1>1 DEF ReachInv, AskedOnce, OnlyRestingRest, RowsReached, Reached, Exists, Asking
<1>3. \A w \in Passes : SawReached(pass[w])'
  BY <1>1 DEF SawReached, IdlePass
<1>4. QED
  BY <1>2, <1>3 DEF ReachInv

LEMMA SyncPassReached ==
    ASSUME ReachInv, BookInv', NEW w \in Passes, SyncPass(w) \/ PassAbort(w)
    PROVE  ReachInv'
<1> DEFINE l == pass[w]
<1>0. /\ TypeOK /\ RowsReached /\ OnlyRestingRest /\ l \in Pass /\ SawReached(l)
      /\ SafeLocals(l) /\ None \notin RowIds /\ None \notin Positions
      /\ DOMAIN pass = Passes
  BY OrderBookAssumption DEF ReachInv, BookInv, TypeOK, RowIds, Positions
<1>1. /\ l.loc \subseteq RowIds /\ l.ticketed \subseteq RowIds /\ l.suspects \subseteq RowIds
      /\ l.row \in RowIds \cup {None} /\ l.todo \subseteq Positions /\ l.snap \subseteq Positions
  BY <1>0 DEF Pass
<1> HIDE DEF l
\* A step that writes no row.
<1>2. ASSUME NEW k, SawReached(k), PassGoes(w, k), UNCHANGED book
      PROVE  ReachInv'
  <2>1. /\ pass' = [pass EXCEPT ![w] = k] /\ UNCHANGED <<broker, placing, inbox>>
    BY <1>2 DEF PassGoes, toolVars
  <2>2. pass'[w] = k /\ TypeOK'
    BY <1>0, <2>1 DEF BookInv
  <2>3. k \in Pass
    BY <2>2 DEF TypeOK
  <2>4. RowsPersist /\ RowsReached'
    BY <1>0, <1>2, <2>1 DEF RowsPersist, RowsReached, Reached, Exists
  <2>5. QED
    BY <1>2, <2>1, <2>3, <2>4, PassReached
\* A step that writes one that exists.
<1>3. ASSUME NEW k, SawReached(k), PassGoes(w, k),
             NEW r, r \in RowIds => Exists(r), NEW s \in Status \ {"ABSENT"}, NEW t \in BOOLEAN,
             WriteRow(r, s, t), r \in RowIds /\ t => Reached(book[r].of), s = "OPEN" => t
      PROVE  ReachInv'
  <2>1. /\ pass' = [pass EXCEPT ![w] = k] /\ UNCHANGED <<broker, placing, inbox>>
    BY <1>3 DEF PassGoes, toolVars
  <2>2. pass'[w] = k /\ TypeOK'
    BY <1>0, <2>1 DEF BookInv
  <2>3. k \in Pass
    BY <2>2 DEF TypeOK
  <2>4. RowsPersist
    BY <1>0, <1>3, WriteKeepsRows, SameRowsPersist
  <2>5. RowsReached'
    BY <1>3, <2>1, WriteReached
  <2>6. QED
    BY <1>3, <2>1, <2>3, <2>4, <2>5, PassReached
<1>4. SawReached(IdlePass)
  BY DEF SawReached, IdlePass
<1>5. OpenPositions \subseteq {p \in Positions : Reached(p)}
  BY DEF OpenPositions, Reached
<1>6. CASE PassSnapshot(w)
  <2>1. PICK seen \in {OpenPositions, {}} :
          PassGoes(w, [IdlePass EXCEPT
                         !.pc = "local", !.snap = seen,
                         !.aged = {r \in RowIds : Exists(r)} \ fresh,
                         !.blind = seen # OpenPositions])
    BY <1>6 DEF PassSnapshot
  <2> DEFINE b == seen # OpenPositions
             a == {r \in RowIds : Exists(r)} \ fresh
  <2>2. \A p \in seen : Reached(p)
    BY <1>5
  <2> HIDE DEF a, b
  <2>3. SawReached([IdlePass EXCEPT !.pc = "local", !.snap = seen, !.aged = a,
                                   !.blind = b])
    BY <2>2 DEF SawReached, IdlePass
  <2>4. QED
    BY <1>2, <1>6, <2>1, <2>3 DEF PassSnapshot, a, b
<1>7. CASE PassLocal(w)
  <2> DEFINE t == {r \in LiveRows : book[r].ticket}
             k == [l EXCEPT !.pc = "match", !.loc = LiveRows, !.ticketed = t, !.todo = l.snap]
  <2>1. \A r \in t : Exists(r) /\ Reached(book[r].of)
    BY <1>0 DEF LiveRows, Live, Exists, RowsReached
  <2> HIDE DEF t
  <2>2. SawReached(k)
    BY <1>0, <2>1 DEF SawReached, Pass
  <2>3. PassGoes(w, k) /\ UNCHANGED book
    BY <1>7 DEF PassLocal, t, l
  <2> HIDE DEF k
  <2>4. QED
    BY <1>2, <2>2, <2>3
<1>8. ASSUME NEW p \in Positions, PassRefresh(w, p)
      PROVE  ReachInv'
  <2>1. PICK r \in LocalMatches(w, p) :
          /\ SetOpen(r)
          /\ PassGoes(w, [l EXCEPT !.todo = @ \ {p}, !.matched = @ \cup {r}])
    BY <1>8 DEF PassRefresh, l
  <2>2. r \in RowIds /\ Exists(r) /\ book[r].of = p /\ Reached(p)
    BY <1>0, <1>1, <1>8, <2>1 DEF LocalMatches, Refers, SafeLocals, SawReached, PassRefresh, l
  <2>3. WriteRow(r, "OPEN", TRUE) /\ "OPEN" \in Status \ {"ABSENT"} /\ Reached(book[r].of)
    BY <2>1, <2>2 DEF SetOpen, Status
  <2>4. SawReached([l EXCEPT !.todo = @ \ {p}, !.matched = @ \cup {r}])
    BY <1>0 DEF SawReached, Pass
  <2>5. QED
    BY <1>3, <2>1, <2>2, <2>3, <2>4
<1>9. ASSUME NEW p \in Positions, PassFind(w, p)
      PROVE  ReachInv'
  <2>1. PICK r \in IF FindByBrokerRef(p) = {} THEN {None} ELSE FindByBrokerRef(p) :
          PassGoes(w, [l EXCEPT !.pc = "found", !.at = p, !.row = r,
                                !.todo = @ \ {p}])
    BY <1>9 DEF PassFind, l
  <2>2. /\ r # None => Exists(r) /\ book[r].of = p
        /\ Reached(p)
    BY <1>0, <1>9, <2>1 DEF FindByBrokerRef, Refers, PassFind, SawReached, l
  <2>3. SawReached([l EXCEPT !.pc = "found", !.at = p, !.row = r, !.todo = @ \ {p}])
    BY <1>0, <2>2 DEF SawReached, Pass
  <2>4. QED
    BY <1>2, <1>9, <2>1, <2>3 DEF PassFind
<1>10. CASE PassResync(w)
  <2>1. /\ l.row \in RowIds /\ Exists(l.row) /\ book[l.row].of = l.at /\ Reached(l.at)
    BY <1>0, <1>1, <1>10 DEF PassResync, SawReached, l
  <2>2. WriteRow(l.row, "OPEN", TRUE) /\ "OPEN" \in Status \ {"ABSENT"}
        /\ Reached(book[l.row].of)
    BY <1>10, <2>1 DEF PassResync, SetOpen, Status, l
  <2> DEFINE k == [l EXCEPT !.pc = "match", !.at = None, !.row = None,
                            !.matched = @ \cup {l.row}]
  <2>3. SawReached(k)
    BY <1>0 DEF SawReached, Pass
  <2>4. PassGoes(w, k)
    BY <1>10 DEF PassResync, l
  <2> HIDE DEF k
  <2>5. QED
    BY <1>3, <2>1, <2>2, <2>3, <2>4
<1>11. CASE PassImport(w)
  <2>1. PICK i \in Imports :
          /\ ~Exists(i)
          /\ book' = [book EXCEPT ![i] = [of |-> l.at, status |-> "OPEN",
                                          ticket |-> TRUE]]
          /\ pass' = [pass EXCEPT ![w] =
                        [l EXCEPT !.pc = "match", !.at = None,
                                  !.matched = @ \cup {i}]]
    BY <1>11 DEF PassImport, l
  <2>2. /\ UNCHANGED <<broker, placing, inbox>>
        /\ l.at \in Positions /\ Reached(l.at) /\ i \in RowIds
    BY <1>0, <1>11 DEF PassImport, SawReached, toolVars, RowIds, l
  <2>3. \A r \in RowIds \ {i} : book'[r] = book[r]
    BY <2>1 DEF TypeOK
  <2>4. book'[i] = [of |-> l.at, status |-> "OPEN", ticket |-> TRUE]
    BY <1>0, <2>1, <2>2 DEF TypeOK
  <2>5. RowsPersist
    BY <2>1, <2>3 DEF RowsPersist, Exists
  <2>6. RowsReached'
    <3> SUFFICES ASSUME NEW r \in RowIds, Exists(r)'
                 PROVE  /\ book'[r].of \in Positions
                        /\ book'[r].ticket => Reached(book[r].of)'
                        /\ book'[r].status = "OPEN" => book'[r].ticket
      BY DEF RowsReached
    <3>1. CASE r = i
      BY <2>2, <2>4, <3>1 DEF Reached
    <3>2. CASE r # i
      BY <1>0, <2>2, <2>3, <3>2 DEF RowsReached, Reached, Exists
    <3>3. QED
      BY <3>1, <3>2
  <2> DEFINE k == [l EXCEPT !.pc = "match", !.at = None, !.matched = @ \cup {i}]
  <2>7. SawReached(k) /\ k \in Pass
    <3>1. k \in Pass
      BY <1>0, <2>2 DEF Pass, PassPc
    <3>2. SawReached(k)
      BY <1>0 DEF SawReached, Pass
    <3>3. QED
      BY <3>1, <3>2
  <2> HIDE DEF k
  <2>8. pass' = [pass EXCEPT ![w] = k]
    BY <2>1 DEF k
  <2>9. QED
    BY <2>2, <2>5, <2>6, <2>7, <2>8, PassReached
<1>12. CASE PassMatched(w)
  <2> DEFINE left == (l.loc \ l.matched) \cap l.aged
             gone == {r \in left : r \in l.ticketed => book[r].of \notin l.snap}
             t == gone \cap l.ticketed
             k == [IdlePass EXCEPT !.pc = "sweep", !.suspects = gone, !.ticketed = t]
  <2>1. \A r \in t : Exists(r) /\ Reached(book[r].of)
    BY <1>0 DEF SawReached
  <2>2. PassGoes(w, k) /\ UNCHANGED book
    BY <1>12 DEF PassMatched, l
  <2> HIDE DEF gone, t
  <2>3. SawReached(k)
    BY <2>1 DEF SawReached, IdlePass
  <2> HIDE DEF k
  <2>4. QED
    BY <1>2, <2>2, <2>3
<1>13. ASSUME NEW r \in RowIds, PassReverify(w, r)
       PROVE  ReachInv'
  <2>1. /\ r \in l.suspects /\ r \in l.ticketed /\ UNCHANGED book
    BY <1>13 DEF PassReverify, l
  <2>2. PICK seen \in {OpenPositions, {}} :
          PassGoes(w, IF book[r].of \in seen
                      THEN [l EXCEPT !.suspects = @ \ {r}]
                      ELSE [l EXCEPT !.pc = "close", !.row = r,
                                     !.suspects = @ \ {r},
                                     !.blind = seen # OpenPositions])
    BY <1>13 DEF PassReverify, l
  <2>3. Exists(r) /\ Reached(book[r].of) /\ book[r].of \in Positions /\ r # None
    BY <1>0, <2>1 DEF SawReached, RowsReached
  <2> DEFINE b == seen # OpenPositions
  <2>4. CASE book[r].of \in seen
    <3>1. l.pc = "sweep"
      BY <1>13 DEF PassReverify, l
    <3>2. SawReached([l EXCEPT !.suspects = @ \ {r}])
      BY <1>0, <3>1 DEF SawReached, Pass
    <3>3. QED
      BY <1>2, <2>1, <2>2, <2>4, <3>2
  <2>5. CASE book[r].of \notin seen
    \* What the broker accepted and no good read shows is closed, or still rests.
    <3>1. ~b => broker[book[r].of] = "closed" \/ book[r].of \in Resting
      BY <1>0, <2>3, <2>5 DEF OpenPositions, Reached, OnlyRestingRest
    <3> HIDE DEF b
    <3>2. SawReached([l EXCEPT !.pc = "close", !.row = r, !.suspects = @ \ {r}, !.blind = b])
      BY <1>0, <2>3, <3>1 DEF SawReached, Pass
    <3>3. QED
      BY <1>2, <2>1, <2>2, <2>5, <3>2 DEF b
  <2>6. QED
    BY <2>4, <2>5
<1>14. ASSUME NEW r \in RowIds, PassHistory(w, r)
       PROVE  ReachInv'
  <2>1. r \in l.suspects /\ r \notin l.ticketed /\ UNCHANGED book /\ l.pc = "sweep" /\ r # None
    BY <1>0, <1>14 DEF PassHistory, l
  <2>2. \/ broker[book[r].of] \in {"open", "closed"}
           /\ PassGoes(w, [l EXCEPT !.pc = "close", !.row = r, !.suspects = @ \ {r}])
        \/ PassGoes(w, [l EXCEPT !.pc = "reject", !.row = r, !.suspects = @ \ {r}])
    BY <1>14 DEF PassHistory, l
  <2>3. Exists(r)
    BY <1>0, <2>1 DEF SafeLocals
  <2>4. SawReached([l EXCEPT !.pc = "reject", !.row = r, !.suspects = @ \ {r}])
    BY <1>0 DEF SawReached, Pass
  <2>5. broker[book[r].of] \in {"open", "closed"} =>
           SawReached([l EXCEPT !.pc = "close", !.row = r, !.suspects = @ \ {r}])
    BY <1>0, <2>1, <2>3 DEF SawReached, Pass, Reached
  <2>6. QED
    BY <1>2, <2>1, <2>2, <2>4, <2>5
<1>15. CASE PassClose(w) \/ PassReject(w)
  <2> DEFINE k == [l EXCEPT !.pc = "sweep", !.row = None]
             s == IF PassClose(w) THEN "CLOSED" ELSE "REJECTED"
             t == IF PassClose(w) THEN TRUE ELSE book[l.row].ticket
  <2>1. l.row \in RowIds => Exists(l.row)
    BY <1>0 DEF SafeLocals
  <2>2. SawReached(k)
    BY <1>0 DEF SawReached, Pass
  <2>3. PassGoes(w, k) /\ WriteRow(l.row, s, t)
    BY <1>15 DEF PassClose, PassReject, SetStatus, l
  <2>4. s \in Status \ {"ABSENT"} /\ s # "OPEN"
    BY DEF Status
  <2>5. l.row \in RowIds => t \in BOOLEAN /\ (t => Reached(book[l.row].of))
    <3>1. ASSUME PassClose(w) PROVE Reached(book[l.row].of)
      BY <1>0, <3>1 DEF PassClose, SawReached, l
    <3>2. ASSUME l.row \in RowIds, book[l.row].ticket PROVE Reached(book[l.row].of)
      BY <1>0, <2>1, <3>2 DEF RowsReached
    <3>3. l.row \in RowIds => book[l.row].ticket \in BOOLEAN
      BY <1>0 DEF TypeOK, Row
    <3>4. QED
      BY <3>1, <3>2, <3>3
  <2>6. CASE l.row \in RowIds
    <3> HIDE DEF k, s, t
    <3>1. QED
      BY <1>3, <2>1, <2>2, <2>3, <2>4, <2>5, <2>6
  <2>7. CASE l.row \notin RowIds
    <3>1. UNCHANGED book
      BY <1>0, <2>3, <2>7 DEF WriteRow, TypeOK
    <3> HIDE DEF k
    <3>2. QED
      BY <1>2, <2>2, <2>3, <3>1
  <2>8. QED
    BY <2>6, <2>7
<1>16. CASE PassFinish(w) \/ PassAbort(w)
  BY <1>2, <1>4, <1>16 DEF PassFinish, PassAbort
<1>17. QED
  BY <1>6, <1>7, <1>8, <1>9, <1>10, <1>11, <1>12, <1>13, <1>14, <1>15, <1>16
     DEF SyncPass

LEMMA ReachInvInductive == ReachInv /\ [Next]_vars => ReachInv'
<1> SUFFICES ASSUME ReachInv, [Next]_vars PROVE ReachInv'
  OBVIOUS
<1>1. BookInv'
  BY BookInvInductive DEF ReachInv
<1>2. CASE UNCHANGED vars
  <2>1. UNCHANGED <<broker, book, placing, inbox, pass>>
    BY <1>2 DEF vars
  <2>2. RowsPersist /\ BrokerAdvances /\ AskedOnce' /\ OnlyRestingRest' /\ RowsReached'
    BY <2>1 DEF RowsPersist, BrokerAdvances, ReachInv, AskedOnce, OnlyRestingRest,
                RowsReached, Reached, Exists, Asking
  <2>3. QED
    BY <1>1, <2>1, <2>2, OthersReached
<1>3. CASE Next
  BY <1>1, <1>3, PlaceToolReached, CloseToolReached, SyncPassReached, EnvironmentReached,
     RestartReached DEF Next
<1>4. QED
  BY <1>2, <1>3

\* No single failed read of the broker closes the row of a live position, whatever else
\* fails or overlaps: a row is closed after a good read, or after a second failure.
THEOREM ClosedAfterGoodRead == Spec => []ClosedOnlyAfterAGoodRead
<1>1. ReachInv => ClosedOnlyAfterAGoodRead
  BY DEF ReachInv, SawReached, ClosedOnlyAfterAGoodRead
<1>2. QED
  BY <1>1, InitReached, ReachInvInductive, PTL DEF Spec

-----------------------------------------------------------------------------
(* What a step does to the book.                                           *)
(*                                                                         *)
(* A row is created by place_order or by the import of a pass, or one that *)
(* exists is written: its broker id is never taken away, and it says OPEN  *)
(* or PENDING only when the broker has accepted the position.  The broker  *)
(* does nothing in such a step.                                            *)

Written(r, s, t) ==
    /\ WriteRow(r, s, t)
    /\ Exists(r)
    /\ book[r].ticket => t
    /\ s \in {"OPEN", "PENDING"} => Reached(book[r].of)

RowWritten ==
    \E r \in RowIds, s \in Status \ {"ABSENT"}, t \in BOOLEAN : Written(r, s, t)

RowRequested ==
    \E o \in Orders :
        /\ placing[o] = "idle"
        /\ placing'[o] # "idle"
        /\ book' = [book EXCEPT ![o] = [of |-> o, status |-> "PENDING", ticket |-> FALSE]]

RowImported(w) ==
    \E i \in Imports :
        /\ ~Exists(i)
        /\ pass[w].pc = "found" /\ pass[w].row = None
        /\ pass'[w].pc = "match"
        /\ book' = [book EXCEPT ![i] = [of |-> pass[w].at, status |-> "OPEN", ticket |-> TRUE]]

BookSteps ==
    \/ UNCHANGED book
    \/ /\ UNCHANGED broker
       /\ RowWritten \/ RowRequested \/ \E w \in Passes : RowImported(w)

LEMMA WritesAreBookSteps ==
    ASSUME TypeOK, UNCHANGED broker, NEW r, NEW s \in Status \ {"ABSENT"}, NEW t,
           WriteRow(r, s, t),
           r \in RowIds => /\ Exists(r) /\ t \in BOOLEAN
                           /\ book[r].ticket => t
                           /\ s \in {"OPEN", "PENDING"} => Reached(book[r].of)
    PROVE  BookSteps
<1>1. CASE r \in RowIds
  BY <1>1 DEF BookSteps, RowWritten, Written
<1>2. CASE r \notin RowIds
  BY <1>2 DEF BookSteps, WriteRow, TypeOK
<1>3. QED
  BY <1>1, <1>2

LEMMA NextBookSteps == ReachInv /\ [Next]_vars => BookSteps
<1> SUFFICES ASSUME ReachInv, [Next]_vars PROVE BookSteps
  OBVIOUS
<1>0. /\ TypeOK /\ RowFirst /\ AskedOnce /\ RowsReached /\ ClosersHoldRows
      /\ \A r \in RowIds : book[r].ticket \in BOOLEAN
      /\ \A s \in {"OPEN", "PENDING", "CLOSED", "REJECTED"} : s \in Status \ {"ABSENT"}
      /\ \A w \in Passes : SafeLocals(pass[w]) /\ SawReached(pass[w]) /\ pass[w] \in Pass
      /\ None \notin RowIds /\ Orders \subseteq RowIds /\ Imports \subseteq RowIds
  BY OrderBookAssumption DEF ReachInv, BookInv, TypeOK, Row, Status, RowIds
<1>1. ASSUME NEW o \in Orders, PlaceSave(o) PROVE BookSteps
  <2>1. PICK n \in {"saved", "done"} : placing' = [placing EXCEPT ![o] = n]
    BY <1>1 DEF PlaceSave
  <2>2. placing'[o] # "idle"
    BY <1>0, <2>1 DEF TypeOK
  <2>3. QED
    BY <1>1, <2>2 DEF PlaceSave, BookSteps, RowRequested
<1>2. ASSUME NEW o \in Orders, PlaceRecord(o) PROVE BookSteps
  <2>1. /\ Exists(o) /\ book[o].of = o /\ o \in RowIds /\ UNCHANGED broker
        /\ placing[o] = "accepted" => Reached(o)
    BY <1>0, <1>2 DEF PlaceRecord, RowFirst, AskedOnce
  <2>2. CASE placing[o] = "accepted"
    <3>1. PICK s \in {"OPEN", "PENDING"} : WriteRow(o, s, TRUE)
      BY <1>2, <2>2 DEF PlaceRecord
    <3>2. QED
      BY <1>0, <2>1, <2>2, <3>1, WritesAreBookSteps
  <2>3. CASE placing[o] # "accepted"
    BY <1>0, <1>2, <2>1, <2>3, WritesAreBookSteps DEF PlaceRecord, SetStatus
  <2>4. QED
    BY <2>2, <2>3
<1>3. ASSUME NEW o \in Orders, PlaceTool(o) \/ HandleOrder(o) PROVE BookSteps
  BY <1>1, <1>2, <1>3 DEF PlaceTool, PlaceSend, PlaceTimeout, PlaceRecordLost, HandleOrder,
                         BookSteps
<1>4. ASSUME NEW p \in Positions, CloseRecord(p) PROVE BookSteps
  <2>1. closeRow[p] \in RowIds => Exists(closeRow[p])
    BY <1>0 DEF ClosersHoldRows
  <2>2. QED
    BY <1>0, <1>4, <2>1, WritesAreBookSteps DEF CloseRecord, SetStatus
<1>5. ASSUME NEW p \in Positions, CloseTool(p) \/ HandleClose(p) PROVE BookSteps
  BY <1>4, <1>5 DEF CloseTool, CloseSend, CloseTimeout, CloseLookup, CloseRecordLost,
                    HandleClose, BookSteps
<1>6. ASSUME NEW w \in Passes, NEW p \in Positions, PassRefresh(w, p) PROVE BookSteps
  <2>1. PICK r \in LocalMatches(w, p) : WriteRow(r, "OPEN", TRUE)
    BY <1>6 DEF PassRefresh, SetOpen
  <2>2. r \in RowIds /\ Exists(r) /\ Reached(book[r].of) /\ UNCHANGED broker
    BY <1>0, <1>6, <2>1 DEF LocalMatches, Refers, SafeLocals, SawReached, PassRefresh,
                            PassGoes, Pass
  <2>3. QED
    BY <1>0, <2>1, <2>2, WritesAreBookSteps
<1>7. ASSUME NEW w \in Passes, PassResync(w) \/ PassClose(w) \/ PassReject(w) PROVE BookSteps
  <2> DEFINE l == pass[w]
  <2>1. l \in Pass /\ SafeLocals(l) /\ SawReached(l)
    BY <1>0
  <2>2. /\ l.row \in RowIds => Exists(l.row) /\ book[l.row].ticket \in BOOLEAN
        /\ l.pc = "found" /\ l.row \in RowIds => Reached(book[l.row].of)
    BY <1>0, <2>1 DEF SafeLocals, SawReached
  <2>3. PICK s \in {"OPEN", "CLOSED", "REJECTED"}, t \in {TRUE, book[l.row].ticket} :
          /\ WriteRow(l.row, s, t) /\ UNCHANGED broker
          /\ s = "OPEN" => l.pc = "found"
    BY <1>7 DEF PassResync, PassClose, PassReject, SetOpen, SetStatus, PassGoes
  <2> HIDE DEF l
  <2>4. l.row \in RowIds => /\ Exists(l.row) /\ t \in BOOLEAN
                            /\ book[l.row].ticket => t
                            /\ s \in {"OPEN", "PENDING"} => Reached(book[l.row].of)
    BY <2>2, <2>3
  <2>5. QED
    BY <1>0, <2>3, <2>4, WritesAreBookSteps
<1>8. ASSUME NEW w \in Passes, PassImport(w) PROVE BookSteps
  <2>1. PICK i \in Imports :
          /\ ~Exists(i)
          /\ book' = [book EXCEPT ![i] = [of |-> pass[w].at, status |-> "OPEN", ticket |-> TRUE]]
          /\ pass' = [pass EXCEPT ![w] = [pass[w] EXCEPT !.pc = "match", !.at = None,
                                                         !.matched = @ \cup {i}]]
    BY <1>8 DEF PassImport
  <2>2. pass'[w].pc = "match"
    BY <1>0, <2>1 DEF TypeOK, Pass
  <2>3. QED
    BY <1>8, <2>1, <2>2 DEF PassImport, BookSteps, RowImported
<1>9. ASSUME NEW w \in Passes, SyncPass(w) \/ PassAbort(w) PROVE BookSteps
  BY <1>6, <1>7, <1>8, <1>9
     DEF SyncPass, PassSnapshot, PassLocal, PassFind, PassMatched, PassReverify, PassHistory,
         PassFinish, PassAbort, BookSteps
<1>10. CASE UNCHANGED vars
  BY <1>10 DEF vars, BookSteps
<1>11. QED
  BY <1>3, <1>5, <1>9, <1>10 DEF Next, BrokerOpens, BrokerCloses, GraceEnds, Restart, BookSteps

-----------------------------------------------------------------------------
(* One pass at a time keeps one row per position.                          *)
(*                                                                         *)
(* A row for a position that had none is created by the order's own        *)
(* place_order, once, or by a pass that looked for one and found none      *)
(* (LooksOnce): since imported rows carry the broker's id, nothing it may  *)
(* have missed exists.  Between the look-up and the import only another    *)
(* pass could create one.                                                  *)

OnePass == \A v, w \in Passes : v = w

ImportsCarryIds == \A i \in Imports : Exists(i) => book[i].ticket

\* What a pass that found no row may rely on.
NoRowOf(p) == \A r \in RowIds : Exists(r) => book[r].of # p
LooksOnce ==
    \A w \in Passes : pass[w].pc = "found" /\ pass[w].row = None => NoRowOf(pass[w].at)

RowInv ==
    /\ OnePass
    /\ ReachInv
    /\ ImportsCarryIds
    /\ LooksOnce
    /\ OneRowPerPosition

\* The look-up finds the row of a position if there is one.
LEMMA LookUpFinds ==
    ASSUME ReachInv, ImportsCarryIds, NEW p \in Positions, FindByBrokerRef(p) = {}
    PROVE  NoRowOf(p)
<1> SUFFICES ASSUME NEW r \in RowIds, Exists(r), book[r].of = p PROVE FALSE
  BY DEF NoRowOf
<1>1. p \notin Orders /\ ~book[r].ticket
  BY DEF FindByBrokerRef, Refers
<1>2. r \in Imports
  BY <1>1 DEF RowIds, ReachInv, BookInv, RowFirst
<1>3. QED
  BY <1>1, <1>2 DEF ImportsCarryIds

\* A pass about to import has just found nothing, or was about to import before.
LEMMA AboutToImport ==
    ASSUME TypeOK, [Next]_vars, NEW w \in Passes, pass'[w].pc = "found", pass'[w].row = None
    PROVE  \/ pass[w] = pass'[w]
           \/ UNCHANGED book /\ pass'[w].at \in Positions /\ FindByBrokerRef(pass'[w].at) = {}
<1>0. /\ pass \in [Passes -> Pass] /\ None \notin RowIds
      /\ IdlePass.pc # "found"
  BY OrderBookAssumption DEF TypeOK, RowIds, IdlePass
<1>1. ASSUME NEW v \in Passes, SyncPass(v) \/ PassAbort(v)
      PROVE  \/ pass[w] = pass'[w]
             \/ UNCHANGED book /\ pass'[w].at \in Positions /\ FindByBrokerRef(pass'[w].at) = {}
  <2> DEFINE l == pass[v]
  <2>1. l \in Pass
    BY <1>0
  <2>2. ASSUME NEW k, pass' = [pass EXCEPT ![v] = k], k.pc # "found" PROVE pass[w] = pass'[w]
    <3>1. w # v
      BY <1>0, <2>2
    <3>2. QED
      BY <1>0, <2>2, <3>1
  <2>3. CASE PassSnapshot(v)
    <3>1. PICK seen \in {OpenPositions, {}} :
          pass' = [pass EXCEPT ![v] = [IdlePass EXCEPT
                         !.pc = "local", !.snap = seen,
                         !.aged = {r \in RowIds : Exists(r)} \ fresh,
                         !.blind = seen # OpenPositions]]
      BY <2>3 DEF PassSnapshot, PassGoes
    <3> DEFINE b == seen # OpenPositions
               a == {r \in RowIds : Exists(r)} \ fresh
    <3> HIDE DEF a, b
    <3>2. [IdlePass EXCEPT !.pc = "local", !.snap = seen, !.aged = a, !.blind = b].pc # "found"
      BY DEF IdlePass
    <3>3. QED
      BY <2>2, <3>1, <3>2 DEF a, b
  <2>4. CASE PassLocal(v)
    <3> DEFINE t == {r \in LiveRows : book[r].ticket}
               k == [l EXCEPT !.pc = "match", !.loc = LiveRows, !.ticketed = t, !.todo = l.snap]
    <3>1. k.pc # "found"
      BY <2>1 DEF Pass
    <3>2. pass' = [pass EXCEPT ![v] = k]
      BY <2>4 DEF PassLocal, PassGoes
    <3> HIDE DEF k
    <3>3. QED
      BY <2>2, <3>1, <3>2
  <2>5. ASSUME NEW p \in Positions, PassRefresh(v, p) PROVE pass[w] = pass'[w]
    <3>1. PICK r \in LocalMatches(v, p) :
             pass' = [pass EXCEPT ![v] = [l EXCEPT !.todo = @ \ {p}, !.matched = @ \cup {r}]]
      BY <2>5 DEF PassRefresh, PassGoes
    <3>2. [l EXCEPT !.todo = @ \ {p}, !.matched = @ \cup {r}].pc # "found"
      BY <2>1, <2>5 DEF PassRefresh, Pass
    <3>3. QED
      BY <2>2, <3>1, <3>2
  <2>6. ASSUME NEW p \in Positions, PassFind(v, p)
        PROVE  \/ pass[w] = pass'[w]
               \/ UNCHANGED book /\ pass'[w].at \in Positions /\ FindByBrokerRef(pass'[w].at) = {}
    <3>1. PICK r \in IF FindByBrokerRef(p) = {} THEN {None} ELSE FindByBrokerRef(p) :
             pass' = [pass EXCEPT ![v] = [l EXCEPT !.pc = "found", !.at = p, !.row = r,
                                                   !.todo = @ \ {p}]]
      BY <2>6 DEF PassFind, PassGoes
    <3>2. UNCHANGED book
      BY <2>6 DEF PassFind
    <3>3. CASE w # v
      BY <1>0, <3>1, <3>3
    <3>4. CASE w = v
      <4>1. pass'[w].row = r /\ pass'[w].at = p
        BY <1>0, <2>1, <3>1, <3>4 DEF Pass
      <4>2. FindByBrokerRef(p) = {}
        BY <1>0, <3>1, <4>1 DEF FindByBrokerRef
      <4>3. QED
        BY <2>6, <3>2, <4>1, <4>2
    <3>5. QED
      BY <3>3, <3>4
  <2>7. CASE PassResync(v)
    <3> DEFINE k == [l EXCEPT !.pc = "match", !.at = None, !.row = None,
                              !.matched = @ \cup {l.row}]
    <3>1. k.pc # "found" /\ pass' = [pass EXCEPT ![v] = k]
      BY <2>1, <2>7 DEF Pass, PassResync, PassGoes
    <3> HIDE DEF k
    <3>2. QED
      BY <2>2, <3>1
  <2>8. CASE PassImport(v)
    <3>1. PICK i \in Imports :
             pass' = [pass EXCEPT ![v] = [l EXCEPT !.pc = "match", !.at = None,
                                                   !.matched = @ \cup {i}]]
      BY <2>8 DEF PassImport
    <3>2. [l EXCEPT !.pc = "match", !.at = None, !.matched = @ \cup {i}].pc # "found"
      BY <2>1 DEF Pass
    <3>3. QED
      BY <2>2, <3>1, <3>2
  <2>9. CASE PassMatched(v)
    <3> DEFINE left == (l.loc \ l.matched) \cap l.aged
               gone == {r \in left : r \in l.ticketed => book[r].of \notin l.snap}
               k == [IdlePass EXCEPT !.pc = "sweep", !.suspects = gone,
                                     !.ticketed = gone \cap l.ticketed]
    <3>1. pass' = [pass EXCEPT ![v] = k]
      BY <2>9 DEF PassMatched, PassGoes
    <3> HIDE DEF gone
    <3>2. k.pc # "found"
      BY DEF IdlePass
    <3> HIDE DEF k
    <3>3. QED
      BY <2>2, <3>1, <3>2
  <2>10. ASSUME NEW r \in RowIds, PassReverify(v, r) PROVE pass[w] = pass'[w]
    <3>1. PICK seen \in {OpenPositions, {}} :
          pass' = [pass EXCEPT ![v] =
                    IF book[r].of \in seen
                      THEN [l EXCEPT !.suspects = @ \ {r}]
                      ELSE [l EXCEPT !.pc = "close", !.row = r,
                                     !.suspects = @ \ {r},
                                     !.blind = seen # OpenPositions]]
      BY <2>10 DEF PassReverify, PassGoes
    <3> DEFINE b == seen # OpenPositions
    <3> HIDE DEF b
    <3>2. [l EXCEPT !.suspects = @ \ {r}].pc # "found"
      BY <2>1, <2>10 DEF PassReverify, Pass
    <3>3. [l EXCEPT !.pc = "close", !.row = r, !.suspects = @ \ {r}, !.blind = b].pc # "found"
      BY <2>1 DEF Pass
    <3>4. QED
      BY <2>2, <3>1, <3>2, <3>3 DEF b
  <2>11. ASSUME NEW r \in RowIds, PassHistory(v, r) PROVE pass[w] = pass'[w]
    <3>1. PICK n \in {"close", "reject"} :
             pass' = [pass EXCEPT ![v] = [l EXCEPT !.pc = n, !.row = r, !.suspects = @ \ {r}]]
      BY <2>11 DEF PassHistory, PassGoes
    <3>2. [l EXCEPT !.pc = n, !.row = r, !.suspects = @ \ {r}].pc # "found"
      BY <2>1 DEF Pass
    <3>3. QED
      BY <2>2, <3>1, <3>2
  <2>12. CASE PassClose(v) \/ PassReject(v)
    <3> DEFINE k == [l EXCEPT !.pc = "sweep", !.row = None]
    <3>1. k.pc # "found" /\ pass' = [pass EXCEPT ![v] = k]
      BY <2>1, <2>12 DEF Pass, PassClose, PassReject, PassGoes
    <3> HIDE DEF k
    <3>2. QED
      BY <2>2, <3>1
  <2>13. CASE PassFinish(v) \/ PassAbort(v)
    BY <1>0, <2>2, <2>13 DEF PassFinish, PassAbort, PassGoes
  <2>14. QED
    BY <1>1, <2>3, <2>4, <2>5, <2>6, <2>7, <2>8, <2>9, <2>10, <2>11, <2>12, <2>13 DEF SyncPass
<1>2. CASE UNCHANGED pass
  BY <1>2
<1>3. CASE Restart
  BY <1>0, <1>3 DEF Restart
<1>4. QED
  BY <1>1, <1>2, <1>3
     DEF Next, vars, PlaceTool, PlaceSave, PlaceSend, PlaceTimeout, PlaceRecord, PlaceRecordLost,
         HandleOrder, CloseTool, CloseSend, CloseTimeout, CloseLookup, CloseRecord,
         CloseRecordLost, HandleClose, BrokerOpens, BrokerCloses, GraceEnds

LEMMA RowInvStep == RowInv /\ [Next]_vars => RowInv'
<1> SUFFICES ASSUME RowInv, [Next]_vars PROVE RowInv'
  OBVIOUS
<1>0. /\ OnePass /\ ReachInv /\ BookInv /\ TypeOK /\ ImportsCarryIds /\ LooksOnce
      /\ OneRowPerPosition /\ OnePass' /\ RowFirst /\ OwnOrdersNeverImported
      /\ Orders \subseteq RowIds /\ Imports \subseteq RowIds
      /\ Orders \cap Imports = {} /\ Orders \cap Manual = {}
  BY OrderBookAssumption DEF RowInv, ReachInv, BookInv, RowIds, OnePass
<1>1. ReachInv'
  BY <1>0, ReachInvInductive
<1>2. CASE UNCHANGED book
  <2>1. ImportsCarryIds' /\ OneRowPerPosition'
    BY <1>0, <1>2 DEF ImportsCarryIds, OneRowPerPosition, Exists
  <2>2. ASSUME NEW w \in Passes, pass'[w].pc = "found", pass'[w].row = None
        PROVE  NoRowOf(pass'[w].at)
    BY <1>0, <2>2, AboutToImport, LookUpFinds DEF LooksOnce
  <2>3. LooksOnce'
    BY <1>2, <2>2 DEF LooksOnce, NoRowOf, Exists
  <2>4. QED
    BY <1>0, <1>1, <2>1, <2>3 DEF RowInv
\* A step that writes the book decides nothing: a pass about to import already was.
<1>3. ASSUME ~UNCHANGED book, NEW w \in Passes, pass'[w].pc = "found", pass'[w].row = None
      PROVE  pass'[w] = pass[w] /\ NoRowOf(pass'[w].at) /\ pass'[w].at \in Manual
  <2>1. pass'[w] = pass[w]
    BY <1>0, <1>3, AboutToImport
  <2>2. QED
    BY <1>0, <1>3, <2>1 DEF LooksOnce, BookInv, SafeLocals
<1>4. CASE RowWritten /\ ~UNCHANGED book
  <2>1. PICK r \in RowIds, s \in Status \ {"ABSENT"}, t \in BOOLEAN : Written(r, s, t)
    BY <1>4 DEF RowWritten
  <2>2. SameRows
    BY <1>0, <2>1, WriteKeepsRows DEF Written
  <2>3. OneRowPerPosition'
    BY <1>0, <2>2 DEF SameRows, OneRowPerPosition
  <2>4. \A q \in RowIds : book[q].ticket => book'[q].ticket
    BY <1>0, <2>1 DEF Written, WriteRow, TypeOK
  <2>5. ImportsCarryIds'
    BY <1>0, <2>2, <2>4 DEF ImportsCarryIds, SameRows
  <2>6. LooksOnce'
    BY <1>3, <1>4, <2>2 DEF LooksOnce, NoRowOf, SameRows
  <2>7. QED
    BY <1>0, <1>1, <2>3, <2>5, <2>6 DEF RowInv
<1>5. CASE RowRequested /\ ~UNCHANGED book
  <2>1. PICK o \in Orders :
           /\ placing[o] = "idle"
           /\ book' = [book EXCEPT ![o] = [of |-> o, status |-> "PENDING", ticket |-> FALSE]]
    BY <1>5 DEF RowRequested
  <2>2. \A r \in RowIds : book'[r] = IF r = o THEN [of |-> o, status |-> "PENDING",
                                                    ticket |-> FALSE]
                                     ELSE book[r]
    BY <1>0, <2>1 DEF TypeOK
  <2>3. \A r \in RowIds \ {o} : Exists(r) => book[r].of # o
    BY <1>0 DEF RowFirst, OwnOrdersNeverImported, RowIds
  <2>4. OneRowPerPosition'
    BY <1>0, <2>2, <2>3 DEF OneRowPerPosition, Exists
  <2>5. ImportsCarryIds'
    BY <1>0, <2>2 DEF ImportsCarryIds, Exists
  <2>6. LooksOnce'
    BY <1>0, <1>3, <1>5, <2>2 DEF LooksOnce, NoRowOf, Exists
  <2>7. QED
    BY <1>0, <1>1, <2>4, <2>5, <2>6 DEF RowInv
<1>6. ASSUME NEW w \in Passes, RowImported(w) PROVE RowInv'
  <2>1. PICK i \in Imports :
           book' = [book EXCEPT ![i] = [of |-> pass[w].at, status |-> "OPEN", ticket |-> TRUE]]
    BY <1>6 DEF RowImported
  <2>2. \A r \in RowIds : book'[r] = IF r = i THEN [of |-> pass[w].at, status |-> "OPEN",
                                                    ticket |-> TRUE]
                                     ELSE book[r]
    BY <1>0, <2>1 DEF TypeOK
  <2>3. NoRowOf(pass[w].at) /\ pass'[w].pc = "match"
    BY <1>0, <1>6 DEF RowImported, LooksOnce
  <2>4. OneRowPerPosition'
    BY <1>0, <2>2, <2>3 DEF OneRowPerPosition, NoRowOf, Exists
  <2>5. ImportsCarryIds'
    BY <1>0, <2>2 DEF ImportsCarryIds, Exists
  <2>6. LooksOnce'
    BY <1>0, <2>3 DEF LooksOnce, OnePass
  <2>7. QED
    BY <1>0, <1>1, <2>4, <2>5, <2>6 DEF RowInv
<1>7. QED
  BY <1>0, <1>2, <1>4, <1>5, <1>6, NextBookSteps DEF BookSteps

\* "The same broker position can never legitimately correspond to two order_book_entries
\* rows": true for any number of orders, manual positions, failures and restarts, as long
\* as passes do not overlap.
THEOREM OneRowOfOnePass == OnePass /\ Spec => []OneRowPerPosition
<1>1. OnePass /\ Init => RowInv
  <2> SUFFICES ASSUME OnePass, Init PROVE RowInv
    OBVIOUS
  <2>1. \A r \in RowIds : ~Exists(r)
    BY DEF Init, Exists
  <2>2. \A w \in Passes : pass[w].pc = "idle"
    BY DEF Init, IdlePass
  <2>3. \A i \in Imports : i \in RowIds
    BY DEF RowIds
  <2>4. QED
    BY <2>1, <2>2, <2>3, InitReached
       DEF RowInv, ImportsCarryIds, LooksOnce, OneRowPerPosition
<1>2. RowInv => OneRowPerPosition
  BY DEF RowInv
<1>3. QED
  BY <1>1, <1>2, RowInvStep, PTL DEF Spec

-----------------------------------------------------------------------------
(* The order book implements PositionLedger.                               *)
(*                                                                         *)
(* A step writes one row, so it moves the record of one position, or the   *)
(* broker moves one position; the rest of this section finds the step of   *)
(* PositionLedger that it is.                                              *)

\* The records a position may have, by its rows.
RecordFacts(p) ==
    LET has(s) == \E r \in RowIds : Exists(r) /\ book[r].of = p /\ book[r].status = s IN
    /\ RecordOf(p) \in {"unknown", "requested", "live", "ended"}
    /\ RecordOf(p) = "unknown" <=> NoRowOf(p)
    /\ RecordOf(p) = "live" <=> has("OPEN")
    /\ RecordOf(p) = "requested" <=> has("PENDING") /\ ~has("OPEN")

LEMMA RecordIs == ASSUME NEW p PROVE RecordFacts(p) /\ RecordFacts(p)'
<1>1. RecordFacts(p)
  <2>1. RowsOf(p) = {} <=> NoRowOf(p)
    BY DEF RowsOf, NoRowOf
  <2>2. ASSUME NEW s PROVE (\E r \in RowsOf(p) : book[r].status = s) <=>
             \E r \in RowIds : Exists(r) /\ book[r].of = p /\ book[r].status = s
    BY DEF RowsOf
  <2>3. QED
    BY <2>1, <2>2 DEF RecordFacts, RecordOf, RowsOf, NoRowOf
<1>2. RecordFacts(p)'
  <2>1. RowsOf(p)' = {} <=> NoRowOf(p)'
    BY DEF RowsOf, NoRowOf
  <2>2. ASSUME NEW s PROVE (\E r \in RowsOf(p)' : book'[r].status = s) <=>
             \E r \in RowIds : Exists(r)' /\ book'[r].of = p /\ book'[r].status = s
    BY DEF RowsOf
  <2>3. QED
    BY <2>1, <2>2 DEF RecordFacts, RecordOf, RowsOf, NoRowOf
<1>3. QED
  BY <1>1, <1>2

\* What the broker may do in one step, and to what.
BrokerMoved(p) ==
    \/ /\ broker[p] \in {"none", "inflight", "resting"}
       /\ p \in Orders => placing[p] # "idle"
       /\ \E s \in IF broker[p] = "none" THEN {"inflight", "resting", "open"} ELSE {"open"} :
             broker' = [broker EXCEPT ![p] = s]
    \/ broker[p] = "open" /\ broker' = [broker EXCEPT ![p] = "closed"]

LEMMA NextMovesOne ==
    ReachInv /\ [Next]_vars => UNCHANGED broker \/ \E p \in Positions : BrokerMoved(p)
<1> SUFFICES ASSUME ReachInv, [Next]_vars
             PROVE  UNCHANGED broker \/ \E p \in Positions : BrokerMoved(p)
  OBVIOUS
<1>0. RowFirst /\ AskedOnce /\ Orders \subseteq Positions /\ Manual \cap Orders = {}
  BY OrderBookAssumption DEF ReachInv, BookInv, Positions
<1>1. ASSUME NEW o \in Orders, HandleOrder(o)
      PROVE  UNCHANGED broker \/ \E p \in Positions : BrokerMoved(p)
  <2>1. broker[o] = "none" /\ placing[o] # "idle"
    BY <1>0, <1>1 DEF HandleOrder, AskedOnce, Asking, RowFirst
  <2>2. UNCHANGED broker \/ \E s \in {"inflight", "resting", "open"} : broker' = [broker EXCEPT ![o] = s]
    BY <1>1 DEF HandleOrder
  <2>3. QED
    BY <1>0, <2>1, <2>2 DEF BrokerMoved
<1>2. ASSUME NEW p \in Positions, HandleClose(p) \/ BrokerCloses(p)
      PROVE  UNCHANGED broker \/ BrokerMoved(p)
  BY <1>2 DEF HandleClose, BrokerCloses, BrokerMoved
<1>3. ASSUME NEW p \in Positions, BrokerOpens(p) PROVE BrokerMoved(p)
  BY <1>0, <1>3 DEF BrokerOpens, BrokerMoved, RowFirst
<1>4. ASSUME NEW w \in Passes, SyncPass(w) \/ PassAbort(w) PROVE UNCHANGED broker
  BY <1>4 DEF SyncPass, PassAbort, PassSnapshot, PassLocal, PassRefresh, PassFind, PassResync,
              PassImport, PassMatched, PassReverify, PassHistory, PassClose, PassReject,
              PassFinish, PassGoes
<1>5. ASSUME NEW o \in Orders, PlaceTool(o) PROVE UNCHANGED broker
  BY <1>5 DEF PlaceTool, PlaceSave, PlaceSend, PlaceTimeout, PlaceRecord, PlaceRecordLost
<1>6. ASSUME NEW p \in Positions, CloseTool(p) PROVE UNCHANGED broker
  BY <1>6 DEF CloseTool, CloseSend, CloseTimeout, CloseLookup, CloseRecord, CloseRecordLost
<1>7. QED
  BY <1>1, <1>2, <1>3, <1>4, <1>5, <1>6 DEF Next, vars, GraceEnds, Restart

LEMMA LedgerStarts == Init => Ledger!Init
<1> SUFFICES ASSUME Init PROVE Ledger!Init
  OBVIOUS
<1>1. \A p \in Positions : ActualOf(p) = "none"
  BY DEF Init, ActualOf
<1>2. \A p \in Positions : RecordOf(p) = "unknown"
  BY RecordIs DEF RecordFacts, Init, Exists, NoRowOf
<1>3. QED
  BY <1>1, <1>2 DEF Ledger!Init, Ledger!Positions, Positions

LEMMA LedgerSteps == ReachInv /\ [Next]_vars => [Ledger!Next]_(Ledger!ledger)
<1> SUFFICES ASSUME ReachInv, [Next]_vars PROVE [Ledger!Next]_(Ledger!ledger)
  OBVIOUS
<1> DEFINE actual == [p \in Positions |-> ActualOf(p)]
           record == [p \in Positions |-> RecordOf(p)]
<1>0. /\ TypeOK /\ RowFirst /\ OwnOrdersNeverImported /\ RowsReached
      /\ Orders \subseteq Positions /\ Orders \subseteq RowIds /\ Orders \cap Manual = {}
      /\ Imports \subseteq RowIds /\ Orders \cap Imports = {}
      /\ broker \in [Positions -> BrokerState]
  BY OrderBookAssumption DEF ReachInv, BookInv, TypeOK, Positions, RowIds
<1>1. ASSUME UNCHANGED broker PROVE actual' = actual
  BY <1>1 DEF ActualOf
<1>2. ASSUME UNCHANGED book PROVE record' = record
  BY <1>2 DEF RecordOf, RowsOf, Exists
\* The record of one position moves.
<1>3. ASSUME NEW p \in Positions, UNCHANGED broker,
             \A q \in Positions \ {p} : RecordOf(q)' = RecordOf(q),
             \/ p \in Orders /\ RecordOf(p) = "unknown" /\ RecordOf(p)' = "requested"
             \/ Reached(p) /\ RecordOf(p)' \in {"requested", "live"}
             \/ RecordOf(p) \in {"requested", "live"} /\ RecordOf(p)' = "ended"
             \/ RecordOf(p)' = RecordOf(p)
      PROVE  [Ledger!Next]_(Ledger!ledger)
  <2>1. actual' = actual /\ record' = [record EXCEPT ![p] = RecordOf(p)']
    BY <1>1, <1>3
  <2>2. Reached(p) => actual[p] # "none"
    BY DEF Reached, ActualOf
  <2>3. record[p] = RecordOf(p) /\ p \in Ledger!Positions
    BY DEF Ledger!Positions, Positions
  <2>4. CASE RecordOf(p)' = RecordOf(p)
    <3>1. record' = record
      BY <2>1, <2>3, <2>4
    <3>2. QED
      BY <2>1, <3>1 DEF Ledger!ledger
  <2>5. CASE p \in Orders /\ RecordOf(p) = "unknown" /\ RecordOf(p)' = "requested"
    <3>1. Ledger!Request(p)
      BY <2>1, <2>3, <2>5 DEF Ledger!Request
    <3>2. QED
      BY <2>5, <3>1 DEF Ledger!Next
  <2>6. CASE Reached(p) /\ RecordOf(p)' \in {"requested", "live"}
    <3>1. Ledger!Confirm(p)
      BY <2>1, <2>2, <2>3, <2>6 DEF Ledger!Confirm
    <3>2. QED
      BY <2>3, <3>1 DEF Ledger!Next
  <2>7. CASE RecordOf(p) \in {"requested", "live"} /\ RecordOf(p)' = "ended"
    <3>1. Ledger!End(p)
      BY <2>1, <2>3, <2>7 DEF Ledger!End
    <3>2. QED
      BY <2>3, <3>1 DEF Ledger!Next
  <2>8. QED
    BY <1>3, <2>4, <2>5, <2>6, <2>7
\* The broker moves one.
<1>4. ASSUME UNCHANGED book, NEW p \in Positions, BrokerMoved(p)
      PROVE  [Ledger!Next]_(Ledger!ledger)
  <2>1. record' = record /\ p \in Ledger!Positions
    BY <1>2, <1>4 DEF Ledger!Positions, Positions
  <2>2. PICK s \in BrokerState : broker' = [broker EXCEPT ![p] = s]
    BY <1>4 DEF BrokerMoved, BrokerState
  <2>3. actual' = [actual EXCEPT ![p] = ActualOf(p)']
    BY <1>0, <2>2 DEF ActualOf
  <2>4. broker'[p] = s
    BY <1>0, <2>2
  <2>5. CASE broker[p] = "open" /\ broker' = [broker EXCEPT ![p] = "closed"]
    <3>1. broker'[p] = "closed"
      BY <1>0, <2>5
    <3>2. actual[p] = "open" /\ ActualOf(p)' = "closed"
      BY <2>5, <3>1 DEF ActualOf
    <3>3. Ledger!Close(p)
      BY <2>1, <2>3, <3>2 DEF Ledger!Close
    <3>4. QED
      BY <2>1, <3>3 DEF Ledger!Next
  <2>6. CASE /\ broker[p] \in {"none", "inflight", "resting"}
             /\ p \in Orders => placing[p] # "idle"
             /\ \E t \in IF broker[p] = "none" THEN {"inflight", "resting", "open"}
                         ELSE {"open"} : broker' = [broker EXCEPT ![p] = t]
    <3>1. p \in Orders => record[p] # "unknown"
      <4> SUFFICES ASSUME p \in Orders PROVE RecordOf(p) # "unknown"
        OBVIOUS
      <4>1. p \in RowIds /\ Exists(p) /\ book[p].of = p
        BY <1>0, <2>6 DEF RowFirst
      <4>2. ~NoRowOf(p)
        BY <4>1 DEF NoRowOf
      <4>3. QED
        BY <4>2, RecordIs DEF RecordFacts
    <3>2. /\ broker'[p] \in {"inflight", "resting", "open"}
          /\ broker[p] # "none" => broker'[p] = "open"
      BY <1>0, <2>6
    <3>3. CASE broker'[p] = "inflight"
      <4>1. ActualOf(p)' = ActualOf(p)
        BY <2>6, <3>2, <3>3 DEF ActualOf
      <4>2. actual' = actual
        BY <2>3, <4>1
      <4>3. QED
        BY <2>1, <4>2 DEF Ledger!ledger
    <3>4. CASE broker'[p] # "inflight"
      <4>1. /\ actual[p] \in {"none", "working"}
            /\ ActualOf(p)' \in {"working", "open"}
            /\ actual[p] # "none" => ActualOf(p)' = "open"
        BY <2>6, <3>2, <3>4 DEF ActualOf
      <4>2. Ledger!Open(p)
        BY <2>1, <2>3, <3>1, <4>1 DEF Ledger!Open
      <4>3. QED
        BY <2>1, <4>2 DEF Ledger!Next
    <3>5. QED
      BY <3>3, <3>4
  <2>7. QED
    BY <1>4, <2>5, <2>6 DEF BrokerMoved
<1>5. ASSUME UNCHANGED broker, RowWritten PROVE [Ledger!Next]_(Ledger!ledger)
  <2>1. PICK r \in RowIds, s \in Status \ {"ABSENT"}, t \in BOOLEAN : Written(r, s, t)
    BY <1>5 DEF RowWritten
  <2>2. PICK p \in Positions : p = book[r].of
    BY <1>0, <2>1 DEF Written, RowsReached
  <2>3. \A q \in RowIds : book'[q] = IF q = r THEN [of |-> p, status |-> s, ticket |-> t]
                                     ELSE book[q]
    BY <1>0, <2>1, <2>2 DEF Written, WriteRow, TypeOK
  <2>4. \A q \in RowIds : Exists(q)' = Exists(q) /\ book'[q].of = book[q].of
    BY <1>0, <2>1, <2>2, WriteKeepsRows DEF Written, SameRows
  <2>5. ASSUME NEW q \in Positions \ {p} PROVE RecordOf(q)' = RecordOf(q)
    <3>1. \A x \in RowIds : book[x].of = q => book'[x] = book[x]
      BY <2>2, <2>3
    <3>2. QED
      BY <2>4, <3>1, RecordIs DEF RecordFacts, NoRowOf
  <2>6. Exists(r) /\ Exists(r)' /\ book'[r].of = p /\ book'[r].status = s
    BY <2>1, <2>3, <2>4 DEF Written
  <2>7. RecordOf(p) # "unknown" /\ RecordOf(p)' # "unknown"
    BY <2>2, <2>6, RecordIs DEF RecordFacts, NoRowOf
  <2>8. s \in {"OPEN", "PENDING"} => Reached(p) /\ RecordOf(p)' \in {"requested", "live"}
    BY <2>1, <2>2, <2>6, RecordIs DEF RecordFacts, Written
  <2>9. ASSUME s \notin {"OPEN", "PENDING"}, RecordOf(p)' = "live" PROVE RecordOf(p) = "live"
    <3>1. PICK x \in RowIds : Exists(x)' /\ book'[x].of = p /\ book'[x].status = "OPEN"
      BY <2>9, RecordIs DEF RecordFacts
    <3>2. x # r
      BY <2>6, <2>9, <3>1
    <3>3. QED
      BY <2>3, <2>4, <3>1, <3>2, RecordIs DEF RecordFacts
  <2>10. ASSUME s \notin {"OPEN", "PENDING"}, RecordOf(p)' = "requested"
         PROVE  RecordOf(p) \in {"requested", "live"}
    <3>1. PICK x \in RowIds : Exists(x)' /\ book'[x].of = p /\ book'[x].status = "PENDING"
      BY <2>10, RecordIs DEF RecordFacts
    <3>2. x # r
      BY <2>6, <2>10, <3>1
    <3>3. QED
      BY <2>3, <2>4, <3>1, <3>2, RecordIs DEF RecordFacts
  <2>11. RecordOf(p) = "live" => Reached(p)
    BY <1>0, RecordIs DEF RecordFacts, RowsReached
  <2>12. /\ RecordOf(p) \in {"requested", "live", "ended"}
         /\ RecordOf(p)' \in {"requested", "live", "ended"}
    BY <2>7, RecordIs DEF RecordFacts
  <2>13. QED
    BY <1>3, <1>5, <2>5, <2>8, <2>9, <2>10, <2>11, <2>12
<1>6. ASSUME UNCHANGED broker, RowRequested PROVE [Ledger!Next]_(Ledger!ledger)
  <2>1. PICK o \in Orders :
           /\ placing[o] = "idle"
           /\ book' = [book EXCEPT ![o] = [of |-> o, status |-> "PENDING", ticket |-> FALSE]]
    BY <1>6 DEF RowRequested
  <2>2. \A r \in RowIds : book'[r] = IF r = o THEN [of |-> o, status |-> "PENDING",
                                                    ticket |-> FALSE]
                                     ELSE book[r]
    BY <1>0, <2>1 DEF TypeOK
  <2>3. NoRowOf(o) /\ ~Exists(o)
    BY <1>0, <2>1 DEF RowFirst, OwnOrdersNeverImported, RowIds, NoRowOf
  <2>4. RecordOf(o) = "unknown" /\ RecordOf(o)' = "requested"
    BY <1>0, <2>2, <2>3, RecordIs DEF RecordFacts, NoRowOf, Exists
  <2>5. ASSUME NEW q \in Positions \ {o} PROVE RecordOf(q)' = RecordOf(q)
    BY <2>2, <2>3, RecordIs DEF RecordFacts, NoRowOf, Exists
  <2>6. QED
    BY <1>0, <1>3, <1>6, <2>4, <2>5
<1>7. ASSUME UNCHANGED broker, NEW w \in Passes, RowImported(w)
      PROVE  [Ledger!Next]_(Ledger!ledger)
  <2>1. PICK i \in Imports :
           /\ ~Exists(i)
           /\ book' = [book EXCEPT ![i] = [of |-> pass[w].at, status |-> "OPEN",
                                           ticket |-> TRUE]]
    BY <1>7 DEF RowImported
  <2>2. PICK p \in Positions : p = pass[w].at /\ Reached(p)
    BY <1>7 DEF RowImported, ReachInv, SawReached
  <2>3. \A r \in RowIds : book'[r] = IF r = i THEN [of |-> p, status |-> "OPEN",
                                                    ticket |-> TRUE]
                                     ELSE book[r]
    BY <1>0, <2>1, <2>2 DEF TypeOK
  <2>4. RecordOf(p)' = "live"
    BY <1>0, <2>3, RecordIs DEF RecordFacts, Exists
  <2>5. ASSUME NEW q \in Positions \ {p} PROVE RecordOf(q)' = RecordOf(q)
    BY <2>1, <2>3, RecordIs DEF RecordFacts, NoRowOf, Exists
  <2>6. QED
    BY <1>3, <1>7, <2>2, <2>4, <2>5
<1>8. CASE UNCHANGED <<book, broker>>
  BY <1>1, <1>2, <1>8 DEF Ledger!ledger
<1>9. QED
  BY <1>4, <1>5, <1>6, <1>7, <1>8, NextBookSteps, NextMovesOne DEF BookSteps

\* The order book implements PositionLedger: however tools, passes, failures and restarts
\* interleave, a record comes before the order it is of, and says "live" only of what the
\* broker accepted.
THEOREM LedgerIsKept == Spec => KeepsLedger
<1>1. Spec => Ledger!Spec
  BY LedgerStarts, LedgerSteps, InitReached, ReachInvInductive, PTL DEF Spec, Ledger!Spec
<1>2. QED
  BY <1>1 DEF KeepsLedger
=============================================================================
