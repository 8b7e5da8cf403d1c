---------------------------- MODULE PositionTerms ----------------------------
(***************************************************************************)
(* How much of one position is left, and its stop-loss and take-profit: at *)
(* the venue, and in the position's entry of the order book.  The tools    *)
(* close_position (also of a part) and modify_order change the venue first *)
(* and the entry later, the reconciliation pass and the order book view of *)
(* the API refresh the entry from what they have read, and somebody works  *)
(* on the account by hand.  OrderBook is about which rows exist and how    *)
(* they end; here there is one position and one entry.                     *)
(***************************************************************************)
EXTENDS Naturals

CONSTANTS
    Size,         \* units of the order that opened the position
    Lot,          \* units of a hundredth of a lot: the venue deals in nothing smaller
    Amounts,      \* units that close_position is asked for
    Limits,       \* stop_loss, take_profit
    Prices,       \* prices of the limits
    MaxTermCalls, \* bound: calls of the two tools
    MaxTroubles   \* bound: lost writes, failed sends, changes by hand, restarts together

\* No such limit, or none given; as units to close: all.
Unset == 0

ASSUME PositionTermsAssumption ==
    /\ Size \in Nat \ {0} /\ Lot \in Nat \ 0..2 /\ Amounts \subseteq Nat
    /\ Prices \subseteq Nat \ {Unset}
    /\ MaxTermCalls \in Nat /\ MaxTroubles \in Nat

VARIABLES
    venue,      \* the position at the broker; gone when no units are left
    entry,      \* its order_book_entries row
    wish,       \* what each call asks for
    progress,   \* how far each call is
    read,       \* the units of the entry that a call has read
    asking,     \* calls whose request the adapter has not taken
    desk,       \* the call the adapter works on, with the position it has read
    sync,       \* the pass: what it has read, if it runs
    view,       \* the order book view of the API: what it has read, if it runs
    settled,    \* history: no limit has moved since a pass that read the venue at rest
    misled,     \* history: the view has written units that a call yet subtracts from
    overlooked, \* history: reads that failed have ended the entry, and none has found the
                \* position since
    rounding,   \* history: units by which the volumes sent and the volumes read fell short of
                \* the units written
    troubles    \* so far

callVars == <<wish, progress, read, asking, desk>>
readerVars == <<sync, view>>
pastVars == <<settled, misled, overlooked, rounding>>
termVars == <<venue, entry, callVars, readerVars, pastVars, troubles>>

\* Calls are numbered in the order they are made in.
TermCalls == 1..MaxTermCalls
Units == 0..(Size + Lot)
Lots == {u \in Units : u % Lot = 0}
LimitSet == [Limits -> Prices \cup {Unset}]
Terms == [units: Units, limits: LimitSet]
Idle == [at |-> "rest"]

Closing == [op: {"close"}, units: Amounts]
Modifying == [op: {"modify"}, limits: {f \in LimitSet : \E l \in Limits : f[l] # Unset}]
NoWish == [op |-> "none"]
CallStages == {"idle", "asked", "closed", "reduced", "closing", "reducing", "modified", "done"}

TermsTypeOK ==
    /\ venue \in Terms
    /\ entry \in [open: BOOLEAN, confirmed: BOOLEAN, units: Units, limits: LimitSet]
    /\ wish \in [TermCalls -> Closing \cup Modifying \cup {NoWish}]
    /\ progress \in [TermCalls -> CallStages]
    /\ read \in [TermCalls -> Units]
    /\ asking \in SUBSET TermCalls
    /\ desk \in [call: TermCalls, seen: Terms, counted: Units] \cup {Idle}
    /\ sync \in [there: BOOLEAN, limits: LimitSet, steady: BOOLEAN] \cup {Idle}
    /\ view \in [open: BOOLEAN, seen: Terms] \cup {Idle}
    /\ settled \in BOOLEAN /\ misled \in BOOLEAN /\ overlooked \in BOOLEAN /\ rounding \in Nat
    /\ troubles \in 0..MaxTroubles

\* A volume is sent in hundredths of a lot: the nearest, and either one half way, as the
\* division is one of floats.
Rounded(units) == {v \in Lots : 2 * v <= 2 * units + Lot /\ 2 * units <= 2 * v + Lot}

\* A volume is read as whole units, and the float may be just below.
Readings(units) == IF units = 0 THEN {0} ELSE {units, units - 1}

\* How many units of the first number the second is short of.
Short(units, volume) == IF units > volume THEN units - volume ELSE 0

\* An order was placed and filled: the venue has its volume, the entry its units.
TermsInit ==
    /\ \E limits \in LimitSet, volume \in Rounded(Size) \ {0} :
          /\ venue = [units |-> volume, limits |-> limits]
          /\ rounding = Short(volume, Size)
          /\ entry = [open |-> TRUE, confirmed |-> FALSE, units |-> Size, limits |-> limits]
    /\ wish = [k \in TermCalls |-> NoWish] /\ progress = [k \in TermCalls |-> "idle"]
    /\ read = [k \in TermCalls |-> 0]
    /\ asking = {} /\ desk = Idle /\ sync = Idle /\ view = Idle
    /\ settled = FALSE /\ misled = FALSE /\ overlooked = FALSE /\ troubles = 0

-----------------------------------------------------------------------------
(* Helpers.                                                                *)

Trouble == troubles < MaxTroubles /\ troubles' = troubles + 1

Goes(k, from, to) == progress[k] = from /\ progress' = [progress EXCEPT ![k] = to]

\* The call is over, and so is its request.
Forgets(k) == wish' = [wish EXCEPT ![k] = NoWish]
Ends(k, from) == Goes(k, from, "done") /\ Forgets(k)

\* Limits that are not given, or not reported, stay as they are.
Given(limits, old) == [l \in Limits |-> IF limits[l] = Unset THEN old[l] ELSE limits[l]]

\* What is left of the position; a position that is gone has no limits.
Left(units) ==
    [units |-> units, limits |-> IF units = 0 THEN [l \in Limits |-> Unset] ELSE venue.limits]

\* What the position is from now on, and whether its limits or those of the entry moved.
TermsMove(terms, written) ==
    /\ venue' = terms
    /\ LET moved == terms.limits # venue.limits \/ written.limits # entry.limits
       IN  /\ settled' = (settled /\ ~moved)
           /\ sync' = IF sync # Idle /\ moved THEN [sync EXCEPT !.steady = FALSE] ELSE sync
    /\ entry' = written
    /\ UNCHANGED <<view, misled, overlooked, rounding>>

-----------------------------------------------------------------------------
(* The tools.                                                              *)

\* close_position and modify_order send their request.  modify_order has looked for an open
\* entry before; without one its request is not valid.
AskFor(k, w) ==
    /\ \A earlier \in 1..(k - 1) : progress[earlier] # "idle"
    /\ w.op = "modify" => entry.open
    /\ Goes(k, "idle", "asked")
    /\ wish' = [wish EXCEPT ![k] = w]
    /\ asking' = asking \cup {k}
    /\ UNCHANGED <<venue, entry, read, desk, readerVars, pastVars, troubles>>

\* After 30 or 20 s the tool gives up; the request stays.
CallTimesOut(k) ==
    /\ Goes(k, "asked", "done")
    /\ UNCHANGED <<venue, entry, wish, read, asking, desk, readerVars, pastVars, troubles>>

\* After the deal, close_position reads the open entries.
FindEntry(k) ==
    /\ \/ ~entry.open /\ \E from \in {"closed", "reduced"} : Ends(k, from)
       \/ entry.open /\ Goes(k, "closed", "closing") /\ UNCHANGED wish
       \/ entry.open /\ Goes(k, "reduced", "reducing") /\ UNCHANGED wish
    /\ read' = [read EXCEPT ![k] = IF progress'[k] = "reducing" THEN entry.units ELSE 0]
    /\ UNCHANGED <<venue, entry, asking, desk, readerVars, pastVars, troubles>>

\* It ends the entry, or writes what is left of the units it has read.
Remaining(k) == IF read[k] > wish[k].units THEN read[k] - wish[k].units ELSE 0
RecordClose(k) ==
    /\ \/ /\ Ends(k, "closing")
          /\ entry' = [entry EXCEPT !.open = FALSE, !.confirmed = TRUE]
       \/ /\ Ends(k, "reducing")
          /\ entry' = [entry EXCEPT !.units = Remaining(k), !.confirmed = FALSE]
    /\ read' = [read EXCEPT ![k] = 0]
    /\ UNCHANGED <<venue, asking, desk, readerVars, pastVars, troubles>>

\* modify_order writes the limits it was given.
RecordLimits(k) ==
    /\ Ends(k, "modified")
    /\ TermsMove(venue, [entry EXCEPT !.limits = Given(wish[k].limits, @)])
    /\ UNCHANGED <<read, asking, desk, troubles>>

\* The write of a tool is lost, or the cycle it runs in is cancelled.
RecordLost(k) ==
    /\ Trouble
    /\ \E from \in {"closed", "reduced", "closing", "reducing", "modified"} : Ends(k, from)
    /\ read' = [read EXCEPT ![k] = 0]
    /\ UNCHANGED <<venue, entry, asking, desk, readerVars, pastVars>>

-----------------------------------------------------------------------------
(* The adapter and the venue.                                              *)

\* The adapter takes one request after the other, and reads the position; it refuses to
\* close more than it counts.
TakeRequest(k) ==
    /\ desk = Idle /\ k \in asking
    /\ asking' = asking \ {k}
    /\ \E n \in Readings(venue.units) :
       IF n > 0 /\ (wish[k].op = "close" => wish[k].units <= n)
       THEN /\ desk' = [call |-> k, seen |-> venue, counted |-> n]
            /\ UNCHANGED <<wish, progress>>
       ELSE /\ progress' = [progress EXCEPT ![k] = "done"] /\ Forgets(k)
            /\ UNCHANGED desk
    /\ UNCHANGED <<venue, entry, read, readerVars, pastVars, troubles>>

\* The units to close: those of the request, or all it has counted.
Asked == LET w == wish[desk.call] IN IF w.units = Unset THEN desk.counted ELSE w.units

\* The volume it sends.  All that was counted rounds back to the lots it was counted from.
Volumes == IF Asked = desk.counted THEN {desk.seen.units} ELSE Rounded(Asked)

\* Mutant: a rejection by the venue counts as a deal.
AnswerAnyway(dealt) ==
    IF wish[desk.call].op = "modify" THEN "modified"
    ELSE IF Asked = desk.counted THEN "closed" ELSE "reduced"

\* Rejected calls and failed ones write nothing.
AnswerOf(dealt) ==
    IF ~dealt THEN "done"
    ELSE IF wish[desk.call].op = "modify" THEN "modified"
    ELSE IF Asked = desk.counted THEN "closed" ELSE "reduced"

\* The answer, or the failure, reaches a tool that still waits.
Replies(stage) ==
    /\ progress' = IF progress[desk.call] = "asked"
                      THEN [progress EXCEPT ![desk.call] = stage] ELSE progress
    /\ IF progress'[desk.call] = "done" THEN Forgets(desk.call) ELSE UNCHANGED wish
    /\ desk' = Idle

\* order_send of a deal: the venue executes it if the volume is not nothing and there is as
\* much.  A call that is told so will subtract the units asked for, whatever was dealt.
SendClose ==
    /\ desk # Idle /\ wish[desk.call].op = "close"
    /\ \E volume \in Volumes :
          IF volume \in 1..venue.units
          THEN /\ venue' = Left(venue.units - volume) /\ Replies(AnswerOf(TRUE))
               /\ rounding' = rounding + IF progress'[desk.call] = "reduced"
                                            THEN Short(Asked, volume) ELSE 0
          ELSE /\ Replies(AnswerOf(FALSE))
               /\ UNCHANGED <<venue, rounding>>
    /\ UNCHANGED <<entry, read, asking, readerVars, settled, misled, overlooked>>
    /\ UNCHANGED troubles

\* order_send of new limits: the one that is not given is sent as it was read.
SendLimits ==
    /\ desk # Idle /\ wish[desk.call].op = "modify"
    /\ IF venue.units > 0
       THEN /\ TermsMove([venue EXCEPT !.limits = Given(wish[desk.call].limits, desk.seen.limits)],
                         entry)
            /\ Replies(AnswerOf(TRUE))
       ELSE /\ UNCHANGED <<venue, entry, readerVars, pastVars>>
            /\ Replies(AnswerOf(FALSE))
    /\ UNCHANGED <<read, asking, troubles>>

\* order_send returns nothing, or tells of a partial execution, which counts as a rejection:
\* the venue has executed the deal, a part of it or nothing, and the call ends.
SendFails ==
    /\ Trouble
    /\ desk # Idle
    /\ \/ UNCHANGED venue
       \/ /\ wish[desk.call].op = "close"
          /\ \E volume \in Volumes : \E part \in Lots \cap 1..volume :
                volume <= venue.units /\ venue' = Left(venue.units - part)
    /\ Replies("done")
    /\ UNCHANGED <<entry, read, asking, readerVars, pastVars>>

\* The position is reduced or closed by hand, or by one of its limits.
HandCloses(units) ==
    /\ Trouble
    /\ units < venue.units
    /\ venue' = Left(units)
    /\ UNCHANGED <<entry, callVars, readerVars, pastVars>>

\* Its limits are moved or removed by hand.
HandMoves(limits) ==
    /\ Trouble
    /\ venue.units > 0 /\ limits # venue.limits
    /\ TermsMove([venue EXCEPT !.limits = limits], entry)
    /\ UNCHANGED callVars

-----------------------------------------------------------------------------
(* The readers.                                                            *)

\* _sync_pair reads the position.  It finds the venue at rest if no new limit is still to be
\* written to the entry.  A read that failed looks like an account without positions.
SyncReads ==
    /\ sync = Idle
    /\ \E there \in {venue.units > 0, FALSE} :
          /\ IF there = (venue.units > 0) THEN UNCHANGED troubles ELSE Trouble
          /\ sync' = [there |-> there, limits |-> venue.limits,
                      steady |-> \A k \in TermCalls : progress[k] # "modified"]
    /\ UNCHANGED <<venue, entry, callVars, view, pastVars>>

\* A limit that is reported replaces the one of the entry.
Refreshed(old, seen) == Given(seen, old)

\* It refreshes the entry, whatever its status, as open and confirmed; but not its units.
SyncRefreshes ==
    /\ sync # Idle /\ sync.there
    /\ entry' = [entry EXCEPT !.open = TRUE, !.confirmed = TRUE,
                              !.limits = Refreshed(@, sync.limits)]
    /\ settled' = sync.steady
    /\ sync' = Idle /\ overlooked' = FALSE
    /\ UNCHANGED <<venue, callVars, view, misled, rounding, troubles>>

\* The entry is ended while the position is there.
Unfounded == entry.open /\ ~entry'.open /\ venue.units > 0

\* Without the position, it reads again, and ends an open entry if it still is not there; the
\* outage in which the first read failed may last.
SyncSweeps ==
    /\ sync # Idle /\ ~sync.there
    /\ \E found \in {venue.units > 0, FALSE} :
          entry' = IF entry.open /\ ~found
                      THEN [entry EXCEPT !.open = FALSE, !.confirmed = TRUE] ELSE entry
    /\ overlooked' = (overlooked \/ Unfounded)
    /\ sync' = Idle
    /\ UNCHANGED <<venue, callVars, view, settled, misled, rounding, troubles>>

\* The view of the API refreshes entries that are not confirmed.  It reads the position if
\* the entry is open ...
ViewReads ==
    /\ view = Idle /\ ~entry.confirmed
    /\ \/ /\ entry.open
          /\ \E n \in Readings(venue.units) :
                /\ view' = [open |-> TRUE, seen |-> [venue EXCEPT !.units = n]]
                /\ rounding' = IF n < venue.units /\ rounding = 0 THEN 1 ELSE rounding
          /\ UNCHANGED troubles
       \/ /\ ~entry.open
          /\ view' = [open |-> FALSE, seen |-> Left(0)]
          /\ UNCHANGED <<rounding, troubles>>
       \/ /\ entry.open /\ venue.units > 0 /\ Trouble
          /\ view' = [open |-> TRUE, seen |-> Left(0)]
          /\ UNCHANGED rounding
    /\ UNCHANGED <<venue, entry, callVars, sync, settled, misled, overlooked>>

\* ... and their units too; without the position, it ends the entry if it can read any deal
\* of it, and be it the one that opened it.  It reads nothing twice.
ViewRefreshes ==
    /\ view # Idle
    /\ view' = Idle
    /\ LET seen == view.seen
           moved == Given(seen.limits, entry.limits) # entry.limits
       IN  IF seen.units > 0
           THEN /\ entry' = [open |-> TRUE, confirmed |-> TRUE, units |-> seen.units,
                             limits |-> Given(seen.limits, entry.limits)]
                /\ settled' = (settled /\ ~moved)
                /\ sync' = IF sync # Idle /\ moved THEN [sync EXCEPT !.steady = FALSE] ELSE sync
                /\ overlooked' = FALSE
           ELSE /\ \/ entry' = [entry EXCEPT !.open = @ /\ ~view.open, !.confirmed = TRUE]
                   \/ UNCHANGED entry
                /\ overlooked' = (overlooked \/ Unfounded)
                /\ UNCHANGED <<settled, sync>>
    /\ misled' = \/ misled
                 \/ view.seen.units > 0 /\ \E k \in TermCalls : progress[k] = "reduced"
    /\ UNCHANGED <<venue, callVars, rounding, troubles>>

\* The program ends and starts again: the account and the entry stay.
TermsRestart ==
    /\ Trouble
    /\ progress' = [k \in TermCalls |-> IF progress[k] = "idle" THEN "idle" ELSE "done"]
    /\ wish' = [k \in TermCalls |-> NoWish] /\ read' = [k \in TermCalls |-> 0]
    /\ asking' = {} /\ desk' = Idle /\ sync' = Idle /\ view' = Idle
    /\ UNCHANGED <<venue, entry, pastVars>>

-----------------------------------------------------------------------------
TermsNext ==
    \/ \E k \in TermCalls :
          \/ \E w \in Closing \cup Modifying : AskFor(k, w)
          \/ CallTimesOut(k) \/ FindEntry(k) \/ RecordClose(k) \/ RecordLimits(k)
          \/ RecordLost(k) \/ TakeRequest(k)
    \/ SendClose \/ SendLimits \/ SendFails
    \/ \E units \in Lots : HandCloses(units)
    \/ \E limits \in LimitSet : HandMoves(limits)
    \/ SyncReads \/ SyncRefreshes \/ SyncSweeps \/ ViewReads \/ ViewRefreshes
    \/ TermsRestart

TermsSpec == TermsInit /\ [][TermsNext]_termVars

-----------------------------------------------------------------------------
(* Properties.                                                             *)

\* The book shows no less of a position than there is, whatever calls overlap, time out, are
\* executed in part or lose their writes, and whatever is done by hand, in all cases but
\* three.  The entry of a position is ended only by reads that failed, both of one pass or
\* the one of the view, and is open again once a read has found the position.  Its units fall
\* short by what was lost in rounding, since the calls subtract the units asked for and the
\* venue deals in hundredths of a lot; and by what the view makes a call subtract twice, when
\* it writes the units of the venue between a deal and the look-up of its call.
NeverUnderstated ==
    venue.units > 0 => /\ overlooked \/ entry.open
                       /\ misled \/ entry.units + rounding >= venue.units

\* A pass that read the position when no limit was on its way to the entry leaves the entry
\* with the limits of the venue, and it keeps them until they move, but for removed ones.
LimitsFollow ==
    settled /\ venue.units > 0 =>
        \A l \in Limits : venue.limits[l] \in {entry.limits[l], Unset}

TermsAgree == NeverUnderstated /\ LimitsFollow
=============================================================================
