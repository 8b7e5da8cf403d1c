-------------------------- MODULE PositionLedger --------------------------
(***************************************************************************)
(* What the order book promises about one broker account, without tools,   *)
(* requests or reconciliation passes: how the record of a position may     *)
(* follow what becomes of the position at the broker.                      *)
(*                                                                         *)
(*   - An order of ours exists at the broker only after it was recorded.   *)
(*   - A record says "live" only of something the broker has accepted; one *)
(*     that was ended comes back only under the same condition.            *)
(*   - A record is created once and never disappears.                      *)
(***************************************************************************)
CONSTANTS Orders,   \* positions the program itself asks for
          Manual    \* positions opened at the broker behind its back

Positions == Orders \cup Manual

VARIABLES actual,   \* "none", "working" (an order not filled yet), "open", "closed"
          record    \* "unknown", "requested", "live", "ended"

ledger == <<actual, record>>

Init ==
    /\ actual = [p \in Positions |-> "none"]
    /\ record = [p \in Positions |-> "unknown"]

Request(o) ==
    /\ record[o] = "unknown"
    /\ record' = [record EXCEPT ![o] = "requested"]
    /\ UNCHANGED actual

Open(p) ==
    /\ actual[p] \in {"none", "working"}
    /\ p \in Orders => record[p] # "unknown"
    /\ \E s \in IF actual[p] = "none" THEN {"working", "open"} ELSE {"open"} :
         actual' = [actual EXCEPT ![p] = s]
    /\ UNCHANGED record

Close(p) ==
    /\ actual[p] = "open"
    /\ actual' = [actual EXCEPT ![p] = "closed"]
    /\ UNCHANGED record

Confirm(p) ==
    /\ actual[p] # "none"
    /\ \E s \in {"requested", "live"} : record' = [record EXCEPT ![p] = s]
    /\ UNCHANGED actual

End(p) ==
    /\ record[p] \in {"requested", "live"}
    /\ record' = [record EXCEPT ![p] = "ended"]
    /\ UNCHANGED actual

Next ==
    \/ \E o \in Orders : Request(o)
    \/ \E p \in Positions : Open(p) \/ Close(p) \/ Confirm(p) \/ End(p)

Spec == Init /\ [][Next]_ledger
=============================================================================
