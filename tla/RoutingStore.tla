---------------------------- MODULE RoutingStore ----------------------------
(***************************************************************************)
(* The routing rules: the file, the table the bus routes by, and the one   *)
(* store (get_routing_store) through which the rule designer and the       *)
(* notification service change the file.  Each replaces only the rules it  *)
(* owns.  A save reads the file and writes it back in another thread, and  *)
(* holds the store's lock meanwhile; afterwards the table is read again.   *)
(***************************************************************************)
EXTENDS Naturals, Sequences

CONSTANTS
    Members,    \* members of the event bus
    Notifier,   \* the notification service, the target of the rules it derives
    Topics,     \* event types that are routed
    Saves       \* save requests, each used once

ASSUME RoutingStoreAssumption == Notifier \in Members

VARIABLES
    file,       \* event_routing.json5
    table,      \* RoutingTable._rules
    wanted,     \* the event types the notification service has rules for
    save,       \* what each save request is about and how far it is
    text,       \* what it is going to write
    line,       \* the store's lock: its holder, then who waits for it
    designed,   \* history: the hand-written rules of the latest save request
    unsaved     \* history: the owners whose latest finished save has failed

storeVars == <<file, table, wanted, save, text, line, designed, unsaved>>

\* All rules of one owner, by event type; a designer's rule may name any members.
Design == [Topics -> SUBSET Members]
Rules == [designer: Design, service: SUBSET Topics]
Owners == {"designer", "service"}

Save == [pc: {"unused", "waiting", "writing", "written", "failed", "done"},
         owner: Owners,
         design: Design,             \* the designer's payload
         derived: SUBSET Topics]     \* the service's payload

NoDesign == [t \in Topics |-> {}]
NoRules == [designer |-> NoDesign, service |-> {}]
NoSave == [pc |-> "unused", owner |-> "designer", design |-> NoDesign, derived |-> {}]

StoreTypeOK ==
    /\ file \in Rules
    /\ table \in Rules
    /\ wanted \in SUBSET Topics
    /\ save \in [Saves -> Save]
    /\ text \in [Saves -> Rules]
    /\ line \in Seq(Saves)
    /\ designed \in Design
    /\ unsaved \in SUBSET Owners

\* The bootstrap has loaded the table and synchronised the derived rules.
StoreInit ==
    /\ wanted \in SUBSET Topics
    /\ designed \in Design
    /\ file = [designer |-> designed, service |-> wanted]
    /\ table = file
    /\ save = [s \in Saves |-> NoSave]
    /\ text = [s \in Saves |-> NoRules]
    /\ line = <<>>
    /\ unsaved = {}

\* RoutingTable.resolve: every rule that matches adds its targets, once each.
Targets(topic) ==
    table.designer[topic] \cup (IF topic \in table.service THEN {Notifier} ELSE {})

-----------------------------------------------------------------------------
\* A save waits for the lock.
Request(s, owner, design, derived) ==
    /\ save[s].pc = "unused"
    /\ save' = [save EXCEPT ![s] = [pc |-> "waiting", owner |-> owner,
                                   design |-> design, derived |-> derived]]
    /\ line' = Append(line, s)
    /\ UNCHANGED <<file, table, text, unsaved>>

\* _save_designer_routing_rules: rules of other owners in the payload are ignored.
DesignerSaves(s, design) ==
    /\ Request(s, "designer", design, {})
    /\ designed' = design
    /\ UNCHANGED wanted

\* save_notifications_config: the service takes its new rules at once and asks the
\* store to replace what it owns.
ServiceSaves(s, derived) ==
    /\ Request(s, "service", NoDesign, derived)
    /\ wanted' = derived
    /\ UNCHANGED designed

\* Mutant: a save does not wait for the lock.
MayBeginAtOnce(s) == save[s].pc = "waiting"

MayBegin(s) == save[s].pc = "waiting" /\ line # <<>> /\ Head(line) = s

\* Under the lock the file is read and the new text put together.
SaveBegins(s) ==
    /\ MayBegin(s)
    /\ save' = [save EXCEPT ![s].pc = "writing"]
    /\ text' = [text EXCEPT ![s] =
                  IF save[s].owner = "designer"
                  THEN [designer |-> save[s].design, service |-> file.service]
                  ELSE [designer |-> file.designer, service |-> save[s].derived]]
    /\ ~(save[s].owner = "service" /\ file.service = save[s].derived)
    /\ UNCHANGED <<file, table, wanted, line, designed, unsaved>>

\* The holder gives the lock to whoever has waited longest.
Leaves(s) ==
    /\ save' = [save EXCEPT ![s].pc = "done"]
    /\ line' = Tail(line)

\* replace_owner leaves an unchanged set alone: no write, no reload.
SaveSkips(s) ==
    /\ MayBegin(s)
    /\ save[s].owner = "service"
    /\ file.service = save[s].derived
    /\ Leaves(s)
    /\ unsaved' = unsaved \ {"service"}
    /\ UNCHANGED <<file, table, wanted, text, designed>>

\* The writer thread puts the new file in the place of the old one ...
SaveWrites(s) ==
    /\ save[s].pc = "writing"
    /\ file' = text[s]
    /\ save' = [save EXCEPT ![s].pc = "written"]
    /\ UNCHANGED <<table, wanted, text, line, designed, unsaved>>

\* ... or cannot, and the old one stays.
SaveFails(s) ==
    /\ save[s].pc = "writing"
    /\ save' = [save EXCEPT ![s].pc = "failed"]
    /\ UNCHANGED <<file, table, wanted, text, line, designed, unsaved>>

\* Back in the event loop the lock is released, and the table is reloaded before
\* the next save can go on.
SaveEnds(s) ==
    /\ save[s].pc = "written"
    /\ table' = file
    /\ unsaved' = unsaved \ {save[s].owner}
    /\ Leaves(s)
    /\ UNCHANGED <<file, wanted, text, designed>>

\* A failed save leaves the lock as well, and nothing is reloaded.
SaveAborts(s) ==
    /\ save[s].pc = "failed"
    /\ unsaved' = unsaved \cup {save[s].owner}
    /\ Leaves(s)
    /\ UNCHANGED <<file, table, wanted, text, designed>>

\* POST /routing/reload.
Reload ==
    /\ table' = file
    /\ UNCHANGED <<file, wanted, save, text, line, designed, unsaved>>

StoreNext ==
    \/ \E s \in Saves : \/ \E design \in Design : DesignerSaves(s, design)
                        \/ \E derived \in SUBSET Topics : ServiceSaves(s, derived)
                        \/ SaveBegins(s)
                        \/ SaveSkips(s)
                        \/ SaveWrites(s)
                        \/ SaveFails(s)
                        \/ SaveEnds(s)
                        \/ SaveAborts(s)
    \/ Reload

-----------------------------------------------------------------------------
\* Two writers of one file lose nothing of each other: when no save is under way,
\* file and table agree, and hold what each owner saved last unless it was told
\* that this save failed.  Two writers on one file is "how rules get silently
\* lost", says the store, and exists to prevent it.
RoutingAgrees ==
    line = <<>> => /\ table = file
                   /\ file.designer = designed \/ "designer" \in unsaved
                   /\ file.service = wanted \/ "service" \in unsaved
=============================================================================
