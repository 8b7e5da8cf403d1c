------------------------------ MODULE ToolTurns ------------------------------
(***************************************************************************)
(* The turns of one agent cycle: the model is asked, calls tools, is       *)
(* reminded of the calls it owes, and may end with a decision in words,    *)
(* which a broker agent carries out itself if the model has not.           *)
(* Context budgets, prompts, images and the diagnostics of a turn are left *)
(* out, and so is an agent without a dispatcher, which has no tools.       *)
(***************************************************************************)
EXTENDS Naturals, Sequences, SequencesExt

CONSTANTS
    ModelCalls,    \* tool calls that the model can make: a tool with its arguments
    Trading,       \* those of a trading tool
    Requirements,  \* required_tool_calls: each as the set of the calls that meet it
    MaxToolTurns,  \* max_tool_turns
    MaxReminders,  \* _MAX_REQUIRED_TOOL_CALL_REMINDERS
    MaxBatch       \* bound: tool calls of one answer

ASSUME ToolTurnsAssumption ==
    /\ Trading \subseteq ModelCalls
    /\ Requirements \subseteq SUBSET ModelCalls
    /\ MaxToolTurns \in Nat /\ MaxReminders \in Nat /\ MaxBatch \in Nat

Sayings == {"order", "order without direction", "other"}
CycleKinds == {"broker", "analysis", "query"}    \* a broker agent, another one, a question to either

VARIABLES
    kind,       \* of the cycle
    stage,      \* of _run_with_tools and of what follows it
    turn,
    batch,      \* tool calls of the answer at hand
    results,    \* how those that were executed ended
    executed,   \* executed_tool_calls, executed_tool_names
    reminders,  \* reminders_sent
    finalText,  \* what the last answer says
    told,       \* a system error was emitted
    reached,    \* history: trading calls of the model that may have reached the venue
    fallback    \* history: the fallback called auto_place_order

turnVars == <<kind, stage, turn, batch, results, executed, reminders, finalText,
              told, reached, fallback>>

Stages == {"asking", "running", "leaving", "deciding", "done", "failed"}
Outcomes == {"refused", "failed", "completed"}

TurnTypeOK ==
    /\ kind \in CycleKinds /\ stage \in Stages
    /\ turn \in 0..MaxToolTurns + 1
    /\ batch \in Seq(ModelCalls) /\ results \in Seq(Outcomes)
    /\ executed \in SUBSET ModelCalls
    /\ reminders \in 0..MaxReminders
    /\ finalText \in Sayings
    /\ told \in BOOLEAN /\ fallback \in BOOLEAN
    /\ reached \in SUBSET Trading

TurnInit ==
    /\ kind \in CycleKinds /\ stage = "asking" /\ turn = 0
    /\ batch = <<>> /\ results = <<>> /\ executed = {} /\ reminders = 0
    /\ finalText = "other" /\ told = FALSE /\ reached = {} /\ fallback = FALSE

\* _unmet_required_tool_calls: a call counts as made however it ended.
Unmet == {r \in Requirements : r \cap executed = {}}

-----------------------------------------------------------------------------
(* _run_with_tools.                                                        *)

\* The model answers without a call, or stops for another reason than its calls.  While it
\* owes a call it is reminded, twice; in the last turn the reminder gets no answer.
AnswerInWords(said) ==
    /\ stage = "asking"
    /\ finalText' = said
    /\ IF Unmet # {} /\ reminders < MaxReminders
       THEN /\ reminders' = reminders + 1 /\ turn' = turn + 1
            /\ stage' = IF turn < MaxToolTurns THEN "asking" ELSE "leaving"
       ELSE stage' = "leaving" /\ UNCHANGED <<turn, reminders>>
    /\ UNCHANGED <<kind, batch, results, executed, told, reached, fallback>>

\* The model calls tools, which are not executed when its turns are used up.
AnswerWithCalls(calls, said) ==
    /\ stage = "asking" /\ calls # <<>>
    /\ finalText' = said
    /\ IF turn >= MaxToolTurns THEN stage' = "leaving" /\ UNCHANGED batch
       ELSE stage' = "running" /\ batch' = calls
    /\ UNCHANGED <<kind, turn, results, executed, reminders, told, reached, fallback>>

\* No answer: the error of the model ends the cycle.
ModelFails ==
    /\ stage = "asking" /\ stage' = "failed"
    /\ told' = TRUE
    /\ UNCHANGED <<kind, turn, batch, results, executed, reminders, finalText, reached, fallback>>

\* execute_all, one call after the other: it is refused (unknown, not allowed, rejected),
\* it raises, or it completes.  A call that raises may have reached the venue before.
ExecuteCall(outcome) ==
    /\ stage = "running" /\ Len(results) < Len(batch)
    /\ results' = Append(results, outcome)
    /\ reached' = IF outcome = "refused" THEN reached
                  ELSE reached \cup ({batch[Len(results) + 1]} \cap Trading)
    /\ UNCHANGED <<kind, stage, turn, batch, executed, reminders, finalText, told, fallback>>

\* Mutant: only calls that completed count as executed.
CompletedOnly(calls, outcomes) == {calls[i] : i \in {j \in DOMAIN calls : outcomes[j] = "completed"}}

\* The calls of an answer that count as executed: all of them.
Counting(calls, outcomes) == ToSet(calls)

EndOfTurn ==
    /\ stage = "running" /\ Len(results) = Len(batch)
    /\ executed' = executed \cup Counting(batch, results)
    /\ batch' = <<>> /\ results' = <<>>
    /\ turn' = turn + 1 /\ stage' = "asking"
    /\ UNCHANGED <<kind, reminders, finalText, told, reached, fallback>>

\* After the loop: what is still owed is told, and a configured schema has the model put its
\* decision into a form that replaces what it said, ...
LeaveLoop ==
    /\ stage = "leaving" /\ stage' = "deciding"
    /\ told' = (told \/ Unmet # {})
    /\ finalText' \in Sayings
    /\ UNCHANGED <<kind, turn, batch, results, executed, reminders, reached, fallback>>

\* ... or fails to.
SchemaFails ==
    /\ stage = "leaving" /\ stage' = "failed"
    /\ told' = TRUE
    /\ UNCHANGED <<kind, turn, batch, results, executed, reminders, finalText, reached, fallback>>

-----------------------------------------------------------------------------
(* After _run_with_tools.                                                  *)

\* _execute_broker_decision_fallback: a broker agent whose model called no trading tool
\* places the order that it only decided on.  The answer to a question has no such effect.
MayPlace == kind = "broker" /\ executed \cap Trading = {}
Decide ==
    /\ stage = "deciding" /\ stage' = "done"
    /\ fallback' = (MayPlace /\ finalText = "order")
    /\ told' = (told \/ (MayPlace /\ finalText = "order without direction"))
    /\ UNCHANGED <<kind, turn, batch, results, executed, reminders, finalText, reached>>

\* The task of the cycle is cancelled: the agent is stopped, or the program.
CancelCycle ==
    /\ stage \notin {"done", "failed"} /\ stage' = "failed"
    /\ UNCHANGED <<kind, turn, batch, results, executed, reminders, finalText, told, reached, fallback>>

TurnNext ==
    \/ \E said \in Sayings :
          \/ AnswerInWords(said)
          \/ \E calls \in BoundedSeq(ModelCalls, MaxBatch) : AnswerWithCalls(calls, said)
    \/ ModelFails
    \/ \E outcome \in Outcomes : ExecuteCall(outcome)
    \/ EndOfTurn \/ LeaveLoop \/ SchemaFails \/ Decide \/ CancelCycle

TurnSpec == TurnInit /\ [][TurnNext]_turnVars

-----------------------------------------------------------------------------
(* Properties.                                                             *)

\* The fallback never adds an order to one the model placed itself, not even to one whose
\* call raised, after a timeout for instance, and may have reached the venue all the same.
\* And a cycle that comes to its end owes no required call without having told so, after
\* both reminders or when its turns were used up.
DecisionsCarriedOutOnce ==
    /\ fallback => reached = {}
    /\ stage = "done" /\ Unmet # {} =>
          told /\ (reminders = MaxReminders \/ turn >= MaxToolTurns)
=============================================================================
