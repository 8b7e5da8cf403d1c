----------------------------- MODULE AgentHealth -----------------------------
(***************************************************************************)
(* Staleness of an agent that is driven by triggers: the monitoring bus    *)
(* keeps which triggers were delivered since the agent last reacted, and   *)
(* the watch loop raises an alarm when one has waited for too long.  What  *)
(* the agent does with its queue is reduced to what the monitoring bus can *)
(* see of it, and to what it cannot see.  (AgentLoop has the agent itself. *)
(* An agent with an enabled timer is judged by the timer alone.)           *)
(***************************************************************************)
EXTENDS Naturals, Sequences

CONSTANTS
    Grace,       \* STALE_GRACE_SECONDS
    Room,        \* size of the agent's queue
    MaxTime,     \* bound: time that passes
    MaxArrivals  \* bound: messages delivered

ASSUME AgentHealthAssumption ==
    Grace \in Nat /\ Room \in Nat /\ MaxTime \in Nat /\ MaxArrivals \in Nat

Sorts == {"trigger", "reply"}       \* a configured trigger, or an answer to the agent
Times == 0..MaxTime
NotPending == MaxTime + 1

VARIABLES
    time,
    queue,      \* the agent's queue
    doing,      \* its message loop: "idle", "preparing" or "thinking"
    taken,      \* when the trigger that is being prepared was delivered
    pending,    \* _agent_pending_triggers: the newest delivery of each event type
    enabled,    \* the agent's "enable" in the configuration
    reported,   \* the watch loop has reported the agent
    unseen,     \* history: a trigger was lost, or its cycle ended without a word
    alarmed,    \* history: an alarm since the last delivery or reaction
    alarms,     \* history: agent_stale events
    arrivals

healthVars == <<time, queue, doing, taken, pending, enabled, reported, unseen,
                alarmed, alarms, arrivals>>
agentVars == <<queue, doing, taken>>

HealthTypeOK ==
    /\ time \in Times
    /\ queue \in Seq([sort: Sorts, at: Times])
    /\ doing \in {"idle", "preparing", "thinking"}
    /\ taken \in Times
    /\ pending \in [Sorts -> Times \cup {NotPending}]
    /\ enabled \in BOOLEAN /\ reported \in BOOLEAN
    /\ unseen \in BOOLEAN /\ alarmed \in BOOLEAN
    /\ alarms \in Nat
    /\ arrivals \in 0..MaxArrivals

NothingPending == [s \in Sorts |-> NotPending]

HealthInit ==
    /\ time = 0 /\ queue = <<>> /\ doing = "idle" /\ taken = 0
    /\ pending = NothingPending /\ enabled = TRUE /\ reported = FALSE
    /\ unseen = FALSE /\ alarmed = FALSE /\ alarms = 0 /\ arrivals = 0

Ticks ==
    /\ time < MaxTime /\ time' = time + 1
    /\ UNCHANGED <<agentVars, pending, enabled, reported, unseen, alarmed, alarms, arrivals>>

-----------------------------------------------------------------------------
(* The monitoring bus.                                                     *)

\* _record_delivery: the bus reports a delivery before the queue takes or drops it.
Delivered(sort) ==
    /\ arrivals < MaxArrivals /\ arrivals' = arrivals + 1
    /\ pending' = [pending EXCEPT ![sort] = time]
    /\ alarmed' = FALSE
    /\ IF Len(queue) < Room
       THEN queue' = Append(queue, [sort |-> sort, at |-> time]) /\ unseen' = unseen
       ELSE queue' = queue /\ unseen' = (unseen \/ sort = "trigger")
    /\ UNCHANGED <<time, doing, taken, enabled, reported, alarms>>

\* Mutant: the trigger stays pending.
HandledReplies(p) == [p EXCEPT !["reply"] = NotPending]

\* AGENT_INPUT_BUILT and AGENT_TRIGGER_SKIPPED: whatever was delivered is handled.
Handled(p) == NothingPending
Reacts ==
    /\ pending' = Handled(pending)
    /\ unseen' = FALSE
    /\ alarmed' = FALSE
    /\ UNCHANGED <<time, enabled, reported, alarms, arrivals>>
Silent == UNCHANGED <<time, pending, enabled, reported, unseen, alarmed, alarms, arrivals>>

-----------------------------------------------------------------------------
(* The agent.                                                              *)

TakeNext(sort) ==
    /\ doing = "idle" /\ queue # <<>> /\ Head(queue).sort = sort
    /\ queue' = Tail(queue)

\* A skip is logged: paused, divider, session, or a cycle of another task.
Skip ==
    /\ TakeNext("trigger")
    /\ UNCHANGED <<doing, taken>>
    /\ Reacts

\* A cycle begins with the preparation of its input, ...
Prepare ==
    /\ TakeNext("trigger")
    /\ doing' = "preparing" /\ taken' = Head(queue).at
    /\ Silent

\* ... which ends in the input or in a logged cancel, ...
InputBuilt ==
    /\ doing = "preparing" /\ doing' \in {"thinking", "idle"}
    /\ UNCHANGED <<queue, taken>>
    /\ Reacts

\* ... or without a word: the payload or the snapshot is invalid, an error, a pause.
EndUnnoticed ==
    /\ doing = "preparing" /\ doing' = "idle"
    /\ unseen' = TRUE
    /\ UNCHANGED <<queue, taken, time, pending, enabled, reported, alarmed, alarms, arrivals>>

\* The model answers.
EndThinking ==
    /\ doing = "thinking" /\ doing' = "idle"
    /\ UNCHANGED <<queue, taken>>
    /\ Silent

\* A message that is no trigger.
TakeReply ==
    /\ TakeNext("reply")
    /\ UNCHANGED <<doing, taken>>
    /\ Silent

\* A save disables the agent: its queue is gone, what the monitoring bus knows is not.
Disable ==
    /\ enabled /\ enabled' = FALSE
    /\ queue' = <<>> /\ doing' = "idle"
    /\ unseen' = (unseen \/ doing = "preparing" \/ \E i \in DOMAIN queue : queue[i].sort = "trigger")
    /\ UNCHANGED <<time, taken, pending, reported, alarmed, alarms, arrivals>>

Enable ==
    /\ ~enabled /\ enabled' = TRUE
    /\ UNCHANGED <<agentVars, time, pending, reported, unseen, alarmed, alarms, arrivals>>

-----------------------------------------------------------------------------
(* The watch loop.                                                         *)

\* compute_agent_stale: a configured trigger, the newest of its type, has waited too long.
Stale == pending["trigger"] # NotPending /\ time - pending["trigger"] > Grace

\* Once reported, an agent is not reported again until a look finds it not stale.
News == ~reported

Look ==
    /\ enabled
    /\ reported' = Stale
    /\ IF Stale /\ News
       THEN \/ alarms' = alarms + 1 /\ alarmed' = TRUE
            \/ UNCHANGED <<alarms, alarmed>>     \* the event could not be published
       ELSE UNCHANGED <<alarms, alarmed>>
    /\ UNCHANGED <<time, agentVars, pending, enabled, unseen, arrivals>>

HealthNext ==
    \/ Ticks \/ (\E sort \in Sorts : enabled /\ Delivered(sort))
    \/ Skip \/ Prepare \/ InputBuilt \/ EndUnnoticed \/ EndThinking \/ TakeReply
    \/ Disable \/ Enable \/ Look

HealthSpec == HealthInit /\ [][HealthNext]_healthVars

-----------------------------------------------------------------------------
(* Properties.                                                             *)

\* An alarm is founded: a trigger older than the grace period waits in the queue or is
\* still being prepared, or one was lost or ended without a word since the agent last
\* reacted.  And it is not repeated every minute: the agent has reacted since the last
\* alarm, or something new was delivered.
AlarmIsFounded ==
    [][alarms' # alarms =>
          /\ ~alarmed
          /\ \/ unseen
             \/ doing = "preparing" /\ time - taken > Grace
             \/ \E i \in DOMAIN queue :
                   queue[i].sort = "trigger" /\ time - queue[i].at > Grace]_healthVars
=============================================================================
