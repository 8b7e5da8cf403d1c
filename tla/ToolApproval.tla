----------------------------- MODULE ToolApproval -----------------------------
(***************************************************************************)
(* Tool calls of agents that need an approval: the call is published, and  *)
(* the dispatcher waits for the answer with the id of its request, for a   *)
(* bounded time.  Answers come late, twice, or not at all; the model may   *)
(* call the tool again after a rejection, and a cycle may be cancelled.    *)
(***************************************************************************)
EXTENDS Naturals, FiniteSets

CONSTANTS
    Dispatchers,  \* one for each agent
    Calls,        \* tool calls, and the ids of their requests for approval
    MaxVerdicts   \* bound: answers of supervisors

ASSUME ToolApprovalAssumption == MaxVerdicts \in Nat

Modes == {"unlisted", "direct", "human", "supervisor"}

VARIABLES
    waitsFor,   \* by dispatcher, the call that waits for its approval
    futures,    \* _pending_futures
    mode,       \* approval mode of the calls made so far
    verdicts,   \* answers on the bus
    ran,        \* history: calls whose tool has run
    inTime,     \* history: calls that were approved while they waited
    given       \* answers so far

toolVars == <<waitsFor, futures, mode, verdicts, ran, inTime, given>>

NoCall == [state |-> "none"]
Waits == [state: {"waiting", "approved", "rejected"}, call: Calls]
Verdict == [call: Calls, approved: BOOLEAN]

ToolTypeOK ==
    /\ waitsFor \in [Dispatchers -> Waits \cup {NoCall}]
    /\ futures \in SUBSET Calls
    /\ mode \in [Calls -> Modes \cup {"none"}]
    /\ verdicts \in SUBSET Verdict
    /\ ran \in SUBSET Calls /\ inTime \in SUBSET Calls
    /\ given \in 0..MaxVerdicts

ToolInit ==
    /\ waitsFor = [d \in Dispatchers |-> NoCall] /\ futures = {}
    /\ mode = [k \in Calls |-> "none"]
    /\ verdicts = {} /\ ran = {} /\ inTime = {} /\ given = 0

-----------------------------------------------------------------------------
\* _execute_one up to the approval: a tool that is not in the allow list does not run, one
\* without approval runs, a human is never asked, and a supervisor is.
Execute(d, k, m) ==
    /\ waitsFor[d] = NoCall /\ mode[k] = "none"
    /\ mode' = [mode EXCEPT ![k] = m]
    /\ ran' = IF m = "direct" THEN ran \cup {k} ELSE ran
    /\ IF m = "supervisor"
       THEN /\ waitsFor' = [waitsFor EXCEPT ![d] = [state |-> "waiting", call |-> k]]
            /\ futures' = futures \cup {k}
       ELSE UNCHANGED <<waitsFor, futures>>
    /\ UNCHANGED <<verdicts, inTime, given>>

\* A supervisor, which is outside of the program, answers a request it has seen.
Answers(k, approved) ==
    /\ mode[k] = "supervisor"
    /\ given < MaxVerdicts /\ given' = given + 1
    /\ verdicts' = verdicts \cup {[call |-> k, approved |-> approved]}
    /\ UNCHANGED <<waitsFor, futures, mode, ran, inTime>>

\* Mutant: the future is found without the id of the request.
ResolvedByTool(d, v) == waitsFor[d] # NoCall

\* The wait that an answer ends: the one for the request it names.
Resolved(d, v) == waitsFor[d] # NoCall /\ waitsFor[d].call = v.call

\* _dispatch: an answer completes the future of its request, or is routed to nobody.
Dispatch(v) ==
    /\ v \in verdicts /\ verdicts' = verdicts \ {v}
    /\ futures' = futures \ {v.call}
    /\ IF v.call \notin futures THEN UNCHANGED <<waitsFor, inTime>>
       ELSE /\ waitsFor' = [d \in Dispatchers |->
                  IF ~Resolved(d, v) THEN waitsFor[d]
                  ELSE [waitsFor[d] EXCEPT !.state =
                           IF v.approved THEN "approved" ELSE "rejected"]]
            /\ inTime' = IF v.approved THEN inTime \cup {v.call} ELSE inTime
    /\ UNCHANGED <<mode, ran, given>>

\* The wait is over: the tool runs if the call was approved.
Resume(d) ==
    /\ waitsFor[d] # NoCall /\ waitsFor[d].state # "waiting"
    /\ ran' = IF waitsFor[d].state = "approved" THEN ran \cup {waitsFor[d].call} ELSE ran
    /\ waitsFor' = [waitsFor EXCEPT ![d] = NoCall]
    /\ UNCHANGED <<futures, mode, verdicts, inTime, given>>

\* cancel_response_future, whichever way the wait ends.
TakenBack(k) == futures \ {k}

\* The time is over, perhaps just after the answer has come, or the cycle is cancelled.
Abandon(d) ==
    /\ waitsFor[d] # NoCall
    /\ waitsFor' = [waitsFor EXCEPT ![d] = NoCall]
    /\ futures' = TakenBack(waitsFor[d].call)
    /\ UNCHANGED <<mode, verdicts, ran, inTime, given>>

ToolNext ==
    \/ \E d \in Dispatchers, k \in Calls, m \in Modes : Execute(d, k, m)
    \/ \E k \in Calls, approved \in BOOLEAN : Answers(k, approved)
    \/ \E v \in Verdict : Dispatch(v)
    \/ \E d \in Dispatchers : Resume(d) \/ Abandon(d)

ToolSpec == ToolInit /\ [][ToolNext]_toolVars

-----------------------------------------------------------------------------
(* Properties.                                                             *)

\* A tool that needs an approval runs only when its own request was approved while its
\* call waited: no late answer, and no answer to an earlier call of the same tool or to a
\* call of another agent, lets it run.
RunsOnlyApproved ==
    \A k \in ran : mode[k] = "direct" \/ (mode[k] = "supervisor" /\ k \in inTime)
===============================================================================
