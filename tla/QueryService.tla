---------------------------- MODULE QueryService ----------------------------
(***************************************************************************)
(* What a question to an agent promises to whoever asks it: nothing but    *)
(* the life of a call.                                                     *)
(*                                                                         *)
(*   - A question is worked on at most once, and only after it was asked.  *)
(*   - The asker stops waiting once, with an answer or without.            *)
(*   - The answer it gets is the one to this question: the work on it is   *)
(*     over and had an answer as its result.                               *)
(***************************************************************************)
CONSTANT Queries

VARIABLES call,   \* the asker: "unused", "waiting", "answered", "expired"
          work    \* the agent: "none", "queued", "running", "answered", "silent"

calls == <<call, work>>

Init ==
    /\ call = [q \in Queries |-> "unused"]
    /\ work = [q \in Queries |-> "none"]

Ask(q) ==
    /\ call[q] = "unused"
    /\ call' = [call EXCEPT ![q] = "waiting"]
    /\ UNCHANGED work

Enqueue(q) ==
    /\ call[q] # "unused"
    /\ work[q] = "none"
    /\ work' = [work EXCEPT ![q] = "queued"]
    /\ UNCHANGED call

Run(q) ==
    /\ work[q] = "queued"
    /\ work' = [work EXCEPT ![q] = "running"]
    /\ UNCHANGED call

End(q) ==
    /\ work[q] = "running"
    /\ \E result \in {"answered", "silent"} : work' = [work EXCEPT ![q] = result]
    /\ UNCHANGED call

Answer(q) ==
    /\ call[q] = "waiting"
    /\ work[q] = "answered"
    /\ call' = [call EXCEPT ![q] = "answered"]
    /\ UNCHANGED work

GiveUp(q) ==
    /\ call[q] = "waiting"
    /\ call' = [call EXCEPT ![q] = "expired"]
    /\ UNCHANGED work

Next == \E q \in Queries : Ask(q) \/ Enqueue(q) \/ Run(q) \/ End(q) \/ Answer(q)
                           \/ GiveUp(q)

Spec == Init /\ [][Next]_calls
=============================================================================
