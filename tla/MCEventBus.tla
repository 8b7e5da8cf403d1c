----------------------------- MODULE MCEventBus -----------------------------
(* The event bus on a small instance: one agent, one service, one event type. *)
EXTENDS EventBus, TLC

\* Requests and saves differ in nothing but their names.
Alike == Permutations(Requests) \cup Permutations(Saves)
=============================================================================
