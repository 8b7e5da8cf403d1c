------------------------------- MODULE EventLog -------------------------------
(***************************************************************************)
(* The trace of events: a published event carries the chain of the events  *)
(* that led to it, and its row is written by a thread of a pool, in any    *)
(* order, or not at all.  A trace is read back from whatever was written.  *)
(***************************************************************************)
EXTENDS Naturals, FiniteSets, Sequences, SequencesExt

CONSTANTS
    Events,     \* events that are published
    NoEvent     \* not an event

ASSUME EventLogAssumption == IsFiniteSet(Events) /\ NoEvent \notin Events

VARIABLES
    named,      \* history: events that were published
    chain,      \* of each of them; in memory, and in its row once written
    alive,      \* events that a member still holds, and may react to
    writes,     \* writes that the thread pool has not made
    table,      \* the table of events
    count,      \* descendant_count
    cause,      \* history: the event that each event reacts to
    early       \* history: events whose row was written before that of their root

eventVars == <<named, chain, alive, writes, table, count, cause, early>>

LogTypeOK ==
    /\ chain \in [Events -> Seq(Events)]
    /\ named \in SUBSET Events
    /\ alive \in SUBSET Events /\ writes \in SUBSET Events /\ table \in SUBSET Events
    /\ count \in [Events -> Nat]
    /\ cause \in [Events -> Events \cup {NoEvent}]
    /\ early \in SUBSET Events

LogInit ==
    /\ chain = [e \in Events |-> <<>>] /\ cause = [e \in Events |-> NoEvent]
    /\ named = {} /\ alive = {} /\ writes = {} /\ table = {} /\ early = {}
    /\ count = [e \in Events |-> 0]

-----------------------------------------------------------------------------
\* Mutant: only the event that is reacted to.
LastOnly(p) == <<p>>

\* The chain of a reaction: the one of the event it reacts to, and that event.
Extended(p) == Append(chain[p], p)

\* publish, by a member that reacts to nothing or to an event it has received.
Publish(e, p) ==
    /\ e \notin named /\ named' = named \cup {e}
    /\ p \in alive \cup {NoEvent}
    /\ chain' = [chain EXCEPT ![e] = IF p = NoEvent THEN <<>> ELSE Extended(p)]
    /\ cause' = [cause EXCEPT ![e] = p]
    /\ alive' = alive \cup {e} /\ writes' = writes \cup {e}
    /\ UNCHANGED <<table, count, early>>

\* Nobody holds the event any longer.
Forgotten(e) ==
    /\ e \in alive /\ alive' = alive \ {e}
    /\ UNCHANGED <<named, chain, writes, table, count, cause, early>>

\* _write_sync: the row, and the count of its root where that has a row already.
WriteRow(e) ==
    /\ e \in writes /\ writes' = writes \ {e}
    /\ table' = table \cup {e}
    /\ IF chain[e] = <<>> THEN UNCHANGED <<count, early>>
       ELSE IF chain[e][1] \in table
            THEN count' = [count EXCEPT ![chain[e][1]] = @ + 1] /\ UNCHANGED early
            ELSE early' = early \cup {e} /\ UNCHANGED count
    /\ UNCHANGED <<named, chain, alive, cause>>

\* The write fails, for instance on a database that is locked for too long.
WriteFails(e) ==
    /\ e \in writes /\ writes' = writes \ {e}
    /\ UNCHANGED <<named, chain, alive, table, count, cause, early>>

\* The process ends: what is held and what waits to be written is gone.
EndOfProcess ==
    /\ alive' = {} /\ writes' = {}
    /\ UNCHANGED <<named, chain, table, count, cause, early>>

LogNext ==
    \/ \E e \in Events :
          \/ \E p \in Events \cup {NoEvent} : Publish(e, p)
          \/ Forgotten(e) \/ WriteRow(e) \/ WriteFails(e)
    \/ EndOfProcess

LogSpec == LogInit /\ [][LogNext]_eventVars

-----------------------------------------------------------------------------
(* What the management interface reads.                                    *)

\* read_trace: the ancestors that the row names, and from the event on every row that names
\* one found so far, until no more are found.
Trace(e) ==
    LET naming[n \in 0..Cardinality(Events)] ==
            IF n = 0 THEN {e}
            ELSE naming[n - 1] \cup {d \in table : ToSet(chain[d]) \cap naming[n - 1] # {}}
    IN  (ToSet(chain[e]) \cap table) \cup naming[Cardinality(Events)]

-----------------------------------------------------------------------------
(* Properties.                                                             *)

\* What led to an event, whether it was written or not.
Causes(e) ==
    LET above[n \in 0..Cardinality(Events)] ==
            IF n = 0 THEN {e}
            ELSE above[n - 1] \cup ({cause[d] : d \in above[n - 1]} \ {NoEvent})
    IN  above[Cardinality(Events)]

\* The trace of an event holds every written event that led to it or that it led to, and no
\* other, although events in between were never written.  The number of its descendants
\* kept with the first event of a chain is right but for those written before it.
TracesAreComplete ==
    \A e \in table :
        /\ Trace(e) = {d \in table : d \in Causes(e) \/ e \in Causes(d)}
        /\ cause[e] = NoEvent =>
              count[e] = Cardinality({d \in table \ (early \cup {e}) : e \in Causes(d)})
===============================================================================
