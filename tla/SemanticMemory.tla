---------------------------- MODULE SemanticMemory ----------------------------
(***************************************************************************)
(* The notes of the agents: one task serves the requests in order, in      *)
(* several steps each.  A rewritten note is deleted and inserted again     *)
(* under its id, since the store cannot change the vectors of a row.       *)
(* Scores, tags, patterns and the tables of different agents are left out: *)
(* one table, and a recall that finds what the table has.                  *)
(***************************************************************************)
EXTENDS Naturals, FiniteSets, Sequences

CONSTANTS
    Notes,        \* ids of notes
    Backlog,      \* size of the inbox
    MaxRequests   \* bound: requests sent

ASSUME SemanticMemoryAssumption == Backlog \in Nat /\ MaxRequests \in Nat

\* A request, and whether its text is free of absolute prices.
Request == [op: {"remember", "forget", "update"}, note: Notes, relative: BOOLEAN]
NoRequest == [op |-> "none"]
Recall == [op |-> "recall"]

VARIABLES
    backlog,      \* requests in the inbox of the service
    serving,      \* the request being served
    phase,        \* how far: "begun", "deleted" or "embedded"
    copies,       \* rows of each id in the table
    known,        \* ids that an agent has learned from an answer
    kept,         \* history: notes that were stored
    dropped,      \* history: notes that a forget has deleted
    gone,         \* history: notes that an update has deleted and could not insert
    requested     \* requests so far

memoryVars == <<backlog, serving, phase, copies, known, kept, dropped, gone, requested>>

MemoryTypeOK ==
    /\ backlog \in Seq(Request \cup {Recall}) /\ Len(backlog) <= Backlog
    /\ serving \in Request \cup {Recall, NoRequest}
    /\ phase \in {"begun", "deleted", "embedded"}
    /\ copies \in [Notes -> 0..2]
    /\ known \in SUBSET Notes /\ kept \in SUBSET Notes
    /\ dropped \in SUBSET Notes /\ gone \in SUBSET Notes
    /\ requested \in 0..MaxRequests

MemoryInit ==
    /\ backlog = <<>> /\ serving = NoRequest /\ phase = "begun"
    /\ copies = [n \in Notes |-> 0]
    /\ known = {} /\ kept = {} /\ dropped = {} /\ gone = {} /\ requested = 0

\* A tool asks: for a new note, for one whose id it knows, perhaps from an answer that is
\* old by now, or for what there is.  A full inbox drops the request, and its sender times out.
Asks(r) ==
    /\ requested < MaxRequests /\ requested' = requested + 1
    /\ r.op = "remember" =>
          /\ r.note \notin kept
          /\ \A q \in {backlog[i] : i \in DOMAIN backlog} \cup {serving} :
                q.op = "remember" => q.note # r.note
    /\ r.op \in {"forget", "update"} => r.note \in known
    /\ backlog' = IF Len(backlog) < Backlog THEN Append(backlog, r) ELSE backlog
    /\ UNCHANGED <<serving, phase, copies, known, kept, dropped, gone>>

\* run: the next request is taken when the one before is answered.
Takes ==
    /\ serving = NoRequest /\ backlog # <<>>
    /\ serving' = Head(backlog) /\ backlog' = Tail(backlog)
    /\ phase' = "begun"
    /\ UNCHANGED <<copies, known, kept, dropped, gone, requested>>

Answered == serving' = NoRequest /\ phase' = "begun"

\* Lost between its deletion and its insertion.
Breaks == gone' = IF phase # "begun" /\ serving.op = "update" THEN gone \cup {serving.note} ELSE gone

-----------------------------------------------------------------------------
\* remember and the second half of update refuse a text with absolute prices, ...
Refuse ==
    /\ serving.op = "remember" /\ phase = "begun" /\ ~serving.relative
    /\ Answered
    /\ UNCHANGED <<backlog, copies, known, kept, dropped, gone, requested>>

\* ... embed the text, ...
Embed ==
    /\ \/ serving.op = "remember" /\ phase = "begun" /\ serving.relative
       \/ serving.op = "update" /\ phase = "deleted" /\ serving.relative
    /\ phase' = "embedded"
    /\ UNCHANGED <<backlog, serving, copies, known, kept, dropped, gone, requested>>

\* ... and insert it.  The answer tells the id, to a sender that has not given up.
Insert ==
    /\ serving.op \in {"remember", "update"} /\ phase = "embedded"
    /\ copies' = [copies EXCEPT ![serving.note] = @ + 1]
    /\ kept' = kept \cup {serving.note}
    /\ known' \in {known, known \cup {serving.note}}
    /\ Answered
    /\ UNCHANGED <<backlog, dropped, gone, requested>>

\* Mutant: the text is looked at by remember alone, after the deletion.
GuardLater == TRUE

\* update looks at the new text before it deletes the note.
Guard == serving.relative

\* update: a note that is not there cannot be rewritten, nor one that would be refused.
UpdateRefused ==
    /\ serving.op = "update"
    /\ \/ phase = "begun" /\ (copies[serving.note] = 0 \/ ~Guard)
       \/ phase = "deleted" /\ ~serving.relative
    /\ Answered
    /\ UNCHANGED <<backlog, copies, known, kept, dropped, gone, requested>>

\* Its first half deletes the note.
UpdateDeletes ==
    /\ serving.op = "update" /\ phase = "begun" /\ copies[serving.note] > 0 /\ Guard
    /\ copies' = [copies EXCEPT ![serving.note] = 0]
    /\ phase' = "deleted"
    /\ UNCHANGED <<backlog, serving, known, kept, dropped, gone, requested>>

Forget ==
    /\ serving.op = "forget"
    /\ copies' = [copies EXCEPT ![serving.note] = 0]
    /\ dropped' = IF copies[serving.note] > 0 THEN dropped \cup {serving.note} ELSE dropped
    /\ Answered
    /\ UNCHANGED <<backlog, known, kept, gone, requested>>

\* recall and find_pattern: what is in the table.
Recalls ==
    /\ serving.op = "recall"
    /\ known' = known \cup {n \in Notes : copies[n] > 0}
    /\ Answered
    /\ UNCHANGED <<backlog, copies, kept, dropped, gone, requested>>

\* A step raises, in the embedding or in the store: the request is answered with an error.
Fails ==
    /\ serving # NoRequest
    /\ Answered /\ Breaks
    /\ UNCHANGED <<backlog, copies, known, kept, dropped, requested>>

\* The process ends, and another begins with the table as it is.
EndOfService ==
    /\ backlog' = <<>>
    /\ Answered /\ Breaks
    /\ UNCHANGED <<copies, known, kept, dropped, requested>>

MemoryNext ==
    \/ \E r \in Request \cup {Recall} : Asks(r)
    \/ Takes \/ Refuse \/ Embed \/ Insert
    \/ UpdateRefused \/ UpdateDeletes \/ Forget \/ Recalls
    \/ Fails \/ EndOfService

MemorySpec == MemoryInit /\ [][MemoryNext]_memoryVars

-----------------------------------------------------------------------------
(* Properties.                                                             *)

\* A note that was stored stays, once, until it is forgotten: no rewriting loses or doubles
\* it, refused ones included, other than one that failed after it had deleted the note, and
\* nothing else is served while a note is away.
NotesStay ==
    /\ \A n \in Notes : copies[n] <= 1
    /\ \A n \in kept \ (dropped \cup gone) :
          copies[n] = 1 \/ (serving.op = "update" /\ serving.note = n /\ phase # "begun")
===============================================================================
