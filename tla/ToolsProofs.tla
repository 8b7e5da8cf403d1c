----------------------------- MODULE ToolsProofs -----------------------------
(***************************************************************************)
(* Theorems about what the tools of an agent leave behind: the turns of a  *)
(* cycle, the notes of the agents, and the terms of a position.            *)
(***************************************************************************)
EXTENDS ToolTurns, SemanticMemory, PositionTerms, TLAPS

-----------------------------------------------------------------------------
(* The turns of a cycle.                                                   *)

\* A trading call that may have reached the venue counts as executed when its turn has
\* ended, and until then it is one of the calls of the turn that were tried.
ReachedAreCounted ==
    /\ stage = "running" =>
          /\ Len(results) <= Len(batch)
          /\ reached \subseteq executed \cup {batch[i] : i \in 1..Len(results)}
    /\ stage \in {"asking", "leaving", "deciding"} =>
          reached \subseteq executed /\ batch = <<>> /\ results = <<>>
    /\ stage = "done" => reached \subseteq executed
    /\ stage # "done" => ~fallback
    /\ fallback => executed \cap Trading = {}

\* Whoever leaves the loop owing a call has no reminder or no turn left, and then tells so.
LeavesAccounted ==
    /\ stage = "asking" => turn <= MaxToolTurns
    /\ stage = "running" => turn < MaxToolTurns
    /\ stage \in {"leaving", "deciding", "done"} =>
          Unmet = {} \/ reminders = MaxReminders \/ turn >= MaxToolTurns
    /\ stage \in {"deciding", "done"} => Unmet = {} \/ told

TurnInv == TurnTypeOK /\ ReachedAreCounted /\ LeavesAccounted

LEMMA TurnInvInit == TurnInit => TurnInv
<1> SUFFICES ASSUME TurnInit PROVE TurnInv
  OBVIOUS
<1> USE DEF TurnInit
<1>1. turn \in 0..MaxToolTurns + 1 /\ reminders \in 0..MaxReminders /\ turn <= MaxToolTurns
  BY ToolTurnsAssumption
<1>2. stage \in Stages /\ kind \in CycleKinds /\ finalText \in Sayings
  BY DEF Stages, Sayings
<1>3. batch \in Seq(ModelCalls) /\ results \in Seq(Outcomes)
  OBVIOUS
<1>4. TurnTypeOK
  BY <1>1, <1>2, <1>3 DEF TurnTypeOK
<1> QED  BY <1>1, <1>4 DEF TurnInv, ReachedAreCounted, LeavesAccounted

LEMMA TurnInvStep == TurnInv /\ [TurnNext]_turnVars => TurnInv'
<1> SUFFICES ASSUME TurnInv, [TurnNext]_turnVars PROVE TurnInv'
  OBVIOUS
<1> USE ToolTurnsAssumption
        DEF TurnInv, TurnTypeOK, Stages, Outcomes, ReachedAreCounted, LeavesAccounted
<1>1. ASSUME NEW said \in Sayings, AnswerInWords(said) PROVE TurnInv'
  <2>1. Unmet' = Unmet
    BY <1>1 DEF AnswerInWords, Unmet
  <2>2. CASE Unmet # {} /\ reminders < MaxReminders
    BY <1>1, <2>1, <2>2 DEF AnswerInWords
  <2>3. CASE ~(Unmet # {} /\ reminders < MaxReminders)
    BY <1>1, <2>1, <2>3 DEF AnswerInWords
  <2> QED  BY <2>2, <2>3
<1>2. ASSUME NEW said \in Sayings, NEW calls \in BoundedSeq(ModelCalls, MaxBatch),
             AnswerWithCalls(calls, said)
      PROVE  TurnInv'
  <2>1. calls \in Seq(ModelCalls)
    BY DEF BoundedSeq, SeqOf
  <2>2. Unmet' = Unmet
    BY <1>2 DEF AnswerWithCalls, Unmet
  <2>3. CASE turn >= MaxToolTurns
    BY <1>2, <2>2, <2>3 DEF AnswerWithCalls
  <2>4. CASE turn < MaxToolTurns
    <3>1. /\ stage = "asking" /\ stage' = "running" /\ batch' = calls /\ finalText' = said
          /\ UNCHANGED <<kind, turn, results, executed, reminders, told, reached, fallback>>
      BY <1>2, <2>4 DEF AnswerWithCalls
    <3>2. results = <<>> /\ Len(results') = 0 /\ Len(batch') \in Nat
      BY <2>1, <3>1
    <3>3. TurnTypeOK'
      BY <2>1, <3>1
    <3>4. ReachedAreCounted'
      BY <3>1, <3>2
    <3>5. LeavesAccounted'
      BY <2>4, <3>1
    <3> QED  BY <3>3, <3>4, <3>5
  <2>5. turn >= MaxToolTurns \/ turn < MaxToolTurns
    OBVIOUS
  <2> QED  BY <2>3, <2>4, <2>5, Zenon
<1>3. CASE ModelFails
  BY <1>3 DEF ModelFails
<1>4. ASSUME NEW outcome \in Outcomes, ExecuteCall(outcome) PROVE TurnInv'
  <2>1. /\ Len(results') = Len(results) + 1 /\ Len(results') \in Nat
        /\ results' \in Seq(Outcomes)
    BY <1>4 DEF ExecuteCall
  <2>2. {batch[i] : i \in 1..Len(results')} =
           {batch[i] : i \in 1..Len(results)} \cup {batch[Len(results) + 1]}
    BY <2>1
  <2>3. reached' \subseteq reached \cup ({batch[Len(results) + 1]} \cap Trading)
    BY <1>4 DEF ExecuteCall
  <2>4. reached' \subseteq executed' \cup {batch'[i] : i \in 1..Len(results')}
    BY <1>4, <2>2, <2>3 DEF ExecuteCall
  <2>5. reached' \in SUBSET Trading
    BY <2>3
  <2>6. Unmet' = Unmet
    BY <1>4 DEF ExecuteCall, Unmet
  <2> QED  BY <1>4, <2>1, <2>4, <2>5, <2>6 DEF ExecuteCall
<1>5. CASE EndOfTurn
  <2>1. {batch[i] : i \in 1..Len(results)} \subseteq ToSet(batch)
    BY <1>5 DEF EndOfTurn, ToSet
  <2>2. executed' = executed \cup ToSet(batch) /\ ToSet(batch) \subseteq ModelCalls
    BY <1>5 DEF EndOfTurn, Counting, ToSet
  <2>3. reached' \subseteq executed'
    BY <1>5, <2>1, <2>2 DEF EndOfTurn
  <2> QED  BY <1>5, <2>2, <2>3 DEF EndOfTurn
<1>6. CASE LeaveLoop
  <2>1. Unmet' = Unmet
    BY <1>6 DEF LeaveLoop, Unmet
  <2> QED  BY <1>6, <2>1 DEF LeaveLoop
<1>7. CASE SchemaFails
  BY <1>7 DEF SchemaFails
<1>8. CASE Decide
  <2>1. Unmet' = Unmet
    BY <1>8 DEF Decide, Unmet
  <2>2. fallback' => executed' \cap Trading = {}
    BY <1>8 DEF Decide, MayPlace
  <2>3. told' \in BOOLEAN /\ fallback' \in BOOLEAN /\ (told => told')
    BY <1>8 DEF Decide
  <2> QED  BY <1>8, <2>1, <2>2, <2>3 DEF Decide
<1>9. CASE CancelCycle
  BY <1>9 DEF CancelCycle
<1>10. CASE UNCHANGED turnVars
  BY <1>10 DEF turnVars, Unmet
<1> QED  BY <1>1, <1>2, <1>3, <1>4, <1>5, <1>6, <1>7, <1>8, <1>9, <1>10 DEF TurnNext

\* The fallback of a broker agent adds no order to one of the model's own, and no cycle ends
\* owing a call in silence, for all tools, requirements and limits.
THEOREM CarriedOutOnce == TurnSpec => []DecisionsCarriedOutOnce
<1>1. TurnInv => DecisionsCarriedOutOnce
  BY DEF TurnInv, TurnTypeOK, ReachedAreCounted, LeavesAccounted, DecisionsCarriedOutOnce
<1> QED  BY <1>1, TurnInvInit, TurnInvStep, PTL DEF TurnSpec

-----------------------------------------------------------------------------
(* Notes.                                                                  *)

Remembers(q) == q.op = "remember"
KnowsItsNote(q) == q.op \in {"forget", "update"} => q.note \in known
IsNew(q) == Remembers(q) => q.note \notin kept

\* The requests on their way: new notes have ids of their own, and a note that is to be
\* changed is one that an agent has learned of.
OnTheWay ==
    /\ KnowsItsNote(serving) /\ IsNew(serving)
    /\ \A i \in DOMAIN backlog :
          /\ KnowsItsNote(backlog[i]) /\ IsNew(backlog[i])
          /\ Remembers(backlog[i]) /\ Remembers(serving) => backlog[i].note # serving.note
    /\ \A i, j \in DOMAIN backlog :
          i # j /\ Remembers(backlog[i]) /\ Remembers(backlog[j]) => backlog[i].note # backlog[j].note

\* How far a request can be: only a rewriting deletes, and what it deletes is to come back.
Phases ==
    /\ phase # "begun" => serving.op \in {"remember", "update"}
    /\ phase = "deleted" => serving.op = "update" /\ serving.relative
    /\ serving.op = "update" /\ phase # "begun" => copies[serving.note] = 0

\* The table has each id once, and only ids that were stored; no other is known.
TableKnown ==
    /\ known \subseteq kept
    /\ \A n \in Notes : copies[n] <= 1 /\ (n \notin kept => copies[n] = 0)

MemoryInv == MemoryTypeOK /\ OnTheWay /\ Phases /\ TableKnown /\ NotesStay

LEMMA MemoryInvInit == MemoryInit => MemoryInv
<1> SUFFICES ASSUME MemoryInit PROVE MemoryInv
  OBVIOUS
<1> USE DEF MemoryInit
<1>1. MemoryTypeOK
  BY SemanticMemoryAssumption DEF MemoryTypeOK
<1>2. OnTheWay /\ Phases /\ TableKnown /\ NotesStay
  BY DEF OnTheWay, Phases, TableKnown, NotesStay, KnowsItsNote, IsNew, Remembers, NoRequest
<1> QED  BY <1>1, <1>2 DEF MemoryInv

\* Answering a request ends its work and leaves the others on their way.
LEMMA AnsweringKeeps ==
    ASSUME MemoryInv, Answered, UNCHANGED backlog, known \subseteq known',
           \A i \in DOMAIN backlog : IsNew(backlog[i])'
    PROVE  OnTheWay' /\ Phases' /\ serving' \in Request \cup {Recall, NoRequest}
           /\ phase' \in {"begun", "deleted", "embedded"}
  BY DEF MemoryInv, OnTheWay, Phases, Answered, KnowsItsNote, IsNew, Remembers, NoRequest

LEMMA MemoryInvStep == MemoryInv /\ [MemoryNext]_memoryVars => MemoryInv'
<1> SUFFICES ASSUME MemoryInv, [MemoryNext]_memoryVars PROVE MemoryInv'
  OBVIOUS
<1> USE DEF MemoryInv
<1>1. ASSUME NEW r \in Request \cup {Recall}, Asks(r) PROVE MemoryInv'
  <2>1. CASE Len(backlog) >= Backlog
    BY <1>1, <2>1, SemanticMemoryAssumption
       DEF Asks, MemoryTypeOK, OnTheWay, Phases, TableKnown, NotesStay, KnowsItsNote, IsNew, Remembers
  <2>2. CASE Len(backlog) < Backlog
    <3> DEFINE b == Append(backlog, r)
    <3>1. backlog \in Seq(Request \cup {Recall})
      BY DEF MemoryTypeOK
    <3>2. /\ b \in Seq(Request \cup {Recall}) /\ Len(b) = Len(backlog) + 1 /\ Len(b) \in Nat
          /\ DOMAIN b = DOMAIN backlog \cup {Len(b)} /\ Len(b) \notin DOMAIN backlog
          /\ b[Len(b)] = r
          /\ \A i \in DOMAIN backlog : b[i] = backlog[i]
      BY <3>1
    <3>3. backlog' = b
      BY <1>1, <2>2 DEF Asks
    <3>4. MemoryTypeOK'
      BY <1>1, <2>2, <3>2, <3>3, SemanticMemoryAssumption DEF Asks, MemoryTypeOK
    <3>5. KnowsItsNote(r) /\ IsNew(r)
      BY <1>1 DEF Asks, KnowsItsNote, IsNew, Remembers
    <3>6. \A i \in DOMAIN backlog :
             Remembers(backlog[i]) /\ Remembers(r) => backlog[i].note # r.note
      BY <1>1 DEF Asks, Remembers
    <3>7. Remembers(serving) /\ Remembers(r) => serving.note # r.note
      BY <1>1 DEF Asks, Remembers
    <3> HIDE DEF b
    <3>8. OnTheWay'
      BY <1>1, <3>2, <3>3, <3>5, <3>6, <3>7 DEF Asks, OnTheWay, KnowsItsNote, IsNew, Remembers
    <3>9. Phases' /\ TableKnown' /\ NotesStay'
      BY <1>1 DEF Asks, Phases, TableKnown, NotesStay
    <3> QED  BY <3>4, <3>8, <3>9
  <2>3. Len(backlog) \in Nat
    BY DEF MemoryTypeOK
  <2> QED  BY <2>1, <2>2, <2>3, SemanticMemoryAssumption
<1>2. CASE Takes
  <2>1. backlog \in Seq(Request \cup {Recall}) /\ backlog # <<>>
    BY <1>2 DEF Takes, MemoryTypeOK
  <2>2. /\ backlog[1] \in Request \cup {Recall} /\ 1 \in DOMAIN backlog
        /\ Head(backlog) = backlog[1]
        /\ Tail(backlog) \in Seq(Request \cup {Recall}) /\ Len(Tail(backlog)) <= Len(backlog)
        /\ \A i \in DOMAIN Tail(backlog) :
              i + 1 \in DOMAIN backlog /\ Tail(backlog)[i] = backlog[i + 1] /\ i + 1 # 1
        /\ \A i, j \in DOMAIN Tail(backlog) : i # j => i + 1 # j + 1
    BY <2>1
  <2>3. MemoryTypeOK'
    BY <1>2, <2>2, SemanticMemoryAssumption DEF Takes, MemoryTypeOK
  <2>4. OnTheWay'
    <3>1. serving' = backlog[1] /\ backlog' = Tail(backlog) /\ known' = known /\ kept' = kept
      BY <1>2, <2>2 DEF Takes
    <3>2. KnowsItsNote(serving)' /\ IsNew(serving)'
      BY <2>2, <3>1 DEF OnTheWay, KnowsItsNote, IsNew
    <3>3. \A i \in DOMAIN backlog' :
             /\ KnowsItsNote(backlog[i])' /\ IsNew(backlog[i])'
             /\ Remembers(backlog'[i]) /\ Remembers(serving') => backlog'[i].note # serving'.note
      BY <2>2, <3>1 DEF OnTheWay, KnowsItsNote, IsNew
    <3>4. \A i, j \in DOMAIN backlog' :
             i # j /\ Remembers(backlog'[i]) /\ Remembers(backlog'[j])
                => backlog'[i].note # backlog'[j].note
      BY <2>2, <3>1 DEF OnTheWay
    <3> QED  BY <3>2, <3>3, <3>4 DEF OnTheWay, Remembers
  <2>5. Phases' /\ TableKnown' /\ NotesStay'
    BY <1>2 DEF Takes, Phases, TableKnown, NotesStay, NoRequest
  <2> QED  BY <2>3, <2>4, <2>5
<1>3. CASE Refuse
  <2>1. OnTheWay' /\ Phases' /\ MemoryTypeOK'
    BY <1>3, AnsweringKeeps DEF Refuse, OnTheWay, IsNew, MemoryTypeOK
  <2>2. TableKnown' /\ NotesStay'
    BY <1>3 DEF Refuse, TableKnown, NotesStay, Answered
  <2> QED  BY <2>1, <2>2
<1>4. CASE Embed
  <2>1. MemoryTypeOK' /\ OnTheWay'
    BY <1>4 DEF Embed, MemoryTypeOK, OnTheWay, KnowsItsNote, IsNew, Remembers
  <2>2. Phases' /\ TableKnown' /\ NotesStay'
    BY <1>4 DEF Embed, Phases, TableKnown, NotesStay
  <2> QED  BY <2>1, <2>2
<1>5. CASE Insert
  <2>1. serving \in Request /\ serving.note \in Notes
    BY <1>5 DEF Insert, MemoryTypeOK, Request, Recall, NoRequest
  <2>2. copies[serving.note] = 0
    BY <1>5, <2>1 DEF Insert, Phases, TableKnown, OnTheWay, IsNew, Remembers
  <2>3. /\ copies' \in [Notes -> 0..2]
        /\ copies'[serving.note] = 1
        /\ \A n \in Notes : n # serving.note => copies'[n] = copies[n]
    BY <1>5, <2>1, <2>2 DEF Insert, MemoryTypeOK
  <2>4. \A i \in DOMAIN backlog : IsNew(backlog[i])'
    <3>1. kept' = kept \cup {serving.note} /\ backlog' = backlog
      BY <1>5 DEF Insert
    <3>2. CASE serving.op = "remember"
      BY <3>1, <3>2 DEF OnTheWay, IsNew, Remembers
    <3>3. CASE serving.op = "update"
      <4>1. kept' = kept
        BY <3>1, <3>3 DEF OnTheWay, KnowsItsNote, TableKnown
      <4> QED  BY <3>1, <4>1 DEF OnTheWay, IsNew, Remembers
    <3> QED  BY <1>5, <3>2, <3>3 DEF Insert
  <2>5. OnTheWay' /\ Phases' /\ MemoryTypeOK'
    BY <1>5, <2>1, <2>3, <2>4, AnsweringKeeps DEF Insert, MemoryTypeOK
  <2>6. TableKnown' /\ NotesStay'
    BY <1>5, <2>1, <2>3 DEF Insert, TableKnown, NotesStay, Answered
  <2> QED  BY <2>5, <2>6
<1>6. CASE UpdateRefused
  <2>1. phase = "begun"
    BY <1>6 DEF UpdateRefused, Phases
  <2>2. OnTheWay' /\ Phases' /\ MemoryTypeOK'
    BY <1>6, AnsweringKeeps DEF UpdateRefused, OnTheWay, IsNew, MemoryTypeOK
  <2>3. TableKnown' /\ NotesStay'
    BY <1>6, <2>1 DEF UpdateRefused, TableKnown, NotesStay, Answered
  <2> QED  BY <2>2, <2>3
<1>7. CASE UpdateDeletes
  <2>1. serving \in Request /\ serving.note \in Notes
    BY <1>7 DEF UpdateDeletes, MemoryTypeOK, Request, Recall, NoRequest
  <2>2. /\ copies' \in [Notes -> 0..2]
        /\ copies'[serving.note] = 0
        /\ \A n \in Notes : n # serving.note => copies'[n] = copies[n]
    BY <1>7, <2>1 DEF UpdateDeletes, MemoryTypeOK
  <2>3. MemoryTypeOK' /\ OnTheWay'
    BY <1>7, <2>2 DEF UpdateDeletes, MemoryTypeOK, OnTheWay, KnowsItsNote, IsNew, Remembers
  <2>4. Phases' /\ TableKnown' /\ NotesStay'
    BY <1>7, <2>1, <2>2 DEF UpdateDeletes, Guard, Phases, TableKnown, NotesStay
  <2> QED  BY <2>3, <2>4
<1>8. CASE Forget
  <2>1. serving \in Request /\ serving.note \in Notes
    BY <1>8 DEF Forget, MemoryTypeOK, Request, Recall, NoRequest
  <2>2. /\ copies' \in [Notes -> 0..2]
        /\ copies'[serving.note] = 0
        /\ \A n \in Notes : n # serving.note => copies'[n] = copies[n]
        /\ dropped \subseteq dropped' /\ dropped' \in SUBSET Notes
        /\ copies[serving.note] > 0 => serving.note \in dropped'
    BY <1>8, <2>1 DEF Forget, MemoryTypeOK
  <2>3. OnTheWay' /\ Phases' /\ MemoryTypeOK'
    BY <1>8, <2>2, AnsweringKeeps DEF Forget, OnTheWay, IsNew, MemoryTypeOK
  <2>4. TableKnown' /\ NotesStay'
    BY <1>8, <2>1, <2>2 DEF Forget, TableKnown, NotesStay, Answered, MemoryTypeOK
  <2> QED  BY <2>3, <2>4
<1>9. CASE Recalls
  <2>1. known \subseteq known' /\ known' \subseteq kept /\ kept' = kept
    BY <1>9 DEF Recalls, TableKnown, MemoryTypeOK
  <2>2. OnTheWay' /\ Phases' /\ MemoryTypeOK'
    BY <1>9, <2>1, AnsweringKeeps DEF Recalls, OnTheWay, IsNew, MemoryTypeOK
  <2>3. TableKnown' /\ NotesStay'
    BY <1>9, <2>1 DEF Recalls, TableKnown, NotesStay, Answered
  <2> QED  BY <2>2, <2>3
<1>10. CASE Fails \/ EndOfService
  <2>1. /\ gone \subseteq gone' /\ gone' \in SUBSET Notes
        /\ serving.op = "update" /\ phase # "begun" => serving.note \in gone'
    BY <1>10 DEF Fails, EndOfService, Breaks, MemoryTypeOK, Request, Recall, NoRequest
  <2>2. backlog' = backlog \/ backlog' = <<>>
    BY <1>10 DEF Fails, EndOfService
  <2>3. OnTheWay' /\ Phases' /\ MemoryTypeOK'
    <3>1. CASE backlog' = backlog
      BY <1>10, <2>1, <3>1, AnsweringKeeps DEF Fails, EndOfService, OnTheWay, IsNew, MemoryTypeOK
    <3>2. CASE backlog' = <<>>
      BY <1>10, <2>1, <3>2, SemanticMemoryAssumption
         DEF Fails, EndOfService, Answered, OnTheWay, Phases, KnowsItsNote, IsNew, Remembers,
             MemoryTypeOK, NoRequest
    <3> QED  BY <2>2, <3>1, <3>2
  <2>4. TableKnown' /\ NotesStay'
    BY <1>10, <2>1 DEF Fails, EndOfService, Answered, TableKnown, NotesStay
  <2> QED  BY <2>3, <2>4
<1>11. CASE UNCHANGED memoryVars
  BY <1>11 DEF memoryVars, MemoryTypeOK, OnTheWay, Phases, TableKnown, NotesStay,
               KnowsItsNote, IsNew, Remembers
<1> QED  BY <1>1, <1>2, <1>3, <1>4, <1>5, <1>6, <1>7, <1>8, <1>9, <1>10, <1>11 DEF MemoryNext

\* No note is lost or doubled but by a rewriting that broke off after its deletion, whatever
\* the agents ask for and wherever the service fails.
THEOREM NotesAreKept == MemorySpec => []NotesStay
<1>1. MemoryInv => NotesStay
  BY DEF MemoryInv
<1> QED  BY <1>1, MemoryInvInit, MemoryInvStep, PTL DEF MemorySpec

-----------------------------------------------------------------------------
(* The terms of a position.                                                *)

LEMMA LeftTyped ==
    ASSUME venue \in Terms, NEW u \in Units
    PROVE  /\ Left(u) \in Terms /\ Left(u).units = u
           /\ u > 0 => Left(u).limits = venue.limits
BY PositionTermsAssumption DEF Left, Terms, LimitSet, Units

LEMMA GivenTyped ==
    ASSUME NEW f \in LimitSet, NEW g \in LimitSet
    PROVE  Given(f, g) \in LimitSet
BY DEF Given, LimitSet

Entries == [open: BOOLEAN, confirmed: BOOLEAN, units: Units, limits: LimitSet]
Passes == [there: BOOLEAN, limits: LimitSet, steady: BOOLEAN]
Views == [open: BOOLEAN, seen: Terms]
Desks == [call: TermCalls, seen: Terms, counted: Units]

\* What moves limits keeps the types.
LEMMA MoveTyped ==
    ASSUME TermsTypeOK, NEW t \in Terms, NEW e \in Entries, TermsMove(t, e)
    PROVE  /\ venue' \in Terms /\ entry' \in Entries
           /\ sync' \in Passes \cup {Idle} /\ settled' \in BOOLEAN
           /\ view' = view /\ UNCHANGED <<misled, overlooked, rounding>>
<1>1. sync' \in Passes \cup {Idle}
  <2>1. CASE sync' = sync
    BY <2>1 DEF TermsTypeOK, Passes
  <2>2. CASE sync # Idle /\ sync' = [sync EXCEPT !.steady = FALSE]
    <3>1. sync \in Passes
      BY <2>2 DEF TermsTypeOK, Passes
    <3> QED BY <2>2, <3>1 DEF Passes
  <2> QED BY <2>1, <2>2 DEF TermsMove
<1>2. settled' \in BOOLEAN
  BY DEF TermsMove, TermsTypeOK
<1> QED BY <1>1, <1>2 DEF TermsMove

\* So does an answer: it ends the call, or tells it what was dealt.
LEMMA ReplyTyped ==
    ASSUME TermsTypeOK, desk # Idle, NEW outcome \in CallStages, Replies(outcome)
    PROVE  /\ desk.call \in TermCalls /\ desk.seen \in Terms /\ desk.counted \in Units
           /\ progress' \in [TermCalls -> CallStages]
           /\ wish' \in [TermCalls -> Closing \cup Modifying \cup {NoWish}]
           /\ desk' = Idle
<1>1. desk.call \in TermCalls /\ desk.seen \in Terms /\ desk.counted \in Units
  BY DEF TermsTypeOK
<1>2. progress' \in [TermCalls -> CallStages]
  BY <1>1 DEF Replies, TermsTypeOK
<1>3. wish' \in [TermCalls -> Closing \cup Modifying \cup {NoWish}]
  BY <1>1 DEF Replies, TermsTypeOK, Forgets
<1> QED BY <1>1, <1>2, <1>3 DEF Replies

\* The venue executes a deal of the volume sent, or nothing; and what was lost by rounding is
\* noted if the call is told of a part.
LEMMA CloseSent ==
    ASSUME TermsTypeOK, SendClose
    PROVE  /\ desk # Idle /\ desk.call \in TermCalls /\ wish[desk.call] \in Closing
           /\ desk.seen.units \in Nat /\ desk.counted \in Nat /\ Asked \in Nat
           /\ UNCHANGED <<entry, read, sync, view, misled>>
           /\ \/ /\ Replies(AnswerOf(FALSE)) /\ AnswerOf(FALSE) = "done"
                 /\ UNCHANGED <<venue, rounding>>
              \/ /\ Replies(AnswerOf(TRUE))
                 /\ AnswerOf(TRUE) = IF Asked = desk.counted THEN "closed" ELSE "reduced"
                 /\ \E volume \in Volumes :
                       /\ volume \in 1..venue.units
                       /\ venue.units - volume \in Units
                       /\ venue' = Left(venue.units - volume)
                       /\ venue' \in Terms /\ venue'.units = venue.units - volume
                       /\ rounding' = rounding + IF progress'[desk.call] = "reduced"
                                                    THEN Short(Asked, volume) ELSE 0
<1> USE PositionTermsAssumption
<1>1. /\ desk # Idle /\ desk.call \in TermCalls /\ wish[desk.call] \in Closing
      /\ desk.seen.units \in Nat /\ desk.counted \in Nat /\ venue.units \in Units
  BY DEF SendClose, TermsTypeOK, Terms, Units, Modifying, NoWish
<1>2. Asked \in Nat
  BY <1>1 DEF Asked, Closing
<1>3. UNCHANGED <<entry, read, sync, view, misled>>
  BY DEF SendClose, readerVars
<1>4. PICK volume \in Volumes :
         IF volume \in 1..venue.units
         THEN /\ venue' = Left(venue.units - volume) /\ Replies(AnswerOf(TRUE))
              /\ rounding' = rounding + IF progress'[desk.call] = "reduced"
                                           THEN Short(Asked, volume) ELSE 0
         ELSE /\ Replies(AnswerOf(FALSE))
              /\ UNCHANGED <<venue, rounding>>
  BY DEF SendClose
<1>5. CASE volume \in 1..venue.units
  <2>1. venue.units - volume \in Units
    BY <1>1, <1>5 DEF Units
  <2>2. venue' \in Terms /\ venue'.units = venue.units - volume
    BY <1>4, <1>5, <2>1, LeftTyped DEF TermsTypeOK
  <2>3. AnswerOf(TRUE) = IF Asked = desk.counted THEN "closed" ELSE "reduced"
    BY DEF AnswerOf, SendClose
  <2> QED BY <1>1, <1>2, <1>3, <1>4, <1>5, <2>1, <2>2, <2>3
<1>6. CASE volume \notin 1..venue.units
  <2>1. Replies(AnswerOf(FALSE)) /\ UNCHANGED <<venue, rounding>>
    BY <1>4, <1>6
  <2>2. AnswerOf(FALSE) = "done"
    BY DEF AnswerOf
  <2> QED BY <1>1, <1>2, <1>3, <2>1, <2>2
<1> QED BY <1>5, <1>6

LEMMA VolumesTyped ==
    ASSUME TermsTypeOK, desk # Idle, wish[desk.call].op = "close"
    PROVE  Volumes \subseteq Nat
<1>1. desk.seen.units \in Nat
  BY PositionTermsAssumption DEF TermsTypeOK, Terms, Units
<1>2. Rounded(Asked) \subseteq Nat
  BY PositionTermsAssumption DEF Rounded, Lots, Units
<1> QED BY <1>1, <1>2 DEF Volumes

LEMMA RoundedTyped ==
    ASSUME NEW u \in Nat
    PROVE  /\ Rounded(u) \subseteq Units
           /\ \A v \in Nat : Short(u, v) \in Nat /\ u <= v + Short(u, v)
BY PositionTermsAssumption DEF Rounded, Lots, Short

LEMMA CloseRounds ==
    ASSUME TermsTypeOK, SendClose PROVE rounding' \in Nat /\ rounding <= rounding'
<1>1. rounding \in Nat /\ Asked \in Nat /\ venue.units \in Nat
  <2>1. rounding \in Nat /\ venue.units \in Nat
    BY PositionTermsAssumption DEF TermsTypeOK, Terms, Units
  <2>2. Asked \in Nat
    BY CloseSent
  <2> QED BY <2>1, <2>2
<1>2. CASE rounding' = rounding
  BY <1>1, <1>2
<1>3. ASSUME NEW volume \in 1..venue.units,
             rounding' = rounding + IF progress'[desk.call] = "reduced"
                                      THEN Short(Asked, volume) ELSE 0
      PROVE  rounding' \in Nat /\ rounding <= rounding'
  <2>1. volume \in Nat
    BY <1>1
  <2>2. Short(Asked, volume) \in Nat
    BY <1>1, <2>1, RoundedTyped
  <2>3. CASE progress'[desk.call] = "reduced"
    BY <1>1, <1>3, <2>2, <2>3
  <2>4. CASE progress'[desk.call] # "reduced"
    BY <1>1, <1>3, <2>4
  <2> QED BY <2>3, <2>4
<1>4. \/ rounding' = rounding
      \/ \E volume \in 1..venue.units :
            rounding' = rounding + IF progress'[desk.call] = "reduced"
                                     THEN Short(Asked, volume) ELSE 0
  BY CloseSent
<1> QED BY <1>2, <1>3, <1>4

LEMMA TermsTypeInit == TermsInit => TermsTypeOK
<1> SUFFICES ASSUME TermsInit PROVE TermsTypeOK
  OBVIOUS
<1>1. Size \in Units /\ 0 \in Units /\ 0 \in 0..MaxTroubles
  BY PositionTermsAssumption DEF Units
<1>2. PICK limits \in LimitSet, volume \in Rounded(Size) \ {0} :
         /\ venue = [units |-> volume, limits |-> limits]
         /\ rounding = Short(volume, Size)
         /\ entry = [open |-> TRUE, confirmed |-> FALSE, units |-> Size, limits |-> limits]
  BY DEF TermsInit
<1>3. volume \in Units /\ rounding \in Nat
  BY <1>2, RoundedTyped, PositionTermsAssumption DEF Units, Short
<1> QED BY <1>1, <1>2, <1>3 DEF TermsInit, TermsTypeOK, Terms, CallStages

\* A call that has executed a deal is one to close, and when it took all the units there
\* were, none is left; one that has moved limits was asked to.
DealtCalls ==
    \A k \in TermCalls :
        /\ progress[k] \in {"closed", "closing"} => venue.units = 0
        /\ progress[k] \in {"reduced", "reducing"} => wish[k] \in Closing
        /\ progress[k] = "modified" => wish[k] \in Modifying

LEMMA TermsTypeStep == TermsTypeOK /\ DealtCalls /\ [TermsNext]_termVars => TermsTypeOK'
<1> SUFFICES ASSUME TermsTypeOK, DealtCalls, [TermsNext]_termVars PROVE TermsTypeOK'
  OBVIOUS
<1> USE PositionTermsAssumption
<1>0. 0 \in Units /\ Left(0) \in Terms /\ venue.units \in Units /\ venue.limits \in LimitSet
       /\ entry \in Entries /\ entry.units \in Units /\ entry.limits \in LimitSet
  BY LeftTyped DEF TermsTypeOK, Units, Terms, Entries
<1>1. ASSUME NEW k \in TermCalls, NEW w \in Closing \cup Modifying, AskFor(k, w)
      PROVE TermsTypeOK'
  BY <1>1 DEF AskFor, Goes, TermsTypeOK, CallStages, readerVars, pastVars
<1>2. ASSUME NEW k \in TermCalls, CallTimesOut(k) PROVE TermsTypeOK'
  BY <1>2 DEF CallTimesOut, Goes, TermsTypeOK, CallStages, readerVars, pastVars
<1>3. ASSUME NEW k \in TermCalls, FindEntry(k) PROVE TermsTypeOK'
  <2>1. progress' \in [TermCalls -> CallStages]
    BY <1>3 DEF FindEntry, Ends, Goes, TermsTypeOK, CallStages
  <2>2. wish' \in [TermCalls -> Closing \cup Modifying \cup {NoWish}]
    BY <1>3 DEF FindEntry, Ends, Forgets, TermsTypeOK
  <2>3. read' \in [TermCalls -> Units]
    BY <1>3, <1>0 DEF FindEntry, TermsTypeOK
  <2> QED BY <1>3, <2>1, <2>2, <2>3 DEF FindEntry, TermsTypeOK, readerVars, pastVars
<1>4. ASSUME NEW k \in TermCalls, RecordClose(k) PROVE TermsTypeOK'
  <2>1. progress' \in [TermCalls -> CallStages]
    BY <1>4 DEF RecordClose, Ends, Goes, TermsTypeOK, CallStages
  <2>2. wish' \in [TermCalls -> Closing \cup Modifying \cup {NoWish}]
    BY <1>4 DEF RecordClose, Ends, Forgets, TermsTypeOK
  <2>3. read' \in [TermCalls -> Units]
    BY <1>4, <1>0 DEF RecordClose, TermsTypeOK
  <2>4. entry' \in Entries
    <3>1. progress[k] = "reducing" => Remaining(k) \in Units
      <4>1. \A u \in Nat, w \in Nat : u <= Size + Lot => u - w <= Size + Lot
        OBVIOUS
      <4>2. progress[k] = "reducing" => wish[k].units \in Nat
        BY DEF DealtCalls, Closing
      <4>3. read[k] \in Nat /\ read[k] <= Size + Lot
        BY DEF TermsTypeOK, Units
      <4> QED BY <4>1, <4>2, <4>3 DEF Remaining, Units
    <3> QED BY <1>4, <1>0, <3>1 DEF RecordClose, Ends, Goes, Entries
  <2> QED BY <1>4, <2>1, <2>2, <2>3, <2>4
             DEF RecordClose, TermsTypeOK, readerVars, pastVars, Entries
<1>5. ASSUME NEW k \in TermCalls, RecordLimits(k) PROVE TermsTypeOK'
  <2>1. progress[k] = "modified" /\ wish[k].limits \in LimitSet
    BY <1>5 DEF RecordLimits, Ends, Goes, DealtCalls, Modifying
  <2>2. [entry EXCEPT !.limits = Given(wish[k].limits, @)] \in Entries
    BY <2>1, <1>0, GivenTyped DEF Entries
  <2>3. progress' \in [TermCalls -> CallStages]
    BY <1>5 DEF RecordLimits, Ends, Goes, TermsTypeOK, CallStages
  <2>4. wish' \in [TermCalls -> Closing \cup Modifying \cup {NoWish}]
    BY <1>5 DEF RecordLimits, Ends, Forgets, TermsTypeOK
  <2>5. TermsMove(venue, [entry EXCEPT !.limits = Given(wish[k].limits, @)]) /\ venue \in Terms
    BY <1>5 DEF RecordLimits, TermsTypeOK
  <2> QED BY <1>5, <2>2, <2>3, <2>4, <2>5, MoveTyped
             DEF RecordLimits, TermsTypeOK, Entries, Passes
<1>6. ASSUME NEW k \in TermCalls, RecordLost(k) PROVE TermsTypeOK'
  <2>1. progress' \in [TermCalls -> CallStages]
    BY <1>6 DEF RecordLost, Ends, Goes, TermsTypeOK, CallStages
  <2>2. wish' \in [TermCalls -> Closing \cup Modifying \cup {NoWish}]
    BY <1>6 DEF RecordLost, Ends, Forgets, TermsTypeOK
  <2>3. read' \in [TermCalls -> Units] /\ troubles' \in 0..MaxTroubles
    BY <1>6, <1>0 DEF RecordLost, TermsTypeOK, Trouble
  <2> QED BY <1>6, <2>1, <2>2, <2>3 DEF RecordLost, TermsTypeOK, readerVars, pastVars
<1>7. ASSUME NEW k \in TermCalls, TakeRequest(k) PROVE TermsTypeOK'
  <2>1. progress' \in [TermCalls -> CallStages]
    BY <1>7 DEF TakeRequest, TermsTypeOK, CallStages
  <2>2. wish' \in [TermCalls -> Closing \cup Modifying \cup {NoWish}]
    BY <1>7 DEF TakeRequest, Forgets, TermsTypeOK
  <2>3. desk' \in Desks \cup {Idle}
    <3>1. Readings(venue.units) \subseteq Units
      BY <1>0 DEF Readings, Units
    <3> QED BY <1>7, <3>1 DEF TakeRequest, TermsTypeOK, Desks
  <2> QED BY <1>7, <2>1, <2>2, <2>3
             DEF TakeRequest, TermsTypeOK, Desks, readerVars, pastVars
<1>8. ASSUME SendClose PROVE TermsTypeOK'
  <2>1. /\ desk # Idle /\ \E dealt \in BOOLEAN : Replies(AnswerOf(dealt))
        /\ venue' \in Terms
    BY <1>8, CloseSent DEF TermsTypeOK
  <2>3. rounding' \in Nat
    BY <1>8, CloseRounds
  <2>2. \A dealt \in BOOLEAN : AnswerOf(dealt) \in CallStages
    BY DEF AnswerOf, CallStages
  <2> QED BY <1>8, <2>1, <2>2, <2>3, ReplyTyped DEF SendClose, TermsTypeOK, readerVars
<1>9. ASSUME SendLimits PROVE TermsTypeOK'
  <2>1. /\ desk # Idle /\ \E dealt \in BOOLEAN : Replies(AnswerOf(dealt))
        /\ UNCHANGED <<read, asking, troubles>>
    BY <1>9 DEF SendLimits
  <2>2. \A dealt \in BOOLEAN : AnswerOf(dealt) \in CallStages
    BY DEF AnswerOf, CallStages
  <2>3. CASE UNCHANGED <<venue, entry, readerVars, pastVars>>
    BY <2>1, <2>2, <2>3, ReplyTyped DEF TermsTypeOK, readerVars, pastVars
  <2>4. CASE TermsMove([venue EXCEPT !.limits = Given(wish[desk.call].limits, desk.seen.limits)],
                       entry)
    <3>1. wish[desk.call].limits \in LimitSet /\ desk.seen.limits \in LimitSet
      BY <1>9 DEF SendLimits, TermsTypeOK, Closing, Modifying, NoWish, Terms
    <3>2. [venue EXCEPT !.limits = Given(wish[desk.call].limits, desk.seen.limits)] \in Terms
      BY <3>1, GivenTyped DEF TermsTypeOK, Terms
    <3>3. /\ venue' \in Terms /\ entry' \in Entries
          /\ sync' \in Passes \cup {Idle} /\ settled' \in BOOLEAN
          /\ view' = view /\ UNCHANGED <<misled, overlooked, rounding>>
      BY <2>4, <3>2, <1>0, MoveTyped
    <3> QED BY <2>1, <2>2, <3>3, ReplyTyped DEF TermsTypeOK, Entries, Passes
  <2> QED BY <1>9, <2>3, <2>4 DEF SendLimits
<1>10. ASSUME SendFails PROVE TermsTypeOK'
  <2>1. "done" \in CallStages /\ troubles' \in 0..MaxTroubles
    BY <1>10 DEF CallStages, SendFails, Trouble, TermsTypeOK
  <2>2. venue' \in Terms
    <3>1. ASSUME NEW volume \in Nat, volume <= venue.units, NEW part \in 1..volume
          PROVE  Left(venue.units - part) \in Terms
      <4>1. venue.units - part \in Units
        BY <3>1, <1>0 DEF Units
      <4> QED BY <4>1, LeftTyped DEF TermsTypeOK
    <3>2. desk # Idle /\ wish[desk.call].op = "close" => Volumes \subseteq Nat
      BY VolumesTyped
    <3> QED BY <1>10, <3>1, <3>2 DEF SendFails, TermsTypeOK
  <2> QED BY <1>10, <2>1, <2>2, ReplyTyped DEF SendFails, TermsTypeOK, readerVars, pastVars
<1>11. ASSUME NEW u \in Lots, HandCloses(u) PROVE TermsTypeOK'
  BY <1>11, LeftTyped DEF HandCloses, Trouble, TermsTypeOK, callVars, readerVars, pastVars, Lots
<1>12. ASSUME NEW f \in LimitSet, HandMoves(f) PROVE TermsTypeOK'
  <2>1. [venue EXCEPT !.limits = f] \in Terms
    BY DEF TermsTypeOK, Terms
  <2>2. /\ venue' \in Terms /\ entry' \in Entries
        /\ sync' \in Passes \cup {Idle} /\ settled' \in BOOLEAN
        /\ view' = view /\ UNCHANGED <<misled, overlooked, rounding>>
    BY <1>12, <2>1, <1>0, MoveTyped DEF HandMoves
  <2> QED BY <1>12, <2>2 DEF HandMoves, Trouble, TermsTypeOK, Entries, Passes, callVars
<1>13. ASSUME SyncReads PROVE TermsTypeOK'
  <2>1. sync' \in Passes
    <3> DEFINE calm == \A k \in TermCalls : progress[k] # "modified"
    <3>1. calm \in BOOLEAN
      OBVIOUS
    <3>2. PICK there \in {venue.units > 0, FALSE} :
             sync' = [there |-> there, limits |-> venue.limits, steady |-> calm]
      BY <1>13 DEF SyncReads
    <3>3. there = TRUE \/ there = FALSE
      <4>1. there = (venue.units > 0) \/ there = FALSE
        BY <3>2
      <4> QED BY <4>1
    <3> HIDE DEF calm
    <3> QED BY <1>0, <3>1, <3>2, <3>3 DEF Passes
  <2> QED BY <1>13, <2>1 DEF SyncReads, Trouble, TermsTypeOK, Passes, callVars, pastVars
<1>14. ASSUME SyncRefreshes PROVE TermsTypeOK'
  <2>1. sync \in Passes
    BY <1>14 DEF SyncRefreshes, TermsTypeOK, Passes
  <2>2. entry' \in Entries /\ settled' \in BOOLEAN
    BY <1>14, <2>1, <1>0, GivenTyped DEF SyncRefreshes, Refreshed, Entries, Passes
  <2> QED BY <1>14, <2>2 DEF SyncRefreshes, TermsTypeOK, Entries, callVars
<1>15. ASSUME SyncSweeps PROVE TermsTypeOK'
  <2>1. entry' \in Entries
    BY <1>15, <1>0 DEF SyncSweeps, Entries
  <2>2. overlooked' \in BOOLEAN
    BY <1>15 DEF SyncSweeps, TermsTypeOK
  <2> QED BY <1>15, <2>1, <2>2 DEF SyncSweeps, TermsTypeOK, Entries, callVars
<1>16. ASSUME ViewReads PROVE TermsTypeOK'
  <2>1. view' \in Views
    <3>1. \A n \in Readings(venue.units) : [venue EXCEPT !.units = n] \in Terms
      BY <1>0 DEF Readings, Units, TermsTypeOK, Terms
    <3>2. ASSUME NEW b \in BOOLEAN, view' = [open |-> b, seen |-> Left(0)] PROVE view' \in Views
      BY <1>0, <3>2 DEF Views
    <3>3. CASE \E n \in Readings(venue.units) :
                  view' = [open |-> TRUE, seen |-> [venue EXCEPT !.units = n]]
      BY <3>1, <3>3 DEF Views
    <3>4. \/ \E n \in Readings(venue.units) :
                view' = [open |-> TRUE, seen |-> [venue EXCEPT !.units = n]]
          \/ view' = [open |-> TRUE, seen |-> Left(0)]
          \/ view' = [open |-> FALSE, seen |-> Left(0)]
      BY <1>16 DEF ViewReads
    <3>5. TRUE \in BOOLEAN /\ FALSE \in BOOLEAN
      OBVIOUS
    <3> QED BY <3>2, <3>3, <3>4, <3>5
  <2>2. rounding' \in Nat /\ troubles' \in 0..MaxTroubles
    BY <1>16 DEF ViewReads, Trouble, TermsTypeOK
  <2> QED BY <1>16, <2>1, <2>2 DEF ViewReads, TermsTypeOK, Views, callVars
<1>17. ASSUME ViewRefreshes PROVE TermsTypeOK'
  <2>1. view \in Views /\ view.seen \in Terms
    BY <1>17 DEF ViewRefreshes, TermsTypeOK, Views
  <2>2. entry' \in Entries
    <3>1. Given(view.seen.limits, entry.limits) \in LimitSet /\ view.seen.units \in Units
      BY <1>0, <2>1, GivenTyped DEF Terms
    <3>2. CASE entry' = [open |-> TRUE, confirmed |-> TRUE, units |-> view.seen.units,
                         limits |-> Given(view.seen.limits, entry.limits)]
      BY <3>1, <3>2 DEF Entries
    <3>3. CASE entry' = [entry EXCEPT !.open = @ /\ ~view.open, !.confirmed = TRUE]
      <4>1. (entry.open /\ ~view.open) \in BOOLEAN
        OBVIOUS
      <4> QED BY <1>0, <3>3, <4>1 DEF Entries
    <3> QED BY <1>0, <1>17, <3>2, <3>3 DEF ViewRefreshes
  <2>3. sync' \in Passes \cup {Idle}
    BY <1>17 DEF ViewRefreshes, TermsTypeOK, Passes
  <2>4. settled' \in BOOLEAN
    BY <1>17 DEF ViewRefreshes, TermsTypeOK
  <2>5. misled' \in BOOLEAN /\ overlooked' \in BOOLEAN
    BY <1>17 DEF ViewRefreshes, TermsTypeOK
  <2> QED BY <1>17, <2>2, <2>3, <2>4, <2>5
             DEF ViewRefreshes, TermsTypeOK, Entries, Passes, callVars
<1>18. ASSUME TermsRestart PROVE TermsTypeOK'
  BY <1>18, <1>0 DEF TermsRestart, Trouble, TermsTypeOK, CallStages, pastVars
<1>19. CASE UNCHANGED termVars
  BY <1>19 DEF termVars, callVars, readerVars, pastVars, TermsTypeOK
<1> QED BY <1>1, <1>2, <1>3, <1>4, <1>5, <1>6, <1>7, <1>8, <1>9, <1>10, <1>11, <1>12, <1>13,
           <1>14, <1>15, <1>16, <1>17, <1>18, <1>19 DEF TermsNext

\* The position only gets smaller, and what is left of it keeps its limits unless they are
\* moved by a step that notes it.
LEMMA VenueShrinks ==
    ASSUME TermsTypeOK, [TermsNext]_termVars
    PROVE  /\ venue'.units \in Units /\ venue'.units <= venue.units
           /\ \/ venue'.units = 0 \/ venue'.limits = venue.limits
              \/ \E t \in Terms : t.units = venue.units /\ TermsMove(t, entry)
<1> USE PositionTermsAssumption
<1>0. venue \in Terms /\ venue.units \in Units /\ venue.units <= venue.units /\ 0 \in Units
  BY DEF TermsTypeOK, Terms, Units
<1>1. CASE \E u \in Units : u <= venue.units /\ venue' = Left(u)
  BY <1>0, <1>1, LeftTyped DEF Units
<1>2. CASE UNCHANGED venue
  BY <1>0, <1>2
<1>3. CASE SendClose
  <2>1. ASSUME NEW n \in 1..venue.units
        PROVE  venue.units - n \in Units /\ venue.units - n <= venue.units
    BY <1>0 DEF Units
  <2>2. CASE \E n \in 1..venue.units : venue' = Left(venue.units - n)
    BY <1>1, <2>1, <2>2
  <2> QED BY <1>2, <1>3, <2>2, CloseSent
<1>4. CASE SendFails
  <2>1. desk # Idle /\ wish[desk.call].op = "close" => Volumes \subseteq Nat
    BY VolumesTyped
  <2>2. ASSUME NEW volume \in Nat, volume <= venue.units, NEW n \in 1..volume
        PROVE  venue.units - n \in Units /\ venue.units - n <= venue.units
    BY <2>2, <1>0 DEF Units
  <2> QED BY <1>1, <1>2, <1>4, <2>1, <2>2 DEF SendFails
<1>5. ASSUME NEW u \in Lots, HandCloses(u) PROVE \E v \in Units : v <= venue.units /\ venue' = Left(v)
  BY <1>0, <1>5 DEF HandCloses, Units, Lots
<1>6. ASSUME NEW t \in Terms, t.units = venue.units, TermsMove(t, entry)
      PROVE  /\ venue'.units \in Units /\ venue'.units <= venue.units
             /\ \E m \in Terms : m.units = venue.units /\ TermsMove(m, entry)
  BY <1>6, <1>0 DEF TermsMove
<1>7. ASSUME SendLimits
      PROVE UNCHANGED venue \/ \E t \in Terms : t.units = venue.units /\ TermsMove(t, entry)
  <2> DEFINE t == [venue EXCEPT !.limits = Given(wish[desk.call].limits, desk.seen.limits)]
  <2>1. wish[desk.call].limits \in LimitSet /\ desk.seen.limits \in LimitSet
    BY <1>7 DEF SendLimits, TermsTypeOK, Closing, Modifying, NoWish, Terms
  <2>2. t \in Terms /\ t.units = venue.units
    BY <2>1, <1>0, GivenTyped DEF Terms
  <2> QED BY <1>7, <2>2 DEF SendLimits
<1>8. ASSUME NEW f \in LimitSet, HandMoves(f)
      PROVE \E t \in Terms : t.units = venue.units /\ TermsMove(t, entry)
  <2> DEFINE t == [venue EXCEPT !.limits = f]
  <2>1. t \in Terms /\ t.units = venue.units
    BY <1>0 DEF Terms
  <2> QED BY <1>8, <2>1 DEF HandMoves
<1>9. \/ SendClose \/ SendLimits \/ SendFails
      \/ \E u \in Lots : HandCloses(u)
      \/ \E f \in LimitSet : HandMoves(f)
      \/ UNCHANGED venue
  BY DEF TermsNext, termVars, AskFor, CallTimesOut, FindEntry, RecordClose, RecordLimits,
         TermsMove, RecordLost, TakeRequest, SyncReads, SyncRefreshes, SyncSweeps, ViewReads,
         ViewRefreshes, TermsRestart
<1> QED BY <1>1, <1>2, <1>3, <1>4, <1>5, <1>6, <1>7, <1>8, <1>9

-----------------------------------------------------------------------------
(* What calls and readers know of the position.                            *)

\* What a call, the view or the pass has read of the position was true once: there are at
\* most as many units now, but for what rounding has dropped, and the limits are those the
\* pass has read unless they have moved since.
ReadsAreOld ==
    /\ desk # Idle => venue.units <= desk.seen.units
    /\ view # Idle /\ view.seen.units > 0 => venue.units <= view.seen.units + rounding
    /\ sync # Idle /\ sync.steady /\ venue.units > 0 => sync.limits = venue.limits

LEMMA RoundingGrows ==
    ASSUME TermsTypeOK, [TermsNext]_termVars
    PROVE  rounding \in Nat /\ rounding' \in Nat /\ rounding <= rounding'
<1>0. rounding \in Nat
  BY DEF TermsTypeOK
<1>1. CASE SendClose
  BY <1>0, <1>1, CloseRounds
<1>2. CASE ViewReads
  BY <1>0, <1>2 DEF ViewReads
<1>3. SendClose \/ ViewReads \/ rounding' = rounding
  BY DEF TermsNext, termVars, pastVars, AskFor, CallTimesOut, FindEntry, RecordClose,
         RecordLimits, TermsMove, RecordLost, TakeRequest, SendLimits, SendFails, HandCloses,
         HandMoves, SyncReads, SyncRefreshes, SyncSweeps, ViewRefreshes, TermsRestart
<1> QED BY <1>0, <1>1, <1>2, <1>3

LEMMA ReadsStep ==
    ASSUME TermsTypeOK, ReadsAreOld, [TermsNext]_termVars PROVE ReadsAreOld'
<1> USE PositionTermsAssumption
<1>0. /\ venue.units \in Nat /\ venue'.units \in Nat /\ venue'.units <= venue.units
      /\ rounding \in Nat /\ rounding' \in Nat /\ rounding <= rounding'
  BY VenueShrinks, RoundingGrows DEF TermsTypeOK, Terms, Units
<1>1. (desk # Idle => venue.units <= desk.seen.units)'
  <2>1. \/ desk' = desk \/ desk' = Idle
        \/ \E k \in TermCalls, n \in Readings(venue.units) :
              desk' = [call |-> k, seen |-> venue, counted |-> n]
    BY DEF TermsNext, termVars, callVars, AskFor, CallTimesOut, FindEntry, RecordClose,
           RecordLimits, RecordLost, TakeRequest, SendClose, SendLimits, SendFails, Replies,
           HandCloses, HandMoves, SyncReads, SyncRefreshes, SyncSweeps, ViewReads,
           ViewRefreshes, TermsRestart
  <2>2. CASE desk' = desk /\ desk # Idle
    <3>1. desk.seen.units \in Nat
      BY <2>2 DEF TermsTypeOK, Terms, Units
    <3> QED BY <1>0, <2>2, <3>1 DEF ReadsAreOld
  <2> QED BY <1>0, <2>1, <2>2
<1>2. (view # Idle /\ view.seen.units > 0 => venue.units <= view.seen.units + rounding)'
  <2>1. CASE ViewReads
    <3>1. CASE view'.seen = Left(0)
      BY <3>1 DEF Left
    <3>2. ASSUME NEW n \in Readings(venue.units), view'.seen = [venue EXCEPT !.units = n],
                 rounding' = IF n < venue.units /\ rounding = 0 THEN 1 ELSE rounding
          PROVE  venue.units <= view'.seen.units + rounding'
      <4>1. view'.seen.units = n
        BY <3>2 DEF TermsTypeOK, Terms
      <4>2. n \in Nat /\ venue.units <= n + rounding'
        BY <1>0, <3>2 DEF Readings
      <4> QED BY <4>1, <4>2
    <3>3. \/ view'.seen = Left(0)
          \/ \E n \in Readings(venue.units) :
                /\ view'.seen = [venue EXCEPT !.units = n]
                /\ rounding' = IF n < venue.units /\ rounding = 0 THEN 1 ELSE rounding
      BY <2>1 DEF ViewReads
    <3>4. venue' = venue
      BY <2>1 DEF ViewReads
    <3> QED BY <3>1, <3>2, <3>3, <3>4
  <2>2. CASE view' = view /\ view # Idle
    <3>1. view.seen.units \in Nat
      BY <2>2 DEF TermsTypeOK, Terms, Units
    <3> QED BY <1>0, <2>2, <3>1 DEF ReadsAreOld
  <2>3. ViewReads \/ view' = view \/ view' = Idle
    BY DEF TermsNext, termVars, readerVars, AskFor, CallTimesOut, FindEntry, RecordClose,
           RecordLimits, TermsMove, RecordLost, TakeRequest, SendClose, SendLimits, SendFails,
           HandCloses, HandMoves, SyncReads, SyncRefreshes, SyncSweeps, ViewRefreshes,
           TermsRestart
  <2> QED BY <2>1, <2>2, <2>3
<1>3. (sync # Idle /\ sync.steady /\ venue.units > 0 => sync.limits = venue.limits)'
  <2>0. SUFFICES ASSUME sync' # Idle, sync'.steady = TRUE, venue'.units > 0
                 PROVE  sync'.limits = venue'.limits
    OBVIOUS
  <2>1. CASE SyncReads
    BY <2>1 DEF SyncReads
  <2>2. ASSUME NEW t \in Terms, t.units = venue.units, TermsMove(t, entry)
        PROVE  sync'.limits = venue'.limits
    <3>1. CASE t.limits = venue.limits /\ sync' = sync
      BY <1>0, <2>0, <2>2, <3>1 DEF TermsMove, ReadsAreOld
    <3>2. CASE sync # Idle /\ sync' = [sync EXCEPT !.steady = FALSE]
      BY <2>0, <3>2 DEF TermsTypeOK
    <3>3. CASE sync = Idle
      BY <2>0, <2>2, <3>3 DEF TermsMove
    <3> QED BY <2>2, <3>1, <3>2, <3>3 DEF TermsMove
  <2>3. \/ SyncReads \/ sync' = Idle \/ UNCHANGED sync
        \/ sync # Idle /\ sync' = [sync EXCEPT !.steady = FALSE]
    BY DEF TermsNext, termVars, readerVars, AskFor, CallTimesOut, FindEntry, RecordClose,
           RecordLimits, TermsMove, RecordLost, TakeRequest, SendClose, SendLimits, SendFails,
           HandCloses, HandMoves, SyncReads, SyncRefreshes, SyncSweeps, ViewReads,
           ViewRefreshes, TermsRestart
  <2>4. \/ venue'.units = 0 \/ venue'.limits = venue.limits
        \/ \E t \in Terms : t.units = venue.units /\ TermsMove(t, entry)
    BY VenueShrinks
  <2>5. CASE \E t \in Terms : t.units = venue.units /\ TermsMove(t, entry)
    BY <2>2, <2>5, Zenon
  <2>6. CASE venue'.units = 0 \/ venue'.limits = venue.limits
    <3>1. CASE UNCHANGED sync
      BY <1>0, <2>0, <2>6, <3>1 DEF ReadsAreOld
    <3>2. CASE sync # Idle /\ sync' = [sync EXCEPT !.steady = FALSE]
      BY <2>0, <3>2 DEF TermsTypeOK
    <3> QED BY <2>0, <2>1, <2>3, <3>1, <3>2, Zenon
  <2> QED BY <2>4, <2>5, <2>6, Zenon
<1> QED BY <1>1, <1>2, <1>3 DEF ReadsAreOld

-----------------------------------------------------------------------------
(* The calls.                                                              *)

\* What a step does to a call: nothing; it ends it, or begins it; it looks up the entry of
\* an executed deal; or it answers the call the adapter works on.
Stays(k) == progress'[k] = progress[k] /\ wish'[k] = wish[k] /\ read'[k] = read[k]
Told(k) ==
    /\ SendClose \/ SendLimits
    /\ desk # Idle /\ desk.call = k /\ progress[k] = "asked" /\ wish'[k] = wish[k]

LEMMA CallMoves ==
    ASSUME TermsTypeOK, [TermsNext]_termVars, NEW k \in TermCalls
    PROVE  Stays(k) \/ progress'[k] \in {"idle", "asked", "done"} \/ FindEntry(k) \/ Told(k)
<1> USE DEF TermsTypeOK
<1>1. ASSUME NEW c \in TermCalls, NEW w \in Closing \cup Modifying, AskFor(c, w)
      PROVE  Stays(k) \/ progress'[k] \in {"idle", "asked", "done"}
  BY <1>1 DEF AskFor, Goes, Stays
<1>2. ASSUME NEW c \in TermCalls,
             CallTimesOut(c) \/ RecordClose(c) \/ RecordLimits(c) \/ RecordLost(c)
      PROVE  Stays(k) \/ progress'[k] \in {"idle", "asked", "done"}
  <2>1. /\ progress' = [progress EXCEPT ![c] = "done"]
        /\ wish' = wish \/ wish' = [wish EXCEPT ![c] = NoWish]
        /\ read' = read \/ read' = [read EXCEPT ![c] = 0]
    BY <1>2 DEF CallTimesOut, RecordClose, RecordLimits, RecordLost, Ends, Goes, Forgets
  <2> QED BY <2>1 DEF Stays
<1>3. ASSUME NEW c \in TermCalls, FindEntry(c), c # k PROVE Stays(k)
  <2>1. /\ \E s \in CallStages : progress' = [progress EXCEPT ![c] = s]
        /\ wish' = wish \/ wish' = [wish EXCEPT ![c] = NoWish]
    BY <1>3 DEF FindEntry, Ends, Goes, Forgets, CallStages
  <2>2. read'[k] = read[k]
    BY <1>3 DEF FindEntry
  <2> QED BY <1>3, <2>1, <2>2 DEF Stays
<1>4. ASSUME NEW c \in TermCalls, TakeRequest(c)
      PROVE  Stays(k) \/ progress'[k] \in {"idle", "asked", "done"}
  <2>1. /\ read' = read
        /\ \/ wish' = wish /\ progress' = progress
           \/ /\ wish' = [wish EXCEPT ![c] = NoWish]
              /\ progress' = [progress EXCEPT ![c] = "done"]
    BY <1>4 DEF TakeRequest, Forgets
  <2> QED BY <2>1 DEF Stays
<1>5. ASSUME desk # Idle, read' = read, NEW outcome \in CallStages, Replies(outcome)
      PROVE  \/ Stays(k) \/ progress'[k] = "done"
             \/ desk.call = k /\ progress[k] = "asked" /\ wish'[k] = wish[k]
  <2>1. desk.call \in TermCalls
    BY <1>5
  <2>2. CASE desk.call # k
    BY <1>5, <2>1, <2>2 DEF Replies, Forgets, Stays
  <2>3. CASE desk.call = k
    BY <1>5, <2>1, <2>3 DEF Replies, Forgets, Stays
  <2> QED BY <2>2, <2>3
<1>6. ASSUME SendClose \/ SendLimits
      PROVE  Stays(k) \/ progress'[k] = "done" \/ Told(k)
  <2>1. desk # Idle /\ read' = read /\ \E dealt \in BOOLEAN : Replies(AnswerOf(dealt))
    BY <1>6 DEF SendClose, SendLimits
  <2>2. \A dealt \in BOOLEAN : AnswerOf(dealt) \in CallStages
    BY DEF AnswerOf, CallStages
  <2> QED BY <1>5, <1>6, <2>1, <2>2 DEF Told
<1>7. ASSUME SendFails PROVE Stays(k) \/ progress'[k] = "done"
  <2>1. desk # Idle /\ read' = read /\ Replies("done") /\ desk.call \in TermCalls
    BY <1>7 DEF SendFails
  <2> QED BY <2>1 DEF Replies, Forgets, Stays
<1>8. ASSUME TermsRestart PROVE progress'[k] \in {"idle", "done"}
  BY <1>8 DEF TermsRestart
<1>9. ASSUME UNCHANGED callVars PROVE Stays(k)
  BY <1>9 DEF callVars, Stays
<1>10. \/ \E c \in TermCalls :
             \/ \E w \in Closing \cup Modifying : AskFor(c, w)
             \/ CallTimesOut(c) \/ RecordClose(c) \/ RecordLimits(c) \/ RecordLost(c)
             \/ FindEntry(c) \/ TakeRequest(c)
       \/ SendClose \/ SendLimits \/ SendFails \/ TermsRestart \/ UNCHANGED callVars
  BY DEF TermsNext, termVars, HandCloses, HandMoves, SyncReads, SyncRefreshes, SyncSweeps,
         ViewReads, ViewRefreshes
<1> QED BY <1>1, <1>2, <1>3, <1>4, <1>6, <1>7, <1>8, <1>9, <1>10

LEMMA DealtStep ==
    ASSUME TermsTypeOK, ReadsAreOld, DealtCalls, [TermsNext]_termVars PROVE DealtCalls'
<1> SUFFICES ASSUME NEW k \in TermCalls
             PROVE  /\ progress'[k] \in {"closed", "closing"} => venue'.units = 0
                    /\ progress'[k] \in {"reduced", "reducing"} => wish'[k] \in Closing
                    /\ progress'[k] = "modified" => wish'[k] \in Modifying
  BY DEF DealtCalls
<1>0. venue.units \in Nat /\ venue'.units \in Nat /\ venue'.units <= venue.units
  BY VenueShrinks DEF TermsTypeOK, Terms, Units
<1>1. CASE Stays(k)
  BY <1>0, <1>1 DEF Stays, DealtCalls
<1>2. CASE progress'[k] \in {"idle", "asked", "done"}
  BY <1>2
<1>3. CASE FindEntry(k)
  BY <1>3 DEF FindEntry, Ends, Goes, TermsTypeOK, DealtCalls
<1>4. CASE Told(k) /\ SendClose
  <2>1. desk.call = k /\ wish'[k] = wish[k] /\ wish[k] \in Closing
    BY <1>4, CloseSent DEF Told
  <2>2. progress'[k] = AnswerOf(TRUE) \/ progress'[k] = "done"
    BY <1>4, <2>1, CloseSent DEF Told, Replies, TermsTypeOK
  <2>3. AnswerOf(TRUE) \in {"closed", "reduced"}
    BY <1>4 DEF AnswerOf, SendClose
  <2>4. ASSUME progress'[k] = "closed" PROVE venue'.units = 0
    <3>1. ~(Replies(AnswerOf(FALSE)) /\ AnswerOf(FALSE) = "done")
      BY <1>4, <2>1, <2>4 DEF Told, Replies, TermsTypeOK
    <3>2. AnswerOf(TRUE) = "closed"
      BY <2>2, <2>4
    <3>3. Asked = desk.counted
      BY <1>4, <3>1, <3>2, CloseSent
    <3>4. PICK volume \in Volumes :
             volume \in 1..venue.units /\ venue'.units = venue.units - volume
      BY <1>4, <3>1, CloseSent
    <3>5. volume = desk.seen.units /\ desk # Idle
      BY <1>4, <3>3, <3>4, CloseSent DEF Volumes
    <3>6. venue.units <= desk.seen.units /\ desk.seen.units \in Nat
      BY <1>4, <3>5, CloseSent DEF ReadsAreOld
    <3> QED BY <1>0, <3>4, <3>5, <3>6
  <2> QED BY <2>1, <2>2, <2>3, <2>4
<1>5. CASE Told(k) /\ SendLimits
  BY <1>5 DEF Told, SendLimits, AnswerOf, Replies, TermsTypeOK, Closing, NoWish
<1> QED BY <1>1, <1>2, <1>3, <1>4, <1>5, CallMoves DEF Told

-----------------------------------------------------------------------------
(* The exposure.                                                           *)

\* What a call has executed at the venue but not looked up in the book.
Due(k) == IF progress[k] = "reduced" THEN wish[k].units ELSE 0

\* At least what the first calls have due together, and no less than the calls before.
Dues == {f \in [0..MaxTermCalls -> Nat] :
            \A k \in TermCalls : \A i \in 0..(k - 1) : f[i] + Due(k) <= f[k]}

\* But for what rounding has lost, the entry has what is at the venue and all that is yet to
\* be subtracted from it; and so has what any call that is about to write will leave of it.
Covers(f) ==
    /\ f[MaxTermCalls] + venue.units <= entry.units + rounding
    /\ \A k \in TermCalls : progress[k] = "reducing" =>
          f[MaxTermCalls] + venue.units + wish[k].units <= read[k] + rounding
BookCovers == \E f \in Dues : Covers(f)

LEMMA DueTyped ==
    ASSUME TermsTypeOK, DealtCalls, NEW k \in TermCalls
    PROVE  Due(k) \in Nat
BY PositionTermsAssumption DEF Due, DealtCalls, Closing

\* What is due of one call is part of what is due of all.
LEMMA DueOrdered ==
    ASSUME TermsTypeOK, DealtCalls, NEW f \in Dues, NEW i \in 0..MaxTermCalls,
           NEW k \in TermCalls, i < k, NEW j \in 0..MaxTermCalls, k <= j
    PROVE  /\ f[i] \in Nat /\ f[k] \in Nat /\ f[j] \in Nat /\ Due(k) \in Nat
           /\ f[i] + Due(k) <= f[k] /\ f[k] <= f[j]
<1> USE PositionTermsAssumption
<1>1. f \in [0..MaxTermCalls -> Nat] /\ k \in 0..MaxTermCalls
  BY DEF Dues, TermCalls
<1>2. f[i] \in Nat /\ f[k] \in Nat /\ f[j] \in Nat /\ Due(k) \in Nat
  BY <1>1, DueTyped DEF Units
<1>3. f[i] + Due(k) <= f[k]
  <2>1. i \in 0..(k - 1)
    BY DEF TermCalls
  <2> QED BY <2>1 DEF Dues
<1>4. k < j => f[k] <= f[j]
  <2>1. k < j => j \in TermCalls /\ k \in 0..(j - 1)
    BY DEF TermCalls
  <2>2. k < j => f[k] + Due(j) <= f[j]
    BY <2>1 DEF Dues
  <2>3. k < j => Due(j) \in Nat
    BY <2>1, DueTyped DEF Units
  <2> QED BY <1>2, <2>2, <2>3
<1>5. k = j => f[k] <= f[j]
  BY <1>2
<1> QED BY <1>2, <1>3, <1>4, <1>5 DEF TermCalls

\* The same sums do as long as nothing more is due and the entry covers them.
LEMMA StillCovers ==
    ASSUME TermsTypeOK, DealtCalls, DealtCalls', TermsTypeOK', NEW f \in Dues,
           \A k \in TermCalls : Due(k)' = Due(k) \/ Due(k)' = 0,
           \A k \in TermCalls : progress'[k] = "reducing" =>
               f[MaxTermCalls] + venue'.units + wish'[k].units <= read'[k] + rounding',
           f[MaxTermCalls] + venue'.units <= entry'.units + rounding'
    PROVE  BookCovers'
<1> USE PositionTermsAssumption
<1>1. f \in [0..MaxTermCalls -> Nat]
  BY DEF Dues
<1>2. ASSUME NEW k \in TermCalls, NEW i \in 0..(k - 1) PROVE f[i] + Due(k)' <= f[k]
  <2>1. i \in 0..MaxTermCalls /\ k \in 0..MaxTermCalls /\ i < k
    BY DEF TermCalls
  <2>2. f[i] \in Nat /\ f[k] \in Nat /\ Due(k) \in Nat /\ f[i] + Due(k) <= f[k]
    BY <2>1, DueOrdered
  <2> QED BY <2>2
<1>3. f \in Dues'
  BY <1>1, <1>2 DEF Dues
<1> QED BY <1>3 DEF BookCovers, Covers

LEMMA FindCovers ==
    ASSUME TermsTypeOK, DealtCalls, TermsTypeOK', DealtCalls', BookCovers, NEW c \in TermCalls,
           FindEntry(c), progress'[c] = "reducing"
    PROVE  BookCovers'
<1> USE PositionTermsAssumption
<1>1. PICK f \in Dues : Covers(f)
  BY DEF BookCovers
<1>2. /\ f \in [0..MaxTermCalls -> Nat] /\ MaxTermCalls \in 0..MaxTermCalls
      /\ c <= MaxTermCalls /\ c \in Nat /\ 0 \in 0..MaxTermCalls /\ 0 < c
  BY DEF Dues, TermCalls
<1>0. PICK g : g = [j \in 0..MaxTermCalls |-> IF j < c THEN f[j] ELSE f[j] - Due(c)]
  OBVIOUS
<1>3. /\ progress[c] = "reduced" /\ wish' = wish /\ read'[c] = entry.units
      /\ entry' = entry /\ venue' = venue /\ rounding' = rounding
      /\ \A k \in TermCalls \ {c} : progress'[k] = progress[k] /\ read'[k] = read[k]
  BY DEF FindEntry, Ends, Goes, TermsTypeOK, pastVars
<1>4. ASSUME NEW j \in 0..MaxTermCalls PROVE g[j] \in Nat
  <2>1. CASE j < c
    BY <1>0, <1>2, <2>1
  <2>2. CASE c <= j
    <3>1. f[0] \in Nat /\ f[j] \in Nat /\ Due(c) \in Nat /\ f[c] \in Nat
            /\ f[0] + Due(c) <= f[c] /\ f[c] <= f[j]
      BY <1>2, <2>2, DueOrdered
    <3>2. f[j] - Due(c) \in Nat
      BY <3>1
    <3> QED BY <1>0, <1>2, <2>2, <3>2
  <2> QED BY <1>2, <2>1, <2>2
<1>5. ASSUME NEW k \in TermCalls, NEW i \in 0..(k - 1) PROVE g[i] + Due(k)' <= g[k]
  <2>1. /\ i \in 0..MaxTermCalls /\ k \in 0..MaxTermCalls /\ i < k
        /\ f[i] \in Nat /\ f[k] \in Nat /\ Due(k) \in Nat /\ f[i] + Due(k) <= f[k]
    <3>1. i \in 0..MaxTermCalls /\ k \in 0..MaxTermCalls /\ i < k
      BY DEF TermCalls
    <3> QED BY <3>1, DueOrdered
  <2>2. CASE k = c
    <3>1. Due(c)' = 0
      BY <1>3 DEF Due
    <3>2. g[i] = f[i] /\ g[k] = f[k] - Due(c)
      BY <1>0, <1>2, <2>1, <2>2
    <3> QED BY <2>1, <2>2, <3>1, <3>2
  <2>3. CASE k # c
    <3>1. Due(k)' = Due(k) /\ Due(c) \in Nat
      BY <1>3, <2>3, DueTyped DEF Due
    <3>2. CASE k < c \/ c <= i
      BY <1>0, <1>2, <2>1, <3>1, <3>2
    <3>3. CASE i < c /\ c < k
      <4>1. f[i] + Due(c) <= f[c] /\ f[c] \in Nat
        BY <1>2, <2>1, <3>3, DueOrdered
      <4>2. f[c] + Due(k) <= f[k]
        <5>1. c \in 0..MaxTermCalls /\ c < k /\ k <= k
          BY <1>2, <2>1, <3>3
        <5> QED BY <2>1, <5>1, DueOrdered
      <4>3. g[i] = f[i] /\ g[k] = f[k] - Due(c)
        BY <1>0, <1>2, <2>1, <3>3
      <4>4. f[i] + Due(c) + Due(k) <= f[k]
        BY <2>1, <3>1, <4>1, <4>2
      <4> QED BY <2>1, <3>1, <4>3, <4>4
    <3> QED BY <1>2, <2>1, <2>3, <3>2, <3>3
  <2> QED BY <2>2, <2>3
<1>6. g \in Dues'
  BY <1>0, <1>4, <1>5 DEF Dues
<1>7. /\ g[MaxTermCalls] = f[MaxTermCalls] - Due(c) /\ f[MaxTermCalls] \in Nat
      /\ Due(c) \in Nat /\ Due(c) = wish[c].units
  BY <1>0, <1>2, <1>3, DueTyped DEF Due
<1>8. Covers(g)'
  <2>1. /\ venue.units \in Nat /\ entry.units \in Nat /\ read \in [TermCalls -> Nat]
        /\ rounding \in Nat
    BY DEF TermsTypeOK, Terms, Units
  <2>2. g[MaxTermCalls] + venue.units <= entry.units + rounding
    BY <1>1, <1>7, <2>1 DEF Covers
  <2>3. ASSUME NEW k \in TermCalls, progress'[k] = "reducing"
        PROVE  g[MaxTermCalls] + venue.units + wish[k].units <= read'[k] + rounding
    <3>1. CASE k = c
      BY <1>1, <1>3, <1>7, <2>1, <3>1 DEF Covers
    <3>2. CASE k # c
      <4>1. progress[k] = "reducing" /\ read'[k] = read[k]
        BY <1>3, <2>3, <3>2
      <4>2. wish[k].units \in Nat
        BY <4>1 DEF DealtCalls, Closing, Units
      <4> QED BY <1>1, <1>7, <2>1, <4>1, <4>2 DEF Covers
    <3> QED BY <3>1, <3>2
  <2> QED BY <1>3, <2>2, <2>3 DEF Covers
<1> QED BY <1>6, <1>8 DEF BookCovers

\* A deal moves what is at the venue to what is due.
LEMMA DealCovers ==
    ASSUME TermsTypeOK, DealtCalls, TermsTypeOK', DealtCalls', BookCovers, [TermsNext]_termVars,
           SendClose, NEW c \in TermCalls, desk.call = c, progress[c] = "asked",
           progress'[c] = "reduced"
    PROVE  BookCovers'
<1> USE PositionTermsAssumption
<1>1. PICK f \in Dues : Covers(f)
  BY DEF BookCovers
<1>2. /\ f \in [0..MaxTermCalls -> Nat] /\ MaxTermCalls \in 0..MaxTermCalls
      /\ c <= MaxTermCalls /\ c \in Nat
  BY DEF Dues, TermCalls
<1>3. /\ progress' = [progress EXCEPT ![c] = "reduced"]
      /\ wish' = wish /\ read' = read /\ entry' = entry
  BY DEF SendClose, Replies, TermsTypeOK
<1>4. PICK d \in Nat, v \in Nat :
         /\ d = wish[c].units /\ v <= venue.units /\ venue'.units = venue.units - v
         /\ rounding' = rounding + Short(d, v)
  <2>1. ~(Replies(AnswerOf(FALSE)) /\ AnswerOf(FALSE) = "done") /\ AnswerOf(TRUE) = "reduced"
    <3>1. \A outcome \in CallStages : Replies(outcome) => progress'[c] = outcome
      BY DEF Replies, TermsTypeOK
    <3>2. AnswerOf(TRUE) \in CallStages /\ "done" \in CallStages
      BY DEF AnswerOf, CallStages
    <3> QED BY <3>1, <3>2, CloseSent
  <2>2. Asked # desk.counted /\ Asked \in Nat
    BY <2>1, CloseSent
  <2>3. Asked = wish[c].units
    BY <2>2 DEF Asked
  <2>4. venue.units \in Nat
    BY DEF TermsTypeOK, Terms, Units
  <2>5. PICK volume \in 1..venue.units :
           /\ venue'.units = venue.units - volume
           /\ rounding' = rounding + Short(Asked, volume)
    BY <2>1, CloseSent
  <2>6. volume \in Nat /\ volume <= venue.units
    BY <2>4
  <2> QED BY <2>2, <2>3, <2>5, <2>6
<1>6. PICK g : g = [j \in 0..MaxTermCalls |-> IF j < c THEN f[j] ELSE f[j] + d]
  OBVIOUS
<1>7. Short(d, v) \in Nat /\ d <= v + Short(d, v)
  BY RoundedTyped
<1>8. ASSUME NEW j \in 0..MaxTermCalls PROVE g[j] \in Nat
  BY <1>2, <1>6
<1>9. ASSUME NEW k \in TermCalls, NEW i \in 0..(k - 1) PROVE g[i] + Due(k)' <= g[k]
  <2>1. /\ i \in 0..MaxTermCalls /\ k \in 0..MaxTermCalls /\ i < k
        /\ f[i] \in Nat /\ f[k] \in Nat /\ Due(k) \in Nat /\ f[i] + Due(k) <= f[k]
    <3>1. i \in 0..MaxTermCalls /\ k \in 0..MaxTermCalls /\ i < k
      BY DEF TermCalls
    <3> QED BY <3>1, DueOrdered
  <2>2. CASE k = c
    <3>1. Due(k)' = d /\ Due(k) = 0
      BY <1>3, <1>4, <2>2 DEF Due, TermsTypeOK
    <3> QED BY <1>6, <2>1, <2>2, <3>1
  <2>3. CASE k # c
    <3>1. Due(k)' = Due(k)
      BY <1>3, <2>3 DEF Due, TermsTypeOK
    <3> QED BY <1>2, <1>6, <2>1, <2>3, <3>1
  <2> QED BY <2>2, <2>3
<1>10. g \in Dues'
  BY <1>6, <1>8, <1>9 DEF Dues
<1>11. Covers(g)'
  <2>1. /\ entry.units \in Nat /\ read \in [TermCalls -> Nat] /\ f[MaxTermCalls] \in Nat
        /\ venue.units \in Nat /\ rounding \in Nat
    BY <1>2 DEF TermsTypeOK, Terms, Units
  <2>2. g[MaxTermCalls] = f[MaxTermCalls] + d
    BY <1>2, <1>6
  <2>3. \A n \in Nat : f[MaxTermCalls] + venue.units <= n =>
           g[MaxTermCalls] + venue'.units <= n + Short(d, v)
    BY <1>4, <1>7, <2>1, <2>2
  <2>4. g[MaxTermCalls] + venue'.units <= entry.units + rounding'
    BY <1>1, <1>4, <1>7, <2>1, <2>3 DEF Covers
  <2>5. ASSUME NEW k \in TermCalls, progress'[k] = "reducing"
        PROVE  g[MaxTermCalls] + venue'.units + wish[k].units <= read[k] + rounding'
    <3>1. progress[k] = "reducing"
      BY <1>3, <2>5 DEF TermsTypeOK
    <3>2. wish[k].units \in Nat
      BY <3>1, PositionTermsAssumption DEF DealtCalls, Closing
    <3>3. f[MaxTermCalls] + venue.units + wish[k].units <= read[k] + rounding
      BY <1>1, <3>1 DEF Covers
    <3>4. read[k] \in Nat /\ venue'.units \in Nat /\ g[MaxTermCalls] \in Nat
      BY <1>4, <2>1, <2>2
    <3> QED BY <1>4, <1>7, <2>1, <2>2, <3>2, <3>3, <3>4
  <2> QED BY <1>3, <2>4, <2>5 DEF Covers
<1> QED BY <1>10, <1>11 DEF BookCovers

LEMMA ViewCovers ==
    ASSUME TermsTypeOK, DealtCalls, TermsTypeOK', DealtCalls', ReadsAreOld, BookCovers,
           ViewRefreshes, ~misled', view.seen.units > 0
    PROVE  BookCovers'
<1> USE PositionTermsAssumption
<1>1. PICK f \in Dues : Covers(f)
  BY DEF BookCovers
<1>2. PICK g : g = [j \in 0..MaxTermCalls |-> 0]
  OBVIOUS
<1>3. /\ UNCHANGED <<venue, wish, progress, read, rounding>> /\ entry'.units = view.seen.units
      /\ venue.units <= view.seen.units + rounding
      /\ \A k \in TermCalls : progress[k] # "reduced"
  BY DEF ViewRefreshes, callVars, ReadsAreOld
<1>4. \A k \in TermCalls : Due(k)' = 0
  BY <1>3 DEF Due
<1>5. g \in Dues'
  BY <1>2, <1>4 DEF Dues, TermCalls
<1>6. /\ f[MaxTermCalls] \in Nat /\ g[MaxTermCalls] = 0 /\ venue.units \in Nat
      /\ read \in [TermCalls -> Nat] /\ rounding \in Nat
  BY <1>2 DEF Dues, Units, TermsTypeOK, Terms
<1>7. ASSUME NEW k \in TermCalls, progress'[k] = "reducing"
      PROVE  g[MaxTermCalls] + venue.units + wish[k].units <= read[k] + rounding
  <2>1. wish[k].units \in Nat /\ progress[k] = "reducing"
    BY <1>3, <1>7 DEF DealtCalls, Closing
  <2> QED BY <1>1, <1>6, <2>1 DEF Covers
<1>8. Covers(g)'
  BY <1>3, <1>6, <1>7 DEF Covers
<1> QED BY <1>5, <1>8 DEF BookCovers

\* The steps that write the entry.
LEMMA EntryWriters ==
    ASSUME [TermsNext]_termVars
    PROVE  \/ \E k \in TermCalls : RecordClose(k) \/ RecordLimits(k)
           \/ SyncRefreshes \/ SyncSweeps \/ ViewRefreshes \/ entry' = entry
BY DEF TermsNext, termVars, AskFor, CallTimesOut, FindEntry, RecordLost, TakeRequest, SendClose,
       SendLimits, TermsMove, SendFails, HandCloses, HandMoves, SyncReads, ViewReads, TermsRestart

LEMMA CoversStep ==
    ASSUME TermsTypeOK, DealtCalls, ReadsAreOld, TermsTypeOK', DealtCalls',
           [TermsNext]_termVars, BookCovers, ~misled'
    PROVE  BookCovers'
<1> USE PositionTermsAssumption
<1>1. PICK f \in Dues : Covers(f)
  BY DEF BookCovers
<1>2. /\ f[MaxTermCalls] \in Nat /\ read \in [TermCalls -> Nat] /\ venue.units \in Nat
      /\ entry.units \in Nat /\ venue'.units \in Nat /\ venue'.units <= venue.units
      /\ rounding \in Nat /\ rounding' \in Nat /\ rounding <= rounding'
  <2>1. f[MaxTermCalls] \in Nat
    BY DEF Dues
  <2>2. /\ read \in [TermCalls -> Nat] /\ venue.units \in Nat
        /\ entry.units \in Nat /\ venue'.units \in Nat /\ venue'.units <= venue.units
        /\ rounding \in Nat /\ rounding' \in Nat /\ rounding <= rounding'
    BY VenueShrinks, RoundingGrows DEF TermsTypeOK, Units, Terms
  <2> QED BY <2>1, <2>2
<1>3. ASSUME NEW k \in TermCalls, Stays(k) \/ progress'[k] \in {"idle", "asked", "done"}
      PROVE  /\ Due(k)' = Due(k) \/ Due(k)' = 0
             /\ progress'[k] = "reducing" =>
                   f[MaxTermCalls] + venue'.units + wish'[k].units <= read'[k] + rounding'
  <2>1. Due(k)' = Due(k) \/ Due(k)' = 0
    BY <1>3 DEF Stays, Due
  <2>2. ASSUME progress'[k] = "reducing"
        PROVE  f[MaxTermCalls] + venue'.units + wish'[k].units <= read'[k] + rounding'
    <3>1. progress[k] = "reducing" /\ wish'[k] = wish[k] /\ read'[k] = read[k]
      BY <1>3, <2>2 DEF Stays
    <3>2. /\ wish[k].units \in Nat /\ read[k] \in Nat
          /\ f[MaxTermCalls] + venue.units + wish[k].units <= read[k] + rounding
      BY <1>1, <1>2, <3>1 DEF DealtCalls, Closing, Covers
    <3> QED BY <1>2, <3>1, <3>2
  <2> QED BY <2>1, <2>2
\* No call executes a deal or looks it up, and the units of the entry stay covering.
<1>4. ASSUME f[MaxTermCalls] + venue'.units <= entry'.units + rounding',
             \A k \in TermCalls : Stays(k) \/ progress'[k] \in {"idle", "asked", "done"}
      PROVE  BookCovers'
  BY <1>3, <1>4, StillCovers
<1>5. f[MaxTermCalls] + venue'.units <= entry.units + rounding'
  BY <1>1, <1>2 DEF Covers
<1>6. ASSUME NEW c \in TermCalls, FindEntry(c) PROVE BookCovers'
  <2>1. CASE progress'[c] = "reducing"
    BY <1>6, <2>1, FindCovers
  <2>2. CASE progress'[c] # "reducing"
    <3>1. \A k \in TermCalls \ {c} : Stays(k)
      BY <1>6 DEF FindEntry, Ends, Goes, Forgets, Stays, TermsTypeOK
    <3>2. progress'[c] \in {"closing", "done"} /\ entry' = entry
      BY <1>6, <2>2 DEF FindEntry, Ends, Goes, TermsTypeOK
    <3>3. ASSUME NEW k \in TermCalls
          PROVE  /\ Due(k)' = Due(k) \/ Due(k)' = 0
                 /\ progress'[k] = "reducing" =>
                       f[MaxTermCalls] + venue'.units + wish'[k].units <= read'[k] + rounding'
      <4>1. CASE k = c
        BY <3>2, <4>1 DEF Due
      <4>2. CASE k # c
        BY <1>3, <3>1, <4>2
      <4> QED BY <4>1, <4>2
    <3> QED BY <1>5, <3>2, <3>3, StillCovers
  <2> QED BY <2>1, <2>2
<1>7. ASSUME NEW c \in TermCalls, Told(c) PROVE BookCovers'
  <2>1. CASE progress'[c] = "reduced" /\ SendClose
    BY <1>7, <2>1, DealCovers DEF Told
  <2>2. CASE ~(progress'[c] = "reduced" /\ SendClose)
    <3>1. \A k \in TermCalls \ {c} : Stays(k)
      BY <1>7 DEF Told, SendClose, SendLimits, Replies, Forgets, Stays, TermsTypeOK
    <3>2. progress'[c] \notin {"reduced", "reducing"} /\ entry' = entry
      BY <1>7, <2>2 DEF Told, SendClose, SendLimits, TermsMove, Replies, AnswerOf, TermsTypeOK
    <3>3. ASSUME NEW k \in TermCalls
          PROVE  /\ Due(k)' = Due(k) \/ Due(k)' = 0
                 /\ progress'[k] = "reducing" =>
                       f[MaxTermCalls] + venue'.units + wish'[k].units <= read'[k] + rounding'
      <4>1. CASE k = c
        BY <3>2, <4>1 DEF Due
      <4>2. CASE k # c
        BY <1>3, <3>1, <4>2
      <4> QED BY <4>1, <4>2
    <3> QED BY <1>5, <3>2, <3>3, StillCovers
  <2> QED BY <2>1, <2>2
<1>8. ASSUME \A k \in TermCalls : Stays(k) \/ progress'[k] \in {"idle", "asked", "done"}
      PROVE  BookCovers'
  <2>1. CASE \E k \in TermCalls : RecordClose(k) /\ progress[k] = "reducing"
    <3>1. PICK k \in TermCalls : RecordClose(k) /\ progress[k] = "reducing"
      BY <2>1
    <3>2. entry'.units = Remaining(k) /\ venue' = venue /\ rounding' = rounding
      <4>1. entry' = [entry EXCEPT !.units = Remaining(k), !.confirmed = FALSE]
        BY <3>1 DEF RecordClose, Ends, Goes
      <4>2. entry \in Entries
        BY DEF TermsTypeOK, Entries
      <4>3. venue' = venue /\ rounding' = rounding
        BY <3>1 DEF RecordClose, pastVars
      <4> QED BY <4>1, <4>2, <4>3 DEF Entries
    <3>3. /\ wish[k].units \in Nat /\ read[k] \in Nat
          /\ f[MaxTermCalls] + venue.units + wish[k].units <= read[k] + rounding
      BY <1>1, <1>2, <3>1 DEF DealtCalls, Closing, Covers
    <3>4. f[MaxTermCalls] + venue.units <= Remaining(k) + rounding
      BY <1>2, <3>3 DEF Remaining
    <3> QED BY <1>4, <1>8, <3>2, <3>4
  <2>2. CASE ViewRefreshes /\ view.seen.units > 0
    BY <2>2, ViewCovers
  <2>3. CASE entry'.units = entry.units
    BY <1>4, <1>5, <1>8, <2>3
  <2>4. \/ \E k \in TermCalls : RecordClose(k) /\ progress[k] = "reducing"
        \/ ViewRefreshes /\ view.seen.units > 0
        \/ entry'.units = entry.units
    <3>1. ASSUME NEW k \in TermCalls, RecordClose(k), progress[k] # "reducing"
          PROVE  entry'.units = entry.units
      BY <3>1 DEF RecordClose, Ends, Goes, TermsTypeOK
    <3>2. ASSUME NEW k \in TermCalls, RecordLimits(k) PROVE entry'.units = entry.units
      BY <3>2 DEF RecordLimits, TermsMove, TermsTypeOK
    <3>3. CASE SyncRefreshes \/ SyncSweeps
      BY <3>3 DEF SyncRefreshes, SyncSweeps, TermsTypeOK
    <3>4. CASE ViewRefreshes /\ ~(view.seen.units > 0)
      <4>1. entry \in Entries
        BY DEF TermsTypeOK, Entries
      <4>2. \/ entry' = [entry EXCEPT !.open = @ /\ ~view.open, !.confirmed = TRUE]
            \/ entry' = entry
        BY <3>4 DEF ViewRefreshes
      <4> QED BY <4>1, <4>2 DEF Entries
    <3> QED BY <3>1, <3>2, <3>3, <3>4, EntryWriters
  <2> QED BY <2>1, <2>2, <2>3, <2>4
<1> QED BY <1>6, <1>7, <1>8, CallMoves

\* The entry of a position stays open but for reads that failed.
OpenKept == venue.units > 0 => overlooked \/ entry.open

LEMMA OpenStep ==
    ASSUME TermsTypeOK, DealtCalls, TermsTypeOK', [TermsNext]_termVars, OpenKept
    PROVE  OpenKept'
<1> SUFFICES ASSUME venue'.units > 0 PROVE overlooked' \/ entry'.open
  BY DEF OpenKept
<1>1. venue.units > 0 /\ \A k \in TermCalls : progress[k] # "closing"
  <2>1. venue.units \in Nat /\ venue'.units \in Nat /\ venue'.units <= venue.units
    BY VenueShrinks, PositionTermsAssumption DEF TermsTypeOK, Units, Terms
  <2> QED BY <2>1 DEF DealtCalls
<1>2. entry \in Entries /\ overlooked \in BOOLEAN
  BY DEF TermsTypeOK, Entries
<1>3. overlooked \/ entry.open
  BY <1>1 DEF OpenKept
<1>4. ASSUME NEW k \in TermCalls, RecordClose(k) \/ RecordLimits(k)
      PROVE  entry'.open = entry.open /\ overlooked' = overlooked
  BY <1>1, <1>2, <1>4 DEF RecordClose, RecordLimits, TermsMove, Ends, Goes, Entries, pastVars,
                          TermsTypeOK
<1>5. CASE SyncRefreshes
  BY <1>2, <1>5 DEF SyncRefreshes, Entries
<1>6. CASE SyncSweeps
  BY <1>1, <1>3, <1>6 DEF SyncSweeps, Unfounded
<1>7. CASE ViewRefreshes
  <2>1. CASE view.seen.units > 0
    BY <1>7, <2>1 DEF ViewRefreshes
  <2>2. CASE ~(view.seen.units > 0)
    <3>1. overlooked' = (overlooked \/ Unfounded)
      BY <1>7, <2>2 DEF ViewRefreshes
    <3> QED BY <1>1, <1>3, <3>1 DEF Unfounded
  <2> QED BY <2>1, <2>2
<1>8. CASE entry' = entry /\ ~SyncRefreshes /\ ~SyncSweeps /\ ~ViewRefreshes
  <2>1. overlooked' = overlooked
    BY <1>8 DEF TermsNext, termVars, pastVars, AskFor, CallTimesOut, FindEntry, RecordClose,
           RecordLimits, TermsMove, RecordLost, TakeRequest, SendClose, SendLimits, SendFails,
           HandCloses, HandMoves, SyncReads, ViewReads, TermsRestart
  <2> QED BY <1>3, <1>8, <2>1
<1> QED BY <1>3, <1>4, <1>5, <1>6, <1>7, <1>8, EntryWriters

-----------------------------------------------------------------------------
(* The limits.                                                             *)

LEMMA LimitsStep ==
    ASSUME TermsTypeOK, TermsTypeOK', ReadsAreOld, LimitsFollow, [TermsNext]_termVars
    PROVE  LimitsFollow'
<1>0. SUFFICES ASSUME settled' = TRUE, venue'.units > 0, NEW l \in Limits
               PROVE  venue'.limits[l] \in {entry'.limits[l], Unset}
  BY DEF LimitsFollow
<1>1. /\ venue.units > 0 /\ venue'.units \in Nat /\ venue.units \in Nat
      /\ entry \in Entries /\ entry.limits \in LimitSet
  BY <1>0, VenueShrinks DEF TermsTypeOK, Units, Terms, Entries
\* Neither limits moved, nor was settled anew.
<1>2. ASSUME settled = TRUE, venue'.limits = venue.limits, entry'.limits = entry.limits
      PROVE  venue'.limits[l] \in {entry'.limits[l], Unset}
  BY <1>1, <1>2 DEF LimitsFollow
<1>3. ASSUME NEW t \in Terms, NEW e \in Entries, TermsMove(t, e)
      PROVE  venue'.limits[l] \in {entry'.limits[l], Unset}
  BY <1>0, <1>2, <1>3 DEF TermsMove
<1>4. CASE \E k \in TermCalls : RecordLimits(k)
  BY <1>0, <1>2, <1>4 DEF RecordLimits, TermsMove
<1>5. CASE SyncRefreshes
  <2>1. sync # Idle /\ sync.steady = TRUE /\ venue' = venue /\ sync.limits \in LimitSet
    BY <1>0, <1>5 DEF SyncRefreshes, TermsTypeOK
  <2>2. sync.limits = venue.limits
    BY <1>1, <2>1 DEF ReadsAreOld
  <2>3. entry'.limits = Given(sync.limits, entry.limits)
    BY <1>1, <1>5 DEF SyncRefreshes, Refreshed, Entries
  <2> QED BY <2>1, <2>2, <2>3 DEF Given
<1>6. CASE ViewRefreshes
  <2>1. CASE view.seen.units > 0
    <3>1. settled = TRUE /\ Given(view.seen.limits, entry.limits) = entry.limits
      BY <1>0, <1>6, <2>1 DEF ViewRefreshes, TermsTypeOK
    <3>2. entry'.limits = Given(view.seen.limits, entry.limits) /\ venue' = venue
      BY <1>6, <2>1 DEF ViewRefreshes
    <3> QED BY <1>2, <3>1, <3>2
  <2>2. CASE ~(view.seen.units > 0)
    <3>1. entry'.limits = entry.limits
      BY <1>1, <1>6, <2>2 DEF ViewRefreshes, Entries
    <3> QED BY <1>0, <1>2, <1>6, <2>2, <3>1 DEF ViewRefreshes
  <2> QED BY <2>1, <2>2
<1>7. CASE SendLimits
  BY <1>0, <1>2, <1>7 DEF SendLimits, TermsMove, pastVars
<1>8. CASE \E f \in LimitSet : HandMoves(f)
  BY <1>0, <1>2, <1>8 DEF HandMoves, TermsMove
<1>9. CASE /\ ~(\E k \in TermCalls : RecordLimits(k)) /\ ~SyncRefreshes /\ ~ViewRefreshes
           /\ ~SendLimits /\ ~(\E f \in LimitSet : HandMoves(f))
  <2>1. settled' = settled
    BY <1>9 DEF TermsNext, termVars, pastVars, AskFor, CallTimesOut, FindEntry, RecordClose,
           RecordLost, TakeRequest, SendClose, SendFails, HandCloses, SyncReads, SyncSweeps,
           ViewReads, TermsRestart
  <2>2. entry'.limits = entry.limits
    <3>1. ASSUME NEW k \in TermCalls, RecordClose(k) PROVE entry'.limits = entry.limits
      BY <1>1, <3>1 DEF RecordClose, Entries
    <3>2. ASSUME SyncSweeps PROVE entry'.limits = entry.limits
      BY <1>1, <3>2 DEF SyncSweeps, Entries
    <3> QED BY <1>9, <3>1, <3>2, EntryWriters
  <2>3. venue'.limits = venue.limits
    <3>1. ASSUME NEW t \in Terms, t.units = venue.units, TermsMove(t, entry)
          PROVE  venue'.limits = venue.limits \/ settled' = FALSE
      BY <3>1 DEF TermsMove
    <3> QED BY <1>0, <1>1, <3>1, VenueShrinks
  <2> QED BY <1>0, <1>2, <2>1, <2>2, <2>3
<1> QED BY <1>4, <1>5, <1>6, <1>7, <1>8, <1>9

-----------------------------------------------------------------------------
TermsInv ==
    /\ TermsTypeOK /\ ReadsAreOld /\ DealtCalls
    /\ misled \/ BookCovers
    /\ OpenKept
    /\ LimitsFollow

LEMMA TermsInvInit == TermsInit => TermsInv
<1> SUFFICES ASSUME TermsInit PROVE TermsInv
  OBVIOUS
<1> USE PositionTermsAssumption
<1>1. TermsTypeOK
  BY TermsTypeInit
<1>2. PICK limits \in LimitSet, volume \in Rounded(Size) \ {0} :
         /\ venue = [units |-> volume, limits |-> limits]
         /\ rounding = Short(volume, Size)
         /\ entry = [open |-> TRUE, confirmed |-> FALSE, units |-> Size, limits |-> limits]
  BY DEF TermsInit
<1>3. ReadsAreOld /\ LimitsFollow /\ DealtCalls /\ OpenKept
  BY <1>2 DEF TermsInit, ReadsAreOld, LimitsFollow, DealtCalls, OpenKept
<1>4. BookCovers
  <2>1. PICK f : f = [j \in 0..MaxTermCalls |-> 0]
    OBVIOUS
  <2>2. f \in Dues
    BY <2>1 DEF Dues, TermsInit, Due, TermCalls
  <2>3. f[MaxTermCalls] + venue.units <= entry.units + rounding
    <3>1. volume \in Nat /\ Size \in Nat
      BY RoundedTyped DEF Units
    <3>2. volume <= Size + Short(volume, Size)
      BY <3>1, RoundedTyped
    <3> QED BY <1>2, <2>1, <3>1, <3>2 DEF Short
  <2>4. Covers(f)
    BY <2>3 DEF Covers, TermsInit
  <2> QED BY <2>2, <2>4 DEF BookCovers
<1> QED BY <1>1, <1>2, <1>3, <1>4 DEF TermsInv

LEMMA TermsInvStep == TermsInv /\ [TermsNext]_termVars => TermsInv'
<1> SUFFICES ASSUME TermsInv, [TermsNext]_termVars PROVE TermsInv'
  OBVIOUS
<1>1. TermsTypeOK /\ ReadsAreOld /\ DealtCalls /\ LimitsFollow /\ OpenKept
  BY DEF TermsInv
<1>2. TermsTypeOK'
  BY <1>1, TermsTypeStep
<1>3. ReadsAreOld' /\ DealtCalls' /\ LimitsFollow' /\ OpenKept'
  BY <1>1, <1>2, ReadsStep, DealtStep, LimitsStep, OpenStep
<1>4. misled => misled'
  BY DEF TermsNext, termVars, pastVars, AskFor, CallTimesOut, FindEntry, RecordClose,
         RecordLimits, TermsMove, RecordLost, TakeRequest, SendClose, SendLimits, SendFails,
         HandCloses, HandMoves, SyncReads, SyncRefreshes, SyncSweeps, ViewReads, ViewRefreshes,
         TermsRestart
<1>5. (misled \/ BookCovers)'
  BY <1>1, <1>2, <1>3, <1>4, CoversStep DEF TermsInv
<1> QED BY <1>2, <1>3, <1>5 DEF TermsInv

LEMMA TermsInvariant == TermsSpec => []TermsInv
<1>1. TermsInit => TermsInv
  BY TermsInvInit
<1>2. TermsInv /\ [TermsNext]_termVars => TermsInv'
  BY TermsInvStep
<1> QED BY <1>1, <1>2, PTL DEF TermsSpec

\* For any size, lot, number of calls and trouble: the entry of a position is open unless
\* reads that failed have ended it, covers what there is at the venue but for what rounding
\* has lost unless the view has misled it, and has its limits after a pass at rest.
THEOREM ExposureIsCovered == TermsSpec => []TermsAgree
<1>1. TermsInv => TermsAgree
  <2> SUFFICES ASSUME TermsInv PROVE TermsAgree
    OBVIOUS
  <2>1. ASSUME ~misled PROVE entry.units + rounding >= venue.units
    <3>1. PICK f \in Dues : Covers(f)
      BY <2>1 DEF TermsInv, BookCovers
    <3>2. f[MaxTermCalls] \in Nat
      BY PositionTermsAssumption DEF Dues
    <3>3. venue.units \in Nat /\ entry.units \in Nat /\ rounding \in Nat
      BY PositionTermsAssumption DEF TermsInv, TermsTypeOK, Terms, Units
    <3>4. f[MaxTermCalls] + venue.units <= entry.units + rounding
      BY <3>1 DEF Covers
    <3> QED BY <3>2, <3>3, <3>4
  <2> QED BY <2>1 DEF TermsInv, TermsAgree, NeverUnderstated, OpenKept
<1> QED BY <1>1, TermsInvariant, PTL
==============================================================================
