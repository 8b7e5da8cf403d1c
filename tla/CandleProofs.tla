---------------------------- MODULE CandleProofs ----------------------------
(***************************************************************************)
(* Theorems about candles: those in the store, for every number of slots,  *)
(* every window of the polls and every depth of the readers, and their     *)
(* copies in the reporting database, for every batch and length of bars.   *)
(***************************************************************************)
EXTENDS CandleStore, ReportingMirror, FiniteSetTheorems, WellFoundedInduction, TLAPS

-----------------------------------------------------------------------------
(* Numbers.                                                                *)

\* Below a number every set of numbers has a least and a greatest element.
LEMMA NatWellFounded == IsWellFoundedOn({ss \in Nat \X Nat : ss[1] < ss[2]}, Nat)
BY NatLessThanWellFounded DEF OpToRel

LEMMA LeastNumber ==
    ASSUME NEW T, T \subseteq Nat, T # {}
    PROVE  \E x \in T : \A y \in T : x <= y
<1> DEFINE Smaller == {ss \in Nat \X Nat : ss[1] < ss[2]}
<1>1. PICK x \in T : \A y \in T : ~ (<<y, x>> \in Smaller)
  <2>1. IsWellFoundedOn(Smaller, Nat)
    BY NatWellFounded
  <2> HIDE DEF Smaller
  <2> QED BY <2>1, WFMin
<1>2. ASSUME NEW y \in T PROVE x <= y
  <2>1. x \in Nat /\ y \in Nat
    OBVIOUS
  <2>2. y < x => <<y, x>> \in Smaller
    BY <2>1
  <2> HIDE DEF Smaller
  <2> QED BY <1>1, <2>1, <2>2
<1> QED BY <1>2

LEMMA GreatestNumber ==
    ASSUME NEW S, S \subseteq Nat, S # {}, NEW n \in Nat, \A y \in S : y <= n
    PROVE  \E x \in S : \A y \in S : y <= x
<1> DEFINE Above == {m \in Nat : \A y \in S : y <= m}
<1>1. Above \subseteq Nat /\ Above # {}
  OBVIOUS
<1>2. PICK x \in Above : \A m \in Above : x <= m
  <2> HIDE DEF Above
  <2> QED BY <1>1, LeastNumber
<1>3. x \in S
  <2> SUFFICES ASSUME x \notin S PROVE FALSE
    OBVIOUS
  <2>1. x \in Nat /\ \A y \in S : y \in Nat /\ y < x
    BY <1>2
  <2>2. PICK y \in S : y \in Nat /\ y < x
    BY <2>1
  <2>3. x - 1 \in Nat /\ \A z \in S : z <= x - 1
    BY <2>1, <2>2
  <2>4. x - 1 \in Above /\ ~(x <= x - 1)
    BY <2>1, <2>3
  <2> QED BY <1>2, <2>4
<1> QED BY <1>2, <1>3

-----------------------------------------------------------------------------
(* The store.                                                              *)

\* Candles that the venue can have given: of slots with prices, at most one of each, and
\* finished only if the slot is over.
Genuine(cs) ==
    /\ \A c \in cs : c.slot \in traded /\ (c.form = "final" => c.slot < now)
    /\ \A c, d \in cs : c.slot = d.slot => c = d
GenuineRows(st) ==
    \A s \in Slots :
        /\ st[s] \in {"forming", "final"} => s \in traded
        /\ st[s] = "final" => s < now

\* Candles in messages, in answers and at the delayed trigger, and the rows of the store.
RowTypes ==
    /\ now \in 0..MaxSlot /\ traded \in SUBSET (1..now)
    /\ delayed \in Rows
    /\ inbox \in Seq(Message)
    /\ answer \in [Fetchers -> Rows]
    /\ store \in [Slots -> Forms]
    /\ reader \in {"no", "waiting", "answered", "saved"}
    /\ raced \in BOOLEAN
    /\ published \in SUBSET Slots

OnlyOver ==
    /\ Genuine(delayed)
    /\ \A f \in Fetchers : Genuine(answer[f])
    /\ \A i \in DOMAIN inbox : inbox[i].kind \in {"update", "bulk"} => Genuine(inbox[i].rows)
    /\ GenuineRows(store)

\* What a reader is about to write unfinished is not finished in the store, for nobody else
\* writes while it holds the lock, but for the backfill; and what it found missing still is.
ReaderHolds ==
    /\ reader # "answered" => answer["reader"] = {}
    /\ raced \/ \A s \in Slots :
          [slot |-> s, form |-> "forming"] \in answer["reader"] => store[s] # "final"
    /\ raced \/ (reader = "saved" => \A s \in absent : store[s] = "none")

StoreInv == RowTypes /\ OnlyOver /\ ReaderHolds

LEMMA StoreInvInit == CandleInit => StoreInv
<1> SUFFICES ASSUME CandleInit PROVE StoreInv
  OBVIOUS
<1> USE CandleStoreAssumption DEF CandleInit
<1>1. RowTypes
  <2>1. now \in 0..MaxSlot /\ inbox \in Seq(Message)
    OBVIOUS
  <2>2. store \in [Slots -> Forms] /\ answer \in [Fetchers -> Rows]
    BY DEF Rows, Forms
  <2> QED  BY <2>1, <2>2 DEF RowTypes, Rows
<1>2. OnlyOver /\ ReaderHolds
  BY DEF OnlyOver, Genuine, GenuineRows, ReaderHolds, Fetchers
<1> QED  BY <1>1, <1>2 DEF StoreInv

-----------------------------------------------------------------------------
(* What a fetch returns, and how candles become messages.                  *)

LEMMA FetchedOver ==
    ASSUME RowTypes
    PROVE  /\ Fetched \in Rows /\ IsFiniteSet(Fetched)
           /\ Genuine(Fetched)
           /\ \A s \in Slots : [slot |-> s, form |-> "forming"] \in Fetched => s = now
<1> DEFINE there == {t \in traded : t < now \/ forming}
           candle(s) == [slot |-> s, form |-> IF s = now THEN "forming" ELSE "final"]
<1>1. Fetched = {candle(s) : s \in there}
  BY DEF Fetched
<1>2. there \subseteq Slots /\ Slots \subseteq Nat
  <2>1. MaxSlot \in Nat /\ now \in 0..MaxSlot /\ traded \subseteq 1..now
    BY CandleStoreAssumption DEF RowTypes
  <2>2. 1..now \subseteq 1..MaxSlot /\ 1..MaxSlot \subseteq Nat
    BY <2>1
  <2> QED  BY <2>1, <2>2 DEF Slots
<1>3. IsFiniteSet(Slots)
  BY CandleStoreAssumption, FS_Interval DEF Slots
<1>4. IsFiniteSet(there)
  BY <1>2, <1>3, FS_Subset
<1>5. IsFiniteSet(Fetched)
  <2> DEFINE f == [s \in there |-> candle(s)]
  <2>1. f \in Surjection(there, Fetched)
    BY <1>1 DEF Surjection
  <2> QED  BY <1>4, <2>1, FS_Surjection
<1>6. Fetched \in Rows
  BY <1>1, <1>2 DEF Rows, Candle
<1>7. \A s \in Slots : [slot |-> s, form |-> "forming"] \in Fetched => s = now
  BY <1>1
<1>8. Genuine(Fetched)
  BY <1>1, <1>2 DEF Genuine, GenuineRows, RowTypes
<1> QED  BY <1>5, <1>6, <1>7, <1>8

LEMMA CandlesFinite == IsFiniteSet(Candle)
<1>1. IsFiniteSet(Slots)
  BY CandleStoreAssumption, FS_Interval DEF Slots
<1>2. IsFiniteSet({"forming", "final"})
  <2>1. {"forming", "final"} = {"forming"} \cup {"final"}
    OBVIOUS
  <2>2. IsFiniteSet({"forming"})
    BY FS_Singleton
  <2>3. IsFiniteSet({"forming"} \cup {"final"})
    BY <2>2, FS_AddElement
  <2> QED  BY <2>1, <2>3
<1> DEFINE f == [p \in Slots \X {"forming", "final"} |-> [slot |-> p[1], form |-> p[2]]]
<1>3. f \in Surjection(Slots \X {"forming", "final"}, Candle)
  <2>1. f \in [Slots \X {"forming", "final"} -> Candle]
    BY DEF Candle
  <2>2. ASSUME NEW c \in Candle PROVE \E p \in Slots \X {"forming", "final"} : f[p] = c
    <3>1. c = [slot |-> c.slot, form |-> c.form]
          /\ <<c.slot, c.form>> \in Slots \X {"forming", "final"}
      BY DEF Candle
    <3>2. f[<<c.slot, c.form>>] = [slot |-> c.slot, form |-> c.form]
      BY <3>1
    <3> QED  BY <3>1, <3>2
  <2> QED  BY <2>1, <2>2 DEF Surjection
<1> QED  BY <1>1, <1>2, <1>3, FS_Product, FS_Surjection

LEMMA UpdatesTyped ==
    ASSUME NEW cs \in Rows, IsFiniteSet(cs), NEW q \in OldestFirst(cs)
    PROVE  /\ Updates(q) \in Seq(Message)
           /\ \A i \in DOMAIN Updates(q) :
                 Updates(q)[i].rows \subseteq cs /\ Updates(q)[i].kind = "update"
<1>1. Cardinality(cs) \in Nat
  BY FS_CardinalityType
<1>2. q \in [1..Cardinality(cs) -> cs]
  BY DEF OldestFirst
<1>3. \A k \in 1..Cardinality(cs) : [kind |-> "update", rows |-> {q[k]}] \in Message
  BY <1>2 DEF Message, Rows
<1>4. Updates(q) = [k \in 1..Cardinality(cs) |-> [kind |-> "update", rows |-> {q[k]}]]
  BY <1>2 DEF Updates
<1>5. Updates(q) \in Seq(Message)
  BY <1>1, <1>3, <1>4
<1> QED  BY <1>2, <1>4, <1>5

\* Messages that are appended leave the queue well formed.
LEMMA Appended ==
    ASSUME StoreInv, NEW more \in Seq(Message),
           \A i \in DOMAIN more : more[i].kind \in {"update", "bulk"} => Genuine(more[i].rows)
    PROVE  /\ inbox \o more \in Seq(Message)
           /\ \A i \in DOMAIN (inbox \o more) :
                 (inbox \o more)[i].kind \in {"update", "bulk"} => Genuine((inbox \o more)[i].rows)
<1>1. inbox \in Seq(Message)
  BY DEF StoreInv, RowTypes
<1>2. inbox \o more \in Seq(Message)
  BY <1>1
<1>3. \A i \in DOMAIN (inbox \o more) :
         \/ i \in DOMAIN inbox /\ (inbox \o more)[i] = inbox[i]
         \/ i - Len(inbox) \in DOMAIN more /\ (inbox \o more)[i] = more[i - Len(inbox)]
  BY <1>1
<1> QED  BY <1>2, <1>3 DEF StoreInv, OnlyOver

LEMMA TailOver ==
    ASSUME StoreInv, inbox # <<>>
    PROVE  /\ Head(inbox) \in Message /\ Tail(inbox) \in Seq(Message)
           /\ Head(inbox).kind \in {"update", "bulk"} => Genuine(Head(inbox).rows)
           /\ \A i \in DOMAIN Tail(inbox) :
                 Tail(inbox)[i].kind \in {"update", "bulk"} => Genuine(Tail(inbox)[i].rows)
<1>1. inbox \in Seq(Message)
  BY DEF StoreInv, RowTypes
<1>2. /\ Head(inbox) = inbox[1] /\ 1 \in DOMAIN inbox
      /\ Head(inbox) \in Message /\ Tail(inbox) \in Seq(Message)
      /\ \A i \in DOMAIN Tail(inbox) : i + 1 \in DOMAIN inbox /\ Tail(inbox)[i] = inbox[i + 1]
  BY <1>1
<1> QED  BY <1>2 DEF StoreInv, OnlyOver

LEMMA HeadRows ==
    ASSUME StoreInv, inbox # <<>>, Head(inbox).kind \in {"update", "bulk"}
    PROVE  Head(inbox).rows \in Rows /\ Genuine(Head(inbox).rows)
  BY TailOver DEF Message

\* What is written: of each slot that is among the rows the form of one of them.
LEMMA WrittenRows ==
    ASSUME StoreInv, NEW cs \in Rows
    PROVE  /\ Written(cs) \in [Slots -> Forms]
           /\ \A s \in Slots :
                 \/ Written(cs)[s] = store[s] /\ \A c \in cs : c.slot # s
                 \/ \E c \in cs : c.slot = s /\ Written(cs)[s] = c.form
           /\ Genuine(cs) => GenuineRows(Written(cs))
<1>1. store \in [Slots -> Forms]
  BY DEF StoreInv, RowTypes
<1>2. \A s \in Slots : Written(cs)[s] = IF \E c \in cs : c.slot = s
                        THEN (CHOOSE c \in cs : c.slot = s).form ELSE store[s]
  BY DEF Written
<1>3. \A s \in Slots :
         \/ Written(cs)[s] = store[s] /\ \A c \in cs : c.slot # s
         \/ \E c \in cs : c.slot = s /\ Written(cs)[s] = c.form
  BY <1>2
<1>4. \A s \in Slots : Written(cs)[s] \in Forms
  BY <1>1, <1>3 DEF Rows, Candle, Forms
<1>5. Written(cs) \in [Slots -> Forms]
  BY <1>4 DEF Written
<1>6. Genuine(cs) => GenuineRows(Written(cs))
  BY <1>3 DEF StoreInv, OnlyOver, Genuine, GenuineRows
<1> QED  BY <1>3, <1>5, <1>6
-----------------------------------------------------------------------------
(* The steps.                                                              *)

\* Two queues, one after the other.
LEMMA Joined ==
    ASSUME NEW a \in Seq(Message), NEW b \in Seq(Message)
    PROVE  /\ a \o b \in Seq(Message) /\ Len(a \o b) = Len(a) + Len(b)
           /\ \A i \in DOMAIN a : i \in DOMAIN (a \o b) /\ (a \o b)[i] = a[i]
           /\ \A i \in DOMAIN b : Len(a) + i \in DOMAIN (a \o b) /\ (a \o b)[Len(a) + i] = b[i]
           /\ \A i \in DOMAIN (a \o b) :
                 i \notin DOMAIN a => i - Len(a) \in DOMAIN b /\ (a \o b)[i] = b[i - Len(a)]
           /\ \A c \in Seq(Message) : (a \o b) \o c = a \o (b \o c)
<1>1. /\ a \o b \in Seq(Message) /\ Len(a \o b) = Len(a) + Len(b)
      /\ Len(a) \in Nat /\ Len(b) \in Nat
      /\ DOMAIN a = 1..Len(a) /\ DOMAIN b = 1..Len(b) /\ DOMAIN (a \o b) = 1..(Len(a) + Len(b))
  OBVIOUS
<1>2. \A i \in DOMAIN a : i \in DOMAIN (a \o b) /\ (a \o b)[i] = a[i]
  BY <1>1
<1>3. \A i \in DOMAIN b : Len(a) + i \in DOMAIN (a \o b) /\ (a \o b)[Len(a) + i] = b[i]
  BY <1>1
<1>4. \A i \in DOMAIN (a \o b) :
         i \notin DOMAIN a => i - Len(a) \in DOMAIN b /\ (a \o b)[i] = b[i - Len(a)]
  BY <1>1
<1>5. \A c \in Seq(Message) : (a \o b) \o c = a \o (b \o c)
  OBVIOUS
<1> QED  BY <1>1, <1>2, <1>3, <1>4, <1>5

\* A step that only appends messages, or changes nothing the invariant speaks of.
LEMMA OnlySends ==
    ASSUME StoreInv, NEW more \in Seq(Message),
           \A i \in DOMAIN more : more[i].kind \in {"update", "bulk"} => Genuine(more[i].rows),
           inbox' = inbox \o more, delayed' \in Rows, Genuine(delayed'), published' \in SUBSET Slots,
           UNCHANGED <<answer, store, absent, reader, raced, now, traded>>
    PROVE  StoreInv'
<1>1. RowTypes'
  BY Appended DEF StoreInv, RowTypes
<1>2. OnlyOver'
  <2>1. \A i \in DOMAIN inbox' : inbox'[i].kind \in {"update", "bulk"} => Genuine(inbox'[i].rows)
    BY Appended
  <2> QED  BY <2>1 DEF StoreInv, OnlyOver, Genuine, GenuineRows
<1>3. ReaderHolds'
  BY DEF StoreInv, ReaderHolds
<1> QED  BY <1>1, <1>2, <1>3 DEF StoreInv

\* A step of the container that may take a message from the queue and does not write.
LEMMA OnlyTakes ==
    ASSUME StoreInv, inbox' = inbox \/ (inbox # <<>> /\ inbox' = Tail(inbox)),
           UNCHANGED <<delayed, answer, store, absent, raced, now, traded, published>>,
           reader' = reader \/ (reader = "no" /\ reader' = "waiting")
    PROVE  StoreInv'
<1>1. inbox' \in Seq(Message)
      /\ \A i \in DOMAIN inbox' : inbox'[i].kind \in {"update", "bulk"} => Genuine(inbox'[i].rows)
  BY TailOver DEF StoreInv, RowTypes, OnlyOver
<1>2. RowTypes'
  BY <1>1 DEF StoreInv, RowTypes
<1>3. OnlyOver'
  BY <1>1 DEF StoreInv, OnlyOver, Genuine, GenuineRows
<1>4. ReaderHolds'
  BY DEF StoreInv, ReaderHolds
<1> QED  BY <1>2, <1>3, <1>4 DEF StoreInv

\* A writer that respects the lock.
LEMMA WritesUnlocked ==
    ASSUME StoreInv, NEW cs \in Rows, Genuine(cs), reader = "no", store' = Written(cs),
           inbox' = inbox \/ (inbox # <<>> /\ inbox' = Tail(inbox)),
           \A f \in Fetchers : answer'[f] \in {answer[f], {}}, answer' \in [Fetchers -> Rows],
           UNCHANGED <<delayed, reader, absent, raced, now, traded, published>>
    PROVE  StoreInv'
<1>1. inbox' \in Seq(Message)
      /\ \A i \in DOMAIN inbox' : inbox'[i].kind \in {"update", "bulk"} => Genuine(inbox'[i].rows)
  BY TailOver DEF StoreInv, RowTypes, OnlyOver
<1>2. store' \in [Slots -> Forms] /\ GenuineRows(store')
  BY WrittenRows
<1>3. RowTypes'
  BY <1>1, <1>2 DEF StoreInv, RowTypes
<1>4. OnlyOver'
  BY <1>1, <1>2 DEF StoreInv, OnlyOver, Genuine, GenuineRows
<1>5. ReaderHolds'
  BY DEF StoreInv, ReaderHolds, Fetchers
<1> QED  BY <1>3, <1>4, <1>5 DEF StoreInv

\* The answer to a fetch, whatever became of the call that waits for it.
LEMMA DeliverKeeps ==
    ASSUME StoreInv, NEW cs \in SUBSET Fetched, Deliver(cs),
           UNCHANGED <<delayed, raced, now, traded, published>>
    PROVE  StoreInv'
<1> DEFINE r == Head(requests)
           bulk == <<[kind |-> "bulk", rows |-> cs]>>
<1>1. /\ cs \in Rows /\ Genuine(cs)
      /\ \A s \in Slots : [slot |-> s, form |-> "forming"] \in cs => s = now
  BY FetchedOver DEF StoreInv, Rows, Genuine, GenuineRows
<1>2. bulk \in Seq(Message) /\ \A i \in DOMAIN bulk : Genuine(bulk[i].rows)
  BY <1>1 DEF Message
<1>3. inbox' = inbox \/ inbox' = inbox \o bulk
  BY DEF Deliver, StoreInv, RowTypes
<1>4. inbox' \in Seq(Message)
      /\ \A i \in DOMAIN inbox' : inbox'[i].kind \in {"update", "bulk"} => Genuine(inbox'[i].rows)
  BY <1>2, <1>3, Appended DEF StoreInv, RowTypes, OnlyOver
<1>5. /\ answer' \in [Fetchers -> Rows]
      /\ \A f \in Fetchers : answer'[f] \in {answer[f], cs}
  <2>1. answer' = answer \/ answer' = [answer EXCEPT ![r.by] = cs]
    BY DEF Deliver
  <2>2. answer \in [Fetchers -> Rows]
    BY DEF StoreInv, RowTypes
  <2> QED  BY <1>1, <2>1, <2>2
<1>6. \/ answer'["reader"] = answer["reader"] /\ reader' = reader
      \/ answer'["reader"] = cs /\ reader' = "answered"
  <2>1. "reader" \in Fetchers /\ answer \in [Fetchers -> Rows]
    BY DEF StoreInv, RowTypes, Fetchers
  <2>2. CASE ~r.late /\ r.by = "reader"
    BY <2>1, <2>2 DEF Deliver
  <2>3. CASE ~(~r.late /\ r.by = "reader")
    BY <2>1, <2>3 DEF Deliver
  <2> QED  BY <2>2, <2>3
<1>7. store' = store /\ absent' = absent
  BY DEF Deliver
<1>8. RowTypes'
  BY <1>4, <1>5, <1>6, <1>7 DEF StoreInv, RowTypes
<1>9. OnlyOver'
  BY <1>1, <1>4, <1>5, <1>7 DEF StoreInv, OnlyOver, Genuine, GenuineRows
<1>10. ReaderHolds'
  <2>1. \A s \in Slots : [slot |-> s, form |-> "forming"] \in cs => store[s] # "final"
    BY <1>1 DEF StoreInv, OnlyOver, RowTypes, GenuineRows
  <2> QED  BY <1>6, <1>7, <2>1 DEF StoreInv, ReaderHolds
<1> QED  BY <1>8, <1>9, <1>10 DEF StoreInv

\* The polling loop and the delayed trigger send what the venue has.
LEMMA PollKeeps == ASSUME StoreInv, Poll PROVE StoreInv'
<1> DEFINE window == Newest(Fetched, Lookback)
           gap(c) == IF GapBefore(c.slot) THEN <<[kind |-> "gap"]>> ELSE <<>>
<1>1. Fetched \in Rows /\ IsFiniteSet(Fetched) /\ Genuine(Fetched)
  BY FetchedOver DEF StoreInv
<1>2. window \subseteq Fetched /\ ToPublish(window) \subseteq Fetched /\ Newest(window, 1) \subseteq Fetched
  BY DEF Newest, ToPublish
<1>3. ToPublish(window) \in Rows /\ IsFiniteSet(ToPublish(window)) /\ Newest(window, 1) \in Rows
  BY <1>1, <1>2, FS_Subset DEF Rows
<1>4. PICK c \in Newest(window \ Newest(window, 1), 1) :
         \E q \in OldestFirst(ToPublish(window)) : inbox' = inbox \o gap(c) \o Updates(q)
  BY DEF Poll
<1>5. PICK q \in OldestFirst(ToPublish(window)) : inbox' = inbox \o gap(c) \o Updates(q)
  BY <1>4
<1>6. gap(c) \in Seq(Message) /\ \A i \in DOMAIN gap(c) : gap(c)[i].kind = "gap"
  <2>1. [kind |-> "gap"] \in Message
    BY DEF Message
  <2>2. CASE GapBefore(c.slot)
    <3>1. gap(c) = <<[kind |-> "gap"]>>
      BY <2>2
    <3> QED  BY <2>1, <3>1
  <2>3. CASE ~GapBefore(c.slot)
    <3>1. gap(c) = <<>>
      BY <2>3
    <3> QED  BY <3>1
  <2> QED  BY <2>2, <2>3
<1>7. /\ Updates(q) \in Seq(Message)
      /\ \A i \in DOMAIN Updates(q) : Genuine(Updates(q)[i].rows)
  BY <1>1, <1>2, <1>3, UpdatesTyped DEF Genuine, GenuineRows
<1>8. delayed' \in Rows /\ Genuine(delayed')
  BY <1>1, <1>2, <1>3 DEF Poll, Scheduled, StoreInv, RowTypes, OnlyOver, Genuine, GenuineRows
<1>9. UNCHANGED <<answer, store, absent, reader, raced, now, traded>>
  BY DEF Poll, worldVars, clockVars
<1>p. published' \in SUBSET Slots
  <2>1. \A d \in ToPublish(window) : d.slot \in Slots
    BY <1>3 DEF Rows, Candle
  <2>2. published' = published \cup {d.slot : d \in ToPublish(window)}
    BY DEF Poll
  <2> QED  BY <2>1, <2>2 DEF StoreInv, RowTypes
<1> DEFINE more == gap(c) \o Updates(q)
<1> HIDE DEF gap
<1>10. /\ more \in Seq(Message)
       /\ \A i \in DOMAIN more :
             \/ i \in DOMAIN gap(c) /\ more[i] = gap(c)[i]
             \/ i - Len(gap(c)) \in DOMAIN Updates(q) /\ more[i] = Updates(q)[i - Len(gap(c))]
  BY <1>6, <1>7
<1>11. \A i \in DOMAIN more : more[i].kind \in {"update", "bulk"} => Genuine(more[i].rows)
  BY <1>6, <1>7, <1>10
<1>12. inbox' = inbox \o more
  <2>1. inbox \in Seq(Message)
    BY DEF StoreInv, RowTypes
  <2>2. (inbox \o gap(c)) \o Updates(q) = inbox \o (gap(c) \o Updates(q))
    BY <1>6, <1>7, <2>1, Joined, Zenon
  <2> QED  BY <1>5, <2>2, Zenon
<1> HIDE DEF more
<1> QED  BY <1>8, <1>9, <1>10, <1>11, <1>12, <1>p, OnlySends

LEMMA TriggerKeeps == ASSUME StoreInv, NEW fetches \in BOOLEAN, Trigger(fetches) PROVE StoreInv'
<1> DEFINE latest == IF fetches /\ Fetched # {} THEN Newest(Fetched, 1) ELSE delayed
<1>1. Fetched \in Rows /\ IsFiniteSet(Fetched) /\ Genuine(Fetched)
  BY FetchedOver DEF StoreInv
<1>2. latest \in Rows /\ Genuine(latest)
  <2>1. Newest(Fetched, 1) \subseteq Fetched
    BY DEF Newest
  <2> QED  BY <1>1, <2>1 DEF Rows, Genuine, GenuineRows, StoreInv, RowTypes, OnlyOver
<1>3. IsFiniteSet(latest)
  BY <1>2, CandlesFinite, FS_Subset DEF Rows
<1>4. PICK q \in OldestFirst(latest) : inbox' = inbox \o Updates(q)
  BY DEF Trigger
<1> HIDE DEF latest
<1>5. /\ Updates(q) \in Seq(Message)
      /\ \A i \in DOMAIN Updates(q) : Genuine(Updates(q)[i].rows)
  BY <1>2, <1>3, UpdatesTyped DEF Genuine, GenuineRows
<1>6. delayed' \in Rows /\ Genuine(delayed')
      /\ UNCHANGED <<answer, store, absent, reader, raced, now, traded>>
  BY DEF Trigger, Rows, Genuine, GenuineRows, worldVars, clockVars
<1>7. published' \in SUBSET Slots
  <2>1. \A d \in latest : d.slot \in Slots
    BY <1>2 DEF Rows, Candle
  <2>2. published' = published \cup {d.slot : d \in {d \in latest : d.form = "final"}}
    BY DEF Trigger, latest
  <2> QED  BY <2>1, <2>2 DEF StoreInv, RowTypes
<1> QED  BY <1>4, <1>5, <1>6, <1>7, OnlySends

LEMMA StoreInvStep == StoreInv /\ [CandleNext]_candleVars => StoreInv'
<1> SUFFICES ASSUME StoreInv, [CandleNext]_candleVars PROVE StoreInv'
  OBVIOUS
<1>1. ASSUME NEW hasPrice \in BOOLEAN, SlotBegins(hasPrice) PROVE StoreInv'
  <2>1. now' = now + 1 /\ now' \in 0..MaxSlot /\ now \in Nat
    BY <1>1, CandleStoreAssumption DEF SlotBegins, StoreInv, RowTypes
  <2>2. traded' \in SUBSET (1..now')
    BY <1>1, <2>1 DEF SlotBegins, StoreInv, RowTypes
  <2>3. UNCHANGED <<delayed, inbox, answer, store, absent, reader, raced, published>>
    BY <1>1 DEF SlotBegins, pollVars, containerVars
  <2>4. RowTypes'
    BY <2>1, <2>2, <2>3 DEF StoreInv, RowTypes
  <2>5. ASSUME NEW cs \in Rows, Genuine(cs) PROVE Genuine(cs)'
    <3>1. traded \subseteq traded'
      BY <1>1 DEF SlotBegins
    <3>2. \A c \in cs : c.slot \in Nat
      BY CandleStoreAssumption DEF Rows, Candle, Slots
    <3> QED  BY <2>1, <2>5, <3>1, <3>2 DEF Genuine
  <2>6. OnlyOver'
    <3>1. Genuine(delayed)'
      BY <2>3, <2>5 DEF StoreInv, RowTypes, OnlyOver
    <3>2. \A f \in Fetchers : answer[f] \in Rows /\ Genuine(answer[f])
      BY DEF StoreInv, RowTypes, OnlyOver
    <3>3. \A f \in Fetchers : Genuine(answer[f])'
      BY <2>3, <2>5, <3>2
    <3>4. \A i \in DOMAIN inbox : inbox[i].kind \in {"update", "bulk"} =>
             inbox[i].rows \in Rows /\ Genuine(inbox[i].rows)
      BY DEF StoreInv, RowTypes, OnlyOver, Message
    <3>5. \A i \in DOMAIN inbox' : inbox'[i].kind \in {"update", "bulk"} => Genuine(inbox[i].rows)'
      BY <2>3, <2>5, <3>4
    <3>6. GenuineRows(store)'
      BY <1>1, <2>1, <2>3, CandleStoreAssumption
         DEF StoreInv, OnlyOver, Slots, GenuineRows, SlotBegins
    <3> QED  BY <2>3, <3>1, <3>3, <3>5, <3>6 DEF OnlyOver
  <2>7. ReaderHolds'
    BY <2>3 DEF StoreInv, ReaderHolds
  <2> QED  BY <2>4, <2>6, <2>7 DEF StoreInv
<1>2. CASE Poll
  BY <1>2, PollKeeps
<1>3. ASSUME NEW fetches \in BOOLEAN, Trigger(fetches) PROVE StoreInv'
  BY <1>3, TriggerKeeps
<1>4. CASE AdapterAnswers
  <2> DEFINE got == Newest(Fetched, Count(Head(requests).by))
  <2>1. got \in SUBSET Fetched
    BY DEF Newest
  <2>2. Deliver(got) /\ UNCHANGED <<delayed, raced, now, traded, published>>
    BY <1>4 DEF AdapterAnswers, pollVars
  <2> QED  BY <2>1, <2>2, DeliverKeeps
<1>5. CASE AdapterFails
  BY <1>5, DeliverKeeps DEF AdapterFails, pollVars, clockVars
<1>6. ASSUME NEW f \in Fetchers, GivesUp(f) PROVE StoreInv'
  <2>1. UNCHANGED <<delayed, inbox, answer, store, absent, raced, now, traded, published>>
        /\ reader' \in {reader, "answered"}
    BY <1>6 DEF GivesUp, pollVars, clockVars
  <2>2. RowTypes' /\ OnlyOver'
    BY <2>1 DEF StoreInv, RowTypes, OnlyOver, Genuine, GenuineRows
  <2>3. ReaderHolds'
    BY <2>1 DEF StoreInv, ReaderHolds
  <2> QED  BY <2>2, <2>3 DEF StoreInv
<1>7. CASE Ask
  <2> DEFINE more == <<[kind |-> "question", needs |-> published]>>
  <2>1. [kind |-> "question", needs |-> published] \in Message
    BY DEF Message, StoreInv, RowTypes
  <2>2. more \in Seq(Message) /\ \A i \in DOMAIN more : more[i].kind = "question"
    BY <2>1
  <2>3. inbox' = inbox \o more
    BY <1>7, <2>1 DEF Ask, StoreInv, RowTypes
  <2>4. UNCHANGED <<answer, store, absent, reader, raced, now, traded, delayed, published>>
    BY <1>7 DEF Ask, pollVars, clockVars
  <2>5. delayed' \in Rows /\ Genuine(delayed') /\ published' \in SUBSET Slots
    BY <2>4 DEF StoreInv, RowTypes, OnlyOver, Genuine, GenuineRows
  <2> HIDE DEF more
  <2> QED  BY <2>2, <2>3, <2>4, <2>5, OnlySends
<1>8. CASE BeginRead
  BY <1>8, OnlyTakes DEF BeginRead, pollVars, clockVars
<1>9. CASE Restart
  <2>1. RowTypes'
    <3>1. inbox' \in Seq(Message) /\ answer' \in [Fetchers -> Rows]
      BY <1>9 DEF Restart, clockVars, Rows
    <3> QED  BY <1>9, <3>1 DEF Restart, clockVars, StoreInv, RowTypes, Rows
  <2>2. OnlyOver'
    BY <1>9 DEF Restart, clockVars, StoreInv, OnlyOver, Genuine, GenuineRows
  <2>3. ReaderHolds'
    BY <1>9 DEF Restart, clockVars, ReaderHolds, Fetchers
  <2> QED  BY <2>1, <2>2, <2>3 DEF StoreInv
<1>10. CASE SaveUpdate
  BY <1>10, HeadRows, WritesUnlocked
     DEF SaveUpdate, Handles, Unlocked, StoreInv, RowTypes, pollVars, worldVars, clockVars
<1>11. CASE SaveBulk
  BY <1>11, HeadRows, WritesUnlocked
     DEF SaveBulk, Handles, Unlocked, StoreInv, RowTypes, pollVars, worldVars, clockVars
<1>12. CASE BeginRepair
  BY <1>12, OnlyTakes DEF BeginRepair, Handles, pollVars, worldVars, clockVars
<1>13. CASE EndRepair
  <2> DEFINE cs == ToRepair(answer["repair"])
  <2>1. answer["repair"] \in Rows /\ Genuine(answer["repair"])
    BY DEF StoreInv, RowTypes, OnlyOver, Fetchers
  <2>2. cs \in Rows /\ Genuine(cs)
    BY <2>1 DEF ToRepair, Rows, Genuine, GenuineRows
  <2>3. answer' \in [Fetchers -> Rows] /\ \A f \in Fetchers : answer'[f] \in {answer[f], {}}
    BY <1>13 DEF EndRepair, StoreInv, RowTypes, Rows
  <2>4. /\ reader = "no" /\ store' = Written(cs) /\ inbox' = inbox
        /\ UNCHANGED <<delayed, reader, absent, raced, now, traded, published>>
    BY <1>13 DEF EndRepair, Unlocked, pollVars, worldVars, clockVars
  <2> HIDE DEF cs
  <2> QED  BY <2>2, <2>3, <2>4, WritesUnlocked
<1>14. CASE Serve
  BY <1>14, OnlyTakes DEF Serve, Handles, pollVars, worldVars, clockVars
<1>15. CASE SaveRead
  <2>1. answer["reader"] \in Rows /\ Genuine(answer["reader"])
    BY DEF StoreInv, RowTypes, OnlyOver, Fetchers
  <2>2. store' \in [Slots -> Forms] /\ GenuineRows(store')
    BY <1>15, <2>1, WrittenRows DEF SaveRead
  <2>3. /\ answer' \in [Fetchers -> Rows] /\ answer'["reader"] = {}
        /\ \A f \in Fetchers : answer'[f] \in {answer[f], {}}
    BY <1>15 DEF SaveRead, StoreInv, RowTypes, Rows, Fetchers
  <2>4. UNCHANGED <<delayed, inbox, raced, now, traded, published>> /\ reader' = "saved"
    BY <1>15 DEF SaveRead, pollVars, worldVars, clockVars
  <2>5. \A s \in absent' : store'[s] = "none"
    BY <1>15 DEF SaveRead, MissingSlots
  <2>6. RowTypes'
    BY <2>2, <2>3, <2>4 DEF StoreInv, RowTypes
  <2>7. OnlyOver'
    BY <2>2, <2>3, <2>4 DEF StoreInv, OnlyOver, Genuine, GenuineRows
  <2>8. ReaderHolds'
    BY <2>3, <2>4, <2>5 DEF ReaderHolds
  <2> QED  BY <2>6, <2>7, <2>8 DEF StoreInv
<1>16. CASE EndRead
  <2>1. store' \in [Slots -> Forms] /\ \A s \in Slots : store'[s] \in {store[s], "null"}
    BY <1>16 DEF EndRead, ToNull, StoreInv, RowTypes, Forms
  <2>2. UNCHANGED <<delayed, inbox, answer, raced, now, traded, published>>
        /\ reader = "saved" /\ reader' = "no" /\ absent' = {}
    BY <1>16 DEF EndRead, pollVars, worldVars, clockVars
  <2>3. RowTypes' /\ OnlyOver'
    BY <2>1, <2>2 DEF StoreInv, RowTypes, OnlyOver, Genuine, GenuineRows
  <2>4. ReaderHolds'
    BY <2>2 DEF StoreInv, ReaderHolds
  <2> QED  BY <2>3, <2>4 DEF StoreInv
<1>17. CASE BeginBackfill
  BY <1>17, OnlyTakes DEF BeginBackfill, pollVars, worldVars, clockVars
<1>18. CASE EndBackfill
  <2>1. answer["backfill"] \in Rows /\ Genuine(answer["backfill"])
    BY DEF StoreInv, RowTypes, OnlyOver, Fetchers
  <2>2. store' \in [Slots -> Forms] /\ GenuineRows(store')
    BY <1>18, <2>1, WrittenRows DEF EndBackfill
  <2>3. /\ answer' \in [Fetchers -> Rows] /\ answer'["reader"] = answer["reader"]
        /\ \A f \in Fetchers : answer'[f] \in {answer[f], {}}
    BY <1>18 DEF EndBackfill, StoreInv, RowTypes, Rows, Fetchers
  <2>4. UNCHANGED <<delayed, inbox, reader, absent, now, traded, published>>
    BY <1>18 DEF EndBackfill, pollVars, clockVars
  <2>5. raced' \in BOOLEAN /\ (raced => raced') /\ (reader # "no" => raced')
    BY <1>18 DEF EndBackfill
  <2>6. RowTypes'
    BY <2>2, <2>3, <2>4, <2>5 DEF StoreInv, RowTypes
  <2>7. OnlyOver'
    BY <2>2, <2>3, <2>4 DEF StoreInv, OnlyOver, Genuine, GenuineRows
  <2>8. ReaderHolds'
    BY <2>3, <2>4, <2>5 DEF StoreInv, ReaderHolds
  <2> QED  BY <2>6, <2>7, <2>8 DEF StoreInv
<1>19. CASE UNCHANGED candleVars
  BY <1>19 DEF candleVars, StoreInv, RowTypes, OnlyOver, Genuine, GenuineRows, ReaderHolds
<1> QED  BY <1>1, <1>2, <1>3, <1>4, <1>5, <1>6, <1>7, <1>8, <1>9, <1>10, <1>11, <1>12, <1>13,
            <1>14, <1>15, <1>16, <1>17, <1>18, <1>19 DEF CandleNext, ContainerStep

-----------------------------------------------------------------------------
(* What a poll and a trigger send.                                         *)

\* The newest of some candles are those that few others are newer than.
LEMMA NewestOnes ==
    ASSUME NEW cs \in Rows, NEW n \in Nat \ {0}
    PROVE  /\ Newest(cs, n) \in Rows /\ Newest(cs, n) \subseteq cs
           /\ \A c \in Newest(cs, n), d \in cs : c.slot <= d.slot => d \in Newest(cs, n)
           /\ \A c \in cs : c \in Newest(cs, 1) <=> \A d \in cs : d.slot <= c.slot
<1> DEFINE newer(c) == {d \in cs : d.slot > c.slot}
<1>1. IsFiniteSet(cs) /\ \A c \in cs : c.slot \in Nat
  <2>1. cs \subseteq Candle /\ \A c \in Candle : c.slot \in Nat
    BY CandleStoreAssumption DEF Rows, Candle, Slots
  <2> QED  BY <2>1, CandlesFinite, FS_Subset
<1>2. \A c \in cs : IsFiniteSet(newer(c)) /\ Cardinality(newer(c)) \in Nat
  BY <1>1, FS_Subset, FS_CardinalityType
<1>3. \A m, c : c \in Newest(cs, m) <=> c \in cs /\ Cardinality(newer(c)) < m
  BY DEF Newest
<1>n. \A c, d : d \in newer(c) <=> d \in cs /\ d.slot > c.slot
  OBVIOUS
<1> HIDE DEF newer
<1>4. ASSUME NEW c \in Newest(cs, n), NEW d \in cs, c.slot <= d.slot PROVE d \in Newest(cs, n)
  <2>0. c \in cs /\ Cardinality(newer(c)) < n
    BY <1>3
  <2>1. newer(d) \subseteq newer(c)
    <3>1. ASSUME NEW e \in newer(d) PROVE e \in newer(c)
      <4>1. e \in cs /\ e.slot > d.slot
        BY <1>n
      <4>2. e.slot > c.slot
        BY <1>1, <1>4, <2>0, <4>1
      <4> QED  BY <1>n, <4>1, <4>2
    <3> QED  BY <3>1
  <2>2. Cardinality(newer(d)) <= Cardinality(newer(c))
    BY <1>2, <2>0, <2>1, FS_Subset
  <2>3. Cardinality(newer(c)) \in Nat /\ Cardinality(newer(d)) \in Nat
    BY <1>2, <2>0
  <2>4. Cardinality(newer(d)) < n
    BY <2>0, <2>2, <2>3
  <2> QED  BY <1>3, <2>4
<1>5. ASSUME NEW c \in cs PROVE c \in Newest(cs, 1) <=> \A d \in cs : d.slot <= c.slot
  <2>1. c \in Newest(cs, 1) <=> Cardinality(newer(c)) = 0
    BY <1>2, <1>3
  <2>2. Cardinality(newer(c)) = 0 <=> newer(c) = {}
    BY <1>2, FS_EmptySet
  <2>3. newer(c) = {} <=> \A d \in cs : d.slot <= c.slot
    BY <1>1, <1>n
  <2> QED  BY <2>1, <2>2, <2>3
<1>6. Newest(cs, n) \in Rows /\ Newest(cs, n) \subseteq cs
  BY <1>3 DEF Rows
<1> QED  BY <1>4, <1>5, <1>6

\* Every candle is sent.
LEMMA UpdatesCover ==
    ASSUME NEW cs \in Rows, NEW q \in OldestFirst(cs), NEW c \in cs
    PROVE  \E i \in DOMAIN Updates(q) : Updates(q)[i].rows = {c}
<1>1. IsFiniteSet(cs) /\ \A d \in cs : d.slot \in Nat
  <2>1. cs \subseteq Candle /\ \A d \in Candle : d.slot \in Nat
    BY CandleStoreAssumption DEF Rows, Candle, Slots
  <2> QED  BY <2>1, CandlesFinite, FS_Subset
<1> DEFINE n == Cardinality(cs)
<1>2. n \in Nat
  BY <1>1, FS_CardinalityType
<1>3. q \in [1..n -> cs] /\ \A i, j \in 1..n : i < j => q[i].slot < q[j].slot
  BY DEF OldestFirst
<1> HIDE DEF n
<1>4. q \in Injection(1..n, cs)
  <2>1. ASSUME NEW i \in 1..n, NEW j \in 1..n, q[i] = q[j] PROVE i = j
    <3>1. q[i].slot \in Nat /\ q[i].slot = q[j].slot
      BY <1>1, <1>3, <2>1
    <3>2. ~(i < j) /\ ~(j < i)
      BY <1>3, <3>1
    <3> QED  BY <1>2, <3>2
  <2> QED  BY <1>3, <2>1 DEF Injection, IsInjective
<1>5. IsFiniteSet(1..n) /\ Cardinality(1..n) = n
  BY <1>2, FS_Interval
<1>6. q \in Surjection(1..n, cs)
  BY <1>1, <1>4, <1>5, FS_Injection DEF n
<1>7. PICK i \in 1..n : q[i] = c
  BY <1>6 DEF Surjection
<1>8. i \in DOMAIN q
  BY <1>3
<1> QED  BY <1>7, <1>8 DEF Updates

\* How far the polls are, and what the delayed trigger was scheduled with.
PollMarks ==
    /\ lastM5 \in 0..MaxSlot
    /\ lastM5 = 0 => published = {} /\ delayed = {}
    /\ lastM5 # 0 => lastM5 \in published
    /\ \A s \in published : s \in traded /\ s < now
    /\ \A c \in delayed : c.slot > lastM5 /\ (c.form = "forming" => c.slot \notin published)

\* A poll sends finished candles without a hole among them up to the latest, c; if there may
\* be one before them it announces a gap.
Sends(more, cs) ==
    /\ more \in Seq(Message) /\ inbox' = inbox \o more
    /\ \A d \in cs : \E i \in DOMAIN more : more[i].kind = "update" /\ more[i].rows = {d}
    /\ \A i \in DOMAIN more :
          more[i].kind = "gap" \/ (more[i].kind = "update" /\ more[i].rows \subseteq cs)
PollSends(c, sent, more) ==
    /\ c \in sent /\ c.slot > lastM5 /\ lastM5' = c.slot
    /\ \A d \in sent : d.slot <= c.slot /\ d.form = "final"
    /\ \A d \in sent, e \in Fetched : d.slot <= e.slot /\ e.slot <= c.slot => e \in sent
    /\ published' = published \cup {d.slot : d \in sent}
    /\ Sends(more, sent)
    /\ lastM5 # 0 /\ c.slot # lastM5 + 1 => \E i \in DOMAIN more : more[i].kind = "gap"
    /\ \A d \in delayed' : d \in Fetched /\ d.slot > c.slot

LEMMA PollFacts ==
    ASSUME StoreInv, PollMarks, Poll
    PROVE  \E c \in Fetched : \E sent \in SUBSET Fetched : \E more \in Seq(Message) :
              PollSends(c, sent, more)
<1> DEFINE window == Newest(Fetched, Lookback)
           sent == window \ Newest(window, 1)
<1>1. Fetched \in Rows /\ Genuine(Fetched)
      /\ \A s \in Slots : [slot |-> s, form |-> "forming"] \in Fetched => s = now
  BY FetchedOver DEF StoreInv
<1>2. Lookback \in Nat \ {0} /\ 1 \in Nat \ {0}
  BY CandleStoreAssumption
<1>3. /\ window \in Rows /\ window \subseteq Fetched
      /\ \A c \in window, d \in Fetched : c.slot <= d.slot => d \in window
  BY <1>1, <1>2, NewestOnes
<1>4. \A c \in window : c \in Newest(window, 1) <=> \A d \in window : d.slot <= c.slot
  BY <1>2, <1>3, NewestOnes
<1>5. /\ Newest(window, 1) \in Rows /\ Newest(window, 1) \subseteq window
      /\ sent \in Rows /\ sent \subseteq Fetched
  BY <1>2, <1>3, NewestOnes DEF Rows
<1>6. /\ Newest(sent, 1) \subseteq sent
      /\ \A c \in sent : c \in Newest(sent, 1) <=> \A d \in sent : d.slot <= c.slot
  BY <1>2, <1>5, NewestOnes
<1>7. ToPublish(window) = sent
  BY DEF ToPublish
<1>8. PICK c \in Newest(sent, 1) :
         /\ c.slot > lastM5 /\ lastM5' = c.slot
         /\ \E q \in OldestFirst(sent) :
               inbox' = inbox \o (IF GapBefore(c.slot) THEN <<[kind |-> "gap"]>> ELSE <<>>) \o Updates(q)
  BY <1>7, Zenon DEF Poll
<1>9. PICK q \in OldestFirst(sent) :
         inbox' = inbox \o (IF GapBefore(c.slot) THEN <<[kind |-> "gap"]>> ELSE <<>>) \o Updates(q)
  BY <1>8
<1>10. published' = published \cup {d.slot : d \in sent}
       /\ delayed' = IF lastM5 = 0 THEN delayed ELSE Newest(window, 1)
  BY <1>7 DEF Poll, Scheduled
<1> HIDE DEF window, sent
<1>11. IsFiniteSet(sent)
  BY <1>5, CandlesFinite, FS_Subset DEF Rows
<1>12. /\ Updates(q) \in Seq(Message)
       /\ \A i \in DOMAIN Updates(q) : Updates(q)[i].rows \subseteq sent /\ Updates(q)[i].kind = "update"
       /\ \A d \in sent : \E i \in DOMAIN Updates(q) : Updates(q)[i].rows = {d}
  BY <1>5, <1>11, UpdatesTyped, UpdatesCover
<1>13. PICK gap \in Seq(Message) :
          /\ gap = IF GapBefore(c.slot) THEN <<[kind |-> "gap"]>> ELSE <<>>
          /\ \A i \in DOMAIN gap : gap[i].kind = "gap"
          /\ GapBefore(c.slot) => 1 \in DOMAIN gap
  <2>1. [kind |-> "gap"] \in Message
    BY DEF Message
  <2>2. CASE GapBefore(c.slot)
    <3>1. <<[kind |-> "gap"]>> \in Seq(Message)
      BY <2>1
    <3> WITNESS <<[kind |-> "gap"]>> \in Seq(Message)
    <3> QED  BY <2>2
  <2>3. CASE ~GapBefore(c.slot)
    <3> WITNESS <<>> \in Seq(Message)
    <3> QED  BY <2>3
  <2> QED  BY <2>2, <2>3
<1> DEFINE more == gap \o Updates(q)
<1>14. inbox' = inbox \o more
  <2>1. inbox \in Seq(Message)
    BY DEF StoreInv, RowTypes
  <2>2. inbox' = inbox \o gap \o Updates(q)
    BY <1>9, <1>13
  <2>3. (inbox \o gap) \o Updates(q) = inbox \o (gap \o Updates(q))
    BY <1>12, <2>1, Joined, Zenon
  <2> QED  BY <2>2, <2>3, Zenon
<1>15. /\ more \in Seq(Message)
       /\ \A i \in DOMAIN gap : i \in DOMAIN more /\ more[i] = gap[i]
       /\ \A i \in DOMAIN Updates(q) : Len(gap) + i \in DOMAIN more /\ more[Len(gap) + i] = Updates(q)[i]
       /\ \A i \in DOMAIN more :
             i \notin DOMAIN gap => i - Len(gap) \in DOMAIN Updates(q) /\ more[i] = Updates(q)[i - Len(gap)]
  BY <1>12, <1>13, Joined
<1> HIDE DEF more
<1>16. Sends(more, sent)
  <2>1. ASSUME NEW d \in sent
        PROVE  \E i \in DOMAIN more : more[i].kind = "update" /\ more[i].rows = {d}
    <3>1. PICK i \in DOMAIN Updates(q) : Updates(q)[i].rows = {d}
      BY <1>12
    <3>2. Len(gap) + i \in DOMAIN more /\ more[Len(gap) + i] = Updates(q)[i]
      BY <1>15, <3>1
    <3>3. Updates(q)[i].kind = "update"
      BY <1>12, <3>1
    <3> QED  BY <3>1, <3>2, <3>3
  <2>2. ASSUME NEW i \in DOMAIN more
        PROVE  more[i].kind = "gap" \/ (more[i].kind = "update" /\ more[i].rows \subseteq sent)
    BY <1>12, <1>13, <1>15
  <2> QED  BY <1>14, <1>15, <2>1, <2>2 DEF Sends
<1>17. lastM5 # 0 /\ c.slot # lastM5 + 1 => \E i \in DOMAIN more : more[i].kind = "gap"
  <2>1. c.slot \in Nat /\ lastM5 \in Nat
    BY <1>5, <1>6, <1>8, CandleStoreAssumption DEF Rows, Candle, Slots, PollMarks
  <2>2. lastM5 # 0 /\ c.slot # lastM5 + 1 => GapBefore(c.slot)
    BY <1>8, <2>1 DEF GapBefore
  <2> QED  BY <1>13, <1>15, <2>2
<1>18. \A d \in sent : d.slot <= c.slot /\ d.form = "final"
  <2>1. ASSUME NEW d \in sent PROVE d.form = "final"
    <3>1. d \in window /\ d \notin Newest(window, 1)
      BY DEF sent
    <3>2. PICK e \in window : ~(e.slot <= d.slot)
      BY <1>4, <3>1
    <3>3. d \in Candle /\ e \in Candle /\ e.slot \in traded /\ d \in Fetched
      BY <1>1, <1>3, <3>1 DEF Rows, Genuine
    <3>4. d.slot # now
      BY <3>2, <3>3, CandleStoreAssumption DEF StoreInv, RowTypes, Candle, Slots
    <3>5. d = [slot |-> d.slot, form |-> d.form] /\ d.slot \in Slots /\ d.form \in {"forming", "final"}
      BY <3>3 DEF Candle
    <3> QED  BY <1>1, <3>3, <3>4, <3>5
  <2> QED  BY <1>6, <2>1
<1>19. ASSUME NEW d \in sent, NEW e \in Fetched, d.slot <= e.slot, e.slot <= c.slot PROVE e \in sent
  <2>1. e \in window
    BY <1>3, <1>19 DEF sent
  <2>2. c \in window /\ c \notin Newest(window, 1)
    BY <1>6 DEF sent
  <2>3. PICK f \in window : ~(f.slot <= c.slot)
    BY <1>4, <2>2
  <2>4. c.slot \in Nat /\ e.slot \in Nat /\ f.slot \in Nat
    BY <1>3, <2>1, <2>2, <2>3, CandleStoreAssumption DEF Rows, Candle, Slots
  <2>5. ~(f.slot <= e.slot)
    BY <1>19, <2>3, <2>4
  <2> QED  BY <1>4, <2>1, <2>3, <2>5 DEF sent
<1>20. ASSUME NEW d \in delayed' PROVE d \in Fetched /\ d.slot > c.slot
  <2>1. d \in Newest(window, 1)
    BY <1>10, <1>20 DEF PollMarks
  <2>2. c \in window /\ c \notin Newest(window, 1)
    BY <1>6 DEF sent
  <2>3. PICK f \in window : ~(f.slot <= c.slot)
    BY <1>4, <2>2
  <2>4. d \in window /\ f.slot <= d.slot
    BY <1>4, <1>5, <2>1
  <2>5. c.slot \in Nat /\ d.slot \in Nat /\ f.slot \in Nat
    BY <1>3, <2>2, <2>3, <2>4, CandleStoreAssumption DEF Rows, Candle, Slots
  <2> QED  BY <1>3, <2>3, <2>4, <2>5
<1>21. PollSends(c, sent, more)
  BY <1>6, <1>8, <1>10, <1>16, <1>17, <1>18, <1>19, <1>20 DEF PollSends
<1> QED  BY <1>5, <1>6, <1>15, <1>21

\* A trigger sends at most one candle, no older than what the polls have sent, and none
\* unfinished that was sent finished.
TriggerSends(cs, more) ==
    /\ Genuine(cs)
    /\ \A d \in cs : d.slot >= lastM5 /\ (d.form = "forming" => d.slot \notin published)
    /\ published' = published \cup {d.slot : d \in {e \in cs : e.form = "final"}}
    /\ Sends(more, cs)

LEMMA TriggerFacts ==
    ASSUME StoreInv, PollMarks, NEW fetches \in BOOLEAN, Trigger(fetches)
    PROVE  \E cs \in Rows : \E more \in Seq(Message) : TriggerSends(cs, more)
<1> DEFINE latest == IF fetches /\ Fetched # {} THEN Newest(Fetched, 1) ELSE delayed
<1>1. /\ Fetched \in Rows /\ Genuine(Fetched)
      /\ \A s \in Slots : [slot |-> s, form |-> "forming"] \in Fetched => s = now
  BY FetchedOver DEF StoreInv
<1>2. /\ Newest(Fetched, 1) \in Rows /\ Newest(Fetched, 1) \subseteq Fetched
      /\ \A c \in Fetched : c \in Newest(Fetched, 1) <=> \A d \in Fetched : d.slot <= c.slot
  <2>1. 1 \in Nat \ {0}
    OBVIOUS
  <2> QED  BY <1>1, <2>1, NewestOnes, Zenon
<1>3. latest \in Rows /\ Genuine(latest)
  BY <1>1, <1>2 DEF StoreInv, RowTypes, OnlyOver, Genuine
<1>4. ASSUME NEW d \in latest PROVE d.slot >= lastM5 /\ (d.form = "forming" => d.slot \notin published)
  <2>1. CASE latest = delayed
    <3>1. d \in delayed /\ d \in Candle
      BY <1>3, <1>4, <2>1 DEF Rows
    <3>2. d.slot > lastM5 /\ (d.form = "forming" => d.slot \notin published)
      BY <3>1 DEF PollMarks
    <3> QED  BY <3>1, <3>2, CandleStoreAssumption DEF Candle, Slots, PollMarks
  <2>2. CASE latest = Newest(Fetched, 1)
    <3>1. d \in Fetched /\ d \in Candle /\ d.slot \in traded
      BY <1>1, <1>2, <1>4, <2>2 DEF Rows, Genuine
    <3>2. d.form = "forming" => d.slot \notin published
      <4>1. d.form = "forming" => d = [slot |-> d.slot, form |-> "forming"] /\ d.slot \in Slots
        BY <3>1 DEF Candle
      <4>2. \A s \in published : s < now
        BY DEF PollMarks
      <4> QED  BY <1>1, <3>1, <4>1, <4>2, CandleStoreAssumption DEF Slots, StoreInv, RowTypes
    <3>3. ASSUME lastM5 # 0 PROVE d.slot >= lastM5
      <4>1. lastM5 \in traded /\ lastM5 < now /\ lastM5 \in Nat
        BY <3>3, CandleStoreAssumption DEF PollMarks
      <4>2. [slot |-> lastM5, form |-> "final"] \in Fetched
        BY <4>1 DEF Fetched, StoreInv, RowTypes
      <4> QED  BY <1>2, <1>4, <2>2, <3>1, <4>2
    <3>4. d.slot \in Nat
      BY <3>1, CandleStoreAssumption DEF Candle, Slots
    <3> QED  BY <3>2, <3>3, <3>4 DEF PollMarks
  <2> QED  BY <2>1, <2>2
<1>5. published' = published \cup {d.slot : d \in {e \in latest : e.form = "final"}}
  BY DEF Trigger
<1>6. PICK q \in OldestFirst(latest) : inbox' = inbox \o Updates(q)
  BY DEF Trigger
<1> HIDE DEF latest
<1>7. IsFiniteSet(latest)
  BY <1>3, CandlesFinite, FS_Subset DEF Rows
<1>8. /\ Updates(q) \in Seq(Message)
      /\ \A i \in DOMAIN Updates(q) : Updates(q)[i].rows \subseteq latest /\ Updates(q)[i].kind = "update"
      /\ \A d \in latest : \E i \in DOMAIN Updates(q) : Updates(q)[i].rows = {d}
  BY <1>3, <1>7, UpdatesTyped, UpdatesCover
<1>9. Sends(Updates(q), latest)
  BY <1>6, <1>8 DEF Sends
<1>10. TriggerSends(latest, Updates(q))
  BY <1>3, <1>4, <1>5, <1>9 DEF TriggerSends
<1> QED  BY <1>3, <1>8, <1>10

\* Only these steps disturb the marks.
LEMMA PollMarksStep == StoreInv /\ PollMarks /\ [CandleNext]_candleVars => PollMarks'
<1> SUFFICES ASSUME StoreInv, PollMarks, [CandleNext]_candleVars PROVE PollMarks'
  OBVIOUS
<1>1. now \in Nat /\ lastM5 \in Nat /\ traded \subseteq Nat /\ published \subseteq Nat
  BY CandleStoreAssumption DEF StoreInv, RowTypes, PollMarks, Slots
<1>2. ASSUME NEW hasPrice \in BOOLEAN, SlotBegins(hasPrice) PROVE PollMarks'
  <2>1. now' = now + 1 /\ traded \subseteq traded'
        /\ UNCHANGED <<lastM5, published, delayed>>
    BY <1>2 DEF SlotBegins, pollVars
  <2>2. \A s \in published : s \in traded /\ s < now
    BY DEF PollMarks
  <2>3. \A s \in published : s \in traded' /\ s < now'
    BY <1>1, <2>1, <2>2
  <2> QED  BY <2>1, <2>3 DEF PollMarks
<1>3. CASE Poll
  <2>1. PICK c \in Fetched : \E sent \in SUBSET Fetched : \E more \in Seq(Message) :
               PollSends(c, sent, more)
    BY <1>3, PollFacts
  <2>2. PICK sent \in SUBSET Fetched : \E more \in Seq(Message) : PollSends(c, sent, more)
    BY <2>1
  <2>3. PICK more \in Seq(Message) : PollSends(c, sent, more)
    BY <2>2
  <2>4. UNCHANGED <<now, traded>>
    BY <1>3 DEF Poll, worldVars, clockVars
  <2>5. /\ Fetched \subseteq Candle /\ Genuine(Fetched)
        /\ \A s \in Slots : [slot |-> s, form |-> "forming"] \in Fetched => s = now
    BY FetchedOver DEF StoreInv, Rows
  <2>6. c \in Candle /\ c \in sent /\ c.slot > lastM5 /\ lastM5' = c.slot
    BY <2>3, <2>5 DEF PollSends
  <2>7. c.slot \in 1..MaxSlot /\ c.slot \in published'
    BY <2>3, <2>6 DEF PollSends, Candle, Slots
  <2>8. \A s \in published' : s \in traded' /\ s < now'
    BY <2>3, <2>4, <2>5 DEF PollSends, Genuine, PollMarks
  <2>9. ASSUME NEW d \in delayed'
        PROVE  d.slot > lastM5' /\ (d.form = "forming" => d.slot \notin published')
    <3>1. d \in Fetched /\ d.slot > c.slot /\ d \in Candle
      BY <2>3, <2>5, <2>9 DEF PollSends
    <3>2. d.form = "forming" => d = [slot |-> d.slot, form |-> "forming"] /\ d.slot \in Slots
      BY <3>1 DEF Candle
    <3>3. d.form = "forming" => d.slot = now
      BY <2>5, <3>1, <3>2
    <3> QED  BY <1>1, <2>4, <2>6, <2>8, <3>1, <3>3
  <2> QED  BY <2>6, <2>7, <2>8, <2>9, CandleStoreAssumption DEF PollMarks
<1>4. ASSUME NEW fetches \in BOOLEAN, Trigger(fetches) PROVE PollMarks'
  <2>1. PICK cs \in Rows : \E more \in Seq(Message) : TriggerSends(cs, more)
    BY <1>4, TriggerFacts
  <2>2. Genuine(cs) /\ published' = published \cup {d.slot : d \in {e \in cs : e.form = "final"}}
    BY <2>1 DEF TriggerSends
  <2>3. delayed # {} /\ delayed' = {} /\ UNCHANGED <<lastM5, now, traded>>
    BY <1>4 DEF Trigger, worldVars, clockVars
  <2>4. lastM5 # 0
    BY <2>3 DEF PollMarks
  <2> QED  BY <2>2, <2>3, <2>4 DEF PollMarks, Genuine
<1>5. CASE Restart
  BY <1>5, CandleStoreAssumption DEF Restart, PollMarks
<1>6. CASE UNCHANGED <<lastM5, published, delayed, traded, now>>
  BY <1>6 DEF PollMarks
<1>7. \/ \E hasPrice \in BOOLEAN : SlotBegins(hasPrice)
      \/ Poll
      \/ \E fetches \in BOOLEAN : Trigger(fetches)
      \/ Restart
      \/ UNCHANGED <<lastM5, published, delayed, traded, now>>
  BY DEF CandleNext, ContainerStep, AdapterAnswers, AdapterFails, GivesUp, Ask, BeginRead, SaveUpdate,
         SaveBulk, BeginRepair, EndRepair, Serve, SaveRead, EndRead, BeginBackfill, EndBackfill,
         pollVars, worldVars, clockVars, candleVars
<1> QED  BY <1>2, <1>3, <1>4, <1>5, <1>6, <1>7

\* What a poll has passed is in the store or on its way there, unless a fetch has failed.
Carries(m, s) == m.kind = "gap" \/ (m.kind = "update" /\ \E c \in m.rows : c.slot = s)
Underway(s) ==
    \/ store[s] # "none"
    \/ \E i \in DOMAIN inbox : Carries(inbox[i], s)
    \/ repair = "waiting"
    \/ repair = "answered" /\ \E c \in answer["repair"] : c.slot = s
Begun(s) == \E t \in published : t <= s
AllUnderway ==
    ~failed => \A s \in traded : Begun(s) /\ s <= lastM5 => s \in beyond \/ Underway(s)

\* Rows are written, never removed.
LEMMA RowsStay ==
    ASSUME StoreInv, [CandleNext]_candleVars, NEW s \in Slots, store[s] # "none"
    PROVE  store'[s] # "none"
<1>1. ASSUME NEW cs \in Rows, store' = Written(cs) PROVE store'[s] # "none"
  BY <1>1, WrittenRows DEF Rows, Candle
<1>2. CASE SaveUpdate \/ SaveBulk
  BY <1>1, <1>2, HeadRows DEF SaveUpdate, SaveBulk, Handles
<1>3. CASE EndRepair
  <2>1. ToRepair(answer["repair"]) \in Rows
    BY DEF ToRepair, StoreInv, RowTypes, Fetchers, Rows
  <2> QED  BY <1>1, <1>3, <2>1 DEF EndRepair
<1>4. CASE SaveRead \/ EndBackfill
  BY <1>1, <1>4 DEF SaveRead, EndBackfill, StoreInv, RowTypes, Fetchers
<1>5. CASE EndRead
  BY <1>5 DEF EndRead
<1>6. CASE UNCHANGED store
  BY <1>6
<1>7. UNCHANGED store \/ SaveUpdate \/ SaveBulk \/ EndRepair \/ SaveRead \/ EndRead \/ EndBackfill
  BY DEF CandleNext, ContainerStep, SlotBegins, Poll, Trigger, AdapterAnswers, AdapterFails, Deliver,
         GivesUp, Ask, BeginRead, Restart, BeginRepair, Serve, BeginBackfill, candleVars, containerVars
<1> QED  BY <1>2, <1>3, <1>4, <1>5, <1>6, <1>7

\* Whatever is sent besides, what is on its way stays so.
LEMMA LongerQueue ==
    ASSUME StoreInv, NEW more \in Seq(Message), inbox' = inbox \o more, NEW s, Underway(s),
           UNCHANGED <<store, repair>>, answer'["repair"] = answer["repair"]
    PROVE  Underway(s)'
<1>1. \A i \in DOMAIN inbox : i \in DOMAIN inbox' /\ inbox'[i] = inbox[i]
  BY Joined DEF StoreInv, RowTypes
<1> QED  BY <1>1 DEF Underway, Carries

LEMMA PollUnderway == ASSUME StoreInv, PollMarks, AllUnderway, Poll PROVE AllUnderway'
<1> SUFFICES ASSUME ~failed, NEW s \in traded, Begun(s)', s <= lastM5', s \notin beyond
             PROVE  Underway(s)'
  BY DEF AllUnderway, Poll, worldVars, clockVars
<1>1. PICK c \in Fetched : \E sent \in SUBSET Fetched : \E more \in Seq(Message) :
             PollSends(c, sent, more)
  BY PollFacts
<1>2. PICK sent \in SUBSET Fetched : \E more \in Seq(Message) : PollSends(c, sent, more)
  BY <1>1
<1>3. PICK more \in Seq(Message) : PollSends(c, sent, more)
  BY <1>2
<1>4. /\ inbox' = inbox \o more
      /\ \A d \in sent : \E i \in DOMAIN more : more[i].kind = "update" /\ more[i].rows = {d}
  BY <1>3 DEF PollSends, Sends
<1>5. \A i \in DOMAIN more : Len(inbox) + i \in DOMAIN inbox' /\ inbox'[Len(inbox) + i] = more[i]
  BY <1>4, Joined DEF StoreInv, RowTypes
<1>6. UNCHANGED <<store, repair, answer>>
  BY DEF Poll
<1>7. s \in Nat /\ lastM5 \in Nat /\ c.slot \in Nat /\ s <= c.slot /\ c.slot > lastM5
      /\ published \subseteq Nat
  BY <1>3, FetchedOver, CandleStoreAssumption
     DEF PollSends, StoreInv, RowTypes, PollMarks, Slots, Rows, Candle
<1>8. ASSUME NEW d \in sent, d.slot = s PROVE Underway(s)'
  <2>1. PICK i \in DOMAIN more : more[i].kind = "update" /\ more[i].rows = {d}
    BY <1>4
  <2> QED  BY <1>5, <1>8, <2>1 DEF Underway, Carries
<1>9. CASE \E d \in sent : d.slot <= s
  <2>1. PICK d \in sent : d.slot <= s
    BY <1>9
  <2>2. [slot |-> s, form |-> "final"] \in Fetched
    <3>1. c.slot \in traded /\ c.slot < now
      BY <1>3, FetchedOver DEF PollSends, Genuine, StoreInv
    <3>2. s < now /\ now \in Nat
      BY <1>7, <3>1, CandleStoreAssumption DEF StoreInv, RowTypes
    <3> QED  BY <3>2, <1>7 DEF Fetched
  <2>3. [slot |-> s, form |-> "final"] \in sent
    BY <1>3, <1>7, <2>1, <2>2 DEF PollSends
  <2> QED  BY <1>8, <2>3
<1>10. CASE Begun(s)
  <2>1. CASE s <= lastM5
    BY <1>4, <1>6, <1>10, <2>1, LongerQueue DEF AllUnderway
  <2>2. CASE lastM5 < s
    <3>1. lastM5 # 0
      BY <1>10 DEF Begun, PollMarks
    <3>2. CASE c.slot = lastM5 + 1
      BY <1>3, <1>7, <1>8, <2>2, <3>2 DEF PollSends
    <3>3. CASE c.slot # lastM5 + 1
      <4>1. PICK i \in DOMAIN more : more[i].kind = "gap"
        BY <1>3, <3>1, <3>3 DEF PollSends
      <4> QED  BY <1>5, <4>1 DEF Underway, Carries
    <3> QED  BY <3>2, <3>3
  <2> QED  BY <1>7, <2>1, <2>2
<1>11. Begun(s) \/ \E d \in sent : d.slot <= s
  BY <1>3 DEF PollSends, Begun
<1> QED  BY <1>9, <1>10, <1>11

LEMMA TriggerUnderway ==
    ASSUME StoreInv, PollMarks, AllUnderway, NEW fetches \in BOOLEAN, Trigger(fetches)
    PROVE  AllUnderway'
<1> SUFFICES ASSUME ~failed, NEW s \in traded, Begun(s)', s <= lastM5, s \notin beyond
             PROVE  Underway(s)'
  BY DEF AllUnderway, Trigger, worldVars, clockVars
<1>1. PICK cs \in Rows : \E more \in Seq(Message) : TriggerSends(cs, more)
  BY TriggerFacts
<1>2. PICK more \in Seq(Message) : TriggerSends(cs, more)
  BY <1>1
<1>3. s \in Nat /\ lastM5 \in Nat /\ \A d \in cs : d.slot \in Nat
  BY CandleStoreAssumption DEF StoreInv, RowTypes, PollMarks, Rows, Candle, Slots
<1>4. Begun(s)
  <2>1. lastM5 \in published
    <3>1. lastM5 # 0
      BY DEF Trigger, PollMarks
    <3> QED  BY <3>1 DEF PollMarks
  <2>2. PICK t \in published' : t <= s
    BY DEF Begun
  <2>3. CASE t \in published
    BY <2>2, <2>3 DEF Begun
  <2>4. CASE \E d \in cs : t = d.slot
    <3>1. t >= lastM5 /\ t \in Nat
      BY <1>2, <1>3, <2>4 DEF TriggerSends
    <3>2. s = lastM5
      BY <1>3, <2>2, <3>1
    <3> QED  BY <1>3, <2>1, <3>2 DEF Begun
  <2> QED  BY <1>2, <2>3, <2>4 DEF TriggerSends
<1>5. Underway(s)
  BY <1>4 DEF AllUnderway
<1>6. inbox' = inbox \o more /\ UNCHANGED <<store, repair, answer>>
  BY <1>2 DEF TriggerSends, Sends, Trigger
<1> QED  BY <1>5, <1>6, LongerQueue

\* A message that is taken from the queue has been stored, or began the repair.
LEMMA ShorterQueue ==
    ASSUME StoreInv, inbox # <<>>, inbox' = Tail(inbox), NEW s, Underway(s),
           ~Carries(Head(inbox), s), store'[s] = store[s] \/ store'[s] # "none",
           UNCHANGED repair, answer'["repair"] = answer["repair"]
    PROVE  Underway(s)'
<1>1. /\ Head(inbox) = inbox[1]
      /\ \A i \in DOMAIN inbox : i # 1 => i - 1 \in DOMAIN inbox' /\ inbox'[i - 1] = inbox[i]
  BY DEF StoreInv, RowTypes
<1>2. CASE \E i \in DOMAIN inbox : Carries(inbox[i], s)
  <2>1. PICK i \in DOMAIN inbox : Carries(inbox[i], s)
    BY <1>2
  <2>2. i - 1 \in DOMAIN inbox' /\ Carries(inbox'[i - 1], s)
    BY <1>1, <2>1 DEF Carries
  <2> QED  BY <2>2 DEF Underway, Carries
<1>3. CASE ~\E i \in DOMAIN inbox : Carries(inbox[i], s)
  BY <1>3 DEF Underway
<1> QED  BY <1>2, <1>3

\* The answer to a repair brings a slot, or the slot is beyond its reach.
LEMMA AnswerUnderway ==
    ASSUME StoreInv, PollMarks, NEW s \in traded, s <= lastM5, Underway(s), AdapterAnswers,
           s \notin beyond'
    PROVE  Underway(s)'
<1> DEFINE got == Newest(Fetched, Count(Head(requests).by))
<1>1. [slot |-> s, form |-> "final"] \in Fetched
  <2>1. lastM5 # 0 /\ s \in Nat /\ lastM5 \in Nat /\ now \in Nat
    BY CandleStoreAssumption DEF StoreInv, RowTypes, PollMarks
  <2>2. lastM5 < now
    BY <2>1 DEF PollMarks
  <2>3. s < now
    BY <2>1, <2>2
  <2> QED  BY <2>1, <2>3 DEF Fetched
<1>2. answer \in [Fetchers -> Rows] /\ "repair" \in Fetchers /\ inbox \in Seq(Message)
  BY DEF StoreInv, RowTypes, Fetchers
<1>3. Deliver(got)
  BY DEF AdapterAnswers
<1>4. got \in Rows
  BY FetchedOver DEF StoreInv, Rows, Newest
<1>5. CASE ~Head(requests).late /\ Head(requests).by = "repair"
  <2>1. [slot |-> s, form |-> "final"] \in got
    <3>1. beyond' = beyond \cup {c.slot : c \in Fetched \ got}
      BY <1>5 DEF AdapterAnswers
    <3> HIDE DEF got
    <3> QED  BY <1>1, <3>1
  <2>2. repair' = "answered" /\ answer'["repair"] = got
    BY <1>2, <1>3, <1>5 DEF Deliver
  <2> HIDE DEF got
  <2> QED  BY <2>1, <2>2 DEF Underway
<1>6. CASE ~(~Head(requests).late /\ Head(requests).by = "repair")
  <2> HIDE DEF got
  <2>1. UNCHANGED <<store, repair>> /\ answer'["repair"] = answer["repair"]
    BY <1>2, <1>3, <1>6 DEF Deliver
  <2>2. inbox' = inbox \/ inbox' = inbox \o <<[kind |-> "bulk", rows |-> got]>>
    BY <1>2, <1>3 DEF Deliver
  <2>3. <<[kind |-> "bulk", rows |-> got]>> \in Seq(Message)
    BY <1>4 DEF Message
  <2>4. CASE inbox' = inbox
    BY <2>1, <2>4 DEF Underway, Carries
  <2>5. CASE inbox' = inbox \o <<[kind |-> "bulk", rows |-> got]>>
    BY <2>1, <2>3, <2>5, LongerQueue
  <2> QED  BY <2>2, <2>4, <2>5
<1> QED  BY <1>5, <1>6

LEMMA AllUnderwayStep ==
    StoreInv /\ PollMarks /\ AllUnderway /\ [CandleNext]_candleVars => AllUnderway'
<1> SUFFICES ASSUME StoreInv, PollMarks, AllUnderway, [CandleNext]_candleVars PROVE AllUnderway'
  OBVIOUS
<1>1. now \in Nat /\ lastM5 \in Nat /\ traded \subseteq Slots /\ "repair" \in Fetchers
      /\ answer \in [Fetchers -> Rows]
  BY CandleStoreAssumption DEF StoreInv, RowTypes, PollMarks, Slots, Fetchers
<1>2. ASSUME NEW hasPrice \in BOOLEAN, SlotBegins(hasPrice) PROVE AllUnderway'
  <2>1. /\ traded' \subseteq traded \cup {now + 1}
        /\ UNCHANGED <<lastM5, published, failed, beyond, store, inbox, repair, answer>>
    BY <1>2 DEF SlotBegins, pollVars, containerVars
  <2>2. ~(now + 1 <= lastM5)
    <3>1. lastM5 = 0 \/ lastM5 < now
      BY DEF PollMarks
    <3> QED  BY <1>1, <3>1
  <2> QED  BY <2>1, <2>2 DEF AllUnderway, Begun, Underway, Carries
<1>3. CASE Poll
  BY <1>3, PollUnderway
<1>4. ASSUME NEW fetches \in BOOLEAN, Trigger(fetches) PROVE AllUnderway'
  BY <1>4, TriggerUnderway
<1>5. CASE AdapterFails \/ \E f \in Fetchers : GivesUp(f)
  BY <1>5 DEF AdapterFails, GivesUp, AllUnderway
<1>6. CASE Restart
  BY <1>6 DEF Restart, AllUnderway, Begun
<1>7. ASSUME \/ AdapterAnswers \/ Ask \/ BeginRead \/ ContainerStep \/ UNCHANGED candleVars
      PROVE  AllUnderway'
  <2>1. UNCHANGED <<now, traded, lastM5, published, failed>> /\ beyond \subseteq beyond'
    BY <1>7 DEF AdapterAnswers, Ask, BeginRead, ContainerStep, SaveUpdate, SaveBulk, BeginRepair,
         EndRepair, Serve, SaveRead, EndRead, BeginBackfill, EndBackfill,
         pollVars, worldVars, clockVars, candleVars
  <2> SUFFICES ASSUME ~failed, NEW s \in traded, Begun(s), s <= lastM5, Underway(s), s \notin beyond'
               PROVE  Underway(s)'
    BY <2>1 DEF AllUnderway, Begun
  <2>2. s \in Slots
    BY <1>1
  <2>3. store[s] # "none" => store'[s] # "none"
    BY <2>2, RowsStay
  <2>4. CASE AdapterAnswers
    BY <2>4, AnswerUnderway
  <2>5. CASE Ask
    <3>1. inbox' = inbox \o <<[kind |-> "question", needs |-> published]>>
          /\ UNCHANGED <<store, repair, answer>>
      BY <2>5 DEF Ask, StoreInv, RowTypes
    <3>2. <<[kind |-> "question", needs |-> published]>> \in Seq(Message)
      BY DEF StoreInv, RowTypes, Message
    <3> QED  BY <3>1, <3>2, LongerQueue
  <2>6. CASE SaveUpdate
    <3>1. /\ inbox # <<>> /\ Head(inbox).kind = "update" /\ inbox' = Tail(inbox)
          /\ store' = Written(Head(inbox).rows) /\ UNCHANGED <<repair, answer>>
      BY <2>6 DEF SaveUpdate, Handles
    <3>2. CASE Carries(Head(inbox), s)
      <4>1. Head(inbox).rows \in Rows
        BY <3>1, HeadRows
      <4>2. store'[s] # "none"
        BY <2>2, <3>1, <3>2, <4>1, WrittenRows DEF Carries, Rows, Candle
      <4> QED  BY <4>2 DEF Underway
    <3>3. CASE ~Carries(Head(inbox), s)
      <4>1. store'[s] = store[s] \/ store'[s] # "none"
        <5>1. store[s] \in Forms /\ store' \in [Slots -> Forms]
          BY <2>2, <3>1, HeadRows, WrittenRows DEF StoreInv, RowTypes
        <5>2. \/ store'[s] = store[s]
              \/ \E c \in Head(inbox).rows : store'[s] = c.form /\ c \in Candle
          BY <2>2, <3>1, HeadRows, WrittenRows DEF Rows
        <5> QED  BY <5>2 DEF Candle
      <4> QED  BY <3>1, <3>3, <4>1, ShorterQueue
    <3> QED  BY <3>2, <3>3
  <2>7. CASE SaveBulk \/ Serve
    <3>1. /\ inbox # <<>> /\ Head(inbox).kind \in {"bulk", "question"} /\ inbox' = Tail(inbox)
          /\ UNCHANGED <<repair, answer>>
      BY <2>7 DEF SaveBulk, Serve, Handles
    <3>2. ~Carries(Head(inbox), s)
      BY <3>1 DEF Carries
    <3>3. store'[s] = store[s] \/ store'[s] # "none"
      <4>1. CASE Serve
        BY <4>1 DEF Serve
      <4>2. CASE SaveBulk
        <5>1. \/ store'[s] = store[s]
              \/ \E c \in Head(inbox).rows : store'[s] = c.form /\ c \in Candle
          BY <2>2, <4>2, HeadRows, WrittenRows DEF SaveBulk, Handles, Rows
        <5> QED  BY <5>1 DEF Candle
      <4> QED  BY <2>7, <4>1, <4>2
    <3> QED  BY <3>1, <3>2, <3>3, ShorterQueue
  <2>8. CASE BeginRepair
    BY <2>8 DEF BeginRepair, Underway
  <2>9. CASE EndRepair
    <3>1. repair = "answered" /\ inbox' = inbox /\ store' = Written(ToRepair(answer["repair"]))
      BY <2>9 DEF EndRepair
    <3>2. ASSUME NEW c \in answer["repair"], c.slot = s, store[s] = "none" PROVE store'[s] # "none"
      <4>1. ToRepair(answer["repair"]) \in Rows
        BY <1>1 DEF ToRepair, Rows
      <4>2. c \in ToRepair(answer["repair"])
        BY <3>2 DEF ToRepair, LatestRows, Stored
      <4> QED  BY <2>2, <3>1, <3>2, <4>1, <4>2, WrittenRows DEF Rows, Candle
    <3> QED  BY <2>3, <3>1, <3>2 DEF Underway, Carries
  <2>10. CASE BeginRead \/ SaveRead \/ EndRead \/ BeginBackfill \/ EndBackfill \/ UNCHANGED candleVars
    <3>1. UNCHANGED <<inbox, repair>> /\ answer'["repair"] = answer["repair"]
      BY <1>1, <2>10 DEF BeginRead, SaveRead, EndRead, BeginBackfill, EndBackfill, candleVars
    <3> QED  BY <2>3, <3>1 DEF Underway, Carries
  <2> QED  BY <1>7, <2>4, <2>5, <2>6, <2>7, <2>8, <2>9, <2>10 DEF ContainerStep
<1> QED  BY <1>2, <1>3, <1>4, <1>5, <1>6, <1>7 DEF CandleNext

\* As many candles as slots have passed since reach back to a slot.
LEMMA NewestReach ==
    ASSUME RowTypes, NEW n \in Nat, NEW s \in traded, s < now, now < s + n
    PROVE  [slot |-> s, form |-> "final"] \in Newest(Fetched, n)
<1> DEFINE newer == {d \in Fetched : d.slot > s}
           slotOf == [d \in newer |-> d.slot]
<1>1. now \in Nat /\ s \in Nat
  BY CandleStoreAssumption DEF RowTypes
<1>2. [slot |-> s, form |-> "final"] \in Fetched
  BY <1>1 DEF Fetched
<1>3. \A d \in newer : d.slot \in (s + 1)..now
  <2>1. \A d \in Fetched : d.slot \in traded
    BY DEF Fetched
  <2>2. \A t \in traded : t \in Nat /\ t <= now
    BY <1>1 DEF RowTypes
  <2>3. ASSUME NEW t \in Nat, t <= now, t > s PROVE t \in (s + 1)..now
    BY <1>1, <2>3
  <2> QED  BY <2>1, <2>2, <2>3
<1>4. slotOf \in Injection(newer, (s + 1)..now)
  <2>1. \A d, e \in newer : d.slot = e.slot => d = e
    BY FetchedOver DEF Genuine
  <2> QED  BY <1>3, <2>1 DEF Injection, IsInjective
<1>5. Cardinality(newer) <= now - s /\ Cardinality(newer) \in Nat
  <2>1. IsFiniteSet((s + 1)..now) /\ Cardinality((s + 1)..now) = now - s
    BY <1>1, FS_Interval
  <2> HIDE DEF newer, slotOf
  <2>2. IsFiniteSet(newer) /\ Cardinality(newer) <= now - s
    BY <1>4, <2>1, FS_Injection
  <2> QED  BY <2>2, FS_CardinalityType
<1>6. Cardinality(newer) < n
  <2> HIDE DEF newer
  <2> QED  BY <1>1, <1>5
<1> QED  BY <1>2, <1>6 DEF Newest

-----------------------------------------------------------------------------
(* Null candles.                                                           *)

\* A null candle is of a slot that is over; the venue has a candle for it only if the slot
\* ended between the fetch of a reader and its look for holes, or a fetch has failed.
Excused(s) == s < now /\ (s \in traded /\ ~failed => s \in overtaken)
InReach(s) == s < now /\ now <= s + Depth
NullsExcused ==
    /\ absent \in SUBSET Slots /\ overtaken \in SUBSET Slots
    /\ \A s \in Slots : store[s] = "null" => Excused(s)
    /\ reader = "saved" => \A s \in absent : Excused(s)
    /\ reader = "answered" /\ ~failed =>
          \A s \in traded : InReach(s) => s \in overtaken \/ \E c \in answer["reader"] : c.slot = s

\* What is written is never a null candle.
LEMMA NoNullWritten ==
    ASSUME StoreInv, NEW cs \in Rows, NEW s \in Slots, Written(cs)[s] = "null"
    PROVE  store[s] = "null"
  BY WrittenRows DEF Rows, Candle

\* Only the end of a read makes a null candle.
LEMMA NullsFromReader ==
    ASSUME StoreInv, [CandleNext]_candleVars, NEW s \in Slots, store'[s] = "null", store[s] # "null"
    PROVE  EndRead /\ s \in absent
<1>1. CASE SaveUpdate \/ SaveBulk
  BY <1>1, HeadRows, NoNullWritten DEF SaveUpdate, SaveBulk, Handles
<1>2. CASE EndRepair
  <2>1. ToRepair(answer["repair"]) \in Rows
    BY DEF ToRepair, StoreInv, RowTypes, Fetchers, Rows
  <2> QED  BY <1>2, <2>1, NoNullWritten DEF EndRepair
<1>3. CASE SaveRead \/ EndBackfill
  BY <1>3, NoNullWritten DEF SaveRead, EndBackfill, StoreInv, RowTypes, Fetchers
<1>4. CASE EndRead
  BY <1>4 DEF EndRead, ToNull
<1>5. CASE UNCHANGED store
  BY <1>5
<1>6. UNCHANGED store \/ SaveUpdate \/ SaveBulk \/ EndRepair \/ SaveRead \/ EndRead \/ EndBackfill
  BY DEF CandleNext, ContainerStep, SlotBegins, Poll, Trigger, AdapterAnswers, AdapterFails, Deliver,
         GivesUp, Ask, BeginRead, Restart, BeginRepair, Serve, BeginBackfill, candleVars, containerVars
<1> QED  BY <1>1, <1>2, <1>3, <1>4, <1>5, <1>6

\* An excuse holds for good.
LEMMA ExcuseHolds ==
    ASSUME StoreInv, [CandleNext]_candleVars, NEW s \in Slots, Excused(s)
    PROVE  Excused(s)'
<1>1. now \in Nat /\ s \in Nat
  BY CandleStoreAssumption DEF StoreInv, RowTypes, Slots
<1>2. ASSUME NEW hasPrice \in BOOLEAN, SlotBegins(hasPrice) PROVE Excused(s)'
  BY <1>1, <1>2 DEF SlotBegins, Excused
<1>3. \/ (failed => failed') /\ UNCHANGED <<now, traded, overtaken>>
      \/ \E hasPrice \in BOOLEAN : SlotBegins(hasPrice)
  BY DEF CandleNext, ContainerStep, Poll, Trigger, AdapterAnswers, AdapterFails,
         GivesUp, Ask, BeginRead, Restart, SaveUpdate, SaveBulk, BeginRepair, EndRepair, Serve, SaveRead,
         EndRead, BeginBackfill, EndBackfill, candleVars, worldVars, clockVars
<1> QED  BY <1>2, <1>3 DEF Excused

\* The slots in which a reader finds no candle are over.
LEMMA MissingOver ==
    ASSUME StoreInv, NEW st \in [Slots -> Forms],
           GenuineRows(st), \A s \in Slots : st[s] = "null" => s < now, NEW s \in MissingSlots(st)
    PROVE  s \in Slots /\ st[s] = "none" /\ InReach(s)
<1> DEFINE present == {t \in Slots : st[t] # "none"}
           ends == present \cup {IF now = 0 THEN 0 ELSE now - 1}
<1>1. s \in Slots /\ s <= SlotMax(ends) /\ s + Depth > SlotMax(ends) /\ st[s] = "none"
  BY DEF MissingSlots
<1>2. now \in Nat /\ s \in Nat /\ s >= 1
  BY <1>1, CandleStoreAssumption DEF StoreInv, RowTypes, Slots
<1>3. ASSUME NEW t \in present PROVE t \in Nat /\ t <= now
  <2>1. t \in Slots /\ st[t] \in {"forming", "final", "null"} /\ t \in Nat
    BY CandleStoreAssumption DEF Forms, Slots
  <2>2. t \in traded \/ t < now
    BY <2>1 DEF GenuineRows
  <2> QED  BY <1>2, <2>1, <2>2 DEF StoreInv, RowTypes
<1>4. ends \subseteq Nat /\ ends # {} /\ \A t \in ends : t <= now
  BY <1>2, <1>3
<1>5. SlotMax(ends) \in ends /\ \A t \in ends : t <= SlotMax(ends)
  <2>1. \E t \in ends : \A u \in ends : u <= t
    BY <1>2, <1>4, GreatestNumber
  <2> HIDE DEF ends
  <2> QED  BY <2>1, Zenon DEF SlotMax
<1>6. SlotMax(ends) # s \/ s < now
  BY <1>1, <1>2, <1>5
<1>7. s < now
  BY <1>1, <1>2, <1>4, <1>5, <1>6
<1>8. now <= s + Depth
  <2>1. now - 1 <= SlotMax(ends) /\ SlotMax(ends) \in Nat
    BY <1>2, <1>4, <1>5, <1>7
  <2> HIDE DEF ends
  <2> QED  BY <1>1, <1>2, <2>1, CandleStoreAssumption
<1> QED  BY <1>1, <1>7, <1>8 DEF InReach

LEMMA NullsExcusedStep ==
    StoreInv /\ NullsExcused /\ [CandleNext]_candleVars => NullsExcused'
<1> SUFFICES ASSUME StoreInv, NullsExcused, [CandleNext]_candleVars PROVE NullsExcused'
  OBVIOUS
<1>1. now \in Nat /\ traded \subseteq 1..now /\ Slots \subseteq Nat
      /\ answer \in [Fetchers -> Rows] /\ "reader" \in Fetchers
  BY CandleStoreAssumption DEF StoreInv, RowTypes, Slots, Fetchers
<1>2. \A s \in Slots : store'[s] = "null" => Excused(s)'
  <2>1. ASSUME NEW s \in Slots, store'[s] = "null" PROVE Excused(s)
    <3>1. EndRead => reader = "saved"
      BY DEF EndRead
    <3> QED  BY <2>1, <3>1, NullsFromReader DEF NullsExcused
  <2> QED  BY <2>1, ExcuseHolds
<1>3. ASSUME NEW hasPrice \in BOOLEAN, SlotBegins(hasPrice) PROVE NullsExcused'
  <2>1. /\ now' = now + 1 /\ traded' \subseteq traded \cup {now + 1} /\ now + 1 \in Slots
        /\ overtaken' = IF reader = "answered" /\ now # 0 THEN overtaken \cup {now} ELSE overtaken
        /\ UNCHANGED <<absent, reader, failed, answer>>
    BY <1>1, <1>3, CandleStoreAssumption DEF SlotBegins, containerVars, Slots
  <2>2. now # 0 => now \in Slots
    BY <1>1, <2>1, CandleStoreAssumption DEF Slots
  <2>3. absent' \in SUBSET Slots /\ overtaken' \in SUBSET Slots
    BY <2>1, <2>2 DEF NullsExcused
  <2>4. reader' = "saved" => \A s \in absent' : Excused(s)'
    <3>1. reader = "saved" => \A s \in absent : Excused(s) /\ s \in Slots
      BY DEF NullsExcused
    <3>2. reader = "saved" => \A s \in absent : Excused(s)'
      BY <3>1, ExcuseHolds
    <3> QED  BY <2>1, <3>2
  <2>5. ASSUME reader' = "answered", ~failed', NEW s \in traded', InReach(s)'
        PROVE  s \in overtaken' \/ \E c \in answer'["reader"] : c.slot = s
    <3>1. s \in traded /\ s \in Nat /\ s <= now /\ s >= 1
      BY <1>1, <2>1, <2>5 DEF InReach
    <3>2. CASE s = now
      BY <1>1, <2>1, <2>5, <3>1, <3>2
    <3>3. CASE s < now
      <4>1. InReach(s)
        BY <1>1, <2>1, <2>5, <3>1, <3>3, CandleStoreAssumption DEF InReach
      <4> QED  BY <2>1, <2>5, <3>1, <4>1 DEF NullsExcused
    <3> QED  BY <1>1, <3>1, <3>2, <3>3
  <2> QED  BY <1>2, <2>3, <2>4, <2>5 DEF NullsExcused
\* Every other step leaves the slots alone.
<1>4. ASSUME UNCHANGED <<now, traded, overtaken>>, absent' \in SUBSET Slots,
             reader' = "saved" => \A s \in absent' : Excused(s)',
             reader' = "answered" /\ ~failed' =>
                \A s \in traded : InReach(s) => s \in overtaken \/ \E c \in answer'["reader"] : c.slot = s
      PROVE  NullsExcused'
  BY <1>2, <1>4 DEF NullsExcused, InReach
<1>5. ASSUME UNCHANGED <<now, traded, overtaken, absent>>, answer'["reader"] = answer["reader"],
             failed => failed', reader' \in {reader, "no", "waiting"} \/ (failed' /\ reader' = "answered")
      PROVE  NullsExcused'
  <2>1. absent' \in SUBSET Slots
    BY <1>5 DEF NullsExcused
  <2>2. ASSUME reader' = "saved" PROVE \A s \in absent' : Excused(s)'
    <3>1. \A s \in absent : Excused(s)
      BY <1>5, <2>2 DEF NullsExcused
    <3> QED  BY <1>5, <3>1 DEF Excused
  <2>3. ASSUME reader' = "answered", ~failed', NEW s \in traded, InReach(s)
        PROVE  s \in overtaken \/ \E c \in answer'["reader"] : c.slot = s
    BY <1>5, <2>3 DEF NullsExcused
  <2> QED  BY <1>4, <1>5, <2>1, <2>2, <2>3
<1>6. CASE Poll \/ SaveUpdate \/ SaveBulk \/ BeginRepair \/ EndRepair \/ Serve \/ BeginBackfill
           \/ EndBackfill \/ Ask \/ BeginRead \/ UNCHANGED candleVars
  <2>1. UNCHANGED <<now, traded, overtaken, absent, failed>> /\ answer'["reader"] = answer["reader"]
        /\ reader' \in {reader, "waiting"}
    BY <1>1, <1>6 DEF Poll, SaveUpdate, SaveBulk, BeginRepair, EndRepair, Serve, BeginBackfill, EndBackfill,
       Ask, BeginRead, candleVars, pollVars, worldVars, clockVars
  <2> QED  BY <1>5, <2>1
<1>7. ASSUME NEW fetches \in BOOLEAN, Trigger(fetches) PROVE NullsExcused'
  <2>1. UNCHANGED <<now, traded, overtaken, absent, failed, answer, reader>>
    BY <1>7 DEF Trigger, worldVars, clockVars
  <2> QED  BY <1>5, <2>1
<1>8. ASSUME NEW f \in Fetchers, GivesUp(f) PROVE NullsExcused'
  <2>1. UNCHANGED <<now, traded, overtaken, absent, answer>> /\ failed'
        /\ reader' \in {reader, "answered"}
    BY <1>8 DEF GivesUp, clockVars
  <2> QED  BY <1>5, <2>1
<1>9. ASSUME NEW cs, Deliver(cs), UNCHANGED <<now, traded, overtaken>>,
             (cs = Newest(Fetched, Count(Head(requests).by)) /\ failed' = failed) \/ failed'
      PROVE  NullsExcused'
  <2>1. \A s \in traded : InReach(s) => \E c \in Newest(Fetched, Count("reader")) : c.slot = s
    <3>1. Count("reader") \in Nat /\ Count("reader") > Depth /\ Depth \in Nat
      BY CandleStoreAssumption DEF Count
    <3>2. ASSUME NEW s \in traded, InReach(s)
          PROVE  \E c \in Newest(Fetched, Count("reader")) : c.slot = s
      <4>1. s \in Nat /\ s < now /\ now < s + Count("reader")
        BY <1>1, <3>1, <3>2 DEF InReach
      <4>2. [slot |-> s, form |-> "final"] \in Newest(Fetched, Count("reader"))
        BY <3>1, <4>1, NewestReach DEF StoreInv
      <4> QED  BY <4>2
    <3> QED  BY <3>2
  <2>2. absent' = absent
    BY <1>9 DEF Deliver
  <2>3. CASE ~Head(requests).late /\ Head(requests).by = "reader"
    <3>1. reader' = "answered" /\ answer'["reader"] = cs
      BY <1>1, <1>9, <2>3 DEF Deliver
    <3>2. absent' \in SUBSET Slots
      BY <2>2 DEF NullsExcused
    <3>3. cs = Newest(Fetched, Count("reader")) \/ failed'
      BY <1>9, <2>3
    <3>4. reader' = "answered" /\ ~failed' =>
             \A s \in traded : InReach(s) => s \in overtaken \/ \E c \in answer'["reader"] : c.slot = s
      BY <2>1, <3>1, <3>3
    <3>5. reader' # "saved"
      BY <3>1
    <3> QED  BY <1>4, <1>9, <3>2, <3>4, <3>5
  <2>4. CASE ~(~Head(requests).late /\ Head(requests).by = "reader")
    <3>1. reader' = reader /\ answer'["reader"] = answer["reader"]
      BY <1>1, <1>9, <2>4 DEF Deliver
    <3>2. absent' \in SUBSET Slots /\ (failed => failed')
      BY <1>9, <2>2 DEF NullsExcused
    <3>3. reader' = "saved" => \A s \in absent' : Excused(s)'
      BY <1>9, <2>2, <3>1, <3>2 DEF NullsExcused, Excused
    <3>4. reader' = "answered" /\ ~failed' =>
             \A s \in traded : InReach(s) => s \in overtaken \/ \E c \in answer'["reader"] : c.slot = s
      BY <3>1, <3>2 DEF NullsExcused
    <3> QED  BY <1>4, <1>9, <3>2, <3>3, <3>4
  <2> QED  BY <2>3, <2>4
<1>10. CASE AdapterAnswers
  BY <1>9, <1>10 DEF AdapterAnswers
<1>11. CASE AdapterFails
  BY <1>9, <1>11 DEF AdapterFails, clockVars
<1>12. CASE Restart
  <2>1. UNCHANGED <<now, traded, overtaken>> /\ absent' = {} /\ reader' = "no"
    BY <1>12 DEF Restart, clockVars
  <2> QED  BY <1>4, <2>1
<1>13. CASE EndRead
  <2>1. UNCHANGED <<now, traded, overtaken>> /\ absent' = {} /\ reader' = "no"
    BY <1>13 DEF EndRead, worldVars, clockVars
  <2> QED  BY <1>4, <2>1
<1>14. CASE SaveRead
  <2>1. /\ UNCHANGED <<now, traded, overtaken, failed>> /\ reader = "answered" /\ reader' = "saved"
        /\ store' = Written(answer["reader"])
        /\ absent' \in {{}, MissingSlots(store')}
    BY <1>14 DEF SaveRead, worldVars, clockVars
  <2>2. answer["reader"] \in Rows /\ Genuine(answer["reader"])
    BY <1>1 DEF StoreInv, OnlyOver
  <2>3. store' \in [Slots -> Forms] /\ GenuineRows(store')
    BY <2>1, <2>2, WrittenRows
  <2>4. \A s \in Slots : store'[s] = "null" => s < now
    BY <2>1, <2>2, NoNullWritten DEF NullsExcused, Excused
  <2>5. \A s \in absent' : s \in Slots /\ InReach(s) /\ store'[s] = "none"
    BY <2>1, <2>3, <2>4, MissingOver
  <2>6. ASSUME NEW s \in absent' PROVE Excused(s)'
    <3>1. ASSUME NEW c \in answer["reader"], c.slot = s PROVE FALSE
      <4>1. store'[s] # "none"
        BY <2>1, <2>2, <2>5, <3>1, WrittenRows DEF Rows, Candle
      <4> QED  BY <2>5, <4>1
    <3>2. s \in traded /\ ~failed => s \in overtaken
      BY <2>1, <2>5, <3>1 DEF NullsExcused
    <3> QED  BY <2>1, <2>5, <3>2 DEF Excused, InReach
  <2> QED  BY <1>4, <2>1, <2>5, <2>6
<1> QED  BY <1>3, <1>6, <1>7, <1>8, <1>10, <1>11, <1>12, <1>13, <1>14 DEF CandleNext, ContainerStep

\* What a repair is about to write unfinished is among the latest slots.
RepairRecent ==
    \A c \in answer["repair"] : c.form = "forming" => now < c.slot + GapCheck

LEMMA RepairRecentStep == StoreInv /\ RepairRecent /\ [CandleNext]_candleVars => RepairRecent'
<1> SUFFICES ASSUME StoreInv, RepairRecent, [CandleNext]_candleVars PROVE RepairRecent'
  OBVIOUS
<1>1. answer \in [Fetchers -> Rows] /\ "repair" \in Fetchers /\ now \in Nat
  BY CandleStoreAssumption DEF StoreInv, RowTypes, Fetchers
<1>2. ASSUME NEW hasPrice \in BOOLEAN, SlotBegins(hasPrice) PROVE RepairRecent'
  <2>1. now' = now + 1 /\ answer' = answer
    BY <1>2 DEF SlotBegins, containerVars
  <2>2. RepairIsPrompt
    BY <1>2 DEF SlotBegins
  <2> QED  BY <2>1, <2>2 DEF RepairIsPrompt, RepairRecent
<1>3. ASSUME NEW cs \in SUBSET Fetched, Deliver(cs), now' = now PROVE RepairRecent'
  <2>1. answer'["repair"] \in {answer["repair"], cs}
    BY <1>1, <1>3 DEF Deliver
  <2>2. ASSUME NEW c \in cs, c.form = "forming" PROVE now < c.slot + GapCheck
    <3>1. c.slot = now
      BY <1>3, <2>2 DEF Fetched
    <3> QED  BY <1>1, <3>1, CandleStoreAssumption
  <2> QED  BY <1>3, <2>1, <2>2 DEF RepairRecent
<1>4. CASE AdapterAnswers
  <2> DEFINE got == Newest(Fetched, Count(Head(requests).by))
  <2>1. got \in SUBSET Fetched
    BY DEF Newest
  <2>2. Deliver(got) /\ now' = now
    BY <1>4 DEF AdapterAnswers
  <2> QED  BY <1>3, <2>1, <2>2
<1>5. CASE AdapterFails
  BY <1>3, <1>5 DEF AdapterFails, clockVars
<1>6. CASE EndRepair \/ Restart
  <2>1. answer'["repair"] = {}
    BY <1>1, <1>6 DEF EndRepair, Restart
  <2> QED  BY <2>1 DEF RepairRecent
<1>7. CASE \/ Poll \/ SaveUpdate \/ SaveBulk \/ BeginRepair \/ Serve \/ SaveRead \/ EndRead
           \/ BeginBackfill \/ EndBackfill \/ Ask \/ BeginRead \/ UNCHANGED candleVars
           \/ \E fetches \in BOOLEAN : Trigger(fetches)
           \/ \E f \in Fetchers : GivesUp(f)
  <2>1. now' = now /\ answer'["repair"] = answer["repair"]
    BY <1>1, <1>7 DEF Poll, SaveUpdate, SaveBulk, BeginRepair, Serve, SaveRead, EndRead, BeginBackfill,
       EndBackfill, Ask, BeginRead, Trigger, GivesUp, candleVars, pollVars, worldVars, clockVars
  <2> QED  BY <2>1 DEF RepairRecent
<1> QED  BY <1>2, <1>4, <1>5, <1>6, <1>7 DEF CandleNext, ContainerStep

\* What the polls have passed and sent, with what excuses a null candle.
CoverInv == StoreInv /\ PollMarks /\ AllUnderway /\ NullsExcused /\ RepairRecent

LEMMA CoverInit == CandleInit => CoverInv
<1> SUFFICES ASSUME CandleInit PROVE PollMarks /\ AllUnderway /\ NullsExcused /\ RepairRecent
  BY StoreInvInit DEF CoverInv
<1>1. PollMarks /\ AllUnderway
  BY CandleStoreAssumption DEF CandleInit, PollMarks, AllUnderway, Begun
<1>2. NullsExcused /\ RepairRecent
  BY DEF CandleInit, NullsExcused, RepairRecent, Fetchers
<1> QED  BY <1>1, <1>2

LEMMA CoverInvStep == CoverInv /\ [CandleNext]_candleVars => CoverInv'
BY StoreInvStep, PollMarksStep, AllUnderwayStep, NullsExcusedStep, RepairRecentStep DEF CoverInv

LEMMA CoverInvariant == CandleSpec => []CoverInv
<1>1. CandleInit => CoverInv
  BY CoverInit
<1>2. CoverInv /\ [CandleNext]_candleVars => CoverInv'
  BY CoverInvStep
<1> QED  BY <1>1, <1>2, PTL DEF CandleSpec

-----------------------------------------------------------------------------
(* What a step does to a finished candle.                                  *)

\* Among the latest rows are those of all the latest slots.
LEMMA LatestKnown ==
    ASSUME StoreInv, NullsExcused, NEW s \in Slots, store[s] = "final", now < s + GapCheck
    PROVE  s \in LatestRows
<1> DEFINE newer == {t \in Stored : t > s}
<1>1. now \in Nat /\ s \in Nat /\ GapCheck \in Nat
  BY CandleStoreAssumption DEF StoreInv, RowTypes, Slots
<1>2. ASSUME NEW t \in Stored PROVE t \in Nat /\ t <= now
  <2>1. t \in Slots /\ store[t] \in {"forming", "final", "null"} /\ t \in Nat
    BY CandleStoreAssumption DEF Stored, StoreInv, RowTypes, Forms, Slots
  <2>2. store[t] = "null" => t < now
    BY <2>1 DEF NullsExcused, Excused
  <2>3. store[t] # "null" => t \in traded
    BY <2>1 DEF StoreInv, OnlyOver, GenuineRows
  <2>4. \A u \in traded : u <= now
    BY <1>1 DEF StoreInv, RowTypes
  <2> QED  BY <1>1, <2>1, <2>2, <2>3, <2>4
<1>3. newer \in SUBSET ((s + 1)..now)
  <2>1. ASSUME NEW t \in Nat, t <= now, t > s PROVE t \in (s + 1)..now
    BY <1>1, <2>1
  <2> QED  BY <1>2, <2>1
<1>4. IsFiniteSet((s + 1)..now)
      /\ Cardinality((s + 1)..now) = IF s + 1 > now THEN 0 ELSE now - s
  BY <1>1, FS_Interval
<1>5. Cardinality(newer) \in Nat /\ Cardinality(newer) <= Cardinality((s + 1)..now)
  <2> HIDE DEF newer
  <2>1. IsFiniteSet(newer) /\ Cardinality(newer) <= Cardinality((s + 1)..now)
    BY <1>3, <1>4, FS_Subset
  <2> QED  BY <2>1, FS_CardinalityType
<1>6. Cardinality(newer) < GapCheck
  <2> HIDE DEF newer
  <2>1. GapCheck > 0
    BY CandleStoreAssumption
  <2> QED  BY <1>1, <1>4, <1>5, <2>1
<1>7. s \in Stored
  BY DEF Stored
<1> QED  BY <1>6, <1>7 DEF LatestRows

\* Of all writers but the message loop only the racing backfill replaces one.
LEMMA FinishedKept ==
    ASSUME CoverInv, EndRepair \/ SaveRead \/ EndRead \/ EndBackfill, ~raced',
           NEW s \in Slots, store[s] = "final"
    PROVE  store'[s] = "final"
<1> SUFFICES ASSUME store'[s] # "final" PROVE FALSE
  OBVIOUS
<1>0. StoreInv
  BY DEF CoverInv
<1>1. ASSUME NEW cs \in Rows, store' = Written(cs)
      PROVE  [slot |-> s, form |-> "forming"] \in cs
  <2>1. PICK c \in cs : c.slot = s /\ store'[s] = c.form
    BY <1>0, <1>1, WrittenRows
  <2>2. c \in Candle /\ c.form = "forming"
    BY <2>1 DEF Rows, Candle
  <2>3. c = [slot |-> s, form |-> "forming"]
    BY <2>1, <2>2 DEF Candle
  <2> QED  BY <2>3
<1>2. CASE EndRepair
  <2>1. ToRepair(answer["repair"]) \in Rows
    BY <1>0 DEF ToRepair, StoreInv, RowTypes, Fetchers, Rows
  <2>2. [slot |-> s, form |-> "forming"] \in ToRepair(answer["repair"])
    BY <1>1, <1>2, <2>1 DEF EndRepair
  <2>3. [slot |-> s, form |-> "forming"] \in answer["repair"] /\ s \notin LatestRows
    BY <2>2 DEF ToRepair
  <2>4. now < s + GapCheck
    BY <2>3 DEF CoverInv, RepairRecent
  <2> QED  BY <1>0, <2>3, <2>4, LatestKnown DEF CoverInv
<1>3. CASE SaveRead
  <2>1. [slot |-> s, form |-> "forming"] \in answer["reader"]
    BY <1>0, <1>1, <1>3 DEF SaveRead, StoreInv, RowTypes, Fetchers
  <2>2. raced' = raced
    BY <1>3 DEF SaveRead, worldVars, clockVars
  <2> QED  BY <1>0, <2>1, <2>2 DEF StoreInv, ReaderHolds
<1>4. CASE EndRead
  <2>1. s \in absent /\ raced' = raced
    BY <1>4 DEF EndRead, ToNull, worldVars, clockVars
  <2> QED  BY <1>0, <1>4, <2>1 DEF EndRead, StoreInv, ReaderHolds
<1>5. CASE EndBackfill
  <2>1. [slot |-> s, form |-> "forming"] \in answer["backfill"]
    BY <1>0, <1>1, <1>5 DEF EndBackfill, StoreInv, RowTypes, Fetchers
  <2> QED  BY <1>5, <2>1 DEF EndBackfill
<1> QED  BY <1>2, <1>3, <1>4, <1>5

\* And the message loop only if the message has the candle unfinished.
LEMMA HeadWritten ==
    ASSUME StoreInv, SaveUpdate \/ SaveBulk, NEW s \in Slots, store[s] = "final", store'[s] # "final"
    PROVE  [slot |-> s, form |-> "forming"] \in Head(inbox).rows
<1>1. Head(inbox).rows \in Rows /\ store' = Written(Head(inbox).rows)
  BY HeadRows DEF SaveUpdate, SaveBulk, Handles
<1>2. PICK c \in Head(inbox).rows : c.slot = s /\ store'[s] = c.form
  BY <1>1, WrittenRows
<1>3. c \in Candle /\ c.form = "forming"
  BY <1>1, <1>2 DEF Rows, Candle
<1>4. c = [slot |-> s, form |-> "forming"]
  BY <1>2, <1>3 DEF Candle
<1> QED  BY <1>4

LEMMA FinishedStep == CoverInv /\ [CandleNext]_candleVars =>
    \A s \in Slots : store[s] = "final" /\ store'[s] # "final" =>
        \/ raced'
        \/ Handles("update") /\ [slot |-> s, form |-> "forming"] \in Head(inbox).rows
        \/ Handles("bulk") /\ [slot |-> s, form |-> "forming"] \in Head(inbox).rows
<1> SUFFICES ASSUME CoverInv, [CandleNext]_candleVars, NEW s \in Slots,
                    store[s] = "final", store'[s] # "final"
             PROVE  \/ raced'
                    \/ Handles("update") /\ [slot |-> s, form |-> "forming"] \in Head(inbox).rows
                    \/ Handles("bulk") /\ [slot |-> s, form |-> "forming"] \in Head(inbox).rows
  OBVIOUS
<1>1. CASE SaveUpdate
  BY <1>1, HeadWritten DEF SaveUpdate, CoverInv
<1>2. CASE SaveBulk
  BY <1>2, HeadWritten DEF SaveBulk, CoverInv
<1>3. CASE EndRepair \/ SaveRead \/ EndRead \/ EndBackfill
  BY <1>3, FinishedKept
<1>4. CASE UNCHANGED store
  BY <1>4
<1>5. UNCHANGED store \/ SaveUpdate \/ SaveBulk \/ EndRepair \/ SaveRead \/ EndRead \/ EndBackfill
  BY DEF CandleNext, ContainerStep, SlotBegins, Poll, Trigger, AdapterAnswers, AdapterFails, Deliver,
         GivesUp, Ask, BeginRead, Restart, BeginRepair, Serve, BeginBackfill, candleVars, containerVars
<1> QED  BY <1>1, <1>2, <1>3, <1>4, <1>5

\* A finished candle keeps its place in the store, but for the two writers the property
\* names, whatever the number of slots, polls, readers, repairs and restarts.
THEOREM FinishedCandlesStay == CandleSpec => FinishedStays
<1> DEFINE Keeps == \A s \in Slots : store[s] = "final" /\ store'[s] # "final" =>
              \/ raced'
              \/ Handles("update") /\ [slot |-> s, form |-> "forming"] \in Head(inbox).rows
              \/ Handles("bulk") /\ [slot |-> s, form |-> "forming"] \in Head(inbox).rows
<1>1. CoverInv /\ [CandleNext]_candleVars => [Keeps]_candleVars
  BY FinishedStep
<1> QED  BY <1>1, CoverInvariant, PTL DEF CandleSpec, FinishedStays

-----------------------------------------------------------------------------
(* What polls have passed.                                                 *)

\* When the message loop is idle, the store has every candle that the polls have passed since
\* the first one after the start, unless a fetch has failed, or the candle was older than
\* those that a repair got, or a null candle is in the place of one that ended while a reader
\* looked for holes: whatever the number of slots, the window of the polls, the depth of the
\* readers and the reach of the repairs.
THEOREM GapsAreRepaired == CandleSpec => []NoGapLeft
<1>1. CoverInv => NoGapLeft
  <2> SUFFICES ASSUME CoverInv, inbox = <<>>, repair = "no", ~failed, NEW s \in traded,
                      Begun(s), s <= lastM5, s \notin beyond
               PROVE  store[s] \in {"forming", "final"} \/ (store[s] = "null" /\ s \in overtaken)
    BY DEF NoGapLeft, Passed, Begun
  <2>1. s \in Slots /\ store[s] \in Forms
    BY CandleStoreAssumption DEF CoverInv, StoreInv, RowTypes, Slots
  <2>2. Underway(s)
    BY DEF CoverInv, AllUnderway
  <2>3. store[s] # "none"
    BY <2>2 DEF Underway
  <2>4. store[s] = "null" => s \in overtaken
    BY <2>1 DEF CoverInv, NullsExcused, Excused
  <2> QED  BY <2>1, <2>3, <2>4 DEF Forms
<1> QED  BY <1>1, CoverInvariant, PTL

-----------------------------------------------------------------------------
(* What a question is served from.                                         *)

\* The message has the candle of the slot unfinished, or finished.
Spoils(m, s) == m.kind \in {"update", "bulk"} /\ [slot |-> s, form |-> "forming"] \in m.rows
Brings(m, s) == m.kind \in {"update", "bulk"} /\ [slot |-> s, form |-> "final"] \in m.rows

\* Once the first n messages are handled, the finished candle is in the store.
Fresh(q, st, n, s) ==
    \/ st[s] = "final" /\ \A k \in 1..n : ~Spoils(q[k], s)
    \/ \E j \in 1..n : Brings(q[j], s) /\ \A k \in (j + 1)..n : ~Spoils(q[k], s)

\* What a question counts on is there when its turn comes, unless the backfill has raced; and
\* so would be what a question that comes next will count on.
AnswersFresh ==
    raced \/ /\ \A s \in published : Fresh(inbox, store, Len(inbox), s)
             /\ \A i \in DOMAIN inbox : inbox[i].kind = "question" =>
                   \A s \in inbox[i].needs : Fresh(inbox, store, i - 1, s)

LEMMA FreshPrefix ==
    ASSUME NEW q \in Seq(Message), NEW more \in Seq(Message), NEW st, NEW s,
           NEW n \in 0..Len(q), Fresh(q, st, n, s)
    PROVE  Fresh(q \o more, st, n, s)
<1>1. \A k \in 1..n : (q \o more)[k] = q[k]
  OBVIOUS
<1>2. CASE st[s] = "final" /\ \A k \in 1..n : ~Spoils(q[k], s)
  BY <1>1, <1>2 DEF Fresh
<1>3. ASSUME NEW j \in 1..n, Brings(q[j], s), \A k \in (j + 1)..n : ~Spoils(q[k], s)
      PROVE  Fresh(q \o more, st, n, s)
  <2>1. \A k \in (j + 1)..n : k \in 1..n /\ ~Spoils((q \o more)[k], s)
    BY <1>1, <1>3
  <2> QED  BY <1>1, <1>3, <2>1 DEF Fresh
<1> QED  BY <1>2, <1>3 DEF Fresh

LEMMA FreshLonger ==
    ASSUME NEW q \in Seq(Message), NEW more \in Seq(Message), NEW st, NEW s,
           Fresh(q, st, Len(q), s), \A k \in DOMAIN more : ~Spoils(more[k], s)
    PROVE  Fresh(q \o more, st, Len(q \o more), s)
<1> DEFINE all == q \o more
<1>1. /\ Len(all) = Len(q) + Len(more) /\ Len(q) \in Nat /\ Len(more) \in Nat
      /\ \A k \in 1..Len(q) : all[k] = q[k]
      /\ \A k \in 1..Len(all) : k > Len(q) => k - Len(q) \in DOMAIN more /\ all[k] = more[k - Len(q)]
  OBVIOUS
<1>2. \A k \in 1..Len(all) : k > Len(q) => ~Spoils(all[k], s)
  BY <1>1
<1> HIDE DEF all
<1>3. CASE st[s] = "final" /\ \A k \in 1..Len(q) : ~Spoils(q[k], s)
  <2>1. \A k \in 1..Len(all) : ~Spoils(all[k], s)
    BY <1>1, <1>2, <1>3
  <2>2. Fresh(all, st, Len(all), s)
    BY <1>3, <2>1 DEF Fresh
  <2> QED  BY <2>2 DEF all
<1>4. ASSUME NEW j \in 1..Len(q), Brings(q[j], s), \A k \in (j + 1)..Len(q) : ~Spoils(q[k], s)
      PROVE  Fresh(all, st, Len(all), s)
  <2>1. j \in 1..Len(all) /\ Brings(all[j], s)
    BY <1>1, <1>4
  <2>2. \A k \in (j + 1)..Len(all) : ~Spoils(all[k], s)
    BY <1>1, <1>2, <1>4
  <2> QED  BY <2>1, <2>2 DEF Fresh
<1> QED  BY <1>3, <1>4 DEF Fresh, all

LEMMA FreshBrought ==
    ASSUME NEW q \in Seq(Message), NEW more \in Seq(Message), NEW st, NEW s,
           NEW j \in DOMAIN more, Brings(more[j], s), \A k \in DOMAIN more : ~Spoils(more[k], s)
    PROVE  Fresh(q \o more, st, Len(q \o more), s)
<1> DEFINE all == q \o more
           i == Len(q) + j
<1>1. /\ Len(all) = Len(q) + Len(more) /\ Len(q) \in Nat /\ Len(more) \in Nat /\ j \in 1..Len(more)
      /\ \A k \in 1..Len(all) : k > Len(q) => k - Len(q) \in DOMAIN more /\ all[k] = more[k - Len(q)]
  OBVIOUS
<1> HIDE DEF all
<1>2. i \in 1..Len(all) /\ all[i] = more[j]
  <2>1. i \in 1..Len(all) /\ i > Len(q) /\ i - Len(q) = j
    BY <1>1
  <2> QED  BY <1>1, <2>1
<1>3. \A k \in (i + 1)..Len(all) : ~Spoils(all[k], s)
  <2>1. \A k \in (i + 1)..Len(all) : k \in 1..Len(all) /\ k > Len(q)
    BY <1>1
  <2> QED  BY <1>1, <2>1
<1>4. Brings(all[i], s)
  BY <1>2
<1> HIDE DEF i
<1> QED  BY <1>2, <1>3, <1>4 DEF Fresh, all

LEMMA FreshTaken ==
    ASSUME NEW q \in Seq(Message), q # <<>>, NEW st, NEW stn, NEW s, NEW n \in 1..Len(q), Fresh(q, st, n, s),
           st[s] = "final" /\ ~Spoils(Head(q), s) => stn[s] = "final",
           Brings(Head(q), s) => stn[s] = "final"
    PROVE  Fresh(Tail(q), stn, n - 1, s)
<1> DEFINE rest == Tail(q)
<1>1. /\ Len(q) \in Nat /\ n \in Nat /\ Head(q) = q[1]
      /\ \A k \in 1..(Len(q) - 1) : rest[k] = q[k + 1]
  OBVIOUS
<1> HIDE DEF rest
<1>2. ASSUME stn[s] = "final", \A k \in 2..n : ~Spoils(q[k], s)
      PROVE  Fresh(rest, stn, n - 1, s)
  <2>1. ASSUME NEW k \in 1..(n - 1) PROVE ~Spoils(rest[k], s)
    <3>1. k \in 1..(Len(q) - 1) /\ k + 1 \in 2..n
      BY <1>1
    <3>2. rest[k] = q[k + 1]
      BY <1>1, <3>1
    <3> QED  BY <1>2, <3>1, <3>2
  <2> QED  BY <1>2, <2>1 DEF Fresh
<1>3. CASE st[s] = "final" /\ \A k \in 1..n : ~Spoils(q[k], s)
  <2>1. stn[s] = "final"
    BY <1>1, <1>3
  <2>2. \A k \in 2..n : ~Spoils(q[k], s)
    BY <1>1, <1>3
  <2> QED  BY <1>2, <2>1, <2>2 DEF rest
<1>4. ASSUME NEW j \in 1..n, Brings(q[j], s), \A k \in (j + 1)..n : ~Spoils(q[k], s)
      PROVE  Fresh(rest, stn, n - 1, s)
  <2>1. CASE j = 1
    BY <1>1, <1>2, <1>4, <2>1
  <2>2. CASE j # 1
    <3>1. j - 1 \in 1..(n - 1) /\ rest[j - 1] = q[j]
      BY <1>1, <2>2
    <3>2. \A k \in (j - 1 + 1)..(n - 1) : ~Spoils(rest[k], s)
      <4>1. ASSUME NEW k \in (j - 1 + 1)..(n - 1)
            PROVE  k + 1 \in (j + 1)..n /\ rest[k] = q[k + 1]
        <5>1. k \in Nat /\ j \in Nat /\ j <= k /\ k <= n - 1 /\ 1 <= j
          BY <1>1
        <5>2. k + 1 \in (j + 1)..n /\ k \in 1..(Len(q) - 1)
          BY <1>1, <5>1
        <5> QED  BY <1>1, <5>2
      <4> QED  BY <1>4, <4>1
    <3> QED  BY <1>4, <3>1, <3>2 DEF Fresh
  <2> QED  BY <2>1, <2>2
<1> QED  BY <1>3, <1>4 DEF Fresh, rest

\* What the polling loop and the trigger send keeps the answers fresh.
LEMMA SendsKeepFresh ==
    ASSUME StoreInv, AnswersFresh, NEW cs \in Rows, Genuine(cs), NEW more, Sends(more, cs),
           UNCHANGED <<store, raced>>,
           published' = published \cup {d.slot : d \in {e \in cs : e.form = "final"}},
           \A d \in cs : d.form = "forming" => d.slot \notin published
    PROVE  AnswersFresh'
<1>1. /\ inbox \in Seq(Message) /\ more \in Seq(Message) /\ inbox' = inbox \o more
      /\ \A d \in cs : \E i \in DOMAIN more : more[i].kind = "update" /\ more[i].rows = {d}
      /\ \A i \in DOMAIN more : more[i].kind \notin {"update", "bulk"}
                                \/ (more[i].kind = "update" /\ more[i].rows \subseteq cs)
      /\ \A i \in DOMAIN more : more[i].kind # "question"
  BY DEF StoreInv, RowTypes, Sends
<1>2. SUFFICES ASSUME ~raced
               PROVE  /\ \A s \in published' : Fresh(inbox', store, Len(inbox'), s)
                      /\ \A i \in DOMAIN inbox' : inbox'[i].kind = "question" =>
                            \A s \in inbox'[i].needs : Fresh(inbox', store, i - 1, s)
  BY DEF AnswersFresh
\* A finished candle of the slot excludes an unfinished one.
<1>3. ASSUME NEW s \in published', NEW i \in DOMAIN more PROVE ~Spoils(more[i], s)
  <2> SUFFICES ASSUME [slot |-> s, form |-> "forming"] \in cs PROVE FALSE
    BY <1>1 DEF Spoils
  <2>1. s \notin published
    <3>1. [slot |-> s, form |-> "forming"].slot = s /\ [slot |-> s, form |-> "forming"].form = "forming"
      OBVIOUS
    <3> QED  BY <3>1
  <2>2. PICK d \in cs : d.form = "final" /\ d.slot = s
    BY <2>1
  <2>3. d = [slot |-> s, form |-> "forming"]
    BY <2>2 DEF Genuine
  <2> QED  BY <2>2, <2>3
<1>4. ASSUME NEW s \in published' PROVE Fresh(inbox', store, Len(inbox'), s)
  <2>1. CASE s \in published
    <3>1. Fresh(inbox, store, Len(inbox), s)
      BY <1>2, <2>1 DEF AnswersFresh
    <3> QED  BY <1>1, <1>3, <3>1, FreshLonger
  <2>2. CASE s \notin published
    <3>1. PICK d \in cs : d.form = "final" /\ d.slot = s
      BY <2>2
    <3>2. d = [slot |-> s, form |-> "final"]
      BY <3>1 DEF Rows, Candle
    <3>3. PICK j \in DOMAIN more : more[j].kind = "update" /\ more[j].rows = {d}
      BY <1>1
    <3>4. Brings(more[j], s)
      BY <3>2, <3>3 DEF Brings
    <3> QED  BY <1>1, <1>3, <3>4, FreshBrought
  <2> QED  BY <2>1, <2>2
<1>5. ASSUME NEW i \in DOMAIN inbox', inbox'[i].kind = "question", NEW s \in inbox'[i].needs
      PROVE  Fresh(inbox', store, i - 1, s)
  <2>1. i \in DOMAIN inbox /\ inbox'[i] = inbox[i]
    BY <1>1, <1>5, Joined
  <2>2. Fresh(inbox, store, i - 1, s) /\ i - 1 \in 0..Len(inbox)
    BY <1>1, <1>2, <1>5, <2>1 DEF AnswersFresh
  <2> QED  BY <1>1, <2>2, FreshPrefix
<1> QED  BY <1>4, <1>5

\* Other messages that are sent: the late answer of a fetch, and a question.
LEMMA AppendKeepsFresh ==
    ASSUME StoreInv, AnswersFresh, NEW m \in Message, inbox' = Append(inbox, m),
           UNCHANGED <<store, raced, published>>,
           \A s \in published : ~Spoils(m, s),
           m.kind = "question" => m.needs \subseteq published
    PROVE  AnswersFresh'
<1>1. inbox \in Seq(Message) /\ <<m>> \in Seq(Message) /\ inbox' = inbox \o <<m>>
  BY DEF StoreInv, RowTypes
<1>2. SUFFICES ASSUME ~raced
               PROVE  /\ \A s \in published : Fresh(inbox', store, Len(inbox'), s)
                      /\ \A i \in DOMAIN inbox' : inbox'[i].kind = "question" =>
                            \A s \in inbox'[i].needs : Fresh(inbox', store, i - 1, s)
  BY DEF AnswersFresh
<1>3. ASSUME NEW s \in published PROVE Fresh(inbox', store, Len(inbox'), s)
  <2>1. Fresh(inbox, store, Len(inbox), s)
    BY <1>2 DEF AnswersFresh
  <2>2. \A k \in DOMAIN <<m>> : ~Spoils(<<m>>[k], s)
    BY DEF Spoils
  <2> QED  BY <1>1, <2>1, <2>2, FreshLonger
<1>4. ASSUME NEW i \in DOMAIN inbox', inbox'[i].kind = "question", NEW s \in inbox'[i].needs
      PROVE  Fresh(inbox', store, i - 1, s)
  <2>1. CASE i \in DOMAIN inbox
    <3>1. inbox'[i] = inbox[i]
      BY <1>1, <2>1, Joined
    <3>2. Fresh(inbox, store, i - 1, s) /\ i - 1 \in 0..Len(inbox)
      BY <1>1, <1>2, <1>4, <2>1, <3>1 DEF AnswersFresh
    <3> QED  BY <1>1, <3>2, FreshPrefix
  <2>2. CASE i \notin DOMAIN inbox
    <3>1. i = Len(inbox) + 1 /\ inbox'[i] = m /\ i - 1 = Len(inbox) /\ Len(inbox) \in 0..Len(inbox)
      BY <1>1, <2>2
    <3>2. s \in published
      BY <1>4, <3>1
    <3>3. Fresh(inbox, store, Len(inbox), s)
      BY <1>2, <3>2 DEF AnswersFresh
    <3>4. Fresh(inbox \o <<m>>, store, Len(inbox), s)
      BY <1>1, <3>1, <3>3, FreshPrefix
    <3> QED  BY <1>1, <3>1, <3>4
  <2> QED  BY <2>1, <2>2
<1> QED  BY <1>3, <1>4

\* A message that is handled.
LEMMA TakingKeepsFresh ==
    ASSUME StoreInv, AnswersFresh, inbox # <<>>, inbox' = Tail(inbox), UNCHANGED <<raced, published>>,
           \A s \in Slots : store[s] = "final" /\ ~Spoils(Head(inbox), s) => store'[s] = "final",
           \A s \in Slots : Brings(Head(inbox), s) => store'[s] = "final"
    PROVE  AnswersFresh'
<1>1. inbox \in Seq(Message) /\ published \subseteq Slots
      /\ \A i \in DOMAIN inbox : inbox[i].kind = "question" => inbox[i].needs \subseteq Slots
  BY DEF StoreInv, RowTypes, Message
<1>2. Len(inbox) \in Nat /\ Len(inbox) \in 1..Len(inbox) /\ Len(inbox') = Len(inbox) - 1
      /\ \A i \in DOMAIN inbox' : i + 1 \in DOMAIN inbox /\ inbox'[i] = inbox[i + 1]
  BY <1>1
<1>3. SUFFICES ASSUME ~raced
               PROVE  /\ \A s \in published : Fresh(inbox', store', Len(inbox'), s)
                      /\ \A i \in DOMAIN inbox' : inbox'[i].kind = "question" =>
                            \A s \in inbox'[i].needs : Fresh(inbox', store', i - 1, s)
  BY DEF AnswersFresh
<1>4. ASSUME NEW s \in published PROVE Fresh(inbox', store', Len(inbox'), s)
  <2>1. Fresh(inbox, store, Len(inbox), s) /\ s \in Slots
    BY <1>1, <1>3 DEF AnswersFresh
  <2>2. Fresh(Tail(inbox), store', Len(inbox) - 1, s)
    BY <1>1, <1>2, <2>1, FreshTaken
  <2> QED  BY <1>2, <2>2
<1>5. ASSUME NEW i \in DOMAIN inbox', inbox'[i].kind = "question", NEW s \in inbox'[i].needs
      PROVE  Fresh(inbox', store', i - 1, s)
  <2>1. i + 1 \in DOMAIN inbox /\ inbox'[i] = inbox[i + 1] /\ i \in 1..Len(inbox) /\ (i + 1) - 1 = i
    BY <1>1, <1>2
  <2>2. Fresh(inbox, store, i, s) /\ s \in Slots
    BY <1>1, <1>3, <1>5, <2>1 DEF AnswersFresh
  <2>3. Fresh(Tail(inbox), store', i - 1, s)
    BY <1>1, <2>1, <2>2, FreshTaken
  <2> QED  BY <2>3
<1> QED  BY <1>4, <1>5

LEMMA AnswersFreshStep ==
    CoverInv /\ AnswersFresh /\ [CandleNext]_candleVars => AnswersFresh'
<1> SUFFICES ASSUME CoverInv, AnswersFresh, [CandleNext]_candleVars PROVE AnswersFresh'
  OBVIOUS
<1>0. StoreInv /\ PollMarks
  BY DEF CoverInv
<1> USE <1>0
<1>1. /\ inbox \in Seq(Message) /\ published \subseteq Slots /\ \A s \in published : s < now
      /\ now \in Nat /\ Slots \subseteq Nat
  BY CandleStoreAssumption DEF StoreInv, RowTypes, PollMarks, Slots
<1>2. CASE Poll
  <2>1. PICK c \in Fetched : \E sent \in SUBSET Fetched : \E more \in Seq(Message) :
               PollSends(c, sent, more)
    BY <1>2, PollFacts
  <2>2. PICK sent \in SUBSET Fetched : \E more \in Seq(Message) : PollSends(c, sent, more)
    BY <2>1
  <2>3. PICK more \in Seq(Message) : PollSends(c, sent, more)
    BY <2>2
  <2>4. sent \in Rows /\ Genuine(sent)
    BY FetchedOver DEF StoreInv, Rows, Genuine
  <2>5. \A d \in sent : d.form = "final"
    BY <2>3 DEF PollSends
  <2>6. /\ published' = published \cup {d.slot : d \in {e \in sent : e.form = "final"}}
        /\ \A d \in sent : d.form = "forming" => d.slot \notin published
    <3>1. published' = published \cup {d.slot : d \in sent}
      BY <2>3 DEF PollSends
    <3>2. {e \in sent : e.form = "final"} = sent
      BY <2>5
    <3> QED  BY <2>5, <3>1, <3>2
  <2>7. Sends(more, sent) /\ UNCHANGED <<store, raced>>
    BY <1>2, <2>3 DEF PollSends, Poll, worldVars
  <2> QED  BY <2>4, <2>6, <2>7, SendsKeepFresh
<1>3. ASSUME NEW fetches \in BOOLEAN, Trigger(fetches) PROVE AnswersFresh'
  <2>1. PICK cs \in Rows : \E more \in Seq(Message) : TriggerSends(cs, more)
    BY <1>3, TriggerFacts
  <2>2. PICK more \in Seq(Message) : TriggerSends(cs, more)
    BY <2>1
  <2>3. UNCHANGED <<store, raced>>
    BY <1>3 DEF Trigger, worldVars
  <2> QED  BY <2>2, <2>3, SendsKeepFresh DEF TriggerSends
<1>4. ASSUME NEW cs \in SUBSET Fetched, Deliver(cs), UNCHANGED <<raced, published>> PROVE AnswersFresh'
  <2>1. store' = store
    BY <1>4 DEF Deliver
  <2>2. CASE inbox' = inbox
    BY <1>4, <2>1, <2>2 DEF AnswersFresh
  <2>3. CASE inbox' # inbox
    <3>1. inbox' = Append(inbox, [kind |-> "bulk", rows |-> cs])
      BY <1>4, <2>3 DEF Deliver
    <3>2. [kind |-> "bulk", rows |-> cs] \in Message
      <4>1. cs \in Rows
        BY FetchedOver DEF StoreInv, Rows
      <4> QED  BY <4>1 DEF Message
    <3>3. ASSUME NEW s \in published PROVE ~Spoils([kind |-> "bulk", rows |-> cs], s)
      <4>1. s # now /\ s \in Slots
        BY <1>1, <3>3
      <4> QED  BY <3>1, <4>1, FetchedOver DEF StoreInv, Spoils
    <3> QED  BY <1>4, <2>1, <3>1, <3>2, <3>3, AppendKeepsFresh
  <2> QED  BY <2>2, <2>3
<1>5. CASE AdapterAnswers
  <2> DEFINE got == Newest(Fetched, Count(Head(requests).by))
  <2>1. got \in SUBSET Fetched
    BY DEF Newest
  <2>2. Deliver(got) /\ UNCHANGED <<raced, published>>
    BY <1>5 DEF AdapterAnswers, pollVars
  <2> QED  BY <1>4, <2>1, <2>2
<1>6. CASE AdapterFails
  BY <1>4, <1>6 DEF AdapterFails, pollVars
<1>7. CASE Ask
  <2>1. [kind |-> "question", needs |-> published] \in Message
    BY <1>1 DEF Message
  <2>2. inbox' = Append(inbox, [kind |-> "question", needs |-> published])
        /\ UNCHANGED <<store, raced, published>>
    BY <1>7 DEF Ask, pollVars
  <2>3. \A s \in published : ~Spoils([kind |-> "question", needs |-> published], s)
    BY DEF Spoils
  <2> QED  BY <2>1, <2>2, <2>3, AppendKeepsFresh
<1>8. CASE SaveUpdate \/ SaveBulk
  <2>1. /\ inbox # <<>> /\ inbox' = Tail(inbox) /\ UNCHANGED <<raced, published>>
        /\ Head(inbox).kind \in {"update", "bulk"} /\ store' = Written(Head(inbox).rows)
    BY <1>8 DEF SaveUpdate, SaveBulk, Handles, pollVars, worldVars
  <2>2. Head(inbox).rows \in Rows /\ Genuine(Head(inbox).rows)
    BY <2>1, HeadRows
  <2>3. ASSUME NEW s \in Slots, store[s] = "final", ~Spoils(Head(inbox), s) PROVE store'[s] = "final"
    BY <1>8, <2>1, <2>3, HeadWritten DEF Spoils
  <2>4. ASSUME NEW s \in Slots, Brings(Head(inbox), s) PROVE store'[s] = "final"
    <3> DEFINE b == [slot |-> s, form |-> "final"]
    <3>1. b \in Head(inbox).rows /\ b.slot = s /\ b.form = "final"
      BY <2>4 DEF Brings
    <3>2. PICK c \in Head(inbox).rows : c.slot = s /\ store'[s] = c.form
      BY <2>1, <2>2, <3>1, WrittenRows
    <3>3. c = b
      BY <2>2, <3>1, <3>2 DEF Genuine
    <3> QED  BY <3>1, <3>2, <3>3
  <2> QED  BY <2>1, <2>3, <2>4, TakingKeepsFresh
<1>9. CASE BeginRepair \/ Serve
  <2>1. /\ inbox # <<>> /\ inbox' = Tail(inbox) /\ UNCHANGED <<raced, published, store>>
        /\ Head(inbox).kind \in {"gap", "question"}
    BY <1>9 DEF BeginRepair, Serve, Handles, pollVars, worldVars
  <2>2. \A s \in Slots : ~Brings(Head(inbox), s)
    BY <2>1 DEF Brings
  <2> QED  BY <2>1, <2>2, TakingKeepsFresh
<1>10. ASSUME UNCHANGED <<inbox, published>>, raced => raced',
              ~raced' => \A s \in Slots : store[s] = "final" => store'[s] = "final"
       PROVE  AnswersFresh'
  <2> SUFFICES ASSUME ~raced' PROVE AnswersFresh'
    BY DEF AnswersFresh
  <2>1. ASSUME NEW n, NEW s \in Slots, Fresh(inbox, store, n, s) PROVE Fresh(inbox, store', n, s)
    BY <1>10, <2>1 DEF Fresh
  <2>2. ~raced
    BY <1>10
  <2>3. \A s \in published : Fresh(inbox, store', Len(inbox), s)
    BY <1>1, <2>1, <2>2 DEF AnswersFresh
  <2>4. \A i \in DOMAIN inbox : inbox[i].kind = "question" => inbox[i].needs \subseteq Slots
    BY <1>1 DEF Message
  <2>5. \A i \in DOMAIN inbox : inbox[i].kind = "question" =>
           \A s \in inbox[i].needs : Fresh(inbox, store', i - 1, s)
    BY <2>1, <2>2, <2>4 DEF AnswersFresh
  <2> QED  BY <1>10, <2>3, <2>5 DEF AnswersFresh
<1>11. CASE EndRepair \/ SaveRead \/ EndRead \/ EndBackfill
  <2>1. UNCHANGED <<inbox, published>> /\ (raced => raced')
    <3>1. CASE EndRepair \/ SaveRead \/ EndRead
      BY <3>1 DEF EndRepair, SaveRead, EndRead, pollVars, worldVars
    <3>2. CASE EndBackfill
      BY <3>2 DEF EndBackfill, pollVars
    <3> QED  BY <1>11, <3>1, <3>2
  <2> QED  BY <1>10, <1>11, <2>1, FinishedKept
<1>12. CASE Restart
  <2>1. inbox' = <<>> /\ published' = {}
    BY <1>12 DEF Restart
  <2> QED  BY <2>1 DEF AnswersFresh
<1>13. CASE \/ \E hasPrice \in BOOLEAN : SlotBegins(hasPrice)
            \/ \E f \in Fetchers : GivesUp(f)
            \/ BeginRead \/ BeginBackfill \/ UNCHANGED candleVars
  <2>1. UNCHANGED <<inbox, published, raced, store>>
    BY <1>13 DEF SlotBegins, GivesUp, BeginRead, BeginBackfill, candleVars, pollVars, worldVars, containerVars
  <2> QED  BY <1>10, <2>1
<1> QED  BY <1>2, <1>3, <1>5, <1>6, <1>7, <1>8, <1>9, <1>11, <1>12, <1>13 DEF CandleNext, ContainerStep

\* An agent is served from a store that has every finished candle that was sent before it
\* asked, in whatever order the messages were sent, the repairs and readers wrote and late
\* answers came, as long as the backfill has not raced.
THEOREM AgentsAreServedFresh == CandleSpec => ServesFresh
<1> DEFINE Inv == CoverInv /\ AnswersFresh
           Served == Handles("question") /\ inbox' = Tail(inbox) =>
                        raced \/ \A s \in Head(inbox).needs : store[s] = "final"
<1>1. CandleInit => Inv
  <2> SUFFICES ASSUME CandleInit PROVE AnswersFresh
    BY CoverInit
  <2> QED  BY DEF CandleInit, AnswersFresh
<1>2. Inv /\ [CandleNext]_candleVars => Inv'
  BY CoverInvStep, AnswersFreshStep
<1>3. Inv => Served
  <2> SUFFICES ASSUME Inv, Handles("question"), ~raced, NEW s \in Head(inbox).needs
               PROVE  store[s] = "final"
    OBVIOUS
  <2>1. 1 \in DOMAIN inbox /\ inbox[1] = Head(inbox) /\ Head(inbox).kind = "question"
    BY DEF Handles, CoverInv, StoreInv, RowTypes
  <2>2. Fresh(inbox, store, 1 - 1, s)
    BY <2>1 DEF AnswersFresh
  <2> QED  BY <2>2 DEF Fresh
<1>4. Inv /\ [CandleNext]_candleVars => [Served]_candleVars
  BY <1>3
<1> QED  BY <1>1, <1>2, <1>4, PTL DEF CandleSpec, ServesFresh

-----------------------------------------------------------------------------
(* Types.                                                                  *)

\* What the invariants above do not speak of.
OtherTypes ==
    /\ forming \in BOOLEAN /\ failed \in BOOLEAN /\ extras \in 0..MaxExtras
    /\ repair \in {"no", "waiting", "answered"}
    /\ backfill \in {"due", "waiting", "answered", "done"}
    /\ requests \in Seq([by: Fetchers, late: BOOLEAN])
    /\ keys \in [Slots -> {"none", "forming", "final"}]
    /\ Cardinality(delayed) <= 1
    /\ beyond \in SUBSET Slots

\* One trigger waits at most: the newest of the candles of the venue.
LEMMA OneDelayed == ASSUME StoreInv, PollMarks, Poll PROVE Cardinality(delayed') <= 1
<1>1. PICK c \in Fetched : \E sent \in SUBSET Fetched : \E more \in Seq(Message) :
             PollSends(c, sent, more)
  BY PollFacts
<1>2. delayed' \subseteq Fetched
  BY <1>1 DEF PollSends
<1>3. Fetched \in Rows /\ Genuine(Fetched) /\ IsFiniteSet(Fetched)
  BY FetchedOver DEF StoreInv
<1> DEFINE window == Newest(Fetched, Lookback)
<1>4. delayed' = {} \/ delayed' = Newest(window, 1)
  BY DEF Poll, Scheduled, PollMarks
<1>5. Lookback \in Nat \ {0} /\ 1 \in Nat \ {0}
  BY CandleStoreAssumption
<1>6. window \in Rows
  BY <1>3, <1>5, NewestOnes
<1>7. \A d \in Newest(window, 1) : d \in window /\ \A e \in window : e.slot <= d.slot
  BY <1>5, <1>6, NewestOnes
<1>8. ASSUME NEW d \in delayed', NEW e \in delayed' PROVE d = e
  <2>1. d.slot <= e.slot /\ e.slot <= d.slot
    BY <1>4, <1>7, <1>8
  <2>2. d \in Fetched /\ e \in Fetched /\ d.slot \in Nat /\ e.slot \in Nat
    BY <1>2, <1>3, <1>8, CandleStoreAssumption DEF Rows, Candle, Slots
  <2>3. d.slot = e.slot
    BY <2>1, <2>2
  <2> QED  BY <1>3, <2>2, <2>3 DEF Genuine
<1>9. CASE delayed' = {}
  BY <1>9, FS_EmptySet
<1>10. CASE delayed' # {}
  <2>1. PICK d \in delayed' : TRUE
    BY <1>10
  <2>2. delayed' = {d}
    BY <1>8, <2>1
  <2>3. Cardinality({d}) = 1
    BY FS_Singleton
  <2> QED  BY <2>2, <2>3
<1> QED  BY <1>9, <1>10

LEMMA OtherTypesStep ==
    StoreInv /\ PollMarks /\ OtherTypes /\ [CandleNext]_candleVars => OtherTypes'
<1> SUFFICES ASSUME StoreInv, PollMarks, OtherTypes, [CandleNext]_candleVars PROVE OtherTypes'
  OBVIOUS
<1> DEFINE Request == [by: Fetchers, late: BOOLEAN]
<1>1. requests \in Seq(Request) /\ extras \in Nat /\ MaxExtras \in Nat
  BY CandleStoreAssumption DEF OtherTypes
<1>2. Cardinality({}) <= 1
  BY FS_EmptySet
<1>3. \A f \in Fetchers : Append(requests, [by |-> f, late |-> FALSE]) \in Seq(Request)
  BY <1>1
<1>4. "repair" \in Fetchers /\ "reader" \in Fetchers /\ "backfill" \in Fetchers
  BY DEF Fetchers
<1>5. ASSUME NEW hasPrice \in BOOLEAN, SlotBegins(hasPrice) PROVE OtherTypes'
  BY <1>5 DEF SlotBegins, OtherTypes, pollVars, containerVars
<1>6. CASE Poll
  BY <1>6, OneDelayed DEF Poll, OtherTypes, worldVars, clockVars
<1>7. ASSUME NEW fetches \in BOOLEAN, Trigger(fetches) PROVE OtherTypes'
  BY <1>2, <1>7 DEF Trigger, OtherTypes, worldVars, clockVars
<1>8. ASSUME NEW cs, requests # <<>>, Deliver(cs)
      PROVE  /\ requests' \in Seq(Request) /\ keys' = keys
             /\ repair' \in {repair, "answered"} /\ backfill' \in {backfill, "answered"}
  BY <1>1, <1>8 DEF Deliver
<1>9. CASE AdapterAnswers
  <2>1. {c.slot : c \in Fetched} \subseteq Slots
    BY FetchedOver DEF StoreInv, Rows, Candle
  <2>2. beyond' \in SUBSET Slots
    BY <1>9, <2>1 DEF AdapterAnswers, OtherTypes
  <2>3. /\ requests' \in Seq(Request) /\ keys' = keys
        /\ repair' \in {repair, "answered"} /\ backfill' \in {backfill, "answered"}
    BY <1>8, <1>9 DEF AdapterAnswers
  <2>4. UNCHANGED <<forming, failed, extras, delayed>>
    BY <1>9 DEF AdapterAnswers, pollVars
  <2> QED  BY <2>2, <2>3, <2>4 DEF OtherTypes
<1>10. CASE AdapterFails
  BY <1>1, <1>8, <1>10 DEF AdapterFails, OtherTypes, pollVars, clockVars
<1>11. ASSUME NEW f \in Fetchers, GivesUp(f) PROVE OtherTypes'
  <2>1. requests' \in Seq(Request)
    <3> DEFINE new(k) == IF requests[k].by = f THEN [by |-> f, late |-> TRUE] ELSE requests[k]
               n == Len(requests)
    <3>1. \A k \in 1..n : new(k) \in Request
      <4>1. \A k \in 1..n : requests[k] \in Request
        <5> HIDE DEF Request
        <5> QED  BY <1>1
      <4>2. [by |-> f, late |-> TRUE] \in Request
        BY <1>11
      <4> QED  BY <4>1, <4>2
    <3>2. n \in Nat /\ requests' = [k \in 1..n |-> new(k)]
      BY <1>1, <1>11 DEF GivesUp, GiveUpRequest
    <3> HIDE DEF new, n
    <3> QED  BY <3>1, <3>2
  <2> QED  BY <1>1, <1>11, <2>1 DEF GivesUp, OtherTypes, pollVars, clockVars
<1>12. CASE Ask
  BY <1>1, <1>12 DEF Ask, OtherTypes, pollVars, clockVars
<1>13. CASE BeginRead
  BY <1>1, <1>3, <1>4, <1>13 DEF BeginRead, OtherTypes, pollVars, clockVars
<1>14. CASE Restart
  BY <1>1, <1>2, <1>14 DEF Restart, OtherTypes, clockVars
<1>15. CASE SaveUpdate
  <2>1. keys' = [s \in Slots |-> IF s \in Keyless(store') THEN store'[s] ELSE keys[s]]
    BY <1>15 DEF SaveUpdate
  <2>2. \A s \in Keyless(store') : store'[s] \in {"forming", "final"}
    BY DEF Keyless
  <2>3. keys' \in [Slots -> {"none", "forming", "final"}]
    BY <2>1, <2>2 DEF OtherTypes
  <2>4. UNCHANGED <<forming, failed, extras, repair, backfill, requests, delayed, beyond>>
    BY <1>15 DEF SaveUpdate, pollVars, worldVars, clockVars
  <2> QED  BY <2>3, <2>4 DEF OtherTypes
<1>16. CASE BeginRepair
  BY <1>3, <1>4, <1>16 DEF BeginRepair, OtherTypes, pollVars, worldVars, clockVars
<1>17. CASE BeginBackfill
  BY <1>3, <1>4, <1>17 DEF BeginBackfill, OtherTypes, pollVars, worldVars, clockVars
<1>18. CASE SaveBulk \/ EndRepair \/ Serve \/ SaveRead \/ EndRead
  BY <1>18 DEF SaveBulk, EndRepair, Serve, SaveRead, EndRead, OtherTypes, pollVars, worldVars, clockVars
<1>19. CASE EndBackfill \/ UNCHANGED candleVars
  BY <1>19 DEF EndBackfill, candleVars, OtherTypes, pollVars, clockVars
<1> QED  BY <1>5, <1>6, <1>7, <1>9, <1>10, <1>11, <1>12, <1>13, <1>14, <1>15, <1>16, <1>17, <1>18, <1>19
         DEF CandleNext, ContainerStep

\* The types of the candle store, with what the theorems above rest on.
CandleInv == CoverInv /\ OtherTypes
LEMMA CandleInvInit == CandleInit => CandleInv
<1> SUFFICES ASSUME CandleInit PROVE CandleInv
  OBVIOUS
<1>1. OtherTypes
  <2>1. Cardinality(delayed) <= 1
    BY FS_EmptySet DEF CandleInit
  <2>2. requests \in Seq([by: Fetchers, late: BOOLEAN]) /\ extras \in 0..MaxExtras
    BY CandleStoreAssumption DEF CandleInit
  <2> QED  BY <2>1, <2>2 DEF CandleInit, OtherTypes
<1> QED  BY <1>1, CoverInit DEF CandleInv

LEMMA CandleInvStep == CandleInv /\ [CandleNext]_candleVars => CandleInv'
  BY CoverInvStep, OtherTypesStep DEF CandleInv, CoverInv

LEMMA CandleInvTypes == CandleInv => CandleTypeOK
  BY CandleStoreAssumption
     DEF CandleInv, CoverInv, StoreInv, RowTypes, PollMarks, NullsExcused, OtherTypes, CandleTypeOK, Slots

-----------------------------------------------------------------------------
(* Rows of a table, in batches.                                            *)

\* Latest is what it is named for.
LEMMA LatestOf ==
    ASSUME NEW S \in SUBSET TableRows, S # {}
    PROVE  Latest(S) \in S /\ \A y \in S : y <= Latest(S)
<1> USE ReportingMirrorAssumption DEF TableRows
<1>1. S \subseteq Nat /\ MaxRow \in Nat /\ \A y \in S : y <= MaxRow
  OBVIOUS
<1>2. \E z \in S : \A y \in S : y <= z
  BY <1>1, GreatestNumber
<1> QED BY <1>2, Zenon DEF Latest

\* A batch is taken from the rows after the watermark, and leaves none of them out up to its
\* end; there is one if there are any such rows.
LEMMA BatchTaken ==
    ASSUME NEW S \in SUBSET TableRows, NEW mark \in 0..MaxRow, NextBatch(S, mark) # {}
    PROVE  /\ NextBatch(S, mark) \subseteq {r \in S : r > mark}
           /\ Latest(NextBatch(S, mark)) \in NextBatch(S, mark)
           /\ \A r \in S : mark < r /\ r <= Latest(NextBatch(S, mark)) => r \in NextBatch(S, mark)
<1> USE ReportingMirrorAssumption
<1> DEFINE after == {r \in S : r > mark}
           batch == NextBatch(S, mark)
           upTo(r) == {q \in after : q <= r}
<1>1. batch = {r \in after : Cardinality(upTo(r)) <= Batch}
  BY DEF NextBatch
<1>2. batch \subseteq after /\ batch \in SUBSET TableRows
  BY <1>1
<1>3. Latest(batch) \in batch
  BY <1>2, LatestOf
<1>4. ASSUME NEW r \in S, mark < r, r <= Latest(batch) PROVE r \in batch
  <2>1. IsFiniteSet(after)
    <3>1. IsFiniteSet(TableRows)
      BY FS_Interval DEF TableRows
    <3> QED BY <3>1, FS_Subset
  <2>2. /\ upTo(r) \subseteq upTo(Latest(batch))
        /\ IsFiniteSet(upTo(r)) /\ IsFiniteSet(upTo(Latest(batch)))
    <3>1. \A q \in after : q \in Nat
      BY DEF TableRows
    <3>2. r \in Nat /\ Latest(batch) \in Nat
      BY <1>2, <1>3 DEF TableRows
    <3>3. ASSUME NEW q \in upTo(r) PROVE q \in upTo(Latest(batch))
      <4>1. q \in after /\ q \in Nat /\ q <= r
        BY <3>1
      <4>2. q <= Latest(batch)
        BY <1>4, <3>2, <4>1
      <4> QED BY <4>1, <4>2
    <3> QED BY <2>1, <3>3, FS_Subset
  <2>3. Cardinality(upTo(r)) <= Cardinality(upTo(Latest(batch)))
    BY <2>2, FS_Subset
  <2>4. Cardinality(upTo(r)) \in Nat /\ Cardinality(upTo(Latest(batch))) \in Nat
    BY <2>2, FS_CardinalityType
  <2>5. Cardinality(upTo(Latest(batch))) <= Batch
    BY <1>1, <1>3
  <2> QED BY <1>1, <1>4, <2>3, <2>4, <2>5
<1> QED BY <1>2, <1>3, <1>4

-----------------------------------------------------------------------------
(* The mirror.                                                             *)

\* Up to its watermark a copy has all the rows that production has, but for latecomers; and
\* the watermark is not ahead of production.
NoHole(c) == \A r \in PresentRows(rows) \ latecomers : r <= c.mark["m5"] => c.m5[r] # "none"
MarksReached(c) == c.mark["m5"] = 0 \/ \E q \in PresentRows(rows) : c.mark["m5"] <= q

\* Rows reach the end of each bar; and as long as no pass has failed, no row is ahead of the
\* watermark, so that the rows of a bar stay as they were when it was built.
BarsEnded(c) ==
    \A b \in Buckets : c.bars[b] # {} =>
        /\ \E q \in PresentRows(c.m5) : b * BarRows <= q
        /\ ~broken => c.bars[b] = Bar(c.m5, b)
RowsMarked(c) == broken \/ \A q \in PresentRows(c.m5) : q <= c.mark["m5"]

SoundCopy(c) == NoHole(c) /\ MarksReached(c) /\ BarsEnded(c) /\ RowsMarked(c)
MirrorInv ==
    /\ MirrorTypeOK
    /\ SoundCopy(disk) /\ SoundCopy(work)
    /\ disk.mark["m5"] <= work.mark["m5"]

LEMMA MirrorInvInit == MirrorInit => MirrorInv
<1> SUFFICES ASSUME MirrorInit PROVE MirrorInv
  OBVIOUS
<1> USE ReportingMirrorAssumption DEF MirrorInit
<1>1. MirrorTypeOK
  <2>1. EmptyCopy \in Copies
    BY DEF EmptyCopy, Copies, RowForms
  <2>2. rows \in [TableRows -> RowForms]
    BY DEF RowForms
  <2>3. 0 \in 0..MaxPasses /\ 0 \in 0..MaxLate
    OBVIOUS
  <2> QED BY <2>1, <2>2, <2>3 DEF MirrorTypeOK
<1>2. /\ rows = [r \in TableRows |-> "none"] /\ rowKeys = {}
      /\ EmptyCopy.mark["m5"] = 0 /\ EmptyCopy.mark["keys"] = 0
      /\ \A b \in Buckets : EmptyCopy.bars[b] = {}
      /\ \A r \in TableRows : EmptyCopy.m5[r] = "none"
  BY DEF EmptyCopy
<1>3. PresentRows(rows) = {} /\ PresentRows(EmptyCopy.m5) = {}
  BY <1>2 DEF PresentRows
<1>4. SoundCopy(EmptyCopy)
  BY <1>2, <1>3 DEF SoundCopy, NoHole, MarksReached, BarsEnded, RowsMarked
<1>5. disk.mark["m5"] <= work.mark["m5"]
  BY <1>2
<1> QED BY <1>1, <1>4, <1>5 DEF MirrorInv

\* A copy is as sound as before when production grows without going back behind a watermark.
LEMMA GrowthKeeps ==
    ASSUME NEW c \in Copies, SoundCopy(c),
           PresentRows(rows) \subseteq PresentRows(rows'),
           latecomers \subseteq latecomers', broken' = broken,
           \A r \in PresentRows(rows') \ (PresentRows(rows) \cup latecomers') : ~(r <= c.mark["m5"])
    PROVE  SoundCopy(c)'
<1>1. MarksReached(c)'
  BY DEF SoundCopy, MarksReached
<1>2. ASSUME NEW r \in PresentRows(rows') \ latecomers', r <= c.mark["m5"]
      PROVE  c.m5[r] # "none"
  BY <1>2 DEF SoundCopy, NoHole
<1>3. NoHole(c)'
  BY <1>2 DEF NoHole
<1> QED BY <1>1, <1>3 DEF SoundCopy, BarsEnded, RowsMarked, PresentRows, Bar

\* The steps of production.
LEMMA ProductionKeeps ==
    ASSUME MirrorInv, \/ \E r \in TableRows : \E form \in {"half", "whole"} : AppendRow(r, form)
                      \/ \E r \in TableRows : Finish(r)
                      \/ \E r \in TableRows : \E form \in {"whole", "null"} : WriteLate(r, form)
                      \/ \E p \in ParamSets : WriteKeys(p)
    PROVE  MirrorInv'
<1> USE ReportingMirrorAssumption
<1>0. /\ MirrorTypeOK /\ disk \in Copies /\ work \in Copies /\ SoundCopy(disk) /\ SoundCopy(work)
      /\ disk.mark["m5"] \in Nat /\ work.mark["m5"] \in Nat
      /\ disk.mark["m5"] <= work.mark["m5"]
  BY DEF MirrorInv, MirrorTypeOK, Copies
<1>1. ASSUME MirrorTypeOK',
             PresentRows(rows) \subseteq PresentRows(rows'),
             latecomers \subseteq latecomers', UNCHANGED <<disk, work, broken>>,
             \A r \in PresentRows(rows') \ (PresentRows(rows) \cup latecomers') :
                 ~(r <= disk.mark["m5"]) /\ ~(r <= work.mark["m5"])
      PROVE  MirrorInv'
  <2>1. SoundCopy(disk)'
    <3>1. SoundCopy(disk) /\ disk \in Copies /\ disk' = disk
      BY <1>0, <1>1
    <3>2. \A c \in {disk} : SoundCopy(c)'
      BY <1>1, <3>1, GrowthKeeps
    <3> QED BY <3>1, <3>2 DEF SoundCopy, NoHole, MarksReached, BarsEnded, RowsMarked
  <2>2. SoundCopy(work)'
    <3>1. SoundCopy(work) /\ work \in Copies /\ work' = work
      BY <1>0, <1>1
    <3>2. \A c \in {work} : SoundCopy(c)'
      BY <1>1, <3>1, GrowthKeeps
    <3> QED BY <3>1, <3>2 DEF SoundCopy, NoHole, MarksReached, BarsEnded, RowsMarked
  <2> QED BY <1>0, <1>1, <2>1, <2>2 DEF MirrorInv
<1>2. \A r \in TableRows : r \in Nat /\ r > 0
  BY DEF TableRows
<1>3. ASSUME NEW r \in TableRows, NEW form \in {"half", "whole"}, AppendRow(r, form)
      PROVE  MirrorInv'
  <2>1. MirrorTypeOK'
    BY <1>0, <1>3 DEF AppendRow, MirrorTypeOK, RowForms, histories
  <2>2. PresentRows(rows') = PresentRows(rows) \cup {r}
    BY <1>0, <1>3 DEF AppendRow, MirrorTypeOK, PresentRows
  <2>3. ASSUME NEW c \in {disk, work} PROVE ~(r <= c.mark["m5"])
    <3>1. c.mark["m5"] \in Nat /\ MarksReached(c)
      BY <1>0 DEF SoundCopy
    <3>2. CASE c.mark["m5"] = 0
      BY <1>2, <3>2
    <3>3. ASSUME NEW q \in PresentRows(rows), c.mark["m5"] <= q PROVE ~(r <= c.mark["m5"])
      <4>1. q < r /\ q \in Nat /\ r \in Nat
        BY <1>2, <1>3, <3>3 DEF AppendRow, PresentRows
      <4> QED BY <3>1, <3>3, <4>1
    <3> QED BY <3>1, <3>2, <3>3 DEF MarksReached
  <2> QED BY <1>1, <1>3, <2>1, <2>2, <2>3 DEF AppendRow, histories
<1>4. ASSUME NEW r \in TableRows, Finish(r) PROVE MirrorInv'
  <2>1. MirrorTypeOK'
    BY <1>0, <1>4 DEF Finish, MirrorTypeOK, RowForms, histories
  <2>2. PresentRows(rows') = PresentRows(rows)
    BY <1>0, <1>4 DEF Finish, MirrorTypeOK, PresentRows
  <2> QED BY <1>1, <1>4, <2>1, <2>2 DEF Finish, histories
<1>5. ASSUME NEW r \in TableRows, NEW form \in {"whole", "null"}, WriteLate(r, form)
      PROVE  MirrorInv'
  <2>1. MirrorTypeOK'
    BY <1>0, <1>5 DEF WriteLate, MirrorTypeOK, RowForms
  <2>2. PresentRows(rows') = PresentRows(rows) \cup {r}
    BY <1>0, <1>5 DEF WriteLate, MirrorTypeOK, PresentRows
  <2>3. r \notin latecomers' => ~(r <= disk.mark["m5"]) /\ ~(r <= work.mark["m5"])
    BY <1>0, <1>2, <1>5 DEF WriteLate
  <2>4. latecomers \subseteq latecomers' /\ UNCHANGED <<disk, work, broken>>
    BY <1>5 DEF WriteLate
  <2> QED BY <1>1, <2>1, <2>2, <2>3, <2>4
<1>6. ASSUME NEW p \in ParamSets, WriteKeys(p) PROVE MirrorInv'
  <2>1. MirrorTypeOK'
    BY <1>0, <1>6 DEF WriteKeys, MirrorTypeOK, MarketKeys
  <2> QED BY <1>1, <1>6, <2>1 DEF WriteKeys
<1> QED BY <1>3, <1>4, <1>5, <1>6

\* A row after another bar's end is not a row of that bar.
LEMMA RowBehindBar ==
    ASSUME NEW b \in Buckets, NEW r \in TableRows, NEW q \in TableRows, b * BarRows <= q, q < r
    PROVE  r \notin RowsOf(b)
<1>1. BarRows \in Nat \ {0} /\ r \in Nat /\ b \in Nat /\ q \in Nat /\ b * BarRows \in Nat
  BY ReportingMirrorAssumption DEF TableRows, Buckets
<1>2. r > b * BarRows
  BY <1>1
<1>3. (r + BarRows - 1) \div BarRows # b
  BY <1>1, <1>2
<1> QED BY <1>3 DEF RowsOf

LEMMA SyncM5Keeps == ASSUME MirrorInv, SyncM5 PROVE MirrorInv'
<1> USE ReportingMirrorAssumption DEF histories
<1> DEFINE batch == NextBatch(PresentRows(rows), work.mark["m5"])
<1>0. /\ MirrorTypeOK /\ work \in Copies /\ SoundCopy(work) /\ SoundCopy(disk)
      /\ UNCHANGED <<rows, rowKeys, disk, histories, broken, passes, lates>> /\ pass' = "bars"
      /\ disk.mark["m5"] <= work.mark["m5"]
      /\ PresentRows(rows) \in SUBSET TableRows /\ work.mark["m5"] \in 0..MaxRow
  BY DEF MirrorInv, MirrorTypeOK, SyncM5, PresentRows, Copies
<1>1. CASE batch = {}
  BY <1>0, <1>1 DEF SyncM5, MirrorInv, MirrorTypeOK, SoundCopy, NoHole, MarksReached, BarsEnded,
                    RowsMarked
<1>2. CASE batch # {}
  <2> DEFINE last == Latest(batch)
             m5 == [r \in TableRows |-> IF r \in batch THEN rows[r] ELSE work.m5[r]]
  <2>1. /\ batch \subseteq {r \in PresentRows(rows) : r > work.mark["m5"]}
        /\ last \in batch
        /\ \A r \in PresentRows(rows) : work.mark["m5"] < r /\ r <= last => r \in batch
        /\ \A r \in batch : r <= last
    BY <1>0, <1>2, BatchTaken, LatestOf
  <2>2. work' = [work EXCEPT !.m5 = m5, !.mark["m5"] = last]
    BY <1>2 DEF SyncM5
  <2> HIDE DEF batch, last
  <2>3. /\ work'.m5 = m5 /\ work'.bars = work.bars /\ work'.keys = work.keys
        /\ work'.mark["m5"] = last /\ work'.mark["keys"] = work.mark["keys"]
        /\ work' \in Copies
    <3>1. m5 \in [TableRows -> RowForms] /\ last \in 0..MaxRow
      BY <1>0, <2>1 DEF MirrorTypeOK, Copies, TableRows
    <3> HIDE DEF m5
    <3> QED BY <1>0, <2>2, <3>1 DEF Copies
  <2>4. /\ \A r \in TableRows : r \in Nat
        /\ batch \subseteq TableRows /\ last \in Nat /\ work.mark["m5"] \in Nat
        /\ \A r \in batch : rows[r] # "none" /\ r > work.mark["m5"]
    BY <1>0, <2>1 DEF PresentRows, TableRows
  <2>5. PresentRows(m5) = PresentRows(work.m5) \cup batch
    BY <1>0, <2>4 DEF PresentRows
  <2>6. NoHole(work')
    <3>1. ASSUME NEW r \in PresentRows(rows) \ latecomers, r <= last PROVE m5[r] # "none"
      <4>1. CASE r \in batch
        BY <2>4, <4>1
      <4>2. CASE r \notin batch
        <5>0. r \in TableRows /\ r \in Nat /\ ~(work.mark["m5"] < r)
          BY <1>0, <2>1, <2>4, <3>1, <4>2
        <5>1. r <= work.mark["m5"] /\ r \in TableRows
          BY <2>4, <5>0
        <5> QED BY <1>0, <4>2, <5>1 DEF SoundCopy, NoHole
      <4> QED BY <4>1, <4>2
    <3> HIDE DEF m5
    <3> QED BY <1>0, <2>3, <3>1 DEF SoundCopy, NoHole
  <2>7. MarksReached(work')
    BY <1>0, <2>1, <2>3, <2>4 DEF SoundCopy, MarksReached
  <2>8. BarsEnded(work')
    <3> SUFFICES ASSUME NEW b \in Buckets, work.bars[b] # {}
                 PROVE  /\ \E q \in PresentRows(m5) : b * BarRows <= q
                        /\ ~broken => work.bars[b] = Bar(m5, b)
      BY <2>3 DEF BarsEnded
    <3>1. PICK q \in PresentRows(work.m5) : b * BarRows <= q
      BY <1>0 DEF SoundCopy, BarsEnded
    <3>2. ASSUME ~broken PROVE Bar(m5, b) = Bar(work.m5, b)
      <4>1. q <= work.mark["m5"] /\ q \in TableRows
        BY <1>0, <3>2 DEF SoundCopy, RowsMarked, PresentRows
      <4>2. \A r \in batch : r \notin RowsOf(b)
        BY <2>4, <3>1, <4>1, RowBehindBar
      <4>3. RowsOf(b) \cap PresentRows(m5) = RowsOf(b) \cap PresentRows(work.m5)
        BY <2>5, <4>2
      <4>4. \A r \in RowsOf(b) : m5[r] = work.m5[r]
        BY <4>2 DEF RowsOf
      <4> HIDE DEF m5
      <4> QED BY <4>3, <4>4 DEF Bar
    <3> QED BY <1>0, <2>5, <3>1, <3>2 DEF SoundCopy, BarsEnded
  <2>9. RowsMarked(work')
    BY <1>0, <2>1, <2>3, <2>4, <2>5 DEF SoundCopy, RowsMarked
  <2>10. SoundCopy(work')
    BY <2>6, <2>7, <2>8, <2>9 DEF SoundCopy
  <2>11. SoundCopy(work)' /\ SoundCopy(disk)'
    BY <1>0, <2>10 DEF SoundCopy, NoHole, MarksReached, BarsEnded, RowsMarked
  <2>12. disk'.mark["m5"] <= work'.mark["m5"]
    <3>1. disk.mark["m5"] \in Nat
      BY <1>0 DEF MirrorTypeOK, Copies
    <3>2. work.mark["m5"] < last
      BY <2>1
    <3> QED BY <1>0, <2>3, <2>4, <3>1, <3>2
  <2> QED BY <1>0, <2>3, <2>11, <2>12 DEF MirrorInv, MirrorTypeOK
<1> QED BY <1>1, <1>2

LEMMA SyncBarsKeeps == ASSUME MirrorInv, SyncBars PROVE MirrorInv'
<1> USE ReportingMirrorAssumption DEF histories
<1>0. /\ MirrorTypeOK /\ work \in Copies /\ SoundCopy(work) /\ SoundCopy(disk)
      /\ UNCHANGED <<rows, rowKeys, disk, histories, broken, passes, lates>> /\ pass' = "keys"
      /\ disk.mark["m5"] <= work.mark["m5"]
      /\ PresentRows(work.m5) \in SUBSET TableRows
  BY DEF MirrorInv, MirrorTypeOK, SyncBars, PresentRows
<1>1. CASE work' = work
  BY <1>0, <1>1 DEF MirrorInv, MirrorTypeOK, SoundCopy, NoHole, MarksReached, BarsEnded,
                    RowsMarked
<1>2. ASSUME NEW build, build # {}, build \subseteq ToBuild(work.m5, work.mark["bars"]),
             work' = [work EXCEPT !.bars = [b \in Buckets |-> IF b \in build THEN Bar(work.m5, b)
                                                                         ELSE work.bars[b]],
                                  !.mark["bars"] = Latest(build)]
      PROVE  MirrorInv'
  <2> DEFINE bars == [b \in Buckets |-> IF b \in build THEN Bar(work.m5, b) ELSE work.bars[b]]
  <2>1. bars \in [Buckets -> SUBSET (TableRows \X RowForms)]
    <3>1. \A b \in Buckets : Bar(work.m5, b) \in SUBSET (TableRows \X RowForms)
      BY <1>0 DEF Bar, Copies, PresentRows
    <3> QED BY <1>0, <3>1 DEF Copies
  <2>2. Latest(build) \in 0..MaxRow
    <3>1. ASSUME NEW b \in build PROVE b \in TableRows
      <4>1. b \in Buckets /\ Bar(work.m5, b) # {} /\ b * BarRows <= Latest(PresentRows(work.m5))
        BY <1>2 DEF ToBuild, Reached
      <4>2. PresentRows(work.m5) # {}
        BY <4>1 DEF Bar
      <4>3. Latest(PresentRows(work.m5)) \in TableRows
        BY <1>0, <4>2, LatestOf
      <4>4. b \in Nat \ {0} /\ b <= b * BarRows /\ b * BarRows \in Nat
        BY <4>1 DEF Buckets
      <4>5. b * BarRows <= MaxRow
        BY <4>1, <4>3, <4>4 DEF TableRows
      <4> QED BY <4>4, <4>5 DEF TableRows
    <3>2. build \in SUBSET TableRows
      BY <3>1
    <3>3. Latest(build) \in TableRows
      BY <1>2, <3>2, LatestOf
    <3> QED BY <3>3 DEF TableRows
  <2>3. /\ work'.m5 = work.m5 /\ work'.bars = bars /\ work'.keys = work.keys
        /\ work'.mark["m5"] = work.mark["m5"] /\ work'.mark["keys"] = work.mark["keys"]
        /\ work' \in Copies
    <3>1. PICK last : last = Latest(build)
      OBVIOUS
    <3>2. work' = [work EXCEPT !.bars = bars, !.mark["bars"] = last]
      BY <1>2, <3>1
    <3> HIDE DEF bars
    <3> QED BY <1>0, <2>1, <2>2, <3>1, <3>2 DEF Copies
  <2>4. BarsEnded(work')
    <3> SUFFICES ASSUME NEW b \in Buckets, bars[b] # {}
                 PROVE  /\ \E q \in PresentRows(work.m5) : b * BarRows <= q
                        /\ ~broken => bars[b] = Bar(work.m5, b)
      BY <2>3 DEF BarsEnded
    <3>1. CASE b \in build
      <4>1. Bar(work.m5, b) # {} /\ Reached(b, work.m5)
        BY <1>2, <3>1 DEF ToBuild
      <4>2. PresentRows(work.m5) # {}
        BY <4>1 DEF Bar
      <4>3. Latest(PresentRows(work.m5)) \in PresentRows(work.m5)
        BY <1>0, <4>2, LatestOf
      <4> QED BY <3>1, <4>1, <4>3 DEF Reached
    <3>2. CASE b \notin build
      BY <1>0, <3>2 DEF SoundCopy, BarsEnded
    <3> QED BY <3>1, <3>2
  <2>5. SoundCopy(work')
    BY <1>0, <2>3, <2>4 DEF SoundCopy, NoHole, MarksReached, RowsMarked
  <2>6. SoundCopy(work)' /\ SoundCopy(disk)'
    BY <1>0, <2>5 DEF SoundCopy, NoHole, MarksReached, BarsEnded, RowsMarked
  <2> QED BY <1>0, <2>3, <2>6 DEF MirrorInv, MirrorTypeOK
<1>3. \/ work' = work
      \/ \E build : /\ build # {} /\ build \subseteq ToBuild(work.m5, work.mark["bars"])
                    /\ work' = [work EXCEPT
                            !.bars = [b \in Buckets |-> IF b \in build THEN Bar(work.m5, b)
                                                                    ELSE work.bars[b]],
                            !.mark["bars"] = Latest(build)]
  <2> DEFINE taken == {r \in PresentRows(work.m5) :
                          \E b \in Buckets : r \in RowsOf(b) /\ b + 1 >= work.mark["bars"]}
             built == IF Cardinality(taken) < 2 THEN {} ELSE ToBuild(work.m5, work.mark["bars"])
  <2>1. IF built = {} THEN work' = work
        ELSE work' = [work EXCEPT
                  !.bars = [b \in Buckets |-> IF b \in built THEN Bar(work.m5, b)
                                                          ELSE work.bars[b]],
                  !.mark["bars"] = Latest(built)]
    BY DEF SyncBars
  <2>2. built \subseteq ToBuild(work.m5, work.mark["bars"])
    OBVIOUS
  <2> HIDE DEF built
  <2> QED BY <2>1, <2>2
<1> QED BY <1>1, <1>2, <1>3

\* What a pass does about the keys: nothing, or a batch with its last slot.
SyncsKeys(batch, last) ==
    /\ batch \subseteq {k \in rowKeys : k[1] > work.mark["keys"]}
    /\ last \in TableRows /\ \E k \in batch : k[1] = last
    /\ \A k \in rowKeys : work.mark["keys"] < k[1] /\ k[1] < last => k \in batch
    /\ work' = [work EXCEPT !.keys = work.keys \cup batch, !.mark["keys"] = last]
    /\ seams' = seams \cup {last}

LEMMA SyncKeysDoes ==
    ASSUME MirrorTypeOK, SyncKeys
    PROVE  UNCHANGED <<work, seams>> \/ \E batch \in SUBSET MarketKeys : \E last \in TableRows : SyncsKeys(batch, last)
<1>1. PICK batch \in KeyBatches(rowKeys, work.mark["keys"]) :
          LET last == Latest({k[1] : k \in batch})
          IN IF batch = {} THEN UNCHANGED <<work, seams>>
             ELSE /\ work' = [work EXCEPT !.keys = work.keys \cup batch, !.mark["keys"] = last]
                  /\ seams' = seams \cup {last}
  BY DEF SyncKeys
<1> DEFINE slots == {k[1] : k \in batch}
           last == Latest(slots)
<1>2. /\ batch \subseteq {k \in rowKeys : k[1] > work.mark["keys"]}
      /\ \A b \in batch : \A q \in {k \in rowKeys : k[1] > work.mark["keys"]} \ batch : b[1] <= q[1]
  BY <1>1 DEF KeyBatches
<1>3. rowKeys \subseteq MarketKeys /\ \A k \in MarketKeys : k[1] \in TableRows
  BY DEF MirrorTypeOK, MarketKeys
<1>4. CASE batch = {}
  BY <1>1, <1>4
<1>5. CASE batch # {}
  <2>1. slots \in SUBSET TableRows /\ slots # {}
    BY <1>2, <1>3, <1>5
  <2>2. last \in slots
    BY <2>1, LatestOf
  <2>3. PICK k \in batch : k[1] = last
    BY <2>2
  <2>4. ASSUME NEW q \in rowKeys, work.mark["keys"] < q[1], q[1] < last PROVE q \in batch
    <3>1. q[1] \in Nat /\ last \in Nat /\ work.mark["keys"] \in Nat
      BY <1>3, <2>1, <2>2 DEF TableRows, MirrorTypeOK, Copies
    <3>2. q[1] > work.mark["keys"] /\ ~(k[1] <= q[1])
      BY <2>3, <2>4, <3>1
    <3> QED BY <1>2, <2>3, <3>2
  <2>5. /\ work' = [work EXCEPT !.keys = work.keys \cup batch, !.mark["keys"] = last]
        /\ seams' = seams \cup {last}
    BY <1>1, <1>5
  <2>6. last \in TableRows /\ batch \in SUBSET MarketKeys
    BY <1>2, <1>3, <2>1, <2>2
  <2> HIDE DEF last
  <2> QED BY <1>2, <2>3, <2>4, <2>5, <2>6 DEF SyncsKeys
<1> QED BY <1>4, <1>5

\* What a batch of keys makes of a copy.
LEMMA KeysCopied ==
    ASSUME MirrorTypeOK, NEW batch \in SUBSET MarketKeys, NEW last \in TableRows, SyncsKeys(batch, last)
    PROVE  /\ work'.m5 = work.m5 /\ work'.bars = work.bars /\ work'.keys = work.keys \cup batch
           /\ work'.mark["m5"] = work.mark["m5"] /\ work'.mark["keys"] = last
           /\ work' \in Copies
<1> USE ReportingMirrorAssumption
<1>1. work \in Copies /\ last \in 0..MaxRow
  BY DEF MirrorTypeOK, TableRows
<1>2. work.keys \cup batch \in SUBSET MarketKeys
  BY <1>1 DEF Copies
<1>3. work' = [work EXCEPT !.keys = work.keys \cup batch, !.mark["keys"] = last]
  BY DEF SyncsKeys
<1> QED BY <1>1, <1>2, <1>3 DEF Copies

LEMMA SyncKeysKeeps == ASSUME MirrorInv, SyncKeys PROVE MirrorInv'
<1>0. /\ MirrorTypeOK /\ SoundCopy(work) /\ SoundCopy(disk)
      /\ UNCHANGED <<rows, rowKeys, latecomers, lateKeys, broken, passes, lates>> /\ pass' = "none"
      /\ disk' = work'
  BY DEF MirrorInv, SyncKeys
<1>1. /\ work'.m5 = work.m5 /\ work'.bars = work.bars /\ work'.mark["m5"] = work.mark["m5"]
      /\ work' \in Copies /\ seams' \in SUBSET TableRows
  <2>1. CASE UNCHANGED <<work, seams>>
    BY <1>0, <2>1 DEF MirrorTypeOK
  <2>2. ASSUME NEW batch \in SUBSET MarketKeys, NEW last \in TableRows, SyncsKeys(batch, last)
        PROVE  /\ work'.m5 = work.m5 /\ work'.bars = work.bars /\ work'.mark["m5"] = work.mark["m5"]
               /\ work' \in Copies /\ seams' \in SUBSET TableRows
    <3>1. seams' \in SUBSET TableRows
      BY <1>0, <2>2 DEF SyncsKeys, MirrorTypeOK
    <3> QED BY <1>0, <2>2, <3>1, KeysCopied
  <2> QED BY <1>0, <2>1, <2>2, SyncKeysDoes
<1>2. SoundCopy(work')
  BY <1>0, <1>1 DEF SoundCopy, NoHole, MarksReached, BarsEnded, RowsMarked
<1>3. SoundCopy(work)' /\ SoundCopy(disk)'
  BY <1>0, <1>2 DEF SoundCopy, NoHole, MarksReached, BarsEnded, RowsMarked
<1>4. MirrorTypeOK'
  BY <1>0, <1>1 DEF MirrorTypeOK
<1>5. disk'.mark["m5"] <= work'.mark["m5"]
  <2>1. work'.mark["m5"] \in Nat
    BY <1>1 DEF Copies
  <2> QED BY <1>0, <2>1
<1> QED BY <1>3, <1>4, <1>5 DEF MirrorInv

\* A pass begins with what is committed, and an error or the end of the program goes back
\* to it; after an error the rows are copied from the first one again.
LEMMA PassEndsKeep == ASSUME MirrorInv, BeginPass \/ FailPass \/ CutPass PROVE MirrorInv'
<1> USE ReportingMirrorAssumption DEF histories
<1>0. /\ MirrorTypeOK /\ disk \in Copies /\ SoundCopy(work) /\ SoundCopy(disk)
      /\ disk.mark["m5"] \in Nat
  BY DEF MirrorInv, MirrorTypeOK, Copies
<1>1. CASE BeginPass
  <2>1. MirrorTypeOK'
    BY <1>0, <1>1 DEF BeginPass, MirrorTypeOK
  <2>2. disk' = disk /\ work' = disk
    BY <1>1 DEF BeginPass
  <2>3. disk'.mark["m5"] <= work'.mark["m5"]
    BY <1>0, <2>2
  <2> QED BY <1>0, <1>1, <2>1, <2>3 DEF BeginPass, MirrorInv, SoundCopy, NoHole, MarksReached, BarsEnded,
                                  RowsMarked
<1>2. CASE CutPass
  <2>1. MirrorTypeOK'
    BY <1>0, <1>2 DEF CutPass, RolledBack, MirrorTypeOK
  <2>2. disk' = disk /\ work' = disk
    BY <1>2 DEF CutPass, RolledBack
  <2>3. disk'.mark["m5"] <= work'.mark["m5"]
    BY <1>0, <2>2
  <2> QED BY <1>0, <1>2, <2>1, <2>3 DEF CutPass, RolledBack, MirrorInv, SoundCopy, NoHole, MarksReached,
                                  BarsEnded, RowsMarked
<1>3. CASE FailPass
  <2>1. /\ disk'.m5 = disk.m5 /\ disk'.bars = disk.bars /\ disk'.keys = disk.keys
        /\ disk'.mark["m5"] = 0 /\ disk'.mark["keys"] = disk.mark["keys"]
        /\ disk' \in Copies /\ work' = disk'
    BY <1>0, <1>3 DEF FailPass, RolledBack, Copies
  <2>2. /\ UNCHANGED <<rows, rowKeys, latecomers, lateKeys, seams, passes, lates>> /\ broken' = TRUE
        /\ pass' = "none"
    BY <1>3 DEF FailPass
  <2>3. MirrorTypeOK'
    BY <1>0, <2>1, <2>2 DEF MirrorTypeOK
  <2>4. ASSUME NEW r \in PresentRows(rows) \ latecomers, r <= 0 PROVE FALSE
    BY <2>4 DEF PresentRows, TableRows
  <2>5. SoundCopy(disk)'
    <3>1. NoHole(disk)'
      BY <1>0, <2>1, <2>2, <2>4 DEF SoundCopy, NoHole
    <3>2. MarksReached(disk)' /\ RowsMarked(disk)'
      BY <1>0, <2>1, <2>2 DEF SoundCopy, MarksReached, RowsMarked
    <3>3. BarsEnded(disk)'
      BY <1>0, <2>1, <2>2 DEF SoundCopy, BarsEnded
    <3> QED BY <3>1, <3>2, <3>3 DEF SoundCopy
  <2>6. SoundCopy(work)'
    BY <2>1, <2>5 DEF SoundCopy, NoHole, MarksReached, BarsEnded, RowsMarked
  <2>7. disk'.mark["m5"] <= work'.mark["m5"]
    BY <2>1
  <2> QED BY <2>3, <2>5, <2>6, <2>7 DEF MirrorInv
<1> QED BY <1>1, <1>2, <1>3

LEMMA MirrorInvStep == MirrorInv /\ [MirrorNext]_mirrorVars => MirrorInv'
<1> SUFFICES ASSUME MirrorInv, [MirrorNext]_mirrorVars PROVE MirrorInv'
  OBVIOUS
<1>1. CASE UNCHANGED mirrorVars
  BY <1>1 DEF mirrorVars, histories, MirrorInv, MirrorTypeOK, SoundCopy, NoHole, MarksReached, BarsEnded,
              RowsMarked
<1> QED BY <1>1, ProductionKeeps, SyncM5Keeps, SyncBarsKeeps, SyncKeysKeeps, PassEndsKeep
           DEF MirrorNext

LEMMA MirrorInvariant == MirrorSpec => []MirrorInv
<1>1. MirrorInit => MirrorInv
  BY MirrorInvInit
<1>2. MirrorInv /\ [MirrorNext]_mirrorVars => MirrorInv'
  BY MirrorInvStep
<1> QED BY <1>1, <1>2, PTL DEF MirrorSpec

\* The keys of a pass in progress are those that are committed; the watermark is the slot of
\* a key that is copied, at which a pass has ended; and below it, none is missing.
CopiedOrCut(k) == k[1] <= disk.mark["keys"] => k \in disk.keys \/ CutOff(k)
KeysInv ==
    /\ work.keys = disk.keys /\ work.mark["keys"] = disk.mark["keys"]
    /\ disk.keys \subseteq rowKeys
    /\ disk.mark["keys"] # 0 =>
          /\ disk.mark["keys"] \in seams
          /\ \E k \in disk.keys : k[1] = disk.mark["keys"]
    /\ \A k \in rowKeys \ lateKeys : CopiedOrCut(k)

LEMMA KeysInvInit == MirrorInit => KeysInv
  BY DEF MirrorInit, EmptyCopy, KeysInv

\* A key of the slot of the watermark that is not copied is of another set than the one that
\* is.
LEMMA WriteKeysKeeps ==
    ASSUME MirrorTypeOK, KeysInv, NEW p \in ParamSets, WriteKeys(p) PROVE KeysInv'
<1>1. /\ UNCHANGED <<disk, work, seams>>
      /\ rowKeys \subseteq rowKeys' /\ lateKeys \subseteq lateKeys'
      /\ \A k \in rowKeys' \ rowKeys : k \in MarketKeys /\ (k[1] < work.mark["keys"] => k \in lateKeys')
  BY DEF WriteKeys, MarketKeys
<1>2. /\ disk.mark["keys"] \in Nat /\ work.mark["keys"] = disk.mark["keys"]
      /\ \A k \in MarketKeys : k[1] \in Nat \ {0} /\ k[2] \in ParamSets /\ k = <<k[1], k[2]>>
      /\ disk.keys \subseteq rowKeys /\ disk.keys \subseteq MarketKeys
  BY DEF MirrorTypeOK, Copies, KeysInv, MarketKeys, TableRows
<1>3. ASSUME NEW k \in rowKeys' \ lateKeys', k[1] <= disk.mark["keys"]
      PROVE  k \in disk.keys \/ CutOff(k)
  <2>1. CASE k \in rowKeys
    BY <1>1, <1>3, <2>1 DEF KeysInv, CopiedOrCut
  <2>2. CASE k \notin rowKeys
    <3>1. k \in MarketKeys /\ k[1] = disk.mark["keys"] /\ disk.mark["keys"] # 0
      BY <1>1, <1>2, <1>3, <2>2
    <3>2. PICK q \in disk.keys : q[1] = k[1]
      BY <3>1 DEF KeysInv
    <3>3. q # k /\ q \in MarketKeys
      BY <1>2, <2>2, <3>2
    <3>4. q[2] # k[2] /\ q[2] \in ParamSets /\ q = <<k[1], q[2]>>
      BY <1>2, <3>1, <3>2, <3>3
    <3>5. k[1] \in seams
      BY <3>1 DEF KeysInv
    <3> QED BY <3>4, <3>5 DEF CutOff
  <2> QED BY <2>1, <2>2
<1>4. \A k \in rowKeys' \ lateKeys' : CopiedOrCut(k)'
  BY <1>1, <1>3 DEF CopiedOrCut, CutOff
<1> QED BY <1>1, <1>4 DEF KeysInv

LEMMA KeysMirrored == ASSUME MirrorTypeOK, KeysInv, SyncKeys PROVE KeysInv'
<1>1. disk' = work' /\ UNCHANGED <<rowKeys, lateKeys>>
  BY DEF SyncKeys
<1>2. CASE UNCHANGED <<work, seams>>
  <2>1. disk'.keys = disk.keys /\ disk'.mark["keys"] = disk.mark["keys"] /\ seams' = seams
    BY <1>1, <1>2 DEF KeysInv
  <2> QED BY <1>1, <2>1 DEF KeysInv, CopiedOrCut, CutOff
<1>3. ASSUME NEW batch \in SUBSET MarketKeys, NEW last \in TableRows, SyncsKeys(batch, last)
      PROVE  KeysInv'
  <2>1. disk'.keys = disk.keys \cup batch /\ disk'.mark["keys"] = last
    BY <1>1, <1>3, KeysCopied DEF KeysInv
  <2>2. /\ batch \subseteq rowKeys /\ seams' = seams \cup {last}
    BY <1>3 DEF SyncsKeys
  <2>3. PICK b \in batch : b[1] = last
    BY <1>3 DEF SyncsKeys
  <2>4. ASSUME NEW k \in rowKeys \ lateKeys, k[1] <= last, k \notin disk'.keys PROVE CutOff(k)'
    <3>1. /\ k \in MarketKeys /\ b \in MarketKeys
          /\ k[1] \in Nat /\ last \in Nat /\ disk.mark["keys"] \in Nat
          /\ \A x \in MarketKeys : x = <<x[1], x[2]>> /\ x[2] \in ParamSets
      BY DEF MirrorTypeOK, MarketKeys, TableRows, Copies
    <3>2. CASE k[1] <= disk.mark["keys"]
      <4>1. CutOff(k)
        BY <2>1, <2>4, <3>2 DEF KeysInv, CopiedOrCut
      <4> QED BY <2>1, <2>2, <4>1 DEF CutOff
    <3>3. CASE k[1] = last
      <4>1. b # k /\ b \in disk'.keys
        BY <2>1, <2>4
      <4>2. b[2] # k[2] /\ b[2] \in ParamSets /\ b = <<k[1], b[2]>>
        BY <2>3, <3>1, <3>3, <4>1
      <4> QED BY <2>2, <3>3, <4>1, <4>2 DEF CutOff
    <3>4. CASE disk.mark["keys"] < k[1] /\ k[1] < last
      <4>1. k \in batch
        BY <1>3, <3>4 DEF SyncsKeys, KeysInv
      <4> QED BY <2>1, <2>4, <4>1
    <3> QED BY <2>4, <3>1, <3>2, <3>3, <3>4
  <2>5. \A k \in rowKeys' \ lateKeys' : CopiedOrCut(k)'
    BY <1>1, <2>1, <2>4 DEF CopiedOrCut
  <2> QED BY <1>1, <2>1, <2>2, <2>3, <2>5 DEF KeysInv
<1> QED BY <1>2, <1>3, SyncKeysDoes

LEMMA KeysInvStep == MirrorTypeOK /\ KeysInv /\ [MirrorNext]_mirrorVars => KeysInv'
<1> SUFFICES ASSUME MirrorTypeOK, KeysInv, [MirrorNext]_mirrorVars PROVE KeysInv'
  OBVIOUS
<1> USE DEF histories
<1>1. ASSUME UNCHANGED <<rowKeys, lateKeys, seams>>,
             disk'.keys = disk.keys, disk'.mark["keys"] = disk.mark["keys"],
             work'.keys = disk.keys, work'.mark["keys"] = disk.mark["keys"]
      PROVE  KeysInv'
  BY <1>1 DEF KeysInv, CopiedOrCut, CutOff
<1>2. /\ work \in Copies /\ disk \in Copies
      /\ work.keys = disk.keys /\ work.mark["keys"] = disk.mark["keys"]
  BY DEF MirrorTypeOK, KeysInv
<1>3. CASE UNCHANGED mirrorVars
  BY <1>1, <1>2, <1>3 DEF mirrorVars
<1>4. CASE \/ \E r \in TableRows : \E form \in {"half", "whole"} : AppendRow(r, form)
           \/ \E r \in TableRows : Finish(r)
           \/ \E r \in TableRows : \E form \in {"whole", "null"} : WriteLate(r, form)
  BY <1>1, <1>2, <1>4 DEF AppendRow, Finish, WriteLate
<1>5. CASE BeginPass
  BY <1>1, <1>2, <1>5 DEF BeginPass
<1>6. CASE SyncM5
  <2>1. work'.keys = work.keys /\ work'.mark["keys"] = work.mark["keys"]
    <3>1. \A f, n : LET w == [work EXCEPT !.m5 = f, !.mark["m5"] = n]
                   IN w.keys = work.keys /\ w.mark["keys"] = work.mark["keys"]
      BY <1>2 DEF Copies
    <3> QED BY <1>6, <3>1 DEF SyncM5
  <2> QED BY <1>1, <1>2, <1>6, <2>1 DEF SyncM5
<1>7. CASE SyncBars
  <2>1. work'.keys = work.keys /\ work'.mark["keys"] = work.mark["keys"]
    <3>1. \A f, n : LET w == [work EXCEPT !.bars = f, !.mark["bars"] = n]
                   IN w.keys = work.keys /\ w.mark["keys"] = work.mark["keys"]
      BY <1>2 DEF Copies
    <3> QED BY <1>7, <3>1 DEF SyncBars
  <2> QED BY <1>1, <1>2, <1>7, <2>1 DEF SyncBars
<1>8. CASE FailPass
  <2>1. disk'.keys = disk.keys /\ disk'.mark["keys"] = disk.mark["keys"] /\ work' = disk'
    BY <1>2, <1>8 DEF FailPass, RolledBack, Copies
  <2> QED BY <1>1, <1>8, <2>1 DEF FailPass
<1>9. CASE CutPass
  BY <1>1, <1>2, <1>9 DEF CutPass, RolledBack
<1> QED BY <1>3, <1>4, <1>5, <1>6, <1>7, <1>8, <1>9, WriteKeysKeeps, KeysMirrored DEF MirrorNext

\* For any batch and any number of rows, parameter sets, passes, failures and restarts: what
\* production has up to a watermark is in the reporting database, but for what was written
\* late and the keys of other sets at a slot where a pass has ended.
THEOREM MirrorHasNoHoles == MirrorSpec => []NothingSkipped
<1>1. MirrorInit => KeysInv
  BY KeysInvInit
<1>2. MirrorInv /\ KeysInv /\ [MirrorNext]_mirrorVars => KeysInv'
  BY KeysInvStep DEF MirrorInv
<1>3. MirrorInv /\ KeysInv => NothingSkipped
  BY DEF MirrorInv, SoundCopy, NoHole, KeysInv, CopiedOrCut, NothingSkipped
<1> QED BY <1>1, <1>2, <1>3, MirrorInvariant, PTL DEF MirrorSpec

\* For any length of bars and any batch, too: no bar is there before its end is, and it is
\* what its copied rows make it unless a pass has failed.
THEOREM BarsAreOfTheirRows == MirrorSpec => []BarsFollowRows
<1>1. MirrorInv => BarsFollowRows
  <2> SUFFICES ASSUME MirrorInv, NEW b \in Buckets, disk.bars[b] # {}
               PROVE  /\ b * BarRows <= Latest(PresentRows(disk.m5))
                      /\ ~broken => disk.bars[b] = Bar(disk.m5, b)
    BY DEF BarsFollowRows
  <2>1. PICK q \in PresentRows(disk.m5) : b * BarRows <= q
    BY DEF MirrorInv, SoundCopy, BarsEnded
  <2>2. PresentRows(disk.m5) \in SUBSET TableRows
    BY DEF PresentRows
  <2>3. q <= Latest(PresentRows(disk.m5)) /\ Latest(PresentRows(disk.m5)) \in TableRows
    BY <2>2, LatestOf
  <2>4. b * BarRows \in Nat /\ q \in TableRows
    BY <2>2, ReportingMirrorAssumption DEF Buckets
  <2>5. b * BarRows <= Latest(PresentRows(disk.m5))
    BY <2>1, <2>3, <2>4 DEF TableRows
  <2> QED BY <2>5 DEF MirrorInv, SoundCopy, BarsEnded
<1> QED BY <1>1, MirrorInvariant, PTL
=============================================================================
