--------------------------- MODULE EventBusProofs ---------------------------
(***************************************************************************)
(* Proofs about EventBus for every set of members, event types, requests   *)
(* and saves, any capacity of the queues and any load.                     *)
(***************************************************************************)
EXTENDS EventBus, RoutingStoreProofs

-----------------------------------------------------------------------------
(* The rules of both owners.                                               *)

\* The bus touches the rules only to reload them.
LEMMA BusReloadsOnly == [Next]_vars => StoreNext \/ UNCHANGED storeVars
BY DEF Next, BusNext, StoreStep, vars, PublishEvent, PublishReload, Ask, GiveUp, Reply,
       Dispatch, DispatchReload, Resolve, Direct, Route, Take, Unregister, Register,
       StoreNext

LEMMA StoreInvariant == Spec => []StoreInv
<1>1. Init => StoreInv
  BY StoreInitially DEF Init
<1>2. StoreInv /\ [Next]_vars => StoreInv'
  BY StoreKept, BusReloadsOnly
<1>3. QED
  BY <1>1, <1>2, PTL DEF Spec

\* Whatever the rule designer and the notification service save, in whatever order
\* their saves overlap and whichever of them fail: at rest the file and the table
\* hold the latest rules of both.
THEOREM RulesAgree == Spec => []RoutingAgrees
<1>1. StoreInv => RoutingAgrees
  <2> SUFFICES ASSUME StoreInv, line = <<>> PROVE RoutingAgrees
    BY DEF RoutingAgrees
  <2>1. \A s \in Saves : save[s].pc # "written"
    BY DEF StoreInv, Queued
  <2>2. \A o \in Owners : Part(file, o) = Latest(o) \/ o \in unsaved
    BY DEF StoreInv, Newest
  <2>3. QED
    BY <2>1, <2>2 DEF StoreInv, Reloaded, RoutingAgrees, Part, Latest, Owners
<1>2. QED
  BY <1>1, StoreInvariant, PTL

-----------------------------------------------------------------------------
(* Messages and calls.                                                     *)

Elems(seq) == {seq[i] : i \in 1..Len(seq)}
Sorted(seq) == \A i, j \in 1..Len(seq) : i < j => seq[i].n < seq[j].n

\* Numbers grow from what a member has taken, over what it has in its queue, to what
\* is still to be dispatched.
Ordered ==
    /\ Sorted(inbound)
    /\ \A m \in Elems(inbound) : m.n <= number
    /\ \A x \in Members :
          /\ Sorted(queue[x])
          /\ taken[x] <= number
          /\ \A m \in Elems(inbound) : taken[x] < m.n
          /\ \A q \in Elems(queue[x]) :
                /\ taken[x] < q.n
                /\ q.n <= number
                /\ \A m \in Elems(inbound) : q.n < m.n

\* Where a message about a request is, and what the request has come to meanwhile.
Placed ==
    /\ \A r \in Requests :
          /\ call[r] = "unused" => work[r] = "none" /\ r \notin lost
          /\ call[r] # "unused" => post[r].from \in Agents /\ post[r].to \in Servers
          /\ r \in lost => work[r] = "none"
          /\ call[r] = "answered" => work[r] = "answered"
          /\ work[r] # "silent"
    /\ \A m \in Elems(inbound) :
          /\ m.kind = "request" => /\ work[m.about] = "none" /\ m.about \notin lost
                                   /\ call[m.about] # "unused"
                                   /\ m.to = post[m.about].to
          /\ m.kind = "answer" => /\ work[m.about] = "answered"
                                  /\ call[m.about] \in {"waiting", "expired"}
                                  /\ m.to = post[m.about].from
    /\ \A x \in Members :
          /\ \A q \in Elems(queue[x]) :
                /\ q.kind = "request" => work[q.about] = "queued" /\ x = post[q.about].to
                /\ q.kind = "answer" => call[q.about] = "expired" /\ x = post[q.about].from
          /\ \A r \in serving[x] : work[r] = "running" /\ x = post[r].to

\* There is one message about a request at a time.
Single ==
    /\ \A m, q \in Elems(inbound) : m.about = q.about /\ m.about # None => m = q
    /\ \A x \in Members : \A m, q \in Elems(queue[x]) :
          m.kind = "request" /\ q.kind = "request" /\ m.about = q.about => m = q

\* Who waits for a request can point to it, or it was lost.
Backed ==
    \A r \in Requests : call[r] = "waiting" =>
        /\ work[r] = "none" => r \in lost \/ \E m \in Elems(inbound) : m.about = r
        /\ work[r] = "queued" => \E q \in Elems(queue[post[r].to]) :
                                    q.kind = "request" /\ q.about = r
        /\ work[r] = "running" => r \in serving[post[r].to]
        /\ work[r] = "answered" => \E m \in Elems(inbound) : m.about = r

\* An agent waits for one call at a time.
OneWait ==
    \A r, q \in Requests : /\ call[r] = "waiting" /\ call[q] = "waiting"
                           /\ post[r].from = post[q].from
                           => r = q

BusInv == TypeOK /\ Ordered /\ Placed /\ Single /\ Backed /\ OneWait

-----------------------------------------------------------------------------
(* Sequences of messages.                                                  *)

LEMMA ElemsOfAppend ==
    ASSUME NEW S, NEW seq \in Seq(S), NEW e \in S
    PROVE  /\ Append(seq, e) \in Seq(S)
           /\ Len(Append(seq, e)) = Len(seq) + 1
           /\ Elems(Append(seq, e)) = Elems(seq) \cup {e}
<1>1. PICK n \in Nat : Len(seq) = n
  OBVIOUS
<1>2. /\ Len(Append(seq, e)) = n + 1
      /\ Append(seq, e)[n + 1] = e
      /\ \A i \in 1..n : Append(seq, e)[i] = seq[i]
  BY <1>1
<1>3. 1..(n + 1) = 1..n \cup {n + 1}
  OBVIOUS
<1>4. Elems(Append(seq, e)) = Elems(seq) \cup {e}
  <2>1. ASSUME NEW x \in Elems(Append(seq, e)) PROVE x \in Elems(seq) \cup {e}
    BY <1>1, <1>2, <1>3 DEF Elems
  <2>2. ASSUME NEW x \in Elems(seq) PROVE x \in Elems(Append(seq, e))
    BY <1>1, <1>2, <1>3 DEF Elems
  <2>3. e \in Elems(Append(seq, e))
    BY <1>1, <1>2, <1>3 DEF Elems
  <2>4. QED
    BY <2>1, <2>2, <2>3
<1>5. QED
  BY <1>1, <1>2, <1>4

LEMMA ElemsOfTail ==
    ASSUME NEW S, NEW seq \in Seq(S), seq # <<>>
    PROVE  /\ Tail(seq) \in Seq(S)
           /\ Len(Tail(seq)) <= Len(seq)
           /\ Head(seq) \in S
           /\ Elems(seq) = {Head(seq)} \cup Elems(Tail(seq))
<1>1. PICK n \in Nat : Len(seq) = n + 1
  <2>1. Len(seq) \in Nat \ {0} /\ Len(seq) - 1 \in Nat
    OBVIOUS
  <2>2. QED
    BY <2>1
<1>2. /\ Tail(seq) \in Seq(S) /\ Len(Tail(seq)) = n
      /\ \A i \in 1..n : Tail(seq)[i] = seq[i + 1]
      /\ Head(seq) = seq[1] /\ Head(seq) \in S
  BY <1>1
<1>3. ASSUME NEW x \in Elems(seq) PROVE x \in {Head(seq)} \cup Elems(Tail(seq))
  <2>1. PICK i \in 1..(n + 1) : seq[i] = x
    BY <1>1 DEF Elems
  <2>2. CASE i = 1
    BY <1>2, <2>1, <2>2
  <2>3. CASE i # 1
    <3>1. i - 1 \in 1..n /\ (i - 1) + 1 = i
      BY <2>3
    <3>2. Tail(seq)[i - 1] = x
      BY <1>2, <2>1, <3>1
    <3>3. QED
      BY <1>2, <3>1, <3>2 DEF Elems
  <2>4. QED
    BY <2>2, <2>3
<1>4. ASSUME NEW x \in Elems(Tail(seq)) PROVE x \in Elems(seq)
  <2>1. PICK i \in 1..n : Tail(seq)[i] = x
    BY <1>2 DEF Elems
  <2>2. i + 1 \in 1..Len(seq) /\ seq[i + 1] = x
    BY <1>1, <1>2, <2>1
  <2>3. QED
    BY <2>2 DEF Elems
<1>5. Head(seq) \in Elems(seq)
  BY <1>1, <1>2 DEF Elems
<1>6. QED
  BY <1>1, <1>2, <1>3, <1>4, <1>5

LEMMA ElemsTyped ==
    ASSUME NEW S, NEW seq \in Seq(S) PROVE Elems(seq) \subseteq S
BY DEF Elems

LEMMA ElemsOfNone == Elems(<<>>) = {} /\ Sorted(<<>>)
BY DEF Elems, Sorted

\* A younger message at the end keeps a sequence sorted.
LEMMA SortedAppend ==
    ASSUME NEW seq \in Seq(Message), NEW e \in Message, Sorted(seq),
           \A m \in Elems(seq) : m.n < e.n
    PROVE  Sorted(Append(seq, e))
<1>1. PICK n \in Nat : Len(seq) = n
  OBVIOUS
<1>2. /\ Len(Append(seq, e)) = n + 1
      /\ Append(seq, e)[n + 1] = e
      /\ \A i \in 1..n : Append(seq, e)[i] = seq[i]
  BY <1>1
<1>3. SUFFICES ASSUME NEW i \in 1..(n + 1), NEW j \in 1..(n + 1), i < j
               PROVE  Append(seq, e)[i].n < Append(seq, e)[j].n
  BY <1>2 DEF Sorted
<1>4. i \in 1..n
  BY <1>3
<1>5. CASE j = n + 1
  <2>1. seq[i] \in Elems(seq)
    BY <1>1, <1>4 DEF Elems
  <2>2. QED
    BY <1>2, <1>4, <1>5, <2>1
<1>6. CASE j \in 1..n
  BY <1>1, <1>2, <1>3, <1>4, <1>6 DEF Sorted
<1>7. j = n + 1 \/ j \in 1..n
  OBVIOUS
<1>8. QED
  BY <1>5, <1>6, <1>7

\* The head of a sorted sequence is older than the rest, which is sorted too.
LEMMA SortedTail ==
    ASSUME NEW seq \in Seq(Message), seq # <<>>, Sorted(seq)
    PROVE  /\ Sorted(Tail(seq))
           /\ \A m \in Elems(Tail(seq)) : Head(seq).n < m.n
           /\ Head(seq) \notin Elems(Tail(seq))
<1>1. PICK n \in Nat : Len(seq) = n + 1
  <2>1. Len(seq) \in Nat \ {0} /\ Len(seq) - 1 \in Nat
    OBVIOUS
  <2>2. QED
    BY <2>1
<1>2. /\ Len(Tail(seq)) = n
      /\ \A i \in 1..n : Tail(seq)[i] = seq[i + 1]
      /\ Head(seq) = seq[1]
  BY <1>1
<1>3. Sorted(Tail(seq))
  <2> SUFFICES ASSUME NEW i \in 1..n, NEW j \in 1..n, i < j
               PROVE  seq[i + 1].n < seq[j + 1].n
    BY <1>2 DEF Sorted
  <2>1. i + 1 \in 1..Len(seq) /\ j + 1 \in 1..Len(seq) /\ i + 1 < j + 1
    BY <1>1
  <2>2. QED
    BY <2>1 DEF Sorted
<1>4. ASSUME NEW m \in Elems(Tail(seq)) PROVE Head(seq).n < m.n
  <2>1. PICK i \in 1..n : m = seq[i + 1]
    BY <1>2 DEF Elems
  <2>2. 1 \in 1..Len(seq) /\ i + 1 \in 1..Len(seq) /\ 1 < i + 1
    BY <1>1
  <2>3. QED
    BY <1>2, <2>1, <2>2 DEF Sorted
<1>5. Head(seq) \notin Elems(Tail(seq))
  <2>1. Head(seq).n \in Nat
    BY ElemsOfTail DEF Message
  <2>2. QED
    BY <1>4, <2>1
<1>6. QED
  BY <1>3, <1>4, <1>5

-----------------------------------------------------------------------------
(* What the actions do to the queues.                                      *)

LEMMA BusInitially == Init => BusInv
<1> SUFFICES ASSUME Init PROVE BusInv
  OBVIOUS
<1>1. TypeOK
  <2>1. StoreTypeOK
    BY StoreInitially DEF Init, StoreInv
  <2>2. Notifier \in Members
    BY RoutingStoreAssumption
  <2>3. QED
    BY <2>1, <2>2, EventBusAssumption DEF Init, TypeOK
<1>2. Elems(inbound) = {} /\ \A x \in Members : Elems(queue[x]) = {}
  BY ElemsOfNone DEF Init
<1>3. Ordered
  BY <1>2, ElemsOfNone DEF Init, Ordered
<1>4. Placed /\ Single /\ Backed /\ OneWait
  BY <1>2 DEF Init, Placed, Single, Backed, OneWait
<1>5. QED
  BY <1>1, <1>3, <1>4 DEF BusInv

\* A message is published: it is the youngest.
LEMMA Published ==
    ASSUME BusInv, NEW m \in Message, m.n = number + 1,
           inbound' = Append(inbound, m), number' = number + 1,
           UNCHANGED <<queue, taken>>
    PROVE  /\ inbound' \in Seq(Message) /\ number' \in Nat
           /\ Elems(inbound') = Elems(inbound) \cup {m}
           /\ \A x \in Members : Elems(queue'[x]) = Elems(queue[x])
           /\ Ordered'
<1>1. inbound' \in Seq(Message) /\ Elems(inbound') = Elems(inbound) \cup {m}
  BY ElemsOfAppend DEF BusInv, TypeOK
<1>2. number \in Nat /\ \A q \in Elems(inbound) : q \in Message /\ q.n \in Nat
  BY ElemsTyped DEF BusInv, TypeOK, Message
<1>3. \A x \in Members : /\ taken[x] \in Nat
                         /\ \A q \in Elems(queue[x]) : q.n \in Nat
  <2> SUFFICES ASSUME NEW x \in Members
               PROVE  taken[x] \in Nat /\ \A q \in Elems(queue[x]) : q.n \in Nat
    OBVIOUS
  <2>1. taken[x] \in Nat /\ queue[x] \in Seq(Message)
    BY DEF BusInv, TypeOK
  <2>2. Elems(queue[x]) \subseteq Message
    BY <2>1, ElemsTyped
  <2>3. QED
    BY <2>1, <2>2 DEF Message
<1>4. Sorted(inbound')
  <2>1. \A q \in Elems(inbound) : q.n < m.n
    BY <1>2 DEF BusInv, Ordered
  <2>2. QED
    BY <2>1, SortedAppend DEF BusInv, TypeOK, Ordered
<1>5. \A q \in Elems(inbound') : q.n <= number'
  BY <1>1, <1>2 DEF BusInv, Ordered
<1>6. ASSUME NEW x \in Members
      PROVE  /\ taken[x] <= number'
             /\ \A q \in Elems(inbound') : taken[x] < q.n
             /\ \A q \in Elems(queue[x]) : /\ q.n <= number'
                                          /\ \A p \in Elems(inbound') : q.n < p.n
  BY <1>1, <1>2, <1>3 DEF BusInv, Ordered
<1>7. Ordered'
  BY <1>4, <1>5, <1>6 DEF BusInv, Ordered
<1>8. QED
  BY <1>1, <1>2, <1>7

\* The oldest message is dispatched, into some queues with room for it.
LEMMA Dispatched ==
    ASSUME BusInv, NEW m, Dispatching(m), UNCHANGED <<number, taken>>,
           queue' \in [Members -> Seq(Message)],
           \A x \in Members : \/ queue'[x] = queue[x]
                              \/ queue'[x] = Append(queue[x], m)
    PROVE  /\ m \in Message /\ inbound' \in Seq(Message)
           /\ m \in Elems(inbound) /\ m \notin Elems(inbound')
           /\ Elems(inbound) = Elems(inbound') \cup {m}
           /\ \A x \in Members : /\ queue'[x] = queue[x]
                                   => Elems(queue'[x]) = Elems(queue[x])
                                /\ queue'[x] = Append(queue[x], m)
                                   => Elems(queue'[x]) = Elems(queue[x]) \cup {m}
           /\ Ordered'
<1>1. inbound \in Seq(Message) /\ inbound # <<>> /\ m = Head(inbound)
      /\ inbound' = Tail(inbound) /\ Sorted(inbound)
  BY DEF Dispatching, BusInv, TypeOK, Ordered
<1>2. /\ m \in Message /\ inbound' \in Seq(Message)
      /\ Elems(inbound) = Elems(inbound') \cup {m}
      /\ m \in Elems(inbound)
  BY <1>1, ElemsOfTail
<1>3. /\ m \notin Elems(inbound') /\ Sorted(inbound')
      /\ \A q \in Elems(inbound') : m.n < q.n
  BY <1>1, SortedTail
<1>4. \A x \in Members : queue[x] \in Seq(Message) /\ taken[x] \in Nat
  BY DEF BusInv, TypeOK
<1>5. ASSUME NEW x \in Members, queue'[x] = Append(queue[x], m)
      PROVE  Elems(queue'[x]) = Elems(queue[x]) \cup {m}
  BY <1>2, <1>4, <1>5, ElemsOfAppend
<1>6. ASSUME NEW x \in Members
      PROVE  /\ Sorted(queue'[x])
             /\ \A q \in Elems(queue'[x]) : /\ taken[x] < q.n
                                           /\ q.n <= number
                                           /\ \A p \in Elems(inbound') : q.n < p.n
  <2>1. CASE queue'[x] = queue[x]
    BY <1>2, <2>1 DEF BusInv, Ordered
  <2>2. CASE queue'[x] = Append(queue[x], m)
    <3>1. Sorted(queue'[x])
      BY <1>2, <1>4, <2>2, SortedAppend DEF BusInv, Ordered
    <3>2. taken[x] < m.n /\ m.n <= number
      BY <1>2 DEF BusInv, Ordered
    <3>3. Elems(queue'[x]) = Elems(queue[x]) \cup {m}
      BY <1>5, <2>2
    <3>4. \A q \in Elems(queue[x]) : /\ taken[x] < q.n
                                    /\ q.n <= number
                                    /\ \A p \in Elems(inbound') : q.n < p.n
      BY <1>2 DEF BusInv, Ordered
    <3>5. QED
      BY <1>3, <3>1, <3>2, <3>3, <3>4
  <2>3. QED
    BY <2>1, <2>2
<1>7. \A x \in Members : /\ taken[x] <= number
                         /\ \A p \in Elems(inbound') : taken[x] < p.n
  BY <1>2 DEF BusInv, Ordered
<1>8. \A p \in Elems(inbound') : p.n <= number
  BY <1>2 DEF BusInv, Ordered
<1>9. Ordered'
  BY <1>3, <1>6, <1>7, <1>8 DEF Ordered
<1>10. QED
  BY <1>2, <1>3, <1>5, <1>9

-----------------------------------------------------------------------------
(* Every action keeps the invariant.                                       *)

LEMMA MessagesTyped ==
    ASSUME BusInv
    PROVE  /\ Elems(inbound) \subseteq Message
           /\ \A x \in Members : Elems(queue[x]) \subseteq Message
           /\ Agents \subseteq Members /\ Servers \subseteq Members
           /\ None \notin Members /\ None \notin Requests
<1>1. Elems(inbound) \subseteq Message
  BY ElemsTyped DEF BusInv, TypeOK
<1>2. ASSUME NEW x \in Members PROVE Elems(queue[x]) \subseteq Message
  <2>1. queue[x] \in Seq(Message)
    BY DEF BusInv, TypeOK
  <2>2. QED
    BY <2>1, ElemsTyped
<1>3. QED
  BY <1>1, <1>2, EventBusAssumption

LEMMA AskKept ==
    ASSUME BusInv, StoreTypeOK', NEW r \in Requests, NEW a \in Agents, NEW s \in Servers,
           Ask(r, a, s)
    PROVE  BusInv'
<1> DEFINE m == [n |-> number + 1, kind |-> "request", topic |-> None, to |-> s,
                 about |-> r]
<1>1. m \in Message
  BY MessagesTyped DEF Message, BusInv, TypeOK
<1>2. /\ inbound' = Append(inbound, m) /\ number' = number + 1
      /\ UNCHANGED <<registered, queue, serving, work, taken, lost>>
      /\ call[r] = "unused"
  BY DEF Ask, Publish
<1>3. /\ call' \in [Requests -> {"unused", "waiting", "answered", "expired"}]
      /\ call'[r] = "waiting"
      /\ \A q \in Requests : q # r => call'[q] = call[q]
  BY DEF Ask, BusInv, TypeOK
<1>4. /\ post' \in [Requests -> [from: Members, to: Members]]
      /\ post'[r].from = a /\ post'[r].to = s
      /\ \A q \in Requests : q # r => post'[q] = post[q]
  BY MessagesTyped DEF Ask, BusInv, TypeOK
<1>5. m.n = number + 1 /\ m.kind = "request" /\ m.to = s /\ m.about = r
  OBVIOUS
<1> HIDE DEF m
<1>6. /\ inbound' \in Seq(Message) /\ number' \in Nat
      /\ Elems(inbound') = Elems(inbound) \cup {m}
      /\ \A x \in Members : Elems(queue'[x]) = Elems(queue[x])
      /\ Ordered'
  BY <1>1, <1>2, <1>5, Published
<1>7. TypeOK'
  BY <1>2, <1>3, <1>4, <1>6 DEF BusInv, TypeOK
<1>8. work[r] = "none" /\ r \notin lost
  BY <1>2 DEF BusInv, Placed
\* No message is about r yet.
<1>9. /\ \A q \in Elems(inbound) : q.about # r
      /\ \A x \in Members : \A q \in Elems(queue[x]) : q.about # r
  <2>1. \A q \in Message : q.about = r => q.kind \in {"request", "answer"}
    BY MessagesTyped DEF Message
  <2>2. QED
    BY <1>2, <1>8, <2>1, MessagesTyped DEF BusInv, Placed
<1>10. Placed'
  <2>1. ASSUME NEW q \in Requests
        PROVE  /\ call'[q] = "unused" => work[q] = "none" /\ q \notin lost
               /\ call'[q] # "unused" => post'[q].from \in Agents /\ post'[q].to \in Servers
               /\ q \in lost => work[q] = "none"
               /\ call'[q] = "answered" => work[q] = "answered"
               /\ work[q] # "silent"
    BY <1>3, <1>4, <1>8 DEF BusInv, Placed
  <2>2. ASSUME NEW q \in Elems(inbound')
        PROVE  /\ q.kind = "request" => /\ work[q.about] = "none" /\ q.about \notin lost
                                        /\ call'[q.about] # "unused"
                                        /\ q.to = post'[q.about].to
               /\ q.kind = "answer" => /\ work[q.about] = "answered"
                                       /\ call'[q.about] \in {"waiting", "expired"}
                                       /\ q.to = post'[q.about].from
    <3>1. CASE q = m
      BY <1>3, <1>4, <1>5, <1>8, <3>1
    <3>2. CASE q # m
      <4>1. q \in Elems(inbound) /\ q \in Message /\ q.about # r
        BY <1>6, <1>9, <3>2, MessagesTyped
      <4>2. q.kind \in {"request", "answer"} => q.about \in Requests
        BY <4>1 DEF Message
      <4>3. QED
        BY <1>3, <1>4, <4>1, <4>2 DEF BusInv, Placed
    <3>3. QED
      BY <3>1, <3>2
  <2>3. ASSUME NEW x \in Members, NEW q \in Elems(queue[x])
        PROVE  /\ q.kind = "request" => work[q.about] = "queued" /\ x = post'[q.about].to
               /\ q.kind = "answer" => call'[q.about] = "expired" /\ x = post'[q.about].from
    <3>1. q \in Message /\ q.about # r
      BY <1>9, MessagesTyped
    <3>2. q.kind \in {"request", "answer"} => q.about \in Requests
      BY <3>1 DEF Message
    <3>3. QED
      BY <1>3, <1>4, <3>1, <3>2 DEF BusInv, Placed
  <2>4. ASSUME NEW x \in Members, NEW q \in serving[x]
        PROVE  work[q] = "running" /\ x = post'[q].to
    <3>1. q \in Requests
      BY DEF BusInv, TypeOK
    <3>2. QED
      BY <1>4, <1>8, <3>1 DEF BusInv, Placed
  <2>5. QED
    BY <1>2, <1>6, <2>1, <2>2, <2>3, <2>4 DEF Placed
<1>11. Single'
  BY <1>5, <1>6, <1>9 DEF BusInv, Single
<1>12. Backed'
  <2> SUFFICES ASSUME NEW q \in Requests, call'[q] = "waiting"
               PROVE  /\ work[q] = "none" => \/ q \in lost
                                             \/ \E p \in Elems(inbound') : p.about = q
                      /\ work[q] = "queued" => \E p \in Elems(queue[post'[q].to]) :
                                                  p.kind = "request" /\ p.about = q
                      /\ work[q] = "running" => q \in serving[post'[q].to]
                      /\ work[q] = "answered" => \E p \in Elems(inbound') : p.about = q
    BY <1>2 DEF Backed
  <2>1. CASE q = r
    BY <1>5, <1>6, <1>8, <2>1
  <2>2. CASE q # r
    BY <1>3, <1>4, <1>6, <2>2 DEF BusInv, Backed
  <2>3. QED
    BY <2>1, <2>2
<1>13. OneWait'
  BY <1>3, <1>4 DEF Ask, BusInv, OneWait
<1>14. QED
  BY <1>6, <1>7, <1>10, <1>11, <1>12, <1>13 DEF BusInv

\* Events and wishes to reload are about no request.
LEMMA EventKept ==
    ASSUME BusInv, StoreTypeOK', PublishReload \/ \E topic \in Topics : PublishEvent(topic)
    PROVE  BusInv'
<1>1. PICK m \in Message : /\ m.n = number + 1 /\ m.about = None
                           /\ m.kind \notin {"request", "answer"}
                           /\ inbound' = Append(inbound, m)
  <2>1. ASSUME NEW kind \in {"event", "reload"}, NEW topic \in Topics \cup {None}
        PROVE  [n |-> number + 1, kind |-> kind, topic |-> topic, to |-> None,
                about |-> None] \in Message
    BY DEF Message, BusInv, TypeOK
  <2>2. QED
    BY <2>1 DEF PublishReload, PublishEvent, Publish
<1>2. /\ number' = number + 1
      /\ UNCHANGED <<registered, queue, call, post, serving, work, taken, lost>>
  BY DEF PublishReload, PublishEvent, Publish
<1>3. /\ inbound' \in Seq(Message) /\ number' \in Nat
      /\ Elems(inbound') = Elems(inbound) \cup {m}
      /\ Ordered'
  BY <1>1, <1>2, Published
<1>4. TypeOK'
  BY <1>2, <1>3 DEF BusInv, TypeOK
<1>5. Placed'
  BY <1>1, <1>2, <1>3 DEF BusInv, Placed
<1>6. Single'
  BY <1>1, <1>2, <1>3 DEF BusInv, Single
<1>7. Backed' /\ OneWait'
  BY <1>2, <1>3 DEF BusInv, Backed, OneWait
<1>8. QED
  BY <1>3, <1>4, <1>5, <1>6, <1>7 DEF BusInv

\* A call given up, an agent stopped or started, a step of the store: calls expire,
\* queues of agents vanish, nothing else happens on the bus.
LEMMA StopKept ==
    ASSUME BusInv, StoreTypeOK', registered' \in SUBSET Members,
           UNCHANGED <<inbound, post, serving, number, work, taken, lost>>,
           call' \in [Requests -> {"unused", "waiting", "answered", "expired"}],
           \A r \in Requests : \/ call'[r] = call[r]
                               \/ call[r] = "waiting" /\ call'[r] = "expired",
           queue' \in [Members -> Seq(Message)],
           \A x \in Members : queue'[x] = queue[x] \/ (x \in Agents /\ queue'[x] = <<>>)
    PROVE  BusInv'
<1>1. /\ \A x \in Members : Elems(queue'[x]) \subseteq Elems(queue[x]) /\ Sorted(queue'[x])
      /\ \A x \in Servers : x \in Members /\ queue'[x] = queue[x]
  BY ElemsOfNone, EventBusAssumption DEF BusInv, Ordered
<1>2. TypeOK'
  <2>1. \A x \in Members : Len(queue'[x]) <= Capacity
    <3> SUFFICES ASSUME NEW x \in Members PROVE Len(queue'[x]) <= Capacity
      OBVIOUS
    <3>1. CASE queue'[x] = queue[x]
      BY <3>1 DEF BusInv, TypeOK
    <3>2. CASE queue'[x] = <<>>
      BY <3>2, EventBusAssumption
    <3>3. QED
      BY <3>1, <3>2
  <2>2. QED
    BY <2>1 DEF BusInv, TypeOK
<1>3. Ordered'
  BY <1>1 DEF BusInv, Ordered
<1>4. Placed'
  <2>1. ASSUME NEW r \in Requests
        PROVE  /\ call'[r] = "unused" <=> call[r] = "unused"
               /\ call'[r] = "answered" <=> call[r] = "answered"
               /\ call[r] = "expired" => call'[r] = "expired"
               /\ call[r] \in {"waiting", "expired"} => call'[r] \in {"waiting", "expired"}
    OBVIOUS
  <2>2. \A q \in Message : q.kind \in {"request", "answer"} => q.about \in Requests
    BY DEF Message
  <2>3. \A x \in Members : Elems(queue'[x]) \subseteq Elems(queue[x])
    BY <1>1
  <2>4. ASSUME NEW q \in Elems(inbound)
        PROVE  /\ q.kind = "request" => /\ work[q.about] = "none" /\ q.about \notin lost
                                        /\ call'[q.about] # "unused"
                                        /\ q.to = post[q.about].to
               /\ q.kind = "answer" => /\ work[q.about] = "answered"
                                       /\ call'[q.about] \in {"waiting", "expired"}
                                       /\ q.to = post[q.about].from
    <3>1. q \in Message
      BY MessagesTyped
    <3>2. QED
      BY <2>1, <2>2, <3>1 DEF BusInv, Placed
  <2>5. ASSUME NEW x \in Members, NEW q \in Elems(queue'[x])
        PROVE  /\ q.kind = "request" => work[q.about] = "queued" /\ x = post[q.about].to
               /\ q.kind = "answer" => call'[q.about] = "expired" /\ x = post[q.about].from
    <3>1. q \in Message /\ q \in Elems(queue[x])
      BY <2>3, MessagesTyped
    <3>2. QED
      BY <2>1, <2>2, <3>1 DEF BusInv, Placed
  <2>6. QED
    BY <2>1, <2>4, <2>5 DEF BusInv, Placed
<1>5. Single'
  BY <1>1 DEF BusInv, Single
<1>6. Backed'
  <2> SUFFICES ASSUME NEW r \in Requests, call'[r] = "waiting"
               PROVE  /\ work[r] = "none" => \/ r \in lost
                                             \/ \E m \in Elems(inbound) : m.about = r
                      /\ work[r] = "queued" => \E q \in Elems(queue'[post[r].to]) :
                                                  q.kind = "request" /\ q.about = r
                      /\ work[r] = "running" => r \in serving[post[r].to]
                      /\ work[r] = "answered" => \E m \in Elems(inbound) : m.about = r
    BY DEF Backed
  <2>1. call[r] = "waiting" /\ post[r].to \in Servers
    BY DEF BusInv, Placed
  <2>2. QED
    BY <1>1, <2>1 DEF BusInv, Backed
<1>7. OneWait'
  BY DEF BusInv, OneWait
<1>8. QED
  BY <1>2, <1>3, <1>4, <1>5, <1>6, <1>7 DEF BusInv

LEMMA StopsKept ==
    ASSUME BusInv, StoreTypeOK',
           \/ \E r \in Requests : GiveUp(r)
           \/ \E a \in Agents : Unregister(a) \/ Register(a)
           \/ UNCHANGED busVars
    PROVE  BusInv'
<1> USE DEF busVars
<1>1. registered' \in SUBSET Members
  BY MessagesTyped DEF GiveUp, Unregister, Register, BusInv, TypeOK
<1>2. UNCHANGED <<inbound, post, serving, number, work, taken, lost>>
  BY DEF GiveUp, Unregister, Register
<1>3. /\ call' \in [Requests -> {"unused", "waiting", "answered", "expired"}]
      /\ \A r \in Requests : \/ call'[r] = call[r]
                             \/ call[r] = "waiting" /\ call'[r] = "expired"
  <2> DEFINE Goal == /\ call' \in [Requests -> {"unused", "waiting", "answered", "expired"}]
                     /\ \A r \in Requests : \/ call'[r] = call[r]
                                            \/ call[r] = "waiting" /\ call'[r] = "expired"
  <2>1. call \in [Requests -> {"unused", "waiting", "answered", "expired"}]
    BY DEF BusInv, TypeOK
  <2>2. ASSUME NEW r \in Requests, GiveUp(r) PROVE Goal
    BY <2>1, <2>2 DEF GiveUp
  <2>3. ASSUME NEW a \in Agents, Unregister(a) PROVE Goal
    BY <2>1, <2>3 DEF Unregister
  <2>4. ASSUME NEW a \in Agents, Register(a) PROVE Goal
    BY <2>1, <2>4 DEF Register
  <2>5. CASE UNCHANGED busVars
    BY <2>1, <2>5
  <2>6. QED
    BY <2>2, <2>3, <2>4, <2>5
<1>4. /\ queue' \in [Members -> Seq(Message)]
      /\ \A x \in Members : queue'[x] = queue[x] \/ (x \in Agents /\ queue'[x] = <<>>)
  <2>1. ASSUME NEW a \in Agents, Unregister(a)
        PROVE  /\ queue' \in [Members -> Seq(Message)]
               /\ \A x \in Members : queue'[x] = queue[x] \/ (x \in Agents /\ queue'[x] = <<>>)
    <3>1. <<>> \in Seq(Message) /\ a \in Members /\ queue' = [queue EXCEPT ![a] = <<>>]
      BY <2>1, MessagesTyped DEF Unregister
    <3>2. QED
      BY <3>1 DEF BusInv, TypeOK
  <2>2. QED
    BY <2>1 DEF GiveUp, Register, BusInv, TypeOK
<1>5. QED
  BY <1>1, <1>2, <1>3, <1>4, StopKept

LEMMA ReplyKept ==
    ASSUME BusInv, StoreTypeOK', NEW s \in Servers, NEW r \in Requests, Reply(s, r)
    PROVE  BusInv'
<1> DEFINE m == [n |-> number + 1, kind |-> "answer", topic |-> None,
                 to |-> post[r].from, about |-> r]
<1>1. m \in Message
  BY DEF Message, BusInv, TypeOK
<1>2. /\ inbound' = Append(inbound, m) /\ number' = number + 1
      /\ UNCHANGED <<registered, queue, call, post, taken, lost>>
  BY DEF Reply, Publish
<1>3. m.n = number + 1 /\ m.kind = "answer" /\ m.to = post[r].from /\ m.about = r
  OBVIOUS
<1> HIDE DEF m
<1>4. /\ inbound' \in Seq(Message) /\ number' \in Nat
      /\ Elems(inbound') = Elems(inbound) \cup {m}
      /\ Ordered'
  BY <1>1, <1>2, <1>3, Published
<1>5. s \in Members /\ r \in serving[s] /\ work[r] = "running" /\ s = post[r].to
  BY MessagesTyped DEF Reply, BusInv, Placed
<1>6. /\ work' \in [Requests -> {"none", "queued", "running", "answered", "silent"}]
      /\ work'[r] = "answered"
      /\ \A q \in Requests : q # r => work'[q] = work[q]
  BY DEF Reply, BusInv, TypeOK
<1>7. /\ serving' \in [Members -> SUBSET Requests]
      /\ \A x \in Members : serving'[x] = serving[x] \ {r}
  <2>1. \A x \in Members : x # s => r \notin serving[x]
    BY <1>5 DEF BusInv, Placed
  <2>2. serving' = [serving EXCEPT ![s] = @ \ {r}]
    BY DEF Reply
  <2>3. QED
    BY <1>5, <2>1, <2>2 DEF BusInv, TypeOK
<1>8. TypeOK'
  BY <1>2, <1>4, <1>6, <1>7 DEF BusInv, TypeOK
<1>9. /\ call[r] \in {"waiting", "expired"}
      /\ r \notin lost
  <2>1. call[r] \in {"unused", "waiting", "answered", "expired"}
    BY DEF BusInv, TypeOK
  <2>2. call[r] # "unused" /\ call[r] # "answered" /\ r \notin lost
    BY <1>5 DEF BusInv, Placed
  <2>3. QED
    BY <2>1, <2>2
\* Nothing on its way is about r, and no request in a queue.
<1>10. /\ \A q \in Elems(inbound) : q.about # r
       /\ \A x \in Members : \A q \in Elems(queue[x]) : q.kind = "request" => q.about # r
  <2>1. \A q \in Message : q.about = r => q.kind \in {"request", "answer"}
    BY MessagesTyped DEF Message
  <2>2. QED
    BY <1>5, <2>1, MessagesTyped DEF BusInv, Placed
<1>11. \A q \in Message : q.kind \in {"request", "answer"} => q.about \in Requests
  BY DEF Message
<1>12. Placed'
  <2>1. ASSUME NEW q \in Requests
        PROVE  /\ call[q] = "unused" => work'[q] = "none" /\ q \notin lost
               /\ q \in lost => work'[q] = "none"
               /\ call[q] = "answered" => work'[q] = "answered"
               /\ work'[q] # "silent"
    BY <1>6, <1>9 DEF BusInv, Placed
  <2>2. ASSUME NEW q \in Elems(inbound')
        PROVE  /\ q.kind = "request" => /\ work'[q.about] = "none" /\ q.about \notin lost
                                        /\ call[q.about] # "unused"
                                        /\ q.to = post[q.about].to
               /\ q.kind = "answer" => /\ work'[q.about] = "answered"
                                       /\ call[q.about] \in {"waiting", "expired"}
                                       /\ q.to = post[q.about].from
    <3>1. CASE q = m
      BY <1>3, <1>6, <1>9, <3>1
    <3>2. CASE q # m
      <4>1. q \in Elems(inbound) /\ q \in Message /\ q.about # r
        BY <1>4, <1>10, <3>2, MessagesTyped
      <4>2. QED
        BY <1>6, <1>11, <4>1 DEF BusInv, Placed
    <3>3. QED
      BY <3>1, <3>2
  <2>3. ASSUME NEW x \in Members, NEW q \in Elems(queue[x])
        PROVE  /\ q.kind = "request" => work'[q.about] = "queued" /\ x = post[q.about].to
               /\ q.kind = "answer" => call[q.about] = "expired" /\ x = post[q.about].from
    <3>1. q \in Message
      BY MessagesTyped
    <3>2. QED
      BY <1>6, <1>10, <1>11, <3>1 DEF BusInv, Placed
  <2>4. ASSUME NEW x \in Members, NEW q \in serving'[x]
        PROVE  work'[q] = "running" /\ x = post[q].to
    <3>1. q \in serving[x] /\ q # r /\ q \in Requests
      BY <1>7 DEF BusInv, TypeOK
    <3>2. QED
      BY <1>6, <3>1 DEF BusInv, Placed
  <2>5. QED
    BY <1>2, <2>1, <2>2, <2>3, <2>4 DEF BusInv, Placed
<1>13. Single'
  BY <1>2, <1>3, <1>4, <1>10 DEF BusInv, Single
<1>14. Backed'
  <2> SUFFICES ASSUME NEW q \in Requests, call[q] = "waiting"
               PROVE  /\ work'[q] = "none" => \/ q \in lost
                                              \/ \E p \in Elems(inbound') : p.about = q
                      /\ work'[q] = "queued" => \E p \in Elems(queue[post[q].to]) :
                                                   p.kind = "request" /\ p.about = q
                      /\ work'[q] = "running" => q \in serving'[post[q].to]
                      /\ work'[q] = "answered" => \E p \in Elems(inbound') : p.about = q
    BY <1>2 DEF Backed
  <2>1. CASE q = r
    BY <1>3, <1>4, <1>6, <2>1
  <2>2. CASE q # r
    <3>1. post[q].to \in Members
      BY DEF BusInv, TypeOK
    <3>2. QED
      BY <1>4, <1>6, <1>7, <2>2, <3>1 DEF BusInv, Backed
  <2>3. QED
    BY <2>1, <2>2
<1>15. OneWait'
  BY <1>2 DEF BusInv, OneWait
<1>16. QED
  BY <1>4, <1>8, <1>12, <1>13, <1>14, <1>15 DEF BusInv

LEMMA TakeKept ==
    ASSUME BusInv, StoreTypeOK', NEW x \in Members, Take(x)
    PROVE  BusInv'
<1> DEFINE m == Head(queue[x])
<1>1. queue[x] \in Seq(Message) /\ queue[x] # <<>> /\ Sorted(queue[x])
  BY DEF Take, BusInv, TypeOK, Ordered
<1>2. /\ m \in Message /\ m \in Elems(queue[x])
      /\ Tail(queue[x]) \in Seq(Message)
      /\ Len(Tail(queue[x])) <= Len(queue[x])
      /\ Elems(queue[x]) = {m} \cup Elems(Tail(queue[x]))
  BY <1>1, ElemsOfTail
<1>3. /\ m \notin Elems(Tail(queue[x])) /\ Sorted(Tail(queue[x]))
      /\ \A q \in Elems(Tail(queue[x])) : m.n < q.n
  BY <1>1, SortedTail
<1>4. /\ UNCHANGED <<registered, inbound, call, post, number, lost>>
      /\ queue' = [queue EXCEPT ![x] = Tail(@)]
      /\ taken' = [taken EXCEPT ![x] = m.n]
      /\ IF m.kind = "request"
         THEN /\ serving' = [serving EXCEPT ![x] = @ \cup {m.about}]
              /\ work' = [work EXCEPT ![m.about] = "running"]
         ELSE UNCHANGED <<serving, work>>
  BY DEF Take
<1> HIDE DEF m
<1>5. m.n \in Nat /\ (m.kind = "request" => m.about \in Requests)
  BY <1>2 DEF Message
<1>6. /\ queue' \in [Members -> Seq(Message)] /\ queue'[x] = Tail(queue[x])
      /\ \A y \in Members : y # x => queue'[y] = queue[y]
      /\ taken' \in [Members -> Nat] /\ taken'[x] = m.n
      /\ \A y \in Members : y # x => taken'[y] = taken[y]
  BY <1>2, <1>4, <1>5 DEF BusInv, TypeOK
<1>7. \A y \in Members : Elems(queue'[y]) \subseteq Elems(queue[y])
  BY <1>2, <1>6
<1>8. /\ serving' \in [Members -> SUBSET Requests]
      /\ work' \in [Requests -> {"none", "queued", "running", "answered", "silent"}]
  <2>0. /\ serving \in [Members -> SUBSET Requests]
        /\ work \in [Requests -> {"none", "queued", "running", "answered", "silent"}]
    BY DEF BusInv, TypeOK
  <2>1. CASE m.kind = "request"
    <3>1. m.about \in Requests
      BY <1>5, <2>1
    <3>2. /\ serving' = [serving EXCEPT ![x] = @ \cup {m.about}]
          /\ work' = [work EXCEPT ![m.about] = "running"]
      BY <1>4, <2>1
    <3>3. serving' \in [Members -> SUBSET Requests]
      <4>1. serving[x] \cup {m.about} \in SUBSET Requests
        BY <2>0, <3>1
      <4>2. QED
        BY <2>0, <3>2, <4>1
    <3>4. work' \in [Requests -> {"none", "queued", "running", "answered", "silent"}]
      BY <2>0, <3>1, <3>2
    <3>5. QED
      BY <3>3, <3>4
  <2>2. CASE m.kind # "request"
    BY <1>4, <2>0, <2>2
  <2>3. QED
    BY <2>1, <2>2
<1>9. TypeOK'
  <2>1. \A y \in Members : Len(queue'[y]) <= Capacity
    <3> SUFFICES ASSUME NEW y \in Members PROVE Len(queue'[y]) <= Capacity
      OBVIOUS
    <3>1. /\ Len(queue[y]) <= Capacity /\ Len(queue[y]) \in Nat
          /\ Len(queue'[y]) \in Nat /\ Capacity \in Nat
      <4>1. Len(queue[y]) <= Capacity /\ queue[y] \in Seq(Message) /\ queue'[y] \in Seq(Message)
        BY <1>6 DEF BusInv, TypeOK
      <4>2. Capacity \in Nat
        BY EventBusAssumption
      <4>3. QED
        BY <4>1, <4>2
    <3>2. Len(queue'[y]) <= Len(queue[y])
      <4>1. CASE y = x
        BY <1>2, <1>6, <4>1
      <4>2. CASE y # x
        BY <1>6, <3>1, <4>2
      <4>3. QED
        BY <4>1, <4>2
    <3>3. QED
      BY <3>1, <3>2
  <2>2. QED
    BY <1>4, <1>6, <1>8, <2>1 DEF BusInv, TypeOK
<1>10. Ordered'
  <2>1. ASSUME NEW y \in Members
        PROVE  /\ Sorted(queue'[y])
               /\ taken'[y] <= number
               /\ \A p \in Elems(inbound) : taken'[y] < p.n
               /\ \A q \in Elems(queue'[y]) : /\ taken'[y] < q.n
                                             /\ q.n <= number
                                             /\ \A p \in Elems(inbound) : q.n < p.n
    <3>1. CASE y = x
      BY <1>2, <1>3, <1>6, <3>1 DEF BusInv, Ordered
    <3>2. CASE y # x
      BY <1>6, <3>2 DEF BusInv, Ordered
    <3>3. QED
      BY <3>1, <3>2
  <2>2. QED
    BY <1>4, <2>1 DEF BusInv, Ordered
<1>11. CASE m.kind = "request"
  <2> DEFINE r == m.about
  <2>1. /\ r \in Requests /\ work[r] = "queued" /\ x = post[r].to
        /\ call[r] # "unused" /\ call[r] # "answered" /\ r \notin lost
    BY <1>2, <1>5, <1>11 DEF BusInv, Placed
  <2>2. /\ work'[r] = "running"
        /\ \A q \in Requests : q # r => work'[q] = work[q]
        /\ serving'[x] = serving[x] \cup {r}
        /\ \A y \in Members : y # x => serving'[y] = serving[y]
    BY <1>4, <1>11, <2>1 DEF BusInv, TypeOK
  <2>3. \A q \in Message : q.kind \in {"request", "answer"} => q.about \in Requests
    BY DEF Message
  <2>4. /\ \A q \in Elems(inbound) : q.kind \in {"request", "answer"} => q.about # r
        /\ \A y \in Members : \A q \in Elems(queue'[y]) : q.kind = "request" => q.about # r
    <3>1. \A q \in Elems(inbound) : q.kind \in {"request", "answer"} => q.about # r
      BY <2>1 DEF BusInv, Placed
    <3>2. ASSUME NEW y \in Members, NEW q \in Elems(queue'[y]), q.kind = "request", q.about = r
          PROVE  FALSE
      <4>1. q \in Elems(queue[y]) /\ y = x
        BY <1>7, <2>1, <3>2 DEF BusInv, Placed
      <4>2. q = m
        BY <1>2, <1>11, <3>2, <4>1 DEF BusInv, Single
      <4>3. QED
        BY <1>3, <1>6, <3>2, <4>1, <4>2
    <3>3. QED
      BY <3>1, <3>2
  <2> HIDE DEF r
  <2>5. Placed'
    <3>1. ASSUME NEW q \in Requests
          PROVE  /\ call[q] = "unused" => work'[q] = "none" /\ q \notin lost
                 /\ q \in lost => work'[q] = "none"
                 /\ call[q] = "answered" => work'[q] = "answered"
                 /\ work'[q] # "silent"
      BY <2>1, <2>2 DEF BusInv, Placed
    <3>2. ASSUME NEW q \in Elems(inbound)
          PROVE  /\ q.kind = "request" => work'[q.about] = "none"
                 /\ q.kind = "answer" => work'[q.about] = "answered"
      <4>1. q \in Message
        BY MessagesTyped
      <4>2. QED
        BY <2>2, <2>3, <2>4, <4>1 DEF BusInv, Placed
    <3>3. ASSUME NEW y \in Members, NEW q \in Elems(queue'[y])
          PROVE  /\ q.kind = "request" => work'[q.about] = "queued" /\ y = post[q.about].to
                 /\ q.kind = "answer" => call[q.about] = "expired" /\ y = post[q.about].from
      <4>1. q \in Message /\ q \in Elems(queue[y])
        BY <1>7, MessagesTyped
      <4>2. QED
        BY <2>2, <2>3, <2>4, <4>1 DEF BusInv, Placed
    <3>4. ASSUME NEW y \in Members, NEW q \in serving'[y]
          PROVE  work'[q] = "running" /\ y = post[q].to
      <4>1. CASE q = r
        <5>1. y = x
          BY <2>1, <2>2, <3>4, <4>1 DEF BusInv, Placed
        <5>2. QED
          BY <2>1, <2>2, <4>1, <5>1
      <4>2. CASE q # r
        <5>1. q \in serving[y]
          BY <2>2, <3>4, <4>2
        <5>2. q \in Requests
          BY <5>1 DEF BusInv, TypeOK
        <5>3. QED
          BY <2>2, <4>2, <5>1, <5>2 DEF BusInv, Placed
      <4>3. QED
        BY <4>1, <4>2
    <3>5. QED
      BY <1>4, <3>1, <3>2, <3>3, <3>4 DEF BusInv, Placed
  <2>6. Backed'
    <3> SUFFICES ASSUME NEW q \in Requests, call[q] = "waiting"
                 PROVE  /\ work'[q] = "none" => \/ q \in lost
                                                \/ \E p \in Elems(inbound) : p.about = q
                        /\ work'[q] = "queued" => \E p \in Elems(queue'[post[q].to]) :
                                                     p.kind = "request" /\ p.about = q
                        /\ work'[q] = "running" => q \in serving'[post[q].to]
                        /\ work'[q] = "answered" => \E p \in Elems(inbound) : p.about = q
      BY <1>4 DEF Backed
    <3>1. CASE q = r
      BY <2>1, <2>2, <3>1
    <3>2. CASE q # r
      <4>1. post[q].to \in Members
        BY DEF BusInv, TypeOK
      <4>2. ASSUME work[q] = "queued"
            PROVE  \E p \in Elems(queue'[post[q].to]) : p.kind = "request" /\ p.about = q
        <5>1. PICK p \in Elems(queue[post[q].to]) : p.kind = "request" /\ p.about = q
          BY <4>2 DEF BusInv, Backed
        <5>2. p # m
          BY <3>2, <5>1 DEF r
        <5>3. p \in Elems(queue'[post[q].to])
          BY <1>2, <1>6, <4>1, <5>1, <5>2
        <5>4. QED
          BY <5>1, <5>3
      <4>3. serving[post[q].to] \subseteq serving'[post[q].to]
        BY <2>2, <4>1
      <4>4. QED
        BY <2>2, <3>2, <4>2, <4>3 DEF BusInv, Backed
    <3>3. QED
      BY <3>1, <3>2
  <2>7. QED
    BY <1>4, <1>7, <1>9, <1>10, <2>5, <2>6 DEF BusInv, Single, OneWait
<1>12. CASE m.kind # "request"
  <2>1. UNCHANGED <<serving, work>>
    BY <1>4, <1>12
  <2>2. Placed'
    BY <1>4, <1>7, <2>1 DEF BusInv, Placed
  <2>3. Backed'
    <3>1. ASSUME NEW y \in Members, NEW p \in Elems(queue[y]), p.kind = "request"
          PROVE  p \in Elems(queue'[y])
      BY <1>2, <1>6, <1>12, <3>1
    <3>2. \A q \in Requests : post[q].to \in Members
      BY DEF BusInv, TypeOK
    <3>3. QED
      BY <1>4, <2>1, <3>1, <3>2 DEF BusInv, Backed
  <2>4. QED
    BY <1>4, <1>7, <1>9, <1>10, <2>2, <2>3 DEF BusInv, Single, OneWait
<1>13. QED
  BY <1>11, <1>12

\* Messages about no request, dispatched into whatever queues have room.
LEMMA UnboundKept ==
    ASSUME BusInv, StoreTypeOK', NEW m, Dispatching(m), m.about = None,
           UNCHANGED <<registered, call, post, serving, number, work, taken, lost>>,
           queue' \in [Members -> Seq(Message)],
           \A x \in Members : \/ queue'[x] = queue[x]
                              \/ HasRoom(x) /\ queue'[x] = Append(queue[x], m)
    PROVE  BusInv'
<1>1. /\ m \in Message /\ inbound' \in Seq(Message)
      /\ Elems(inbound) = Elems(inbound') \cup {m}
      /\ \A x \in Members : Elems(queue'[x]) \in {Elems(queue[x]), Elems(queue[x]) \cup {m}}
      /\ Ordered'
  BY Dispatched
<1>2. m.kind \notin {"request", "answer"}
  BY <1>1, MessagesTyped DEF Message
<1>3. TypeOK'
  <2>1. ASSUME NEW x \in Members PROVE Len(queue'[x]) <= Capacity
    <3>1. queue[x] \in Seq(Message) /\ Len(queue[x]) <= Capacity /\ Capacity \in Nat
      BY EventBusAssumption DEF BusInv, TypeOK
    <3>2. CASE queue'[x] = queue[x]
      BY <3>1, <3>2
    <3>3. CASE HasRoom(x) /\ queue'[x] = Append(queue[x], m)
      <4>1. Len(queue'[x]) = Len(queue[x]) + 1 /\ Len(queue[x]) < Capacity
        BY <1>1, <3>1, <3>3, ElemsOfAppend DEF HasRoom
      <4>2. Len(queue[x]) \in Nat
        BY <3>1
      <4>3. QED
        BY <3>1, <4>1, <4>2
    <3>4. QED
      BY <3>2, <3>3
  <2>2. QED
    BY <1>1, <2>1 DEF BusInv, TypeOK
<1>4. Placed'
  <2>1. ASSUME NEW x \in Members, NEW q \in Elems(queue'[x]), q.kind \in {"request", "answer"}
        PROVE  q \in Elems(queue[x])
    BY <1>1, <1>2, <2>1
  <2>2. QED
    BY <1>1, <2>1 DEF BusInv, Placed
<1>5. Single'
  <2>1. ASSUME NEW x \in Members, NEW q \in Elems(queue'[x]), q.kind = "request"
        PROVE  q \in Elems(queue[x])
    BY <1>1, <1>2, <2>1
  <2>2. QED
    BY <1>1, <2>1 DEF BusInv, Single
<1>6. Backed'
  <2>1. ASSUME NEW r \in Requests, NEW p \in Elems(inbound), p.about = r
        PROVE  p \in Elems(inbound')
    BY <1>1, <2>1, MessagesTyped
  <2>2. \A x \in Members : Elems(queue[x]) \subseteq Elems(queue'[x])
    BY <1>1
  <2>3. \A r \in Requests : post[r].to \in Members
    BY DEF BusInv, TypeOK
  <2>4. QED
    BY <2>1, <2>2, <2>3 DEF BusInv, Backed
<1>7. OneWait'
  BY DEF BusInv, OneWait
<1>8. QED
  BY <1>1, <1>3, <1>4, <1>5, <1>6, <1>7 DEF BusInv

LEMMA ReloadKept ==
    ASSUME BusInv, StoreTypeOK', NEW m, DispatchReload(m) PROVE BusInv'
<1>1. Dispatching(m) /\ m \in Message
  BY MessagesTyped, Dispatched DEF DispatchReload, BusInv, TypeOK
<1>2. m.about = None
  BY <1>1 DEF DispatchReload, Message
<1>3. QED
  BY <1>1, <1>2, UnboundKept DEF DispatchReload, BusInv, TypeOK

LEMMA RouteKept ==
    ASSUME BusInv, StoreTypeOK', NEW m, Route(m) PROVE BusInv'
<1>1. inbound \in Seq(Message) /\ inbound # <<>> /\ m = Head(inbound)
  BY DEF Route, Dispatching, BusInv, TypeOK
<1>2. m \in Message
  BY <1>1, ElemsOfTail
<1>3. m.about = None
  BY <1>2, MessagesTyped DEF Route, Message
<1>4. ASSUME NEW x \in Members
      PROVE  /\ queue[x] \in Seq(Message)
             /\ queue[x] \o <<m>> = Append(queue[x], m)
             /\ queue[x] \o <<>> = queue[x]
             /\ Append(queue[x], m) \in Seq(Message)
  <2>1. queue[x] \in Seq(Message)
    BY DEF BusInv, TypeOK
  <2>2. QED
    BY <1>2, <2>1
<1>5. queue' = [x \in Members |-> IF HasRoom(x) THEN queue[x] \o Copy(m, x) ELSE queue[x]]
  BY DEF Route
<1>6. ASSUME NEW x \in Members
      PROVE  /\ queue'[x] \in Seq(Message)
             /\ \/ queue'[x] = queue[x]
                \/ HasRoom(x) /\ queue'[x] = Append(queue[x], m)
  <2>1. Copy(m, x) = <<m>> \/ Copy(m, x) = <<>>
    BY DEF Copy
  <2>2. queue'[x] = IF HasRoom(x) THEN queue[x] \o Copy(m, x) ELSE queue[x]
    BY <1>5
  <2>3. QED
    BY <1>4, <2>1, <2>2
<1>7. queue' \in [Members -> Seq(Message)]
  BY <1>5, <1>6
<1>8. Dispatching(m) /\ UNCHANGED <<registered, call, post, serving, number, work, taken, lost>>
  BY DEF Route
<1>9. QED
  BY <1>3, <1>6, <1>7, <1>8, UnboundKept

\* The answer somebody waits for: no other message is about the request.
LEMMA ResolveKept ==
    ASSUME BusInv, StoreTypeOK', NEW m, Resolve(m) PROVE BusInv'
<1> DEFINE r == m.about
<1>1. /\ Dispatching(m) /\ m.kind = "answer" /\ call[r] = "waiting"
      /\ call' = [call EXCEPT ![r] = "answered"]
      /\ UNCHANGED <<registered, queue, post, serving, number, work, taken, lost>>
  BY DEF Resolve, Resolves
<1>2. /\ m \in Message /\ m \in Elems(inbound) /\ m \notin Elems(inbound')
      /\ inbound' \in Seq(Message)
      /\ Elems(inbound) = Elems(inbound') \cup {m}
      /\ Ordered'
  BY <1>1, Dispatched DEF BusInv, TypeOK
<1>3. r \in Requests /\ r # None
  BY <1>1, <1>2, MessagesTyped DEF Message
<1>4. work[r] = "answered" /\ r \notin lost
  BY <1>1, <1>2, <1>3 DEF BusInv, Placed
<1>5. /\ call' \in [Requests -> {"unused", "waiting", "answered", "expired"}]
      /\ call'[r] = "answered"
      /\ \A q \in Requests : q # r => call'[q] = call[q]
  BY <1>1, <1>3 DEF BusInv, TypeOK
<1>6. \A q \in Elems(inbound') : q.about # r
  BY <1>2, <1>3 DEF BusInv, Single
<1> HIDE DEF r
<1>7. TypeOK'
  BY <1>1, <1>2, <1>5 DEF BusInv, TypeOK
<1>8. \A q \in Message : q.kind \in {"request", "answer"} => q.about \in Requests
  BY DEF Message
<1>9. Placed'
  <2>1. ASSUME NEW q \in Requests
        PROVE  /\ call'[q] = "unused" => work[q] = "none" /\ q \notin lost
               /\ call'[q] # "unused" => post[q].from \in Agents /\ post[q].to \in Servers
               /\ q \in lost => work[q] = "none"
               /\ call'[q] = "answered" => work[q] = "answered"
               /\ work[q] # "silent"
    <3>1. call'[q] = "unused" <=> call[q] = "unused"
      BY <1>1, <1>5 DEF r
    <3>2. QED
      BY <1>4, <1>5, <3>1 DEF BusInv, Placed
  <2>2. ASSUME NEW q \in Elems(inbound')
        PROVE  /\ q.kind = "request" => /\ work[q.about] = "none" /\ q.about \notin lost
                                        /\ call'[q.about] # "unused"
                                        /\ q.to = post[q.about].to
               /\ q.kind = "answer" => /\ work[q.about] = "answered"
                                       /\ call'[q.about] \in {"waiting", "expired"}
                                       /\ q.to = post[q.about].from
    <3>1. q \in Elems(inbound) /\ q \in Message /\ q.about # r
      BY <1>2, <1>6, MessagesTyped
    <3>2. QED
      BY <1>5, <1>8, <3>1 DEF BusInv, Placed
  <2>3. ASSUME NEW x \in Members, NEW q \in Elems(queue[x])
        PROVE  /\ q.kind = "request" => work[q.about] = "queued" /\ x = post[q.about].to
               /\ q.kind = "answer" => call'[q.about] = "expired" /\ x = post[q.about].from
    <3>1. q \in Message
      BY MessagesTyped
    <3>2. q.kind = "answer" => q.about # r
      BY <1>1 DEF BusInv, Placed, r
    <3>3. QED
      BY <1>5, <1>8, <3>1, <3>2 DEF BusInv, Placed
  <2>4. QED
    BY <1>1, <2>1, <2>2, <2>3 DEF BusInv, Placed
<1>10. Single'
  BY <1>1, <1>2 DEF BusInv, Single
<1>11. Backed'
  <2> SUFFICES ASSUME NEW q \in Requests, call'[q] = "waiting"
               PROVE  /\ work[q] = "none" => \/ q \in lost
                                             \/ \E p \in Elems(inbound') : p.about = q
                      /\ work[q] = "queued" => \E p \in Elems(queue[post[q].to]) :
                                                  p.kind = "request" /\ p.about = q
                      /\ work[q] = "running" => q \in serving[post[q].to]
                      /\ work[q] = "answered" => \E p \in Elems(inbound') : p.about = q
    BY <1>1 DEF Backed
  <2>1. q # r /\ call[q] = "waiting"
    BY <1>5
  <2>2. ASSUME NEW p \in Elems(inbound), p.about = q PROVE p \in Elems(inbound')
    BY <1>2, <2>1, <2>2 DEF r
  <2>3. QED
    BY <2>1, <2>2 DEF BusInv, Backed
<1>12. OneWait'
  <2>1. \A q \in Requests : call'[q] = "waiting" => call[q] = "waiting"
    BY <1>5
  <2>2. QED
    BY <1>1, <2>1 DEF BusInv, OneWait
<1>13. QED
  BY <1>2, <1>7, <1>9, <1>10, <1>11, <1>12 DEF BusInv

\* A message with a target: a request, or an answer whose call has been given up.
LEMMA DirectKept ==
    ASSUME BusInv, StoreTypeOK', NEW m, Direct(m) PROVE BusInv'
<1> DEFINE r == m.about
<1>1. /\ Dispatching(m) /\ m.to # None /\ ~Resolves(m)
      /\ UNCHANGED <<registered, call, post, serving, number, taken>>
      /\ queue' = IF HasRoom(m.to) THEN [queue EXCEPT ![m.to] = Append(@, m)] ELSE queue
  BY DEF Direct
<1>2. inbound \in Seq(Message) /\ inbound # <<>> /\ m = Head(inbound) /\ m \in Message
  <2>1. inbound \in Seq(Message) /\ inbound # <<>> /\ m = Head(inbound)
    BY <1>1 DEF Dispatching, BusInv, TypeOK
  <2>2. QED
    BY <2>1, ElemsOfTail
<1>3. m.kind \in {"request", "answer"} /\ r \in Requests /\ m.to \in Members /\ r # None
  BY <1>1, <1>2, MessagesTyped DEF Message
<1>4. /\ queue' \in [Members -> Seq(Message)]
      /\ \A x \in Members :
            \/ queue'[x] = queue[x] /\ ~(x = m.to /\ HasRoom(x))
            \/ x = m.to /\ HasRoom(x) /\ queue'[x] = Append(queue[x], m)
  <2>1. queue \in [Members -> Seq(Message)]
    BY DEF BusInv, TypeOK
  <2>2. Append(queue[m.to], m) \in Seq(Message)
    BY <1>2, <1>3, <2>1, ElemsOfAppend
  <2>3. QED
    BY <1>1, <1>3, <2>1, <2>2
<1>5. /\ m \in Elems(inbound) /\ m \notin Elems(inbound')
      /\ inbound' \in Seq(Message)
      /\ Elems(inbound) = Elems(inbound') \cup {m}
      /\ \A x \in Members :
            \/ Elems(queue'[x]) = Elems(queue[x]) /\ ~(x = m.to /\ HasRoom(x))
            \/ x = m.to /\ HasRoom(x) /\ Elems(queue'[x]) = Elems(queue[x]) \cup {m}
      /\ Ordered'
  BY <1>1, <1>4, Dispatched
<1>6. \A q \in Elems(inbound') : q.about # r
  BY <1>3, <1>5 DEF BusInv, Single
<1>7. \A q \in Message : q.kind \in {"request", "answer"} => q.about \in Requests
  BY DEF Message
<1>8. /\ m.kind = "request" => /\ work[r] = "none" /\ r \notin lost /\ call[r] # "unused"
                               /\ m.to = post[r].to
      /\ m.kind = "answer" => /\ work[r] = "answered" /\ call[r] = "expired"
                              /\ m.to = post[r].from
  BY <1>1, <1>5 DEF BusInv, Placed, Resolves
<1>9. /\ work' \in [Requests -> {"none", "queued", "running", "answered", "silent"}]
      /\ lost' \in SUBSET Requests
      /\ \A q \in Requests : q # r => work'[q] = work[q] /\ (q \in lost' <=> q \in lost)
      /\ m.kind = "request" /\ HasRoom(m.to) => work'[r] = "queued" /\ r \notin lost'
      /\ m.kind = "request" /\ ~HasRoom(m.to) => work'[r] = "none" /\ r \in lost'
      /\ m.kind = "answer" => work' = work /\ lost' = lost
  <2>1. /\ work \in [Requests -> {"none", "queued", "running", "answered", "silent"}]
        /\ lost \in SUBSET Requests
    BY DEF BusInv, TypeOK
  <2>2. CASE m.kind = "request" /\ HasRoom(m.to)
    <3>1. work' = [work EXCEPT ![r] = "queued"] /\ lost' = lost
      BY <2>2 DEF Direct
    <3>2. QED
      BY <1>3, <1>8, <2>1, <2>2, <3>1
  <2>3. CASE m.kind = "request" /\ ~HasRoom(m.to)
    <3>1. lost' = lost \cup {r} /\ work' = work
      BY <2>3 DEF Direct
    <3>2. QED
      BY <1>3, <1>8, <2>1, <2>3, <3>1
  <2>4. CASE m.kind = "answer"
    <3>1. lost' = lost /\ work' = work
      BY <2>4 DEF Direct
    <3>2. QED
      BY <2>1, <2>4, <3>1
  <2>5. QED
    BY <1>3, <2>2, <2>3, <2>4
<1> HIDE DEF r
<1>10. TypeOK'
  <2>1. ASSUME NEW x \in Members PROVE Len(queue'[x]) <= Capacity
    <3>1. queue[x] \in Seq(Message) /\ Len(queue[x]) <= Capacity /\ Capacity \in Nat
      BY EventBusAssumption DEF BusInv, TypeOK
    <3>2. CASE queue'[x] = queue[x]
      BY <3>1, <3>2
    <3>3. CASE HasRoom(x) /\ queue'[x] = Append(queue[x], m)
      <4>1. Len(queue'[x]) = Len(queue[x]) + 1 /\ Len(queue[x]) < Capacity
        BY <1>2, <3>1, <3>3, ElemsOfAppend DEF HasRoom
      <4>2. Len(queue[x]) \in Nat
        BY <3>1
      <4>3. QED
        BY <3>1, <4>1, <4>2
    <3>4. QED
      BY <1>4, <3>2, <3>3
  <2>2. QED
    BY <1>1, <1>4, <1>5, <1>9, <2>1 DEF BusInv, TypeOK
\* A queue gets nothing but m, and m only if it is its target's.
<1>11. ASSUME NEW x \in Members, NEW q \in Elems(queue'[x])
       PROVE  q \in Elems(queue[x]) \/ (q = m /\ x = m.to /\ HasRoom(x))
  BY <1>5
<1>12. ASSUME NEW x \in Members, NEW q \in Elems(queue[x]), q.kind = "request",
              m.kind = "request"
       PROVE  q.about # r
  BY <1>8, <1>12 DEF BusInv, Placed
<1>13. ASSUME NEW q \in Requests
       PROVE  /\ call[q] = "unused" => work'[q] = "none" /\ q \notin lost'
              /\ q \in lost' => work'[q] = "none"
              /\ call[q] = "answered" => work'[q] = "answered"
              /\ work'[q] # "silent"
  <2>1. CASE q # r
    BY <1>9, <2>1 DEF BusInv, Placed
  <2>2. CASE q = r /\ m.kind = "answer"
    BY <1>9, <2>2 DEF BusInv, Placed
  <2>3. CASE q = r /\ m.kind = "request"
    <3>1. call[r] # "unused" /\ call[r] # "answered"
      BY <1>3, <1>8, <2>3 DEF BusInv, Placed
    <3>2. QED
      BY <1>9, <2>3, <3>1
  <2>4. QED
    BY <1>3, <2>1, <2>2, <2>3
<1>14. Placed'
  <2>1. ASSUME NEW q \in Elems(inbound')
        PROVE  /\ q.kind = "request" => /\ work'[q.about] = "none" /\ q.about \notin lost'
                                        /\ call[q.about] # "unused"
                                        /\ q.to = post[q.about].to
               /\ q.kind = "answer" => /\ work'[q.about] = "answered"
                                       /\ call[q.about] \in {"waiting", "expired"}
                                       /\ q.to = post[q.about].from
    <3>1. q \in Elems(inbound) /\ q \in Message /\ q.about # r
      BY <1>5, <1>6, MessagesTyped
    <3>2. QED
      BY <1>7, <1>9, <3>1 DEF BusInv, Placed
  <2>2. ASSUME NEW x \in Members, NEW q \in Elems(queue'[x])
        PROVE  /\ q.kind = "request" => work'[q.about] = "queued" /\ x = post[q.about].to
               /\ q.kind = "answer" => call[q.about] = "expired" /\ x = post[q.about].from
    <3>1. CASE q \in Elems(queue[x])
      <4>1. q \in Message
        BY <3>1, MessagesTyped
      <4>2. q.kind = "request" => work'[q.about] = "queued"
        BY <1>3, <1>7, <1>9, <1>12, <3>1, <4>1 DEF BusInv, Placed
      <4>3. QED
        BY <3>1, <4>2 DEF BusInv, Placed
    <3>2. CASE q = m /\ x = m.to /\ HasRoom(x)
      BY <1>8, <1>9, <3>2 DEF r
    <3>3. QED
      BY <1>11, <3>1, <3>2
  <2>3. ASSUME NEW x \in Members, NEW q \in serving[x]
        PROVE  work'[q] = "running" /\ x = post[q].to
    <3>1. q \in Requests /\ work[q] = "running" /\ x = post[q].to
      BY DEF BusInv, TypeOK, Placed
    <3>2. q = r => m.kind = "answer"
      BY <1>3, <1>8, <3>1
    <3>3. QED
      BY <1>9, <3>1, <3>2
  <2>4. \A q \in Requests : call[q] # "unused" => post[q].from \in Agents /\ post[q].to \in Servers
    BY DEF BusInv, Placed
  <2>5. QED
    BY <1>1, <1>13, <2>1, <2>2, <2>3, <2>4 DEF Placed
<1>15. Single'
  <2>1. ASSUME NEW x \in Members, NEW p \in Elems(queue'[x]), NEW q \in Elems(queue'[x]),
               p.kind = "request", q.kind = "request", p.about = q.about
        PROVE  p = q
    BY <1>11, <1>12, <2>1 DEF BusInv, Single, r
  <2>2. QED
    BY <1>5, <2>1 DEF BusInv, Single
<1>16. Backed'
  <2> SUFFICES ASSUME NEW q \in Requests, call[q] = "waiting"
               PROVE  /\ work'[q] = "none" => \/ q \in lost'
                                              \/ \E p \in Elems(inbound') : p.about = q
                      /\ work'[q] = "queued" => \E p \in Elems(queue'[post[q].to]) :
                                                   p.kind = "request" /\ p.about = q
                      /\ work'[q] = "running" => q \in serving[post[q].to]
                      /\ work'[q] = "answered" => \E p \in Elems(inbound') : p.about = q
    BY <1>1 DEF Backed
  <2>1. CASE q # r
    <3>1. ASSUME NEW p \in Elems(inbound), p.about = q PROVE p \in Elems(inbound')
      BY <1>5, <2>1, <3>1 DEF r
    <3>2. post[q].to \in Members
      BY DEF BusInv, TypeOK
    <3>3. Elems(queue[post[q].to]) \subseteq Elems(queue'[post[q].to])
      BY <1>5, <3>2
    <3>4. QED
      BY <1>9, <2>1, <3>1, <3>3 DEF BusInv, Backed
  <2>2. CASE q = r
    <3>1. m.kind = "request"
      BY <1>3, <1>8, <2>2
    <3>2. CASE HasRoom(m.to)
      <4>1. m \in Elems(queue'[post[q].to])
        BY <1>3, <1>5, <1>8, <2>2, <3>1, <3>2
      <4>2. QED
        BY <1>9, <2>2, <3>1, <3>2, <4>1 DEF r
    <3>3. CASE ~HasRoom(m.to)
      BY <1>9, <2>2, <3>1, <3>3
    <3>4. QED
      BY <3>2, <3>3
  <2>3. QED
    BY <2>1, <2>2
<1>17. OneWait'
  BY <1>1 DEF BusInv, OneWait
<1>18. QED
  BY <1>5, <1>10, <1>14, <1>15, <1>16, <1>17 DEF BusInv

LEMMA BusKept == BusInv /\ StoreTypeOK' /\ [Next]_vars => BusInv'
<1> SUFFICES ASSUME BusInv, StoreTypeOK', [Next]_vars PROVE BusInv'
  OBVIOUS
<1>1. CASE \E topic \in Topics : PublishEvent(topic)
  BY <1>1, EventKept
<1>2. CASE PublishReload
  BY <1>2, EventKept
<1>3. CASE \E r \in Requests, a \in Agents, x \in Servers : Ask(r, a, x)
  BY <1>3, AskKept
<1>4. CASE \E r \in Requests : GiveUp(r)
  BY <1>4, StopsKept
<1>5. CASE \E r \in Requests, x \in Servers : Reply(x, r)
  BY <1>5, ReplyKept
<1>6. CASE Dispatch
  BY <1>6, ReloadKept, ResolveKept, DirectKept, RouteKept DEF Dispatch
<1>7. CASE \E x \in Members : Take(x)
  BY <1>7, TakeKept
<1>8. CASE \E a \in Agents : Unregister(a) \/ Register(a)
  BY <1>8, StopsKept
<1>9. CASE StoreStep \/ UNCHANGED vars
  BY <1>9, StopsKept DEF StoreStep, vars
<1>10. QED
  BY <1>1, <1>2, <1>3, <1>4, <1>5, <1>6, <1>7, <1>8, <1>9 DEF Next, BusNext

LEMMA BusInvariant == Spec => []BusInv
<1>1. Init => BusInv /\ StoreInv
  BY BusInitially, StoreInitially DEF Init
<1>2. BusInv /\ StoreInv /\ [Next]_vars => (BusInv /\ StoreInv)'
  <2>1. BusInv /\ StoreInv /\ [Next]_vars => StoreInv'
    BY StoreKept, BusReloadsOnly
  <2>2. StoreInv' => StoreTypeOK'
    BY DEF StoreInv
  <2>3. QED
    BY <2>1, <2>2, BusKept
<1>3. QED
  BY <1>1, <1>2, PTL DEF Spec

-----------------------------------------------------------------------------
(* What the invariant is for.                                              *)

\* Every variable has its type, and no queue ever holds more than it may.
THEOREM TypeCorrect == Spec => []TypeOK
<1>1. BusInv => TypeOK
  BY DEF BusInv
<1>2. QED
  BY <1>1, BusInvariant, PTL

\* However messages, timeouts and restarts mix, every member sees what it gets in the
\* order of publication and sees nothing twice.
THEOREM DeliversInOrder == Spec => []InOrder
<1>1. BusInv => InOrder
  <2> SUFFICES ASSUME BusInv PROVE InOrder
    OBVIOUS
  <2>1. ASSUME NEW x \in Members, NEW i \in 1..Len(queue[x])
        PROVE  /\ queue[x][i].n > taken[x]
               /\ \A j \in 1..(i - 1) : queue[x][j].n < queue[x][i].n
               /\ \A k \in 1..Len(inbound) : queue[x][i].n < inbound[k].n
    <3>1. queue[x] \in Seq(Message) /\ taken[x] \in Nat /\ queue[x][i] \in Elems(queue[x])
      BY DEF BusInv, TypeOK, Elems
    <3>2. queue[x][i].n \in Nat
      BY <3>1 DEF Message
    <3>3. queue[x][i].n > taken[x]
      BY <3>1, <3>2 DEF BusInv, Ordered
    <3>4. \A j \in 1..(i - 1) : j \in 1..Len(queue[x]) /\ j < i
      BY <3>1
    <3>5. \A k \in 1..Len(inbound) : inbound[k] \in Elems(inbound)
      BY DEF Elems
    <3>6. QED
      BY <3>1, <3>3, <3>4, <3>5 DEF BusInv, Ordered, Sorted
  <2>2. ASSUME NEW k \in 1..Len(inbound), NEW l \in 1..(k - 1)
        PROVE  inbound[l].n < inbound[k].n
    <3>1. Len(inbound) \in Nat
      BY DEF BusInv, TypeOK
    <3>2. l \in 1..Len(inbound) /\ l < k
      BY <3>1
    <3>3. QED
      BY <3>2 DEF BusInv, Ordered, Sorted
  <2>3. QED
    BY <2>1, <2>2 DEF InOrder
<1>2. QED
  BY <1>1, BusInvariant, PTL

\* No answer reaches a queue while its caller still waits, and a late one reaches
\* nobody but the caller that gave up.
THEOREM LateAnswersOnlyGoHome == Spec => []LateAnswersGoHome
<1>1. BusInv => LateAnswersGoHome
  BY DEF BusInv, Placed, Elems, LateAnswersGoHome
<1>2. QED
  BY <1>1, BusInvariant, PTL

\* A caller that waits has its request on the way, in the queue of the service, in
\* work there, or its answer on the way back, unless the queue had no room for it.
THEOREM NobodyForgotten == Spec => []WaitsForSomething
<1>1. BusInv => WaitsForSomething
  <2> SUFFICES ASSUME BusInv, NEW r \in Requests, call[r] = "waiting"
               PROVE  \/ r \in lost
                      \/ \E m \in Elems(inbound) : m.about = r
                      \/ \E m \in Elems(queue[post[r].to]) : m.about = r
                      \/ r \in serving[post[r].to]
    BY DEF WaitsForSomething, Elems
  <2>1. work[r] \in {"none", "queued", "running", "answered"}
    BY DEF BusInv, TypeOK, Placed
  <2>2. QED
    BY <2>1 DEF BusInv, Backed
<1>2. QED
  BY <1>1, BusInvariant, PTL

-----------------------------------------------------------------------------
(* The bus implements the abstract call.                                   *)

LEMMA CallsInitially == Init => Calls!Init
BY DEF Init, Calls!Init

\* A step that ends at most one wait, or starts one.
LEMMA StopServes ==
    ASSUME BusInv, NEW a \in Agents, Unregister(a)
    PROVE  Calls!Next \/ UNCHANGED <<call, work>>
<1>1. /\ call' = [r \in Requests |-> IF call[r] = "waiting" /\ post[r].from = a
                                    THEN "expired" ELSE call[r]]
      /\ work' = work
  BY DEF Unregister
<1>2. call \in [Requests -> {"unused", "waiting", "answered", "expired"}]
  BY DEF BusInv, TypeOK
<1>3. CASE \E q \in Requests : call[q] = "waiting" /\ post[q].from = a
  <2>1. PICK q \in Requests : call[q] = "waiting" /\ post[q].from = a
    BY <1>3
  <2>2. \A r \in Requests : call[r] = "waiting" /\ post[r].from = a <=> r = q
    BY <2>1 DEF BusInv, OneWait
  <2>3. call' = [call EXCEPT ![q] = "expired"]
    BY <1>1, <1>2, <2>2
  <2>4. Calls!GiveUp(q)
    BY <1>1, <2>1, <2>3 DEF Calls!GiveUp
  <2>5. QED
    BY <2>4 DEF Calls!Next
<1>4. CASE ~ \E q \in Requests : call[q] = "waiting" /\ post[q].from = a
  <2>1. call' = call
    BY <1>1, <1>2, <1>4
  <2>2. QED
    BY <1>1, <2>1
<1>5. QED
  BY <1>3, <1>4

LEMMA DispatchServes ==
    ASSUME BusInv, Dispatch
    PROVE  Calls!Next \/ UNCHANGED <<call, work>>
<1> DEFINE m == Head(inbound)
<1>1. inbound # <<>> /\ (DispatchReload(m) \/ Resolve(m) \/ Direct(m) \/ Route(m))
  BY DEF Dispatch
<1>2. m \in Message /\ m \in Elems(inbound)
  BY <1>1, ElemsOfTail DEF BusInv, TypeOK
<1>3. m.kind \in {"request", "answer"} => m.about \in Requests
  BY <1>2 DEF Message
<1> HIDE DEF m
<1>4. CASE Resolve(m)
  <2>1. /\ m.kind = "answer" /\ call[m.about] = "waiting"
        /\ call' = [call EXCEPT ![m.about] = "answered"] /\ work' = work
    BY <1>4 DEF Resolve, Resolves
  <2>2. m.about \in Requests /\ work[m.about] = "answered"
    BY <1>2, <1>3, <2>1 DEF BusInv, Placed
  <2>3. Calls!Answer(m.about)
    BY <2>1, <2>2 DEF Calls!Answer
  <2>4. QED
    BY <2>2, <2>3 DEF Calls!Next
<1>5. CASE Direct(m)
  <2>1. CASE m.kind = "request" /\ HasRoom(m.to)
    <3>1. work' = [work EXCEPT ![m.about] = "queued"] /\ call' = call
      BY <1>5, <2>1 DEF Direct
    <3>2. m.about \in Requests /\ work[m.about] = "none" /\ call[m.about] # "unused"
      BY <1>2, <1>3, <2>1 DEF BusInv, Placed
    <3>3. Calls!Enqueue(m.about)
      BY <3>1, <3>2 DEF Calls!Enqueue
    <3>4. QED
      BY <3>2, <3>3 DEF Calls!Next
  <2>2. CASE ~(m.kind = "request" /\ HasRoom(m.to))
    BY <1>5, <2>2 DEF Direct
  <2>3. QED
    BY <2>1, <2>2
<1>6. CASE DispatchReload(m) \/ Route(m)
  BY <1>6 DEF DispatchReload, Route
<1>7. QED
  BY <1>1, <1>4, <1>5, <1>6

LEMMA StepServes == BusInv /\ [Next]_vars => [Calls!Next]_<<call, work>>
<1> SUFFICES ASSUME BusInv, [Next]_vars PROVE Calls!Next \/ UNCHANGED <<call, work>>
  OBVIOUS
<1>1. CASE PublishReload \/ \E topic \in Topics : PublishEvent(topic)
  BY <1>1 DEF PublishReload, PublishEvent
<1>2. ASSUME NEW r \in Requests, NEW a \in Agents, NEW x \in Servers, Ask(r, a, x)
      PROVE  Calls!Next
  <2>1. Calls!Ask(r)
    BY <1>2 DEF Ask, Calls!Ask
  <2>2. QED
    BY <2>1 DEF Calls!Next
<1>3. ASSUME NEW r \in Requests, GiveUp(r) PROVE Calls!Next
  <2>1. Calls!GiveUp(r)
    BY <1>3 DEF GiveUp, Calls!GiveUp
  <2>2. QED
    BY <2>1 DEF Calls!Next
<1>4. ASSUME NEW r \in Requests, NEW x \in Servers, Reply(x, r) PROVE Calls!Next
  <2>1. work[r] = "running" /\ work' = [work EXCEPT ![r] = "answered"] /\ call' = call
    BY <1>4, MessagesTyped DEF Reply, BusInv, Placed
  <2>2. Calls!End(r)
    BY <2>1 DEF Calls!End
  <2>3. QED
    BY <2>2 DEF Calls!Next
<1>5. CASE Dispatch
  BY <1>5, DispatchServes
<1>6. ASSUME NEW x \in Members, Take(x) PROVE Calls!Next \/ UNCHANGED <<call, work>>
  <2> DEFINE m == Head(queue[x])
  <2>1. m \in Message /\ m \in Elems(queue[x])
    BY <1>6, ElemsOfTail DEF Take, BusInv, TypeOK
  <2>2. call' = call /\ (m.kind # "request" => work' = work)
    BY <1>6 DEF Take
  <2>3. CASE m.kind = "request"
    <3>1. work' = [work EXCEPT ![m.about] = "running"]
      BY <1>6, <2>3 DEF Take
    <3>2. m.about \in Requests /\ work[m.about] = "queued"
      BY <2>1, <2>3 DEF Message, BusInv, Placed
    <3>3. Calls!Run(m.about)
      BY <2>2, <3>1, <3>2 DEF Calls!Run
    <3>4. QED
      BY <3>2, <3>3 DEF Calls!Next
  <2>4. QED
    BY <2>2, <2>3
<1>7. ASSUME NEW a \in Agents, Unregister(a) \/ Register(a)
      PROVE  Calls!Next \/ UNCHANGED <<call, work>>
  BY <1>7, StopServes DEF Register
<1>8. CASE StoreStep \/ UNCHANGED vars
  BY <1>8 DEF StoreStep, vars, busVars
<1>9. QED
  BY <1>1, <1>2, <1>3, <1>4, <1>5, <1>6, <1>7, <1>8 DEF Next, BusNext

\* The calls of bus_request, whatever else the bus carries, live as the abstract call
\* of QueryService: worked on at most once, ended once, and never with an answer that
\* belongs to another call.
THEOREM CallsServed == Spec => ServesCalls
<1>1. QED
  BY CallsInitially, StepServes, BusInvariant, PTL DEF Spec, ServesCalls, Calls!Spec, Calls!calls

=============================================================================
