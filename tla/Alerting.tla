------------------------------- MODULE Alerting -------------------------------
(***************************************************************************)
(* How an outage of the broker reaches a phone: the account polls of the   *)
(* adapter, which report a lost connection and its recovery once each, the *)
(* alert bridge and the rules that turn the two into notifications, and    *)
(* the notification service with its suppression of repeated messages and  *)
(* its hourly cap.  Agents send notifications too, and a test message from *)
(* the management API is sent beside the loop of the service.              *)
(***************************************************************************)
EXTENDS Integers, Sequences, FiniteSets

CONSTANTS
    Threshold,  \* ACCOUNT_POLL_FAILURES_UNTIL_DISCONNECTED
    Window,     \* dedup_window_seconds
    Hour,       \* 3600 s, in the unit of Window
    Cap,        \* max_per_hour
    MaxClock,   \* bound: time that passes
    MaxAlerts   \* bound: notifications asked for

ASSUME AlertingAssumption ==
    /\ Threshold \in Nat \ {0} /\ Cap \in Nat \ {0}
    /\ Window \in Nat /\ Hour \in Nat /\ MaxClock \in Nat /\ MaxAlerts \in Nat

Words == {"down", "up"}                 \* what is said of the broker
Keys == Words \cup {"other"}            \* the rules' keys for repeated messages
Kinds == Keys \cup {"test"}             \* a test message has a new key each time
Callers == {"loop", "api"}              \* who is inside notify()
Never == MaxClock + 1
Nothing == [kind |-> "none"]
Posts == [kind: Kinds, notice: BOOLEAN, repeats: 0..MaxAlerts, at: 0..MaxClock]

VARIABLES
    clock,
    failures,   \* _account_poll_failures, as far as it is compared
    lost,       \* _connection_lost
    alerts,     \* notifications on their way to the service, and in its inbox
    recent,     \* _recent: by key, when it was last sent and what was suppressed since
    sent,       \* _sent_times
    capTold,    \* _cap_notice_sent
    posting,    \* by caller, the message whose post is in progress
    phone,      \* history: the times counted for the messages that arrived
    lastWord,   \* history: the last word about the broker that arrived
    missed,     \* history: since then, a word about the broker did not arrive
    owed,       \* history: by key, requests that are neither told of nor given up
    asked       \* history: notifications asked for

alertVars == <<clock, failures, lost, alerts, recent, sent, capTold, posting,
               phone, lastWord, missed, owed, asked>>
pollVarsOfBroker == <<failures, lost>>
phoneVars == <<phone, lastWord>>

AlertTypeOK ==
    /\ clock \in 0..MaxClock
    /\ failures \in 0..Threshold /\ lost \in BOOLEAN
    /\ alerts \in Seq(Keys)
    /\ recent \in [Keys -> [at: 0..Never, suppressed: 0..MaxAlerts]]
    /\ sent \in Seq(0..MaxClock) /\ capTold \in BOOLEAN
    /\ posting \in [Callers -> Posts \cup {Nothing}]
    /\ phone \in Seq(0..MaxClock)
    /\ lastWord \in Words \cup {"none"} /\ missed \in BOOLEAN
    /\ owed \in [Keys -> Int]
    /\ asked \in 0..MaxAlerts

AlertInit ==
    /\ clock = 0 /\ failures = 0 /\ lost = FALSE /\ alerts = <<>>
    /\ recent = [k \in Keys |-> [at |-> Never, suppressed |-> 0]]
    /\ sent = <<>> /\ capTold = FALSE /\ posting = [c \in Callers |-> Nothing]
    /\ phone = <<>> /\ lastWord = "none" /\ missed = FALSE
    /\ owed = [k \in Keys |-> 0] /\ asked = 0

TimePasses ==
    /\ clock < MaxClock /\ clock' = clock + 1
    /\ UNCHANGED <<pollVarsOfBroker, alerts, recent, sent, capTold, posting,
                   phoneVars, missed, owed, asked>>

-----------------------------------------------------------------------------
(* What is sent to the service, over the monitoring bus and the bridge.    *)

Raise(kind) ==
    /\ asked < MaxAlerts /\ asked' = asked + 1
    /\ alerts' = Append(alerts, kind)
RaiseIf(condition, kind) == IF condition THEN Raise(kind) ELSE UNCHANGED <<alerts, asked>>

\* _note_account_poll_success: recovery is reported once.
PollSucceeds ==
    /\ failures' = 0 /\ lost' = FALSE
    /\ RaiseIf(lost, "up")
    /\ UNCHANGED <<clock, recent, sent, capTold, posting, phoneVars, missed, owed>>

\* Mutant: every further failure reports the loss again.
IsLostAgain(n) == n >= Threshold

\* _note_account_poll_failure: the connection is lost after the second failure in a row,
\* which is reported once.
IsLost(n) == ~lost /\ n >= Threshold
PollFails ==
    LET n == IF failures < Threshold THEN failures + 1 ELSE failures
    IN /\ failures' = n
       /\ lost' = (lost \/ IsLost(n))
       /\ RaiseIf(IsLost(n), "down")
       /\ UNCHANGED <<clock, recent, sent, capTold, posting, phoneVars, missed, owed>>

\* An agent or a script asks for a notification.
AgentAsks ==
    /\ Raise("other")
    /\ UNCHANGED <<clock, pollVarsOfBroker, recent, sent, capTold, posting,
                   phoneVars, missed, owed>>

-----------------------------------------------------------------------------
(* notify().                                                               *)

\* _check_dedup: the same key was sent less than a window ago.
Repeated(kind) ==
    kind \in Keys /\ recent[kind].at # Never /\ clock - recent[kind].at < Window

\* Mutant: what is older than the window for repeated messages is forgotten.
CountedInWindow ==
    LET old == {n \in 0..Len(sent) : \A i \in 1..n : clock - sent[i] > Window}
    IN SubSeq(sent, Cardinality(old), Len(sent))

\* _within_rate_limit forgets what is more than an hour old.
Counted ==
    LET old == {n \in 0..Len(sent) : \A i \in 1..n : clock - sent[i] > Hour}
    IN SubSeq(sent, Cardinality(old), Len(sent))
WithinLimit == Len(Counted) < Cap

Misses(kind) == missed' = (missed \/ kind \in Words)
Owe(kind, n) ==
    owed' = IF kind \in Keys THEN [owed EXCEPT ![kind] = @ + n] ELSE owed

\* A repeated message is counted and not sent.
Suppress(kind) ==
    /\ Repeated(kind)
    /\ recent' = [recent EXCEPT ![kind].suppressed = @ + 1]
    /\ Misses(kind) /\ Owe(kind, 1)
    /\ UNCHANGED <<sent, capTold, posting>>

\* Over the cap, after the notice, a message is given up.
GiveUp(kind) ==
    /\ ~Repeated(kind) /\ ~WithinLimit /\ capTold
    /\ sent' = Counted
    /\ Misses(kind)
    /\ UNCHANGED <<recent, capTold, posting, owed>>

\* Otherwise it is posted; the first one over the cap is replaced by a notice.
Post(c, kind) ==
    /\ ~Repeated(kind) /\ (WithinLimit \/ ~capTold)
    /\ sent' = Counted
    /\ capTold' = ~WithinLimit
    /\ posting' = [posting EXCEPT ![c] =
          [kind |-> kind, notice |-> ~WithinLimit, at |-> clock,
           repeats |-> IF kind \in Keys THEN recent[kind].suppressed ELSE 0]]
    /\ Owe(kind, 1)
    /\ UNCHANGED <<recent, missed>>

Notify(c, kind) == Suppress(kind) \/ GiveUp(kind) \/ Post(c, kind)

\* The loop of the service handles one message after the other ...
Handle ==
    /\ posting["loop"] = Nothing /\ alerts # <<>>
    /\ Notify("loop", Head(alerts))
    /\ alerts' = Tail(alerts)
    /\ UNCHANGED <<clock, pollVarsOfBroker, phoneVars, asked>>

\* ... and the management API calls notify() itself.
SendTest ==
    /\ posting["api"] = Nothing
    /\ asked < MaxAlerts /\ asked' = asked + 1
    /\ Notify("api", "test")
    /\ UNCHANGED <<clock, pollVarsOfBroker, alerts, phoneVars>>

\* Mutant: what was suppressed stays counted.
MarkedKeepingCount(kind, at) ==
    IF kind \in Keys THEN [recent EXCEPT ![kind].at = at] ELSE recent

\* _mark_sent, when the post has succeeded.
Marked(kind, at) ==
    IF kind \in Keys THEN [recent EXCEPT ![kind] = [at |-> at, suppressed |-> 0]] ELSE recent

Arrives(c) ==
    LET post == posting[c]
        word == post.kind \in Words /\ ~post.notice
    IN /\ post # Nothing
       /\ posting' = [posting EXCEPT ![c] = Nothing]
       /\ recent' = Marked(post.kind, post.at)
       /\ sent' = Append(sent, post.at)
       /\ phone' = Append(phone, post.at)
       /\ lastWord' = IF word THEN post.kind ELSE lastWord
       /\ missed' = IF word THEN FALSE ELSE missed \/ post.kind \in Words
       /\ Owe(post.kind, -1 - post.repeats)
       /\ UNCHANGED <<clock, pollVarsOfBroker, alerts, capTold, asked>>

PostFails(c) ==
    LET post == posting[c]
    IN /\ post # Nothing
       /\ posting' = [posting EXCEPT ![c] = Nothing]
       /\ Misses(post.kind) /\ Owe(post.kind, -1)
       /\ UNCHANGED <<clock, pollVarsOfBroker, alerts, recent, sent, capTold, phoneVars, asked>>

AlertNext ==
    \/ TimePasses \/ PollSucceeds \/ PollFails \/ AgentAsks
    \/ Handle \/ SendTest
    \/ \E c \in Callers : Arrives(c) \/ PostFails(c)

AlertSpec == AlertInit /\ [][AlertNext]_alertVars

-----------------------------------------------------------------------------
(* Properties.                                                             *)

\* In no hour do more messages arrive than the cap allows, the notice about it, and one
\* for each caller but the first that looked at the count while another was posting.
CapHolds ==
    \A t \in 0..clock :
        Cardinality({i \in DOMAIN phone : phone[i] \in t..(t + Hour)})
            <= Cap + Cardinality(Callers)

\* A repeated message is never lost silently: what is suppressed is told with the next
\* message of its key, once, whatever is over the cap, fails or is posted in between.
SuppressedAreTold ==
    \A k \in Keys :
        owed[k] = recent[k].suppressed
                  + Cardinality({c \in Callers : posting[c].kind = k})

\* The phone is never told twice in a row that the broker is lost, nor that it is back,
\* nor first that it is back, unless a word in between did not arrive: one was
\* suppressed, over the cap, or its post failed.
WordsAlternate ==
    [][\A c \in Callers :
          posting[c].kind \in Words /\ ~posting[c].notice /\ phone' # phone
             /\ posting'[c] # posting[c] =>
                missed \/ (posting[c].kind # lastWord
                           /\ (lastWord = "none" => posting[c].kind = "down"))]_alertVars
===============================================================================
