----------------------------- MODULE MemberLife -----------------------------
(***************************************************************************)
(* The life of agents and event composers while the configuration is       *)
(* edited.  A save of the system configuration starts newly enabled        *)
(* members, stops disabled ones and asks the configuration service to send *)
(* every running member its configuration again.  A save of the            *)
(* notifications reads the same file first and writes all of it back.      *)
(* Requests and answers travel over the event bus, in order.               *)
(***************************************************************************)
EXTENDS Naturals, Sequences, FiniteSets

CONSTANTS
    Agents,      \* agents that may be configured
    Composers,   \* event composers that may be configured
    MaxSaves,    \* bound: members in the configuration and saves of it, together
    MaxEdits,    \* bound: members whose part of the configuration one save changes
    MaxLost      \* bound: answers that meet a full queue

ASSUME MemberLifeAssumption ==
    /\ IsFiniteSet(Agents) /\ IsFiniteSet(Composers)
    /\ Agents \cap Composers = {}
    /\ MaxSaves \in Nat
    /\ MaxEdits \in Nat
    /\ MaxLost \in Nat

Members == Agents \cup Composers

VARIABLES
    listed,      \* the members the configuration has an entry for
    config,      \* config.json5, and the same content in memory and in the service
    instance,    \* every instance of each member, the latest last
    registered,  \* members with a queue on the bus
    active,      \* _active_agents and _active_composers
    asks,        \* configuration requests on their way to the service
    reading,     \* the request for which the service waits for the database
    tells,       \* answers on their way to the members
    held,        \* what a save of the notifications has read
    saves,       \* history: saves of the system configuration
    reverted,    \* history: a save of the notifications has undone another save
    lost         \* history: answers that met a full queue

vars == <<listed, config, instance, registered, active, asks, reading, tells, held, saves, reverted, lost>>

Versions == 1..(MaxSaves + 1)

\* A configuration: which members it enables, and which of them _apply_config rejects.
Config == [version: Versions, on: SUBSET Members, bad: SUBSET Members]

\* What an answer of the service holds: the member's own part, the profiles it refers to.
Settings == [design: 0..(MaxSaves + 1), profile: 0..(MaxSaves + 1), sound: BOOLEAN]
NoSettings == [design |-> 0, profile |-> 0, sound |-> TRUE]

Lives == {"created", "asking", "running", "stopping", "ended"}
Instance == [life: Lives,
             boot: BOOLEAN,      \* created at the start of the program, without a task handle
             stopped: BOOLEAN,   \* stop() was called; only an agent remembers it
             inbox: Seq(Settings),
             has: Settings]

Reading == [to: Agents, design: Versions, sound: BOOLEAN]

TypeOK ==
    /\ listed \in SUBSET Members
    /\ config \in Config
    /\ instance \in [Members -> Seq(Instance)]
    /\ registered \in SUBSET Members
    /\ active \in SUBSET Members
    /\ asks \in Seq(Members)
    /\ reading \in SUBSET Reading
    /\ tells \in Seq([to: Members, settings: Settings])
    /\ held \in {<<>>} \cup {<<c>> : c \in Config}
    /\ saves \in 0..MaxSaves
    /\ reverted \in BOOLEAN
    /\ lost \in 0..MaxLost

NewInstance(boot) == [life |-> "created", boot |-> boot, stopped |-> FALSE,
                      inbox |-> <<>>, has |-> NoSettings]

\* The bootstrap creates the members that are enabled; each registers its queue.
Init ==
    /\ listed \in SUBSET Members
    /\ \E on \in SUBSET listed : config = [version |-> 1, on |-> on, bad |-> {}]
    /\ registered = config.on
    /\ active = config.on
    /\ instance = [m \in Members |->
                      IF m \in config.on THEN <<NewInstance(TRUE)>> ELSE <<>>]
    /\ asks = <<>> /\ reading = {} /\ tells = <<>>
    /\ held = <<>>
    /\ saves = 0 /\ reverted = FALSE /\ lost = 0

-----------------------------------------------------------------------------
(* Starting and stopping.                                                  *)

\* stop() ends the loops of an agent, and a member that a save started is cancelled
\* besides.  Otherwise an agent that is not running yet remembers that it has to stop, the
\* loops of a composer end when they next look, and a composer that is not running yet
\* forgets about it.
LifeAfterStop(m, i) ==
    IF i.life = "running" /\ i.boot /\ m \in Composers THEN "stopping"
    ELSE IF i.life \in {"created", "asking", "stopping"} /\ i.boot THEN i.life
    ELSE "ended"

\* Nobody reads the queue of an instance that has ended.
Become(i, life) ==
    [i EXCEPT !.life = life, !.inbox = IF life = "ended" THEN <<>> ELSE i.inbox]

Stop(m, i) == [Become(i, LifeAfterStop(m, i)) EXCEPT !.stopped = TRUE]

\* What a save starts: every enabled member without a queue.
ToStart(on) == on \ registered

\* What a save stops: what was enabled before it and is not any more.
ToStop(on) == (config.on \ on) \cap active

\* Orders in which the members of a set may stand in the configuration.
Orders(S) == {s \in [1..Cardinality(S) -> S] : \A m \in S : \E k \in DOMAIN s : s[k] = m}

\* The configuration is requested again for every enabled member that is registered.
RequestAgainForAgents(on) ==
    \E a \in Orders(on \cap registered' \cap Agents) : asks' = asks \o a

RequestAgain(on) ==
    \E a \in Orders(on \cap registered' \cap Agents) :
    \E c \in Orders(on \cap registered' \cap Composers) : asks' = asks \o a \o c

\* What somebody edits: members that are enabled or disabled, broken or repaired.
Edited(on, bad) ==
    {m \in Members : \/ (m \in on) # (m \in config.on)
                     \/ (m \in bad) # (m \in config.bad)}

\* A save of the system configuration, from the file to the last request.
Save(on, bad) ==
    /\ saves + Cardinality(listed) < MaxSaves
    /\ Cardinality(Edited(on, bad)) <= MaxEdits
    /\ saves' = saves + 1
    /\ config' = [version |-> saves + 2, on |-> on, bad |-> bad]
    /\ instance' = [m \in Members |->
          IF m \in ToStart(on) THEN Append(instance[m], NewInstance(FALSE))
          ELSE IF m \in ToStop(on) /\ instance[m] # <<>>
          THEN [instance[m] EXCEPT ![Len(instance[m])] = Stop(m, instance[m][Len(instance[m])])]
          ELSE instance[m]]
    /\ registered' = (registered \cup ToStart(on)) \ ToStop(on)
    /\ active' = (active \cup ToStart(on)) \ ToStop(on)
    /\ RequestAgain(on)
    /\ UNCHANGED <<listed, reading, tells, held, reverted, lost>>

\* A save of the notifications reads the file in another thread (bound: no more of them
\* once one has undone something or nothing is left that could be undone) ...
ReadForNotifications ==
    /\ held = <<>>
    /\ ~reverted /\ saves + Cardinality(listed) < MaxSaves
    /\ held' = <<config>>
    /\ UNCHANGED <<listed, config, instance, registered, active, asks, reading, tells, saves, reverted, lost>>

\* ... and writes all of it back.  It starts and stops nobody.
WriteNotifications ==
    /\ held # <<>>
    /\ config' = held[1]
    /\ reverted' = (reverted \/ held[1] # config)
    /\ held' = <<>>
    /\ UNCHANGED <<listed, instance, registered, active, asks, reading, tells, saves, lost>>

-----------------------------------------------------------------------------
(* The configuration service: one request after the other.                 *)

\* It takes the next request when it has answered the one before.
MayReadAlways == TRUE
MayRead == reading = {}

\* Which requests are about an agent.
ForAgentOrComposer(m) == m \in Members
ForAgent(m) == m \in Agents

\* It waits for the database between reading an agent's part and reading the profiles.
ReadDesign ==
    /\ MayRead /\ asks # <<>>
    /\ ForAgent(Head(asks)) /\ Head(asks) \in config.on
    /\ reading' = reading \cup {[to |-> Head(asks), design |-> config.version,
                                 sound |-> Head(asks) \notin config.bad]}
    /\ asks' = Tail(asks)
    /\ UNCHANGED <<listed, config, instance, registered, active, tells, held, saves, reverted, lost>>

Answer(r) ==
    /\ tells' = Append(tells,
          [to |-> r.to,
           settings |-> [design |-> r.design, profile |-> config.version, sound |-> r.sound]])
    /\ reading' = reading \ {r}
    /\ UNCHANGED <<listed, config, instance, registered, active, asks, held, saves, reverted, lost>>

AnswerComposer ==
    /\ MayRead /\ asks # <<>>
    /\ Head(asks) \in Composers \cap config.on
    /\ tells' = Append(tells,
          [to |-> Head(asks),
           settings |-> [design |-> config.version, profile |-> config.version,
                         sound |-> Head(asks) \notin config.bad]])
    /\ asks' = Tail(asks)
    /\ UNCHANGED <<listed, config, instance, registered, active, reading, held, saves, reverted, lost>>

\* A request for a member that is not enabled gets no answer.
Ignore ==
    /\ MayRead /\ asks # <<>>
    /\ Head(asks) \notin config.on
    /\ asks' = Tail(asks)
    /\ UNCHANGED <<listed, config, instance, registered, active, reading, tells, held, saves, reverted, lost>>

-----------------------------------------------------------------------------
(* The bus and the members.                                                *)

Update(m, g, i) == instance' = [instance EXCEPT ![m] = [instance[m] EXCEPT ![g] = i]]

\* An answer goes into the queue of whoever is registered under the name now.
Deliver ==
    /\ tells # <<>>
    /\ tells' = Tail(tells)
    /\ LET m == Head(tells).to
           g == Len(instance[m])
       IN IF m \in registered /\ instance[m][g].life # "ended"
          THEN Update(m, g, [instance[m][g] EXCEPT
                                !.inbox = Append(instance[m][g].inbox, Head(tells).settings)])
          ELSE instance' = instance
    /\ UNCHANGED <<listed, config, registered, active, asks, reading, held, saves, reverted, lost>>

\* Or it meets a full queue.
Lose ==
    /\ tells # <<>> /\ Head(tells).to \in registered
    /\ lost < MaxLost
    /\ lost' = lost + 1
    /\ tells' = Tail(tells)
    /\ UNCHANGED <<listed, config, instance, registered, active, asks, reading, held, saves, reverted>>

\* start() publishes its request and waits for the answer.
Begin(m, g) ==
    /\ instance[m][g].life = "created"
    /\ Update(m, g, Become(instance[m][g], "asking"))
    /\ asks' = Append(asks, m)
    /\ UNCHANGED <<listed, config, registered, active, reading, tells, held, saves, reverted, lost>>

\* An exception in start(): a member that a save started is removed, so that the next
\* save retries it; one of the bootstrap only ends.
CleanUpQueueOnly(m, i) ==
    /\ registered' = IF i.boot THEN registered ELSE registered \ {m}
    /\ active' = active

CleanUp(m, i) ==
    /\ registered' = IF i.boot THEN registered ELSE registered \ {m}
    /\ active' = IF i.boot THEN active ELSE active \ {m}

\* After the configuration is applied, an agent looks at _stop_requested.
MayRunAlways(m, i) == TRUE
MayRun(m, i) == m \in Composers \/ ~i.stopped

Taken(i) == [i EXCEPT !.inbox = Tail(i.inbox), !.has = Head(i.inbox)]

\* A waiting instance applies its configuration and starts its loops.
Receive(m, g) ==
    LET i == instance[m][g]
    IN /\ i.life = "asking" /\ i.inbox # <<>>
       /\ Head(i.inbox).sound
       /\ Update(m, g, Become(Taken(i), IF MayRun(m, i) THEN "running" ELSE "ended"))
       /\ UNCHANGED <<listed, config, registered, active, asks, reading, tells, held, saves, reverted, lost>>

\* _apply_config raises: start() of an agent returns, that of a composer fails.
ReceiveBad(m, g) ==
    LET i == instance[m][g]
    IN /\ i.life = "asking" /\ i.inbox # <<>>
       /\ ~Head(i.inbox).sound
       /\ Update(m, g, Become(Taken(i), "ended"))
       /\ IF m \in Composers THEN CleanUp(m, i) ELSE UNCHANGED <<registered, active>>
       /\ UNCHANGED <<listed, config, asks, reading, tells, held, saves, reverted, lost>>

\* No answer within 30 s: start() returns, and the member stays registered.
TimesOut(m, g) ==
    /\ instance[m][g].life = "asking" /\ instance[m][g].inbox = <<>>
    /\ Update(m, g, Become(instance[m][g], "ended"))
    /\ UNCHANGED <<listed, config, registered, active, asks, reading, tells, held, saves, reverted, lost>>

\* The message loop applies a configuration that was sent again; an agent survives one
\* that it cannot apply.
Refresh(m, g) ==
    LET i == instance[m][g]
    IN /\ i.life \in {"running", "stopping"} /\ i.inbox # <<>>
       /\ m \in Agents \/ Head(i.inbox).sound
       /\ Update(m, g, Become(Taken(i), IF i.life = "running" THEN "running" ELSE "ended"))
       /\ UNCHANGED <<listed, config, registered, active, asks, reading, tells, held, saves, reverted, lost>>

\* A composer's loops end with the exception.
RefreshBad(m, g) ==
    LET i == instance[m][g]
    IN /\ i.life \in {"running", "stopping"} /\ i.inbox # <<>>
       /\ m \in Composers /\ ~Head(i.inbox).sound
       /\ Update(m, g, Become(Taken(i), "ended"))
       /\ CleanUp(m, i)
       /\ UNCHANGED <<listed, config, asks, reading, tells, held, saves, reverted, lost>>

\* The loops of a stopped composer look at _running.
WindDown(m, g) ==
    /\ instance[m][g].life = "stopping"
    /\ Update(m, g, Become(instance[m][g], "ended"))
    /\ UNCHANGED <<listed, config, registered, active, asks, reading, tells, held, saves, reverted, lost>>

-----------------------------------------------------------------------------
MemberStep(m, g) ==
    \/ Begin(m, g) \/ Receive(m, g) \/ ReceiveBad(m, g) \/ TimesOut(m, g)
    \/ Refresh(m, g) \/ RefreshBad(m, g) \/ WindDown(m, g)

ServiceStep == ReadDesign \/ (\E r \in reading : Answer(r)) \/ AnswerComposer \/ Ignore

Next ==
    \/ \E on \in SUBSET listed : \E bad \in SUBSET on : Save(on, bad)
    \/ ReadForNotifications
    \/ WriteNotifications
    \/ ServiceStep
    \/ Deliver
    \/ Lose
    \/ \E m \in Members : \E g \in 1..Len(instance[m]) : MemberStep(m, g)

\* Every task of the event loop gets its turn.
Fairness ==
    /\ WF_vars(ServiceStep)
    /\ WF_vars(Deliver)
    /\ \A m \in Members : \A g \in Versions :
          WF_vars(g \in 1..Len(instance[m]) /\ MemberStep(m, g))

Spec == Init /\ [][Next]_vars
FairSpec == Spec /\ Fairness

-----------------------------------------------------------------------------
(* Properties.                                                             *)

\* A composer of the bootstrap that was stopped while it waited for its configuration.
Forgetful(m, i) == m \in Composers /\ i.boot /\ i.stopped

\* Unless one save has undone another: whoever has a queue is enabled and known to the
\* endpoints, and whoever is enabled has a queue, but for a composer that was removed
\* because it could not apply its configuration, which the next save will start again.
RegistryMatches ==
    ~reverted =>
        /\ registered = active
        /\ registered \subseteq config.on
        /\ \A m \in config.on \ registered :
              m \in Composers /\ \E g \in 1..Len(instance[m]) : ~instance[m][g].has.sound

\* However saves, answers and timeouts follow each other, only the latest instance of an
\* agent or composer runs, and it has the queue of its name: a disabled member does not
\* trade, and no event is handled twice.  (A composer of the bootstrap may: see Forgetful.)
RunsOnce ==
    \A m \in Members : \A g \in 1..Len(instance[m]) :
        instance[m][g].life = "running" =>
            \/ m \in registered /\ g = Len(instance[m])
            \/ Forgetful(m, instance[m][g])

\* No member is given an older configuration than the one it has, neither its own part nor
\* the profiles that part refers to.
ConfigNeverGoesBack ==
    [][\A m \in Members : \A g \in 1..Len(instance[m]) :
          \/ reverted'
          \/ /\ instance'[m][g].has.design >= instance[m][g].has.design
             /\ instance'[m][g].has.profile >= instance[m][g].has.profile]_vars

\* An enabled member runs what the latest save says, or its start has failed; of a disabled
\* member nothing runs.
Failed(i) == i.life = "ended" /\ (i.has.design = 0 \/ ~i.has.sound)
Current(i) == i.life = "running" /\ {i.has.design, i.has.profile} = {config.version}
Settled(m) ==
    /\ m \in config.on \cap registered =>
          LET i == instance[m][Len(instance[m])] IN Current(i) \/ Failed(i)
    /\ m \notin config.on =>
          \A g \in 1..Len(instance[m]) :
              instance[m][g].life = "ended" \/ Forgetful(m, instance[m][g])

\* When the saves stop, what stands in the configuration is what runs, without a restart of
\* the program, unless an answer met a full queue or one save undid another.
ConfigConverges == <>[](lost > 0 \/ reverted \/ \A m \in Members : Settled(m))
=============================================================================
