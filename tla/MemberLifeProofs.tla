-------------------------- MODULE MemberLifeProofs --------------------------
(***************************************************************************)
(* What holds of MemberLife for every set of agents and composers and any  *)
(* number of saves and lost answers.                                       *)
(***************************************************************************)
EXTENDS MemberLife, FiniteSetTheorems, TLAPS

-----------------------------------------------------------------------------
(* Instances and sequences of them.                                        *)

LEMMA BecomeTyped ==
    ASSUME NEW i \in Instance, NEW life \in Lives
    PROVE  /\ Become(i, life) \in Instance
           /\ Become(i, life).life = life
           /\ Become(i, life).boot = i.boot
           /\ Become(i, life).stopped = i.stopped
           /\ Become(i, life).has = i.has
<1>1. <<>> \in Seq(Settings)
  OBVIOUS
<1> QED  BY <1>1 DEF Become, Instance

LEMMA TakenTyped ==
    ASSUME NEW i \in Instance, i.inbox # <<>>
    PROVE  /\ Taken(i) \in Instance
           /\ Taken(i).life = i.life
           /\ Taken(i).boot = i.boot
           /\ Taken(i).stopped = i.stopped
           /\ Taken(i).has = Head(i.inbox)
<1>1. i.inbox \in Seq(Settings)
  BY DEF Instance
<1>2. Head(i.inbox) \in Settings /\ Tail(i.inbox) \in Seq(Settings)
  BY <1>1
<1> QED  BY <1>2 DEF Taken, Instance

LEMMA NewInstanceTyped ==
    ASSUME MaxSaves \in Nat, NEW boot \in BOOLEAN
    PROVE  NewInstance(boot) \in Instance /\ NewInstance(boot).boot = boot
<1>1. <<>> \in Seq(Settings) /\ NoSettings \in Settings
  BY DEF NoSettings, Settings
<1> QED  BY <1>1 DEF NewInstance, Instance, Lives

\* A stopped instance has ended, or it is one of the bootstrap that has to notice.
LEMMA StopTyped ==
    ASSUME NEW m \in Members, NEW i \in Instance
    PROVE  /\ Stop(m, i) \in Instance
           /\ Stop(m, i).boot = i.boot
           /\ Stop(m, i).stopped
           /\ Stop(m, i).has = i.has
           /\ Stop(m, i).life # "running"
           /\ Stop(m, i).life # "ended" => i.boot
           /\ i.life = "ended" => Stop(m, i).life = "ended"
<1> DEFINE life == LifeAfterStop(m, i)
<1>1. life \in Lives /\ life # "running" /\ (life # "ended" => i.boot)
      /\ (i.life = "ended" => life = "ended")
  BY DEF LifeAfterStop, Instance, Lives
<1> HIDE DEF life
<1> DEFINE j == Become(i, life)
<1>2. j \in Instance /\ j.life = life /\ j.boot = i.boot /\ j.has = i.has
  BY <1>1, BecomeTyped
<1>3. Stop(m, i) = [j EXCEPT !.stopped = TRUE]
  BY DEF Stop, life
<1> HIDE DEF j
<1>4. [j EXCEPT !.stopped = TRUE] \in Instance
  BY <1>2 DEF Instance
<1>5. /\ Stop(m, i).life = j.life /\ Stop(m, i).boot = j.boot
      /\ Stop(m, i).has = j.has /\ Stop(m, i).stopped = TRUE
  BY <1>2, <1>3 DEF Instance
<1> QED  BY <1>1, <1>2, <1>3, <1>4, <1>5

\* Replacing one instance leaves the others alone.
LEMMA UpdateOne ==
    ASSUME instance \in [Members -> Seq(Instance)],
           NEW m \in Members, NEW g \in 1..Len(instance[m]), NEW j \in Instance,
           Update(m, g, j)
    PROVE  /\ instance' \in [Members -> Seq(Instance)]
           /\ instance'[m][g] = j
           /\ \A n \in Members : Len(instance'[n]) = Len(instance[n])
           /\ \A n \in Members : \A h \in 1..Len(instance[n]) :
                 n # m \/ h # g => instance'[n][h] = instance[n][h]
<1> DEFINE new == [instance[m] EXCEPT ![g] = j]
<1>1. instance[m] \in Seq(Instance)
  OBVIOUS
<1>2. new \in Seq(Instance) /\ Len(new) = Len(instance[m]) /\ new[g] = j
      /\ \A h \in 1..Len(instance[m]) : h # g => new[h] = instance[m][h]
  BY <1>1
<1>3. instance' = [instance EXCEPT ![m] = new]
  BY DEF Update
<1> HIDE DEF new
<1> QED  BY <1>2, <1>3

LEMMA AppendOne ==
    ASSUME NEW S, NEW s \in Seq(S), NEW e \in S
    PROVE  /\ Append(s, e) \in Seq(S)
           /\ Len(Append(s, e)) = Len(s) + 1
           /\ Append(s, e)[Len(s) + 1] = e
           /\ \A k \in 1..Len(s) : Append(s, e)[k] = s[k]
  OBVIOUS

LEMMA TailTyped ==
    ASSUME NEW S, NEW s \in Seq(S), s # <<>>
    PROVE  Tail(s) \in Seq(S) /\ Head(s) \in S
  OBVIOUS

\* Whatever is requested again are requests.
LEMMA OrdersTyped ==
    ASSUME NEW S \in (SUBSET Agents) \cup (SUBSET Composers),
           NEW s \in Orders(S)
    PROVE  s \in Seq(Members)
<1>0. S \subseteq Agents \/ S \subseteq Composers
  OBVIOUS
<1>1. IsFiniteSet(S)
  BY <1>0, MemberLifeAssumption, FS_Subset
<1>2. Cardinality(S) \in Nat
  BY <1>1, FS_CardinalityType
<1>a. s \in [1..Cardinality(S) -> S] /\ S \subseteq Members
  BY <1>0 DEF Orders, Members
<1>3. s \in [1..Cardinality(S) -> Members]
  BY <1>a
<1> QED  BY <1>2, <1>3

-----------------------------------------------------------------------------
(* The invariant.                                                          *)

\* Whoever has not ended is the latest instance and has the queue of its name, or it was
\* created by the bootstrap and has been stopped.
OnlyLatestLives ==
    \A m \in Members : \A g \in 1..Len(instance[m]) :
        instance[m][g].life # "ended" =>
            \/ m \in registered /\ g = Len(instance[m])
            \/ /\ instance[m][g].boot /\ instance[m][g].stopped
               /\ instance[m][g].life = "running" => m \in Composers

\* Whoever has a queue has been created.
RegisteredExist == \A m \in registered : instance[m] # <<>>

\* A composer that ended with a configuration it could not apply.
Removed(m) ==
    m \in Composers /\ \E g \in 1..Len(instance[m]) :
                          instance[m][g].life = "ended" /\ ~instance[m][g].has.sound

Registry ==
    ~reverted =>
        /\ registered = active
        /\ registered \subseteq config.on
        /\ \A m \in config.on \ registered : Removed(m)

Inv == TypeOK /\ OnlyLatestLives /\ RegisteredExist /\ Registry

LEMMA InitInv == Init => Inv
<1> SUFFICES ASSUME Init PROVE Inv
  OBVIOUS
<1> USE MemberLifeAssumption
<1>1. PICK on \in SUBSET listed : config = [version |-> 1, on |-> on, bad |-> {}]
  BY DEF Init
<1>2. config \in Config /\ config.on = on /\ on \subseteq Members
  BY <1>1 DEF Config, Versions, Init
<1> DEFINE first == NewInstance(TRUE)
<1>3. <<first>> \in Seq(Instance) /\ <<>> \in Seq(Instance)
  <2>1. first \in Instance
    BY NewInstanceTyped DEF MemberLifeAssumption
  <2> HIDE DEF first
  <2> QED  BY <2>1
<1>a. instance = [m \in Members |-> IF m \in on THEN <<first>> ELSE <<>>]
  BY <1>2 DEF Init
<1> HIDE DEF first
<1>4. /\ instance \in [Members -> Seq(Instance)]
      /\ \A m \in Members : m \in on => instance[m] = <<first>>
      /\ \A m \in Members : m \notin on => instance[m] = <<>>
  BY <1>3, <1>a
<1>5. TypeOK
  <2>1. listed \in SUBSET Members /\ registered \in SUBSET Members /\ active \in SUBSET Members
    BY <1>2 DEF Init
  <2>2. asks \in Seq(Members) /\ tells \in Seq([to: Members, settings: Settings])
    <3>1. asks = <<>> /\ tells = <<>>
      BY DEF Init
    <3> QED  BY <3>1
  <2>3. reading \in SUBSET Reading /\ held \in {<<>>} \cup {<<c>> : c \in Config}
    <3>1. reading = {} /\ held = <<>>
      BY DEF Init
    <3> QED  BY <3>1
  <2>4. saves \in 0..MaxSaves /\ reverted \in BOOLEAN /\ lost \in 0..MaxLost
    <3>1. saves = 0 /\ lost = 0 /\ MaxSaves \in Nat /\ MaxLost \in Nat
      BY DEF Init
    <3>2. reverted \in BOOLEAN
      BY DEF Init
    <3> QED  BY <3>1, <3>2
  <2> QED  BY <1>2, <1>4, <2>1, <2>2, <2>3, <2>4 DEF TypeOK
<1>6. OnlyLatestLives
  <2> SUFFICES ASSUME NEW m \in Members, NEW g \in 1..Len(instance[m])
               PROVE  m \in registered /\ g = Len(instance[m])
    BY DEF OnlyLatestLives
  <2>1. m \in on
    <3>1. m \notin on => instance[m] = <<>>
      BY <1>4
    <3>2. Len(<<>>) = 0 /\ 1..0 = {}
      OBVIOUS
    <3> QED  BY <3>1, <3>2
  <2>2. Len(instance[m]) = 1
    <3>1. instance[m] = <<first>>
      BY <1>4, <2>1
    <3>2. Len(<<first>>) = 1
      OBVIOUS
    <3> QED  BY <3>1, <3>2
  <2> QED  BY <1>2, <2>1, <2>2 DEF Init
<1>7. RegisteredExist /\ Registry
  BY <1>2, <1>4 DEF Init, RegisteredExist, Registry
<1> QED  BY <1>5, <1>6, <1>7 DEF Inv

-----------------------------------------------------------------------------
(* The steps of a member.                                                  *)

\* One instance of a member moves on, and it may lose its queue when it ends.
LEMMA MemberMoves ==
    ASSUME Inv, NEW m \in Members, NEW g \in 1..Len(instance[m]), NEW j \in Instance,
           Update(m, g, j),
           instance[m][g].life # "ended",
           j.boot = instance[m][g].boot, j.stopped = instance[m][g].stopped,
           j.life = "running" => \/ instance[m][g].life = "running"
                                 \/ m \in Composers \/ ~j.stopped,
           config' = config, reverted' = reverted,
           \/ registered' = registered /\ active' = active
           \/ /\ registered' = registered \ {m} /\ active' = active \ {m}
              /\ m \in Composers /\ j.life = "ended" /\ ~j.boot /\ ~j.has.sound
    PROVE  OnlyLatestLives' /\ RegisteredExist' /\ Registry'
<1>1. instance \in [Members -> Seq(Instance)] /\ registered \subseteq Members
      /\ config.on \subseteq Members
  BY DEF Inv, TypeOK, Config
<1>2. /\ instance'[m][g] = j
      /\ \A n \in Members : Len(instance'[n]) = Len(instance[n])
      /\ \A n \in Members : \A h \in 1..Len(instance[n]) :
            n # m \/ h # g => instance'[n][h] = instance[n][h]
  BY <1>1, UpdateOne
<1>3. \/ m \in registered /\ g = Len(instance[m])
      \/ instance[m][g].boot /\ instance[m][g].stopped
            /\ (instance[m][g].life = "running" => m \in Composers)
  BY DEF Inv, OnlyLatestLives
<1>4. OnlyLatestLives'
  <2> SUFFICES ASSUME NEW n \in Members, NEW h \in 1..Len(instance'[n]),
                      instance'[n][h].life # "ended"
               PROVE  \/ n \in registered' /\ h = Len(instance'[n])
                      \/ /\ instance'[n][h].boot /\ instance'[n][h].stopped
                         /\ instance'[n][h].life = "running" => n \in Composers
    BY DEF OnlyLatestLives
  <2>1. h \in 1..Len(instance[n]) /\ Len(instance'[n]) = Len(instance[n])
    BY <1>2
  <2>2. CASE n = m /\ h = g
    <3>1. registered' = registered
      BY <1>2, <2>2
    <3> QED  BY <1>2, <1>3, <2>1, <2>2, <3>1
  <2>3. CASE n # m \/ h # g
    <3>1. instance'[n][h] = instance[n][h]
      BY <1>2, <2>1, <2>3
    <3>2. \/ n \in registered /\ h = Len(instance[n])
          \/ /\ instance[n][h].boot /\ instance[n][h].stopped
             /\ instance[n][h].life = "running" => n \in Composers
      BY <2>1, <3>1 DEF Inv, OnlyLatestLives
    <3>3. n = m /\ registered' # registered => h # Len(instance[n])
      BY <1>3, <2>3
    <3> QED  BY <2>1, <3>1, <3>2, <3>3
  <2> QED  BY <2>2, <2>3
<1>5. RegisteredExist'
  <2> SUFFICES ASSUME NEW n \in registered' PROVE instance'[n] # <<>>
    BY DEF RegisteredExist
  <2>1. n \in Members /\ instance[n] \in Seq(Instance) /\ instance[n] # <<>>
    BY <1>1 DEF Inv, RegisteredExist
  <2>2. Len(instance[n]) # 0
    BY <2>1
  <2> QED  BY <1>2, <2>1, <2>2
<1>6. \A n \in Members : Removed(n) => Removed(n)'
  <2> SUFFICES ASSUME NEW n \in Composers, NEW h \in 1..Len(instance[n]), n \in Members,
                      instance[n][h].life = "ended", ~instance[n][h].has.sound
               PROVE  \E f \in 1..Len(instance'[n]) :
                         instance'[n][f].life = "ended" /\ ~instance'[n][f].has.sound
    BY DEF Removed
  <2>1. instance'[n][h] = instance[n][h] /\ h \in 1..Len(instance'[n])
    BY <1>2
  <2> QED  BY <2>1
<1>7. registered' # registered => Removed(m)'
  BY <1>2 DEF Removed
<1>8. Registry'
  <2> SUFFICES ASSUME ~reverted'
               PROVE  /\ registered' = active'
                      /\ registered' \subseteq config'.on
                      /\ \A n \in config'.on \ registered' : Removed(n)'
    BY DEF Registry
  <2>1. /\ registered = active
        /\ registered \subseteq config.on
        /\ \A n \in config.on \ registered : Removed(n)
    BY DEF Inv, Registry
  <2>2. registered' = active' /\ registered' \subseteq config'.on
    BY <2>1
  <2>3. ASSUME NEW n \in config'.on \ registered' PROVE Removed(n)'
    <3>1. CASE n \in registered
      <4>1. n = m /\ registered' # registered
        BY <2>3, <3>1
      <4> QED  BY <1>7, <4>1
    <3>2. CASE n \notin registered
      <4>1. Removed(n) /\ n \in Members
        BY <1>1, <2>1, <2>3, <3>2
      <4> QED  BY <1>6, <4>1
    <3> QED  BY <3>1, <3>2
  <2> QED  BY <2>2, <2>3
<1> QED  BY <1>4, <1>5, <1>8

\* With the types of what the bus and the service hold.
LEMMA MemberStepInv ==
    ASSUME Inv, NEW m \in Members, NEW g \in 1..Len(instance[m]), MemberStep(m, g)
    PROVE  Inv'
<1> DEFINE i == instance[m][g]
<1>1. instance \in [Members -> Seq(Instance)] /\ TypeOK
  BY DEF Inv, TypeOK
<1>2. i \in Instance
  BY <1>1
<1>3. i.inbox \in Seq(Settings) /\ i.life \in Lives
  BY <1>2 DEF Instance
<1>a. ASSUME i.inbox # <<>> PROVE Head(i.inbox) \in Settings
  BY <1>3, <1>a
<1> HIDE DEF i
<1>4. ASSUME NEW life \in Lives, NEW j \in {i, Taken(i)}, j = i \/ i.inbox # <<>>,
             Update(m, g, Become(j, life)), i.life # "ended",
             life = "running" => i.life = "running" \/ m \in Composers \/ ~i.stopped,
             asks' \in Seq(Members), UNCHANGED <<config, reverted>>,
             UNCHANGED <<listed, reading, tells, held, saves, lost>>,
             \/ registered' = registered /\ active' = active
             \/ /\ registered' = registered \ {m} /\ active' = active \ {m}
                /\ m \in Composers /\ life = "ended" /\ ~i.boot /\ ~j.has.sound
      PROVE  Inv'
  <2>1. j \in Instance /\ j.boot = i.boot /\ j.stopped = i.stopped
    BY <1>2, <1>4, TakenTyped
  <2> DEFINE k == Become(j, life)
  <2>2. k \in Instance /\ k.life = life /\ k.boot = i.boot /\ k.stopped = i.stopped
        /\ k.has = j.has
    BY <1>4, <2>1, BecomeTyped
  <2>3. Update(m, g, k)
    BY <1>4
  <2> HIDE DEF k
  <2>4. OnlyLatestLives' /\ RegisteredExist' /\ Registry'
    BY <1>4, <2>2, <2>3, MemberMoves DEF i
  <2>5. instance' \in [Members -> Seq(Instance)]
    BY <1>1, <2>2, <2>3, UpdateOne
  <2>6. registered' \in SUBSET Members /\ active' \in SUBSET Members
    BY <1>1, <1>4 DEF TypeOK
  <2>7. TypeOK'
    BY <1>1, <1>4, <2>5, <2>6 DEF TypeOK
  <2> QED  BY <2>4, <2>7 DEF Inv
<1>5. CASE Begin(m, g)
  <2>1. asks' \in Seq(Members)
    BY <1>1, <1>5, AppendOne DEF Begin, TypeOK
  <2>2. i.life = "created" /\ Update(m, g, Become(i, "asking"))
    BY <1>5 DEF Begin, i
  <2> QED  BY <1>4, <1>5, <2>1, <2>2 DEF Begin, Lives
<1>6. CASE Receive(m, g)
  <2>1. asks' \in Seq(Members) /\ i.life = "asking" /\ i.inbox # <<>>
    BY <1>1, <1>6 DEF Receive, TypeOK, i
  <2>2. CASE MayRun(m, i)
    <3>1. Update(m, g, Become(Taken(i), "running"))
      BY <1>6, <2>2 DEF Receive, i
    <3>2. m \in Composers \/ ~i.stopped
      BY <2>2 DEF MayRun
    <3> QED  BY <1>4, <1>6, <2>1, <3>1, <3>2 DEF Receive, Lives
  <2>3. CASE ~MayRun(m, i)
    <3>1. Update(m, g, Become(Taken(i), "ended"))
      BY <1>6, <2>3 DEF Receive, i
    <3> QED  BY <1>4, <1>6, <2>1, <3>1 DEF Receive, Lives
  <2> QED  BY <2>2, <2>3
<1>7. CASE ReceiveBad(m, g)
  <2>1. asks' \in Seq(Members) /\ i.life = "asking" /\ i.inbox # <<>>
        /\ ~Head(i.inbox).sound /\ Update(m, g, Become(Taken(i), "ended"))
    BY <1>1, <1>7 DEF ReceiveBad, TypeOK, i
  <2>2. Taken(i).has = Head(i.inbox)
    BY <1>2, <2>1, TakenTyped
  <2>3. \/ registered' = registered /\ active' = active
        \/ /\ registered' = registered \ {m} /\ active' = active \ {m}
           /\ m \in Composers /\ ~i.boot
    BY <1>7 DEF ReceiveBad, CleanUp, i
  <2> QED  BY <1>4, <1>7, <2>1, <2>2, <2>3 DEF ReceiveBad, Lives
<1>8. CASE TimesOut(m, g)
  <2>1. asks' \in Seq(Members)
    BY <1>1, <1>8 DEF TimesOut, TypeOK
  <2>2. i.life = "asking" /\ Update(m, g, Become(i, "ended"))
    BY <1>8 DEF TimesOut, i
  <2> QED  BY <1>4, <1>8, <2>1, <2>2 DEF TimesOut, Lives
<1>9. CASE Refresh(m, g)
  <2>1. asks' \in Seq(Members) /\ i.life \in {"running", "stopping"} /\ i.inbox # <<>>
    BY <1>1, <1>9 DEF Refresh, TypeOK, i
  <2>2. CASE i.life = "running"
    <3>1. Update(m, g, Become(Taken(i), "running"))
      BY <1>9, <2>2 DEF Refresh, i
    <3> QED  BY <1>4, <1>9, <2>1, <2>2, <3>1 DEF Refresh, Lives
  <2>3. CASE i.life # "running"
    <3>1. Update(m, g, Become(Taken(i), "ended"))
      BY <1>9, <2>3 DEF Refresh, i
    <3> QED  BY <1>4, <1>9, <2>1, <3>1 DEF Refresh, Lives
  <2> QED  BY <2>2, <2>3
<1>10. CASE RefreshBad(m, g)
  <2>1. asks' \in Seq(Members) /\ i.life \in {"running", "stopping"} /\ i.inbox # <<>>
        /\ ~Head(i.inbox).sound /\ Update(m, g, Become(Taken(i), "ended"))
    BY <1>1, <1>10 DEF RefreshBad, TypeOK, i
  <2>2. Taken(i).has = Head(i.inbox)
    BY <1>2, <2>1, TakenTyped
  <2>3. \/ registered' = registered /\ active' = active
        \/ /\ registered' = registered \ {m} /\ active' = active \ {m}
           /\ m \in Composers /\ ~i.boot
    BY <1>10 DEF RefreshBad, CleanUp, i
  <2> QED  BY <1>4, <1>10, <2>1, <2>2, <2>3 DEF RefreshBad, Lives
<1>11. CASE WindDown(m, g)
  <2>1. asks' \in Seq(Members)
    BY <1>1, <1>11 DEF WindDown, TypeOK
  <2>2. i.life = "stopping" /\ Update(m, g, Become(i, "ended"))
    BY <1>11 DEF WindDown, i
  <2> QED  BY <1>4, <1>11, <2>1, <2>2 DEF WindDown, Lives
<1> QED  BY <1>5, <1>6, <1>7, <1>8, <1>9, <1>10, <1>11 DEF MemberStep

\* An answer in the queue of a member changes neither its life nor its past.
LEMMA DeliverInv == Inv /\ Deliver => Inv'
<1> SUFFICES ASSUME Inv, Deliver PROVE Inv'
  OBVIOUS
<1> DEFINE m == Head(tells).to
           g == Len(instance[m])
           i == instance[m][g]
<1>1. TypeOK /\ instance \in [Members -> Seq(Instance)]
  BY DEF Inv, TypeOK
<1>2. /\ Head(tells) \in [to: Members, settings: Settings]
      /\ Tail(tells) \in Seq([to: Members, settings: Settings])
  BY TailTyped DEF Inv, TypeOK, Deliver
<1>3. m \in Members /\ Head(tells).settings \in Settings
  BY <1>2
<1>4. /\ tells' = Tail(tells)
      /\ UNCHANGED <<listed, config, registered, active, asks, reading, held, saves, reverted, lost>>
  BY DEF Deliver
<1>5. CASE m \in registered /\ i.life # "ended"
  <2>1. instance[m] \in Seq(Instance) /\ instance[m] # <<>>
    BY <1>1, <1>3, <1>5 DEF Inv, RegisteredExist
  <2>2. g \in 1..Len(instance[m])
    BY <2>1
  <2>3. i \in Instance
    BY <2>1, <2>2
  <2> DEFINE j == [i EXCEPT !.inbox = Append(i.inbox, Head(tells).settings)]
  <2>4. Append(i.inbox, Head(tells).settings) \in Seq(Settings)
    BY <1>3, <2>3, AppendOne DEF Instance
  <2>5. j \in Instance /\ j.life = i.life /\ j.boot = i.boot /\ j.stopped = i.stopped
    BY <2>3, <2>4 DEF Instance
  <2>6. Update(m, g, j)
    BY <1>5 DEF Deliver
  <2>7. i.life = "running" => m \in Composers \/ ~i.stopped \/ i.life = "running"
    OBVIOUS
  <2> HIDE DEF j, m, g
  <2>8. OnlyLatestLives' /\ RegisteredExist' /\ Registry'
    BY <1>3, <1>4, <1>5, <2>2, <2>5, <2>6, MemberMoves
  <2>9. instance' \in [Members -> Seq(Instance)]
    BY <1>1, <1>3, <2>2, <2>5, <2>6, UpdateOne
  <2>10. TypeOK'
    BY <1>1, <1>2, <1>4, <2>9 DEF TypeOK
  <2> QED  BY <2>8, <2>10 DEF Inv
<1>6. CASE ~(m \in registered /\ i.life # "ended")
  <2>1. instance' = instance
    BY <1>6 DEF Deliver
  <2>2. TypeOK'
    BY <1>1, <1>2, <1>4, <2>1 DEF TypeOK
  <2>3. OnlyLatestLives' /\ RegisteredExist' /\ Registry'
    BY <1>4, <2>1 DEF Inv, OnlyLatestLives, RegisteredExist, Registry, Removed
  <2> QED  BY <2>2, <2>3 DEF Inv
<1> QED  BY <1>5, <1>6

-----------------------------------------------------------------------------
(* The steps of the service, and the saves.                                *)

\* What moves requests and answers only.
LEMMA QuietInv ==
    ASSUME Inv, TypeOK',
           UNCHANGED <<instance, registered, active>>,
           config' = config \/ reverted',
           reverted' = FALSE => reverted = FALSE
    PROVE  Inv'
  BY DEF Inv, OnlyLatestLives, RegisteredExist, Registry, Removed, TypeOK

LEMMA ServiceStepInv == Inv /\ ServiceStep => Inv'
<1> SUFFICES ASSUME Inv, ServiceStep PROVE Inv'
  OBVIOUS
<1>1. TypeOK /\ asks \in Seq(Members) /\ config \in Config
      /\ tells \in Seq([to: Members, settings: Settings]) /\ reading \in SUBSET Reading
  BY DEF Inv, TypeOK
<1>2. asks # <<>> => Head(asks) \in Members /\ Tail(asks) \in Seq(Members)
  BY <1>1, TailTyped
<1>3. config.version \in Versions /\ config.version \in 0..(MaxSaves + 1)
  BY <1>1, MemberLifeAssumption DEF Config, Versions
<1>4. CASE ReadDesign
  <2>1. asks' \in Seq(Members)
    BY <1>2, <1>4 DEF ReadDesign
  <2>2. Head(asks) \in Agents
    BY <1>4 DEF ReadDesign, ForAgent
  <2>3. reading' \in SUBSET Reading
    <3> DEFINE sound == Head(asks) \notin config.bad
    <3>1. sound \in BOOLEAN
      OBVIOUS
    <3>2. reading' = reading \cup {[to |-> Head(asks), design |-> config.version,
                                    sound |-> sound]}
      BY <1>4 DEF ReadDesign
    <3> HIDE DEF sound
    <3> QED  BY <1>1, <1>3, <2>2, <3>1, <3>2 DEF Reading
  <2>4. TypeOK'
    BY <1>1, <1>4, <2>1, <2>3 DEF ReadDesign, TypeOK
  <2> QED  BY <1>4, <2>4, QuietInv DEF ReadDesign
<1>5. ASSUME NEW r \in reading, Answer(r) PROVE Inv'
  <2>1. r.to \in Members /\ r.design \in 0..(MaxSaves + 1) /\ r.sound \in BOOLEAN
    BY <1>1, MemberLifeAssumption DEF Reading, Members, Versions
  <2> DEFINE t == [to |-> r.to, settings |->
                      [design |-> r.design, profile |-> config.version, sound |-> r.sound]]
  <2>2. t \in [to: Members, settings: Settings]
    BY <1>3, <2>1 DEF Settings
  <2>3. tells' = Append(tells, t) /\ reading' \subseteq reading
    BY <1>5 DEF Answer
  <2> HIDE DEF t
  <2>4. tells' \in Seq([to: Members, settings: Settings])
    BY <1>1, <2>2, <2>3, AppendOne
  <2>5. TypeOK'
    BY <1>1, <1>5, <2>3, <2>4 DEF Answer, TypeOK
  <2> QED  BY <1>5, <2>5, QuietInv DEF Answer
<1>6. CASE AnswerComposer
  <2> DEFINE t == [to |-> Head(asks), settings |->
                      [design |-> config.version, profile |-> config.version,
                       sound |-> Head(asks) \notin config.bad]]
  <2>1. (Head(asks) \notin config.bad) \in BOOLEAN
    OBVIOUS
  <2>2. t \in [to: Members, settings: Settings]
    BY <1>2, <1>3, <1>6, <2>1 DEF Settings, AnswerComposer
  <2>3. tells' = Append(tells, t) /\ asks' = Tail(asks) /\ asks # <<>>
    BY <1>6 DEF AnswerComposer
  <2> HIDE DEF t
  <2>4. tells' \in Seq([to: Members, settings: Settings]) /\ asks' \in Seq(Members)
    BY <1>1, <1>2, <2>2, <2>3, AppendOne
  <2>5. TypeOK'
    BY <1>1, <1>6, <2>4 DEF AnswerComposer, TypeOK
  <2> QED  BY <1>6, <2>5, QuietInv DEF AnswerComposer
<1>7. CASE Ignore
  <2>1. TypeOK'
    BY <1>1, <1>2, <1>7 DEF Ignore, TypeOK
  <2> QED  BY <1>7, <2>1, QuietInv DEF Ignore
<1> QED  BY <1>4, <1>5, <1>6, <1>7 DEF ServiceStep

LEMMA SaveInv ==
    ASSUME Inv, NEW on \in SUBSET listed, NEW bad \in SUBSET on, Save(on, bad)
    PROVE  Inv'
<1>1. TypeOK /\ instance \in [Members -> Seq(Instance)] /\ registered \subseteq Members
      /\ active \subseteq Members /\ config.on \subseteq Members
  BY DEF Inv, TypeOK, Config
<1>2. on \subseteq Members
  BY DEF Inv, TypeOK
<1> DEFINE created == NewInstance(FALSE)
<1>3. created \in Instance
  BY NewInstanceTyped, MemberLifeAssumption
<1>4. /\ registered' = (registered \cup ToStart(on)) \ ToStop(on)
      /\ active' = (active \cup ToStart(on)) \ ToStop(on)
      /\ config'.on = on
      /\ UNCHANGED <<listed, reading, tells, held, reverted, lost>>
  BY DEF Save
<1>5. /\ ToStart(on) = on \ registered
      /\ ToStop(on) = (config.on \ on) \cap active
  BY DEF ToStart, ToStop
<1>6. \A m \in Members :
         instance'[m] = IF m \in ToStart(on) THEN Append(instance[m], created)
                        ELSE IF m \in ToStop(on) /\ instance[m] # <<>>
                        THEN [instance[m] EXCEPT ![Len(instance[m])] = Stop(m, instance[m][Len(instance[m])])]
                        ELSE instance[m]
  BY DEF Save
<1>7. instance' = [m \in Members |-> instance'[m]]
  BY DEF Save
<1> HIDE DEF created
<1>8. ASSUME NEW m \in ToStart(on)
      PROVE  /\ m \in Members /\ instance'[m] \in Seq(Instance)
             /\ Len(instance'[m]) = Len(instance[m]) + 1
             /\ instance'[m][Len(instance[m]) + 1] = created
             /\ \A g \in 1..Len(instance[m]) : instance'[m][g] = instance[m][g]
  <2>1. m \in Members /\ instance'[m] = Append(instance[m], created)
    BY <1>2, <1>5, <1>6
  <2> QED  BY <1>1, <1>3, <2>1, AppendOne
<1>9. ASSUME NEW m \in Members, m \in ToStop(on), instance[m] # <<>>
      PROVE  /\ instance'[m] \in Seq(Instance)
             /\ Len(instance'[m]) = Len(instance[m])
             /\ Len(instance[m]) \in 1..Len(instance[m])
             /\ instance'[m][Len(instance[m])] = Stop(m, instance[m][Len(instance[m])])
             /\ \A g \in 1..Len(instance[m]) :
                   g # Len(instance[m]) => instance'[m][g] = instance[m][g]
  <2> DEFINE old == instance[m]
             n == Len(instance[m])
             j == Stop(m, instance[m][Len(instance[m])])
  <2>1. old \in Seq(Instance) /\ n \in 1..Len(old)
    BY <1>1, <1>9
  <2>2. j \in Instance
    BY <2>1, StopTyped
  <2>3. m \notin ToStart(on)
    BY <1>5, <1>9
  <2>4. instance'[m] = [old EXCEPT ![n] = j]
    BY <1>6, <1>9, <2>3
  <2> HIDE DEF j
  <2> QED  BY <2>1, <2>2, <2>4 DEF j
<1>10. ASSUME NEW m \in Members, m \notin ToStart(on), ~(m \in ToStop(on) /\ instance[m] # <<>>)
       PROVE  instance'[m] = instance[m]
  BY <1>6, <1>10
<1>11. instance' \in [Members -> Seq(Instance)]
  <2>1. \A m \in Members : instance'[m] \in Seq(Instance)
    BY <1>1, <1>8, <1>9, <1>10
  <2> QED  BY <1>7, <2>1
<1>12. TypeOK'
  <2>1. config' \in Config /\ saves' \in 0..MaxSaves
    <3>1. Cardinality(listed) \in Nat
      <4>1. IsFiniteSet(Members)
        BY MemberLifeAssumption, FS_Union DEF Members
      <4>2. listed \subseteq Members
        BY DEF Inv, TypeOK
      <4> QED  BY <4>1, <4>2, FS_Subset, FS_CardinalityType
    <3>2. saves \in 0..MaxSaves /\ saves + Cardinality(listed) < MaxSaves
      BY DEF Save, Inv, TypeOK
    <3>3. saves' = saves + 1 /\ config' = [version |-> saves + 2, on |-> on, bad |-> bad]
      BY DEF Save
    <3>4. saves' \in 0..MaxSaves /\ saves + 2 \in Versions
      BY <3>1, <3>2, <3>3, MemberLifeAssumption DEF Versions
    <3> QED  BY <1>2, <3>3, <3>4 DEF Config
  <2>2. asks' \in Seq(Members)
    <3>1. PICK a \in Orders(on \cap registered' \cap Agents) :
          \E c \in Orders(on \cap registered' \cap Composers) : asks' = asks \o a \o c
      BY DEF Save, RequestAgain
    <3>2. PICK c \in Orders(on \cap registered' \cap Composers) : asks' = asks \o a \o c
      BY <3>1
    <3>3. a \in Seq(Members)
      <4>1. on \cap registered' \cap Agents \in (SUBSET Agents) \cup (SUBSET Composers)
        OBVIOUS
      <4> QED  BY <4>1, OrdersTyped
    <3>4. c \in Seq(Members)
      <4>1. on \cap registered' \cap Composers \in (SUBSET Agents) \cup (SUBSET Composers)
        OBVIOUS
      <4> QED  BY <4>1, OrdersTyped
    <3>5. asks \in Seq(Members)
      BY DEF Inv, TypeOK
    <3>6. asks \o a \in Seq(Members)
      BY <3>3, <3>5
    <3> QED  BY <3>2, <3>4, <3>6
  <2>3. registered' \in SUBSET Members /\ active' \in SUBSET Members
    BY <1>1, <1>2, <1>4, <1>5
  <2> QED  BY <1>1, <1>4, <1>11, <2>1, <2>2, <2>3 DEF TypeOK
<1>13. OnlyLatestLives'
  <2> SUFFICES ASSUME NEW m \in Members, NEW g \in 1..Len(instance'[m]),
                      instance'[m][g].life # "ended"
               PROVE  \/ m \in registered' /\ g = Len(instance'[m])
                      \/ /\ instance'[m][g].boot /\ instance'[m][g].stopped
                         /\ instance'[m][g].life = "running" => m \in Composers
    BY DEF OnlyLatestLives
  <2>a. ASSUME g \in 1..Len(instance[m]), instance'[m][g] = instance[m][g]
        PROVE  \/ m \in registered /\ g = Len(instance[m])
               \/ /\ instance'[m][g].boot /\ instance'[m][g].stopped
                  /\ instance'[m][g].life = "running" => m \in Composers
    BY <2>a DEF Inv, OnlyLatestLives
  <2>b. Len(instance[m]) \in Nat
    BY <1>1
  <2>1. CASE m \in ToStart(on)
    <3>1. m \in registered' /\ m \notin registered
      BY <1>4, <1>5, <2>1
    <3>2. CASE g = Len(instance[m]) + 1
      BY <1>8, <2>1, <3>1, <3>2
    <3>3. CASE g # Len(instance[m]) + 1
      <4>1. g \in 1..Len(instance[m])
        BY <1>8, <2>1, <2>b, <3>3
      <4>2. instance'[m][g] = instance[m][g]
        BY <1>8, <2>1, <4>1
      <4> QED  BY <2>a, <3>1, <4>1, <4>2
    <3> QED  BY <3>2, <3>3
  <2>2. CASE m \in ToStop(on) /\ instance[m] # <<>>
    <3>1. CASE g = Len(instance[m])
      <4> DEFINE i == instance[m][Len(instance[m])]
      <4>1. i \in Instance /\ instance'[m][g] = Stop(m, i)
        BY <1>1, <1>9, <2>2, <3>1
      <4> HIDE DEF i
      <4> QED  BY <4>1, StopTyped
    <3>2. CASE g # Len(instance[m])
      <4>1. g \in 1..Len(instance[m]) /\ instance'[m][g] = instance[m][g]
        BY <1>9, <2>2, <3>2
      <4> QED  BY <2>a, <3>2, <4>1
    <3> QED  BY <3>1, <3>2
  <2>3. CASE m \notin ToStart(on) /\ ~(m \in ToStop(on) /\ instance[m] # <<>>)
    <3>1. instance'[m] = instance[m]
      BY <1>10, <2>3
    <3>2. m \in registered /\ g = Len(instance[m]) => m \notin ToStop(on)
      <4>1. g \in 1..Len(instance[m]) => instance[m] # <<>>
        <5>1. Len(<<>>) = 0 /\ 1..0 = {}
          OBVIOUS
        <5> QED  BY <5>1
      <4> QED  BY <2>3, <3>1, <4>1
    <3>3. m \in registered /\ g = Len(instance[m]) => m \in registered'
      BY <1>4, <3>2
    <3> QED  BY <2>a, <3>1, <3>3
  <2> QED  BY <2>1, <2>2, <2>3
<1>14. RegisteredExist'
  <2> SUFFICES ASSUME NEW m \in registered' PROVE instance'[m] # <<>>
    BY DEF RegisteredExist
  <2>1. CASE m \in ToStart(on)
    <3>1. Len(instance'[m]) # 0
      BY <1>1, <1>8, <2>1
    <3> QED  BY <3>1
  <2>2. CASE m \notin ToStart(on)
    <3>1. m \in registered /\ m \notin ToStop(on) /\ m \in Members
      BY <1>1, <1>4, <2>2
    <3>2. instance'[m] = instance[m]
      BY <1>10, <2>2, <3>1
    <3> QED  BY <3>1, <3>2 DEF Inv, RegisteredExist
  <2> QED  BY <2>1, <2>2
<1>15. Registry'
  <2> SUFFICES ASSUME ~reverted
               PROVE  registered' = active' /\ registered' = on
    BY <1>4 DEF Registry
  <2>1. registered = active /\ registered \subseteq config.on
    BY DEF Inv, Registry
  <2> QED  BY <1>4, <1>5, <2>1
<1> QED  BY <1>12, <1>13, <1>14, <1>15 DEF Inv

-----------------------------------------------------------------------------
(* The theorems.                                                           *)

LEMMA NextInv == Inv /\ [Next]_vars => Inv'
<1> SUFFICES ASSUME Inv, [Next]_vars PROVE Inv'
  OBVIOUS
<1>1. TypeOK
  BY DEF Inv
<1>2. ASSUME NEW on \in SUBSET listed, NEW bad \in SUBSET on, Save(on, bad) PROVE Inv'
  BY <1>2, SaveInv
<1>3. CASE ReadForNotifications
  <2>1. held' \in {<<>>} \cup {<<c>> : c \in Config}
    BY <1>1, <1>3 DEF ReadForNotifications, TypeOK
  <2>2. TypeOK'
    BY <1>1, <1>3, <2>1 DEF ReadForNotifications, TypeOK
  <2> QED  BY <1>3, <2>2, QuietInv DEF ReadForNotifications
<1>4. CASE WriteNotifications
  <2>1. held[1] \in Config /\ config' = held[1] /\ held' = <<>>
    BY <1>1, <1>4 DEF WriteNotifications, TypeOK
  <2>2. reverted' \in BOOLEAN
    BY <1>4 DEF WriteNotifications
  <2>3. (config' = config \/ reverted') /\ (reverted' = FALSE => reverted = FALSE)
    BY <1>1, <1>4 DEF WriteNotifications, TypeOK
  <2>4. TypeOK'
    BY <1>1, <1>4, <2>1, <2>2 DEF WriteNotifications, TypeOK
  <2> QED  BY <1>4, <2>3, <2>4, QuietInv DEF WriteNotifications
<1>5. CASE ServiceStep
  BY <1>5, ServiceStepInv
<1>6. CASE Deliver
  BY <1>6, DeliverInv
<1>7. CASE Lose
  <2>1. tells' \in Seq([to: Members, settings: Settings])
    BY <1>1, <1>7, TailTyped DEF Lose, TypeOK
  <2>2. lost' \in 0..MaxLost
    BY <1>1, <1>7, MemberLifeAssumption DEF Lose, TypeOK
  <2>3. TypeOK'
    BY <1>1, <1>7, <2>1, <2>2 DEF Lose, TypeOK
  <2> QED  BY <1>7, <2>3, QuietInv DEF Lose
<1>8. ASSUME NEW m \in Members, NEW g \in 1..Len(instance[m]), MemberStep(m, g) PROVE Inv'
  BY <1>8, MemberStepInv
<1>9. CASE UNCHANGED vars
  <2>1. TypeOK'
    BY <1>1, <1>9 DEF vars, TypeOK
  <2> QED  BY <1>9, <2>1, QuietInv DEF vars
<1> QED  BY <1>2, <1>3, <1>4, <1>5, <1>6, <1>7, <1>8, <1>9 DEF Next

LEMMA AlwaysInv == Spec => []Inv
BY InitInv, NextInv, PTL DEF Spec

\* The values of the variables are what their comments say, whatever is saved, lost or
\* times out.
THEOREM TypeCorrect == Spec => []TypeOK
<1>1. Inv => TypeOK
  BY DEF Inv
<1> QED  BY <1>1, AlwaysInv, PTL

\* However saves, answers and timeouts follow each other, only the latest instance of a
\* member runs, with the queue of its name.
THEOREM OneRuns == Spec => []RunsOnce
<1>1. Inv => RunsOnce
  BY DEF Inv, OnlyLatestLives, RunsOnce, Forgetful
<1> QED  BY <1>1, AlwaysInv, PTL

\* Unless one save has undone another, who has a queue is who the configuration enables.
THEOREM QueuesFollowConfig == Spec => []RegistryMatches
<1>1. Inv => RegistryMatches
  BY DEF Inv, Registry, Removed, RegistryMatches
<1> QED  BY <1>1, AlwaysInv, PTL

-----------------------------------------------------------------------------
(* No member goes back to an older configuration.                          *)
(*                                                                         *)
(* What a member has, what lies in its inbox, what is on the bus for it    *)
(* and what the service is about to answer are in the order of the saves   *)
(* (InOrder), because one task answers one request after the other and the *)
(* bus keeps the order.                                                    *)

Upto(s, t) == s.design <= t.design /\ s.profile <= t.profile

\* Nothing that m can still be sent from the service is older than s ...
Unread(m, s) ==
    /\ s.design <= config.version /\ s.profile <= config.version
    /\ \A r \in reading : r.to = m => s.design <= r.design
\* ... nor is anything that is already on the bus.
Behind(m, s) ==
    /\ Unread(m, s)
    /\ \A k \in DOMAIN tells : tells[k].to = m => Upto(s, tells[k].settings)

InOrder(m, i) ==
    /\ Behind(m, i.has)
    /\ \A k \in DOMAIN i.inbox : Behind(m, i.inbox[k]) /\ Upto(i.has, i.inbox[k])
    /\ \A k, l \in DOMAIN i.inbox : k <= l => Upto(i.inbox[k], i.inbox[l])

TellsInOrder ==
    /\ \A k \in DOMAIN tells : Unread(tells[k].to, tells[k].settings)
    /\ \A k, l \in DOMAIN tells :
          k <= l /\ tells[k].to = tells[l].to => Upto(tells[k].settings, tells[l].settings)

ReadOnce == \A r, s \in reading : r = s

Forward ==
    ~reverted =>
        /\ config.version <= saves + 1
        /\ \A r \in reading : r.design <= config.version
        /\ TellsInOrder
        /\ \A m \in Members : \A g \in 1..Len(instance[m]) : InOrder(m, instance[m][g])

ConfigInv == Inv /\ ReadOnce /\ Forward

\* What a step may add: an answer to what was read, or to what stands in the configuration.
Later ==
    /\ config.version <= config'.version
    /\ \A r \in reading' : r \in reading \/ config.version <= r.design
    /\ \A k \in DOMAIN tells' :
          \/ \E l \in DOMAIN tells : tells'[k] = tells[l]
          \/ /\ config.version <= tells'[k].settings.profile
             /\ \/ config.version <= tells'[k].settings.design
                \/ \E r \in reading : r.to = tells'[k].to /\ r.design = tells'[k].settings.design

LEMMA SeqParts ==
    ASSUME NEW S, NEW s \in Seq(S)
    PROVE  /\ DOMAIN s = 1..Len(s) /\ Len(s) \in Nat
           /\ \A k \in DOMAIN s : k \in Nat /\ s[k] \in S
<1>1. DOMAIN s = 1..Len(s) /\ Len(s) \in Nat
  OBVIOUS
<1>2. ASSUME NEW k \in DOMAIN s PROVE k \in Nat /\ s[k] \in S
  BY <1>1
<1>3. QED
  BY <1>1, <1>2

LEMMA TailParts ==
    ASSUME NEW S, NEW s \in Seq(S), s # <<>>
    PROVE  /\ DOMAIN Tail(s) = 1..(Len(s) - 1)
           /\ \A k \in DOMAIN Tail(s) : k + 1 \in DOMAIN s /\ Tail(s)[k] = s[k + 1]
<1>1. DOMAIN Tail(s) = 1..(Len(s) - 1) /\ DOMAIN s = 1..Len(s) /\ Len(s) \in Nat
  OBVIOUS
<1>2. ASSUME NEW k \in DOMAIN Tail(s) PROVE k + 1 \in DOMAIN s /\ Tail(s)[k] = s[k + 1]
  BY <1>1
<1>3. QED
  BY <1>1, <1>2

\* The order of what the bus carries.
LEMMA SettingsTyped ==
    ASSUME TypeOK
    PROVE  /\ config.version \in Nat
           /\ \A r \in reading : r.design \in Nat
           /\ \A s \in Settings : s.design \in Nat /\ s.profile \in Nat
           /\ \A k \in DOMAIN tells : k \in Nat /\ tells[k].settings \in Settings
<1>1. config.version \in Nat /\ \A r \in reading : r.design \in Nat
  BY MemberLifeAssumption DEF TypeOK, Config, Reading, Versions
<1>2. \A s \in Settings : s.design \in Nat /\ s.profile \in Nat
  BY MemberLifeAssumption DEF Settings
<1>3. tells \in Seq([to: Members, settings: Settings])
  BY DEF TypeOK
<1>4. \A k \in DOMAIN tells : k \in Nat /\ tells[k] \in [to: Members, settings: Settings]
  BY <1>3, SeqParts
<1>5. QED
  BY <1>1, <1>2, <1>4

LEMMA BehindStays ==
    ASSUME TypeOK, TypeOK', Later, NEW m, NEW s \in Settings
    PROVE  /\ Unread(m, s) => Unread(m, s)'
           /\ Behind(m, s) => Behind(m, s)'
<1>1. /\ config.version \in Nat /\ config'.version \in Nat
      /\ \A r \in reading : r.design \in Nat
      /\ \A r \in reading' : r.design \in Nat
      /\ s.design \in Nat /\ s.profile \in Nat
      /\ \A k \in DOMAIN tells' : /\ tells'[k].settings.design \in Nat
                                  /\ tells'[k].settings.profile \in Nat
  <2>1. \A k \in DOMAIN tells' : tells'[k].settings \in Settings
    <3>1. tells' \in Seq([to: Members, settings: Settings])
      BY DEF TypeOK
    <3>2. \A k \in DOMAIN tells' : tells'[k] \in [to: Members, settings: Settings]
      BY <3>1, SeqParts
    <3>3. QED
      BY <3>2
  <2>2. config'.version \in Nat /\ \A r \in reading' : r.design \in Nat
    BY MemberLifeAssumption DEF TypeOK, Config, Reading, Versions
  <2>3. QED
    BY <2>1, <2>2, SettingsTyped
<1>2. ASSUME Unread(m, s) PROVE Unread(m, s)'
  <2>1. s.design <= config'.version /\ s.profile <= config'.version
    BY <1>1, <1>2 DEF Unread, Later
  <2>2. ASSUME NEW r \in reading', r.to = m PROVE s.design <= r.design
    <3>1. CASE r \in reading
      BY <1>2, <2>2, <3>1 DEF Unread
    <3>2. CASE config.version <= r.design
      <4>1. s.design <= config.version
        BY <1>2 DEF Unread
      <4>2. QED
        BY <1>1, <3>2, <4>1
    <3>3. QED
      BY <3>1, <3>2 DEF Later
  <2>3. QED
    BY <2>1, <2>2 DEF Unread
<1>3. ASSUME Behind(m, s) PROVE Behind(m, s)'
  <2>1. Unread(m, s) /\ Unread(m, s)'
    BY <1>2, <1>3 DEF Behind
  <2>2. ASSUME NEW k \in DOMAIN tells', tells'[k].to = m PROVE Upto(s, tells'[k].settings)
    <3>1. CASE \E l \in DOMAIN tells : tells'[k] = tells[l]
      BY <1>3, <2>2, <3>1 DEF Behind
    <3>2. CASE /\ config.version <= tells'[k].settings.profile
               /\ config.version <= tells'[k].settings.design
      <4>1. s.design <= config.version /\ s.profile <= config.version
        BY <2>1 DEF Unread
      <4>2. QED
        BY <1>1, <3>2, <4>1 DEF Upto
    <3>3. CASE /\ config.version <= tells'[k].settings.profile
               /\ \E r \in reading : r.to = tells'[k].to /\ r.design = tells'[k].settings.design
      <4>1. s.design <= tells'[k].settings.design
        BY <2>1, <2>2, <3>3 DEF Unread
      <4>2. s.profile <= config.version
        BY <2>1 DEF Unread
      <4>3. QED
        BY <1>1, <3>3, <4>1, <4>2 DEF Upto
    <3>4. QED
      BY <3>1, <3>2, <3>3 DEF Later
  <2>3. QED
    BY <2>1, <2>2 DEF Behind
<1>4. QED
  BY <1>2, <1>3

\* What may become of an instance while the order is kept: nothing, its inbox is cleared,
\* or it takes the next of its inbox.
Follows(i, j) ==
    \/ j.has = i.has /\ j.inbox \in {i.inbox, <<>>}
    \/ i.inbox # <<>> /\ j.has = Head(i.inbox) /\ j.inbox \in {Tail(i.inbox), <<>>}

LEMMA FollowsUpto ==
    ASSUME TypeOK, NEW m, NEW i \in Instance, NEW j, InOrder(m, i), Follows(i, j)
    PROVE  Upto(i.has, j.has)
<1>1. i.has \in Settings /\ i.inbox \in Seq(Settings)
  BY DEF Instance
<1>2. CASE j.has = i.has
  BY <1>1, <1>2, SettingsTyped DEF Upto
<1>3. CASE i.inbox # <<>> /\ j.has = Head(i.inbox)
  <2>1. 1 \in DOMAIN i.inbox /\ Head(i.inbox) = i.inbox[1]
    BY <1>1, <1>3
  <2>2. QED
    BY <1>3, <2>1 DEF InOrder
<1>4. QED
  BY <1>2, <1>3 DEF Follows

LEMMA InOrderStays ==
    ASSUME TypeOK, TypeOK', Later, NEW m, NEW i \in Instance, NEW j,
           InOrder(m, i), Follows(i, j)
    PROVE  InOrder(m, j)'
<1>1. i.has \in Settings /\ i.inbox \in Seq(Settings)
  BY DEF Instance
<1>2. /\ DOMAIN i.inbox = 1..Len(i.inbox) /\ Len(i.inbox) \in Nat
      /\ \A k \in DOMAIN i.inbox : i.inbox[k] \in Settings
  BY <1>1
<1>3. Behind(m, i.has)' /\ \A k \in DOMAIN i.inbox : Behind(m, i.inbox[k])'
  <2>1. ASSUME NEW s \in Settings, Behind(m, s) PROVE Behind(m, s)'
    BY <2>1, BehindStays
  <2>2. Behind(m, i.has)'
    <3>1. PICK s \in Settings : s = i.has /\ Behind(m, s)
      BY <1>1 DEF InOrder
    <3>2. Behind(m, s)'
      BY <2>1, <3>1
    <3>3. QED
      BY <3>1, <3>2
  <2>3. ASSUME NEW k \in DOMAIN i.inbox PROVE Behind(m, i.inbox[k])'
    <3>1. PICK s \in Settings : s = i.inbox[k] /\ Behind(m, s)
      BY <1>2 DEF InOrder
    <3>2. Behind(m, s)'
      BY <2>1, <3>1
    <3>3. QED
      BY <3>1, <3>2
  <2>4. QED
    BY <2>2, <2>3
<1>4. CASE j.has = i.has /\ j.inbox \in {i.inbox, <<>>}
  <2>1. DOMAIN <<>> = {}
    OBVIOUS
  <2>2. QED
    BY <1>3, <1>4, <2>1 DEF InOrder
<1>5. CASE i.inbox # <<>> /\ j.has = Head(i.inbox) /\ j.inbox \in {Tail(i.inbox), <<>>}
  <2>1. /\ 1 \in DOMAIN i.inbox /\ Head(i.inbox) = i.inbox[1]
        /\ DOMAIN Tail(i.inbox) = 1..(Len(i.inbox) - 1)
        /\ \A k \in DOMAIN Tail(i.inbox) : /\ Tail(i.inbox)[k] = i.inbox[k + 1]
                                           /\ k + 1 \in DOMAIN i.inbox /\ 1 <= k + 1
    BY <1>1, <1>2, <1>5
  <2>2. DOMAIN <<>> = {}
    OBVIOUS
  <2>3. Behind(m, j.has)'
    BY <1>3, <1>5, <2>1
  <2>4. ASSUME NEW k \in DOMAIN j.inbox
        PROVE  /\ k \in DOMAIN Tail(i.inbox) /\ j.inbox[k] = i.inbox[k + 1]
               /\ Behind(m, j.inbox[k])' /\ Upto(j.has, j.inbox[k])
    <3>1. k \in DOMAIN Tail(i.inbox) /\ j.inbox[k] = i.inbox[k + 1]
      BY <1>5, <2>1, <2>2, <2>4
    <3>2. QED
      BY <1>3, <1>5, <2>1, <3>1 DEF InOrder
  <2>5. ASSUME NEW k \in DOMAIN j.inbox, NEW l \in DOMAIN j.inbox, k <= l
        PROVE  Upto(j.inbox[k], j.inbox[l])
    <3>1. /\ j.inbox[k] = i.inbox[k + 1] /\ j.inbox[l] = i.inbox[l + 1]
          /\ k \in DOMAIN Tail(i.inbox) /\ l \in DOMAIN Tail(i.inbox)
      BY <2>4
    <3>2. k + 1 \in DOMAIN i.inbox /\ l + 1 \in DOMAIN i.inbox /\ k + 1 <= l + 1
      BY <1>2, <2>1, <2>5, <3>1
    <3>3. QED
      BY <3>1, <3>2 DEF InOrder
  <2>6. QED
    BY <2>3, <2>4, <2>5 DEF InOrder
<1>6. QED
  BY <1>4, <1>5 DEF Follows

Instances == \A m \in Members : \A g \in 1..Len(instance[m]) : InOrder(m, instance[m][g])

\* Nobody has been given an older configuration.
Onward ==
    \A m \in Members : \A g \in 1..Len(instance[m]) :
        Upto(instance[m][g].has, instance'[m][g].has)

LEMMA NewInOrder ==
    ASSUME TypeOK', NEW m, NEW i, i = NewInstance(FALSE)
    PROVE  InOrder(m, i)'
<1>1. i.inbox = <<>> /\ i.has.design = 0 /\ i.has.profile = 0
  BY DEF NewInstance, NoSettings
<1>2. /\ config'.version \in Nat
      /\ \A r \in reading' : r.design \in Nat
  BY MemberLifeAssumption DEF TypeOK, Config, Reading, Versions
<1>3. \A k \in DOMAIN tells' : /\ tells'[k].settings.design \in Nat
                               /\ tells'[k].settings.profile \in Nat
  <2>1. tells' \in Seq([to: Members, settings: Settings])
    BY DEF TypeOK
  <2>2. \A k \in DOMAIN tells' : tells'[k].settings \in Settings
    <3>1. \A k \in DOMAIN tells' : tells'[k] \in [to: Members, settings: Settings]
      BY <2>1, SeqParts
    <3>2. QED
      BY <3>1
  <2>3. QED
    BY <2>2, MemberLifeAssumption DEF Settings
<1>4. DOMAIN <<>> = {}
  OBVIOUS
<1>5. Behind(m, i.has)'
  <2>1. i.has \in Settings
    BY <1>1, MemberLifeAssumption DEF Settings, NewInstance, NoSettings
  <2>2. PICK s \in Settings : s = i.has /\ \A n \in Nat : s.design <= n /\ s.profile <= n
    <3>1. \A n \in Nat : 0 <= n
      OBVIOUS
    <3>2. \A n \in Nat : i.has.design <= n /\ i.has.profile <= n
      BY <1>1, <3>1
    <3>3. QED
      BY <2>1, <3>2
  <2>3. Unread(m, s)'
    BY <1>2, <2>2 DEF Unread
  <2>4. ASSUME NEW k \in DOMAIN tells' PROVE Upto(s, tells'[k].settings)
    BY <1>3, <2>2 DEF Upto
  <2>5. QED
    BY <2>2, <2>3, <2>4 DEF Behind
<1>6. QED
  BY <1>1, <1>4, <1>5 DEF InOrder

\* When every instance only follows, the order is kept and nobody goes back.
LEMMA InstancesFollow ==
    ASSUME TypeOK, TypeOK', Later, Instances,
           \A m \in Members : \A g \in 1..Len(instance[m]) :
              g \in 1..Len(instance'[m]) /\ Follows(instance[m][g], instance'[m][g]),
           \A m \in Members : \A g \in 1..Len(instance'[m]) :
              g \in 1..Len(instance[m]) \/ instance'[m][g] = NewInstance(FALSE)
    PROVE  Instances' /\ Onward
<1>1. ASSUME NEW m \in Members, NEW g \in 1..Len(instance[m])
      PROVE  instance[m][g] \in Instance /\ InOrder(m, instance[m][g])
  <2>1. instance[m] \in Seq(Instance)
    BY DEF TypeOK
  <2>2. instance[m][g] \in Instance
    BY <2>1
  <2>3. QED
    BY <2>2 DEF Instances
<1>2. Onward
  <2>1. ASSUME NEW m \in Members, NEW g \in 1..Len(instance[m])
        PROVE  Upto(instance[m][g].has, instance'[m][g].has)
    BY <1>1, FollowsUpto
  <2>2. QED
    BY <2>1 DEF Onward
<1>3. ASSUME NEW m \in Members, NEW g \in 1..Len(instance'[m])
      PROVE  InOrder(m, instance[m][g])'
  <2>1. CASE g \in 1..Len(instance[m])
    <3>1. PICK i \in Instance : i = instance[m][g]
      BY <1>1, <2>1
    <3>2. PICK j : j = instance'[m][g]
      OBVIOUS
    <3>3. InOrder(m, i) /\ Follows(i, j)
      BY <1>1, <2>1, <3>1, <3>2
    <3>4. InOrder(m, j)'
      BY <3>3, InOrderStays
    <3>5. QED
      BY <3>2, <3>4
  <2>2. CASE instance'[m][g] = NewInstance(FALSE)
    <3>1. PICK j : j = instance'[m][g]
      OBVIOUS
    <3>2. InOrder(m, j)'
      BY <2>2, <3>1, NewInOrder
    <3>3. QED
      BY <3>1, <3>2
  <2>3. QED
    BY <2>1, <2>2
<1>4. QED
  BY <1>2, <1>3 DEF Instances

\* What is on the bus stays in order when it is carried on ...
LEMMA TellsCarried ==
    ASSUME TypeOK, TypeOK', Later, TellsInOrder,
           tells' = tells \/ (tells # <<>> /\ tells' = Tail(tells))
    PROVE  TellsInOrder'
<1> DEFINE T == [to: Members, settings: Settings]
<1>1. tells \in Seq(T)
  BY DEF TypeOK
<1>2. /\ DOMAIN tells = 1..Len(tells) /\ Len(tells) \in Nat
      /\ \A k \in DOMAIN tells : tells[k].settings \in Settings
  <2>1. \A k \in DOMAIN tells : tells[k] \in T
    BY <1>1, SeqParts
  <2>2. DOMAIN tells = 1..Len(tells) /\ Len(tells) \in Nat
    BY <1>1, SeqParts
  <2>3. QED
    BY <2>1, <2>2
<1>3. ASSUME NEW k \in DOMAIN tells, NEW s \in Settings, NEW m,
             s = tells[k].settings, m = tells[k].to
      PROVE  Unread(m, s)'
  <2>1. Unread(m, s)
    BY <1>3 DEF TellsInOrder
  <2>2. QED
    BY <2>1, BehindStays
<1>4. PICK d \in {0, 1} :
         /\ d = 1 => tells # <<>>
         /\ DOMAIN tells' = 1..(Len(tells) - d)
         /\ \A k \in DOMAIN tells' : k + d \in DOMAIN tells /\ tells'[k] = tells[k + d]
  <2>1. CASE tells' = tells
    <3>1. DOMAIN tells' = 1..(Len(tells) - 0)
      BY <1>2, <2>1
    <3>2. ASSUME NEW k \in DOMAIN tells'
          PROVE  k + 0 \in DOMAIN tells /\ tells'[k] = tells[k + 0]
      <4>1. k \in Nat /\ k + 0 = k
        BY <1>2, <2>1
      <4>2. QED
        BY <2>1, <4>1
    <3>3. QED
      BY <3>1, <3>2
  <2>2. CASE tells # <<>> /\ tells' = Tail(tells)
    <3>1. DOMAIN tells' = 1..(Len(tells) - 1)
      BY <1>1, <2>2, TailParts
    <3>2. ASSUME NEW k \in DOMAIN tells'
          PROVE  k + 1 \in DOMAIN tells /\ tells'[k] = tells[k + 1]
      BY <1>1, <2>2, TailParts
    <3>3. QED
      BY <2>2, <3>1, <3>2
  <2>3. QED
    BY <2>1, <2>2
<1>5. ASSUME NEW k \in DOMAIN tells' PROVE Unread(tells[k].to, tells[k].settings)'
  <2>1. PICK s \in Settings : s = tells'[k].settings
    BY <1>2, <1>4
  <2>2. PICK m : m = tells'[k].to
    OBVIOUS
  <2>3. Unread(m, s)'
    BY <1>3, <1>4, <2>1, <2>2
  <2>4. QED
    BY <2>1, <2>2, <2>3
<1>6. ASSUME NEW k \in DOMAIN tells', NEW l \in DOMAIN tells', k <= l, tells'[k].to = tells'[l].to
      PROVE  Upto(tells'[k].settings, tells'[l].settings)
  <2>1. /\ k + d \in DOMAIN tells /\ l + d \in DOMAIN tells
        /\ tells'[k] = tells[k + d] /\ tells'[l] = tells[l + d]
    BY <1>4
  <2>2. k + d <= l + d
    BY <1>2, <1>4, <1>6
  <2>3. QED
    BY <1>6, <2>1, <2>2 DEF TellsInOrder
<1>7. QED
  BY <1>5, <1>6 DEF TellsInOrder

\* ... and when the service answers: to what it has read, with the profiles of now.
LEMMA TellsGrow ==
    ASSUME TypeOK, TypeOK', Later, TellsInOrder,
           NEW t \in [to: Members, settings: Settings], tells' = Append(tells, t),
           Unread(t.to, t.settings)',
           config.version <= t.settings.profile,
           \/ config.version <= t.settings.design
           \/ \E r \in reading : r.to = t.to /\ r.design = t.settings.design
    PROVE  TellsInOrder'
<1> DEFINE T == [to: Members, settings: Settings]
<1>1. tells \in Seq(T) /\ tells' \in Seq(T)
  BY DEF TypeOK
<1>2. /\ DOMAIN tells = 1..Len(tells) /\ Len(tells) \in Nat
      /\ \A k \in DOMAIN tells : tells[k].settings \in Settings
  <2>1. \A k \in DOMAIN tells : tells[k] \in T
    BY <1>1, SeqParts
  <2>2. DOMAIN tells = 1..Len(tells) /\ Len(tells) \in Nat
    BY <1>1, SeqParts
  <2>3. QED
    BY <2>1, <2>2
<1>3. /\ DOMAIN tells' = 1..(Len(tells) + 1)
      /\ tells'[Len(tells) + 1] = t
      /\ \A k \in DOMAIN tells : tells'[k] = tells[k]
  <2>1. Len(tells') = Len(tells) + 1
    BY <1>1, AppendOne
  <2>2. DOMAIN tells' = 1..Len(tells')
    BY <1>1, SeqParts
  <2>3. QED
    BY <1>1, <1>2, <2>1, <2>2, AppendOne
<1>4. \A k \in DOMAIN tells' : k \in DOMAIN tells \/ k = Len(tells) + 1
  BY <1>2, <1>3
<1>5. ASSUME NEW k \in DOMAIN tells, NEW s \in Settings, NEW m,
             s = tells[k].settings, m = tells[k].to
      PROVE  /\ Unread(m, s)'
             /\ m = t.to => Upto(s, t.settings)
  <2>1. Unread(m, s)
    BY <1>5 DEF TellsInOrder
  <2>2. Unread(m, s)'
    BY <2>1, BehindStays
  <2>3. ASSUME m = t.to PROVE Upto(s, t.settings)
    <3>1. /\ s.design \in Nat /\ s.profile \in Nat /\ config.version \in Nat
          /\ t.settings.design \in Nat /\ t.settings.profile \in Nat
      BY SettingsTyped
    <3>2. s.profile <= t.settings.profile
      BY <2>1, <3>1 DEF Unread
    <3>3. CASE config.version <= t.settings.design
      BY <2>1, <3>1, <3>2, <3>3 DEF Unread, Upto
    <3>4. CASE \E r \in reading : r.to = t.to /\ r.design = t.settings.design
      BY <2>1, <2>3, <3>2, <3>4 DEF Unread, Upto
    <3>5. QED
      BY <3>3, <3>4
  <2>4. QED
    BY <2>2, <2>3
<1>6. ASSUME NEW k \in DOMAIN tells' PROVE Unread(tells[k].to, tells[k].settings)'
  <2>1. PICK s : s = tells'[k].settings
    OBVIOUS
  <2>2. PICK m : m = tells'[k].to
    OBVIOUS
  <2>3. Unread(m, s)'
    <3>1. CASE k \in DOMAIN tells
      BY <1>2, <1>3, <1>5, <2>1, <2>2, <3>1
    <3>2. CASE k = Len(tells) + 1
      <4>1. PICK u : u = t.settings
        OBVIOUS
      <4>2. PICK n : n = t.to
        OBVIOUS
      <4>3. Unread(n, u)'
        BY <4>1, <4>2
      <4>4. n = m /\ u = s
        BY <1>3, <2>1, <2>2, <3>2, <4>1, <4>2
      <4>5. QED
        BY <4>3, <4>4
    <3>3. QED
      BY <1>4, <3>1, <3>2
  <2>4. QED
    BY <2>1, <2>2, <2>3
<1>7. ASSUME NEW k \in DOMAIN tells', NEW l \in DOMAIN tells', k <= l, tells'[k].to = tells'[l].to
      PROVE  Upto(tells'[k].settings, tells'[l].settings)
  <2>1. CASE k \in DOMAIN tells /\ l \in DOMAIN tells
    BY <1>3, <1>7, <2>1 DEF TellsInOrder
  <2>2. CASE k \in DOMAIN tells /\ l = Len(tells) + 1
    BY <1>2, <1>3, <1>5, <1>7, <2>2
  <2>3. CASE k = Len(tells) + 1
    <3>1. l = Len(tells) + 1
      BY <1>2, <1>3, <1>7, <2>3
    <3>2. t.settings.design \in Nat /\ t.settings.profile \in Nat
      BY SettingsTyped
    <3>3. QED
      BY <1>3, <2>3, <3>1, <3>2 DEF Upto
  <2>4. QED
    BY <1>4, <2>1, <2>2, <2>3
<1>8. QED
  BY <1>6, <1>7 DEF TellsInOrder

\* What a member does with its own instance is to follow.
LEMMA BecomeFollows ==
    ASSUME NEW i \in Instance, NEW life
    PROVE  /\ Follows(i, Become(i, life))
           /\ i.inbox # <<>> => Follows(i, Become(Taken(i), life))
<1>1. ASSUME NEW j \in Instance
      PROVE  Become(j, life).has = j.has /\ Become(j, life).inbox \in {j.inbox, <<>>}
  BY DEF Become, Instance
<1>2. ASSUME i.inbox # <<>>
      PROVE  Taken(i) \in Instance /\ Taken(i).has = Head(i.inbox)
             /\ Taken(i).inbox = Tail(i.inbox)
  <2>1. Taken(i) \in Instance /\ Taken(i).has = Head(i.inbox)
    BY <1>2, TakenTyped
  <2>2. Taken(i).inbox = Tail(i.inbox)
    BY DEF Taken, Instance
  <2>3. QED
    BY <2>1, <2>2
<1>3. QED
  BY <1>1, <1>2 DEF Follows

LEMMA StopFollows ==
    ASSUME NEW m \in Members, NEW i \in Instance
    PROVE  Follows(i, Stop(m, i))
<1> DEFINE j == Become(i, LifeAfterStop(m, i))
<1>1. j.has = i.has /\ j.inbox \in {i.inbox, <<>>}
  BY DEF Become, Instance
<1>2. Stop(m, i).has = i.has
  BY StopTyped
<1>3. Stop(m, i).inbox = j.inbox
  BY DEF Stop, Become, Instance
<1>4. QED
  BY <1>1, <1>2, <1>3 DEF Follows

\* Where the service answers nothing, nothing new comes.
LEMMA LaterWhenQuiet ==
    ASSUME TypeOK, config' = config, reading' = reading,
           tells' = tells \/ (tells # <<>> /\ tells' = Tail(tells))
    PROVE  Later
<1>1. tells \in Seq([to: Members, settings: Settings]) /\ config.version <= config.version
  BY SettingsTyped DEF TypeOK
<1>2. ASSUME NEW k \in DOMAIN tells' PROVE \E l \in DOMAIN tells : tells'[k] = tells[l]
  <2>1. CASE tells' = tells
    BY <2>1
  <2>2. CASE tells # <<>> /\ tells' = Tail(tells)
    BY <1>1, <2>2, TailParts
  <2>3. QED
    BY <2>1, <2>2
<1>3. QED
  BY <1>1, <1>2 DEF Later

\* Everybody follows when nobody moves, and when one moves on.
LEMMA AllFollow ==
    ASSUME TypeOK,
           \/ instance' = instance
           \/ \E m \in Members : \E g \in 1..Len(instance[m]) : \E j \in Instance :
                 Update(m, g, j) /\ Follows(instance[m][g], j)
    PROVE  /\ \A m \in Members : \A g \in 1..Len(instance[m]) :
                 g \in 1..Len(instance'[m]) /\ Follows(instance[m][g], instance'[m][g])
           /\ \A m \in Members : \A g \in 1..Len(instance'[m]) :
                 g \in 1..Len(instance[m]) \/ instance'[m][g] = NewInstance(FALSE)
<1>1. ASSUME NEW i PROVE Follows(i, i)
  BY DEF Follows
<1>2. CASE instance' = instance
  BY <1>1, <1>2
<1>3. ASSUME NEW m \in Members, NEW g \in 1..Len(instance[m]), NEW j \in Instance,
             Update(m, g, j), Follows(instance[m][g], j)
      PROVE  /\ \A n \in Members : \A h \in 1..Len(instance[n]) :
                   h \in 1..Len(instance'[n]) /\ Follows(instance[n][h], instance'[n][h])
             /\ \A n \in Members : \A h \in 1..Len(instance'[n]) :
                   h \in 1..Len(instance[n]) \/ instance'[n][h] = NewInstance(FALSE)
  <2>1. /\ instance'[m][g] = j
        /\ \A n \in Members : Len(instance'[n]) = Len(instance[n])
        /\ \A n \in Members : \A h \in 1..Len(instance[n]) :
              n # m \/ h # g => instance'[n][h] = instance[n][h]
    BY <1>3, UpdateOne DEF TypeOK
  <2>2. ASSUME NEW n \in Members, NEW h \in 1..Len(instance[n])
        PROVE  Follows(instance[n][h], instance'[n][h])
    <3>1. CASE n = m /\ h = g
      BY <1>3, <2>1, <3>1
    <3>2. CASE n # m \/ h # g
      BY <1>1, <2>1, <3>2
    <3>3. QED
      BY <3>1, <3>2
  <2>3. QED
    BY <2>1, <2>2
<1>4. QED
  BY <1>2, <1>3

\* The steps in which the service answers nothing and the bus appends to no inbox.
LEMMA QuietForward ==
    ASSUME TypeOK, TypeOK', Forward, ~reverted,
           config' = config, reading' = reading, saves' = saves,
           tells' = tells \/ (tells # <<>> /\ tells' = Tail(tells)),
           \/ instance' = instance
           \/ \E m \in Members : \E g \in 1..Len(instance[m]) : \E j \in Instance :
                 Update(m, g, j) /\ Follows(instance[m][g], j)
    PROVE  Forward' /\ Onward
<1>1. Later
  BY LaterWhenQuiet
<1>2. /\ config.version <= saves + 1
      /\ \A r \in reading : r.design <= config.version
      /\ TellsInOrder /\ Instances
  BY DEF Forward, Instances
<1>3. TellsInOrder'
  BY <1>1, <1>2, TellsCarried
<1>4. Instances' /\ Onward
  BY <1>1, <1>2, AllFollow, InstancesFollow
<1>5. QED
  BY <1>2, <1>3, <1>4 DEF Forward, Instances

LEMMA MemberStepFollows ==
    ASSUME TypeOK, NEW m \in Members, NEW g \in 1..Len(instance[m]), MemberStep(m, g)
    PROVE  /\ \E j \in Instance : Update(m, g, j) /\ Follows(instance[m][g], j)
           /\ UNCHANGED <<config, reading, tells, saves, reverted>>
<1> DEFINE i == instance[m][g]
<1>1. instance[m] \in Seq(Instance)
  BY DEF TypeOK
<1>2. i \in Instance
  BY <1>1
<1> HIDE DEF i
<1>3. ASSUME NEW life \in Lives
      PROVE  /\ Become(i, life) \in Instance /\ Follows(i, Become(i, life))
             /\ i.inbox # <<>> =>
                   Become(Taken(i), life) \in Instance /\ Follows(i, Become(Taken(i), life))
  BY <1>2, BecomeTyped, TakenTyped, BecomeFollows
<1>4. ASSUME \E life \in Lives :
                \/ Update(m, g, Become(i, life))
                \/ i.inbox # <<>> /\ Update(m, g, Become(Taken(i), life))
      PROVE  \E j \in Instance : Update(m, g, j) /\ Follows(i, j)
  BY <1>3, <1>4
<1>5. \E life \in Lives :
         \/ Update(m, g, Become(i, life))
         \/ i.inbox # <<>> /\ Update(m, g, Become(Taken(i), life))
  <2>1. \A life \in {"asking", "running", "ended"} : life \in Lives
    BY DEF Lives
  <2>2. CASE Begin(m, g)
    BY <2>1, <2>2 DEF Begin, i
  <2>3. CASE Receive(m, g)
    <3>1. i.inbox # <<>>
          /\ Update(m, g, Become(Taken(i), IF MayRun(m, i) THEN "running" ELSE "ended"))
      BY <2>3 DEF Receive, i
    <3>2. QED
      BY <2>1, <3>1
  <2>4. CASE ReceiveBad(m, g)
    BY <2>1, <2>4 DEF ReceiveBad, i
  <2>5. CASE TimesOut(m, g)
    BY <2>1, <2>5 DEF TimesOut, i
  <2>6. CASE Refresh(m, g)
    <3>1. i.inbox # <<>>
          /\ Update(m, g, Become(Taken(i), IF i.life = "running" THEN "running" ELSE "ended"))
      BY <2>6 DEF Refresh, i
    <3>2. QED
      BY <2>1, <3>1
  <2>7. CASE RefreshBad(m, g)
    BY <2>1, <2>7 DEF RefreshBad, i
  <2>8. CASE WindDown(m, g)
    BY <2>1, <2>8 DEF WindDown, i
  <2>9. QED
    BY <2>2, <2>3, <2>4, <2>5, <2>6, <2>7, <2>8 DEF MemberStep
<1>6. UNCHANGED <<config, reading, tells, saves, reverted>>
  BY DEF MemberStep, Begin, Receive, ReceiveBad, TimesOut, Refresh, RefreshBad, WindDown
<1>7. QED
  BY <1>4, <1>5, <1>6 DEF i

\* An answer that is put into an inbox is younger than all that lies there.
LEMMA DeliverForward ==
    ASSUME Inv, TypeOK', Forward, ~reverted, Deliver
    PROVE  Forward' /\ Onward
<1> DEFINE m == Head(tells).to
           t == Head(tells).settings
           g == Len(instance[m])
           i == instance[m][g]
           j == [i EXCEPT !.inbox = Append(i.inbox, t)]
<1>1. /\ TypeOK /\ tells # <<>> /\ tells' = Tail(tells)
      /\ config' = config /\ reading' = reading /\ saves' = saves
  BY DEF Inv, Deliver
<1>2. CASE instance' = instance
  BY <1>1, <1>2, QuietForward
<1>3. CASE m \in registered /\ i.life # "ended" /\ Update(m, g, j)
  <2>1. Head(tells) \in [to: Members, settings: Settings]
    BY <1>1, TailTyped DEF TypeOK
  <2>2. PICK mm \in Members, tt \in Settings : mm = m /\ tt = t
    BY <2>1
  <2>3. instance[m] \in Seq(Instance) /\ instance[m] # <<>>
    BY <1>3, <2>2 DEF Inv, TypeOK, RegisteredExist
  <2>4. g \in 1..Len(instance[m]) /\ i \in Instance
    BY <2>3
  <2>5. PICK gg \in 1..Len(instance[m]), ii \in Instance : gg = g /\ ii = i
    BY <2>4
  <2>6. Update(mm, gg, [ii EXCEPT !.inbox = Append(ii.inbox, tt)])
    BY <1>3, <2>2, <2>5
  <2>7. 1 \in DOMAIN tells /\ tells[1].to = mm /\ tells[1].settings = tt
    <3>1. tells \in Seq([to: Members, settings: Settings])
      BY <1>1 DEF TypeOK
    <3>2. 1 \in DOMAIN tells /\ Head(tells) = tells[1]
      BY <1>1, <3>1
    <3>3. QED
      BY <2>2, <3>2
  <2>8. ii = instance[mm][gg] /\ gg \in 1..Len(instance[mm])
    BY <2>2, <2>5
  <2> HIDE DEF m, t, g, i, j
  <2> DEFINE new == [ii EXCEPT !.inbox = Append(ii.inbox, tt)]
  <2>9. /\ Append(ii.inbox, tt) \in Seq(Settings) /\ ii.inbox \in Seq(Settings)
        /\ ii.has \in Settings
    BY AppendOne DEF Instance
  <2>10. /\ new \in Instance /\ new.has = ii.has
         /\ new.inbox = Append(ii.inbox, tt)
    BY <2>9 DEF Instance
  <2>11. Update(mm, gg, new)
    BY <2>6
  <2> HIDE DEF new
  <2>12. Later
    BY <1>1, LaterWhenQuiet
  <2>13. TellsInOrder /\ Instances /\ TellsInOrder'
    BY <1>1, <2>12, TellsCarried DEF Forward, Instances
  <2>14. InOrder(mm, ii)
    BY <2>8, <2>13 DEF Instances
  <2>15. /\ instance'[mm][gg] = new
         /\ \A n \in Members : Len(instance'[n]) = Len(instance[n])
         /\ \A n \in Members : \A h \in 1..Len(instance[n]) :
               n # mm \/ h # gg => instance'[n][h] = instance[n][h]
    BY <1>1, <2>8, <2>10, <2>11, UpdateOne DEF TypeOK
  <2>16. Behind(mm, tt)'
    <3>1. Unread(mm, tt)'
      <4>1. Unread(mm, tt)
        BY <2>7, <2>13 DEF TellsInOrder
      <4>2. QED
        BY <1>1, <2>12, <4>1, BehindStays
    <3>2. ASSUME NEW k \in DOMAIN tells', tells'[k].to = mm PROVE Upto(tt, tells'[k].settings)
      <4>1. tells \in Seq([to: Members, settings: Settings])
        BY <1>1 DEF TypeOK
      <4>2. k \in Nat /\ k + 1 \in DOMAIN tells /\ tells'[k] = tells[k + 1]
        <5>1. k + 1 \in DOMAIN tells /\ tells'[k] = tells[k + 1]
          BY <1>1, <4>1, TailParts
        <5>2. DOMAIN tells' = 1..(Len(tells) - 1) /\ Len(tells) \in Nat
          BY <1>1, <4>1, TailParts, SeqParts
        <5>3. QED
          BY <5>1, <5>2
      <4>3. 1 <= k + 1
        BY <4>2
      <4>4. QED
        BY <2>7, <2>13, <3>2, <4>2, <4>3 DEF TellsInOrder
    <3>3. QED
      BY <3>1, <3>2 DEF Behind
  <2>17. Upto(ii.has, tt) /\ \A k \in DOMAIN ii.inbox : Upto(ii.inbox[k], tt)
    BY <2>7, <2>14 DEF InOrder, Behind
  <2>18. InOrder(mm, ii)'
    <3>1. Follows(ii, ii)
      BY DEF Follows
    <3>2. QED
      BY <1>1, <2>12, <2>14, <3>1, InOrderStays
  <2>19. InOrder(mm, new)'
    <3>1. /\ DOMAIN ii.inbox = 1..Len(ii.inbox) /\ Len(ii.inbox) \in Nat
          /\ DOMAIN new.inbox = 1..(Len(ii.inbox) + 1)
          /\ new.inbox[Len(ii.inbox) + 1] = tt
          /\ \A k \in DOMAIN ii.inbox : new.inbox[k] = ii.inbox[k]
      <4>1. DOMAIN ii.inbox = 1..Len(ii.inbox) /\ Len(ii.inbox) \in Nat
        BY <2>9, SeqParts
      <4>2. DOMAIN new.inbox = 1..Len(new.inbox)
        BY <2>9, <2>10, SeqParts
      <4>3. QED
        BY <2>9, <2>10, <4>1, <4>2, AppendOne
    <3>2. \A k \in DOMAIN new.inbox : k \in DOMAIN ii.inbox \/ k = Len(ii.inbox) + 1
      BY <3>1
    <3>3. Behind(mm, new.has)'
      BY <2>10, <2>18 DEF InOrder
    <3>4. ASSUME NEW k \in DOMAIN new.inbox
          PROVE  Behind(mm, new.inbox[k])' /\ Upto(new.has, new.inbox[k])
      <4>1. CASE k \in DOMAIN ii.inbox
        BY <2>10, <2>18, <3>1, <4>1 DEF InOrder
      <4>2. CASE k = Len(ii.inbox) + 1
        BY <2>10, <2>16, <2>17, <3>1, <4>2
      <4>3. QED
        BY <3>2, <4>1, <4>2
    <3>5. ASSUME NEW k \in DOMAIN new.inbox, NEW l \in DOMAIN new.inbox, k <= l
          PROVE  Upto(new.inbox[k], new.inbox[l])
      <4>1. CASE k \in DOMAIN ii.inbox /\ l \in DOMAIN ii.inbox
        BY <2>14, <3>1, <3>5, <4>1 DEF InOrder
      <4>2. CASE k \in DOMAIN ii.inbox /\ l = Len(ii.inbox) + 1
        BY <2>17, <3>1, <4>2
      <4>3. CASE k = Len(ii.inbox) + 1
        <5>1. l = k
          BY <3>1, <3>5, <4>3
        <5>2. tt.design \in Nat /\ tt.profile \in Nat
          BY <1>1, SettingsTyped
        <5>3. QED
          BY <3>1, <4>3, <5>1, <5>2 DEF Upto
      <4>4. QED
        BY <3>2, <4>1, <4>2, <4>3
    <3>6. QED
      BY <3>3, <3>4, <3>5 DEF InOrder
  <2>20. ASSUME NEW n \in Members, NEW h \in 1..Len(instance[n])
         PROVE  /\ Upto(instance[n][h].has, instance'[n][h].has)
                /\ InOrder(n, instance[n][h])'
    <3>1. instance[n][h] \in Instance
      <4>1. instance[n] \in Seq(Instance)
        BY <1>1 DEF TypeOK
      <4>2. QED
        BY <4>1
    <3>2. PICK x \in Instance : x = instance[n][h]
      BY <3>1
    <3>3. InOrder(n, x) /\ Follows(x, x)
      BY <2>13, <3>2 DEF Instances, Follows
    <3>4. InOrder(n, x)' /\ Upto(x.has, x.has)
      BY <1>1, <2>12, <3>3, InOrderStays, FollowsUpto
    <3>5. CASE n = mm /\ h = gg
      BY <2>8, <2>10, <2>15, <2>19, <3>2, <3>4, <3>5
    <3>6. CASE n # mm \/ h # gg
      <4>1. instance'[n][h] = x
        BY <2>15, <3>2, <3>6
      <4>2. QED
        BY <3>2, <3>4, <4>1
    <3>7. QED
      BY <3>5, <3>6
  <2>21. Instances' /\ Onward
    BY <2>15, <2>20 DEF Instances, Onward
  <2>22. QED
    BY <1>1, <2>13, <2>21 DEF Forward, Instances
<1>4. QED
  BY <1>2, <1>3 DEF Deliver

\* What a save starts has nothing yet, what it stops keeps what it has.
LEMMA SaveForward ==
    ASSUME TypeOK, TypeOK', Forward, ~reverted,
           NEW on \in SUBSET listed, NEW bad \in SUBSET on, Save(on, bad)
    PROVE  Forward' /\ Onward
<1>1. /\ config'.version = saves + 2 /\ saves' = saves + 1 /\ saves \in Nat
      /\ reading' = reading /\ tells' = tells
  BY MemberLifeAssumption DEF Save, TypeOK
<1>2. /\ config.version <= saves + 1
      /\ \A r \in reading : r.design <= config.version
      /\ TellsInOrder /\ Instances
  BY DEF Forward, Instances
<1>3. config.version <= config'.version
  BY <1>1, <1>2, SettingsTyped
<1>4. Later
  BY <1>1, <1>3 DEF Later
<1>5. TellsInOrder'
  BY <1>1, <1>2, <1>4, TellsCarried
<1>6. ASSUME NEW m \in Members
      PROVE  /\ \A g \in 1..Len(instance[m]) :
                   g \in 1..Len(instance'[m]) /\ Follows(instance[m][g], instance'[m][g])
             /\ \A g \in 1..Len(instance'[m]) :
                   g \in 1..Len(instance[m]) \/ instance'[m][g] = NewInstance(FALSE)
  <2>1. instance[m] \in Seq(Instance)
    BY DEF TypeOK
  <2>2. ASSUME NEW i PROVE Follows(i, i)
    BY DEF Follows
  <2>3. instance'[m] =
          IF m \in ToStart(on) THEN Append(instance[m], NewInstance(FALSE))
          ELSE IF m \in ToStop(on) /\ instance[m] # <<>>
          THEN [instance[m] EXCEPT ![Len(instance[m])] = Stop(m, instance[m][Len(instance[m])])]
          ELSE instance[m]
    BY DEF Save
  <2>4. CASE m \in ToStart(on)
    <3>1. NewInstance(FALSE) \in Instance
      BY MemberLifeAssumption, NewInstanceTyped
    <3>2. instance'[m] = Append(instance[m], NewInstance(FALSE))
      BY <2>3, <2>4
    <3>3. /\ Len(instance'[m]) = Len(instance[m]) + 1 /\ Len(instance[m]) \in Nat
          /\ instance'[m][Len(instance[m]) + 1] = NewInstance(FALSE)
          /\ \A g \in 1..Len(instance[m]) : instance'[m][g] = instance[m][g]
      <4>1. PICK x \in Instance : x = NewInstance(FALSE)
        BY <3>1
      <4>2. PICK s \in Seq(Instance) : s = instance[m]
        BY <2>1
      <4>3. instance'[m] = Append(s, x) /\ Len(s) \in Nat
        BY <3>2, <4>1, <4>2
      <4>4. /\ Len(Append(s, x)) = Len(s) + 1
            /\ Append(s, x)[Len(s) + 1] = x
            /\ \A k \in 1..Len(s) : Append(s, x)[k] = s[k]
        BY AppendOne
      <4>5. QED
        BY <4>1, <4>2, <4>3, <4>4
    <3>4. \A g \in 1..Len(instance[m]) : g \in 1..Len(instance'[m])
      BY <3>3
    <3>5. \A g \in 1..Len(instance'[m]) : g \in 1..Len(instance[m]) \/ g = Len(instance[m]) + 1
      BY <3>3
    <3>6. QED
      BY <2>2, <3>3, <3>4, <3>5
  <2>5. CASE m \notin ToStart(on) /\ m \in ToStop(on) /\ instance[m] # <<>>
    <3> DEFINE n == Len(instance[m])
               j == Stop(m, instance[m][n])
    <3>1. n \in 1..n /\ instance[m][n] \in Instance
      BY <2>1, <2>5
    <3>2. Follows(instance[m][n], j) /\ instance'[m] = [instance[m] EXCEPT ![n] = j]
      BY <2>3, <2>5, <3>1, StopFollows
    <3> HIDE DEF j
    <3>3. /\ Len(instance'[m]) = n
          /\ \A g \in 1..n : instance'[m][g] = IF g = n THEN j ELSE instance[m][g]
      BY <2>1, <3>2
    <3>4. QED
      BY <2>2, <3>2, <3>3
  <2>6. CASE m \notin ToStart(on) /\ ~(m \in ToStop(on) /\ instance[m] # <<>>)
    BY <2>2, <2>3, <2>6
  <2>7. QED
    BY <2>4, <2>5, <2>6
<1>7. Instances' /\ Onward
  BY <1>2, <1>4, <1>6, InstancesFollow
<1>8. /\ config'.version <= saves' + 1
      /\ \A r \in reading' : r.design <= config'.version
  BY <1>1, <1>2, <1>3, SettingsTyped
<1>9. QED
  BY <1>5, <1>7, <1>8 DEF Forward, Instances

\* The service has read one request at a time.
LEMMA ReadForward ==
    ASSUME TypeOK, TypeOK', ReadOnce, ReadDesign
    PROVE  ReadOnce' /\ (Forward /\ ~reverted => Forward' /\ Onward)
<1>1. /\ config' = config /\ saves' = saves /\ tells' = tells /\ instance' = instance
      /\ reading = {}
  BY DEF ReadDesign, MayRead
<1>2. PICK r : reading' = {r} /\ r.design = config.version
  <2> DEFINE x == [to |-> Head(asks), design |-> config.version,
                   sound |-> Head(asks) \notin config.bad]
  <2>1. reading' = {x} /\ x.design = config.version
    BY <1>1 DEF ReadDesign
  <2> HIDE DEF x
  <2>2. QED
    BY <2>1
<1>3. ReadOnce'
  BY <1>2 DEF ReadOnce
<1>4. ASSUME Forward, ~reverted PROVE Forward' /\ Onward
  <2>1. config.version \in Nat /\ config.version <= config.version
    BY SettingsTyped
  <2>2. Later
    BY <1>1, <1>2, <2>1 DEF Later
  <2>3. TellsInOrder'
    BY <1>1, <1>4, <2>2, TellsCarried DEF Forward
  <2>4. Instances' /\ Onward
    BY <1>1, <1>4, <2>2, AllFollow, InstancesFollow DEF Forward, Instances
  <2>5. config'.version <= saves' + 1 /\ \A x \in reading' : x.design <= config'.version
    BY <1>1, <1>2, <1>4, <2>1 DEF Forward
  <2>6. QED
    BY <2>3, <2>4, <2>5 DEF Forward, Instances
<1>5. QED
  BY <1>3, <1>4

\* An answer of the service, to an agent or to a composer.
LEMMA AnswerForward ==
    ASSUME TypeOK, TypeOK', Forward, ~reverted,
           config' = config, saves' = saves, instance' = instance,
           reading' \subseteq reading,
           NEW t \in [to: Members, settings: Settings], tells' = Append(tells, t),
           t.settings.profile = config.version,
           \/ t.settings.design = config.version
           \/ \E r \in reading : r.to = t.to /\ r.design = t.settings.design,
           reading' = {}
    PROVE  Forward' /\ Onward
<1>1. config.version \in Nat /\ config.version <= config.version
  BY SettingsTyped
<1>2. /\ config.version <= saves + 1
      /\ \A r \in reading : r.design <= config.version
      /\ TellsInOrder /\ Instances
  BY DEF Forward, Instances
<1>3. Later
  <2>1. ASSUME NEW k \in DOMAIN tells'
        PROVE  tells'[k] = t \/ \E l \in DOMAIN tells : tells'[k] = tells[l]
    <3>1. tells \in Seq([to: Members, settings: Settings])
      BY DEF TypeOK
    <3>2. DOMAIN tells = 1..Len(tells) /\ Len(tells) \in Nat
      BY <3>1, SeqParts
    <3>3. DOMAIN tells' = 1..(Len(tells) + 1)
      BY <3>1
    <3>4. CASE k = Len(tells) + 1
      BY <3>1, <3>4, AppendOne
    <3>5. CASE k \in 1..Len(tells)
      BY <3>1, <3>2, <3>5, AppendOne
    <3>6. QED
      BY <3>2, <3>3, <3>4, <3>5
  <2>2. QED
    BY <1>1, <2>1 DEF Later
<1>4. t.settings.design <= config.version
  BY <1>1, <1>2
<1>5. Unread(t.to, t.settings)'
  BY <1>1, <1>4 DEF Unread
<1>6. TellsInOrder'
  BY <1>1, <1>2, <1>3, <1>5, TellsGrow
<1>7. Instances' /\ Onward
  BY <1>2, <1>3, AllFollow, InstancesFollow
<1>8. QED
  BY <1>2, <1>6, <1>7 DEF Forward, Instances

LEMMA ServiceForward ==
    ASSUME TypeOK, TypeOK', ReadOnce, ServiceStep
    PROVE  ReadOnce' /\ (Forward /\ ~reverted => Forward' /\ Onward)
<1>1. /\ asks \in Seq(Members) /\ reading \in SUBSET Reading
      /\ config.version \in Nat /\ config.version \in 0..(MaxSaves + 1)
  BY MemberLifeAssumption DEF TypeOK, Config, Versions
<1>2. CASE ReadDesign
  BY <1>2, ReadForward
<1>3. ASSUME NEW r \in reading, Answer(r)
      PROVE  ReadOnce' /\ (Forward /\ ~reverted => Forward' /\ Onward)
  <2>1. r.to \in Members /\ r.design \in 0..(MaxSaves + 1) /\ r.sound \in BOOLEAN
    BY <1>1, MemberLifeAssumption DEF Reading, Members, Versions
  <2> DEFINE t == [to |-> r.to, settings |->
                      [design |-> r.design, profile |-> config.version, sound |-> r.sound]]
  <2>2. /\ t \in [to: Members, settings: Settings]
        /\ t.to = r.to /\ t.settings.design = r.design
        /\ t.settings.profile = config.version
    BY <1>1, <2>1 DEF Settings
  <2>3. /\ tells' = Append(tells, t)
        /\ config' = config /\ saves' = saves /\ instance' = instance
        /\ reading' = reading \ {r}
    BY <1>3 DEF Answer
  <2> HIDE DEF t
  <2>4. reading' = {} /\ ReadOnce'
    BY <2>3 DEF ReadOnce
  <2>5. QED
    BY <2>2, <2>3, <2>4, AnswerForward
<1>4. CASE AnswerComposer
  <2> DEFINE sound == Head(asks) \notin config.bad
             t == [to |-> Head(asks), settings |->
                      [design |-> config.version, profile |-> config.version, sound |-> sound]]
  <2>1. sound \in BOOLEAN /\ Head(asks) \in Members
    BY <1>1, <1>4, TailTyped DEF AnswerComposer
  <2>2. /\ tells' = Append(tells, t)
        /\ config' = config /\ saves' = saves /\ instance' = instance
        /\ reading' = reading /\ reading = {}
    BY <1>4 DEF AnswerComposer, MayRead
  <2> HIDE DEF sound
  <2>3. /\ t \in [to: Members, settings: Settings]
        /\ t.settings.design = config.version
        /\ t.settings.profile = config.version
    BY <1>1, <2>1 DEF Settings
  <2> HIDE DEF t
  <2>4. ReadOnce'
    BY <2>2 DEF ReadOnce
  <2>5. QED
    BY <2>2, <2>3, <2>4, AnswerForward
<1>5. CASE Ignore
  <2>1. /\ config' = config /\ saves' = saves /\ tells' = tells /\ instance' = instance
        /\ reading' = reading
    BY <1>5 DEF Ignore
  <2>2. QED
    BY <2>1, QuietForward DEF ReadOnce
<1>6. QED
  BY <1>2, <1>3, <1>4, <1>5 DEF ServiceStep

\* Every step keeps the order, and gives nobody an older configuration.
LEMMA NextForward ==
    ASSUME ConfigInv, [Next]_vars
    PROVE  ConfigInv' /\ (~reverted' => Onward)
<1>1. Inv' /\ TypeOK /\ TypeOK' /\ reverted \in BOOLEAN
  <2>1. Inv'
    BY NextInv DEF ConfigInv
  <2>2. QED
    BY <2>1 DEF ConfigInv, Inv, TypeOK
<1>2. ReadOnce /\ Forward
  BY DEF ConfigInv
<1>3. ReadOnce' /\ (Forward /\ ~reverted /\ ~reverted' => Forward' /\ Onward)
  <2>1. ASSUME NEW on \in SUBSET listed, NEW bad \in SUBSET on, Save(on, bad)
        PROVE  ReadOnce' /\ (Forward /\ ~reverted => Forward' /\ Onward)
    <3>1. ReadOnce'
      BY <1>2, <2>1 DEF Save, ReadOnce
    <3>2. QED
      BY <1>1, <2>1, <3>1, SaveForward
  <2>2. CASE ReadForNotifications
    BY <1>1, <1>2, <2>2, QuietForward DEF ReadForNotifications, ReadOnce
  <2>3. CASE WriteNotifications
    <3>1. ~reverted' => config' = config
      BY <2>3 DEF WriteNotifications
    <3>2. /\ reading' = reading /\ tells' = tells /\ instance' = instance /\ saves' = saves
      BY <2>3 DEF WriteNotifications
    <3>3. QED
      BY <1>1, <1>2, <3>1, <3>2, QuietForward DEF ReadOnce
  <2>4. CASE ServiceStep
    BY <1>1, <1>2, <2>4, ServiceForward
  <2>5. CASE Deliver
    <3>1. ReadOnce'
      BY <1>2, <2>5 DEF Deliver, ReadOnce
    <3>2. QED
      BY <1>1, <2>5, <3>1, DeliverForward DEF ConfigInv
  <2>6. CASE Lose
    <3>1. /\ reading' = reading /\ instance' = instance /\ saves' = saves /\ config' = config
          /\ tells # <<>> /\ tells' = Tail(tells)
      BY <2>6 DEF Lose
    <3>2. QED
      BY <1>1, <1>2, <3>1, QuietForward DEF ReadOnce
  <2>7. ASSUME NEW m \in Members, NEW g \in 1..Len(instance[m]), MemberStep(m, g)
        PROVE  ReadOnce' /\ (Forward /\ ~reverted => Forward' /\ Onward)
    <3>1. /\ \E j \in Instance : Update(m, g, j) /\ Follows(instance[m][g], j)
          /\ UNCHANGED <<config, reading, tells, saves, reverted>>
      BY <1>1, <2>7, MemberStepFollows
    <3>2. QED
      BY <1>1, <1>2, <3>1, QuietForward DEF ReadOnce
  <2>8. CASE UNCHANGED vars
    BY <1>1, <1>2, <2>8, QuietForward DEF vars, ReadOnce
  <2>9. QED
    BY <2>1, <2>2, <2>3, <2>4, <2>5, <2>6, <2>7, <2>8 DEF Next
<1>4. ~reverted' => ~reverted
  <2>1. CASE WriteNotifications
    BY <2>1 DEF WriteNotifications
  <2>2. CASE ServiceStep
    BY <2>2 DEF ServiceStep, ReadDesign, Answer, AnswerComposer, Ignore
  <2>3. ASSUME NEW m \in Members, NEW g \in 1..Len(instance[m]), MemberStep(m, g)
        PROVE  reverted' = reverted
    BY <2>3 DEF MemberStep, Begin, Receive, ReceiveBad, TimesOut, Refresh, RefreshBad, WindDown
  <2>4. ASSUME NEW on \in SUBSET listed, NEW bad \in SUBSET on, Save(on, bad)
        PROVE  reverted' = reverted
    BY <2>4 DEF Save
  <2>5. CASE ReadForNotifications \/ Deliver \/ Lose \/ UNCHANGED vars
    BY <2>5 DEF ReadForNotifications, Deliver, Lose, vars
  <2>6. QED
    BY <2>1, <2>2, <2>3, <2>4, <2>5 DEF Next
<1>5. Forward'
  <2>1. CASE reverted'
    BY <2>1 DEF Forward
  <2>2. CASE ~reverted'
    BY <1>2, <1>3, <1>4, <2>2
  <2>3. QED
    BY <2>1, <2>2
<1>6. QED
  BY <1>1, <1>2, <1>3, <1>4, <1>5 DEF ConfigInv

LEMMA InitForward == Init => ConfigInv
<1> SUFFICES ASSUME Init PROVE ConfigInv
  OBVIOUS
<1>1. Inv
  BY InitInv
<1>2. TypeOK /\ reading = {} /\ tells = <<>> /\ saves = 0 /\ config.version = 1
  BY <1>1 DEF Inv, Init
<1>3. DOMAIN <<>> = {}
  OBVIOUS
<1>4. ReadOnce /\ TellsInOrder
  BY <1>2, <1>3 DEF ReadOnce, TellsInOrder
<1>5. ASSUME NEW m \in Members, NEW g \in 1..Len(instance[m])
      PROVE  InOrder(m, instance[m][g])
  <2> DEFINE i == NewInstance(TRUE)
  <2>1. instance[m][g] = i
    <3>1. instance[m] = IF m \in config.on THEN <<i>> ELSE <<>>
      BY DEF Init
    <3>2. CASE m \in config.on
      <4>1. instance[m] = <<i>>
        BY <3>1, <3>2
      <4> HIDE DEF i
      <4>2. Len(<<i>>) = 1 /\ <<i>>[1] = i
        OBVIOUS
      <4>3. g = 1
        BY <4>1, <4>2
      <4>4. QED
        BY <4>1, <4>2, <4>3
    <3>3. CASE m \notin config.on
      <4>1. Len(<<>>) = 0
        OBVIOUS
      <4>2. QED
        BY <3>1, <3>3, <4>1
    <3>4. QED
      BY <3>2, <3>3
  <2>2. i.inbox = <<>> /\ i.has.design = 0 /\ i.has.profile = 0
    BY DEF NewInstance, NoSettings
  <2> HIDE DEF i
  <2>3. 0 <= config.version
    BY <1>2
  <2>4. Behind(m, i.has)
    BY <1>2, <1>3, <2>2, <2>3 DEF Behind, Unread
  <2>5. InOrder(m, i)
    BY <1>3, <2>2, <2>4 DEF InOrder
  <2>6. QED
    BY <2>1, <2>5
<1>6. QED
  BY <1>1, <1>2, <1>4, <1>5 DEF ConfigInv, Forward

\* Whatever is saved while requests are answered, and whatever is lost, a member is never
\* given an older configuration than it has, unless one save has undone another.
THEOREM ConfigGoesForward == Spec => ConfigNeverGoesBack
<1> DEFINE Step == \A m \in Members : \A g \in 1..Len(instance[m]) :
              \/ reverted'
              \/ /\ instance'[m][g].has.design >= instance[m][g].has.design
                 /\ instance'[m][g].has.profile >= instance[m][g].has.profile
<1>1. ConfigInv /\ [Next]_vars => ConfigInv' /\ [Step]_vars
  <2> SUFFICES ASSUME ConfigInv, [Next]_vars PROVE ConfigInv' /\ Step
    OBVIOUS
  <2>1. ConfigInv' /\ (~reverted' => Onward)
    BY NextForward
  <2>2. QED
    BY <2>1 DEF Onward, Upto
<1>2. QED
  BY <1>1, InitForward, PTL DEF Spec, ConfigNeverGoesBack
=============================================================================
