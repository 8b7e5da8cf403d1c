------------------------- MODULE RoutingStoreProofs -------------------------
(***************************************************************************)
(* An inductive invariant of RoutingStore, for every set of members, event *)
(* types and saves.                                                        *)
(***************************************************************************)
EXTENDS RoutingStore, TLAPS

-----------------------------------------------------------------------------
(* The invariant.                                                          *)

Part(rules, o) == IF o = "designer" THEN rules.designer ELSE rules.service
Latest(o) == IF o = "designer" THEN designed ELSE wanted
Payload(s) == IF save[s].owner = "designer" THEN save[s].design ELSE save[s].derived
Owner(i) == save[line[i]].owner

\* Saves that are under way stand in the line once, and only its head is at work.
Queued ==
    /\ \A s \in Saves : save[s].pc \in {"waiting", "writing", "written", "failed"}
                        <=> \E i \in 1..Len(line) : line[i] = s
    /\ \A i, j \in 1..Len(line) : line[i] = line[j] => i = j
    /\ \A i \in 2..Len(line) : save[line[i]].pc = "waiting"

\* A save changes the rules of its owner, and those only.
Prepared ==
    \A s \in Saves :
        /\ save[s].pc = "writing" =>
              \A o \in Owners : Part(text[s], o) = IF o = save[s].owner
                                                        THEN Payload(s)
                                                        ELSE Part(file, o)
        /\ save[s].pc = "written" => Part(file, save[s].owner) = Payload(s)

\* The table is behind the file only until the save that wrote it ends.
Reloaded == (\A s \in Saves : save[s].pc # "written") => table = file

\* The last save of an owner in the line has its latest rules; if there is none, the
\* file has them.
Newest ==
    \A o \in Owners :
        /\ \A i \in 1..Len(line) :
              Owner(i) = o /\ (\A j \in (i + 1)..Len(line) : Owner(j) # o)
              => Payload(line[i]) = Latest(o)
        /\ (\A i \in 1..Len(line) : Owner(i) # o)
           => Part(file, o) = Latest(o) \/ o \in unsaved

StoreInv == StoreTypeOK /\ Queued /\ Prepared /\ Reloaded /\ Newest

-----------------------------------------------------------------------------
LEMMA NoSaveTyped == NoSave \in Save
BY DEF NoSave, Save, NoDesign, Design, Owners

\* Whoever writes, fails or has written is the head of the line.
LEMMA HeadWorks ==
    ASSUME StoreInv, NEW s \in Saves, save[s].pc \in {"writing", "written", "failed"}
    PROVE  line # <<>> /\ Head(line) = s
<1>1. PICK i \in 1..Len(line) : line[i] = s
  BY DEF StoreInv, Queued
<1>2. i = 1
  BY <1>1 DEF StoreInv, Queued
<1>3. QED
  BY <1>1, <1>2 DEF StoreInv, StoreTypeOK

LEMMA StoreInitially == StoreInit => StoreInv
<1> SUFFICES ASSUME StoreInit PROVE StoreInv
  OBVIOUS
<1>1. StoreTypeOK
  BY NoSaveTyped DEF StoreInit, StoreTypeOK, Rules, NoRules, NoDesign, Design, Owners
<1>2. \A s \in Saves : save[s].pc = "unused"
  BY DEF StoreInit, NoSave
<1>3. Queued /\ Prepared /\ Reloaded
  BY <1>2 DEF StoreInit, Queued, Prepared, Reloaded
<1>4. Newest
  BY DEF StoreInit, Newest, Part, Latest, Owners
<1>5. QED
  BY <1>1, <1>3, <1>4 DEF StoreInv

\* A request joins the line.
LEMMA SaveArrives ==
    ASSUME StoreInv, NEW s \in Saves, NEW design \in Design, NEW derived \in SUBSET Topics,
           DesignerSaves(s, design) \/ ServiceSaves(s, derived)
    PROVE  StoreInv'
<1>0. PICK n \in Nat : n = Len(line) + 1
  BY DEF StoreInv, StoreTypeOK
<1>1. PICK v \in Save : /\ v.pc = "waiting"
                        /\ save' = [save EXCEPT ![s] = v]
                        /\ (IF v.owner = "designer" THEN v.design ELSE v.derived)
                           = Latest(v.owner)'
                        /\ \A o \in Owners \ {v.owner} : Latest(o)' = Latest(o)
  <2>1. CASE DesignerSaves(s, design)
    <3> DEFINE v == [pc |-> "waiting", owner |-> "designer", design |-> design,
                     derived |-> {}]
    <3>1. v \in Save
      BY DEF Save, Owners
    <3>2. QED
      BY <2>1, <3>1 DEF DesignerSaves, Request, Latest, Owners
  <2>2. CASE ServiceSaves(s, derived)
    <3> DEFINE v == [pc |-> "waiting", owner |-> "service", design |-> NoDesign,
                     derived |-> derived]
    <3>1. v \in Save
      BY DEF Save, Owners, NoDesign, Design
    <3>2. QED
      BY <2>2, <3>1 DEF ServiceSaves, Request, Latest, Owners
  <2>3. QED
    BY <2>1, <2>2
<1>2. /\ save[s].pc = "unused" /\ line' = Append(line, s)
      /\ UNCHANGED <<file, table, text, unsaved>>
  BY DEF DesignerSaves, ServiceSaves, Request
<1>3. /\ Len(line) \in Nat /\ Len(line') = n /\ line'[n] = s
      /\ \A i \in 1..Len(line) : line'[i] = line[i] /\ line[i] \in Saves
  BY <1>0, <1>2 DEF StoreInv, StoreTypeOK
<1>4. \A i \in 1..Len(line) : line[i] # s
  BY <1>2 DEF StoreInv, Queued
<1>5. /\ save'[s] = v
      /\ \A t \in Saves \ {s} : save'[t] = save[t]
  BY <1>1 DEF StoreInv, StoreTypeOK
<1>6. StoreTypeOK'
  <2>1. wanted' \in SUBSET Topics /\ designed' \in Design
    BY DEF DesignerSaves, ServiceSaves, StoreInv, StoreTypeOK
  <2>2. QED
    BY <1>1, <1>2, <2>1 DEF StoreInv, StoreTypeOK
<1>7. Queued'
  BY <1>0, <1>1, <1>2, <1>3, <1>4, <1>5 DEF StoreInv, Queued
<1>8. Prepared' /\ Reloaded'
  BY <1>1, <1>2, <1>5 DEF StoreInv, Prepared, Reloaded, Part, Payload
<1>9. Newest'
  <2> SUFFICES ASSUME NEW o \in Owners
               PROVE  /\ \A i \in 1..Len(line') :
                            Owner(i)' = o /\ (\A j \in (i + 1)..Len(line') : Owner(j)' # o)
                            => Payload(line[i])' = Latest(o)'
                      /\ (\A i \in 1..Len(line') : Owner(i)' # o)
                         => Part(file, o)' = Latest(o)' \/ o \in unsaved'
    BY DEF Newest
  <2>1. Owner(n)' = v.owner /\ Payload(line[n])' = Latest(v.owner)'
    BY <1>0, <1>1, <1>3, <1>5 DEF Owner, Payload
  <2>2. \A i \in 1..Len(line) : Owner(i)' = Owner(i) /\ Payload(line[i])' = Payload(line[i])
    BY <1>3, <1>4, <1>5 DEF Owner, Payload
  <2>3. ASSUME NEW i \in 1..n, Owner(i)' = o, \A j \in (i + 1)..n : Owner(j)' # o
        PROVE  Payload(line[i])' = Latest(o)'
    <3>1. CASE i = n
      BY <2>1, <2>3, <3>1
    <3>2. CASE i # n
      <4>1. i \in 1..Len(line) /\ n \in (i + 1)..n
        BY <1>0, <1>3, <3>2
      <4>2. o # v.owner /\ \A j \in (i + 1)..Len(line) : Owner(j) # o
        BY <1>0, <1>3, <2>1, <2>2, <2>3, <4>1
      <4>3. QED
        BY <1>1, <2>2, <2>3, <4>1, <4>2 DEF StoreInv, Newest
    <3>3. QED
      BY <3>1, <3>2
  <2>4. ASSUME \A i \in 1..n : Owner(i)' # o
        PROVE  Part(file, o)' = Latest(o)' \/ o \in unsaved'
    <3>1. o # v.owner /\ \A i \in 1..Len(line) : Owner(i) # o
      BY <1>0, <1>3, <2>1, <2>2, <2>4
    <3>2. QED
      BY <1>1, <1>2, <3>1 DEF StoreInv, Newest, Part
  <2>5. QED
    BY <1>3, <2>3, <2>4
<1>10. QED
  BY <1>6, <1>7, <1>8, <1>9 DEF StoreInv
\* The head of the line goes on without leaving it.
LEMMA HeadStays ==
    ASSUME StoreInv, NEW s \in Saves, SaveBegins(s) \/ SaveWrites(s) \/ SaveFails(s)
    PROVE  StoreInv'
<1>1. line # <<>> /\ Head(line) = s
  BY HeadWorks DEF SaveBegins, MayBegin, SaveWrites, SaveFails
<1>2. PICK p \in {"writing", "written", "failed"} : save' = [save EXCEPT ![s].pc = p]
  BY DEF SaveBegins, SaveWrites, SaveFails
<1>3. /\ UNCHANGED <<table, wanted, line, designed, unsaved>>
      /\ save[s].pc \in {"waiting", "writing"}
  BY DEF SaveBegins, MayBegin, SaveWrites, SaveFails
<1>4. /\ save' \in [Saves -> Save]
      /\ save'[s].pc = p
      /\ \A t \in Saves : /\ t # s => save'[t] = save[t]
                          /\ save'[t].owner = save[t].owner
                          /\ save'[t].design = save[t].design
                          /\ save'[t].derived = save[t].derived
  BY <1>2 DEF StoreInv, StoreTypeOK, Save
<1>5. /\ file' \in Rules /\ text' \in [Saves -> Rules]
      /\ \A t \in Saves : t # s => text'[t] = text[t]
  BY DEF StoreInv, StoreTypeOK, Save, Rules, SaveBegins, SaveWrites, SaveFails
<1>6. StoreTypeOK'
  BY <1>3, <1>4, <1>5 DEF StoreInv, StoreTypeOK
<1>7. \A i \in 1..Len(line) : line[i] \in Saves /\ (line[i] = s => i = 1)
  BY <1>1 DEF StoreInv, StoreTypeOK, Queued
<1>8. Queued'
  BY <1>1, <1>3, <1>4, <1>7 DEF StoreInv, Queued
<1>9. \A t \in Saves : t # s => save[t].pc \in {"unused", "waiting", "done"}
  <2> SUFFICES ASSUME NEW t \in Saves, save[t].pc \in {"writing", "written", "failed"}
               PROVE  t = s
    BY DEF StoreInv, StoreTypeOK, Save
  <2>1. QED
    BY <1>1, HeadWorks
<1>10. \A t \in Saves : Payload(t)' = Payload(t) /\ save'[t].owner = save[t].owner
  BY <1>4 DEF Payload
<1>11. Prepared'
  <2>1. ASSUME NEW t \in Saves, t # s
        PROVE  save'[t].pc # "writing" /\ save'[t].pc # "written"
    BY <1>4, <1>9, <2>1
  <2>2. CASE SaveBegins(s)
    <3>1. \A o \in Owners : Part(text'[s], o) = IF o = save[s].owner THEN Payload(s)
                                                                 ELSE Part(file, o)
      BY <2>2 DEF SaveBegins, Part, Payload, Owners, StoreInv, StoreTypeOK, Save
    <3>2. save'[s].pc = "writing" /\ file' = file
      BY <1>4, <2>2 DEF SaveBegins, StoreInv, StoreTypeOK
    <3>3. QED
      BY <1>10, <2>1, <3>1, <3>2 DEF Prepared, Part
  <2>3. CASE SaveWrites(s)
    <3>1. save'[s].pc = "written" /\ file' = text[s]
      BY <2>3 DEF SaveWrites, StoreInv, StoreTypeOK
    <3>2. save[s].owner \in Owners
      BY DEF StoreInv, StoreTypeOK, Save
    <3>3. Part(text[s], save[s].owner) = Payload(s)
      BY <2>3, <3>2 DEF SaveWrites, StoreInv, Prepared
    <3>4. QED
      BY <1>10, <2>1, <3>1, <3>3 DEF Prepared, Part
  <2>4. CASE SaveFails(s)
    <3>1. save'[s].pc = "failed"
      BY <2>4 DEF SaveFails, StoreInv, StoreTypeOK
    <3>2. QED
      BY <2>1, <3>1 DEF Prepared
  <2>5. QED
    BY <2>2, <2>3, <2>4
<1>12. Reloaded'
  <2>1. CASE SaveWrites(s)
    BY <1>4, <2>1 DEF SaveWrites, StoreInv, StoreTypeOK, Reloaded
  <2>2. CASE SaveBegins(s) \/ SaveFails(s)
    <3>1. \A t \in Saves : save[t].pc # "written"
      BY <1>3, <1>9
    <3>2. QED
      BY <2>2, <3>1 DEF SaveBegins, SaveFails, StoreInv, Reloaded
  <2>3. QED
    BY <2>1, <2>2
<1>13. Newest'
  <2>1. \A i \in 1..Len(line) : Owner(i)' = Owner(i) /\ Payload(line[i])' = Payload(line[i])
    BY <1>3, <1>7, <1>10 DEF Owner, Payload
  <2>2. ASSUME NEW o \in Owners, \A i \in 1..Len(line) : Owner(i) # o
        PROVE  Part(file, o)' = Part(file, o)
    <3>1. CASE SaveWrites(s)
      <4>1. 1 \in 1..Len(line) /\ line[1] = s
        BY <1>1 DEF StoreInv, StoreTypeOK
      <4>2. o # save[s].owner
        BY <2>2, <4>1 DEF Owner
      <4>3. QED
        BY <3>1, <4>2 DEF SaveWrites, StoreInv, Prepared, Part
    <3>2. CASE SaveBegins(s) \/ SaveFails(s)
      BY <3>2 DEF SaveBegins, SaveFails, Part
    <3>3. QED
      BY <3>1, <3>2
  <2>3. \A o \in Owners : Latest(o)' = Latest(o)
    BY <1>3 DEF Latest
  <2>4. QED
    BY <1>3, <2>1, <2>2, <2>3 DEF StoreInv, Newest
<1>14. QED
  BY <1>6, <1>8, <1>11, <1>12, <1>13 DEF StoreInv

\* The head of the line leaves, and the next save becomes the head.
LEMMA HeadLeaves ==
    ASSUME StoreInv, NEW s \in Saves, SaveSkips(s) \/ SaveEnds(s) \/ SaveAborts(s)
    PROVE  StoreInv'
<1>1. line # <<>> /\ Head(line) = s
  BY HeadWorks DEF SaveSkips, MayBegin, SaveEnds, SaveAborts
<1>2. /\ Leaves(s)
      /\ UNCHANGED <<file, wanted, text, designed>>
  BY DEF SaveSkips, SaveEnds, SaveAborts
<1>3. /\ save' \in [Saves -> Save]
      /\ save'[s].pc = "done"
      /\ \A t \in Saves : t # s => save'[t] = save[t]
      /\ \A t \in Saves : Payload(t)' = Payload(t) /\ save'[t].owner = save[t].owner
  BY <1>2 DEF Leaves, StoreInv, StoreTypeOK, Save, Payload
<1>4. PICK n \in Nat : /\ Len(line) = n + 1
                       /\ line' \in Seq(Saves) /\ Len(line') = n
                       /\ \A i \in 1..n : line'[i] = line[i + 1]
                       /\ \A i \in 1..(n + 1) : line[i] \in Saves
                       /\ line[1] = s
  <2>1. Len(line) \in Nat \ {0} /\ Len(line) - 1 \in Nat
    BY <1>1 DEF StoreInv, StoreTypeOK
  <2>2. QED
    BY <1>1, <1>2, <2>1 DEF Leaves, StoreInv, StoreTypeOK
<1>5. \A i \in 1..n : line[i + 1] # s /\ save[line[i + 1]].pc = "waiting"
  BY <1>4 DEF StoreInv, Queued
<1>6. \A t \in Saves : t # s => save[t].pc \in {"unused", "waiting", "done"}
  <2> SUFFICES ASSUME NEW t \in Saves, save[t].pc \in {"writing", "written", "failed"}
               PROVE  t = s
    BY DEF StoreInv, StoreTypeOK, Save
  <2>1. QED
    BY <1>1, HeadWorks
<1>7. StoreTypeOK'
  <2>1. table' \in Rules /\ unsaved' \in SUBSET Owners
    BY DEF SaveSkips, SaveEnds, SaveAborts, StoreInv, StoreTypeOK, Save
  <2>2. QED
    BY <1>2, <1>3, <1>4, <2>1 DEF StoreInv, StoreTypeOK
<1>8. Queued'
  <2>1. \A t \in Saves : save'[t].pc \in {"waiting", "writing", "written", "failed"}
                         <=> \E i \in 1..Len(line') : line'[i] = t
    <3> SUFFICES ASSUME NEW t \in Saves
                 PROVE  save'[t].pc \in {"waiting", "writing", "written", "failed"}
                        <=> \E i \in 1..Len(line') : line'[i] = t
      OBVIOUS
    <3>0. (\E i \in 1..Len(line') : line'[i] = t) <=> \E i \in 1..n : line[i + 1] = t
      BY <1>4
    <3>1. CASE t = s
      BY <1>3, <1>5, <3>0, <3>1
    <3>2. CASE t # s
      <4>1. save'[t].pc \in {"waiting", "writing", "written", "failed"}
            <=> \E i \in 1..(n + 1) : line[i] = t
        BY <1>3, <1>4, <3>2 DEF StoreInv, Queued
      <4>2. ASSUME NEW i \in 1..(n + 1), line[i] = t
            PROVE  i - 1 \in 1..n /\ line[(i - 1) + 1] = t
        BY <1>4, <3>2, <4>2
      <4>3. \A i \in 1..n : i + 1 \in 1..(n + 1)
        OBVIOUS
      <4>4. QED
        BY <3>0, <4>1, <4>2, <4>3
    <3>3. QED
      BY <3>1, <3>2
  <2>2. \A i, j \in 1..Len(line') : line'[i] = line'[j] => i = j
    <3> SUFFICES ASSUME NEW i \in 1..n, NEW j \in 1..n, line[i + 1] = line[j + 1]
                 PROVE  i = j
      BY <1>4
    <3>1. i + 1 \in 1..Len(line) /\ j + 1 \in 1..Len(line)
      BY <1>4
    <3>2. QED
      BY <3>1 DEF StoreInv, Queued
  <2>3. \A i \in 2..Len(line') : save'[line'[i]].pc = "waiting"
    BY <1>3, <1>4, <1>5
  <2>4. QED
    BY <2>1, <2>2, <2>3 DEF Queued
<1>9. \A t \in Saves : save'[t].pc # "writing" /\ save'[t].pc # "written"
  BY <1>3, <1>6
<1>10. Prepared'
  BY <1>9 DEF Prepared
<1>11. Reloaded'
  <2>1. CASE SaveEnds(s)
    BY <2>1 DEF SaveEnds, Reloaded
  <2>2. CASE SaveSkips(s) \/ SaveAborts(s)
    <3>1. \A t \in Saves : save[t].pc # "written"
      BY <1>6, <2>2 DEF SaveSkips, MayBegin, SaveAborts
    <3>2. QED
      BY <2>2, <3>1 DEF SaveSkips, SaveAborts, StoreInv, Reloaded
  <2>3. QED
    BY <2>1, <2>2
<1>12. Newest'
  <2> SUFFICES ASSUME NEW o \in Owners
               PROVE  /\ \A i \in 1..n :
                            Owner(i)' = o /\ (\A j \in (i + 1)..n : Owner(j)' # o)
                            => Payload(line[i])' = Latest(o)'
                      /\ (\A i \in 1..n : Owner(i)' # o)
                         => Part(file, o)' = Latest(o)' \/ o \in unsaved'
    BY <1>4 DEF Newest
  <2>1. \A i \in 1..n : /\ Owner(i)' = Owner(i + 1)
                        /\ Payload(line[i])' = Payload(line[i + 1])
    <3> SUFFICES ASSUME NEW i \in 1..n
                 PROVE  /\ save'[line'[i]].owner = save[line[i + 1]].owner
                        /\ Payload(line[i])' = Payload(line[i + 1])
      BY DEF Owner
    <3>1. line'[i] = line[i + 1] /\ line[i + 1] \in Saves /\ line[i + 1] # s
      BY <1>4, <1>5
    <3>2. QED
      BY <1>3, <3>1 DEF Payload
  <2>2. Latest(o)' = Latest(o) /\ Part(file, o)' = Part(file, o)
    BY <1>2 DEF Latest, Part
  <2>3. ASSUME NEW i \in 1..n, Owner(i)' = o, \A j \in (i + 1)..n : Owner(j)' # o
        PROVE  Payload(line[i])' = Latest(o)'
    <3>1. i + 1 \in 1..Len(line) /\ Owner(i + 1) = o
      BY <1>4, <2>1, <2>3
    <3>2. ASSUME NEW j \in (i + 2)..Len(line) PROVE Owner(j) # o
      <4>1. j - 1 \in (i + 1)..n /\ j - 1 \in 1..n /\ (j - 1) + 1 = j
        BY <1>4
      <4>2. QED
        BY <2>1, <2>3, <4>1
    <3>3. Payload(line[i + 1]) = Latest(o)
      BY <3>1, <3>2 DEF StoreInv, Newest
    <3>4. QED
      BY <2>1, <2>2, <3>3
  <2>4. ASSUME \A i \in 1..n : Owner(i)' # o
        PROVE  Part(file, o)' = Latest(o)' \/ o \in unsaved'
    <3>1. ASSUME NEW j \in 2..Len(line) PROVE Owner(j) # o
      <4>1. j - 1 \in 1..n /\ (j - 1) + 1 = j
        BY <1>4
      <4>2. QED
        BY <2>1, <2>4, <4>1
    <3>2. CASE o = save[s].owner
      <4>1. Payload(s) = Latest(o)
        <5>1. 1 \in 1..Len(line) /\ Owner(1) = o
          BY <1>4, <3>2 DEF Owner
        <5>2. QED
          BY <1>4, <3>1, <5>1 DEF StoreInv, Newest
      <4>2. Part(file, o) = Payload(s) \/ o \in unsaved'
        <5>1. CASE SaveSkips(s)
          BY <3>2, <5>1 DEF SaveSkips, Part, Payload
        <5>2. CASE SaveEnds(s)
          BY <3>2, <5>2 DEF SaveEnds, StoreInv, Prepared
        <5>3. CASE SaveAborts(s)
          BY <3>2, <5>3 DEF SaveAborts
        <5>4. QED
          BY <5>1, <5>2, <5>3
      <4>3. QED
        BY <2>2, <4>1, <4>2
    <3>3. CASE o # save[s].owner
      <4>1. \A i \in 1..Len(line) : Owner(i) # o
        BY <1>4, <3>1, <3>3 DEF Owner
      <4>2. Part(file, o) = Latest(o) \/ o \in unsaved
        BY <4>1 DEF StoreInv, Newest
      <4>3. o \in unsaved => o \in unsaved'
        BY <3>3 DEF SaveSkips, SaveEnds, SaveAborts
      <4>4. QED
        BY <2>2, <4>2, <4>3
    <3>4. QED
      BY <3>2, <3>3
  <2>5. QED
    BY <2>3, <2>4
<1>13. QED
  BY <1>7, <1>8, <1>10, <1>11, <1>12 DEF StoreInv

LEMMA StoreKept == StoreInv /\ (StoreNext \/ UNCHANGED storeVars) => StoreInv'
<1> SUFFICES ASSUME StoreInv, StoreNext \/ UNCHANGED storeVars PROVE StoreInv'
  OBVIOUS
<1>1. CASE Reload \/ UNCHANGED storeVars
  <2>1. /\ UNCHANGED <<file, wanted, save, text, line, designed, unsaved>>
        /\ table' \in {file, table}
    BY <1>1 DEF Reload, storeVars
  <2>2. QED
    BY <2>1 DEF StoreInv, StoreTypeOK, Queued, Prepared, Reloaded, Newest, Part, Latest,
                Payload, Owner
<1>2. ASSUME NEW s \in Saves,
             \/ \E design \in Design : DesignerSaves(s, design)
             \/ \E derived \in SUBSET Topics : ServiceSaves(s, derived)
      PROVE  StoreInv'
  <2>1. {} \in SUBSET Topics /\ NoDesign \in Design
    BY DEF NoDesign, Design
  <2>2. PICK design \in Design, derived \in SUBSET Topics :
           DesignerSaves(s, design) \/ ServiceSaves(s, derived)
    BY <1>2, <2>1
  <2>3. QED
    BY <2>2, SaveArrives
<1>3. ASSUME NEW s \in Saves, \/ SaveBegins(s) \/ SaveWrites(s) \/ SaveFails(s)
                             \/ SaveSkips(s) \/ SaveEnds(s) \/ SaveAborts(s)
      PROVE  StoreInv'
  BY <1>3, HeadStays, HeadLeaves
<1>4. QED
  BY <1>1, <1>2, <1>3 DEF StoreNext
=============================================================================
