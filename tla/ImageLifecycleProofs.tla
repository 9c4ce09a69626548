-------------------------- MODULE ImageLifecycleProofs --------------------------
(***************************************************************************)
(* What the records and the claims on images promise, for any number of    *)
(* processes, any contents and any faults the properties do not except:    *)
(* an image that is not what its tag says is on record, and a deletion     *)
(* spares what was claimed before it looked.                               *)
(***************************************************************************)
EXTENDS ImageLifecycle, TLAPS

Handled == {"exists", "record", "running"} \cup Building \cup Pruning \cup Launching

\* A process that deals with a tag has one.
Tagged == \A r \in Runs : pc[r] \in Handled => tag[r] \in Contents

\* Only a process about to launch, or one that has ended, has a reservation.
Reserving ==
  \A r \in Runs : reservation[r] # "none" =>
    pc[r] \in {"launch"} \cup Ended /\ tag[r] \in Contents

Base == TypeOK /\ Tagged /\ Reserving
-----------------------------------------------------------------------------
LEMMA InitBase == Init => Base
BY DEF Init, Base, TypeOK, Tagged, Reserving, Handled, Places, Building, Pruning,
   Launching, Ended

LEMMA StepBase ==
  ASSUME Base, [Next]_vars
  PROVE  Base'
<1> USE DEF Base, TypeOK, Tagged, Reserving, Handled, Places, Building, Pruning, Launching,
            Ended, Goto, Return, Again, fileVars, runVars
<1>1. CASE UNCHANGED vars
  BY <1>1 DEF vars
<1>2. ASSUME NEW c \in Contents \cup {None}, Edit(c) PROVE Base'
  BY <1>2 DEF Edit
<1>3. ASSUME NEW r \in Runs, Start(r) \/ Resolve(r) \/ ImageExists(r) \/ IsPoisoned(r)
      PROVE  Base'
  BY <1>3 DEF Start, Resolve, ImageExists, IsPoisoned
<1>4. ASSUME NEW r \in Runs, BuildReads(r) \/ Publish(r) \/ Verify(r) \/ MarkPoisoned(r)
      PROVE  Base'
  BY <1>4 DEF BuildReads, Publish, Verify, MarkPoisoned
<1>5. ASSUME NEW r \in Runs, \/ CondemnInUse(r) \/ DeletePoisoned(r) \/ DeletePoisonedFails(r)
                             \/ ForgetPoisoned(r) \/ ClearPoisoned(r)
      PROVE  Base'
  BY <1>5 DEF CondemnInUse, DeletePoisoned, DeletePoisonedFails, ForgetPoisoned,
     ClearPoisoned, Containers
<1>6. ASSUME NEW r \in Runs, PruneSnapshot(r) \/ PruneReservations(r) \/ PruneList(r)
      PROVE  Base'
  <2>1. InUse \subseteq Contents /\ Containers \subseteq Runs /\ Reserved \subseteq Runs
    BY DEF InUse, Containers, Reserved
  <2>2. {tag[q] : q \in Reserved} \subseteq Contents
    BY DEF Reserved
  <2>3. CASE PruneSnapshot(r)
    BY <2>1, <2>3 DEF PruneSnapshot
  <2>4. CASE PruneReservations(r)
    BY <2>2, <2>4 DEF PruneReservations
  <2>5. CASE PruneList(r)
    BY <2>5 DEF PruneList
  <2> QED
    BY <1>6, <2>3, <2>4, <2>5
<1>7. ASSUME NEW r \in Runs, PruneOne(r) \/ PruneDone(r) \/ Reserve(r) \/ Launch(r)
      PROVE  Base'
  BY <1>7 DEF PruneOne, PruneDone, Reserve, Launch
<1>8. ASSUME NEW r \in Runs, ContainerEnds(r) \/ Die(r) \/ Age(r) PROVE Base'
  BY <1>8 DEF ContainerEnds, Die, Age
<1> QED
  BY <1>1, <1>2, <1>3, <1>4, <1>5, <1>6, <1>7, <1>8 DEF Next, Step, Build, Prune
-----------------------------------------------------------------------------
(***************************************************************************)
(* Records.                                                                *)
(***************************************************************************)

\* What the records are good against is not what goes wrong.
Sound == faults \cap {"aba", "builders", "kill", "state"} = {}

Built == Building \ {"build"}

\* No two processes are past the same build.
Apart ==
  \A p, q \in Runs : p # q /\ pc[p] \in Built /\ pc[q] \in Built => tag[p] # tag[q]

\* What a build read that is not the tag's is not what the files hold, now or
\* when its image waits to be verified.
ReadElse ==
  \A r \in Runs : pc[r] = "publish" /\ built[r] # tag[r] => content # tag[r]
BuiltElse ==
  \A r \in Runs : pc[r] = "verify" /\ image[tag[r]] \notin {None, tag[r]} => content # tag[r]

\* A record is taken back from an image that is right, or from none.
Cleared ==
  \A r \in Runs : /\ pc[r] = "clear" => image[tag[r]] \in {None, tag[r]}
                  /\ pc[r] = "forget" => image[tag[r]] = None

Recorded ==
  \A c \in Contents : image[c] \notin {None, c} =>
    \/ c \in poisoned
    \/ \E r \in Runs : tag[r] = c /\ pc[r] \in {"verify", "mark"}

Records == Sound => Apart /\ ReadElse /\ BuiltElse /\ Cleared /\ Recorded

LEMMA InitRecords == Init => Records
BY DEF Init, Records, Apart, ReadElse, BuiltElse, Cleared, Recorded, Built, Building

\* A step between two places outside a build, that leaves the images, the
\* records and the files alone, or takes images away.
LEMMA Elsewhere ==
  ASSUME Base, Records, NEW r \in Runs, NEW place \in Places \ Built,
         pc[r] \notin {"verify", "mark"},
         pc' = [pc EXCEPT ![r] = place],
         \A q \in Runs \ {r} : tag'[q] = tag[q] /\ built'[q] = built[q],
         \A c \in Contents : image'[c] \in {image[c], None},
         poisoned \subseteq poisoned', content' = content, faults' = faults,
         tag'[r] = tag[r] \/ pc[r] \notin Built
  PROVE  Records'
<1> SUFFICES ASSUME Sound' PROVE (Apart /\ ReadElse /\ BuiltElse /\ Cleared /\ Recorded)'
  BY DEF Records
<1>1. Apart /\ ReadElse /\ BuiltElse /\ Cleared /\ Recorded
  BY DEF Records, Sound
<1>2. pc'[r] = place /\ \A q \in Runs \ {r} : pc'[q] = pc[q]
  BY DEF Base, TypeOK
<1>3. \A q \in Runs : pc[q] \in Built => tag[q] \in Contents
  BY DEF Base, Tagged, Handled, Built
<1>4. Apart'
  BY <1>1, <1>2 DEF Apart
<1>5. ReadElse' /\ BuiltElse' /\ Cleared'
  BY <1>1, <1>2, <1>3 DEF ReadElse, BuiltElse, Cleared, Built, Building
<1>6. Recorded'
  BY <1>1, <1>2 DEF Recorded
<1> QED
  BY <1>4, <1>5, <1>6

LEMMA StepRecords ==
  ASSUME Base, Base', Records, [Next]_vars
  PROVE  Records'
<1> SUFFICES ASSUME Sound PROVE Records'
  BY DEF Records, Sound, Next, vars
<1>0. faults' = faults
  BY DEF Next, vars
<1>a. Apart /\ ReadElse /\ BuiltElse /\ Cleared /\ Recorded
  BY DEF Records
<1>b. SUFFICES (Apart /\ ReadElse /\ BuiltElse /\ Cleared /\ Recorded)'
  BY DEF Records
<1> USE DEF Goto, fileVars, runVars
<1>1. CASE UNCHANGED vars
  BY <1>a, <1>1 DEF vars, Apart, ReadElse, BuiltElse, Cleared, Recorded
<1>2. ASSUME NEW c \in Contents \cup {None}, Edit(c)
      PROVE  (Apart /\ ReadElse /\ BuiltElse /\ Cleared /\ Recorded)'
  BY <1>a, <1>2 DEF Edit, Sound, Apart, ReadElse, BuiltElse, Cleared, Recorded
<1>3. ASSUME NEW r \in Runs,
             \/ Start(r) \/ Resolve(r) \/ ImageExists(r) \/ IsPoisoned(r)
             \/ PruneSnapshot(r) \/ PruneReservations(r) \/ PruneList(r) \/ PruneDone(r)
             \/ Reserve(r) \/ Launch(r) \/ ContainerEnds(r) \/ Die(r)
             \/ DeletePoisonedFails(r)
      PROVE  Records'
  <2>1. pc[r] \notin {"verify", "mark"}
    BY <1>3 DEF Sound, Start, Resolve, ImageExists, IsPoisoned, PruneSnapshot,
       PruneReservations, PruneList, PruneDone, Reserve, Launch, ContainerEnds, Die,
       DeletePoisonedFails
  <2>2. PICK place \in Places \ Built : pc' = [pc EXCEPT ![r] = place]
    BY <1>3 DEF Start, Resolve, ImageExists, IsPoisoned, PruneSnapshot,
       PruneReservations, PruneList, PruneDone, Reserve, Launch, ContainerEnds, Die,
       DeletePoisonedFails, Again, Return, Places, Built, Building, Pruning, Launching, Ended
  <2>3. /\ \A q \in Runs \ {r} : tag'[q] = tag[q] /\ built'[q] = built[q]
        /\ image' = image /\ poisoned' = poisoned /\ content' = content
        /\ tag'[r] = tag[r] \/ pc[r] \notin Built
    BY <1>3 DEF Base, TypeOK, Built, Building, Start, Resolve, ImageExists, IsPoisoned,
       PruneSnapshot, PruneReservations, PruneList, PruneDone, Reserve, Launch,
       ContainerEnds, Die, DeletePoisonedFails, Again
  <2> QED
    BY <1>0, <2>1, <2>2, <2>3, Elsewhere
<1>4. ASSUME NEW r \in Runs, PruneOne(r) PROVE Records'
  <2>1. /\ pc[r] = "prune" /\ pc' = [pc EXCEPT ![r] = "prune"]
        /\ \A c \in Contents : image'[c] \in {image[c], None}
    BY <1>4 DEF PruneOne, Base, TypeOK
  <2>2. UNCHANGED <<content, poisoned, tag, built>> /\ "prune" \in Places \ Built
    BY <1>4 DEF PruneOne, Places, Built, Building, Pruning
  <2> QED
    BY <1>0, <2>1, <2>2, Elsewhere
<1>5. ASSUME NEW r \in Runs, Age(r)
      PROVE  (Apart /\ ReadElse /\ BuiltElse /\ Cleared /\ Recorded)'
  BY <1>a, <1>5 DEF Age, Apart, ReadElse, BuiltElse, Cleared, Recorded
<1>6. ASSUME NEW r \in Runs, BuildReads(r)
      PROVE  (Apart /\ ReadElse /\ BuiltElse /\ Cleared /\ Recorded)'
  <2> USE <1>6 DEF BuildReads
  <2>1. \A q \in Runs \ {r} : pc'[q] = pc[q] /\ built'[q] = built[q]
    BY DEF Base, TypeOK
  <2>2. pc'[r] \in {"publish", "over"} /\ built'[r] = content
    BY DEF Base, TypeOK
  <2>3. Apart'
    BY <1>a, <2>1, <2>2 DEF Apart, Sound, Built
  <2>4. ReadElse' /\ BuiltElse' /\ Cleared'
    BY <1>a, <2>1, <2>2 DEF ReadElse, BuiltElse, Cleared
  <2>5. Recorded'
    BY <1>a, <2>1, <2>2 DEF Recorded
  <2> QED
    BY <2>3, <2>4, <2>5
<1>7. ASSUME NEW r \in Runs, Publish(r)
      PROVE  (Apart /\ ReadElse /\ BuiltElse /\ Cleared /\ Recorded)'
  <2> USE <1>7 DEF Publish
  <2>1. \A q \in Runs \ {r} : pc'[q] = pc[q] /\ built'[q] = built[q]
    BY DEF Base, TypeOK
  <2>2. pc'[r] \in {"verify", "over"} /\ pc[r] \in Built
    BY DEF Base, TypeOK, Built, Building
  <2>3. \A c \in Contents : c # tag[r] => image'[c] = image[c]
    BY DEF Base, TypeOK
  <2>4. tag[r] \in Contents
    BY DEF Base, Tagged, Handled, Building
  <2>5. CASE pc'[r] = "over" /\ image' = image
    BY <1>a, <2>1, <2>2, <2>5 DEF Apart, Built, Building, ReadElse, BuiltElse, Cleared, Recorded
  <2>6. CASE pc'[r] = "verify" /\ image' = [image EXCEPT ![tag[r]] = built[r]]
    <3>1. image'[tag[r]] = built[r]
      BY <2>4, <2>6 DEF Base, TypeOK
    <3>2. Apart'
      BY <1>a, <2>1, <2>2, <2>6 DEF Apart, Built
    <3>3. \A q \in Runs \ {r} : pc[q] \in Built => image'[tag[q]] = image[tag[q]]
      BY <1>a, <2>2, <2>3 DEF Apart, Base, Tagged, Handled, Built
    <3>4. ReadElse' /\ BuiltElse' /\ Cleared'
      BY <1>a, <2>1, <2>6, <3>1, <3>3
      DEF ReadElse, BuiltElse, Cleared, Built, Building
    <3>5. Recorded'
      BY <1>a, <2>1, <2>2, <2>3, <2>6 DEF Recorded
    <3> QED
      BY <3>2, <3>4, <3>5
  <2> QED
    BY <2>5, <2>6 DEF Base, TypeOK
<1>8. ASSUME NEW r \in Runs, Verify(r)
      PROVE  (Apart /\ ReadElse /\ BuiltElse /\ Cleared /\ Recorded)'
  <2> USE <1>8 DEF Verify
  <2>1. \A q \in Runs \ {r} : pc'[q] = pc[q]
    BY DEF Base, TypeOK
  <2>2. pc'[r] = IF content = tag[r] THEN "clear" ELSE "mark"
    BY DEF Base, TypeOK
  <2>3. content = tag[r] => image[tag[r]] \in {None, tag[r]}
    BY <1>a DEF BuiltElse
  <2>4. Apart' /\ ReadElse' /\ BuiltElse' /\ Cleared'
    BY <1>a, <2>1, <2>2, <2>3 DEF Apart, Built, Building, ReadElse, BuiltElse, Cleared
  <2>5. Recorded'
    BY <1>a, <2>1, <2>2, <2>3 DEF Recorded
  <2> QED
    BY <2>4, <2>5
<1>9. ASSUME NEW r \in Runs, MarkPoisoned(r)
      PROVE  (Apart /\ ReadElse /\ BuiltElse /\ Cleared /\ Recorded)'
  <2> USE <1>9 DEF MarkPoisoned
  <2>1. pc'[r] = "inuse" /\ \A q \in Runs \ {r} : pc'[q] = pc[q]
    BY DEF Base, TypeOK
  <2>2. poisoned' = poisoned \cup {tag[r]}
    BY DEF Sound
  <2> QED
    BY <1>a, <2>1, <2>2 DEF Apart, Built, Building, ReadElse, BuiltElse, Cleared, Recorded
<1>10. ASSUME NEW r \in Runs, CondemnInUse(r) \/ DeletePoisoned(r)
       PROVE  (Apart /\ ReadElse /\ BuiltElse /\ Cleared /\ Recorded)'
  <2> USE <1>10 DEF CondemnInUse, DeletePoisoned, Again
  <2>1. /\ pc'[r] \in {"delete", "forget", "resolve", "over"}
        /\ \A q \in Runs \ {r} : pc'[q] = pc[q]
    BY DEF Base, TypeOK
  <2>2. pc[r] \in {"inuse", "delete"} /\ tag[r] \in Contents
    BY DEF Base, Tagged, Handled, Building
  <2>3. \A c \in Contents : image'[c] \in {image[c], None}
    BY DEF Base, TypeOK
  <2>4. pc'[r] = "forget" => image'[tag[r]] = None
    BY <2>2 DEF Base, TypeOK
  <2>5. \A q \in Runs : pc[q] \in Built => tag[q] \in Contents
    BY DEF Base, Tagged, Handled, Built
  <2>6. Apart' /\ ReadElse'
    BY <1>a, <2>1, <2>2 DEF Apart, Built, Building, ReadElse
  <2>7. BuiltElse' /\ Cleared'
    BY <1>a, <2>1, <2>3, <2>4, <2>5 DEF BuiltElse, Cleared, Built, Building
  <2>8. Recorded'
    BY <1>a, <2>1, <2>2, <2>3 DEF Recorded
  <2> QED
    BY <2>6, <2>7, <2>8
<1>11. ASSUME NEW r \in Runs, ForgetPoisoned(r) \/ ClearPoisoned(r)
       PROVE  (Apart /\ ReadElse /\ BuiltElse /\ Cleared /\ Recorded)'
  <2> USE <1>11 DEF ForgetPoisoned, ClearPoisoned, Again
  <2>1. /\ pc'[r] \in {"snapshot", "resolve", "over"}
        /\ \A q \in Runs \ {r} : pc'[q] = pc[q]
    BY DEF Base, TypeOK
  <2>2. image[tag[r]] \in {None, tag[r]} /\ pc[r] \in {"forget", "clear"}
    BY <1>a DEF Cleared
  <2>3. Apart' /\ ReadElse' /\ BuiltElse' /\ Cleared'
    BY <1>a, <2>1, <2>2 DEF Apart, Built, Building, ReadElse, BuiltElse, Cleared
  <2>4. poisoned \subseteq poisoned' \cup {tag[r]}
    OBVIOUS
  <2>5. Recorded'
    BY <1>a, <2>1, <2>2, <2>4 DEF Recorded
  <2> QED
    BY <2>3, <2>5
<1> QED
  BY <1>1, <1>2, <1>3, <1>4, <1>5, <1>6, <1>7, <1>8, <1>9, <1>10, <1>11
  DEF Next, Step, Build, Prune, Records, Sound
-----------------------------------------------------------------------------
(***************************************************************************)
(* Claims.                                                                 *)
(***************************************************************************)

\* What the claims are good against is not what goes wrong.
Told == faults \cap {"slow", "unread"} = {}

Live == {"launch", "running"}
Settled == {"launch"} \cup Ended
Looking == {"delete", "reservations", "list", "prune"}

\* A process that had claimed a tag keeps it, and claims it or is over.
EarlySettled == \A r \in Runs : \A q \in early[r] : pc[q] \in Settled

\* What a process that is about to delete knows of the claims made before it
\* looked, from one of its places to the next.
Spared(r, q) ==
  /\ pc[r] = "delete" => tag[q] # tag[r]
  /\ pc[r] = "reservations" => tag[q] \in keep[r] \/ reservation[q] = "fresh"
  /\ pc[r] = "list" => tag[q] \in keep[r]
  /\ pc[r] = "prune" => tag[q] \notin victims[r]

AllSpared == \A r \in Runs : \A q \in early[r] : pc[q] \in Live => Spared(r, q)

Claims == EarlySettled /\ (Told => AllSpared)

LEMMA InitClaims == Init => Claims
BY DEF Init, Claims, EarlySettled, AllSpared

\* A step of r to a place where it is not about to delete, which leaves alone
\* what the others have, and every fresh reservation.
LEMMA Bystander ==
  ASSUME Base, Claims, faults' = faults, NEW r \in Runs, NEW place \in Places \ Looking,
         pc' = [pc EXCEPT ![r] = place],
         early'[r] \in {early[r], {}},
         \A q \in Runs \ {r} : /\ tag'[q] = tag[q] /\ keep'[q] = keep[q]
                               /\ victims'[q] = victims[q] /\ early'[q] = early[q],
         pc[r] \in Settled => /\ place \in Settled /\ tag'[r] = tag[r]
                              /\ place \in Live => pc[r] \in Live,
         \A q \in Runs : reservation[q] = "fresh" => reservation'[q] = "fresh"
  PROVE  Claims'
<1>1. pc'[r] = place /\ \A q \in Runs \ {r} : pc'[q] = pc[q]
  BY DEF Base, TypeOK
<1>2. \A p \in Runs : early'[p] \subseteq early[p] /\ early[p] \subseteq Runs
  BY DEF Base, TypeOK
<1>3. \A p \in Runs : \A q \in early[p] : pc'[q] \in Settled /\ tag'[q] = tag[q]
  BY <1>1, <1>2 DEF Claims, EarlySettled
<1>4. \A p \in Runs : \A q \in early[p] : pc'[q] \in Live => pc[q] \in Live
  BY <1>1, <1>2 DEF Claims, EarlySettled
<1>5. EarlySettled'
  BY <1>2, <1>3 DEF EarlySettled
<1>6. ASSUME Told' PROVE AllSpared'
  <2>1. AllSpared
    BY <1>6 DEF Told, Claims
  <2>2. ASSUME NEW p \in Runs, NEW q \in early'[p], pc'[q] \in Live PROVE Spared(p, q)'
    <3>1. q \in early[p] /\ q \in Runs /\ Spared(p, q)
      BY <1>2, <1>4, <2>1, <2>2 DEF AllSpared
    <3>2. tag'[q] = tag[q]
      BY <1>3, <3>1
    <3>3. CASE p = r
      BY <1>1, <3>3 DEF Spared, Looking
    <3>4. CASE p # r
      BY <1>1, <3>1, <3>2, <3>4 DEF Spared
    <3> QED
      BY <3>3, <3>4
  <2> QED
    BY <2>2 DEF AllSpared
<1> QED
  BY <1>5, <1>6 DEF Claims

LEMMA StepClaims ==
  ASSUME Base, Base', Claims, [Next]_vars
  PROVE  Claims'
<1>0. faults' = faults /\ \A r \in Runs : early[r] \subseteq Runs
  BY DEF Next, vars, Base, TypeOK
<1> USE DEF Goto, fileVars, runVars
<1>1. CASE UNCHANGED vars
  BY <1>1 DEF vars, Claims, EarlySettled, Told, AllSpared, Spared
<1>2. ASSUME NEW c \in Contents \cup {None}, Edit(c) PROVE Claims'
  BY <1>0, <1>2 DEF Edit, Claims, EarlySettled, Told, AllSpared, Spared
<1>3. ASSUME NEW r \in Runs,
             \/ Start(r) \/ Resolve(r) \/ ImageExists(r) \/ IsPoisoned(r)
             \/ BuildReads(r) \/ Publish(r) \/ Verify(r) \/ MarkPoisoned(r)
             \/ DeletePoisoned(r) \/ DeletePoisonedFails(r)
             \/ ForgetPoisoned(r) \/ ClearPoisoned(r) \/ PruneDone(r)
             \/ Reserve(r) \/ Launch(r) \/ ContainerEnds(r) \/ Die(r)
      PROVE  Claims'
  <2> USE DEF Start, Resolve, ImageExists, IsPoisoned, BuildReads, Publish, Verify,
      MarkPoisoned, DeletePoisoned, DeletePoisonedFails, ForgetPoisoned, ClearPoisoned,
      PruneDone, Reserve, Launch, ContainerEnds, Die, Again, Return
  <2>1. PICK place \in Places \ Looking : pc' = [pc EXCEPT ![r] = place]
    BY <1>3 DEF Places, Building, Pruning, Launching, Ended, Looking
  <2>2. pc[r] \in Places /\ pc'[r] = place
    BY <2>1 DEF Base, TypeOK
  <2>3. /\ early'[r] \in {early[r], {}}
        /\ \A q \in Runs \ {r} : /\ tag'[q] = tag[q] /\ keep'[q] = keep[q]
                                 /\ victims'[q] = victims[q] /\ early'[q] = early[q]
    BY <1>3 DEF Base, TypeOK
  <2>4. pc[r] \in Settled => /\ place \in Settled /\ tag'[r] = tag[r]
                             /\ place \in Live => pc[r] \in Live
    <3>1. CASE Launch(r) \/ ContainerEnds(r) \/ Die(r)
      BY <2>2, <3>1 DEF Settled, Live, Ended, Base, TypeOK
    <3>2. CASE ~(Launch(r) \/ ContainerEnds(r) \/ Die(r))
      BY <1>3, <3>2 DEF Settled, Ended
    <3> QED
      BY <3>1, <3>2
  <2>5. \A q \in Runs : reservation[q] = "fresh" => reservation'[q] = "fresh"
    BY <1>3 DEF Base, TypeOK
  <2> QED
    BY <1>0, <2>1, <2>3, <2>4, <2>5, Bystander
<1>4. ASSUME NEW r \in Runs, CondemnInUse(r) PROVE Claims'
  <2> USE <1>4 DEF CondemnInUse
  <2>1. CASE Again(r)
    <3>1. PICK place \in {"resolve", "over"} : pc' = [pc EXCEPT ![r] = place]
      BY <2>1 DEF Again
    <3>2. place \in Places \ Looking /\ pc[r] \notin Settled
      BY DEF Places, Looking, Settled, Ended
    <3>3. early' = [early EXCEPT ![r] = {}]
      BY <2>1 DEF Again
    <3>4. early'[r] \in {early[r], {}} /\ \A q \in Runs \ {r} : early'[q] = early[q]
      BY <3>3 DEF Base, TypeOK
    <3> QED
      BY <1>0, <3>1, <3>2, <3>4, Bystander
  <2>2. CASE tag[r] \notin InUse /\ early' = [early EXCEPT ![r] = Containers] /\ Goto(r, "delete")
    <3>1. /\ pc'[r] = "delete" /\ early'[r] = Containers
          /\ \A q \in Runs \ {r} : pc'[q] = pc[q] /\ early'[q] = early[q]
      BY <2>2 DEF Base, TypeOK
    <3>2. pc[r] \notin Settled
      BY DEF Settled, Ended
    <3>3. \A q \in Containers : q # r /\ pc[q] \in Settled /\ tag[q] # tag[r]
      BY <2>2 DEF InUse, Containers, Settled, Ended
    <3>4. EarlySettled'
      BY <1>0, <3>1, <3>2, <3>3 DEF Containers, Claims, EarlySettled
    <3>5. ASSUME Told PROVE AllSpared'
      BY <1>0, <3>1, <3>2, <3>3, <3>5 DEF Containers, Claims, EarlySettled, AllSpared, Spared
    <3> QED
      BY <1>0, <3>4, <3>5 DEF Claims, Told
  <2> QED
    BY <2>1, <2>2
<1>5. ASSUME NEW r \in Runs, PruneSnapshot(r) \/ PruneReservations(r) \/ PruneList(r)
      PROVE  Claims'
  <2>1. pc[r] \notin Settled /\ \A q \in Runs \ {r} : pc'[q] = pc[q]
    BY <1>5 DEF PruneSnapshot, PruneReservations, PruneList, Return, Base, TypeOK, Settled, Ended
  <2>2. /\ UNCHANGED tag
        /\ \A q \in Runs \ {r} : /\ keep'[q] = keep[q] /\ victims'[q] = victims[q]
                                 /\ early'[q] = early[q]
        /\ \A q \in Runs : reservation[q] = "fresh" => reservation'[q] = "fresh"
    BY <1>5 DEF PruneSnapshot, PruneReservations, PruneList, Base, TypeOK
  <2>3. CASE Return(r) /\ early' = early
    <3>1. PICK place \in {"reserve", "over"} : pc' = [pc EXCEPT ![r] = place]
      BY <2>3 DEF Return
    <3>2. place \in Places \ Looking
      BY DEF Places, Launching, Ended, Looking
    <3> QED
      BY <1>0, <2>1, <2>2, <2>3, <3>1, <3>2, Bystander
  <2>4. SUFFICES ASSUME pc'[r] \in {"reservations", "list", "prune"},
                        /\ pc'[r] = "reservations" => PruneSnapshot(r)
                        /\ pc'[r] = "list" => PruneReservations(r)
                        /\ pc'[r] = "prune" => PruneList(r)
                 PROVE  Claims'
    BY <1>5, <2>3 DEF PruneSnapshot, PruneReservations, PruneList, Return, Base, TypeOK
  <2>5. \A q \in early'[r] : q \in Runs /\ q # r /\ pc[q] \in Settled
    <3>1. CASE pc'[r] = "reservations"
      BY <2>1, <2>4, <3>1
      DEF PruneSnapshot, Return, Base, TypeOK, Reserving, Containers, Reserved, Settled, Ended
    <3>2. CASE pc'[r] \in {"list", "prune"}
      BY <1>0, <2>1, <2>4, <3>2 DEF PruneReservations, PruneList, Claims, EarlySettled
    <3> QED
      BY <2>4, <3>1, <3>2
  <2>6. EarlySettled'
    BY <1>0, <2>1, <2>2, <2>5 DEF Claims, EarlySettled
  <2>7. ASSUME Told PROVE AllSpared'
    <3>1. ASSUME NEW q \in early'[r], pc[q] \in Live PROVE Spared(r, q)'
      <4>1. q \in Runs
        BY <2>5
      <4>2. CASE pc'[r] = "reservations"
        BY <2>2, <2>4, <3>1, <4>1, <4>2
        DEF PruneSnapshot, Return, Base, TypeOK, Containers, Reserved, InUse, Live, Spared
      <4>3. CASE pc'[r] = "list"
        <5>1. PruneReservations(r) /\ q \in early[r]
          BY <2>4, <4>3 DEF PruneReservations
        <5>2. tag[q] \in keep[r] \/ reservation[q] = "fresh"
          BY <2>7, <3>1, <5>1 DEF PruneReservations, Claims, AllSpared, Spared
        <5>3. keep' = [keep EXCEPT ![r] = @ \cup {tag[p] : p \in Reserved}]
          BY <2>7, <4>3, <5>1 DEF PruneReservations, Return, Told, Base, TypeOK
        <5>4. tag[q] \in keep'[r]
          BY <4>1, <5>2, <5>3 DEF Reserved, Base, TypeOK
        <5> QED
          BY <2>2, <4>3, <5>4 DEF Spared
      <4>4. CASE pc'[r] = "prune"
        <5>1. PruneList(r) /\ q \in early[r]
          BY <2>4, <4>4 DEF PruneList
        <5>2. tag[q] \in keep[r]
          BY <2>7, <3>1, <5>1 DEF PruneList, Claims, AllSpared, Spared
        <5>3. tag[q] \notin victims'[r]
          BY <4>4, <5>1, <5>2 DEF PruneList, Return, Base, TypeOK
        <5> QED
          BY <2>2, <4>4, <5>3 DEF Spared
      <4> QED
        BY <2>4, <4>2, <4>3, <4>4
    <3>2. ASSUME NEW p \in Runs \ {r}, NEW q \in early'[p], pc'[q] \in Live
          PROVE  Spared(p, q)'
      <4>1. q \in Runs /\ q \in early[p] /\ q # r
        BY <1>0, <2>1, <2>2, <3>2 DEF Claims, EarlySettled
      <4> QED
        BY <2>1, <2>2, <2>7, <3>2, <4>1 DEF Claims, AllSpared, Spared
    <3> QED
      BY <2>1, <2>5, <3>1, <3>2 DEF AllSpared
  <2> QED
    BY <1>0, <2>6, <2>7 DEF Claims, Told
<1>6. ASSUME NEW r \in Runs, PruneOne(r) PROVE Claims'
  <2>1. \A q \in Runs : victims'[q] \subseteq victims[q]
    BY <1>6 DEF PruneOne, Base, TypeOK
  <2> QED
    BY <1>0, <1>6, <2>1 DEF PruneOne, Claims, EarlySettled, Told, AllSpared, Spared
<1>7. ASSUME NEW r \in Runs, Age(r) PROVE Claims'
  <2>1. UNCHANGED <<pc, tag, keep, victims, early>>
    BY <1>7 DEF Age
  <2>2. Told => \A q \in Runs : pc[q] # "reservations"
    BY <1>7 DEF Age, Told
  <2> QED
    BY <1>0, <2>1, <2>2 DEF Claims, EarlySettled, Told, AllSpared, Spared
<1> QED
  BY <1>1, <1>2, <1>3, <1>4, <1>5, <1>6, <1>7 DEF Next, Step, Build, Prune

\* Only the two deletions delete, and both spare what is claimed.
LEMMA DeletesSpare ==
  ASSUME Base, Claims, [Next]_vars, Told,
         NEW r \in Runs, NEW c \in Contents, Deletes(r, c),
         NEW q \in early[r], pc[q] \in Live
  PROVE  tag[q] # c
<1> USE DEF Goto, fileVars, runVars, Deletes
<1>1. Spared(r, q)
  BY DEF Claims, AllSpared
<1>2. PICK p \in Runs : Publish(p) \/ DeletePoisoned(p) \/ PruneOne(p)
  BY DEF Next, vars, Step, Build, Prune, Start, Resolve, ImageExists, IsPoisoned, BuildReads,
     Verify, MarkPoisoned, CondemnInUse, DeletePoisonedFails, ForgetPoisoned, ClearPoisoned,
     PruneSnapshot, PruneReservations, PruneList, PruneDone, Reserve, Launch, ContainerEnds,
     Die, Age, Edit
<1>3. p = r
  BY <1>2 DEF Publish, DeletePoisoned, PruneOne, Base, TypeOK
<1>4. CASE DeletePoisoned(r)
  BY <1>1, <1>4 DEF DeletePoisoned, Spared, Base, TypeOK
<1>5. CASE PruneOne(r)
  BY <1>1, <1>5 DEF PruneOne, Spared, Base, TypeOK
<1>6. CASE Publish(r)
  BY <1>6 DEF Publish
<1> QED
  BY <1>2, <1>3, <1>4, <1>5, <1>6
-----------------------------------------------------------------------------
\* Every variable keeps its type through builds, prunes, launches and faults.
THEOREM TypeCorrect == Spec => []TypeOK
<1>1. Init => Base
  BY InitBase
<1>2. Base /\ [Next]_vars => Base'
  BY StepBase
<1>3. Base => TypeOK
  BY DEF Base
<1> QED
  BY <1>1, <1>2, <1>3, PTL DEF Spec

\* An image that is not what its tag says is on record, or about to be
\* (try_build, delete_poisoned, clear_poisoned).
THEOREM RecordsHold == Spec => []MistaggedIsRecorded
<1>1. Init => Base /\ Records
  BY InitBase, InitRecords
<1>2. Base /\ Records /\ [Next]_vars => (Base /\ Records)'
  BY StepBase, StepRecords
<1>3. Base /\ Records => MistaggedIsRecorded
  BY DEF Records, Sound, Recorded, MistaggedIsRecorded
<1> QED
  BY <1>1, <1>2, <1>3, PTL DEF Spec

\* No deletion, by a prune or of a poisoned build, takes the image of a launch
\* or a container that had claimed it before the deleting process looked
\* (prune_superseded, delete_poisoned, reserve_tag).
THEOREM ClaimsHold == Spec => ClaimedImageStays
<1> DEFINE Spares ==
      faults \cap {"slow", "unread"} = {} =>
        \A r \in Runs, c \in Contents : Deletes(r, c) =>
          \A q \in early[r] : pc[q] \in {"launch", "running"} => tag[q] # c
<1>1. Init => Base /\ Claims
  BY InitBase, InitClaims
<1>2. Base /\ Claims /\ [Next]_vars => (Base /\ Claims)'
  BY StepBase, StepClaims
<1>3. Base /\ Claims /\ [Next]_vars => [Spares]_vars
  BY DeletesSpare DEF Told, Live
<1>4. Spec => [][Spares]_vars
  BY <1>1, <1>2, <1>3, PTL DEF Spec
<1> QED
  BY <1>4 DEF ClaimedImageStays
=============================================================================
