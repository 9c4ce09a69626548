--------------------------- MODULE HerdrNamingProofs ---------------------------
(***************************************************************************)
(* What naming a tab and an agent promises, for any number of panes, runs, *)
(* labels and restarts: the label a human chose stays, the tab and the     *)
(* agent end up with one name, and no two tabs are handed one number.      *)
(***************************************************************************)
EXTENDS HerdrNaming, NumberStoreProofs

\* What a run in number_for has in hand has its type.
StoreSound ==
  /\ StoreTypeOK
  /\ \A r \in Runs :
       /\ pc[r] # "idle" => req[r] \in Alloc
       /\ pc[r] \in {"idle", "lock"} => tries[r] < LockTries
       /\ InUpdate(r) => seen[r] \in Sessions
       /\ pc[r] = "write" => memo[r] \in Sessions

LEMMA InitSound == StoreInit => StoreSound
BY NumberStoreAssumption DEF StoreInit, StoreSound, StoreTypeOK, Disk, Places, InUpdate

LEMMA AskSound ==
  ASSUME StoreSound, NEW r \in Runs, NEW q \in Alloc, Ask(r, q)
  PROVE  StoreSound'
BY DEF Ask, StoreSound, StoreTypeOK, Places, InUpdate, Disk

LEMMA ExitSound ==
  ASSUME StoreSound, NEW r \in Runs, Exit(r)
  PROVE  StoreSound'
BY NumberStoreAssumption DEF Exit, StoreSound, StoreTypeOK, Places, InUpdate, Disk

LEMMA RebindSound ==
  ASSUME StoreSound, NEW s \in SocketPaths, Rebind(s)
  PROVE  StoreSound'
BY DEF Rebind, StoreSound, StoreTypeOK, InUpdate, Disk, runVars

LEMMA StepSound ==
  ASSUME StoreSound, NEW r \in Runs, Step(r)
  PROVE  StoreSound'
<1> USE NumberStoreAssumption DEF StoreSound, StoreTypeOK, Places, InUpdate
<1>1. CASE Acquire(r) \/ FailToLock(r) \/ GiveUp(r) \/ DirFails(r)
  BY <1>1 DEF Acquire, FailToLock, GiveUp, DirFails, Disk
<1>2. CASE Read(r)
  BY <1>2, ParseType DEF Read
<1>3. CASE Decide(r)
  <2>1. req[r] \in Alloc /\ seen[r] \in Sessions
    BY <1>3 DEF Decide
  <2>2. StatOutcomes(req[r].key) \subseteq OptServer
    BY <2>1 DEF StatOutcomes, OptServer, Alloc, Keys
  <2>3. \A live \in OptServer : /\ AllocateState(seen[r], live, req[r]) \in Sessions
                                /\ AllocateNumber(seen[r], live, req[r]) \in Usize
    BY <2>1, AllocateType
  <2>4. PICK live \in OptServer :
          /\ memo' = [memo EXCEPT ![r] = AllocateState(seen[r], live, req[r])]
          /\ number' = [number EXCEPT ![r] = AllocateNumber(seen[r], live, req[r])]
    BY <1>3, <2>2 DEF Decide
  <2> QED
    BY <1>3, <2>3, <2>4 DEF Decide
<1>4. CASE Write(r)
  BY <1>4 DEF Write, Disk
<1>5. CASE WriteFails(r) \/ Release(r)
  BY <1>5 DEF WriteFails, Release, Disk
<1> QED
  BY <1>1, <1>2, <1>3, <1>4, <1>5 DEF Step
-----------------------------------------------------------------------------
(***************************************************************************)
(* Types.                                                                  *)
(***************************************************************************)

LEMMA WithCounterIsName ==
  ASSUME NEW n \in Name, NEW k \in Usize
  PROVE  WithCounter(n, k) \in Name
BY DEF WithCounter, Name

LEMMA CandidateIsName ==
  ASSUME NEW base \in Name, NEW n \in Usize \cup {None}, NEW k \in 1 .. CollisionTries
  PROVE  Candidates(base, n)[k] \in Name
<1>1. FirstCandidate(base, n) \in Name
  BY WithCounterIsName DEF FirstCandidate
<1>2. k \in Usize
  BY NamesAssumption DEF Usize
<1> QED
  BY <1>1, <1>2, WithCounterIsName DEF Candidates

\* A nonempty set of tries has a first one.
LEMMA FirstTry ==
  ASSUME NEW S \in SUBSET (1 .. CollisionTries), S # {}
  PROVE  Min(S) \in S
<1> DEFINE R == {ss \in Nat \X Nat : ss[1] < ss[2]}
<1>1. IsWellFoundedOn(R, Nat)
  BY NatLessThanWellFounded DEF OpToRel
<1>2. S \in SUBSET Nat
  OBVIOUS
<1>3. PICK x \in S : \A y \in S : ~ (<<y, x>> \in R)
  <2> HIDE DEF R
  <2> QED BY <1>1, <1>2, WFMin
<1>4. \A y \in S : ~ (y < x)
  BY <1>2, <1>3
<1>5. \A y \in S : x =< y
  BY <1>2, <1>4
<1> QED
  BY <1>5 DEF Min

\* The smallest of the candidates nobody holds is a candidate.
LEMMA FirstFreeIsName ==
  ASSUME NEW base \in Name, NEW n \in Usize \cup {None}, NEW taken
  PROVE  FirstFree(base, n, taken) \in Name
<1> DEFINE free == {k \in 1 .. CollisionTries : Candidates(base, n)[k] \notin taken}
<1>1. CASE free = {}
  BY <1>1, CandidateIsName, NamesAssumption DEF FirstFree
<1>2. CASE free # {}
  <2>1. Min(free) \in free
    BY <1>2, FirstTry
  <2> QED
    BY <1>2, <2>1, CandidateIsName DEF FirstFree
<1> QED
  BY <1>1, <1>2

\* How far a run, its namer and its agent are goes together.
Pace(r) ==
  /\ job[r].at \in {"rename", "spawn"} => job[r].name \in Name
  /\ job[r].at = "rename" => job[r].ours
  /\ job[r].at \in {"number", "rename"} => ~ job[r].renamed
  /\ job[r].at # "idle" => TabOf[r] \in OpenTabs
  /\ job[r].at # "exec" => agent[r] = None
  /\ namer[r].at # "none" => namer[r].name \in Name
  /\ (namer[r].at # "none" /\ job[r].at # "idle") =>
       /\ job[r].at = "exec"
       /\ namer[r].name = job[r].name /\ namer[r].tab = job[r].renamed
  /\ namer[r].at \in {"none", "waiting", "naming"} => agent[r] \in {None, Unnamed}
  /\ namer[r].at = "relabel" => namer[r].tab /\ namer[r].k \in 1 .. CollisionTries

Paced == \A r \in Runs : Pace(r)

NBase == TypeOK /\ StoreSound /\ Paced

LEMMA InitNBase == Init => NBase
<1> SUFFICES ASSUME Init PROVE NBase
  OBVIOUS
<1>1. StoreSound
  BY InitSound DEF Init
<1>a. 1 \in 1 .. CollisionTries + 1
  BY NamesAssumption
<1>b. /\ job \in [Runs -> [at : {"idle", "number", "rename", "spawn", "exec"},
                           expect : BOOLEAN, ours : BOOLEAN, renamed : BOOLEAN,
                           name : Name \cup {None}]]
      /\ namer \in [Runs -> [at : {"none", "waiting", "naming", "relabel", "over"},
                             name : Name \cup {None}, tab : BOOLEAN,
                             k : 1 .. CollisionTries + 1]]
  <2>1. /\ job = [r \in Runs |-> Idle] /\ namer = [r \in Runs |-> NoNamer]
    BY DEF Init
  <2>2. /\ Idle \in [at : {"idle", "number", "rename", "spawn", "exec"},
                    expect : BOOLEAN, ours : BOOLEAN, renamed : BOOLEAN,
                    name : Name \cup {None}]
        /\ NoNamer \in [at : {"none", "waiting", "naming", "relabel", "over"},
                       name : Name \cup {None}, tab : BOOLEAN,
                       k : 1 .. CollisionTries + 1]
    BY <1>a DEF Idle, NoNamer
  <2> QED
    BY <2>1, <2>2
<1>c. /\ wedged \in BOOLEAN /\ late \subseteq Runs
      /\ others \subseteq HumanAgents /\ handed = {}
  BY DEF Init
<1>2. TypeOK
  BY <1>1, <1>b, <1>c, HerdrNamingAssumption DEF Init, TypeOK, StoreSound
<1>3. Paced
  BY DEF Init, Paced, Pace, Idle, NoNamer
<1> QED
  BY <1>1, <1>2, <1>3 DEF NBase

\* The pace of one run is its own, as long as no tab of another closes.
LEMMA OwnPace ==
  ASSUME Paced, NEW r \in Runs, Pace(r)',
         \A p \in Runs \ {r} : job'[p] = job[p] /\ namer'[p] = namer[p] /\ agent'[p] = agent[p],
         OpenTabs \subseteq OpenTabs'
  PROVE  Paced'
BY DEF Paced, Pace

LEMMA BeginNBase ==
  ASSUME NBase, NEW r \in Runs, Begin(r)
  PROVE  NBase'
<1> USE HerdrNamingAssumption DEF NBase
<1>1. PICK base \in Bases, expect \in Expects,
           listed \in {TRUE} \cup (IF "list" \in Faults THEN {FALSE} ELSE {}) :
        LET t      == TabOf[r]
            ours   == listed /\ (label[t] = AutoLabel \/ LabelIsPall8tOwn(label[t], base))
            rest   == {label[u] : u \in OpenTabs \ {t}}
        IN  /\ job' = [job EXCEPT ![r] =
                         [at |-> IF ours \/ expect THEN "number" ELSE "exec",
                          expect |-> expect, ours |-> ours,
                          renamed |-> FALSE, name |-> None]]
            /\ IF ours \/ expect
               THEN Ask(r, [key        |-> Socket,
                            base       |-> base,
                            tab        |-> t,
                            ownLabel   |-> IF listed THEN label[t] ELSE None,
                            liveTabs   |-> IF listed THEN OpenTabs ELSE None,
                            liveLabels |-> IF listed THEN rest ELSE {},
                            now        |-> 0])
               ELSE UNCHANGED storeVars
  BY DEF Begin
<1>0. listed \in BOOLEAN /\ expect \in BOOLEAN
  OBVIOUS
<1> DEFINE t    == TabOf[r]
           ours == listed /\ (label[t] = AutoLabel \/ LabelIsPall8tOwn(label[t], base))
           rest == {label[u] : u \in OpenTabs \ {t}}
           q    == [key        |-> Socket,
                    base       |-> base,
                    tab        |-> t,
                    ownLabel   |-> IF listed THEN label[t] ELSE None,
                    liveTabs   |-> IF listed THEN OpenTabs ELSE None,
                    liveLabels |-> IF listed THEN rest ELSE {},
                    now        |-> 0]
           new  == [at |-> IF ours \/ expect THEN "number" ELSE "exec",
                    expect |-> expect, ours |-> ours, renamed |-> FALSE, name |-> None]
<1>2. q \in Alloc
  <2>1. t \in Tabs /\ Socket \in Keys /\ OpenTabs \subseteq Tabs
    BY DEF Keys, OpenTabs
  <2>2. \A u \in OpenTabs : label[u] \in Name
    BY DEF OpenTabs, TypeOK
  <2>3. t \in OpenTabs
    BY DEF Begin
  <2>4. rest \subseteq Name /\ label[t] \in Name
    BY <2>2, <2>3
  <2> QED
    BY <2>1, <2>4 DEF Alloc
<1>3. StoreSound'
  <2>1. CASE ours \/ expect
    BY <1>1, <1>2, <2>1, AskSound
  <2>2. CASE ~ (ours \/ expect)
    BY <1>1, <2>2 DEF storeVars, runVars, StoreSound, StoreTypeOK, InUpdate, Disk
  <2> QED
    BY <2>1, <2>2
<1>4. new \in [at : {"idle", "number", "rename", "spawn", "exec"},
               expect : BOOLEAN, ours : BOOLEAN, renamed : BOOLEAN, name : Name \cup {None}]
  <2>1. ours \in BOOLEAN
    BY <1>0 DEF LabelIsPall8tOwn
  <2> QED
    BY <1>0, <2>1
<1>5. job' = [job EXCEPT ![r] = new]
  BY <1>1
<1> HIDE DEF new
<1>6. TypeOK'
  BY <1>3, <1>4, <1>5 DEF Begin, StoreSound, TypeOK, herdrVars, restVars
<1>7. job'[r] = new /\ \A p \in Runs \ {r} : job'[p] = job[p]
  BY <1>5 DEF TypeOK
<1>8. new.at \in {"number", "exec"} /\ ~ new.renamed
  BY DEF new
<1>9. Pace(r)'
  BY <1>7, <1>8 DEF Begin, Paced, Pace, herdrVars, OpenTabs
<1>10. OpenTabs' = OpenTabs /\ UNCHANGED <<namer, agent>>
  BY DEF Begin, herdrVars, OpenTabs
<1>11. Paced'
  BY <1>7, <1>9, <1>10, OwnPace
<1> QED
  BY <1>3, <1>6, <1>11

LEMMA NumberNBase ==
  ASSUME NBase, NEW r \in Runs, Number(r)
  PROVE  NBase'
<1>1. StoreSound'
  BY StepSound DEF NBase, Number
<1> QED
  BY <1>1 DEF Number, NBase, TypeOK, StoreSound, Paced, Pace, OpenTabs, herdrVars, paneVars, restVars

LEMMA ChooseNBase ==
  ASSUME NBase, NEW r \in Runs, Choose(r)
  PROVE  NBase'
<1> USE HerdrNamingAssumption DEF NBase
<1>1. StoreSound'
  BY DEF Choose, storeVars, runVars, StoreSound, StoreTypeOK, InUpdate, Disk
<1>2. req[r] \in Alloc /\ req[r].base \in Bases /\ number[r] \in Usize \cup {None}
  BY DEF Choose, StoreSound, StoreTypeOK, Alloc
<1>3. PICK taken :
        job' = [job EXCEPT ![r].at = IF job[r].ours THEN "rename" ELSE "spawn",
                           ![r].name = FirstFree(req[r].base, number[r], taken)]
  BY DEF Choose
<1>4. FirstFree(req[r].base, number[r], taken) \in Name
  BY <1>2, FirstFreeIsName, TabNumbersAssumption
<1> DEFINE Jobs == [at : {"idle", "number", "rename", "spawn", "exec"},
                    expect : BOOLEAN, ours : BOOLEAN, renamed : BOOLEAN,
                    name : Name \cup {None}]
           new  == [job[r] EXCEPT !.at = IF job[r].ours THEN "rename" ELSE "spawn",
                                  !.name = FirstFree(req[r].base, number[r], taken)]
<1>5. job' = [job EXCEPT ![r] = new]
  BY <1>3
<1>a. job[r] \in Jobs
  BY DEF TypeOK
<1>b. /\ new \in Jobs /\ new.at = IF job[r].ours THEN "rename" ELSE "spawn"
      /\ new.name \in Name /\ new.ours = job[r].ours /\ new.renamed = job[r].renamed
  BY <1>4, <1>a
<1> HIDE DEF new
<1>6. /\ job'[r].at = IF job[r].ours THEN "rename" ELSE "spawn"
      /\ job'[r].name \in Name /\ job'[r].ours = job[r].ours
      /\ job'[r].renamed = job[r].renamed
      /\ \A p \in Runs \ {r} : job'[p] = job[p]
  BY <1>5, <1>b DEF TypeOK
<1>7. job' \in [Runs -> Jobs]
  BY <1>5, <1>b DEF TypeOK
<1>8. handed' \subseteq [tab : Tabs, base : Bases, number : Usize]
  <2>1. CASE number[r] = None
    BY <2>1 DEF Choose, TypeOK
  <2>2. CASE number[r] # None
    <3>1. [tab |-> TabOf[r], base |-> req[r].base, number |-> number[r]]
            \in [tab : Tabs, base : Bases, number : Usize]
      BY <1>2, <2>2
    <3> QED
      BY <2>2, <3>1 DEF Choose, TypeOK
  <2> QED
    BY <2>1, <2>2
<1>9. TypeOK'
  BY <1>1, <1>7, <1>8 DEF Choose, TypeOK, StoreSound, herdrVars, restVars
<1>10. OpenTabs' = OpenTabs /\ UNCHANGED <<namer, agent>>
  BY DEF Choose, herdrVars, OpenTabs
<1>11. Pace(r)'
  BY <1>6, <1>10 DEF Choose, Paced, Pace
<1>12. Paced'
  BY <1>6, <1>10, <1>11, OwnPace
<1> QED
  BY <1>1, <1>9, <1>12
LEMMA SameStore ==
  ASSUME StoreSound, UNCHANGED storeVars
  PROVE  StoreSound'
BY DEF storeVars, runVars, StoreSound, StoreTypeOK, InUpdate, Disk

LEMMA RunNBase ==
  ASSUME NBase, NEW r \in Runs, RenameTab(r) \/ Spawn(r) \/ End(r)
  PROVE  NBase'
<1> USE NamesAssumption, HerdrNamingAssumption DEF NBase
<1>1. CASE RenameTab(r)
  <2>1. StoreSound'
    BY <1>1, SameStore DEF RenameTab
  <2>2. /\ job'[r].at = "spawn" /\ job'[r].name = job[r].name /\ job[r].at = "rename"
        /\ \A p \in Runs \ {r} : job'[p] = job[p]
    BY <1>1 DEF RenameTab, TypeOK
  <2>3. job[r].name \in Name /\ job[r].name \notin {None, Closed}
    BY <2>2 DEF Paced, Pace
  <2>a. job' \in [Runs -> [at : {"idle", "number", "rename", "spawn", "exec"},
                           expect : BOOLEAN, ours : BOOLEAN, renamed : BOOLEAN,
                           name : Name \cup {None}]]
    <3> DEFINE Jobs == [at : {"idle", "number", "rename", "spawn", "exec"},
                        expect : BOOLEAN, ours : BOOLEAN, renamed : BOOLEAN,
                        name : Name \cup {None}]
    <3>1. job \in [Runs -> Jobs] /\ job[r] \in Jobs
      BY DEF TypeOK
    <3>2. PICK new \in {[job[r] EXCEPT !.at = "spawn"],
                        [job[r] EXCEPT !.at = "spawn", !.renamed = TRUE]} :
            job' = [job EXCEPT ![r] = new]
      BY <1>1 DEF RenameTab
    <3>3. new \in Jobs
      <4>1. [job[r] EXCEPT !.at = "spawn"] \in Jobs
        BY <3>1
      <4>2. [job[r] EXCEPT !.at = "spawn", !.renamed = TRUE] \in Jobs
        BY <3>1
      <4> HIDE DEF Jobs
      <4> QED
        BY <4>1, <4>2
    <3> HIDE DEF Jobs
    <3>4. job' \in [Runs -> Jobs]
      BY <3>1, <3>2, <3>3
    <3> QED
      BY <3>4 DEF Jobs
  <2>b. /\ label' \in [Tabs -> Name \cup {None, Closed}]
        /\ author' \in [Tabs -> {"herdr", "pall8t", "human"}]
    <3>1. \/ /\ label' = [label EXCEPT ![TabOf[r]] = job[r].name]
             /\ author' = [author EXCEPT ![TabOf[r]] = "pall8t"]
          \/ UNCHANGED <<label, author>>
      BY <1>1 DEF RenameTab
    <3> QED
      BY <2>3, <3>1 DEF TypeOK
  <2>c. UNCHANGED <<agent, others, namer, wedged, handed, late, starts, restarts>>
    BY <1>1 DEF RenameTab, restVars
  <2>4. TypeOK'
    BY <2>1, <2>a, <2>b, <2>c DEF TypeOK, StoreSound
  <2>5. OpenTabs \subseteq OpenTabs' /\ UNCHANGED <<namer, agent>>
    BY <1>1, <2>3 DEF RenameTab, OpenTabs, TypeOK
  <2>6. Pace(r)'
    BY <2>2, <2>3, <2>5 DEF Paced, Pace
  <2> QED
    BY <2>1, <2>2, <2>4, <2>5, <2>6, OwnPace
<1>2. CASE Spawn(r)
  <2>1. StoreSound'
    BY <1>2, SameStore DEF Spawn
  <2>2. job[r].at = "spawn" /\ job[r].name \in Name /\ namer[r].at = "none" /\ agent[r] = None
    BY <1>2 DEF Spawn, Paced, Pace, TypeOK
  <2>3. [at |-> "waiting", name |-> job[r].name, tab |-> job[r].renamed, k |-> 1]
          \in [at : {"none", "waiting", "naming", "relabel", "over"},
               name : Name \cup {None}, tab : BOOLEAN, k : 1 .. CollisionTries + 1]
    BY <2>2 DEF TypeOK
  <2>a. namer' \in [Runs -> [at : {"none", "waiting", "naming", "relabel", "over"},
                             name : Name \cup {None}, tab : BOOLEAN,
                             k : 1 .. CollisionTries + 1]]
    <3>1. CASE namer' = namer
      BY <3>1 DEF TypeOK
    <3>2. CASE namer' = [namer EXCEPT ![r] = [at |-> "waiting", name |-> job[r].name,
                                              tab |-> job[r].renamed, k |-> 1]]
      BY <2>3, <3>2 DEF TypeOK
    <3> QED
      BY <1>2, <3>1, <3>2 DEF Spawn
  <2>b. job' \in [Runs -> [at : {"idle", "number", "rename", "spawn", "exec"},
                           expect : BOOLEAN, ours : BOOLEAN, renamed : BOOLEAN,
                           name : Name \cup {None}]]
    BY <1>2 DEF Spawn, TypeOK
  <2>4. TypeOK'
    BY <1>2, <2>1, <2>a, <2>b DEF Spawn, TypeOK, StoreSound, herdrVars, restVars
  <2>5. /\ \A p \in Runs \ {r} : job'[p] = job[p] /\ namer'[p] = namer[p]
        /\ OpenTabs' = OpenTabs /\ UNCHANGED agent
    BY <1>2 DEF Spawn, OpenTabs, herdrVars, TypeOK
  <2>6. Pace(r)'
    <3>1. /\ job'[r].at = "exec" /\ job'[r].name = job[r].name
          /\ job'[r].renamed = job[r].renamed
      BY <1>2 DEF Spawn, TypeOK
    <3>2. \/ namer' = namer
          \/ namer'[r] = [at |-> "waiting", name |-> job[r].name, tab |-> job[r].renamed, k |-> 1]
      BY <1>2 DEF Spawn, TypeOK
    <3> QED
      BY <2>2, <2>5, <3>1, <3>2 DEF Paced, Pace
  <2> QED
    BY <2>1, <2>4, <2>5, <2>6, OwnPace
<1>3. CASE End(r)
  <2>1. StoreSound'
    BY <1>3, SameStore, ExitSound DEF End
  <2>2. TypeOK'
    BY <1>3, <2>1 DEF End, Idle, TypeOK, StoreSound, restVars
  <2>3. /\ job'[r] = Idle /\ agent'[r] = None /\ UNCHANGED namer
        /\ \A p \in Runs \ {r} : job'[p] = job[p] /\ agent'[p] = agent[p]
        /\ OpenTabs' = OpenTabs
    BY <1>3 DEF End, OpenTabs, TypeOK
  <2>4. Pace(r)'
    BY <2>3 DEF Paced, Pace, Idle
  <2> QED
    BY <2>1, <2>2, <2>3, <2>4, OwnPace
<1> QED
  BY <1>1, <1>2, <1>3

\* A namer that moves on keeps its type.
LEMMA NamerMoves ==
  ASSUME TypeOK, NEW r \in Runs, NEW at \in {"naming", "over"},
         namer' = [namer EXCEPT ![r].at = at]
  PROVE  namer' \in [Runs -> [at : {"none", "waiting", "naming", "relabel", "over"},
                              name : Name \cup {None}, tab : BOOLEAN,
                              k : 1 .. CollisionTries + 1]]
BY DEF TypeOK

LEMMA NamerNBase ==
  ASSUME NBase, NEW r \in Runs, NamerStep(r) \/ AgentAppears(r)
  PROVE  NBase'
<1> USE NamesAssumption, HerdrNamingAssumption DEF NBase
<1>1. StoreSound'
  BY SameStore
  DEF NamerStep, NamerDetects, NamerStopsWaiting, NamerTries, NamerRelabels, NamerLeaves,
      AgentAppears
<1>2. CASE NamerDetects(r) \/ NamerStopsWaiting(r) \/ NamerLeaves(r) \/ AgentAppears(r)
  <2> USE <1>2 DEF NamerDetects, NamerStopsWaiting, NamerLeaves, AgentAppears, herdrVars,
          paneVars, restVars, NoNamer
  <2>a. namer' \in [Runs -> [at : {"none", "waiting", "naming", "relabel", "over"},
                             name : Name \cup {None}, tab : BOOLEAN,
                             k : 1 .. CollisionTries + 1]]
    <3>1. CASE namer' = [namer EXCEPT ![r] = NoNamer]
      <4>1. 1 \in 1 .. CollisionTries + 1
        OBVIOUS
      <4> QED
        BY <3>1, <4>1 DEF TypeOK
    <3>2. CASE \E at \in {"naming", "over"} : namer' = [namer EXCEPT ![r].at = at]
      BY <3>2, NamerMoves
    <3>3. CASE namer' = namer
      BY <3>3 DEF TypeOK
    <3> QED
      BY <3>1, <3>2, <3>3
  <2>b. agent' \in [Runs -> Name \cup {None, Unnamed}]
    BY DEF TypeOK
  <2>c. UNCHANGED <<label, author, others, job, wedged, handed, late, starts, restarts>>
    OBVIOUS
  <2>1. TypeOK'
    BY <1>1, <2>a, <2>b, <2>c DEF TypeOK, StoreSound
  <2>2. /\ \A p \in Runs \ {r} : namer'[p] = namer[p] /\ agent'[p] = agent[p]
        /\ OpenTabs' = OpenTabs /\ UNCHANGED job
    BY DEF OpenTabs, TypeOK
  <2>3. Pace(r)'
    <3>1. CASE NamerDetects(r)
      BY <2>2, <3>1 DEF Paced, Pace, TypeOK
    <3>2. CASE NamerStopsWaiting(r)
      BY <2>2, <3>2 DEF Paced, Pace, TypeOK
    <3>3. CASE NamerLeaves(r)
      BY <2>2, <3>3 DEF Paced, Pace, TypeOK
    <3>4. CASE AgentAppears(r)
      BY <2>2, <3>4 DEF Paced, Pace, TypeOK
    <3> QED
      BY <3>1, <3>2, <3>3, <3>4
  <2> QED
    BY <1>1, <2>1, <2>2, <2>3, OwnPace
<1>3. CASE NamerTries(r)
  <2> DEFINE walk == Candidates(namer[r].name, None)
  <2>1. namer[r].k \in 1 .. CollisionTries + 1 /\ namer[r].name \in Name
    BY <1>3 DEF NamerTries, Paced, Pace, TypeOK
  <2>2. namer[r].k <= CollisionTries => walk[namer[r].k] \in Name
    BY <2>1, CandidateIsName
  <2> HIDE DEF walk
  <2>3. \/ namer' = [namer EXCEPT ![r].at = "over"] /\ agent' = agent
        \/ /\ namer' = [namer EXCEPT ![r].k = @ + 1] /\ agent' = agent
           /\ namer[r].k <= CollisionTries
        \/ /\ namer' = [namer EXCEPT ![r].at =
                          IF namer[r].tab /\ namer[r].k # 1 THEN "relabel" ELSE "over"]
           /\ agent' = [agent EXCEPT ![r] = walk[namer[r].k]]
           /\ agent[r] # None /\ namer[r].k <= CollisionTries
    BY <1>3, <2>1 DEF NamerTries, walk
  <2>4. namer' \in [Runs -> [at : {"none", "waiting", "naming", "relabel", "over"},
                             name : Name \cup {None}, tab : BOOLEAN,
                             k : 1 .. CollisionTries + 1]]
    BY <2>1, <2>3 DEF TypeOK
  <2>5. TypeOK'
    BY <1>1, <1>3, <2>2, <2>3, <2>4 DEF NamerTries, TypeOK, StoreSound, restVars
  <2>6. /\ \A p \in Runs \ {r} : namer'[p] = namer[p] /\ agent'[p] = agent[p]
        /\ OpenTabs' = OpenTabs /\ UNCHANGED job
    BY <1>3, <2>3 DEF NamerTries, OpenTabs, TypeOK
  <2>7. Pace(r)'
    <3>1. namer[r].at = "naming"
      BY <1>3 DEF NamerTries
    <3>2. /\ namer'[r].at \in {"naming", "relabel", "over"}
          /\ namer'[r].name = namer[r].name /\ namer'[r].tab = namer[r].tab
          /\ namer'[r].at = "relabel" =>
               namer[r].tab /\ namer'[r].k = namer[r].k /\ namer[r].k <= CollisionTries
          /\ namer'[r].at = "naming" => agent' = agent
          /\ agent' # agent => agent[r] # None
      BY <2>3, <3>1 DEF TypeOK
    <3> QED
      BY <2>1, <2>6, <3>1, <3>2 DEF Paced, Pace
  <2> QED
    BY <1>1, <2>5, <2>6, <2>7, OwnPace
<1>4. CASE NamerRelabels(r)
  <2> DEFINE name == Candidates(namer[r].name, None)[namer[r].k]
  <2>1. name \in Name
    BY <1>4, CandidateIsName DEF NamerRelabels, Paced, Pace
  <2> HIDE DEF name
  <2>2. \/ /\ label' = [label EXCEPT ![TabOf[r]] = name]
           /\ author' = [author EXCEPT ![TabOf[r]] = "pall8t"]
        \/ UNCHANGED <<label, author>>
    BY <1>4 DEF NamerRelabels, name
  <2>a. namer' \in [Runs -> [at : {"none", "waiting", "naming", "relabel", "over"},
                             name : Name \cup {None}, tab : BOOLEAN,
                             k : 1 .. CollisionTries + 1]]
    BY <1>4 DEF NamerRelabels, TypeOK
  <2>b. /\ label' \in [Tabs -> Name \cup {None, Closed}]
        /\ author' \in [Tabs -> {"herdr", "pall8t", "human"}]
    BY <2>1, <2>2 DEF TypeOK
  <2>c. UNCHANGED <<agent, others, job, wedged, handed, late, starts, restarts>>
    BY <1>4 DEF NamerRelabels, restVars
  <2>3. TypeOK'
    BY <1>1, <2>a, <2>b, <2>c DEF TypeOK, StoreSound
  <2>4. /\ \A p \in Runs \ {r} : namer'[p] = namer[p]
        /\ UNCHANGED <<job, agent>>
        /\ namer'[r].at = "over" /\ namer'[r].name = namer[r].name
        /\ namer'[r].tab = namer[r].tab /\ namer[r].at = "relabel"
    BY <1>4 DEF NamerRelabels, TypeOK
  <2>5. OpenTabs \subseteq OpenTabs'
    BY <2>1, <2>2 DEF OpenTabs, TypeOK
  <2>6. Pace(r)'
    BY <2>4, <2>5 DEF Paced, Pace
  <2> QED
    BY <1>1, <2>3, <2>4, <2>5, <2>6, OwnPace
<1> QED
  BY <1>2, <1>3, <1>4 DEF NamerStep

LEMMA HerdrNBase ==
  ASSUME NBase,
         \/ \E t \in Tabs : OpenTab(t) \/ CloseTab(t) \/ HumanRenames(t)
         \/ \E n \in HumanAgents : HumanNamesAgent(n)
         \/ Wedges \/ Restart
         \/ UNCHANGED vars
  PROVE  NBase'
<1> USE NamesAssumption, HerdrNamingAssumption DEF NBase
<1>1. StoreSound'
  BY SameStore, RebindSound DEF OpenTab, CloseTab, HumanRenames, HumanNamesAgent, Wedges,
     Restart, vars
<1>a. ASSUME NEW t \in Tabs, OpenTab(t) \/ CloseTab(t) \/ HumanRenames(t)
      PROVE  /\ UNCHANGED <<agent, job, namer, others, wedged, handed, starts, restarts>>
             /\ \E l \in Name \cup {Closed} : label' = [label EXCEPT ![t] = l]
             /\ author' \in {author, [author EXCEPT ![t] = "human"]}
             /\ late' \in SUBSET Runs
  BY <1>a DEF TypeOK, OpenTab, CloseTab, HumanRenames, paneVars, restVars
<1>2. /\ UNCHANGED <<agent, job, namer>>
      /\ label' \in [Tabs -> Name \cup {None, Closed}]
      /\ author' \in [Tabs -> {"herdr", "pall8t", "human"}]
      /\ others' \subseteq HumanAgents
      /\ wedged' \in BOOLEAN /\ late' \subseteq Runs
      /\ handed' \in {handed, {}}
      /\ starts' = starts /\ restarts' \in 0 .. MaxRestarts
  <2>1. CASE \E t \in Tabs : OpenTab(t) \/ CloseTab(t) \/ HumanRenames(t)
    BY <1>a, <2>1 DEF TypeOK
  <2>2. CASE \E n \in HumanAgents : HumanNamesAgent(n)
    BY <2>2 DEF TypeOK, HumanNamesAgent, paneVars, restVars
  <2>3. CASE Wedges
    BY <2>3 DEF TypeOK, Wedges, herdrVars, paneVars
  <2>4. CASE Restart
    <3>1. restarts' \in 0 .. MaxRestarts
      BY <2>4 DEF TypeOK, Restart
    <3>2. wedged' \in BOOLEAN
      BY <2>4 DEF Restart
    <3>3. /\ UNCHANGED <<agent, job, namer, label, author, late, starts>>
          /\ others' = {} /\ handed' = {}
      BY <2>4 DEF Restart, paneVars
    <3> QED
      BY <3>1, <3>2, <3>3 DEF TypeOK
  <2>5. CASE UNCHANGED vars
    BY <2>5 DEF TypeOK, vars, herdrVars, paneVars, restVars
  <2> QED
    BY <2>1, <2>2, <2>3, <2>4, <2>5
<1>3. TypeOK'
  BY <1>1, <1>2 DEF TypeOK, StoreSound
<1>4. ASSUME NEW p \in Runs, job[p].at # "idle" PROVE TabOf[p] \in OpenTabs'
  <2>1. TabOf[p] \in OpenTabs
    BY <1>4 DEF Paced, Pace
  <2>2. label'[TabOf[p]] \notin {None, Closed}
    BY <1>4, <2>1
    DEF TypeOK, OpenTabs, OpenTab, CloseTab, HumanRenames, HumanNamesAgent, Wedges,
        Restart, vars, herdrVars
  <2> QED
    BY <2>1, <2>2 DEF OpenTabs
<1>5. Paced'
  BY <1>2, <1>4 DEF Paced, Pace
<1> QED
  BY <1>1, <1>3, <1>5

LEMMA StepNBase ==
  ASSUME NBase, [Next]_vars
  PROVE  NBase'
BY BeginNBase, NumberNBase, ChooseNBase, RunNBase, NamerNBase, HerdrNBase,
   HerdrNamingAssumption DEF Next
-----------------------------------------------------------------------------
(***************************************************************************)
(* The labels of humans.                                                   *)
(***************************************************************************)

\* No human picks what reads as herdr's own.
OwnLabelApart == AutoLabel \notin HumanLabels

ReadsAsOwn(t) == \E b \in Bases : LabelIsPall8tOwn(label[t], b)

\* Unless a human named the tab since the run looked: a run that is to rename
\* it found it, if a human's, reading as one of pall8t's, and a tab that was
\* renamed is not a human's until the namer is done.
Entitled(r) ==
  r \notin late =>
    /\ (/\ job[r].at \in {"number", "rename"} /\ job[r].ours
        /\ author[TabOf[r]] = "human") => ReadsAsOwn(TabOf[r])
    /\ job[r].at = "spawn" /\ job[r].renamed => author[TabOf[r]] # "human"
    /\ namer[r].at \in {"waiting", "naming", "relabel"} /\ namer[r].tab =>
         author[TabOf[r]] # "human"

Kept ==
  /\ \A t \in Tabs : author[t] = "human" => label[t] \in HumanLabels \cup {Closed}
  /\ \A r \in Runs : Entitled(r)

LEMMA InitKept == Init => Kept
BY HerdrNamingAssumption DEF Init, Kept, Entitled, Idle, NoNamer

\* A step of one run that leaves labels and authors alone.
LEMMA OwnEntitled ==
  ASSUME Kept, NEW r \in Runs, UNCHANGED <<label, author>>, Entitled(r)',
         \A p \in Runs \ {r} : /\ job'[p] = job[p] /\ namer'[p] = namer[p]
                               /\ p \in late <=> p \in late'
  PROVE  Kept'
<1>1. ASSUME NEW p \in Runs \ {r} PROVE Entitled(p)'
  BY DEF Kept, Entitled, ReadsAsOwn
<1> QED
  BY <1>1 DEF Kept

\* pall8t labels a tab.
LEMMA LabelledKept ==
  ASSUME NBase, Kept, NEW r \in Runs, NEW name,
         label' = [label EXCEPT ![TabOf[r]] = name],
         author' = [author EXCEPT ![TabOf[r]] = "pall8t"],
         \A p \in Runs \ {r} : job'[p] = job[p] /\ namer'[p] = namer[p],
         late' = late
  PROVE  Kept'
<1>1. TabOf[r] \in Tabs /\ author'[TabOf[r]] = "pall8t"
  BY HerdrNamingAssumption DEF NBase, TypeOK
<1>2. \A t \in Tabs \ {TabOf[r]} : label'[t] = label[t] /\ author'[t] = author[t]
  BY DEF NBase, TypeOK
<1>3. Entitled(r)'
  BY <1>1 DEF Entitled
<1>4. ASSUME NEW p \in Runs \ {r} PROVE Entitled(p)'
  <2>1. TabOf[p] \in Tabs
    BY HerdrNamingAssumption
  <2>2. CASE TabOf[p] = TabOf[r]
    BY <1>1, <2>2 DEF Entitled
  <2>3. CASE TabOf[p] # TabOf[r]
    BY <1>2, <2>1, <2>3 DEF Kept, Entitled, ReadsAsOwn
  <2> QED
    BY <2>2, <2>3
<1> QED
  BY <1>1, <1>2, <1>3, <1>4 DEF Kept

LEMMA StepKept ==
  ASSUME OwnLabelApart, NBase, Kept, [Next]_vars
  PROVE  Kept'
<1> USE HerdrNamingAssumption
<1>1. ASSUME NEW r \in Runs, Begin(r) PROVE Kept'
  <2>1. PICK base \in Bases, ours \in BOOLEAN, at \in {"number", "exec"}, expect \in Expects :
          /\ job' = [job EXCEPT ![r] = [at |-> at, expect |-> expect, ours |-> ours,
                                        renamed |-> FALSE, name |-> None]]
          /\ ours => label[TabOf[r]] = AutoLabel \/ LabelIsPall8tOwn(label[TabOf[r]], base)
    BY <1>1 DEF Begin
  <2>2. /\ job'[r].at \in {"number", "exec"} /\ job'[r].ours = ours
        /\ \A p \in Runs \ {r} : job'[p] = job[p] /\ (p \in late <=> p \in late')
        /\ UNCHANGED <<label, author, namer>> /\ namer[r].at = "none"
    BY <1>1, <2>1 DEF Begin, herdrVars, NBase, TypeOK
  <2>3. AutoLabel \notin HumanLabels \cup {Closed}
    BY DEF OwnLabelApart
  <2>4. author[TabOf[r]] = "human" => label[TabOf[r]] # AutoLabel
    BY <2>3 DEF Kept
  <2>5. Entitled(r)'
    BY <2>1, <2>2, <2>4 DEF Kept, Entitled, ReadsAsOwn
  <2> QED
    BY <2>2, <2>5, OwnEntitled
<1>2. ASSUME NEW r \in Runs,
             \/ Number(r) \/ Choose(r) \/ Spawn(r) \/ End(r) \/ AgentAppears(r)
             \/ NamerDetects(r) \/ NamerStopsWaiting(r) \/ NamerTries(r) \/ NamerLeaves(r)
      PROVE  Kept'
  <2>1. /\ UNCHANGED <<label, author, late>>
        /\ \A p \in Runs \ {r} : job'[p] = job[p] /\ namer'[p] = namer[p]
    BY <1>2
    DEF Number, Choose, Spawn, End, AgentAppears, NamerDetects, NamerStopsWaiting,
        NamerTries, NamerLeaves, herdrVars, paneVars, restVars, NBase, TypeOK
  <2>2. CASE Number(r) \/ AgentAppears(r)
    BY <2>1, <2>2 DEF Number, AgentAppears, paneVars, Kept, Entitled, ReadsAsOwn
  <2>3. CASE Choose(r)
    <3>1. /\ job[r].at = "number" /\ job'[r].ours = job[r].ours /\ UNCHANGED namer
          /\ job'[r].renamed = job[r].renamed
          /\ job'[r].at = IF job[r].ours THEN "rename" ELSE "spawn"
      BY <2>3 DEF Choose, NBase, TypeOK
    <3>2. ~ job[r].renamed
      BY <3>1 DEF NBase, Paced, Pace
    <3> QED
      BY <2>1, <3>1, <3>2, OwnEntitled DEF Kept, Entitled, ReadsAsOwn
  <2>4. CASE Spawn(r)
    <3>1. /\ job[r].at = "spawn" /\ job'[r].at = "exec"
          /\ namer'[r].tab => namer'[r] = namer[r] \/ job[r].renamed
      BY <2>4 DEF Spawn, NBase, TypeOK
    <3>2. Entitled(r)'
      BY <2>1, <3>1 DEF Kept, Entitled, ReadsAsOwn
    <3> QED
      BY <2>1, <3>2, OwnEntitled
  <2>5. CASE End(r)
    BY <2>1, <2>5, OwnEntitled DEF End, Idle, Kept, Entitled, NBase, TypeOK
  <2>6. CASE NamerDetects(r) \/ NamerStopsWaiting(r) \/ NamerTries(r) \/ NamerLeaves(r)
    <3>1. /\ UNCHANGED job
          /\ namer'[r].at \in {"naming", "relabel"} =>
               namer[r].at \in {"waiting", "naming"} /\ namer'[r].tab = namer[r].tab
          /\ namer'[r].at # "waiting"
      BY <2>6 DEF NamerDetects, NamerStopsWaiting, NamerTries, NamerLeaves, NoNamer, NBase,
         TypeOK
    <3> QED
      BY <2>1, <3>1, OwnEntitled DEF Kept, Entitled, ReadsAsOwn
  <2> QED
    BY <1>2, <2>2, <2>3, <2>4, <2>5, <2>6
<1>3. ASSUME NEW r \in Runs, RenameTab(r) PROVE Kept'
  <2>1. /\ job'[r].at = "spawn" /\ job'[r].ours = job[r].ours
        /\ UNCHANGED <<namer, late>> /\ job[r].at = "rename"
        /\ \A p \in Runs \ {r} : job'[p] = job[p]
    BY <1>3 DEF RenameTab, restVars, NBase, TypeOK
  <2>2. CASE label' = [label EXCEPT ![TabOf[r]] = job[r].name]
             /\ author' = [author EXCEPT ![TabOf[r]] = "pall8t"]
    BY <2>1, <2>2, LabelledKept
  <2>3. CASE job' = [job EXCEPT ![r].at = "spawn"] /\ UNCHANGED <<label, author>>
    <3>1. ~ job'[r].renamed
      BY <2>1, <2>3 DEF NBase, Paced, Pace, TypeOK
    <3> QED
      BY <2>1, <2>3, <3>1, OwnEntitled DEF Kept, Entitled
  <2> QED
    BY <1>3, <2>2, <2>3 DEF RenameTab
<1>4. ASSUME NEW r \in Runs, NamerRelabels(r) PROVE Kept'
  <2>1. /\ namer'[r].at = "over" /\ UNCHANGED <<job, late>>
        /\ \A p \in Runs \ {r} : namer'[p] = namer[p]
    BY <1>4 DEF NamerRelabels, restVars, NBase, TypeOK
  <2>2. CASE UNCHANGED <<label, author>>
    BY <2>1, <2>2, OwnEntitled DEF Kept, Entitled, ReadsAsOwn
  <2>3. CASE ~ UNCHANGED <<label, author>>
    BY <1>4, <2>1, <2>3, LabelledKept DEF NamerRelabels
  <2> QED
    BY <2>2, <2>3
<1>5. ASSUME NEW t \in Tabs, OpenTab(t) PROVE Kept'
  <2>1. author[t] # "human"
    BY <1>5 DEF OpenTab, Kept, NBase
  <2> QED
    BY <1>5, <2>1 DEF OpenTab, paneVars, restVars, Kept, Entitled, ReadsAsOwn, NBase, TypeOK
<1>6. ASSUME NEW t \in Tabs, CloseTab(t) PROVE Kept'
  <2>1. \A r \in Runs : TabOf[r] = t => job[r].at = "idle"
    BY <1>6 DEF CloseTab
  <2>2. label'[t] = Closed /\ \A u \in Tabs \ {t} : label'[u] = label[u]
    BY <1>6 DEF CloseTab, NBase, TypeOK
  <2>3. UNCHANGED <<author, job, namer, late>>
    BY <1>6 DEF CloseTab, paneVars, restVars
  <2> QED
    BY <2>1, <2>2, <2>3 DEF Kept, Entitled, ReadsAsOwn
<1>7. ASSUME NEW t \in Tabs, HumanRenames(t) PROVE Kept'
  <2>1. \A r \in Runs : /\ r \in late => r \in late'
                        /\ TabOf[r] = t => r \in late'
    BY <1>7 DEF HumanRenames
  <2>2. /\ label'[t] \in HumanLabels
        /\ \A u \in Tabs \ {t} : label'[u] = label[u] /\ author'[u] = author[u]
    BY <1>7 DEF HumanRenames, NBase, TypeOK
  <2>3. UNCHANGED <<job, namer>>
    BY <1>7 DEF HumanRenames, paneVars
  <2>4. ASSUME NEW r \in Runs PROVE Entitled(r)'
    <3>1. CASE TabOf[r] = t
      BY <2>1, <3>1 DEF Entitled
    <3>2. CASE TabOf[r] # t
      <4>1. /\ label'[TabOf[r]] = label[TabOf[r]] /\ author'[TabOf[r]] = author[TabOf[r]]
            /\ r \notin late' => r \notin late
        BY <2>1, <2>2, <3>2
      <4> QED
        BY <2>3, <4>1 DEF Kept, Entitled, ReadsAsOwn
    <3> QED
      BY <3>1, <3>2
  <2> QED
    BY <2>2, <2>4 DEF Kept
<1>8. CASE (\E n \in HumanAgents : HumanNamesAgent(n)) \/ Wedges \/ Restart \/ UNCHANGED vars
  BY <1>8 DEF HumanNamesAgent, Wedges, Restart, vars, herdrVars, paneVars, restVars, Kept, Entitled, ReadsAsOwn
<1> QED
  BY <1>1, <1>2, <1>3, <1>4, <1>5, <1>6, <1>7, <1>8 DEF Next, NamerStep
-----------------------------------------------------------------------------
(***************************************************************************)
(* The name of the tab and the agent.                                      *)
(***************************************************************************)

\* Every pane has its tab to itself, and a relabel of it goes through.
Alone ==
  /\ \A p, r \in Runs : TabOf[p] = TabOf[r] => p = r
  /\ "relabel" \notin Faults

\* What the tab shows, and the agent answers to, from one place of the namer
\* to the next.
Matched(r) ==
  /\ (/\ job[r].at \in {"spawn", "exec"} /\ job[r].renamed
      /\ namer[r].at \in {"none", "waiting", "naming"}
      /\ author[TabOf[r]] = "pall8t") => label[TabOf[r]] = job[r].name
  /\ namer[r].at = "relabel" /\ job[r].at = "exec" =>
       agent[r] = Candidates(namer[r].name, None)[namer[r].k]
  /\ (/\ namer[r].at = "over" /\ job[r].at = "exec"
      /\ job[r].renamed /\ agent[r] \notin {None, Unnamed}
      /\ author[TabOf[r]] = "pall8t") => label[TabOf[r]] = agent[r]

AllMatched == \A r \in Runs : Matched(r)

LEMMA InitMatched == Init => AllMatched
BY DEF Init, AllMatched, Matched, Idle, NoNamer

\* A step of one run, on its own tab, pace and agent.
LEMMA OwnMatched ==
  ASSUME Alone, AllMatched, NEW r \in Runs, Matched(r)',
         \A t \in Tabs \ {TabOf[r]} : label'[t] = label[t] /\ author'[t] = author[t],
         \A p \in Runs \ {r} : job'[p] = job[p] /\ namer'[p] = namer[p] /\ agent'[p] = agent[p]
  PROVE  AllMatched'
<1>1. ASSUME NEW p \in Runs \ {r} PROVE Matched(p)'
  <2>1. TabOf[p] \in Tabs \ {TabOf[r]}
    BY HerdrNamingAssumption DEF Alone
  <2> QED
    BY <2>1 DEF AllMatched, Matched
<1> QED
  BY <1>1 DEF AllMatched

LEMMA StepMatched ==
  ASSUME Alone, NBase, NBase', AllMatched, [Next]_vars
  PROVE  AllMatched'
<1> USE HerdrNamingAssumption
<1>1. ASSUME NEW r \in Runs,
             \/ Begin(r) \/ Number(r) \/ Choose(r) \/ Spawn(r) \/ End(r) \/ AgentAppears(r)
             \/ NamerDetects(r) \/ NamerStopsWaiting(r) \/ NamerLeaves(r)
      PROVE  AllMatched'
  <2>1. UNCHANGED <<label, author>>
    BY <1>1
    DEF Begin, Number, Choose, Spawn, End, AgentAppears, NamerDetects, NamerStopsWaiting,
        NamerLeaves, herdrVars
  <2>2. \A p \in Runs \ {r} : job'[p] = job[p] /\ namer'[p] = namer[p] /\ agent'[p] = agent[p]
    <3>1. CASE Begin(r) \/ Number(r) \/ Choose(r)
      BY <3>1 DEF Begin, Number, Choose, herdrVars, paneVars, NBase, TypeOK
    <3>2. CASE Spawn(r) \/ End(r) \/ AgentAppears(r)
      BY <3>2 DEF Spawn, End, AgentAppears, herdrVars, paneVars, NBase, TypeOK
    <3>3. CASE NamerDetects(r) \/ NamerStopsWaiting(r) \/ NamerLeaves(r)
      BY <3>3 DEF NamerDetects, NamerStopsWaiting, NamerLeaves, herdrVars, NBase, TypeOK
    <3> QED
      BY <1>1, <3>1, <3>2, <3>3
  <2>3. CASE Begin(r)
    <3>1. ~ job'[r].renamed /\ namer'[r].at = "none"
      BY <2>3 DEF Begin, NBase, TypeOK
    <3> QED
      BY <2>1, <2>2, <3>1, OwnMatched DEF Matched
  <2>4. CASE Number(r)
    BY <2>4 DEF Number, herdrVars, paneVars, AllMatched, Matched
  <2>5. CASE Choose(r)
    <3>1. job'[r].at # "exec" /\ ~ job'[r].renamed
      BY <2>5 DEF Choose, NBase, TypeOK, Paced, Pace
    <3> QED
      BY <2>1, <2>2, <3>1, OwnMatched DEF Matched
  <2>6. CASE Spawn(r)
    <3>1. /\ job'[r].renamed = job[r].renamed /\ job'[r].name = job[r].name
          /\ job[r].at = "spawn" /\ namer[r].at = "none"
          /\ namer'[r].at \in {"none", "waiting"}
      BY <2>6 DEF Spawn, NBase, TypeOK, Paced, Pace
    <3> QED
      BY <2>1, <2>2, <3>1, OwnMatched DEF AllMatched, Matched
  <2>7. CASE End(r)
    <3>1. job'[r].at = "idle"
      BY <2>7 DEF End, Idle, NBase, TypeOK
    <3> QED
      BY <2>1, <2>2, <3>1, OwnMatched DEF Matched
  <2>8. CASE AgentAppears(r)
    <3>1. agent'[r] = Unnamed /\ agent[r] = None /\ UNCHANGED <<job, namer>>
      BY <2>8 DEF AgentAppears, paneVars, NBase, TypeOK
    <3>2. ~ (namer[r].at = "relabel" /\ job[r].at = "exec")
      <4>1. namer[r].at = "relabel" => Candidates(namer[r].name, None)[namer[r].k] \in Name
        BY CandidateIsName DEF NBase, Paced, Pace
      <4> QED
        BY <3>1, <4>1 DEF AllMatched, Matched
    <3> QED
      BY <2>1, <2>2, <3>1, <3>2, OwnMatched DEF AllMatched, Matched
  <2>9. CASE NamerDetects(r) \/ NamerStopsWaiting(r) \/ NamerLeaves(r)
    <3>1. UNCHANGED <<job, agent>>
      BY <2>9 DEF NamerDetects, NamerStopsWaiting, NamerLeaves, herdrVars
    <3>2. \/ namer'[r].at = "naming" /\ namer[r].at = "waiting"
          \/ namer'[r].at = "over" /\ agent[r] = None
          \/ job[r].at = "idle"
      BY <2>9 DEF NamerDetects, NamerStopsWaiting, NamerLeaves, NBase, TypeOK
    <3> QED
      BY <2>1, <2>2, <3>1, <3>2, OwnMatched DEF AllMatched, Matched
  <2> QED
    BY <1>1, <2>3, <2>4, <2>5, <2>6, <2>7, <2>8, <2>9
<1>2. ASSUME NEW r \in Runs, RenameTab(r) PROVE AllMatched'
  <2>1. /\ job'[r].at = "spawn" /\ job'[r].name = job[r].name /\ UNCHANGED <<namer, agent>>
        /\ \A p \in Runs \ {r} : job'[p] = job[p]
        /\ \A t \in Tabs \ {TabOf[r]} : label'[t] = label[t] /\ author'[t] = author[t]
    BY <1>2 DEF RenameTab, NBase, TypeOK
  <2>2. job'[r].renamed => label'[TabOf[r]] = job[r].name
    BY <1>2 DEF RenameTab, NBase, TypeOK, Paced, Pace
  <2>3. job[r].at = "rename" => namer[r].at = "none"
    BY DEF NBase, TypeOK, Paced, Pace
  <2>4. Matched(r)'
    BY <1>2, <2>1, <2>2, <2>3 DEF RenameTab, Matched
  <2> QED
    BY <2>1, <2>4, OwnMatched
<1>3. ASSUME NEW r \in Runs, NamerTries(r) PROVE AllMatched'
  <2>1. /\ UNCHANGED <<label, author, job>> /\ namer[r].at = "naming"
        /\ \A p \in Runs \ {r} : namer'[p] = namer[p] /\ agent'[p] = agent[p]
    BY <1>3 DEF NamerTries, NBase, TypeOK
  <2>2. agent[r] \in {None, Unnamed}
    BY <2>1 DEF NBase, Paced, Pace
  <2> DEFINE walk == Candidates(namer[r].name, None)
  <2>3. \/ namer'[r].at = "naming"
        \/ namer'[r].at = "over" /\ agent'[r] = agent[r]
        \/ /\ agent'[r] = walk[namer[r].k]
           /\ namer'[r].name = namer[r].name /\ namer'[r].k = namer[r].k
           /\ namer'[r].at = IF namer[r].tab /\ namer[r].k # 1 THEN "relabel" ELSE "over"
    <3> HIDE DEF walk
    <3> QED
      BY <1>3 DEF NamerTries, walk, NBase, TypeOK
  <2>4. walk[1] = namer[r].name
    BY NamesAssumption DEF Candidates, FirstCandidate
  <2>5. job[r].at = "exec" => namer[r].name = job[r].name /\ namer[r].tab = job[r].renamed
    BY <2>1 DEF NBase, Paced, Pace
  <2> HIDE DEF walk
  <2>6. (/\ job[r].at = "exec" /\ job[r].renamed
         /\ author[TabOf[r]] = "pall8t") => label[TabOf[r]] = job[r].name
    BY <2>1 DEF AllMatched, Matched
  <2>7. Matched(r)'
    <3>1. CASE namer'[r].at = "naming"
      BY <2>1, <3>1 DEF AllMatched, Matched
    <3>2. CASE namer'[r].at = "over" /\ agent'[r] = agent[r]
      BY <2>1, <2>2, <3>2 DEF Matched
    <3>3. CASE /\ agent'[r] = walk[namer[r].k]
               /\ namer'[r].name = namer[r].name /\ namer'[r].k = namer[r].k
               /\ namer'[r].at = IF namer[r].tab /\ namer[r].k # 1 THEN "relabel" ELSE "over"
      <4>1. agent'[r] = Candidates(namer'[r].name, None)[namer'[r].k]
        BY <3>3 DEF walk
      <4>2. (namer'[r].at = "over" /\ job[r].at = "exec" /\ job[r].renamed) =>
              agent'[r] = job[r].name
        BY <2>4, <2>5, <3>3
      <4> QED
        BY <2>1, <2>6, <3>3, <4>1, <4>2 DEF Matched
    <3> QED
      BY <2>3, <3>1, <3>2, <3>3
  <2> QED
    BY <2>1, <2>7, OwnMatched
<1>4. ASSUME NEW r \in Runs, NamerRelabels(r) PROVE AllMatched'
  <2> DEFINE name == Candidates(namer[r].name, None)[namer[r].k]
  <2>1. /\ namer'[r].at = "over" /\ UNCHANGED <<job, agent>> /\ namer[r].at = "relabel"
        /\ \A p \in Runs \ {r} : namer'[p] = namer[p]
        /\ \A t \in Tabs \ {TabOf[r]} : label'[t] = label[t] /\ author'[t] = author[t]
    BY <1>4 DEF NamerRelabels, NBase, TypeOK
  <2>2. job[r].at = "exec" => agent[r] = name
    BY <2>1 DEF AllMatched, Matched
  <2>3. job[r].at = "exec" => label'[TabOf[r]] = name
    <3>1. job[r].at = "exec" => TabOf[r] \in OpenTabs
      BY DEF NBase, Paced, Pace
    <3> HIDE DEF name
    <3> QED
      BY <1>4, <3>1 DEF NamerRelabels, name, Alone, NBase, TypeOK
  <2>4. Matched(r)'
    BY <2>1, <2>2, <2>3 DEF Matched
  <2> QED
    BY <2>1, <2>4, OwnMatched
<1>5. ASSUME NEW t \in Tabs, OpenTab(t) \/ CloseTab(t) \/ HumanRenames(t) PROVE AllMatched'
  <2>1. /\ UNCHANGED <<job, namer, agent>>
        /\ \A u \in Tabs \ {t} : label'[u] = label[u] /\ author'[u] = author[u]
    BY <1>5 DEF OpenTab, CloseTab, HumanRenames, paneVars, NBase, TypeOK
  <2>2. \/ author'[t] = "human"
        \/ \A p \in Runs : TabOf[p] = t => job[p].at = "idle"
    BY <1>5 DEF OpenTab, CloseTab, HumanRenames, NBase, TypeOK, Paced, Pace, OpenTabs
  <2>3. ASSUME NEW p \in Runs PROVE Matched(p)'
    BY <2>1, <2>2 DEF AllMatched, Matched
  <2> QED
    BY <2>3 DEF AllMatched
<1>6. CASE (\E n \in HumanAgents : HumanNamesAgent(n)) \/ Wedges \/ Restart \/ UNCHANGED vars
  BY <1>6 DEF HumanNamesAgent, Wedges, Restart, vars, herdrVars, paneVars, AllMatched, Matched
<1> QED
  BY <1>1, <1>2, <1>3, <1>4, <1>5, <1>6 DEF Next, NamerStep
-----------------------------------------------------------------------------
(***************************************************************************)
(* What a label says.                                                      *)
(***************************************************************************)

\* A name that begins with another and goes on: `foo-3-2' extends `foo-3'
\* and `foo'.
Extends(name, base) ==
  /\ name.word = base.word
  /\ Len(base.nums) < Len(name.nums)
  /\ \A i \in 1 .. Len(base.nums) : name.nums[i] = base.nums[i]

\* The number such a name carries right after the other.
NumberAfter(name, base) == name.nums[Len(base.nums) + 1]

\* A label is read as a number for a base only where it extends the base,
\* and the number read is the one right after it (number_in_label).
LEMMA LabelReads ==
  ASSUME NEW l \in Name, NEW b \in Name, NEW m \in NumberInLabel(l, b)
  PROVE  m \in Usize /\ Extends(l, b) /\ m = NumberAfter(l, b)
<1>1. PICK r \in Readings(l) :
        HasCounter(r) /\ WithCounter(b, Counter(r)) = r /\ m = Counter(r)
  BY DEF NumberInLabel
<1>2. m \in Usize
  BY NumberInLabelType
<1>3. r.word = b.word /\ r.nums = Append(b.nums, m)
  BY <1>1 DEF WithCounter, Name
<1>4. b.nums \in Seq(Usize) /\ l.nums \in Seq(Usize)
  BY DEF Name
<1>5. /\ Len(r.nums) = Len(b.nums) + 1 /\ r.nums[Len(b.nums) + 1] = m
      /\ \A i \in 1 .. Len(b.nums) : r.nums[i] = b.nums[i]
  BY <1>2, <1>3, <1>4
<1>6. /\ l.word = r.word /\ Len(r.nums) <= Len(l.nums)
      /\ \A i \in 1 .. Len(r.nums) : l.nums[i] = r.nums[i]
  <2>1. CASE r = l
    BY <2>1, <1>4
  <2>2. CASE HasCounter(l) /\ r = HeadOf(l)
    <3>1. r.word = l.word /\ r.nums = SubSeq(l.nums, 1, Len(l.nums) - 1)
      BY <2>2 DEF HeadOf, Name
    <3>2. l.nums # <<>> /\ Len(l.nums) \in Nat /\ Len(l.nums) >= 1
      BY <2>2, <1>4 DEF HasCounter
    <3> QED BY <1>4, <3>1, <3>2
  <2> QED BY <1>1, <2>1, <2>2 DEF Readings
<1>7. Len(b.nums) \in Nat /\ Len(l.nums) \in Nat /\ Len(r.nums) \in Nat
  BY <1>4, <1>5
<1>8. Extends(l, b)
  BY <1>3, <1>5, <1>6, <1>7 DEF Extends
<1>9. m = NumberAfter(l, b)
  BY <1>5, <1>6, <1>7 DEF NumberAfter
<1> QED BY <1>2, <1>8, <1>9

\* A counter written after a name extends it, and whatever the name extends.
LEMMA CounterExtends ==
  ASSUME NEW x \in Name, NEW k \in Usize
  PROVE  /\ Extends(WithCounter(x, k), x) /\ NumberAfter(WithCounter(x, k), x) = k
         /\ \A b \in Name : Extends(x, b) =>
              /\ Extends(WithCounter(x, k), b)
              /\ NumberAfter(WithCounter(x, k), b) = NumberAfter(x, b)
<1> DEFINE y == WithCounter(x, k)
<1>1. x.nums \in Seq(Usize) /\ y.word = x.word /\ y.nums = Append(x.nums, k)
  BY DEF WithCounter, Name
<1> HIDE DEF y
<1>2. /\ Len(y.nums) = Len(x.nums) + 1 /\ y.nums[Len(x.nums) + 1] = k
      /\ \A i \in 1 .. Len(x.nums) : y.nums[i] = x.nums[i]
      /\ Len(x.nums) \in Nat
  BY <1>1
<1>3. Extends(y, x) /\ NumberAfter(y, x) = k
  BY <1>1, <1>2 DEF Extends, NumberAfter
<1>4. ASSUME NEW b \in Name, Extends(x, b)
      PROVE  Extends(y, b) /\ NumberAfter(y, b) = NumberAfter(x, b)
  <2>1. Len(b.nums) \in Nat /\ Len(b.nums) < Len(x.nums)
    BY <1>4 DEF Extends, Name
  <2> QED BY <1>1, <1>2, <1>4, <2>1 DEF Extends, NumberAfter
<1> QED BY <1>3, <1>4 DEF y

\* Every candidate of a base and a number carries that number for that base,
\* and so does every candidate of a candidate (candidates).
LEMMA WalkCarries ==
  ASSUME NEW b \in Name, NEW k \in 1 .. CollisionTries
  PROVE  /\ \A n \in Usize : /\ Extends(Candidates(b, n)[k], b)
                             /\ NumberAfter(Candidates(b, n)[k], b) = n
         /\ \A x \in Name : Extends(x, b) =>
              /\ Extends(Candidates(x, None)[k], b)
              /\ NumberAfter(Candidates(x, None)[k], b) = NumberAfter(x, b)
<1>1. k \in Usize
  BY NamesAssumption DEF Usize
<1>2. ASSUME NEW n \in Usize
      PROVE  /\ Extends(Candidates(b, n)[k], b)
             /\ NumberAfter(Candidates(b, n)[k], b) = n
  <2>1. FirstCandidate(b, n) \in {WithCounter(b, n), b} /\ WithCounter(b, n) \in Name
    BY WithCounterIsName DEF FirstCandidate
  <2>2. FirstCandidate(b, n) = WithCounter(b, n)
    BY TabNumbersAssumption DEF FirstCandidate
  <2>3. Candidates(b, n)[k] \in {WithCounter(b, n), WithCounter(WithCounter(b, n), k)}
    BY <2>2 DEF Candidates
  <2> QED BY <1>1, <2>1, <2>3, CounterExtends
<1>3. ASSUME NEW x \in Name, Extends(x, b)
      PROVE  /\ Extends(Candidates(x, None)[k], b)
             /\ NumberAfter(Candidates(x, None)[k], b) = NumberAfter(x, b)
  <2>1. Candidates(x, None)[k] \in {x, WithCounter(x, k)}
    BY DEF Candidates, FirstCandidate
  <2> QED BY <1>1, <1>3, <2>1, CounterExtends
<1> QED BY <1>2, <1>3

\* A label carries at most one number, for at most one base, as long as no
\* base goes on where another ends.
BasesApart == \A b, c \in Bases : ~ Extends(b, c)

LEMMA OneReading ==
  ASSUME BasesApart, NEW l \in Name, NEW b \in Bases, Extends(l, b),
         NEW c \in Bases, NEW m \in NumberInLabel(l, c)
  PROVE  c = b /\ m = NumberAfter(l, b)
<1>1. b \in Name /\ c \in Name
  BY TabNumbersAssumption
<1>2. Extends(l, c) /\ m = NumberAfter(l, c)
  BY <1>1, LabelReads
<1>3. b.nums \in Seq(Usize) /\ c.nums \in Seq(Usize)
  BY <1>1 DEF Name
<1>4. b.word = c.word
  BY <1>2 DEF Extends
<1>5. \A i \in Nat : i \in 1 .. Len(b.nums) /\ i \in 1 .. Len(c.nums) =>
        b.nums[i] = c.nums[i]
  BY <1>2 DEF Extends
<1>6. Len(b.nums) \in Nat /\ Len(c.nums) \in Nat
  BY <1>3
<1>7. Len(b.nums) = Len(c.nums)
  <2>1. ~ (Len(b.nums) < Len(c.nums))
    BY <1>4, <1>5, <1>6 DEF Extends, BasesApart
  <2>2. ~ (Len(c.nums) < Len(b.nums))
    BY <1>4, <1>5, <1>6 DEF Extends, BasesApart
  <2> QED BY <1>6, <2>1, <2>2
<1>8. b.nums = c.nums
  BY <1>3, <1>5, <1>6, <1>7
<1>9. b = c
  BY <1>1, <1>4, <1>8 DEF Name
<1> QED BY <1>2, <1>9

\* A base on its own carries no number for any base.
LEMMA BaseReadsNothing ==
  ASSUME BasesApart, NEW b \in Bases, NEW c \in Bases
  PROVE  NumberInLabel(b, c) = {}
BY LabelReads, TabNumbersAssumption DEF BasesApart
-----------------------------------------------------------------------------
(***************************************************************************)
(* One allocation.                                                         *)
(***************************************************************************)

\* The numbers the labels of the other tabs carry for the request's base.
LiveNumbers(q) == UNION {NumberInLabel(l, q.base) : l \in q.liveLabels}

LEMMA NumbersOfRequest ==
  ASSUME NEW q \in Alloc
  PROVE  /\ Adopt(q) \in SUBSET Usize /\ LiveNumbers(q) \in SUBSET Usize
         /\ \A m, n \in Adopt(q) : m = n
<1>1. q.base \in Name /\ q.ownLabel \in Name \cup {None} /\ q.liveLabels \in SUBSET Name
  BY TabNumbersAssumption DEF Alloc
<1>2. Adopt(q) \in SUBSET Usize
  BY <1>1, NumberInLabelType DEF Adopt
<1>3. LiveNumbers(q) \in SUBSET Usize
  BY <1>1, NumberInLabelType DEF LiveNumbers
<1>4. ASSUME NEW m \in Adopt(q), NEW n \in Adopt(q) PROVE m = n
  <2>1. q.ownLabel \in Name /\ Adopt(q) = NumberInLabel(q.ownLabel, q.base)
    BY <1>1, <1>4 DEF Adopt
  <2> QED BY <1>1, <1>4, <2>1, LabelReads
<1> QED BY <1>2, <1>3, <1>4

\* The counter starts past every number on screen.
LEMMA SeedIsPast ==
  ASSUME NEW q \in Alloc, NEW m \in LiveNumbers(q),
         \A n \in LiveNumbers(q) : n < UsizeMax
  PROVE  m < SeedFromLabels(q.liveLabels, q.base)
<1> DEFINE shown == LiveNumbers(q)
<1>1. shown \in SUBSET Usize /\ shown # {}
  BY NumbersOfRequest
<1>2. Max(shown) \in shown /\ m <= Max(shown)
  BY <1>1, MaxOfUsize
<1>3. SeedFromLabels(q.liveLabels, q.base) = Succ(Max(shown))
  BY <1>1 DEF SeedFromLabels, LiveNumbers
<1>4. Max(shown) < UsizeMax /\ Max(shown) \in Nat /\ m \in Nat
  BY <1>1, <1>2 DEF Usize
<1> QED BY <1>2, <1>3, <1>4, NamesAssumption DEF Succ

\* What one allocation does to its session, away from usize::MAX: the counter
\* of its base ends up past the number handed out and past every number seen,
\* no other counter moves, and the number is the one the tab holds, or the one
\* its label carries, or one past everything given and seen.
LEMMA AllocateFacts ==
  ASSUME NEW s \in Session, NEW live \in OptServer, NEW q \in Alloc,
         \A t \in Tabs : s.tabs[t] # None => s.tabs[t].number < s.next[s.tabs[t].base],
         \A n \in Adopt(q) \cup LiveNumbers(q) : n < UsizeMax,
         NEW w \in Session, w.next = s.next,
         w.tabs = PruneTabs(s.tabs, q.liveTabs, q.tab),
         Recorded(w, live, q).next[q.base] < UsizeMax
  PROVE  LET n   == NumberOf(w, q)
             new == Recorded(w, live, q)
             one == [base |-> q.base, number |-> n]
         IN  /\ n \in Usize /\ n < new.next[q.base]
             /\ \A c \in Bases : s.next[c] <= new.next[c]
             /\ \A c \in Bases \ {q.base} : new.next[c] = s.next[c]
             /\ new.tabs[q.tab] = one
             /\ \A u \in Tabs \ {q.tab} : new.tabs[u] \in {s.tabs[u], None}
             /\ \/ s.tabs[q.tab] = one
                \/ /\ \A m \in Adopt(q) \cup LiveNumbers(q) : m < new.next[q.base]
                   /\ \/ n \in Adopt(q)
                      \/ /\ Adopt(q) = {} /\ s.next[q.base] <= n
                         /\ \A m \in LiveNumbers(q) : m < n
<1> DEFINE n   == NumberOf(w, q)
           new == Recorded(w, live, q)
           one == [base |-> q.base, number |-> n]
           k   == CounterFor(w, q)
           c0  == Larger(k, Succ(n))
           seed == SeedFromLabels(q.liveLabels, q.base)
<1>1. /\ q.base \in Bases /\ q.tab \in Tabs
      /\ s.next \in [Bases -> Usize] /\ s.tabs \in [Tabs -> Assigned \cup {None}]
      /\ w.tabs \in [Tabs -> Assigned \cup {None}]
  BY DEF Alloc, Session
<1>2. n \in Usize /\ k \in Usize /\ seed \in Usize /\ Succ(n) \in Usize /\ c0 \in Usize
  <2>1. n \in Usize /\ k \in Usize
    BY NumberOfType, CounterForType
  <2>2. seed \in Usize
    BY SeedType DEF Alloc
  <2>3. Succ(n) \in Usize
    BY <2>1, SuccType
  <2> HIDE DEF n, k, seed
  <2> QED BY <2>1, <2>2, <2>3 DEF Larger
<1>3. /\ w.tabs[q.tab] = s.tabs[q.tab]
      /\ \A u \in Tabs : w.tabs[u] \in {s.tabs[u], None}
  BY <1>1 DEF PruneTabs
<1>4. CASE Holds(w, q)
  <2>1. new.next = s.next /\ new.tabs = w.tabs /\ n = s.tabs[q.tab].number
    BY <1>3, <1>4 DEF Recorded, NumberOf, Holds
  <2>2. s.tabs[q.tab] # None /\ s.tabs[q.tab].base = q.base
    BY <1>3, <1>4 DEF Holds
  <2>3. s.tabs[q.tab] \in Assigned
    BY <1>1, <2>2
  <2>4. s.tabs[q.tab] = one
    BY <2>1, <2>2, <2>3 DEF Assigned
  <2>5. n < s.next[q.base]
    BY <1>1, <2>1, <2>2
  <2>6. \A c \in Bases : s.next[c] <= s.next[c]
    BY <1>1 DEF Usize
  <2> HIDE DEF n, new, one
  <2> QED BY <1>1, <1>2, <1>3, <2>1, <2>4, <2>5, <2>6 DEF n, new, one
<1>5. CASE ~ Holds(w, q)
  <2>1. /\ new.next = [s.next EXCEPT ![q.base] = c0]
        /\ new.tabs = [w.tabs EXCEPT ![q.tab] = one]
    BY <1>5 DEF Recorded
  <2>2. new.next[q.base] = c0 /\ c0 < UsizeMax
    BY <1>1, <2>1
  <2>3. k = Larger(s.next[q.base], seed)
    BY DEF CounterFor
  <2> HIDE DEF c0, k, seed, n, new, one
  <2>4. s.next[q.base] <= k /\ seed <= k /\ s.next[q.base] \in Nat
    BY <1>1, <1>2, <2>3 DEF Larger, Usize
  <2>5. k <= c0 /\ Succ(n) <= c0
    BY <1>2 DEF c0, Larger, Usize
  <2>6. \A m \in LiveNumbers(q) : m < seed
    BY SeedIsPast DEF seed
  <2>7. \/ n \in Adopt(q)
        \/ Adopt(q) = {} /\ n = k
    BY <1>5 DEF n, NumberOf, k
  <2>8. n < UsizeMax
    <3>1. CASE n \in Adopt(q)
      BY <3>1
    <3>2. CASE n = k
      BY <1>2, <2>2, <2>5, <3>2, NamesAssumption DEF Usize
    <3> QED BY <2>7, <3>1, <3>2
  <2>9. n < c0
    BY <1>2, <2>5, <2>8, NamesAssumption DEF Succ, Usize
  <2>10. \A m \in Adopt(q) \cup LiveNumbers(q) : m < c0
    <3>1. ASSUME NEW m \in Adopt(q) PROVE m < c0
      BY <2>7, <2>9, <3>1, NumbersOfRequest
    <3>2. ASSUME NEW m \in LiveNumbers(q) PROVE m < c0
      <4>1. m < seed /\ m \in Usize
        BY <2>6, NumbersOfRequest
      <4> QED BY <1>2, <2>4, <2>5, <4>1 DEF Usize
    <3> QED BY <3>1, <3>2
  <2>11. \A c \in Bases : /\ s.next[c] <= new.next[c]
                          /\ c # q.base => new.next[c] = s.next[c]
    BY <1>1, <1>2, <2>1, <2>4, <2>5 DEF Usize
  <2>12. \/ n \in Adopt(q)
         \/ /\ Adopt(q) = {} /\ s.next[q.base] <= n
            /\ \A m \in LiveNumbers(q) : m < n
    <3>1. CASE Adopt(q) = {} /\ n = k
      <4>1. \A m \in LiveNumbers(q) : m \in Usize
        BY NumbersOfRequest
      <4> QED BY <1>2, <2>4, <2>6, <3>1, <4>1 DEF Usize
    <3> QED BY <2>7, <3>1
  <2>13. /\ new.tabs[q.tab] = one
         /\ \A u \in Tabs \ {q.tab} : new.tabs[u] \in {s.tabs[u], None}
    BY <1>1, <1>3, <2>1
  <2> QED BY <1>2, <2>2, <2>9, <2>10, <2>11, <2>12, <2>13 DEF n, new, one
<1> QED BY <1>4, <1>5

-----------------------------------------------------------------------------
(***************************************************************************)
(* A run in number_for, where nothing it asks of the machine fails.        *)
(***************************************************************************)

\* The lock, the state file and tab.list answer, and no human renames a tab
\* pall8t is about to rename.
Reliable ==
  Faults \cap {"stat", "dir", "write", "busy", "list", "race"} = {}

\* A run between its tab.list and the write of its number.
InHand(r) == pc[r] \in {"lock", "read", "decide", "write"}

\* The state file holds this herdr session's entry and no other.
FileIsOurs ==
  /\ disk \in Sessions \cup {None}
  /\ \A k \in Keys \ {Socket} : Parse(disk)[k] = None

\* What a run in number_for has in hand is what it asked with, what is in the
\* file, and what allocate makes of the two.
InOrder(r) ==
  /\ job[r].at = "idle" => pc[r] = "idle"
  /\ job[r].at = "number" => pc[r] # "idle"
  /\ InHand(r) => job[r].at = "number"
  /\ pc[r] \in {"read", "decide", "write", "release"} => holder = r
  /\ pc[r] # "idle" =>
       req[r].key = Socket /\ req[r].tab = TabOf[r] /\ req[r].base \in Bases
  /\ InUpdate(r) => seen[r] = Parse(disk)
  /\ pc[r] = "write" =>
       /\ memo[r] = AllocateState(Parse(disk), server[Socket], req[r])
       /\ number[r] = AllocateNumber(Parse(disk), server[Socket], req[r])
  /\ pc[r] \in {"release", "done"} => number[r] \in Usize

Ordered == FileIsOurs /\ \A r \in Runs : InOrder(r)

LEMMA InitOrdered == Init => Ordered
BY NumberStoreAssumption
DEF Init, StoreInit, Ordered, FileIsOurs, InOrder, InHand, InUpdate, Idle, Parse,
    NoSessions, Keys

\* A file with one entry keeps one: there is nothing to evict.
LEMMA OneEntry ==
  ASSUME NEW sessions \in Sessions, NEW live \in OptServer, NEW q \in Alloc,
         q.key = Socket, \A k \in Keys \ {Socket} : sessions[k] = None
  PROVE  AllocateState(sessions, live, q) =
           [sessions EXCEPT ![Socket] = Recorded(Working(sessions, live, q), live, q)]
<1> DEFINE rec == Recorded(Working(sessions, live, q), live, q)
           mid == [sessions EXCEPT ![Socket] = rec]
<1>1. \A k \in Keys \ {Socket} : mid[k] = None
  BY DEF Sessions
<1>2. {k \in Keys : mid[k] # None} \ {Socket} = {}
  BY <1>1
<1> HIDE DEF mid
<1>3. Evict(mid, Socket) = mid
  BY <1>2 DEF Evict
<1> QED BY <1>3 DEF AllocateState, mid

\* The order of a run is its own, as long as the file, the server and the
\* lock of the others stay.
LEMMA OwnOrder ==
  ASSUME Ordered, NEW r \in Runs, InOrder(r)',
         disk' = disk, server'[Socket] = server[Socket],
         \A p \in Runs \ {r} : /\ job'[p].at = job[p].at /\ pc'[p] = pc[p]
                               /\ req'[p] = req[p] /\ seen'[p] = seen[p]
                               /\ memo'[p] = memo[p] /\ number'[p] = number[p]
                               /\ holder = p => holder' = p
  PROVE  Ordered'
<1>1. FileIsOurs'
  BY DEF Ordered, FileIsOurs, Parse
<1>2. ASSUME NEW p \in Runs \ {r} PROVE InOrder(p)'
  BY DEF Ordered, InOrder, InHand, InUpdate, Parse
<1> QED BY <1>1, <1>2 DEF Ordered

LEMMA NumberOrdered ==
  ASSUME Reliable, NBase, Ordered, NEW r \in Runs, Number(r)
  PROVE  Ordered'
<1> USE DEF NBase, StoreSound
<1>1. /\ StoreTypeOK /\ InOrder(r) /\ UNCHANGED job
      /\ job[r].at = "number" /\ pc[r] # "idle"
      /\ req[r] \in Alloc /\ req[r].key = Socket /\ req[r].base \in Bases
      /\ disk \in Sessions \cup {None} /\ disk # Newer
  BY NumberStoreAssumption DEF Number, paneVars, Ordered, InOrder, FileIsOurs
<1>2. CASE Acquire(r) \/ FailToLock(r) \/ Release(r)
  <2>1. InOrder(r)'
    BY <1>1, <1>2
    DEF Acquire, FailToLock, Release, InOrder, InHand, InUpdate, StoreTypeOK
  <2> QED BY <1>1, <1>2, <2>1, OwnOrder, NumberStoreAssumption
          DEF Acquire, FailToLock, Release, StoreTypeOK, Ordered, InOrder
<1>3. CASE Read(r)
  <2>1. InOrder(r)'
    BY <1>1, <1>3 DEF Read, InOrder, InHand, InUpdate, StoreTypeOK, Parse
  <2> QED BY <1>1, <1>3, <2>1, OwnOrder DEF Read, StoreTypeOK
<1>4. CASE Decide(r)
  <2>1. pc[r] = "decide" /\ seen[r] = Parse(disk)
    BY <1>1, <1>4 DEF Decide, InOrder, InUpdate
  <2>2. StatOutcomes(req[r].key) = {server[Socket]}
    BY <1>1, TabNumbersAssumption, HerdrNamingAssumption DEF StatOutcomes, Reliable
  <2>3. /\ memo' = [memo EXCEPT ![r] = AllocateState(Parse(disk), server[Socket], req[r])]
        /\ number' = [number EXCEPT ![r] = AllocateNumber(Parse(disk), server[Socket], req[r])]
    BY <1>4, <2>1, <2>2 DEF Decide
  <2>4. InOrder(r)'
    BY <1>1, <1>4, <2>1, <2>3 DEF Decide, InOrder, InHand, InUpdate, StoreTypeOK, Parse
  <2> QED BY <1>1, <1>4, <2>3, <2>4, OwnOrder DEF Decide, StoreTypeOK
<1>5. CASE Write(r)
  <2>1. /\ pc[r] = "write" /\ holder = r
        /\ disk' = AllocateState(Parse(disk), server[Socket], req[r])
        /\ number[r] = AllocateNumber(Parse(disk), server[Socket], req[r])
    BY <1>1, <1>5 DEF Write, InOrder
  <2>2. /\ Parse(disk) \in Sessions /\ server[Socket] \in OptServer
        /\ \A k \in Keys \ {Socket} : Parse(disk)[k] = None
    BY <1>1, ParseType, HerdrNamingAssumption DEF StoreTypeOK, Ordered, FileIsOurs
  <2>3. disk' \in Sessions /\ number[r] \in Usize
    BY <1>1, <2>1, <2>2, AllocateType
  <2>4. \A k \in Keys \ {Socket} : disk'[k] = None
    BY <1>1, <2>1, <2>2, OneEntry DEF Sessions
  <2>5. FileIsOurs'
    BY <2>3, <2>4, NumberStoreAssumption DEF FileIsOurs, Parse
  <2>6. ASSUME NEW p \in Runs PROVE InOrder(p)'
    <3>1. CASE p = r
      BY <1>1, <1>5, <2>1, <2>3, <3>1 DEF Write, InOrder, InHand, InUpdate, StoreTypeOK
    <3>2. CASE p # r
      <4>1. pc[p] \notin {"read", "decide", "write", "release"}
        BY <2>1, <3>2 DEF Ordered, InOrder
      <4> QED BY <1>1, <1>5, <3>2, <4>1
              DEF Write, Ordered, InOrder, InHand, InUpdate, StoreTypeOK
    <3> QED BY <3>1, <3>2
  <2> QED BY <2>5, <2>6 DEF Ordered
<1> QED BY <1>2, <1>3, <1>4, <1>5
        DEF Number, Step, GiveUp, DirFails, WriteFails, Reliable

\* A run that begins either turns into the container client at once or asks
\* for a number, with what its tab.list said.
LEMMA BeginAsks ==
  ASSUME NBase, NEW r \in Runs, Begin(r)
  PROVE  \/ UNCHANGED storeVars /\ job'[r].at = "exec"
         \/ /\ job'[r].at = "number"
            /\ \E q \in Alloc :
                 /\ q.key = Socket /\ q.tab = TabOf[r] /\ Ask(r, q)
                 /\ "list" \notin Faults =>
                      /\ q.ownLabel = label[TabOf[r]]
                      /\ q.liveLabels = {label[u] : u \in OpenTabs \ {TabOf[r]}}
                      /\ job'[r].ours = (\/ label[TabOf[r]] = AutoLabel
                                         \/ LabelIsPall8tOwn(label[TabOf[r]], q.base))
<1> USE HerdrNamingAssumption DEF NBase
<1>1. PICK base \in Bases, expect \in Expects,
           listed \in {TRUE} \cup (IF "list" \in Faults THEN {FALSE} ELSE {}) :
        LET t      == TabOf[r]
            ours   == listed /\ (label[t] = AutoLabel \/ LabelIsPall8tOwn(label[t], base))
            rest   == {label[u] : u \in OpenTabs \ {t}}
        IN  /\ job' = [job EXCEPT ![r] =
                         [at |-> IF ours \/ expect THEN "number" ELSE "exec",
                          expect |-> expect, ours |-> ours,
                          renamed |-> FALSE, name |-> None]]
            /\ IF ours \/ expect
               THEN Ask(r, [key        |-> Socket,
                            base       |-> base,
                            tab        |-> t,
                            ownLabel   |-> IF listed THEN label[t] ELSE None,
                            liveTabs   |-> IF listed THEN OpenTabs ELSE None,
                            liveLabels |-> IF listed THEN rest ELSE {},
                            now        |-> 0])
               ELSE UNCHANGED storeVars
  BY DEF Begin
<1> DEFINE t    == TabOf[r]
           ours == listed /\ (label[t] = AutoLabel \/ LabelIsPall8tOwn(label[t], base))
           rest == {label[u] : u \in OpenTabs \ {t}}
           q    == [key        |-> Socket,
                    base       |-> base,
                    tab        |-> t,
                    ownLabel   |-> IF listed THEN label[t] ELSE None,
                    liveTabs   |-> IF listed THEN OpenTabs ELSE None,
                    liveLabels |-> IF listed THEN rest ELSE {},
                    now        |-> 0]
<1>2. q \in Alloc
  <2>1. t \in Tabs /\ Socket \in Keys /\ OpenTabs \subseteq Tabs
    BY DEF Keys, OpenTabs
  <2>2. \A u \in OpenTabs : label[u] \in Name
    BY DEF OpenTabs, TypeOK
  <2>3. t \in OpenTabs
    BY DEF Begin
  <2>4. rest \subseteq Name /\ label[t] \in Name
    BY <2>2, <2>3
  <2> QED
    BY <2>1, <2>4 DEF Alloc
<1>3. /\ job'[r].at = IF ours \/ expect THEN "number" ELSE "exec"
      /\ job'[r].ours = ours
  BY <1>1 DEF TypeOK
<1>4. "list" \notin Faults => listed = TRUE
  OBVIOUS
<1>5. CASE ours \/ expect
  <2>1. Ask(r, q) /\ job'[r].at = "number"
    BY <1>1, <1>3, <1>5
  <2>2. q.key = Socket /\ q.tab = t /\ q.base = base
    OBVIOUS
  <2>3. ASSUME "list" \notin Faults
        PROVE  /\ q.ownLabel = label[t] /\ q.liveLabels = rest
               /\ job'[r].ours = (label[t] = AutoLabel \/ LabelIsPall8tOwn(label[t], q.base))
    <3>1. listed = TRUE
      BY <1>4, <2>3
    <3>2. job'[r].ours = (label[t] = AutoLabel \/ LabelIsPall8tOwn(label[t], base))
      BY <1>3, <3>1
    <3> QED BY <2>2, <3>1, <3>2
  <2> HIDE DEF q
  <2> QED BY <1>2, <2>1, <2>2, <2>3
<1>6. CASE ~ (ours \/ expect)
  BY <1>1, <1>3, <1>6
<1> QED BY <1>5, <1>6

LEMMA StepOrdered ==
  ASSUME Reliable, NBase, Ordered, [Next]_vars
  PROVE  Ordered'
<1> USE HerdrNamingAssumption
<1>1. ASSUME NEW r \in Runs, Begin(r) PROVE Ordered'
  <2>1. /\ UNCHANGED <<disk, server, holder>> /\ job[r].at = "idle" /\ pc[r] = "idle"
        /\ \A p \in Runs \ {r} : job'[p] = job[p] /\ pc'[p] = pc[p] /\ req'[p] = req[p]
        /\ UNCHANGED <<seen, memo, number>>
    BY <1>1
    DEF Begin, Ask, storeVars, runVars, Ordered, InOrder, NBase, TypeOK, StoreTypeOK
  <2>2. CASE UNCHANGED storeVars /\ job'[r].at = "exec"
    <3>1. InOrder(r)'
      BY <2>1, <2>2 DEF storeVars, runVars, InOrder, InHand, InUpdate
    <3> QED BY <2>1, <3>1, OwnOrder
  <2>3. CASE job'[r].at = "number" /\ \E q \in Alloc :
               q.key = Socket /\ q.tab = TabOf[r] /\ Ask(r, q)
    <3>1. InOrder(r)'
      BY <2>3 DEF Ask, InOrder, InHand, InUpdate, Alloc, NBase, StoreSound, StoreTypeOK
    <3> QED BY <2>1, <3>1, OwnOrder
  <2> QED BY <1>1, <2>2, <2>3, BeginAsks
<1>2. ASSUME NEW r \in Runs, Choose(r) \/ RenameTab(r) \/ Spawn(r)
      PROVE  Ordered'
  <2>1. /\ UNCHANGED storeVars /\ job'[r].at \notin {"idle", "number"}
        /\ \A p \in Runs \ {r} : job'[p] = job[p]
        /\ job[r].at = "number" => pc[r] = "done"
    <3>1. CASE Choose(r)
      <4>1. PICK name :
              job' = [job EXCEPT ![r].at = IF job[r].ours THEN "rename" ELSE "spawn",
                                 ![r].name = name]
        BY <3>1 DEF Choose
      <4> QED BY <3>1, <4>1 DEF Choose, NBase, TypeOK
    <3>2. CASE RenameTab(r)
      BY <3>2 DEF RenameTab, NBase, TypeOK
    <3>3. CASE Spawn(r)
      BY <3>3 DEF Spawn, NBase, TypeOK
    <3> QED BY <1>2, <3>1, <3>2, <3>3
  <2>2. InOrder(r)'
    BY <2>1 DEF storeVars, runVars, Ordered, InOrder, InHand, InUpdate, Parse
  <2> QED BY <2>1, <2>2, OwnOrder DEF storeVars, runVars
<1>3. ASSUME NEW r \in Runs, End(r) PROVE Ordered'
  <2>1. /\ job'[r].at = "idle" /\ \A p \in Runs \ {r} : job'[p] = job[p]
        /\ (UNCHANGED storeVars /\ pc[r] = "idle") \/ Exit(r)
    BY <1>3 DEF End, Idle, NBase, TypeOK
  <2>2. InOrder(r)'
    BY <2>1 DEF storeVars, runVars, Exit, InOrder, InHand, InUpdate, NBase, StoreSound,
       StoreTypeOK
  <2> QED BY <2>1, <2>2, OwnOrder
          DEF storeVars, runVars, Exit, NBase, StoreSound, StoreTypeOK
<1>4. CASE Restart
  <2>1. UNCHANGED <<disk, holder, runVars, job>> /\ \A r \in Runs : pc[r] = "idle"
    BY <1>4 DEF Restart, Rebind, paneVars, Ordered, InOrder
  <2> QED BY <2>1 DEF runVars, Ordered, FileIsOurs, InOrder, InHand, InUpdate, Parse
<1>5. CASE UNCHANGED <<storeVars, job>>
  BY <1>5 DEF storeVars, runVars, Ordered, FileIsOurs, InOrder, InHand, InUpdate, Parse
<1> QED
  BY <1>1, <1>2, <1>3, <1>4, <1>5, NumberOrdered
  DEF Next, NamerStep, NamerDetects, NamerStopsWaiting, NamerTries, NamerRelabels,
      NamerLeaves, AgentAppears, OpenTab, CloseTab, HumanRenames, HumanNamesAgent,
      Wedges, paneVars, vars

-----------------------------------------------------------------------------
(***************************************************************************)
(* Numbers given out once.                                                 *)
(***************************************************************************)

\* The recorded session, and the one a run would continue now: none, where
\* the recorded one is provably another server run's.
Old == IF Parse(disk)[Socket] = None THEN EmptySession ELSE Parse(disk)[Socket]
Cur == Continued(Parse(disk), server[Socket], Socket)

\* The numbers a tab shows for a base.
Shown ==
  [t \in Tabs |-> [b \in Bases |->
     IF t \in OpenTabs THEN NumberInLabel(label[t], b) ELSE {}]]

\* The numbers given out: those the names were made of, and those of the runs
\* that have published theirs and not made a name of it yet.
Published(r) == [tab |-> TabOf[r], base |-> req[r].base, number |-> number[r]]
Given == handed \cup {Published(r) : r \in {p \in Runs : pc[p] \in {"release", "done"}}}

\* A run that has yet to publish the number it asks for under a base, the
\* numbers its tab showed when it looked, and those the other tabs did.
Asking(r, b)   == InHand(r) /\ req[r].base = b
OwnNumbers(r)  == Adopt(req[r])
SeenNumbers(r) == LiveNumbers(req[r])

\* The counter of a base has passed a number.
Passed(b, n) == n < Cur.next[b]

\* Two places where a number is known agree on the tab it belongs to.
GivenOnce == \A g, h \in Given : g.base = h.base /\ g.number = h.number => g.tab = h.tab
GivenIsPassed == \A g \in Given : Passed(g.base, g.number)
ShownByHolder == \A g \in Given, t \in Tabs : g.number \in Shown[t][g.base] => t = g.tab
ShownOnce ==
  \A t, u \in Tabs, b \in Bases : \A n \in Shown[t][b] : n \in Shown[u][b] => t = u
ShownBelowMax == \A t \in Tabs, b \in Bases : \A n \in Shown[t][b] : n < UsizeMax

\* A counter that was ever set has passed every number on screen.
CounterPassedShown ==
  \A t \in Tabs, b \in Bases :
    Old.next[b] # 0 => \A n \in Shown[t][b] : n < Old.next[b]

\* A number recorded for a tab is behind its counter and nobody else's.
RecordedIsTheTabs ==
  \A t \in Tabs, b \in Bases, n \in Usize :
    Old.tabs[t] = [base |-> b, number |-> n] =>
      /\ n < Old.next[b]
      /\ \A g \in Given : g.base = b /\ g.number = n => g.tab = t
      /\ \A u \in Tabs : n \in Shown[u][b] => u = t
      /\ \A u \in Tabs : Old.tabs[u] = [base |-> b, number |-> n] => u = t

\* What a run read off the labels still accounts for every number on screen:
\* the ones it did not see are behind the counter.
AskedAccountsForShown ==
  \A r \in Runs, b \in Bases : Asking(r, b) =>
    /\ \A n \in OwnNumbers(r) \cup SeenNumbers(r) : n < UsizeMax
    /\ \A u \in Tabs : \A n \in Shown[u][b] :
         \/ Passed(b, n)
         \/ u = TabOf[r] /\ n \in OwnNumbers(r)
         \/ u # TabOf[r] /\ n \in SeenNumbers(r)

\* The number a run's own tab showed is still that tab's.
OwnIsStillOwn ==
  \A r \in Runs, b \in Bases : Asking(r, b) => \A n \in OwnNumbers(r) :
    /\ \A g \in Given : g.base = b /\ g.number = n => g.tab = TabOf[r]
    /\ \A u \in Tabs : n \in Shown[u][b] => u = TabOf[r]
    /\ \A u \in Tabs : Cur.tabs[u] = [base |-> b, number |-> n] => u = TabOf[r]
    /\ n \in Shown[TabOf[r]][b] \/ Passed(b, n)

\* Runs of different tabs that ask under one base at the same time do not
\* count on the same number, and neither can count past the other's.
AskedApart ==
  \A r, p \in Runs, b \in Bases :
    (Asking(r, b) /\ Asking(p, b) /\ TabOf[r] # TabOf[p]) =>
      \A n \in OwnNumbers(r) :
        n \notin OwnNumbers(p) /\ (Passed(b, n) \/ n \in SeenNumbers(p))

Numbers ==
  /\ GivenOnce /\ GivenIsPassed
  /\ ShownByHolder /\ ShownOnce /\ ShownBelowMax
  /\ CounterPassedShown /\ RecordedIsTheTabs
  /\ AskedAccountsForShown /\ OwnIsStillOwn /\ AskedApart

\* A run or namer that may rename its tab, and does not wait for a number
\* under a base any more, takes no number off the screen that the counter of
\* the base has not passed.
MayRename(r) ==
  \/ job[r].at = "number" /\ job[r].ours
  \/ job[r].at = "rename"
  \/ job[r].at = "spawn" /\ job[r].renamed
  \/ namer[r].at # "none" /\ namer[r].tab

RenamedIsPassed ==
  \A r \in Runs, b \in Bases :
    (MayRename(r) /\ ~ Asking(r, b)) => \A n \in Shown[TabOf[r]][b] : Passed(b, n)

\* A name carries a number its tab was given.
MadeFrom(x, t) ==
  \E g \in handed : g.tab = t /\ Extends(x, g.base) /\ NumberAfter(x, g.base) = g.number

NamesCarryNumbers ==
  \A r \in Runs, x \in Name :
    /\ (job[r].at \in {"rename", "spawn"} /\ job[r].name = x) => MadeFrom(x, TabOf[r])
    /\ (namer[r].at # "none" /\ namer[r].name = x) => MadeFrom(x, TabOf[r])

\* The labels of herdr and of humans carry no number for any base.
PlainLabels ==
  \A l \in HumanLabels \cup {AutoLabel}, b \in Bases : NumberInLabel(l, b) = {}

\* The counters in the file stay below usize::MAX.
CountersBelowMax ==
  \A k \in Keys, b \in Bases :
    (disk \in Sessions /\ disk[k] # None) => disk[k].next[b] < UsizeMax

Counted == NBase /\ Ordered /\ Numbers /\ RenamedIsPassed /\ NamesCarryNumbers
-----------------------------------------------------------------------------
\* The types of all these.
LEMMA CountedTypes ==
  ASSUME NBase, Ordered
  PROVE  /\ Parse(disk) \in Sessions /\ server[Socket] \in OptServer
         /\ Old \in Session /\ Cur \in Session /\ Cur \in {Old, EmptySession}
         /\ Given \in SUBSET [tab : Tabs, base : Bases, number : Usize]
         /\ \A t \in Tabs, b \in Bases : Shown[t][b] \in SUBSET Usize
         /\ \A r \in Runs : pc[r] # "idle" =>
              req[r] \in Alloc /\ OwnNumbers(r) \in SUBSET Usize /\ SeenNumbers(r) \in SUBSET Usize
<1> USE DEF NBase
<1>1. Parse(disk) \in Sessions /\ server[Socket] \in OptServer
  BY ParseType, NumberStoreAssumption, HerdrNamingAssumption
  DEF Ordered, FileIsOurs, StoreSound, StoreTypeOK
<1>2. EmptySession \in Session
  BY NamesAssumption DEF EmptySession, Session, OptServer, Usize
<1>3. Old \in Session /\ Cur \in Session /\ Cur \in {Old, EmptySession}
  BY <1>1, <1>2, HerdrNamingAssumption DEF Old, Cur, Continued, Sessions, Keys
<1>4. ASSUME NEW r \in Runs, pc[r] \in {"release", "done"}
      PROVE  Published(r) \in [tab : Tabs, base : Bases, number : Usize]
  <2>1. req[r].base \in Bases /\ number[r] \in Usize
    BY <1>4 DEF Ordered, InOrder
  <2> QED BY <2>1, HerdrNamingAssumption DEF Published
<1>5. Given \in SUBSET [tab : Tabs, base : Bases, number : Usize]
  BY <1>4 DEF Given, TypeOK
<1>6. ASSUME NEW t \in Tabs, NEW b \in Bases PROVE Shown[t][b] \in SUBSET Usize
  <2>1. t \in OpenTabs => label[t] \in Name
    BY DEF OpenTabs, TypeOK
  <2> QED BY <2>1, NumberInLabelType DEF Shown
<1>7. ASSUME NEW r \in Runs, pc[r] # "idle"
      PROVE  /\ req[r] \in Alloc
             /\ OwnNumbers(r) \in SUBSET Usize /\ SeenNumbers(r) \in SUBSET Usize
  BY <1>7, NumbersOfRequest DEF StoreSound, OwnNumbers, SeenNumbers
<1> QED BY <1>1, <1>3, <1>5, <1>6, <1>7

\* Nothing given, nothing on screen, before herdr has opened a tab.
LEMMA InitCounted == Init => Counted
<1> SUFFICES ASSUME Init PROVE Counted
  OBVIOUS
<1>1. NBase /\ Ordered
  BY InitNBase, InitOrdered
<1>2. /\ Given = {} /\ \A t \in Tabs, b \in Bases : Shown[t][b] = {}
      /\ \A r \in Runs : ~ InHand(r) /\ ~ MayRename(r)
    BY DEF Init, StoreInit, Given, Shown, OpenTabs, InHand, MayRename, Idle, NoNamer
<1>3. Old.next = [b \in Bases |-> 0] /\ Old.tabs = [t \in Tabs |-> None]
  BY HerdrNamingAssumption DEF Init, StoreInit, Old, Parse, NoSessions, Keys, EmptySession
<1>4. CounterPassedShown /\ RecordedIsTheTabs
  <2>1. \A b \in Bases : Old.next[b] = 0
    BY <1>3
  <2>2. \A t \in Tabs, b \in Bases, n \in Usize : Old.tabs[t] # [base |-> b, number |-> n]
    <3>1. \A b \in Bases, n \in Usize : [base |-> b, number |-> n] \in Assigned
      BY DEF Assigned
    <3> QED BY <1>3, <3>1, TabNumbersAssumption
  <2> QED BY <2>1, <2>2 DEF CounterPassedShown, RecordedIsTheTabs
<1>5. Numbers /\ RenamedIsPassed
  BY <1>2, <1>4
  DEF Numbers, GivenOnce, GivenIsPassed, ShownByHolder, ShownOnce, ShownBelowMax,
      AskedAccountsForShown, OwnIsStillOwn, AskedApart, Asking, RenamedIsPassed
<1>6. NamesCarryNumbers
  BY DEF Init, NamesCarryNumbers, Idle, NoNamer
<1> QED BY <1>1, <1>5, <1>6 DEF Counted

\* A step that gives no number, moves no counter and shows nothing new.
LEMMA QuietNumbers ==
  ASSUME Numbers, Old' = Old, Cur' = Cur, Given' \subseteq Given,
         Shown' = Shown,
         \A r \in Runs : InHand(r)' => InHand(r) /\ req'[r] = req[r]
  PROVE  Numbers'
<1>1. \A r \in Runs, b \in Bases : Asking(r, b)' =>
        Asking(r, b) /\ OwnNumbers(r)' = OwnNumbers(r) /\ SeenNumbers(r)' = SeenNumbers(r)
  BY DEF Asking, OwnNumbers, SeenNumbers
<1>2. \A b, n : Passed(b, n)' = Passed(b, n)
  BY DEF Passed
<1>3. (GivenOnce /\ GivenIsPassed /\ ShownByHolder /\ ShownOnce /\ ShownBelowMax)'
  <2>1. GivenOnce' /\ GivenIsPassed'
    BY <1>2 DEF Numbers, GivenOnce, GivenIsPassed
  <2>2. ShownOnce' /\ ShownBelowMax'
    BY DEF Numbers, ShownOnce, ShownBelowMax
  <2>3. ShownByHolder'
    BY DEF Numbers, ShownByHolder
  <2> QED BY <2>1, <2>2, <2>3
<1>4. CounterPassedShown' /\ RecordedIsTheTabs'
  BY DEF Numbers, CounterPassedShown, RecordedIsTheTabs
<1>5. AskedAccountsForShown'
  BY <1>1, <1>2 DEF Numbers, AskedAccountsForShown
<1>6. OwnIsStillOwn'
  BY <1>1, <1>2 DEF Numbers, OwnIsStillOwn
<1>7. AskedApart'
  BY <1>1, <1>2 DEF Numbers, AskedApart
<1> QED BY <1>3, <1>4, <1>5, <1>6, <1>7 DEF Numbers

\* A tab whose label changes to one that shows only numbers the tab was
\* given, and takes off the screen no number a run of its still counts on.
LEMMA RelabelledNumbers ==
  ASSUME NBase, Ordered, Numbers, NEW t \in Tabs,
         Old' = Old, Cur' = Cur, Given' = Given,
         \A r \in Runs : /\ InHand(r)' <=> InHand(r)
                         /\ req'[r] = req[r],
         \A u \in Tabs \ {t}, b \in Bases : Shown'[u][b] = Shown[u][b],
         \A b \in Bases : \A n \in Shown'[t][b] :
           \E g \in Given : g.tab = t /\ g.base = b /\ g.number = n,
         \A r \in Runs, b \in Bases : (TabOf[r] = t /\ Asking(r, b)) =>
           \A n \in Shown[t][b] : Passed(b, n)
  PROVE  Numbers'
<1> USE HerdrNamingAssumption
<1>1. \A r \in Runs, b \in Bases :
        /\ Asking(r, b)' <=> Asking(r, b)
        /\ OwnNumbers(r)' = OwnNumbers(r) /\ SeenNumbers(r)' = SeenNumbers(r)
  BY DEF Asking, OwnNumbers, SeenNumbers
<1>2. \A b, n : Passed(b, n)' = Passed(b, n)
  BY DEF Passed
<1>3. /\ Old \in Session /\ Cur \in Session /\ Cur \in {Old, EmptySession}
      /\ Given \in SUBSET [tab : Tabs, base : Bases, number : Usize]
      /\ \A u \in Tabs, b \in Bases : Shown[u][b] \in SUBSET Usize
  BY CountedTypes
<1>4. \A b \in Bases : \A n \in Shown'[t][b] : Passed(b, n) /\ n \in Usize
  BY <1>3 DEF Numbers, GivenIsPassed
<1>a. \A b \in Bases : \A n \in Shown'[t][b] :
        \A h \in Given : h.base = b /\ h.number = n => h.tab = t
  BY DEF Numbers, GivenOnce
<1>b. \A b \in Bases : \A n \in Shown'[t][b] :
        \A u \in Tabs : n \in Shown[u][b] => u = t
  BY DEF Numbers, ShownByHolder
<1>c. \A b \in Bases : \A n \in Shown'[t][b] :
        \A u \in Tabs : Old.tabs[u] = [base |-> b, number |-> n] => u = t
  <2> SUFFICES ASSUME NEW b \in Bases, NEW n \in Shown'[t][b], NEW u \in Tabs,
                      Old.tabs[u] = [base |-> b, number |-> n]
               PROVE  u = t
    OBVIOUS
  <2>1. PICK g \in Given : g.tab = t /\ g.base = b /\ g.number = n
    OBVIOUS
  <2>2. n \in Usize
    BY <1>4
  <2> QED BY <2>1, <2>2 DEF Numbers, RecordedIsTheTabs
<1>5. GivenOnce' /\ GivenIsPassed'
  BY <1>2 DEF Numbers, GivenOnce, GivenIsPassed
<1>6. ShownByHolder'
  <2> SUFFICES ASSUME NEW g \in Given, NEW u \in Tabs, g.number \in Shown'[u][g.base]
               PROVE  u = g.tab
    BY DEF ShownByHolder
  <2>1. g.base \in Bases
    BY <1>3
  <2>2. CASE u = t
    BY <1>a, <2>1, <2>2
  <2>3. CASE u # t
    <3>1. g.number \in Shown[u][g.base]
      BY <2>1, <2>3
    <3> QED BY <3>1 DEF Numbers, ShownByHolder
  <2> QED BY <2>2, <2>3
<1>7. ShownOnce'
  <2> SUFFICES ASSUME NEW u \in Tabs, NEW v \in Tabs, NEW b \in Bases,
                      NEW n \in Shown'[u][b], n \in Shown'[v][b]
               PROVE  u = v
    BY DEF ShownOnce
  <2>1. CASE u = t
    BY <1>b, <2>1
  <2>2. CASE v = t
    BY <1>b, <2>2
  <2>3. CASE u # t /\ v # t
    BY <2>3 DEF Numbers, ShownOnce
  <2> QED BY <2>1, <2>2, <2>3
<1>8. ShownBelowMax'
  <2> SUFFICES ASSUME NEW u \in Tabs, NEW b \in Bases, NEW n \in Shown'[u][b]
               PROVE  n < UsizeMax
    BY DEF ShownBelowMax
  <2>1. CASE u = t
    <3>1. n \in Usize /\ n < Cur.next[b] /\ Cur.next[b] \in Usize
      BY <1>3, <1>4, <2>1 DEF Passed, Session
    <3> QED BY <3>1, NamesAssumption DEF Usize
  <2>2. CASE u # t
    BY <2>2 DEF Numbers, ShownBelowMax
  <2> QED BY <2>1, <2>2
<1>9. CounterPassedShown'
  <2> SUFFICES ASSUME NEW u \in Tabs, NEW b \in Bases, Old.next[b] # 0, NEW n \in Shown'[u][b]
               PROVE  n < Old.next[b]
    BY DEF CounterPassedShown
  <2>1. CASE u = t
    <3>1. n \in Usize /\ n < Cur.next[b]
      BY <1>4, <2>1 DEF Passed
    <3>2. Cur # EmptySession
      BY <3>1 DEF EmptySession, Usize
    <3> QED BY <1>3, <3>1, <3>2
  <2>2. CASE u # t
    BY <2>2 DEF Numbers, CounterPassedShown
  <2> QED BY <2>1, <2>2
<1>10. RecordedIsTheTabs'
  <2> SUFFICES ASSUME NEW v \in Tabs, NEW b \in Bases, NEW n \in Usize,
                      Old'.tabs[v] = [base |-> b, number |-> n]
               PROVE  /\ n < Old'.next[b]
                      /\ \A g \in Given' : g.base = b /\ g.number = n => g.tab = v
                      /\ \A u \in Tabs : n \in Shown'[u][b] => u = v
                      /\ \A u \in Tabs : Old'.tabs[u] = [base |-> b, number |-> n] => u = v
    BY DEF RecordedIsTheTabs
  <2>1. /\ n < Old.next[b]
        /\ \A g \in Given : g.base = b /\ g.number = n => g.tab = v
        /\ \A u \in Tabs : n \in Shown[u][b] => u = v
        /\ \A u \in Tabs : Old.tabs[u] = [base |-> b, number |-> n] => u = v
    BY DEF Numbers, RecordedIsTheTabs
  <2>2. ASSUME NEW u \in Tabs, n \in Shown'[u][b] PROVE u = v
    <3>1. CASE u = t
      BY <1>c, <2>2, <3>1
    <3>2. CASE u # t
      BY <2>1, <2>2, <3>2
    <3> QED BY <3>1, <3>2
  <2> QED BY <2>1, <2>2
<1>11. AskedAccountsForShown'
  <2> SUFFICES ASSUME NEW r \in Runs, NEW b \in Bases, Asking(r, b)
               PROVE  /\ \A n \in OwnNumbers(r) \cup SeenNumbers(r) : n < UsizeMax
                      /\ \A u \in Tabs : \A n \in Shown'[u][b] :
                           \/ Passed(b, n)
                           \/ u = TabOf[r] /\ n \in OwnNumbers(r)
                           \/ u # TabOf[r] /\ n \in SeenNumbers(r)
    BY <1>1, <1>2 DEF AskedAccountsForShown
  <2>1. /\ \A n \in OwnNumbers(r) \cup SeenNumbers(r) : n < UsizeMax
        /\ \A u \in Tabs : \A n \in Shown[u][b] :
             \/ Passed(b, n)
             \/ u = TabOf[r] /\ n \in OwnNumbers(r)
             \/ u # TabOf[r] /\ n \in SeenNumbers(r)
    BY DEF Numbers, AskedAccountsForShown
  <2>2. \A n \in Shown'[t][b] : Passed(b, n)
    BY <1>4
  <2> QED BY <2>1, <2>2
<1>12. OwnIsStillOwn'
  <2> SUFFICES ASSUME NEW r \in Runs, NEW b \in Bases, Asking(r, b), NEW n \in OwnNumbers(r)
               PROVE  /\ \A g \in Given : g.base = b /\ g.number = n => g.tab = TabOf[r]
                      /\ \A u \in Tabs : n \in Shown'[u][b] => u = TabOf[r]
                      /\ \A u \in Tabs : Cur.tabs[u] = [base |-> b, number |-> n] => u = TabOf[r]
                      /\ n \in Shown'[TabOf[r]][b] \/ Passed(b, n)
    BY <1>1, <1>2 DEF OwnIsStillOwn
  <2>1. /\ \A g \in Given : g.base = b /\ g.number = n => g.tab = TabOf[r]
        /\ \A u \in Tabs : n \in Shown[u][b] => u = TabOf[r]
        /\ \A u \in Tabs : Cur.tabs[u] = [base |-> b, number |-> n] => u = TabOf[r]
        /\ n \in Shown[TabOf[r]][b] \/ Passed(b, n)
    BY DEF Numbers, OwnIsStillOwn
  <2>2. \A u \in Tabs : n \in Shown'[u][b] => u = TabOf[r]
    BY <2>1
  <2>3. n \in Shown'[TabOf[r]][b] \/ Passed(b, n)
    BY <2>1
  <2> QED BY <2>1, <2>2, <2>3
<1>13. AskedApart'
  BY <1>1, <1>2 DEF Numbers, AskedApart
<1> QED BY <1>5, <1>6, <1>7, <1>8, <1>9, <1>10, <1>11, <1>12, <1>13 DEF Numbers

\* A run that asks for a number has just read what every tab shows.
LEMMA BeginNumbers ==
  ASSUME Reliable, Counted, NEW r \in Runs, Begin(r)
  PROVE  Numbers'
<1> USE HerdrNamingAssumption DEF Counted
<1>0. /\ UNCHANGED <<disk, server, label, handed, number>> /\ pc[r] = "idle"
      /\ TabOf[r] \in OpenTabs
      /\ \A p \in Runs \ {r} : pc'[p] = pc[p] /\ req'[p] = req[p]
  BY DEF Begin, Ask, storeVars, runVars, herdrVars, Ordered, InOrder, NBase, TypeOK, StoreTypeOK
<1>1. /\ Old' = Old /\ Cur' = Cur /\ Shown' = Shown
      /\ \A b, n : Passed(b, n)' = Passed(b, n)
  BY <1>0 DEF Old, Cur, Shown, OpenTabs, Passed, Parse
<1>2. CASE UNCHANGED storeVars
  <2>1. Given' = Given /\ \A p \in Runs : InHand(p)' => InHand(p) /\ req'[p] = req[p]
    BY <1>0, <1>2 DEF Given, Published, InHand, storeVars, runVars
  <2> QED BY <1>1, <2>1, QuietNumbers
<1>3. ASSUME NEW q \in Alloc, q.key = Socket, q.tab = TabOf[r], Ask(r, q),
             q.ownLabel = label[TabOf[r]],
             q.liveLabels = {label[u] : u \in OpenTabs \ {TabOf[r]}}
      PROVE  Numbers'
  <2> DEFINE t == TabOf[r]
             b == q.base
  <2>1. /\ t \in Tabs /\ b \in Bases /\ req'[r] = q /\ pc'[r] = "lock"
    BY <1>3 DEF Ask, Alloc, NBase, TypeOK, StoreTypeOK
  <2>2. Given' = Given
    <3>1. \A p \in Runs : pc'[p] \in {"release", "done"} <=> pc[p] \in {"release", "done"}
      BY <1>0, <2>1
    <3>2. \A p \in Runs : pc[p] \in {"release", "done"} => Published(p)' = Published(p)
      BY <1>0 DEF Published
    <3> QED BY <1>0, <3>1, <3>2 DEF Given
  <2>3. /\ OwnNumbers(r)' = Shown[t][b]
        /\ SeenNumbers(r)' = UNION {Shown[u][b] : u \in Tabs \ {t}}
    <3>1. label[t] # None
      BY <1>0 DEF OpenTabs
    <3>2. OwnNumbers(r)' = Shown[t][b]
      BY <1>0, <1>3, <2>1, <3>1 DEF OwnNumbers, Adopt, Shown
    <3>3. SeenNumbers(r)' = UNION {NumberInLabel(l, b) : l \in q.liveLabels}
      BY <2>1 DEF SeenNumbers, LiveNumbers
    <3>4. \A n : n \in SeenNumbers(r)' <=> \E u \in OpenTabs \ {t} : n \in NumberInLabel(label[u], b)
      BY <1>3, <3>3
    <3>5. \A n : n \in SeenNumbers(r)' <=> \E u \in Tabs \ {t} : n \in Shown[u][b]
      BY <2>1, <3>4 DEF Shown, OpenTabs
    <3> QED BY <3>2, <3>5
  <2>4. /\ \A c : Asking(r, c)' <=> c = b
        /\ \A p \in Runs \ {r} : /\ \A c : Asking(p, c)' <=> Asking(p, c)
                                 /\ OwnNumbers(p)' = OwnNumbers(p)
                                 /\ SeenNumbers(p)' = SeenNumbers(p)
    BY <1>0, <2>1 DEF Asking, InHand, OwnNumbers, SeenNumbers
  <2>5. /\ Old \in Session /\ Cur \in {Old, EmptySession}
        /\ Given \in SUBSET [tab : Tabs, base : Bases, number : Usize]
        /\ \A u \in Tabs, c \in Bases : Shown[u][c] \in SUBSET Usize
    BY CountedTypes
  <2> HIDE DEF t, b
  <2>6. GivenOnce' /\ GivenIsPassed' /\ ShownByHolder' /\ ShownOnce' /\ ShownBelowMax'
    <3>1. GivenOnce' /\ GivenIsPassed'
      BY <1>1, <2>2 DEF Numbers, GivenOnce, GivenIsPassed
    <3>2. ShownByHolder'
      BY <1>1, <2>2 DEF Numbers, ShownByHolder
    <3>3. ShownOnce' /\ ShownBelowMax'
      BY <1>1 DEF Numbers, ShownOnce, ShownBelowMax
    <3> QED BY <3>1, <3>2, <3>3
  <2>7. CounterPassedShown' /\ RecordedIsTheTabs'
    BY <1>1, <2>2 DEF Numbers, CounterPassedShown, RecordedIsTheTabs
  <2>8. AskedAccountsForShown'
    <3> SUFFICES ASSUME NEW p \in Runs, NEW c \in Bases, Asking(p, c)'
                 PROVE  /\ \A n \in OwnNumbers(p)' \cup SeenNumbers(p)' : n < UsizeMax
                        /\ \A u \in Tabs : \A n \in Shown[u][c] :
                             \/ Passed(c, n)
                             \/ u = TabOf[p] /\ n \in OwnNumbers(p)'
                             \/ u # TabOf[p] /\ n \in SeenNumbers(p)'
      BY <1>1 DEF AskedAccountsForShown
    <3>1. CASE p = r
      BY <2>1, <2>3, <2>4, <3>1 DEF t, Numbers, ShownBelowMax
    <3>2. CASE p # r
      BY <2>4, <3>2 DEF Numbers, AskedAccountsForShown
    <3> QED BY <3>1, <3>2
  <2>9. OwnIsStillOwn'
    <3> SUFFICES ASSUME NEW p \in Runs, NEW c \in Bases, Asking(p, c)', NEW n \in OwnNumbers(p)'
                 PROVE  /\ \A g \in Given : g.base = c /\ g.number = n => g.tab = TabOf[p]
                        /\ \A u \in Tabs : n \in Shown[u][c] => u = TabOf[p]
                        /\ \A u \in Tabs : Cur.tabs[u] = [base |-> c, number |-> n] => u = TabOf[p]
                        /\ n \in Shown[TabOf[p]][c] \/ Passed(c, n)
      BY <1>1, <2>2 DEF OwnIsStillOwn
    <3>1. CASE p = r
      <4>1. c = b /\ n \in Shown[t][b] /\ n \in Usize
        BY <2>1, <2>3, <2>4, <2>5, <3>1
      <4>2. \A g \in Given : g.base = b /\ g.number = n => g.tab = t
        BY <2>1, <4>1 DEF Numbers, ShownByHolder
      <4>3. \A u \in Tabs : n \in Shown[u][b] => u = t
        BY <2>1, <4>1 DEF Numbers, ShownOnce
      <4>4. \A u \in Tabs : Old.tabs[u] = [base |-> b, number |-> n] => u = t
        BY <2>1, <4>1 DEF Numbers, RecordedIsTheTabs
      <4>5. \A u \in Tabs : Cur.tabs[u] = [base |-> b, number |-> n] => u = t
        <5>1. \A u \in Tabs : EmptySession.tabs[u] # [base |-> b, number |-> n]
          <6>1. [base |-> b, number |-> n] \in Assigned
            BY <2>1, <4>1 DEF Assigned
          <6> QED BY <6>1, TabNumbersAssumption DEF EmptySession
        <5> QED BY <2>5, <4>4, <5>1
      <4> QED BY <3>1, <4>1, <4>2, <4>3, <4>5 DEF t
    <3>2. CASE p # r
      BY <2>4, <3>2 DEF Numbers, OwnIsStillOwn
    <3> QED BY <3>1, <3>2
  <2>10. AskedApart'
    <3> SUFFICES ASSUME NEW p \in Runs, NEW s \in Runs, NEW c \in Bases,
                        Asking(p, c)', Asking(s, c)', TabOf[p] # TabOf[s],
                        NEW n \in OwnNumbers(p)'
                 PROVE  n \notin OwnNumbers(s)' /\ (Passed(c, n) \/ n \in SeenNumbers(s)')
      BY <1>1 DEF AskedApart
    <3>1. CASE p = r /\ s # r
      <4>1. Asking(s, b) /\ n \in Shown[t][b] /\ t # TabOf[s] /\ c = b
        BY <2>3, <2>4, <3>1 DEF t
      <4>2. n \notin OwnNumbers(s)
        BY <2>1, <4>1 DEF Numbers, OwnIsStillOwn
      <4>3. Passed(b, n) \/ n \in SeenNumbers(s)
        BY <2>1, <4>1 DEF Numbers, AskedAccountsForShown
      <4> QED BY <2>4, <3>1, <4>1, <4>2, <4>3
    <3>2. CASE p # r /\ s = r
      <4>1. Asking(p, b) /\ n \in OwnNumbers(p) /\ t # TabOf[p] /\ c = b
        BY <2>4, <3>2 DEF t
      <4>2. n \notin Shown[t][b]
        BY <2>1, <4>1 DEF Numbers, OwnIsStillOwn
      <4>3. Passed(b, n) \/ n \in Shown[TabOf[p]][b]
        BY <2>1, <4>1 DEF Numbers, OwnIsStillOwn
      <4> QED BY <2>3, <3>2, <4>1, <4>2, <4>3
    <3>3. CASE p # r /\ s # r
      BY <2>4, <3>3 DEF Numbers, AskedApart
    <3> QED BY <3>1, <3>2, <3>3
  <2> QED BY <2>6, <2>7, <2>8, <2>9, <2>10 DEF Numbers
<1> QED BY <1>2, <1>3, BeginAsks DEF Reliable

\* What the write of a number does, seen from the numbers: the session is
\* what allocate makes of the one the run continues.
LEMMA WriteAllocates ==
  ASSUME Counted, CountersBelowMax', NEW r \in Runs, Number(r), Write(r)
  PROVE  LET t == TabOf[r]
             b == req[r].base
             n == number[r]
         IN  /\ Asking(r, b) /\ b \in Bases /\ n \in Usize
             /\ Old' \in Session /\ Cur' = Old'
             /\ n < Old'.next[b]
             /\ \A c \in Bases : Cur.next[c] <= Old'.next[c]
             /\ \A c \in Bases \ {b} : Old'.next[c] = Cur.next[c]
             /\ Old'.tabs[t] = [base |-> b, number |-> n]
             /\ \A u \in Tabs \ {t} : Old'.tabs[u] \in {Cur.tabs[u], None}
             /\ \/ Cur.tabs[t] = [base |-> b, number |-> n]
                \/ /\ \A m \in OwnNumbers(r) \cup SeenNumbers(r) : m < Old'.next[b]
                   /\ \/ n \in OwnNumbers(r)
                      \/ /\ OwnNumbers(r) = {} /\ Cur.next[b] <= n
                         /\ \A m \in SeenNumbers(r) : m < n
             /\ Given' = Given \cup {[tab |-> t, base |-> b, number |-> n]}
             /\ Shown' = Shown
             /\ ~ InHand(r)'
             /\ \A p \in Runs \ {r} : pc'[p] = pc[p] /\ req'[p] = req[p]
<1> USE DEF Counted
<1> DEFINE q    == req[r]
           live == server[Socket]
           ss   == Parse(disk)
           w    == Working(ss, live, q)
           rec  == Recorded(w, live, q)
<1>1. /\ pc[r] = "write" /\ q \in Alloc /\ q.key = Socket /\ q.tab = TabOf[r] /\ q.base \in Bases
      /\ memo[r] = AllocateState(ss, live, q) /\ number[r] = AllocateNumber(ss, live, q)
      /\ disk' = memo[r]
  BY DEF Write, Ordered, InOrder, NBase, StoreSound
<1>2. /\ ss \in Sessions /\ live \in OptServer
      /\ Old \in Session /\ Cur \in Session /\ Cur \in {Old, EmptySession}
      /\ \A k \in Keys \ {Socket} : ss[k] = None
  BY CountedTypes DEF Ordered, FileIsOurs
<1>3. w \in Session /\ rec \in Session
  BY <1>1, <1>2, WorkingType, RecordedType
<1>4. w.next = Cur.next /\ w.tabs = PruneTabs(Cur.tabs, q.liveTabs, q.tab)
  BY <1>1, <1>2 DEF Working, Cur, Session
<1>5. disk' = [ss EXCEPT ![Socket] = rec]
  BY <1>1, <1>2, OneEntry
<1>6. /\ disk' \in Sessions /\ disk'[Socket] = rec /\ Socket \in Keys
      /\ rec # None /\ disk' # None
  BY <1>2, <1>3, <1>5, TabNumbersAssumption, NumberStoreAssumption, HerdrNamingAssumption
  DEF Sessions, Keys
<1>7. Old' = rec
  BY <1>6 DEF Old, Parse
<1>8. Cur' = rec
  <2>1. server' = server
    BY DEF Write
  <2>2. KeepsCounting(rec.server, live)
    BY DEF KeepsCounting, SameRun, Recorded
  <2> HIDE DEF rec, live
  <2>3. server'[Socket] = live
    BY <2>1 DEF live
  <2> QED BY <1>6, <2>2, <2>3 DEF Cur, Continued, Parse
<1>9. rec.next[q.base] < UsizeMax
  BY <1>1, <1>6 DEF CountersBelowMax
<1>10. \A t \in Tabs : Cur.tabs[t] # None => Cur.tabs[t].number < Cur.next[Cur.tabs[t].base]
  <2> SUFFICES ASSUME NEW t \in Tabs, Cur.tabs[t] # None
               PROVE  Cur.tabs[t].number < Cur.next[Cur.tabs[t].base]
    OBVIOUS
  <2>1. Cur = Old
    BY <1>2 DEF EmptySession
  <2>2. Old.tabs[t] \in Assigned
    BY <1>2, <2>1 DEF Session
  <2>3. PICK b \in Bases, n \in Usize : Old.tabs[t] = [base |-> b, number |-> n]
    BY <2>2 DEF Assigned
  <2>4. n < Old.next[b]
    BY <2>3 DEF Numbers, RecordedIsTheTabs
  <2> QED BY <2>1, <2>3, <2>4
<1>11. Asking(r, q.base)
  BY <1>1 DEF Asking, InHand
<1>12. \A m \in Adopt(q) \cup LiveNumbers(q) : m < UsizeMax
  BY <1>1, <1>11 DEF Numbers, AskedAccountsForShown, OwnNumbers, SeenNumbers
<1>13. number[r] = NumberOf(w, q)
  BY <1>1 DEF AllocateNumber
<1> HIDE DEF w, ss, live, rec, q
<1>14. LET n   == NumberOf(w, q)
           one == [base |-> q.base, number |-> n]
       IN  /\ n \in Usize /\ n < rec.next[q.base]
           /\ \A c \in Bases : Cur.next[c] <= rec.next[c]
           /\ \A c \in Bases \ {q.base} : rec.next[c] = Cur.next[c]
           /\ rec.tabs[q.tab] = one
           /\ \A u \in Tabs \ {q.tab} : rec.tabs[u] \in {Cur.tabs[u], None}
           /\ \/ Cur.tabs[q.tab] = one
              \/ /\ \A m \in Adopt(q) \cup LiveNumbers(q) : m < rec.next[q.base]
                 /\ \/ n \in Adopt(q)
                    \/ /\ Adopt(q) = {} /\ Cur.next[q.base] <= n
                       /\ \A m \in LiveNumbers(q) : m < n
  <2>1. rec = Recorded(w, live, q)
    BY DEF rec
  <2> QED BY <1>1, <1>2, <1>3, <1>4, <1>9, <1>10, <1>12, <2>1, AllocateFacts
<1>15. /\ pc'[r] = "release" /\ UNCHANGED <<label, handed, req, number>>
       /\ \A p \in Runs \ {r} : pc'[p] = pc[p]
  BY DEF Write, Number, herdrVars, NBase, StoreSound, StoreTypeOK
<1>16. Given' = Given \cup {[tab |-> TabOf[r], base |-> q.base, number |-> number[r]]}
  <2> DEFINE out == {p \in Runs : pc[p] \in {"release", "done"}}
  <2>1. {p \in Runs : pc'[p] \in {"release", "done"}} = out \cup {r}
    BY <1>15
  <2>2. \A p \in Runs : Published(p)' = Published(p)
    BY <1>15 DEF Published
  <2>3. Published(r) = [tab |-> TabOf[r], base |-> q.base, number |-> number[r]]
    BY DEF Published, q
  <2>4. Given' = handed \cup {Published(p) : p \in out \cup {r}}
    BY <1>15, <2>1, <2>2 DEF Given
  <2> HIDE DEF out
  <2>5. {Published(p) : p \in out \cup {r}} = {Published(p) : p \in out} \cup {Published(r)}
    OBVIOUS
  <2>6. Given = handed \cup {Published(p) : p \in out}
    BY DEF Given, out
  <2> QED BY <2>3, <2>4, <2>5, <2>6
<1>17. Shown' = Shown /\ ~ InHand(r)'
  BY <1>15 DEF Shown, OpenTabs, InHand
<1> QED BY <1>1, <1>3, <1>7, <1>8, <1>11, <1>13, <1>14, <1>15, <1>16, <1>17
        DEF q, OwnNumbers, SeenNumbers

\* The write of a number: it is nobody else's, and the counter of its base
\* passes it and everything on screen.
LEMMA WriteNumbers ==
  ASSUME Counted, CountersBelowMax', NEW r \in Runs, Number(r), Write(r)
  PROVE  /\ Numbers'
         /\ \A c \in Bases, m \in Usize : Passed(c, m) => Passed(c, m)'
         /\ \A c \in Bases, u \in Tabs : c = req[r].base =>
              \A m \in Shown[u][c] : Passed(c, m)'
<1> USE HerdrNamingAssumption DEF Counted
<1> DEFINE t == TabOf[r]
           b == req[r].base
           n == number[r]
           one == [base |-> b, number |-> n]
           given == [tab |-> t, base |-> b, number |-> n]
<1>1. /\ Asking(r, b) /\ b \in Bases /\ n \in Usize
      /\ Old' \in Session /\ Cur' = Old'
      /\ n < Old'.next[b]
      /\ \A c \in Bases : Cur.next[c] <= Old'.next[c]
      /\ \A c \in Bases \ {b} : Old'.next[c] = Cur.next[c]
      /\ Old'.tabs[t] = one
      /\ \A u \in Tabs \ {t} : Old'.tabs[u] \in {Cur.tabs[u], None}
  BY WriteAllocates
<1>2. \/ Cur.tabs[t] = one
      \/ /\ \A m \in OwnNumbers(r) \cup SeenNumbers(r) : m < Old'.next[b]
         /\ \/ n \in OwnNumbers(r)
            \/ /\ OwnNumbers(r) = {} /\ Cur.next[b] <= n
               /\ \A m \in SeenNumbers(r) : m < n
  BY WriteAllocates
<1>3. /\ Given' = Given \cup {given} /\ Shown' = Shown /\ ~ InHand(r)'
      /\ \A p \in Runs \ {r} : pc'[p] = pc[p] /\ req'[p] = req[p]
  BY WriteAllocates
<1>4. /\ Old \in Session /\ Cur \in Session /\ Cur \in {Old, EmptySession}
      /\ Given \in SUBSET [tab : Tabs, base : Bases, number : Usize]
      /\ \A u \in Tabs, c \in Bases : Shown[u][c] \in SUBSET Usize
  BY CountedTypes
<1>5. /\ Cur.next \in [Bases -> Usize] /\ Old'.next \in [Bases -> Usize]
      /\ t \in Tabs /\ one # None /\ one \in Assigned
  BY <1>1, <1>4, TabNumbersAssumption DEF Session, Assigned
<1>6. \A p \in Runs, c \in Bases :
        Asking(p, c)' => /\ p # r /\ Asking(p, c)
                         /\ OwnNumbers(p)' = OwnNumbers(p) /\ SeenNumbers(p)' = SeenNumbers(p)
  BY <1>3 DEF Asking, InHand, OwnNumbers, SeenNumbers
<1>7. \A p \in Runs, c \in Bases : Asking(p, c) =>
        /\ req[p] \in Alloc
        /\ OwnNumbers(p) \in SUBSET Usize /\ SeenNumbers(p) \in SUBSET Usize
  BY CountedTypes DEF Asking, InHand
<1>8. (\E u \in Tabs : Cur.tabs[u] # None) => Cur = Old
  BY <1>4 DEF EmptySession
<1>9. \A c \in Bases, m \in Usize : Passed(c, m) => Passed(c, m)'
  BY <1>1, <1>4, <1>5 DEF Passed, Usize
<1> HIDE DEF t, b, n
<1>10. \A g \in Given : g.base = b /\ g.number = n => g.tab = t
  <2>1. CASE Cur.tabs[t] = one
    BY <1>1, <1>5, <1>8, <2>1 DEF Numbers, RecordedIsTheTabs
  <2>2. CASE n \in OwnNumbers(r)
    BY <1>1, <2>2 DEF Numbers, OwnIsStillOwn, t
  <2>3. CASE Cur.next[b] <= n
    BY <1>1, <1>5, <2>3 DEF Numbers, GivenIsPassed, Passed, Usize
  <2> QED BY <1>2, <2>1, <2>2, <2>3
<1>11. \A u \in Tabs : n \in Shown[u][b] => u = t
  <2>1. CASE Cur.tabs[t] = one
    BY <1>1, <1>5, <1>8, <2>1 DEF Numbers, RecordedIsTheTabs
  <2>2. CASE n \in OwnNumbers(r)
    BY <1>1, <2>2 DEF Numbers, OwnIsStillOwn, t
  <2>3. CASE /\ OwnNumbers(r) = {} /\ Cur.next[b] <= n
             /\ \A m \in SeenNumbers(r) : m < n
    <3> SUFFICES ASSUME NEW u \in Tabs, n \in Shown[u][b] PROVE FALSE
      OBVIOUS
    <3>1. Passed(b, n) \/ n \in SeenNumbers(r)
      BY <1>1, <2>3 DEF Numbers, AskedAccountsForShown
    <3> QED BY <1>1, <1>5, <2>3, <3>1 DEF Passed, Usize
  <2> QED BY <1>2, <2>1, <2>2, <2>3
<1>12. \A u \in Tabs \ {t} : Cur.tabs[u] # one
  <2> SUFFICES ASSUME NEW u \in Tabs \ {t}, Cur.tabs[u] = one PROVE FALSE
    OBVIOUS
  <2>0. Cur = Old
    BY <1>5, <1>8
  <2>1. CASE Cur.tabs[t] = one
    BY <1>1, <1>5, <2>0, <2>1 DEF Numbers, RecordedIsTheTabs
  <2>2. CASE n \in OwnNumbers(r)
    BY <1>1, <2>2 DEF Numbers, OwnIsStillOwn, t
  <2>3. CASE Cur.next[b] <= n
    <3>1. n < Old.next[b]
      BY <1>1, <2>0 DEF Numbers, RecordedIsTheTabs
    <3> QED BY <1>1, <1>5, <2>0, <2>3, <3>1 DEF Usize
  <2> QED BY <1>2, <2>1, <2>2, <2>3
<1>13. \A p \in Runs : (Asking(p, b) /\ n \in OwnNumbers(p)) => TabOf[p] = t
  <2> SUFFICES ASSUME NEW p \in Runs, Asking(p, b), n \in OwnNumbers(p), TabOf[p] # t
               PROVE  FALSE
    OBVIOUS
  <2>1. CASE Cur.tabs[t] = one
    BY <1>1, <1>5, <2>1 DEF Numbers, OwnIsStillOwn
  <2>2. n \notin OwnNumbers(r) /\ (Passed(b, n) \/ n \in SeenNumbers(r))
    BY <1>1 DEF Numbers, AskedApart, t
  <2>3. CASE Cur.next[b] <= n /\ \A m \in SeenNumbers(r) : m < n
    BY <1>1, <1>5, <2>2, <2>3 DEF Passed, Usize
  <2> QED BY <1>2, <2>1, <2>2, <2>3
<1>14. \A u \in Tabs : \A m \in Shown[u][b] : m < Old'.next[b]
  <2> SUFFICES ASSUME NEW u \in Tabs, NEW m \in Shown[u][b] PROVE m < Old'.next[b]
    OBVIOUS
  <2>0. m \in Usize
    BY <1>1, <1>4
  <2>1. CASE Cur.tabs[t] = one
    <3>1. Cur = Old
      BY <1>5, <1>8, <2>1
    <3>2. n < Old.next[b]
      BY <1>1, <1>5, <2>1, <3>1 DEF Numbers, RecordedIsTheTabs
    <3>3. Old.next[b] # 0
      BY <1>1, <3>2 DEF Usize
    <3>4. m < Old.next[b]
      BY <1>1, <3>3 DEF Numbers, CounterPassedShown
    <3> QED BY <1>1, <1>5, <2>0, <3>1, <3>4 DEF Usize
  <2>2. CASE \A k \in OwnNumbers(r) \cup SeenNumbers(r) : k < Old'.next[b]
    <3>1. Passed(b, m) \/ m \in OwnNumbers(r) \/ m \in SeenNumbers(r)
      BY <1>1 DEF Numbers, AskedAccountsForShown
    <3>2. Passed(b, m) => m < Old'.next[b]
      BY <1>1, <1>9, <2>0 DEF Passed
    <3> QED BY <2>2, <3>1, <3>2
  <2> QED BY <1>2, <2>1, <2>2
<1>15. /\ given.tab = t /\ given.base = b /\ given.number = n
       /\ \A g \in Given' : g \in Given \/ g = given
  BY <1>3
<1> HIDE DEF given, one
<1>16. GivenOnce'
  BY <1>10, <1>15 DEF Numbers, GivenOnce
<1>17. GivenIsPassed'
  <2> SUFFICES ASSUME NEW g \in Given' PROVE Passed(g.base, g.number)'
    BY DEF GivenIsPassed
  <2>1. CASE g = given
    BY <1>1, <1>15, <2>1 DEF Passed
  <2>2. CASE g \in Given
    <3>1. Passed(g.base, g.number) /\ g.base \in Bases /\ g.number \in Usize
      BY <1>4, <2>2 DEF Numbers, GivenIsPassed
    <3> QED BY <1>9, <3>1
  <2> QED BY <1>15, <2>1, <2>2
<1>18. ShownByHolder'
  <2> SUFFICES ASSUME NEW g \in Given', NEW u \in Tabs, g.number \in Shown[u][g.base]
               PROVE  u = g.tab
    BY <1>3 DEF ShownByHolder
  <2> QED BY <1>11, <1>15 DEF Numbers, ShownByHolder
<1>19. ShownOnce' /\ ShownBelowMax'
  BY <1>3 DEF Numbers, ShownOnce, ShownBelowMax
<1>20. CounterPassedShown'
  <2> SUFFICES ASSUME NEW u \in Tabs, NEW c \in Bases, Old'.next[c] # 0, NEW m \in Shown[u][c]
               PROVE  m < Old'.next[c]
    BY <1>3 DEF CounterPassedShown
  <2>1. CASE c = b
    BY <1>14, <2>1
  <2>2. CASE c # b
    <3>1. Cur.next[c] # 0 /\ Old'.next[c] = Cur.next[c]
      BY <1>1, <2>2
    <3>2. Cur = Old
      BY <1>4, <3>1 DEF EmptySession
    <3> QED BY <3>1, <3>2 DEF Numbers, CounterPassedShown
  <2> QED BY <2>1, <2>2
<1>21. RecordedIsTheTabs'
  <2> SUFFICES ASSUME NEW v \in Tabs, NEW c \in Bases, NEW m \in Usize,
                      Old'.tabs[v] = [base |-> c, number |-> m]
               PROVE  /\ m < Old'.next[c]
                      /\ \A g \in Given' : g.base = c /\ g.number = m => g.tab = v
                      /\ \A u \in Tabs : m \in Shown'[u][c] => u = v
                      /\ \A u \in Tabs : Old'.tabs[u] = [base |-> c, number |-> m] => u = v
    BY DEF RecordedIsTheTabs
  <2>0. [base |-> c, number |-> m] # None
    <3>1. [base |-> c, number |-> m] \in Assigned
      BY DEF Assigned
    <3> QED BY <3>1, TabNumbersAssumption
  <2>1. CASE v = t
    <3>1. c = b /\ m = n /\ [base |-> c, number |-> m] = one
      BY <1>1, <2>1 DEF one
    <3>2. \A u \in Tabs : Old'.tabs[u] = one => u = t
      BY <1>1, <1>5, <1>12
    <3> QED BY <1>1, <1>3, <1>10, <1>11, <1>15, <2>1, <3>1, <3>2
  <2>2. CASE v # t
    <3>1. Cur.tabs[v] = [base |-> c, number |-> m] /\ Cur = Old
      BY <1>1, <1>8, <2>0, <2>2
    <3>2. /\ m < Cur.next[c]
          /\ \A g \in Given : g.base = c /\ g.number = m => g.tab = v
          /\ \A u \in Tabs : m \in Shown[u][c] => u = v
          /\ \A u \in Tabs : Cur.tabs[u] = [base |-> c, number |-> m] => u = v
      BY <3>1 DEF Numbers, RecordedIsTheTabs
    <3>3. ~ (c = b /\ m = n)
      BY <1>12, <2>2, <3>1 DEF one
    <3>4. m < Old'.next[c]
      BY <1>1, <1>5, <3>2 DEF Usize
    <3>5. \A g \in Given' : g.base = c /\ g.number = m => g.tab = v
      BY <1>15, <3>2, <3>3
    <3>6. one # [base |-> c, number |-> m]
      BY <3>3 DEF one
    <3>7. \A u \in Tabs : Old'.tabs[u] = [base |-> c, number |-> m] => u = v
      BY <1>1, <2>0, <3>2, <3>6
    <3> QED BY <1>3, <3>2, <3>4, <3>5, <3>7
  <2> QED BY <2>1, <2>2
<1>22. AskedAccountsForShown'
  <2> SUFFICES ASSUME NEW p \in Runs, NEW c \in Bases, Asking(p, c)'
               PROVE  /\ \A m \in OwnNumbers(p)' \cup SeenNumbers(p)' : m < UsizeMax
                      /\ \A u \in Tabs : \A m \in Shown'[u][c] :
                           \/ Passed(c, m)'
                           \/ u = TabOf[p] /\ m \in OwnNumbers(p)'
                           \/ u # TabOf[p] /\ m \in SeenNumbers(p)'
    BY DEF AskedAccountsForShown
  <2>1. /\ \A m \in OwnNumbers(p) \cup SeenNumbers(p) : m < UsizeMax
        /\ \A u \in Tabs : \A m \in Shown[u][c] :
             \/ Passed(c, m)
             \/ u = TabOf[p] /\ m \in OwnNumbers(p)
             \/ u # TabOf[p] /\ m \in SeenNumbers(p)
    BY <1>6 DEF Numbers, AskedAccountsForShown
  <2>2. \A u \in Tabs : \A m \in Shown[u][c] : m \in Usize
    BY <1>4
  <2> QED BY <1>3, <1>6, <1>9, <2>1, <2>2
<1>23. OwnIsStillOwn'
  <2> SUFFICES ASSUME NEW p \in Runs, NEW c \in Bases, Asking(p, c)', NEW m \in OwnNumbers(p)'
               PROVE  /\ \A g \in Given' : g.base = c /\ g.number = m => g.tab = TabOf[p]
                      /\ \A u \in Tabs : m \in Shown'[u][c] => u = TabOf[p]
                      /\ \A u \in Tabs : Cur'.tabs[u] = [base |-> c, number |-> m] => u = TabOf[p]
                      /\ m \in Shown'[TabOf[p]][c] \/ Passed(c, m)'
    BY DEF OwnIsStillOwn
  <2>1. Asking(p, c) /\ m \in OwnNumbers(p) /\ m \in Usize
    BY <1>6, <1>7
  <2>2. /\ \A g \in Given : g.base = c /\ g.number = m => g.tab = TabOf[p]
        /\ \A u \in Tabs : m \in Shown[u][c] => u = TabOf[p]
        /\ \A u \in Tabs : Cur.tabs[u] = [base |-> c, number |-> m] => u = TabOf[p]
        /\ m \in Shown[TabOf[p]][c] \/ Passed(c, m)
    BY <2>1 DEF Numbers, OwnIsStillOwn
  <2>3. c = b /\ m = n => TabOf[p] = t
    BY <1>13, <2>1
  <2>4. \A g \in Given' : g.base = c /\ g.number = m => g.tab = TabOf[p]
    BY <1>15, <2>2, <2>3
  <2>5. \A u \in Tabs : Cur'.tabs[u] = [base |-> c, number |-> m] => u = TabOf[p]
    <3> SUFFICES ASSUME NEW u \in Tabs, Cur'.tabs[u] = [base |-> c, number |-> m]
                 PROVE  u = TabOf[p]
      OBVIOUS
    <3>1. [base |-> c, number |-> m] \in Assigned
      BY <2>1 DEF Assigned
    <3>2. CASE u = t
      <4>1. c = b /\ m = n
        BY <1>1, <3>2 DEF one
      <4> QED BY <2>3, <3>2, <4>1
    <3>3. CASE u # t
      BY <1>1, <2>2, <3>1, <3>3, TabNumbersAssumption
    <3> QED BY <3>2, <3>3
  <2>6. m \in Shown'[TabOf[p]][c] \/ Passed(c, m)'
    BY <1>3, <1>9, <2>1, <2>2
  <2> QED BY <1>3, <2>2, <2>4, <2>5, <2>6
<1>24. AskedApart'
  <2> SUFFICES ASSUME NEW p \in Runs, NEW s \in Runs, NEW c \in Bases,
                      Asking(p, c)', Asking(s, c)', TabOf[p] # TabOf[s],
                      NEW m \in OwnNumbers(p)'
               PROVE  m \notin OwnNumbers(s)' /\ (Passed(c, m)' \/ m \in SeenNumbers(s)')
    BY DEF AskedApart
  <2>1. Asking(p, c) /\ Asking(s, c) /\ m \in OwnNumbers(p) /\ m \in Usize
    BY <1>6, <1>7
  <2>2. m \notin OwnNumbers(s) /\ (Passed(c, m) \/ m \in SeenNumbers(s))
    BY <2>1 DEF Numbers, AskedApart
  <2> QED BY <1>6, <1>9, <2>1, <2>2
<1>25. \A c \in Bases, u \in Tabs : c = b => \A m \in Shown[u][c] : Passed(c, m)'
  <2> SUFFICES ASSUME NEW c \in Bases, NEW u \in Tabs, c = b, NEW m \in Shown[u][c]
               PROVE  m < Cur'.next[c]
    BY DEF Passed
  <2> QED BY <1>1, <1>14
<1> QED BY <1>9, <1>16, <1>17, <1>18, <1>19, <1>20, <1>21, <1>22, <1>23, <1>24, <1>25
        DEF Numbers, b

\* A restart of the herdr server gives every number back; the file and the
\* labels outlive it.
LEMMA RestartNumbers ==
  ASSUME Counted, Restart
  PROVE  Numbers' /\ \A r \in Runs : ~ MayRename(r)'
<1> USE DEF Counted
<1>1. /\ UNCHANGED <<disk, label, pc, req, number, job, namer>> /\ handed' = {}
      /\ \A r \in Runs : pc[r] = "idle" /\ job[r].at = "idle" /\ namer[r].at = "none"
  BY DEF Restart, Rebind, runVars, paneVars, Ordered, InOrder
<1>2. Old' = Old /\ Shown' = Shown
  BY <1>1 DEF Old, Shown, OpenTabs, Parse
<1>3. Given' = {} /\ \A r \in Runs, b \in Bases : ~ Asking(r, b)'
  BY <1>1 DEF Given, Asking, InHand
<1>4. GivenOnce' /\ GivenIsPassed' /\ ShownByHolder'
  BY <1>3 DEF GivenOnce, GivenIsPassed, ShownByHolder
<1>5. ShownOnce' /\ ShownBelowMax' /\ CounterPassedShown'
  BY <1>2 DEF Numbers, ShownOnce, ShownBelowMax, CounterPassedShown
<1>6. RecordedIsTheTabs'
  BY <1>2, <1>3 DEF Numbers, RecordedIsTheTabs
<1>7. AskedAccountsForShown' /\ OwnIsStillOwn' /\ AskedApart'
  BY <1>3 DEF AskedAccountsForShown, OwnIsStillOwn, AskedApart
<1>8. \A r \in Runs : ~ MayRename(r)'
  BY <1>1 DEF MayRename
<1> QED BY <1>1, <1>4, <1>5, <1>6, <1>7, <1>8 DEF Numbers

\* Every other step gives nothing, moves no counter and lets no run ask or
\* rename that did not before.
LEMMA CalmStep ==
  ASSUME Reliable, Counted, [Next]_vars, ~ Restart,
         \A r \in Runs : ~ Begin(r) /\ ~ (Number(r) /\ Write(r))
  PROVE  /\ Old' = Old /\ Cur' = Cur /\ Given' \subseteq Given
         /\ \A r \in Runs : InHand(r)' => InHand(r) /\ req'[r] = req[r]
         /\ \A r \in Runs : MayRename(r)' => MayRename(r) /\ (InHand(r) => InHand(r)')
<1> USE HerdrNamingAssumption DEF Counted
<1>1. ASSUME NEW r \in Runs, Number(r)
      PROVE  /\ UNCHANGED <<disk, server, handed, req, job, namer>>
             /\ \A p \in Runs : InHand(p)' <=> InHand(p)
             /\ Given' \subseteq Given
  <2>1. Acquire(r) \/ FailToLock(r) \/ Read(r) \/ Decide(r) \/ Release(r)
    BY <1>1 DEF Number, Step, GiveUp, DirFails, WriteFails, Reliable
  <2>2. /\ UNCHANGED <<disk, server, handed, req, job, namer>>
        /\ \A p \in Runs \ {r} : pc'[p] = pc[p] /\ number'[p] = number[p]
    BY <1>1, <2>1
    DEF Number, paneVars, Acquire, FailToLock, Read, Decide, Release, NBase, StoreSound,
        StoreTypeOK
  <2>3. disk # Newer
    BY NumberStoreAssumption DEF Ordered, FileIsOurs
  <2>4. /\ InHand(r)' <=> InHand(r)
        /\ pc'[r] \in {"release", "done"} =>
             pc[r] \in {"release", "done"} /\ number'[r] = number[r]
    BY <2>1, <2>3
    DEF InHand, Acquire, FailToLock, Read, Decide, Release, NBase, StoreSound, StoreTypeOK
  <2>5. Given' \subseteq Given
    BY <2>2, <2>4 DEF Given, Published
  <2> QED BY <2>2, <2>4, <2>5 DEF InHand
<1>2. ASSUME NEW r \in Runs, Choose(r)
      PROVE  /\ UNCHANGED <<storeVars, namer>> /\ Given' \subseteq Given
             /\ \A p \in Runs \ {r} : job'[p] = job[p]
             /\ MayRename(r)' => MayRename(r)
  <2>1. PICK name :
          job' = [job EXCEPT ![r].at = IF job[r].ours THEN "rename" ELSE "spawn",
                             ![r].name = name]
    BY <1>2 DEF Choose
  <2>2. /\ job'[r].at = IF job[r].ours THEN "rename" ELSE "spawn"
        /\ job'[r].renamed = job[r].renamed /\ job[r].at = "number"
        /\ \A p \in Runs \ {r} : job'[p] = job[p]
    BY <1>2, <2>1 DEF Choose, NBase, TypeOK
  <2>3. MayRename(r)' => MayRename(r)
    BY <1>2, <2>2 DEF Choose, MayRename, NBase, Paced, Pace
  <2>4. handed' \subseteq handed \cup {Published(r)} /\ pc[r] = "done"
    BY <1>2 DEF Choose, Published
  <2>5. Given' \subseteq Given
    BY <1>2, <2>4 DEF Choose, storeVars, runVars, Given, Published
  <2> QED BY <1>2, <2>2, <2>3, <2>5 DEF Choose
<1>3. ASSUME NEW r \in Runs, RenameTab(r) \/ Spawn(r)
      PROVE  /\ UNCHANGED <<storeVars, handed>>
             /\ \A p \in Runs \ {r} : job'[p] = job[p] /\ namer'[p] = namer[p]
             /\ MayRename(r)' => MayRename(r)
  <2>1. CASE RenameTab(r)
    BY <2>1 DEF RenameTab, MayRename, NBase, TypeOK
  <2>2. CASE Spawn(r)
    BY <2>2 DEF Spawn, MayRename, NBase, TypeOK
  <2> QED BY <1>3, <2>1, <2>2
<1>4. ASSUME NEW r \in Runs, End(r)
      PROVE  /\ UNCHANGED <<disk, server, handed, namer>> /\ Given' \subseteq Given
             /\ \A p \in Runs : InHand(p)' => InHand(p) /\ req'[p] = req[p]
             /\ \A p \in Runs \ {r} : job'[p] = job[p] /\ (InHand(p) => InHand(p)')
             /\ MayRename(r)' => MayRename(r) /\ ~ InHand(r)
  <2>1. /\ UNCHANGED <<disk, server, handed, namer>> /\ job[r].at # "idle"
        /\ job'[r].at = "idle" /\ \A p \in Runs \ {r} : job'[p] = job[p]
        /\ (UNCHANGED storeVars /\ pc[r] = "idle") \/ Exit(r)
    BY <1>4 DEF End, Idle, storeVars, Exit, NBase, TypeOK
  <2>2. /\ pc'[r] = "idle"
        /\ \A p \in Runs \ {r} : pc'[p] = pc[p] /\ req'[p] = req[p] /\ number'[p] = number[p]
    BY <2>1 DEF Exit, storeVars, runVars, NBase, StoreSound, StoreTypeOK
  <2>3. Given' \subseteq Given
    BY <2>1, <2>2 DEF Given, Published
  <2>4. MayRename(r)' => namer[r].at # "none" /\ namer[r].tab
    BY <2>1 DEF MayRename
  <2>5. namer[r].at # "none" => job[r].at = "exec"
    BY <2>1 DEF NBase, Paced, Pace
  <2>6. MayRename(r)' => MayRename(r) /\ ~ InHand(r)
    BY <2>4, <2>5 DEF MayRename, Ordered, InOrder
  <2> QED BY <2>1, <2>2, <2>3, <2>6 DEF InHand
<1>5. ASSUME NEW r \in Runs, NamerStep(r) \/ AgentAppears(r)
      PROVE  /\ UNCHANGED <<storeVars, handed, job>>
             /\ \A p \in Runs \ {r} : namer'[p] = namer[p]
             /\ MayRename(r)' => MayRename(r)
  <2>1. CASE NamerDetects(r) \/ NamerStopsWaiting(r) \/ NamerTries(r)
    BY <2>1 DEF NamerDetects, NamerStopsWaiting, NamerTries, MayRename, NBase, TypeOK
  <2>2. CASE NamerRelabels(r) \/ NamerLeaves(r) \/ AgentAppears(r)
    <3>1. CASE NamerRelabels(r)
      BY <3>1 DEF NamerRelabels, MayRename, NBase, TypeOK
    <3>2. CASE NamerLeaves(r)
      BY <3>2 DEF NamerLeaves, NoNamer, MayRename, NBase, TypeOK
    <3>3. CASE AgentAppears(r)
      BY <3>3 DEF AgentAppears, paneVars, MayRename
    <3> QED BY <2>2, <3>1, <3>2, <3>3
  <2> QED BY <1>5, <2>1, <2>2 DEF NamerStep
<1>6. CASE UNCHANGED <<storeVars, handed, job, namer>>
  BY <1>6
  DEF storeVars, runVars, Old, Cur, Parse, Given, Published, InHand, MayRename
<1>7. ASSUME NEW r \in Runs,
             Choose(r) \/ RenameTab(r) \/ Spawn(r) \/ NamerStep(r) \/ AgentAppears(r)
      PROVE  /\ UNCHANGED storeVars /\ Given' \subseteq Given
             /\ \A p \in Runs : MayRename(p)' => MayRename(p)
  <2>1. UNCHANGED storeVars /\ Given' \subseteq Given
    BY <1>2, <1>3, <1>5, <1>7 DEF Given, Published, storeVars, runVars
  <2>2. \A p \in Runs \ {r} : job'[p] = job[p] /\ namer'[p] = namer[p]
    BY <1>2, <1>3, <1>5, <1>7
  <2>3. MayRename(r)' => MayRename(r)
    BY <1>2, <1>3, <1>5, <1>7
  <2> QED BY <2>1, <2>2, <2>3 DEF MayRename
<1>8. ASSUME NEW r \in Runs, Number(r) \/ End(r)
      PROVE  /\ UNCHANGED <<disk, server>> /\ Given' \subseteq Given
             /\ \A p \in Runs : InHand(p)' => InHand(p) /\ req'[p] = req[p]
             /\ \A p \in Runs : MayRename(p)' => MayRename(p) /\ (InHand(p) => InHand(p)')
  <2>1. CASE Number(r)
    BY <1>1, <2>1 DEF MayRename
  <2>2. CASE End(r)
    <3>1. \A p \in Runs \ {r} : MayRename(p)' => MayRename(p)
      BY <1>4, <2>2 DEF MayRename
    <3> QED BY <1>4, <2>2, <3>1
  <2> QED BY <1>8, <2>1, <2>2
<1>9. CASE \E r \in Runs : Number(r) \/ End(r)
  BY <1>8, <1>9 DEF Old, Cur, Parse
<1>10. CASE \E r \in Runs :
          Choose(r) \/ RenameTab(r) \/ Spawn(r) \/ NamerStep(r) \/ AgentAppears(r)
  BY <1>7, <1>10 DEF Old, Cur, Parse, storeVars, runVars, InHand
<1>11. \/ \E r \in Runs : Number(r) \/ End(r)
       \/ \E r \in Runs :
            Choose(r) \/ RenameTab(r) \/ Spawn(r) \/ NamerStep(r) \/ AgentAppears(r)
       \/ UNCHANGED <<storeVars, handed, job, namer>>
  BY DEF Next, vars, paneVars, OpenTab, CloseTab, HumanRenames, HumanNamesAgent, Wedges
<1> QED BY <1>6, <1>9, <1>10, <1>11

\* A tab whose new label is herdr's, a human's, or made of a number the tab
\* was given, shows only numbers the tab was given.
LEMMA NewLabel ==
  ASSUME Counted, PlainLabels, BasesApart, NEW t \in Tabs, NEW x,
         label' = [label EXCEPT ![t] = x],
         \/ x = Closed
         \/ x \in HumanLabels \cup {AutoLabel}
         \/ x \in Name /\ MadeFrom(x, t)
  PROVE  /\ \A u \in Tabs \ {t}, b \in Bases : Shown'[u][b] = Shown[u][b]
         /\ \A b \in Bases : \A n \in Shown'[t][b] :
              \E g \in Given : g.tab = t /\ g.base = b /\ g.number = n
<1> USE HerdrNamingAssumption DEF Counted
<1>1. /\ label'[t] = x /\ \A u \in Tabs \ {t} : label'[u] = label[u]
  BY DEF NBase, TypeOK
<1>2. \A u \in Tabs \ {t}, b \in Bases : Shown'[u][b] = Shown[u][b]
  BY <1>1 DEF Shown, OpenTabs
<1>3. ASSUME NEW b \in Bases, NEW n \in Shown'[t][b]
      PROVE  \E g \in Given : g.tab = t /\ g.base = b /\ g.number = n
  <2>1. n \in NumberInLabel(x, b) /\ x # Closed
    BY <1>1, <1>3 DEF Shown, OpenTabs
  <2>2. x \in Name /\ MadeFrom(x, t)
    BY <2>1 DEF PlainLabels
  <2>3. PICK g \in handed : g.tab = t /\ Extends(x, g.base) /\ NumberAfter(x, g.base) = g.number
    BY <2>2 DEF MadeFrom
  <2>4. g.base \in Bases /\ g \in Given
    BY <2>3 DEF NBase, TypeOK, Given
  <2>5. b = g.base /\ n = g.number
    BY <2>1, <2>2, <2>3, <2>4, OneReading
  <2> QED BY <2>3, <2>4, <2>5
<1> QED BY <1>2, <1>3
\* No step changes what more than one tab shows; the new label shows numbers
\* its tab was given, and no run of the tab still counts on the old ones.
LEMMA LabelStep ==
  ASSUME Reliable, Counted, PlainLabels, BasesApart, [Next]_vars
  PROVE  \/ Shown' = Shown
         \/ /\ UNCHANGED <<storeVars, handed>>
            /\ \E t \in Tabs :
                 /\ \A u \in Tabs \ {t}, b \in Bases : Shown'[u][b] = Shown[u][b]
                 /\ \A b \in Bases : \A n \in Shown'[t][b] :
                      \E g \in Given : g.tab = t /\ g.base = b /\ g.number = n
                 /\ \A r \in Runs, b \in Bases : (TabOf[r] = t /\ Asking(r, b)) =>
                      \A n \in Shown[t][b] : Passed(b, n)
<1> USE HerdrNamingAssumption DEF Counted
<1> DEFINE Counts(t) ==
      \A r \in Runs, b \in Bases : (TabOf[r] = t /\ Asking(r, b)) =>
        \A n \in Shown[t][b] : Passed(b, n)
<1>1. CASE UNCHANGED label
  BY <1>1 DEF Shown, OpenTabs
<1>2. ASSUME NEW r \in Runs, MayRename(r), job[r].at # "number" PROVE Counts(TabOf[r])
  <2>1. ASSUME NEW b \in Bases PROVE \A n \in Shown[TabOf[r]][b] : Passed(b, n)
    <3>1. ~ Asking(r, b)
      BY <1>2 DEF Asking, Ordered, InOrder
    <3> QED BY <1>2, <3>1 DEF RenamedIsPassed
  <2> QED BY <2>1
<1>3. ASSUME NEW t \in Tabs, \A r \in Runs : TabOf[r] = t => job[r].at # "number"
      PROVE  Counts(t)
  BY <1>3 DEF Asking, Ordered, InOrder
<1> HIDE DEF Counts
<1>4. ASSUME NEW r \in Runs, RenameTab(r), label' # label
      PROVE  /\ UNCHANGED <<storeVars, handed>> /\ Counts(TabOf[r])
             /\ \E x \in Name : MadeFrom(x, TabOf[r]) /\ label' = [label EXCEPT ![TabOf[r]] = x]
  <2>1. /\ UNCHANGED <<storeVars, handed>> /\ job[r].at = "rename"
        /\ label' = [label EXCEPT ![TabOf[r]] = job[r].name]
    BY <1>4 DEF RenameTab
  <2>2. job[r].name \in Name /\ MadeFrom(job[r].name, TabOf[r])
    BY <2>1 DEF NBase, Paced, Pace, NamesCarryNumbers
  <2> QED BY <1>2, <2>1, <2>2 DEF MayRename
<1>5. ASSUME NEW r \in Runs, NamerRelabels(r), label' # label
      PROVE  /\ UNCHANGED <<storeVars, handed>> /\ Counts(TabOf[r])
             /\ \E x \in Name : MadeFrom(x, TabOf[r]) /\ label' = [label EXCEPT ![TabOf[r]] = x]
  <2> DEFINE x == Candidates(namer[r].name, None)[namer[r].k]
  <2>1. /\ UNCHANGED <<storeVars, handed>> /\ namer[r].at = "relabel"
        /\ label' = [label EXCEPT ![TabOf[r]] = x]
    BY <1>5 DEF NamerRelabels
  <2>2. /\ namer[r].name \in Name /\ namer[r].tab /\ namer[r].k \in 1 .. CollisionTries
        /\ job[r].at # "number"
    BY <2>1 DEF NBase, Paced, Pace
  <2>3. PICK g \in handed : /\ g.tab = TabOf[r] /\ Extends(namer[r].name, g.base)
                            /\ NumberAfter(namer[r].name, g.base) = g.number
    BY <2>1, <2>2 DEF NamesCarryNumbers, MadeFrom
  <2>4. g.base \in Name
    BY TabNumbersAssumption DEF NBase, TypeOK
  <2>5. x \in Name
    BY <2>2, CandidateIsName
  <2>6. Extends(x, g.base) /\ NumberAfter(x, g.base) = g.number
    BY <2>2, <2>3, <2>4, WalkCarries
  <2> HIDE DEF x
  <2>7. MadeFrom(x, TabOf[r])
    BY <2>3, <2>6 DEF MadeFrom
  <2>8. Counts(TabOf[r])
    BY <1>2, <2>1, <2>2 DEF MayRename
  <2> QED BY <2>1, <2>5, <2>7, <2>8
<1>6. ASSUME NEW t \in Tabs, OpenTab(t) \/ CloseTab(t) \/ HumanRenames(t)
      PROVE  /\ UNCHANGED <<storeVars, handed>> /\ Counts(t)
             /\ \E x \in HumanLabels \cup {AutoLabel, Closed} : label' = [label EXCEPT ![t] = x]
  <2>1. CASE OpenTab(t)
    <3>1. \A r \in Runs : TabOf[r] = t => job[r].at # "number"
      BY <2>1 DEF OpenTab, OpenTabs, NBase, Paced, Pace
    <3> QED BY <1>3, <2>1, <3>1 DEF OpenTab
  <2>2. CASE CloseTab(t)
    BY <1>3, <2>2 DEF CloseTab
  <2>3. CASE HumanRenames(t)
    <3>1. \A r \in Runs : TabOf[r] = t => job[r].at # "number"
      BY <2>3 DEF HumanRenames, Reliable
    <3> QED BY <1>3, <2>3, <3>1 DEF HumanRenames
  <2> QED BY <1>6, <2>1, <2>2, <2>3
<1>7. CASE label' # label
  <2>1. PICK t \in Tabs :
          /\ UNCHANGED <<storeVars, handed>> /\ Counts(t)
          /\ \/ \E x \in Name : MadeFrom(x, t) /\ label' = [label EXCEPT ![t] = x]
             \/ \E x \in HumanLabels \cup {AutoLabel, Closed} : label' = [label EXCEPT ![t] = x]
    <3>1. CASE \E t \in Tabs : OpenTab(t) \/ CloseTab(t) \/ HumanRenames(t)
      BY <1>6, <3>1
    <3>2. CASE \E r \in Runs : RenameTab(r) \/ NamerRelabels(r)
      BY <1>4, <1>5, <1>7, <3>2
    <3> QED BY <1>7, <3>1, <3>2
            DEF Next, vars, herdrVars, Begin, Number, Choose, Spawn, End, NamerStep,
                NamerDetects, NamerStopsWaiting, NamerTries, NamerLeaves, AgentAppears,
                HumanNamesAgent, Wedges, Restart
  <2>2. PICK x : /\ label' = [label EXCEPT ![t] = x]
                 /\ \/ x = Closed
                    \/ x \in HumanLabels \cup {AutoLabel}
                    \/ x \in Name /\ MadeFrom(x, t)
    BY <2>1
  <2>3. /\ \A u \in Tabs \ {t}, b \in Bases : Shown'[u][b] = Shown[u][b]
        /\ \A b \in Bases : \A n \in Shown'[t][b] :
             \E g \in Given : g.tab = t /\ g.base = b /\ g.number = n
    BY <2>2, NewLabel
  <2> QED BY <2>1, <2>3 DEF Counts
<1> QED BY <1>1, <1>7

\* Every step keeps the numbers apart.
LEMMA StepNumbers ==
  ASSUME Reliable, Counted, PlainLabels, BasesApart, CountersBelowMax', [Next]_vars
  PROVE  Numbers'
<1>1. CASE Restart
  BY <1>1, RestartNumbers
<1>2. CASE \E r \in Runs : Begin(r)
  BY <1>2, BeginNumbers
<1>3. CASE \E r \in Runs : Number(r) /\ Write(r)
  BY <1>3, WriteNumbers
<1>4. CASE ~ Restart /\ \A r \in Runs : ~ Begin(r) /\ ~ (Number(r) /\ Write(r))
  <2>1. /\ Old' = Old /\ Cur' = Cur /\ Given' \subseteq Given
        /\ \A r \in Runs : InHand(r)' => InHand(r) /\ req'[r] = req[r]
    BY <1>4, CalmStep
  <2>2. CASE Shown' = Shown
    BY <2>1, <2>2, QuietNumbers DEF Counted
  <2>3. CASE Shown' # Shown
    <3>1. UNCHANGED <<storeVars, handed>>
      BY <2>3, LabelStep
    <3>2. /\ Given' = Given
          /\ \A r \in Runs : (InHand(r)' <=> InHand(r)) /\ req'[r] = req[r]
      BY <3>1 DEF storeVars, runVars, Given, Published, InHand
    <3>3. PICK t \in Tabs :
            /\ \A u \in Tabs \ {t}, b \in Bases : Shown'[u][b] = Shown[u][b]
            /\ \A b \in Bases : \A n \in Shown'[t][b] :
                 \E g \in Given : g.tab = t /\ g.base = b /\ g.number = n
            /\ \A r \in Runs, b \in Bases : (TabOf[r] = t /\ Asking(r, b)) =>
                 \A n \in Shown[t][b] : Passed(b, n)
      BY <2>3, LabelStep
    <3> QED BY <2>1, <3>2, <3>3, RelabelledNumbers DEF Counted
  <2> QED BY <2>2, <2>3
<1> QED BY <1>1, <1>2, <1>3, <1>4

\* A run that looks at its tab counts on a number under its own base only:
\* under another base the label it may write over shows none.
LEMMA BeginRenames ==
  ASSUME Reliable, Counted, PlainLabels, BasesApart, NEW r \in Runs, Begin(r),
         NEW b \in Bases, MayRename(r)', ~ Asking(r, b)'
  PROVE  Shown[TabOf[r]][b] = {}
<1> USE HerdrNamingAssumption DEF Counted
<1>1. namer'[r].at = "none" /\ TabOf[r] \in Tabs
  BY DEF Begin
<1>2. job'[r].at = "number" /\ job'[r].ours
  <2>1. job'[r].at \in {"number", "exec"}
    BY BeginAsks
  <2> QED BY <1>1, <2>1 DEF MayRename
<1>3. PICK q \in Alloc : /\ Ask(r, q)
                         /\ \/ label[TabOf[r]] = AutoLabel
                            \/ LabelIsPall8tOwn(label[TabOf[r]], q.base)
  BY <1>2, BeginAsks DEF Reliable
<1>4. q.base \in Bases /\ b # q.base
  <2>1. pc'[r] = "lock" /\ req'[r] = q
    BY <1>3 DEF Ask, NBase, StoreSound, StoreTypeOK
  <2> QED BY <2>1 DEF Asking, InHand, Alloc
<1>5. label[TabOf[r]] \in Name
  BY DEF Begin, OpenTabs, NBase, TypeOK
<1>6. NumberInLabel(label[TabOf[r]], b) = {}
  <2>1. CASE label[TabOf[r]] = AutoLabel
    BY <2>1 DEF PlainLabels
  <2>2. CASE label[TabOf[r]] = q.base
    BY <1>4, <2>2, BaseReadsNothing
  <2>3. CASE NumberInLabel(label[TabOf[r]], q.base) # {}
    <3>1. Extends(label[TabOf[r]], q.base)
      BY <1>4, <1>5, <2>3, LabelReads, TabNumbersAssumption
    <3> QED BY <1>4, <1>5, <3>1, OneReading
  <2> QED BY <1>3, <2>1, <2>2, <2>3 DEF LabelIsPall8tOwn
<1> QED BY <1>1, <1>6 DEF Shown

LEMMA StepRenamed ==
  ASSUME Reliable, Counted, PlainLabels, BasesApart, CountersBelowMax', [Next]_vars
  PROVE  RenamedIsPassed'
<1> USE HerdrNamingAssumption
<1> SUFFICES ASSUME NEW r \in Runs, NEW b \in Bases, MayRename(r)', ~ Asking(r, b)',
                    NEW n \in Shown'[TabOf[r]][b]
             PROVE  Passed(b, n)'
  BY DEF RenamedIsPassed
<1>1. TabOf[r] \in Tabs
  OBVIOUS
<1>2. (MayRename(r) /\ ~ Asking(r, b) /\ n \in Shown[TabOf[r]][b]) => Passed(b, n)
  BY DEF Counted, RenamedIsPassed
<1>3. ~ Restart
  BY RestartNumbers
<1>4. ASSUME NEW p \in Runs, Begin(p) PROVE Passed(b, n)'
  <2>1. Shown' = Shown /\ Cur' = Cur
    BY <1>4 DEF Begin, Ask, storeVars, herdrVars, Shown, OpenTabs, Cur, Parse
  <2>2. CASE p = r
    BY <1>4, <2>1, <2>2, BeginRenames
  <2>3. CASE p # r
    <3>1. /\ job'[r] = job[r] /\ namer'[r] = namer[r]
          /\ pc'[r] = pc[r] /\ req'[r] = req[r]
      BY <1>4, <2>3
      DEF Begin, Ask, storeVars, runVars, Counted, NBase, TypeOK, StoreSound, StoreTypeOK
    <3>2. MayRename(r) /\ ~ Asking(r, b)
      BY <3>1 DEF MayRename, Asking, InHand
    <3> QED BY <1>2, <2>1, <3>2 DEF Passed
  <2> QED BY <2>2, <2>3
<1>5. ASSUME NEW p \in Runs, Number(p), Write(p) PROVE Passed(b, n)'
  <2>1. /\ Shown' = Shown /\ Asking(p, req[p].base)
        /\ \A s \in Runs \ {p} : pc'[s] = pc[s] /\ req'[s] = req[s]
    BY <1>5, WriteAllocates
  <2>2. MayRename(r)
    BY <1>5 DEF Number, paneVars, MayRename
  <2>3. /\ \A m \in Usize : Passed(b, m) => Passed(b, m)'
        /\ b = req[p].base => \A m \in Shown[TabOf[r]][b] : Passed(b, m)'
    BY <1>1, <1>5, WriteNumbers
  <2>4. n \in Usize
    BY <1>1, <2>1, CountedTypes DEF Counted
  <2>5. CASE r = p /\ b = req[p].base
    BY <2>1, <2>3, <2>5
  <2>6. CASE r # p \/ b # req[p].base
    <3>1. ~ Asking(r, b)
      BY <2>1, <2>6 DEF Asking, InHand
    <3> QED BY <1>2, <2>1, <2>2, <2>3, <2>4, <3>1
  <2> QED BY <2>5, <2>6
<1>6. CASE \A p \in Runs : ~ Begin(p) /\ ~ (Number(p) /\ Write(p))
  <2>1. /\ Cur' = Cur
        /\ InHand(r)' => InHand(r) /\ req'[r] = req[r]
        /\ MayRename(r) /\ (InHand(r) => InHand(r)')
    BY <1>3, <1>6, CalmStep
  <2>2. ~ Asking(r, b)
    BY <2>1 DEF Asking
  <2>3. n \in Shown[TabOf[r]][b] \/ \E g \in Given : g.base = b /\ g.number = n
    BY <1>1, LabelStep
  <2>4. Passed(b, n)
    BY <1>2, <2>1, <2>2, <2>3 DEF Counted, Numbers, GivenIsPassed
  <2> QED BY <2>1, <2>4 DEF Passed
<1> QED BY <1>4, <1>5, <1>6

\* The name first_free picks is one of the candidates.
LEMMA FirstFreeIsCandidate ==
  ASSUME NEW base, NEW n, NEW taken
  PROVE  \E k \in 1 .. CollisionTries : FirstFree(base, n, taken) = Candidates(base, n)[k]
<1> DEFINE free == {k \in 1 .. CollisionTries : Candidates(base, n)[k] \notin taken}
<1>1. CASE free = {}
  BY <1>1, NamesAssumption DEF FirstFree
<1>2. CASE free # {}
  <2>1. Min(free) \in free
    BY <1>2, FirstTry
  <2> QED BY <1>2, <2>1 DEF FirstFree
<1> QED BY <1>1, <1>2

\* Names are made of handed numbers, and copied from runs to namers.
LEMMA StepNames ==
  ASSUME Counted, [Next]_vars
  PROVE  NamesCarryNumbers'
<1> USE HerdrNamingAssumption DEF Counted
<1>1. CASE Restart
  BY <1>1 DEF Restart, paneVars, NamesCarryNumbers
<1> DEFINE Copied(r) ==
      /\ job'[r].at \in {"rename", "spawn"} =>
           job[r].at \in {"rename", "spawn"} /\ job'[r].name = job[r].name
      /\ namer'[r].at # "none" =>
           \/ namer[r].at # "none" /\ namer'[r].name = namer[r].name
           \/ job[r].at \in {"rename", "spawn"} /\ namer'[r].name = job[r].name
<1>2. ASSUME NEW r \in Runs, NEW x \in Name, handed \subseteq handed', Copied(r)
      PROVE  /\ (job'[r].at \in {"rename", "spawn"} /\ job'[r].name = x)
                  => MadeFrom(x, TabOf[r])'
             /\ (namer'[r].at # "none" /\ namer'[r].name = x) => MadeFrom(x, TabOf[r])'
  <2>1. MadeFrom(x, TabOf[r]) => MadeFrom(x, TabOf[r])'
    BY <1>2 DEF MadeFrom
  <2> QED BY <1>2, <2>1 DEF NamesCarryNumbers
<1>3. CASE handed \subseteq handed' /\ \A r \in Runs : Copied(r)
  BY <1>2, <1>3 DEF NamesCarryNumbers
<1>4. ASSUME NEW r \in Runs, Choose(r) PROVE NamesCarryNumbers'
  <2>1. PICK taken :
          job' = [job EXCEPT ![r].at = IF job[r].ours THEN "rename" ELSE "spawn",
                             ![r].name = FirstFree(req[r].base, number[r], taken)]
    BY <1>4 DEF Choose
  <2>2. /\ UNCHANGED namer /\ \A p \in Runs \ {r} : job'[p] = job[p]
        /\ job'[r].name = FirstFree(req[r].base, number[r], taken)
    BY <1>4, <2>1 DEF Choose, NBase, TypeOK
  <2>3. req[r].base \in Bases /\ number[r] \in Usize
    BY <1>4 DEF Choose, Ordered, InOrder
  <2>4. handed' = handed \cup {[tab |-> TabOf[r], base |-> req[r].base, number |-> number[r]]}
    BY <1>4, <2>3, TabNumbersAssumption DEF Choose
  <2>5. PICK k \in 1 .. CollisionTries :
          job'[r].name = Candidates(req[r].base, number[r])[k]
    BY <2>2, FirstFreeIsCandidate
  <2>6. /\ Extends(job'[r].name, req[r].base)
        /\ NumberAfter(job'[r].name, req[r].base) = number[r]
    BY <2>3, <2>5, WalkCarries, TabNumbersAssumption
  <2>7. \A p \in Runs \ {r} : Copied(p)
    BY <2>2
  <2>8. \A x \in Name : (job'[r].name = x) => MadeFrom(x, TabOf[r])'
    <3> SUFFICES ASSUME NEW x \in Name, job'[r].name = x
                 PROVE  \E g \in handed' : /\ g.tab = TabOf[r] /\ Extends(x, g.base)
                                           /\ NumberAfter(x, g.base) = g.number
      BY DEF MadeFrom
    <3> DEFINE g == [tab |-> TabOf[r], base |-> req[r].base, number |-> number[r]]
    <3>1. g \in handed'
      BY <2>4
    <3>2. g.tab = TabOf[r] /\ g.base = req[r].base /\ g.number = number[r]
      OBVIOUS
    <3> HIDE DEF g
    <3> QED BY <2>6, <3>1, <3>2
  <2>9. \A x \in Name : (namer'[r].at # "none" /\ namer'[r].name = x) => MadeFrom(x, TabOf[r])'
    BY <2>2, <2>4 DEF NamesCarryNumbers, MadeFrom
  <2>10. \A p \in Runs \ {r}, x \in Name :
           /\ (job'[p].at \in {"rename", "spawn"} /\ job'[p].name = x)
                => MadeFrom(x, TabOf[p])'
           /\ (namer'[p].at # "none" /\ namer'[p].name = x) => MadeFrom(x, TabOf[p])'
    BY <1>2, <2>4, <2>7
  <2> QED BY <2>8, <2>9, <2>10 DEF NamesCarryNumbers
<1>5. ASSUME NEW r \in Runs, Begin(r) \/ RenameTab(r) \/ Spawn(r) \/ End(r)
      PROVE  /\ handed' = handed /\ Copied(r)
             /\ \A p \in Runs \ {r} : job'[p] = job[p] /\ namer'[p] = namer[p]
  <2>1. CASE Begin(r)
    <3>1. job'[r].at \in {"number", "exec"}
      BY <2>1, BeginAsks
    <3>2. \A p \in Runs \ {r} : job'[p] = job[p]
      BY <2>1 DEF Begin, NBase, TypeOK
    <3> QED BY <2>1, <3>1, <3>2 DEF Begin
  <2>2. CASE RenameTab(r)
    BY <2>2 DEF RenameTab, NBase, TypeOK
  <2>3. CASE Spawn(r)
    BY <2>3 DEF Spawn, NBase, TypeOK
  <2>4. CASE End(r)
    BY <2>4 DEF End, Idle, NBase, TypeOK
  <2> QED BY <1>5, <2>1, <2>2, <2>3, <2>4
<1>6. ASSUME NEW r \in Runs, NamerStep(r)
      PROVE  /\ handed' = handed /\ Copied(r)
             /\ \A p \in Runs \ {r} : job'[p] = job[p] /\ namer'[p] = namer[p]
  <2>1. CASE NamerDetects(r) \/ NamerStopsWaiting(r) \/ NamerTries(r)
    BY <2>1 DEF NamerDetects, NamerStopsWaiting, NamerTries, NBase, TypeOK
  <2>2. CASE NamerRelabels(r) \/ NamerLeaves(r)
    BY <2>2 DEF NamerRelabels, NamerLeaves, NoNamer, NBase, TypeOK
  <2> QED BY <1>6, <2>1, <2>2 DEF NamerStep
<1>7. CASE UNCHANGED <<handed, job, namer>>
  BY <1>3, <1>7
<1> QED
  BY <1>1, <1>3, <1>4, <1>5, <1>6, <1>7
  DEF Next, Number, AgentAppears, OpenTab, CloseTab, HumanRenames, HumanNamesAgent,
      Wedges, paneVars, vars

LEMMA StepCounted ==
  ASSUME Reliable, PlainLabels, BasesApart, Counted, CountersBelowMax', [Next]_vars
  PROVE  Counted'
<1>1. NBase' /\ Ordered'
  BY StepNBase, StepOrdered DEF Counted
<1>2. Numbers' /\ RenamedIsPassed' /\ NamesCarryNumbers'
  BY StepNumbers, StepRenamed, StepNames
<1> QED BY <1>1, <1>2 DEF Counted

-----------------------------------------------------------------------------
\* The tabs, agents, runs and namers keep their types (name_pane).
THEOREM NamingTypeCorrect == Spec => []TypeOK
<1>1. NBase => TypeOK
  BY DEF NBase
<1> QED
  BY <1>1, InitNBase, StepNBase, PTL DEF Spec

\* The tab and its agent carry one string once the namer is done, however far
\* its walk had to go past names others have (rename_with_retries,
\* relabel_tab), where no two panes share a tab.
THEOREM TabAndAgentMatch ==
  ASSUME Alone
  PROVE  Spec => []TabAndAgentAgree
<1>1. AllMatched => TabAndAgentAgree
  BY DEF AllMatched, Matched, TabAndAgentAgree
<1>2. NBase /\ AllMatched /\ [Next]_vars => (NBase /\ AllMatched)'
  BY StepNBase, StepMatched
<1> QED
  BY <1>1, <1>2, InitNBase, InitMatched, PTL DEF Spec

\* A run and its namer write over a human's label only where it reads as one of
\* pall8t's own or was chosen after the run had looked, whenever the human and
\* however many panes of the tab do what they do (name_pane, relabel_tab,
\* label_is_pall8t_own), as long as no human picks a position for a label.
THEOREM HumanLabelsStay ==
  ASSUME OwnLabelApart
  PROVE  Spec => HumanLabelKept
<1> DEFINE Keeps(r) ==
      LET t == TabOf[r]
      IN  (/\ author[t] = "human" /\ author'[t] = "pall8t"
           /\ job'[r] # job[r] \/ namer'[r] # namer[r])
            => r \in late \/ \E b \in Bases : LabelIsPall8tOwn(label[t], b)
<1>1. ASSUME NBase, Kept, [Next]_vars, NEW r \in Runs PROVE Keeps(r)
  <2>1. SUFFICES ASSUME author[TabOf[r]] = "human", author'[TabOf[r]] = "pall8t",
                        job'[r] # job[r] \/ namer'[r] # namer[r], r \notin late
                 PROVE  ReadsAsOwn(TabOf[r])
    BY DEF ReadsAsOwn
  <2>2. PICK p \in Runs : RenameTab(p) \/ NamerRelabels(p)
    BY <1>1, <2>1, HerdrNamingAssumption
    DEF Next, vars, herdrVars, NamerStep, Begin, Number, Choose, Spawn, End, NamerDetects,
        NamerStopsWaiting, NamerTries, NamerLeaves, AgentAppears, OpenTab, CloseTab,
        HumanRenames, HumanNamesAgent, Wedges, Restart, NBase, TypeOK
  <2>3. p = r
    BY <1>1, <2>1, <2>2 DEF RenameTab, NamerRelabels, NBase, TypeOK
  <2>4. CASE RenameTab(r)
    BY <1>1, <2>1, <2>4 DEF RenameTab, NBase, Paced, Pace, Kept, Entitled
  <2>5. CASE NamerRelabels(r)
    BY <1>1, <2>1, <2>5 DEF NamerRelabels, NBase, Paced, Pace, Kept, Entitled
  <2> QED
    BY <2>2, <2>3, <2>4, <2>5
<1>2. NBase /\ Kept /\ [Next]_vars => (NBase /\ Kept)'
  BY StepNBase, StepKept
<1>3. NBase /\ Kept /\ [Next]_vars => [\A r \in Runs : Keeps(r)]_vars
  BY <1>1
<1>4. Spec => [][\A r \in Runs : Keeps(r)]_vars
  BY <1>2, <1>3, InitNBase, InitKept, PTL DEF Spec
<1> QED
  BY <1>4 DEF HumanLabelKept

\* No two tabs are handed one number under one base while a herdr server run
\* lasts, however runs, crashes, renames and restarts interleave: the lock,
\* the state file, tab.list and the labels together do it (name_pane,
\* number_for, allocate).  It takes all of them: an environment that does not
\* fail and does not race, labels and bases that read as what they are, and
\* counters short of usize::MAX.
THEOREM NumbersStayUnique ==
  ASSUME Reliable, PlainLabels, BasesApart
  PROVE  Spec /\ []CountersBelowMax => []NumbersUnique
<1>1. Counted => NumbersUnique
  BY DEF Counted, Numbers, GivenOnce, Given, NumbersUnique
<1>2. Counted /\ CountersBelowMax' /\ [Next]_vars => Counted'
  BY StepCounted
<1> QED
  BY <1>1, <1>2, InitCounted, PTL DEF Spec
=============================================================================
