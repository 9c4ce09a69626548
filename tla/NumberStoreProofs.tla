-------------------------- MODULE NumberStoreProofs --------------------------
(***************************************************************************)
(* What holds of the number store for every set of runs, tabs, bases and   *)
(* sessions: first the decision `allocate' (a pure function), then the     *)
(* state machine around it.                                                *)
(***************************************************************************)
EXTENDS NumberStore, FiniteSetTheorems, TLAPS

\* A nonempty set of usize numbers has a largest element.
LEMMA MaxOfUsize ==
  ASSUME NEW S \in SUBSET Usize, S # {}
  PROVE  Max(S) \in S /\ \A n \in S : n <= Max(S)
<1> DEFINE R == {ss \in Nat \X Nat : ss[1] < ss[2]}
           T == {UsizeMax - n : n \in S}
<1>1. IsWellFoundedOn(R, Nat)
  BY NatLessThanWellFounded DEF OpToRel
<1>2. \A n \in S : n \in Nat /\ n <= UsizeMax /\ UsizeMax - n \in Nat
  BY NamesAssumption DEF Usize
<1>3. T \in SUBSET Nat
  BY <1>2
<1>4. T # {}
  BY <1>2
<1>5. PICK x \in T : \A y \in T : ~ (<<y, x>> \in R)
  <2> HIDE DEF T, R
  <2> QED BY <1>1, <1>3, <1>4, WFMin
<1>6. PICK m \in S : x = UsizeMax - m
  BY <1>5
<1>7. \A n \in S : ~ (UsizeMax - n < UsizeMax - m)
  BY <1>2, <1>5, <1>6
<1>8. \A n \in S : m >= n
  BY <1>2, <1>7, NamesAssumption
<1> QED BY <1>2, <1>8 DEF Max

\* Taking the last counter off a name leaves a name.
LEMMA HeadIsName ==
  ASSUME NEW l \in Name, HasCounter(l)
  PROVE  HeadOf(l) \in Name
<1>1. l.nums \in Seq(Usize) /\ l.nums # <<>>
  BY DEF Name, HasCounter
<1>2. SubSeq(l.nums, 1, Len(l.nums) - 1) \in Seq(Usize)
  BY <1>1
<1> QED BY <1>2 DEF HeadOf, Name

\* The counter at the end of a name is one that parses.
LEMMA CounterInUsize ==
  ASSUME NEW l \in Name, HasCounter(l)
  PROVE  Counter(l) \in Usize
<1>1. l.nums \in Seq(Usize) /\ l.nums # <<>>
  BY DEF Name, HasCounter
<1>2. Len(l.nums) \in 1 .. Len(l.nums)
  BY <1>1
<1> QED BY <1>1, <1>2 DEF Counter

\* What a label says for a base is a set of usize numbers.
LEMMA NumberInLabelType ==
  ASSUME NEW l \in Name, NEW base
  PROVE  NumberInLabel(l, base) \in SUBSET Usize
<1>1. Readings(l) \subseteq Name
  BY HeadIsName DEF Readings
<1> QED BY <1>1, CounterInUsize DEF NumberInLabel

\* The wrapped successor stays in the width of usize.
LEMMA SuccType ==
  ASSUME NEW n \in Usize
  PROVE  Succ(n) \in Usize
BY NamesAssumption DEF Succ, Usize

\* The seed of a counter is a usize number, whatever is on screen.
LEMMA SeedType ==
  ASSUME NEW labels \in SUBSET Name, NEW base
  PROVE  SeedFromLabels(labels, base) \in Usize
<1> DEFINE shown == UNION {NumberInLabel(l, base) : l \in labels}
<1>1. shown \in SUBSET Usize
  BY NumberInLabelType
<1>2. CASE shown = {}
  BY <1>2, NamesAssumption DEF SeedFromLabels, Usize
<1>3. CASE shown # {}
  BY <1>1, <1>3, MaxOfUsize, SuccType DEF SeedFromLabels
<1> QED BY <1>2, <1>3
-----------------------------------------------------------------------------
\* The session a request continues has the shape of a session, pruned or not.
LEMMA WorkingType ==
  ASSUME NEW sessions \in Sessions, NEW live \in OptServer, NEW q \in Alloc
  PROVE  Working(sessions, live, q) \in Session
<1>1. EmptySession \in Session
  BY NamesAssumption DEF EmptySession, Session, OptServer, Usize
<1>2. Continued(sessions, live, q.key) \in Session
  BY <1>1 DEF Continued, Sessions, Alloc
<1> DEFINE c == Continued(sessions, live, q.key)
<1>3. PruneTabs(c.tabs, q.liveTabs, q.tab) \in [Tabs -> Assigned \cup {None}]
  BY <1>2 DEF PruneTabs, Session
<1>4. c \in Session /\ Working(sessions, live, q) =
        [c EXCEPT !.tabs = PruneTabs(c.tabs, q.liveTabs, q.tab)]
  BY <1>2 DEF Working
<1> HIDE DEF c
<1> QED BY <1>3, <1>4 DEF Session

\* The counter a session offers a request is a usize number.
LEMMA CounterForType ==
  ASSUME NEW session \in Session, NEW q \in Alloc
  PROVE  CounterFor(session, q) \in Usize
<1>1. SeedFromLabels(q.liveLabels, q.base) \in Usize
  BY SeedType DEF Alloc
<1>2. session.next[q.base] \in Usize
  BY DEF Session, Alloc
<1> QED BY <1>1, <1>2 DEF CounterFor, Larger

\* So is the number handed out, however it was chosen.
LEMMA NumberOfType ==
  ASSUME NEW session \in Session, NEW q \in Alloc
  PROVE  NumberOf(session, q) \in Usize
<1>1. ASSUME Holds(session, q)
      PROVE  session.tabs[q.tab].number \in Usize
  BY <1>1 DEF Holds, Session, Alloc, Assigned
<1>2. Adopt(q) \in SUBSET Usize
  BY NumberInLabelType DEF Adopt, Alloc
<1> QED BY <1>1, <1>2, CounterForType DEF NumberOf

\* The recorded session has the shape of a session.
LEMMA RecordedType ==
  ASSUME NEW session \in Session, NEW live \in OptServer, NEW q \in Alloc
  PROVE  Recorded(session, live, q) \in Session
<1> DEFINE n == NumberOf(session, q)
           c == Larger(CounterFor(session, q), Succ(n))
<1>1. n \in Usize /\ c \in Usize
  BY NumberOfType, CounterForType, SuccType DEF Larger
<1>2. [session.next EXCEPT ![q.base] = c] \in [Bases -> Usize]
  BY <1>1 DEF Session
<1>3. [base |-> q.base, number |-> n] \in Assigned
  BY <1>1 DEF Assigned, Alloc
<1>4. [session.tabs EXCEPT ![q.tab] = [base |-> q.base, number |-> n]]
        \in [Tabs -> Assigned \cup {None}]
  BY <1>3 DEF Session
<1>5. q.now \in Nat
  BY DEF Alloc
<1> QED BY <1>2, <1>4, <1>5 DEF Recorded, Session

\* Eviction removes whole sessions and changes nothing else.
LEMMA EvictOnlyRemoves ==
  ASSUME NEW sessions \in Sessions, NEW keep
  PROVE  /\ Evict(sessions, keep) \in Sessions
         /\ \A k \in Keys : Evict(sessions, keep)[k] \in {sessions[k], None}
BY DEF Evict, Sessions

\* An allocation turns sessions into sessions and yields a usize number.
LEMMA AllocateType ==
  ASSUME NEW sessions \in Sessions, NEW live \in OptServer, NEW q \in Alloc
  PROVE  /\ AllocateState(sessions, live, q) \in Sessions
         /\ AllocateNumber(sessions, live, q) \in Usize
<1> DEFINE w == Working(sessions, live, q)
<1>1. w \in Session
  BY WorkingType
<1>2. Recorded(w, live, q) \in Session /\ NumberOf(w, q) \in Usize
  BY <1>1, RecordedType, NumberOfType
<1>3. [sessions EXCEPT ![q.key] = Recorded(w, live, q)] \in Sessions
  BY <1>2 DEF Sessions
<1> QED BY <1>2, <1>3, EvictOnlyRemoves DEF AllocateState, AllocateNumber
-----------------------------------------------------------------------------
\* Counters only grow within a session, and they grow past what is handed out.
LEMMA RecordedContinues ==
  ASSUME NEW session \in Session, NEW live \in OptServer, NEW q \in Alloc
  PROVE  /\ Continues(session, Recorded(session, live, q))
         /\ BehindCounter(session) => BehindCounter(Recorded(session, live, q))
<1> DEFINE n == NumberOf(session, q)
           c == Larger(CounterFor(session, q), Succ(n))
           new == Recorded(session, live, q)
<1>1. /\ n \in Usize /\ c \in Usize
      /\ session.next \in [Bases -> Usize]
      /\ session.tabs \in [Tabs -> Assigned \cup {None}]
      /\ q.base \in Bases /\ q.tab \in Tabs
  BY NumberOfType, CounterForType, SuccType DEF Larger, Session, Alloc
<1>2. CASE Holds(session, q)
  BY <1>1, <1>2 DEF Recorded, Continues, BehindCounter, Usize
<1>3. CASE ~ Holds(session, q)
  <2>1. /\ new.next = [session.next EXCEPT ![q.base] = c]
        /\ new.tabs = [session.tabs EXCEPT ![q.tab] =
                         [base |-> q.base, number |-> n]]
    BY <1>3 DEF Recorded
  <2>2. session.next[q.base] <= c
    <3>1. SeedFromLabels(q.liveLabels, q.base) \in Usize
      BY SeedType DEF Alloc
    <3> QED BY <1>1, <3>1, SuccType DEF CounterFor, Larger, Usize
  <2>3. n < c \/ n = UsizeMax
    BY <1>1, CounterForType, NamesAssumption DEF Larger, Succ, Usize
  <2>4. Continues(session, new)
    BY <1>1, <2>1, <2>2 DEF Continues, Usize
  <2>5. ASSUME BehindCounter(session), NEW t \in Tabs, new.tabs[t] # None
        PROVE  new.tabs[t].number < new.next[new.tabs[t].base]
                 \/ new.tabs[t].number = UsizeMax
    <3>1. CASE t = q.tab
      BY <1>1, <2>1, <2>3, <3>1
    <3>2. CASE t # q.tab
      <4>1. new.tabs[t] = session.tabs[t] /\ session.tabs[t] \in Assigned
        BY <1>1, <2>1, <2>5, <3>2
      <4>2. \/ session.tabs[t].number < session.next[session.tabs[t].base]
            \/ session.tabs[t].number = UsizeMax
        BY <2>5, <4>1 DEF BehindCounter
      <4>3. session.next[session.tabs[t].base] <= new.next[session.tabs[t].base]
        BY <2>4, <4>1 DEF Continues, Assigned
      <4>4. /\ session.tabs[t].number \in Nat
            /\ session.next[session.tabs[t].base] \in Nat
            /\ new.next[session.tabs[t].base] \in Nat
        BY <1>1, <2>1, <4>1 DEF Assigned, Usize
      <4> QED BY <4>1, <4>2, <4>3, <4>4
    <3> QED BY <3>1, <3>2
  <2> HIDE DEF new
  <2> QED BY <2>4, <2>5 DEF BehindCounter, new
<1> QED BY <1>2, <1>3

\* Pruning forgets tabs and no counter; a session that starts over has
\* neither.
LEMMA WorkingKeeps ==
  ASSUME NEW sessions \in Sessions, NEW live \in OptServer, NEW q \in Alloc
  PROVE  LET old == sessions[q.key]
             w   == Working(sessions, live, q)
         IN  /\ (old # None => BehindCounter(old)) => BehindCounter(w)
             /\ (old # None /\ KeepsCounting(old.server, live)) =>
                  w.next = old.next /\ w.server = old.server
<1> DEFINE old == sessions[q.key]
           c == Continued(sessions, live, q.key)
           w == Working(sessions, live, q)
<1>1. c \in Session
  BY NamesAssumption
  DEF Continued, Sessions, Alloc, EmptySession, Session, OptServer, Usize
<1>2. /\ w.next = c.next /\ w.server = c.server
      /\ w.tabs = PruneTabs(c.tabs, q.liveTabs, q.tab)
  BY <1>1 DEF Working, Session
<1>3. (old # None => BehindCounter(old)) => BehindCounter(c)
  BY DEF Continued, BehindCounter, EmptySession
<1>4. BehindCounter(c) => BehindCounter(w)
  BY <1>2 DEF BehindCounter, PruneTabs
<1>5. (old # None /\ KeepsCounting(old.server, live)) => c = old
  BY DEF Continued
<1> QED BY <1>2, <1>3, <1>4, <1>5

\* What an allocation does to every session of the file: its own is replaced
\* by one whose counters continue it, or by a fresh one when the server run
\* recorded in it is provably not the one read now; others stay or go.
LEMMA AllocateSteps ==
  ASSUME NEW sessions \in Sessions, NEW live \in OptServer, NEW q \in Alloc,
         NEW k \in Keys
  PROVE  LET new == AllocateState(sessions, live, q)
         IN  /\ ((\A j \in Keys : sessions[j] # None => BehindCounter(sessions[j]))
                  /\ new[k] # None) => BehindCounter(new[k])
             /\ (sessions[k] # None /\ new[k] # None) =>
                  \/ Continues(sessions[k], new[k])
                  \/ ~ KeepsCounting(sessions[k].server, new[k].server)
<1> DEFINE w == Working(sessions, live, q)
           rec == Recorded(w, live, q)
           mid == [sessions EXCEPT ![q.key] = rec]
           new == AllocateState(sessions, live, q)
<1>1. w \in Session /\ rec \in Session /\ q.key \in Keys
  BY WorkingType, RecordedType DEF Alloc
<1>2. mid \in Sessions
  BY <1>1 DEF Sessions
<1>3. new[k] # None => new[k] = mid[k]
  BY <1>2, EvictOnlyRemoves DEF AllocateState
<1>4. CASE k # q.key
  <2>1. mid[k] = sessions[k]
    BY <1>4 DEF Sessions
  <2>2. sessions[k] # None => Continues(sessions[k], sessions[k])
    BY DEF Sessions, Session, Continues, Usize
  <2> HIDE DEF new, mid
  <2> QED BY <1>3, <2>1, <2>2 DEF new
<1>5. CASE k = q.key
  <2>1. mid[k] = rec
    BY <1>5 DEF Sessions
  <2>2. Continues(w, rec) /\ (BehindCounter(w) => BehindCounter(rec))
    BY <1>1, RecordedContinues
  <2>3. ASSUME sessions[k] # None, KeepsCounting(sessions[k].server, live)
        PROVE  Continues(sessions[k], rec)
    <3>1. w.next = sessions[k].next
      BY <1>5, <2>3, WorkingKeeps
    <3> HIDE DEF w, rec
    <3> QED BY <2>2, <3>1 DEF Continues
  <2>4. ASSUME sessions[k] # None, ~ KeepsCounting(sessions[k].server, live)
        PROVE  ~ KeepsCounting(sessions[k].server, rec.server)
    BY <2>4 DEF KeepsCounting, Recorded
  <2>5. (\A j \in Keys : sessions[j] # None => BehindCounter(sessions[j]))
          => BehindCounter(w)
    BY <1>1, WorkingKeeps
  <2> HIDE DEF new, mid, rec, w
  <2> QED BY <1>3, <2>1, <2>2, <2>3, <2>4, <2>5 DEF new
<1> QED BY <1>4, <1>5
-----------------------------------------------------------------------------
\* The inductive invariant.
IInv ==
  /\ StoreTypeOK
  /\ UpdateInProgress
  /\ HolderSeesDisk
  /\ RecordedBehindCounter

\* A file that is not in a newer format reads as sessions.
LEMMA ParseType ==
  ASSUME disk \in Disk, disk # Newer
  PROVE  Parse(disk) \in Sessions
BY DEF Parse, Disk, NoSessions, Sessions

\* The invariant holds before any run has started.
LEMMA InitIInv == StoreInit => IInv
<1> SUFFICES ASSUME StoreInit PROVE IInv
  OBVIOUS
<1>1. StoreTypeOK
  BY NumberStoreAssumption DEF StoreInit, StoreTypeOK, Disk, Places
<1>2. UpdateInProgress
  BY NumberStoreAssumption DEF StoreInit, UpdateInProgress, InUpdate
<1>3. HolderSeesDisk
  BY DEF StoreInit, HolderSeesDisk, InUpdate
<1>4. RecordedBehindCounter
  BY NumberStoreAssumption DEF StoreInit, RecordedBehindCounter
<1> QED BY <1>1, <1>2, <1>3, <1>4 DEF IInv

\* Every step of a run, of herdr and of a newer pall8t preserves it.
LEMMA NextIInv == IInv /\ [StoreNext]_storeVars => IInv'
<1> SUFFICES ASSUME IInv, [StoreNext]_storeVars
             PROVE  IInv'
  OBVIOUS
<1> USE NumberStoreAssumption DEF IInv
<1>1. ASSUME NEW r \in Runs, NEW q \in Requests, Ask(r, q)
      PROVE  IInv'
  <2>1. StoreTypeOK'
    BY <1>1 DEF Ask, StoreTypeOK, Places
  <2>2. UpdateInProgress'
    BY <1>1 DEF Ask, UpdateInProgress, InUpdate, StoreTypeOK
  <2>3. HolderSeesDisk' /\ RecordedBehindCounter'
    BY <1>1 DEF Ask, UpdateInProgress, HolderSeesDisk,
                RecordedBehindCounter, InUpdate, StoreTypeOK
  <2> QED BY <2>1, <2>2, <2>3
<1>2. ASSUME NEW r \in Runs, DirFails(r)
      PROVE  IInv'
  <2>1. StoreTypeOK'
    BY <1>2 DEF DirFails, StoreTypeOK, Places
  <2>2. UpdateInProgress'
    BY <1>2 DEF DirFails, UpdateInProgress, InUpdate, StoreTypeOK
  <2>3. HolderSeesDisk' /\ RecordedBehindCounter'
    BY <1>2 DEF DirFails, UpdateInProgress, HolderSeesDisk,
                RecordedBehindCounter, InUpdate, StoreTypeOK
  <2> QED BY <2>1, <2>2, <2>3
<1>3. ASSUME NEW r \in Runs, Acquire(r)
      PROVE  IInv'
  <2>1. StoreTypeOK'
    BY <1>3 DEF Acquire, StoreTypeOK, Places
  <2>2. UpdateInProgress'
    BY <1>3 DEF Acquire, UpdateInProgress, InUpdate, StoreTypeOK
  <2>3. HolderSeesDisk' /\ RecordedBehindCounter'
    BY <1>3 DEF Acquire, UpdateInProgress, HolderSeesDisk,
                RecordedBehindCounter, InUpdate, StoreTypeOK
  <2> QED BY <2>1, <2>2, <2>3
<1>4. ASSUME NEW r \in Runs, FailToLock(r)
      PROVE  IInv'
  <2>1. StoreTypeOK'
    BY <1>4 DEF FailToLock, StoreTypeOK, Places
  <2>2. UpdateInProgress'
    BY <1>4 DEF FailToLock, UpdateInProgress, InUpdate, StoreTypeOK
  <2>3. HolderSeesDisk' /\ RecordedBehindCounter'
    BY <1>4 DEF FailToLock, UpdateInProgress, HolderSeesDisk,
                RecordedBehindCounter, InUpdate, StoreTypeOK
  <2> QED BY <2>1, <2>2, <2>3
<1>5. ASSUME NEW r \in Runs, GiveUp(r)
      PROVE  IInv'
  <2>1. StoreTypeOK'
    BY <1>5 DEF GiveUp, StoreTypeOK, Places
  <2>2. UpdateInProgress'
    BY <1>5 DEF GiveUp, UpdateInProgress, InUpdate, StoreTypeOK
  <2>3. HolderSeesDisk' /\ RecordedBehindCounter'
    BY <1>5 DEF GiveUp, UpdateInProgress, HolderSeesDisk,
                RecordedBehindCounter, InUpdate, StoreTypeOK
  <2> QED BY <2>1, <2>2, <2>3
<1>6. ASSUME NEW r \in Runs, Read(r)
      PROVE  IInv'
  <2>0. disk # Newer => Parse(disk) \in Sessions
    BY ParseType DEF StoreTypeOK
  <2>1. StoreTypeOK'
    BY <1>6, <2>0 DEF Read, StoreTypeOK, Places
  <2>2. UpdateInProgress'
    BY <1>6, <2>0 DEF Read, UpdateInProgress, InUpdate, StoreTypeOK
  <2>3. HolderSeesDisk' /\ RecordedBehindCounter'
    BY <1>6 DEF Read, UpdateInProgress, HolderSeesDisk,
                RecordedBehindCounter, InUpdate, StoreTypeOK, Parse
  <2> QED BY <2>1, <2>2, <2>3
<1>7. ASSUME NEW r \in Runs, Decide(r)
      PROVE  IInv'
  <2>1. /\ pc[r] = "decide" /\ seen[r] \in Sessions /\ req[r] \in Alloc
    BY <1>7 DEF Decide, UpdateInProgress, InUpdate
  <2>2. StatOutcomes(req[r].key) \subseteq OptServer
    BY <2>1 DEF StatOutcomes, StoreTypeOK, Alloc, Keys, OptServer
  <2>3. PICK live \in OptServer :
          /\ memo' = [memo EXCEPT ![r] = AllocateState(seen[r], live, req[r])]
          /\ number' = [number EXCEPT ![r] = AllocateNumber(seen[r], live, req[r])]
    BY <1>7, <2>2 DEF Decide
  <2>4. /\ AllocateState(seen[r], live, req[r]) \in Sessions
        /\ AllocateNumber(seen[r], live, req[r]) \in Usize
    BY <2>1, AllocateType
  <2>5. StoreTypeOK'
    BY <1>7, <2>3, <2>4 DEF Decide, StoreTypeOK, Places
  <2>6. UpdateInProgress'
    BY <1>7, <2>1, <2>3 DEF Decide, UpdateInProgress, InUpdate, StoreTypeOK
  <2>7. HolderSeesDisk' /\ RecordedBehindCounter'
    BY <1>7 DEF Decide, HolderSeesDisk, RecordedBehindCounter, InUpdate, StoreTypeOK
  <2> QED BY <2>5, <2>6, <2>7
<1>8. ASSUME NEW r \in Runs, Write(r)
      PROVE  IInv'
  <2>1. /\ pc[r] = "write" /\ holder = r /\ disk' = memo[r]
        /\ seen[r] \in Sessions /\ req[r] \in Alloc /\ seen[r] = Parse(disk)
    BY <1>8 DEF Write, UpdateInProgress, HolderSeesDisk, InUpdate
  <2>2. PICK live \in OptServer :
          disk' = AllocateState(seen[r], live, req[r])
    BY <2>1 DEF UpdateInProgress
  <2>3. disk' \in Sessions
    BY <2>1, <2>2, AllocateType
  <2>4. StoreTypeOK'
    BY <1>8, <2>3 DEF Write, StoreTypeOK, Places, Disk
  <2>5. UpdateInProgress'
    BY <1>8 DEF Write, UpdateInProgress, InUpdate, StoreTypeOK
  <2>6. HolderSeesDisk'
    BY <1>8, <2>1 DEF Write, UpdateInProgress, HolderSeesDisk, InUpdate, StoreTypeOK
  <2>7. \A j \in Keys : seen[r][j] # None => BehindCounter(seen[r][j])
    <3>1. CASE disk = None
      BY <2>1, <3>1 DEF Parse, NoSessions
    <3>2. CASE disk # None
      BY <2>1, <3>2 DEF Parse, RecordedBehindCounter
    <3> QED BY <3>1, <3>2
  <2>8. RecordedBehindCounter'
    <3> SUFFICES ASSUME NEW k \in Keys, disk'[k] # None
                 PROVE  BehindCounter(disk'[k])
      BY DEF RecordedBehindCounter, BehindCounter
    <3> QED BY <2>1, <2>2, <2>7, AllocateSteps
  <2> QED BY <2>4, <2>5, <2>6, <2>8
<1>9. ASSUME NEW r \in Runs, WriteFails(r)
      PROVE  IInv'
  <2>1. StoreTypeOK'
    BY <1>9 DEF WriteFails, StoreTypeOK, Places
  <2>2. UpdateInProgress'
    BY <1>9 DEF WriteFails, UpdateInProgress, InUpdate, StoreTypeOK
  <2>3. HolderSeesDisk' /\ RecordedBehindCounter'
    BY <1>9 DEF WriteFails, UpdateInProgress, HolderSeesDisk,
                RecordedBehindCounter, InUpdate, StoreTypeOK
  <2> QED BY <2>1, <2>2, <2>3
<1>10. ASSUME NEW r \in Runs, Release(r)
      PROVE  IInv'
  <2>1. StoreTypeOK'
    BY <1>10 DEF Release, StoreTypeOK, Places
  <2>2. UpdateInProgress'
    BY <1>10 DEF Release, UpdateInProgress, InUpdate, StoreTypeOK
  <2>3. HolderSeesDisk' /\ RecordedBehindCounter'
    BY <1>10 DEF Release, UpdateInProgress, HolderSeesDisk,
                RecordedBehindCounter, InUpdate, StoreTypeOK
  <2> QED BY <2>1, <2>2, <2>3
<1>11. ASSUME NEW r \in Runs, Exit(r)
      PROVE  IInv'
  <2>1. StoreTypeOK'
    BY <1>11 DEF Exit, StoreTypeOK, Places
  <2>2. UpdateInProgress'
    BY <1>11 DEF Exit, UpdateInProgress, InUpdate, StoreTypeOK
  <2>3. HolderSeesDisk' /\ RecordedBehindCounter'
    BY <1>11 DEF Exit, UpdateInProgress, HolderSeesDisk,
                RecordedBehindCounter, InUpdate, StoreTypeOK
  <2> QED BY <2>1, <2>2, <2>3
<1>12. ASSUME NEW s \in SocketPaths, Rebind(s)
      PROVE  IInv'
  <2>1. StoreTypeOK'
    BY <1>12 DEF Rebind, StoreTypeOK, runVars
  <2>2. UpdateInProgress' /\ HolderSeesDisk' /\ RecordedBehindCounter'
    BY <1>12 DEF Rebind, UpdateInProgress, HolderSeesDisk,
                 RecordedBehindCounter, InUpdate, runVars
  <2> QED BY <2>1, <2>2
<1>13. ASSUME Upgrade
      PROVE  IInv'
  <2>1. StoreTypeOK'
    BY <1>13 DEF Upgrade, StoreTypeOK, runVars, Disk
  <2>2. UpdateInProgress'
    BY <1>13 DEF Upgrade, UpdateInProgress, InUpdate, runVars
  <2>3. HolderSeesDisk' /\ RecordedBehindCounter'
    BY <1>13 DEF Upgrade, UpdateInProgress, HolderSeesDisk,
                 RecordedBehindCounter, InUpdate, runVars
  <2> QED BY <2>1, <2>2, <2>3
<1>14. CASE UNCHANGED storeVars
  BY <1>14 DEF storeVars, runVars, StoreTypeOK, UpdateInProgress, HolderSeesDisk,
               RecordedBehindCounter, InUpdate
<1> QED
  BY <1>1, <1>2, <1>3, <1>4, <1>5, <1>6, <1>7, <1>8, <1>9, <1>10, <1>11,
     <1>12, <1>13, <1>14 DEF StoreNext, Step
-----------------------------------------------------------------------------
\* So it always holds.
LEMMA Invariance == StoreSpec => []IInv
BY InitIInv, NextIInv, PTL DEF StoreSpec

\* Every variable of the number store keeps its type, for any number of runs,
\* tabs, bases and sessions and any requests (number_for).
THEOREM StoreTypeCorrect == StoreSpec => []StoreTypeOK
<1>1. IInv => StoreTypeOK
  BY DEF IInv
<1> QED BY <1>1, Invariance, PTL

\* No update of the state file is lost: the read-modify-write of a run is
\* never interleaved with another run's, although a run can be killed, give
\* up on the lock or find the file in a newer format at any point.
THEOREM NoLostUpdate == StoreSpec => []HolderSeesDisk
<1>1. IInv => HolderSeesDisk
  BY DEF IInv
<1> QED BY <1>1, Invariance, PTL

\* The lock is held exactly by the run in its read-modify-write, and what
\* that run publishes is one allocation on what it read.
THEOREM LockDiscipline == StoreSpec => []UpdateInProgress
<1>1. IInv => UpdateInProgress
  BY DEF IInv
<1> QED BY <1>1, Invariance, PTL

\* Every recorded number is behind its counter, so `next' never hands out a
\* number that some tab of the session still holds (allocate).
THEOREM NumbersBehindCounters == StoreSpec => []RecordedBehindCounter
<1>1. IInv => RecordedBehindCounter
  BY DEF IInv
<1> QED BY <1>1, Invariance, PTL

\* The state file changes only when a run publishes, and then by one whole
\* allocation made from its contents at that moment, or when a newer pall8t
\* takes it over.
LEMMA DiskSteps ==
  ASSUME IInv, [StoreNext]_storeVars
  PROVE  \/ disk' = disk
         \/ /\ disk # Newer /\ Parse(disk) \in Sessions
            /\ \E q \in Requests, live \in OptServer :
                 disk' = AllocateState(Parse(disk), live, q)
         \/ disk' = Newer
<1>1. ASSUME NEW r \in Runs, Write(r)
      PROVE  /\ disk # Newer /\ Parse(disk) \in Sessions
             /\ \E q \in Requests, live \in OptServer :
                  disk' = AllocateState(Parse(disk), live, q)
  <2>1. /\ pc[r] = "write" /\ seen[r] = Parse(disk) /\ seen[r] \in Sessions
        /\ req[r] \in Requests /\ disk' = memo[r]
    BY <1>1 DEF Write, IInv, UpdateInProgress, HolderSeesDisk, InUpdate
  <2>2. disk # Newer
    BY <2>1, NumberStoreAssumption DEF Parse
  <2>3. \E live \in OptServer : memo[r] = AllocateState(seen[r], live, req[r])
    BY <2>1 DEF IInv, UpdateInProgress
  <2> QED BY <2>1, <2>2, <2>3
<1>2. CASE UNCHANGED storeVars
  BY <1>2 DEF storeVars
<1> QED
  BY <1>1, <1>2 DEF StoreNext, Step, Ask, DirFails, Acquire, FailToLock, GiveUp,
     Read, Decide, WriteFails, Release, Exit, Rebind, Upgrade

\* No step of any run takes a counter back unless a different herdr server
\* run has provably taken over: the promise `never decreases' of
\* Session.next, under every interleaving, kill, failed write and restart.
THEOREM CountersMonotone == StoreSpec => CountersOnlyResetOnRestart
<1> DEFINE Step_ ==
      (disk \in Sessions /\ disk' \in Sessions) =>
        \A k \in Keys :
          (disk[k] # None /\ disk'[k] # None) =>
            \/ Continues(disk[k], disk'[k])
            \/ ~ KeepsCounting(disk[k].server, disk'[k].server)
<1>1. ASSUME IInv, [StoreNext]_storeVars
      PROVE  Step_
  <2> SUFFICES ASSUME disk \in Sessions, disk' \in Sessions, NEW k \in Keys,
                      disk[k] # None, disk'[k] # None
               PROVE  \/ Continues(disk[k], disk'[k])
                      \/ ~ KeepsCounting(disk[k].server, disk'[k].server)
    OBVIOUS
  <2>1. disk # None /\ disk' # Newer /\ Parse(disk) = disk
    BY NumberStoreAssumption DEF Parse
  <2>2. CASE disk' = disk
    BY <2>2 DEF Continues, Sessions, Session, Usize
  <2>3. CASE \E q \in Requests, live \in OptServer :
               disk' = AllocateState(disk, live, q)
    BY <2>3, AllocateSteps, NumberStoreAssumption
  <2> QED BY <1>1, <2>1, <2>2, <2>3, DiskSteps
<1>2. IInv /\ [StoreNext]_storeVars => [Step_]_storeVars
  BY <1>1
<1> QED BY <1>2, Invariance, PTL DEF StoreSpec, CountersOnlyResetOnRestart

\* A file in a newer format stays as it is (Load::Frozen), whatever runs of
\* this version are in the middle of.
THEOREM NewerFileStays == StoreSpec => NewerFileUntouched
<1>1. IInv /\ [StoreNext]_storeVars => [disk = Newer => disk' = Newer]_storeVars
  BY DiskSteps
<1> QED BY <1>1, Invariance, PTL DEF StoreSpec, NewerFileUntouched

-----------------------------------------------------------------------------
(***************************************************************************)
(* Sessions do not touch each other.                                       *)
(***************************************************************************)

\* The sessions that have an entry in the file.
Entries(sessions) == {k \in Keys : sessions[k] # None}

\* The file holds no more sessions than it may.
Fits(sessions) ==
  IsFiniteSet(Entries(sessions)) /\ Cardinality(Entries(sessions)) <= MaxSessions

\* Of a set of sessions one has been unused for longest.
LEMMA LeastRecentlyUsed ==
  ASSUME NEW sessions \in Sessions, NEW S \in SUBSET Entries(sessions), S # {}
  PROVE  \E k \in S : \A j \in S : sessions[k].lastUsed <= sessions[j].lastUsed
<1> DEFINE R == {ss \in Nat \X Nat : ss[1] < ss[2]}
           T == {sessions[k].lastUsed : k \in S}
<1>1. IsWellFoundedOn(R, Nat)
  BY NatLessThanWellFounded DEF OpToRel
<1>2. \A k \in S : sessions[k].lastUsed \in Nat
  BY DEF Entries, Sessions, Session
<1>3. T \in SUBSET Nat /\ T # {}
  BY <1>2
<1>4. PICK x \in T : \A y \in T : ~ (<<y, x>> \in R)
  <2> HIDE DEF T, R
  <2> QED BY <1>1, <1>3, WFMin
<1>5. PICK k \in S : x = sessions[k].lastUsed
  BY <1>4
<1>6. \A j \in S : ~ (sessions[j].lastUsed < sessions[k].lastUsed)
  BY <1>2, <1>4, <1>5
<1> QED BY <1>2, <1>6

\* What evict does to a file with at most one session too many: it goes, and
\* it is the one, other than the run's own, that was unused for longest.
LEMMA EvictOldest ==
  ASSUME NEW sessions \in Sessions, NEW keep \in Keys,
         IsFiniteSet(Entries(sessions)),
         Cardinality(Entries(sessions)) <= MaxSessions + 1
  PROVE  LET new == Evict(sessions, keep)
         IN  /\ Fits(new)
             /\ new[keep] = sessions[keep]
             /\ \A k \in Keys :
                  \/ new[k] = sessions[k]
                  \/ /\ new[k] = None
                     /\ \A j \in Entries(sessions) \ {keep} :
                          sessions[k].lastUsed <= sessions[j].lastUsed
                     /\ Cardinality(Entries(new)) = MaxSessions
<1> DEFINE held   == Entries(sessions)
           least(k) == \A j \in held \ {keep} :
                         sessions[k].lastUsed <= sessions[j].lastUsed
           oldest == CHOOSE k \in held \ {keep} : least(k)
           new    == Evict(sessions, keep)
<1>1. CASE ~ (Cardinality(held) > MaxSessions /\ held \ {keep} # {})
  <2>1. new = sessions
    BY <1>1 DEF Evict, Entries
  <2>2. Cardinality(held) <= MaxSessions
    <3>1. CASE held \ {keep} # {}
      BY <1>1, <3>1, FS_CardinalityType, TabNumbersAssumption
    <3>2. CASE held \subseteq {keep}
      <4>1. IsFiniteSet({keep}) /\ Cardinality({keep}) = 1 /\ held \in SUBSET {keep}
        BY <3>2, FS_Singleton
      <4>2. Cardinality(held) <= 1 /\ Cardinality(held) \in Nat
        BY <4>1, FS_Subset, FS_CardinalityType
      <4> QED BY <4>2, TabNumbersAssumption
    <3> QED BY <3>1, <3>2
  <2> QED BY <2>1, <2>2 DEF Fits
<1>2. CASE Cardinality(held) > MaxSessions /\ held \ {keep} # {}
  <2>1. new = [sessions EXCEPT ![oldest] = None]
    BY <1>2 DEF Evict, Entries
  <2>2. oldest \in held \ {keep} /\ least(oldest)
    <3>1. \E k \in held \ {keep} : least(k)
      BY <1>2, LeastRecentlyUsed
    <3> HIDE DEF least, held
    <3> QED BY <3>1
  <2> HIDE DEF oldest, new
  <2>3. /\ new[oldest] = None
        /\ \A k \in Keys \ {oldest} : new[k] = sessions[k]
    <3>1. sessions = [k \in Keys |-> sessions[k]] /\ oldest \in Keys
      BY <2>2 DEF Sessions, Entries
    <3> QED BY <2>1, <3>1
  <2>4. Entries(new) = held \ {oldest}
    BY <2>3 DEF Entries
  <2>5. /\ IsFiniteSet(Entries(new))
        /\ Cardinality(Entries(new)) = MaxSessions
    <3>1. MaxSessions \in Nat
      BY TabNumbersAssumption
    <3>2. IsFiniteSet(held) /\ oldest \in held
      BY <2>2
    <3>3. IsFiniteSet(held \ {oldest}) /\ Cardinality(held \ {oldest}) = Cardinality(held) - 1
      BY <3>2, FS_RemoveElement
    <3>4. Cardinality(held) \in Nat
      BY <3>2, FS_CardinalityType
    <3> HIDE DEF held
    <3>5. Cardinality(held) > MaxSessions /\ Cardinality(held) <= MaxSessions + 1
      BY <1>2 DEF held
    <3> QED BY <2>4, <3>1, <3>3, <3>4, <3>5
  <2> QED BY <2>2, <2>3, <2>5, TabNumbersAssumption DEF Fits, new
<1> QED BY <1>1, <1>2

\* So an allocation leaves a file that fits, replaces the session it is for,
\* and touches no other except to drop the one unused for longest.
LEMMA AllocateKeepsOthers ==
  ASSUME NEW sessions \in Sessions, NEW live \in OptServer, NEW q \in Alloc,
         Fits(sessions)
  PROVE  LET new == AllocateState(sessions, live, q)
         IN  /\ Fits(new)
             /\ new[q.key] = Recorded(Working(sessions, live, q), live, q)
             /\ \A k \in Keys \ {q.key} :
                  \/ new[k] = sessions[k]
                  \/ /\ new[k] = None
                     /\ \A j \in Keys \ {q.key} :
                          new[j] # None => sessions[k].lastUsed <= new[j].lastUsed
                     /\ Cardinality(Entries(new)) = MaxSessions
<1> DEFINE rec == Recorded(Working(sessions, live, q), live, q)
           mid == [sessions EXCEPT ![q.key] = rec]
           new == AllocateState(sessions, live, q)
<1>1. rec \in Session /\ q.key \in Keys
  BY WorkingType, RecordedType DEF Alloc
<1> HIDE DEF rec
<1>2. /\ mid \in Sessions /\ mid[q.key] = rec
      /\ \A k \in Keys \ {q.key} : mid[k] = sessions[k]
  BY <1>1 DEF Sessions
<1>3. Entries(mid) \subseteq Entries(sessions) \cup {q.key}
  BY <1>2 DEF Entries
<1>4. /\ IsFiniteSet(Entries(mid))
      /\ Cardinality(Entries(mid)) <= MaxSessions + 1
  <2>1. /\ IsFiniteSet(Entries(sessions) \cup {q.key})
        /\ Cardinality(Entries(sessions) \cup {q.key}) <= MaxSessions + 1
    <3>1. MaxSessions \in Nat
      BY TabNumbersAssumption
    <3>2. IsFiniteSet(Entries(sessions)) /\ Cardinality(Entries(sessions)) <= MaxSessions
      BY DEF Fits
    <3>3. Cardinality(Entries(sessions)) \in Nat
      BY <3>2, FS_CardinalityType
    <3>4. /\ IsFiniteSet(Entries(sessions) \cup {q.key})
          /\ Cardinality(Entries(sessions) \cup {q.key})
               \in {Cardinality(Entries(sessions)), Cardinality(Entries(sessions)) + 1}
      BY <3>2, FS_AddElement
    <3> QED BY <3>1, <3>2, <3>3, <3>4
  <2>2. Entries(mid) \in SUBSET (Entries(sessions) \cup {q.key})
    BY <1>3
  <2>3. /\ IsFiniteSet(Entries(mid))
        /\ Cardinality(Entries(mid)) <= Cardinality(Entries(sessions) \cup {q.key})
    BY <2>1, <2>2, FS_Subset
  <2>4. /\ Cardinality(Entries(mid)) \in Nat
        /\ Cardinality(Entries(sessions) \cup {q.key}) \in Nat
    BY <2>1, <2>3, FS_CardinalityType
  <2> QED BY <2>1, <2>3, <2>4, TabNumbersAssumption
<1>5. new = Evict(mid, q.key)
  BY DEF AllocateState, rec
<1> HIDE DEF mid, new
<1>6. /\ Fits(new) /\ new[q.key] = mid[q.key]
      /\ \A k \in Keys :
           \/ new[k] = mid[k]
           \/ /\ new[k] = None
              /\ \A j \in Entries(mid) \ {q.key} :
                   mid[k].lastUsed <= mid[j].lastUsed
              /\ Cardinality(Entries(new)) = MaxSessions
  BY <1>1, <1>2, <1>4, <1>5, EvictOldest
<1>7. \A j \in Keys \ {q.key} : new[j] # None =>
        new[j] = sessions[j] /\ j \in Entries(mid) \ {q.key} /\ mid[j] = new[j]
  BY <1>2, <1>6 DEF Entries
<1>8. new[q.key] = rec
  BY <1>2, <1>6
<1>9. ASSUME NEW k \in Keys \ {q.key}, new[k] # sessions[k]
      PROVE  /\ new[k] = None
             /\ \A j \in Keys \ {q.key} :
                  new[j] # None => sessions[k].lastUsed <= new[j].lastUsed
             /\ Cardinality(Entries(new)) = MaxSessions
  BY <1>2, <1>6, <1>7, <1>9
<1> QED BY <1>6, <1>8, <1>9 DEF new, rec

\* The file never holds more sessions than it may.
FileFits == disk # Newer => Fits(Parse(disk))

LEMMA NothingFits == Fits(NoSessions)
<1>1. Entries(NoSessions) = {}
  BY DEF Entries, NoSessions
<1> QED BY <1>1, FS_EmptySet, TabNumbersAssumption DEF Fits

LEMMA InitFileFits == StoreInit => FileFits
BY NothingFits, NumberStoreAssumption DEF StoreInit, FileFits, Parse

LEMMA NextFileFits == IInv /\ FileFits /\ [StoreNext]_storeVars => FileFits'
<1> SUFFICES ASSUME IInv, FileFits, [StoreNext]_storeVars, disk' # Newer
             PROVE  Fits(Parse(disk)')
  BY DEF FileFits
<1>1. CASE disk' = disk
  BY <1>1 DEF FileFits, Parse
<1>2. CASE /\ disk # Newer /\ Parse(disk) \in Sessions
           /\ \E q \in Requests, live \in OptServer :
                disk' = AllocateState(Parse(disk), live, q)
  <2>1. PICK q \in Requests, live \in OptServer :
          disk' = AllocateState(Parse(disk), live, q)
    BY <1>2
  <2>2. q \in Alloc
    BY NumberStoreAssumption
  <2>3. disk' \in Sessions
    BY <1>2, <2>1, <2>2, AllocateType
  <2>4. Parse(disk)' = disk'
    BY <2>3, NumberStoreAssumption DEF Parse
  <2> QED BY <1>2, <2>1, <2>2, <2>4, AllocateKeepsOthers DEF FileFits
<1> QED BY <1>1, <1>2, DiskSteps

\* The file never holds more sessions than it may, whatever the interleaving:
\* one allocation adds at most one, so one round of evict's loop is enough.
THEOREM FileStaysBounded == StoreSpec => []FileFits
<1>1. IInv /\ FileFits /\ [StoreNext]_storeVars => (IInv /\ FileFits)'
  BY NextIInv, NextFileFits
<1> QED BY <1>1, InitIInv, InitFileFits, PTL DEF StoreSpec

\* A run's write changes its own session; of the others it drops at most the
\* one unused for longest, and only from a full file (State.sessions, evict),
\* for any number of sessions and under every interleaving of the runs.
THEOREM SessionsStayIndependent == StoreSpec => SessionsIndependent
<1> DEFINE Step_ ==
      \A r \in Runs :
        (pc[r] = "write" /\ disk \in Sessions /\ disk' \in Sessions) =>
          \A k \in Keys \ {req[r].key} :
            \/ disk'[k] = disk[k]
            \/ /\ disk'[k] = None
               /\ \A j \in Keys \ {req[r].key} :
                     disk'[j] # None => disk[k].lastUsed <= disk'[j].lastUsed
               /\ Cardinality({j \in Keys : disk'[j] # None}) = MaxSessions
<1>1. ASSUME IInv, FileFits, [StoreNext]_storeVars
      PROVE  Step_
  <2> SUFFICES ASSUME NEW r \in Runs, pc[r] = "write",
                      disk \in Sessions, disk' \in Sessions, disk' # disk,
                      NEW k \in Keys \ {req[r].key}
               PROVE  \/ disk'[k] = disk[k]
                      \/ /\ disk'[k] = None
                         /\ \A j \in Keys \ {req[r].key} :
                               disk'[j] # None => disk[k].lastUsed <= disk'[j].lastUsed
                         /\ Cardinality(Entries(disk')) = MaxSessions
    BY DEF Entries
  <2>1. PICK w \in Runs : Write(w)
    BY <1>1, NumberStoreAssumption
    DEF StoreNext, Step, Ask, DirFails, Acquire, FailToLock, GiveUp, Read, Decide,
        WriteFails, Release, Exit, Rebind, Upgrade, storeVars
  <2>2. w = r
    BY <1>1, <2>1 DEF Write, IInv, UpdateInProgress
  <2>3. /\ seen[r] = disk /\ req[r] \in Alloc /\ disk' = memo[r]
        /\ Fits(disk)
    BY <1>1, <2>1, <2>2, NumberStoreAssumption
    DEF Write, IInv, HolderSeesDisk, UpdateInProgress, InUpdate, Parse, FileFits
  <2>4. PICK live \in OptServer : disk' = AllocateState(disk, live, req[r])
    BY <1>1, <2>3 DEF IInv, UpdateInProgress
  <2> QED BY <2>3, <2>4, AllocateKeepsOthers
<1>2. IInv /\ FileFits /\ [StoreNext]_storeVars => (IInv /\ FileFits)'
  BY NextIInv, NextFileFits
<1>3. IInv /\ FileFits /\ [StoreNext]_storeVars => [Step_]_storeVars
  BY <1>1
<1>4. StoreSpec => [][Step_]_storeVars
  BY <1>2, <1>3, InitIInv, InitFileFits, PTL DEF StoreSpec
<1> QED BY <1>4 DEF SessionsIndependent

-----------------------------------------------------------------------------
\* The abstract specification's allocation is this module's own.
LEMMA SameAllocation ==
  /\ Atomic!OptServer = OptServer
  /\ \A sessions, live, q :
       Atomic!AllocateState(sessions, live, q) = AllocateState(sessions, live, q)
<1>2. \A S, b : Atomic!SeedFromLabels(S, b) = SeedFromLabels(S, b)
  BY DEF Atomic!SeedFromLabels, SeedFromLabels, Atomic!Succ, Succ, Atomic!Max, Max,
      Atomic!NumberInLabel, NumberInLabel, Atomic!Readings, Readings,
      Atomic!HasCounter, HasCounter, Atomic!HeadOf, HeadOf,
      Atomic!Counter, Counter, Atomic!WithCounter, WithCounter
<1>3. \A s, q : Atomic!NumberOf(s, q) = NumberOf(s, q)
  BY <1>2 DEF Atomic!NumberOf, NumberOf, Atomic!Holds, Holds, Atomic!Adopt, Adopt,
      Atomic!CounterFor, CounterFor, Atomic!Larger, Larger,
      Atomic!NumberInLabel, NumberInLabel, Atomic!Readings, Readings,
      Atomic!HasCounter, HasCounter, Atomic!HeadOf, HeadOf,
      Atomic!Counter, Counter, Atomic!WithCounter, WithCounter
<1>4. \A s, live, q : Atomic!Recorded(s, live, q) = Recorded(s, live, q)
  BY <1>2, <1>3
  DEF Atomic!Recorded, Recorded, Atomic!Holds, Holds, Atomic!Larger, Larger,
      Atomic!CounterFor, CounterFor, Atomic!Succ, Succ
<1>5. \A ss, live, q : Atomic!Working(ss, live, q) = Working(ss, live, q)
  BY DEF Atomic!Working, Working, Atomic!Continued, Continued,
         Atomic!KeepsCounting, KeepsCounting, Atomic!SameRun, SameRun,
         Atomic!EmptySession, EmptySession, Atomic!PruneTabs, PruneTabs
<1>6. \A ss, k : Atomic!Evict(ss, k) = Evict(ss, k)
  BY DEF Atomic!Evict, Evict, Atomic!Keys, Keys, Atomic!Cardinality, Cardinality
<1>7. Atomic!OptServer = OptServer
  BY DEF Atomic!OptServer, OptServer, Atomic!ServerRun, ServerRun
<1> QED BY <1>4, <1>5, <1>6, <1>7 DEF Atomic!AllocateState, AllocateState

\* The concurrent store implements the atomic one: runs that lock, read,
\* decide and rename one step at a time, and die in between, look from the
\* file like whole allocations made one after another.
THEOREM StoreImplementsAtomic == StoreSpec => ImplementsAtomicNumbering
<1>1. StoreInit => Atomic!Init
  BY DEF StoreInit, Atomic!Init
<1>2. IInv /\ [StoreNext]_storeVars => [Atomic!Next]_disk
  BY DiskSteps, SameAllocation
  DEF Atomic!Next, Atomic!Allocation, Atomic!Upgrade, Atomic!Parse, Parse,
      Atomic!NoSessions, NoSessions, Atomic!Keys, Keys
<1> QED BY <1>1, <1>2, Invariance, PTL
        DEF StoreSpec, ImplementsAtomicNumbering, Atomic!Spec
=============================================================================
