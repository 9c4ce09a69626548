---------------------------- MODULE RelayLifeProofs ----------------------------
(***************************************************************************)
(* What a run may rely on about its relay, for any number of runs, any     *)
(* sharing of names between them and any relay that hangs, fails or is     *)
(* killed: the socket it mounts is its own relay's, and a relay whose line *)
(* it has not read is gone.                                                *)
(***************************************************************************)
EXTENDS RelayLife, TLAPS

\* The names of exited runs are settled before they come back, and a live
\* relay answers: what MountedIsServed rests on.
Settled == Faults \cap {"reuse", "saturated"} = {}

\* Bound, listening or not.
Up(r) == relay[r] = "listen" \/ Answers(r)
\* Past the removal of what was at its path.
Cleared(r) == relay[r] = "bind" \/ Up(r)

\* A run not started has no relay, a line was written by a relay that got past
\* it, and what is to be mounted was read from it.
Lines ==
  \A r \in Runs :
    /\ run[r] = "none" => relay[r] = "none"
    /\ line[r] # None => relay[r] \in {"sweep", "probe", "reap", "watch", "serving", "gone"}
    /\ run[r] \in {"bridged", "running"} => line[r] = "read"

LBase == TypeOK /\ Lines /\ NoRelayUnheard

\* Two live relays have two names.
Exclusive ==
  \A q, r \in Runs : q # r /\ NameOf[q] = NameOf[r] => ~ Alive(q) \/ ~ Alive(r)

\* What is at the path of a relay, from its bind(2) on and just before.
Held ==
  \A r \in Runs : /\ relay[r] = "bind" => file[NameOf[r]] = None
                  /\ Up(r) => file[NameOf[r]] = r

\* A socket is young until it listens, and no sweep has the path of a relay
\* that does not listen yet; none finds it dead while its relay lives.
Unswept ==
  \A r \in Runs :
    /\ relay[r] = "listen" => NameOf[r] \notin old
    /\ relay[r] \in {"bind", "listen"} => \A q \in Runs : NameOf[r] \notin found[q]
    /\ Cleared(r) => \A q \in Runs : NameOf[r] \notin stale[q]

LInv == Exclusive /\ Held /\ Unswept
-----------------------------------------------------------------------------
LEMMA LifeInit == Init => LBase /\ LInv
BY RelayLifeAssumption
DEF Init, LBase, TypeOK, Lines, NoRelayUnheard, LInv, Exclusive, Held, Unswept, Cleared, Up,
    Answers, Alive

LEMMA StepLBase ==
  ASSUME LBase, [Next]_vars
  PROVE  LBase'
<1> USE RelayLifeAssumption DEF LBase, TypeOK, Lines, NoRelayUnheard, To, Quit
<1>1. CASE UNCHANGED vars
  BY <1>1 DEF vars
<1>2. ASSUME NEW r \in Runs, Launch(r) PROVE LBase'
  BY <1>2 DEF Launch
<1>3. ASSUME NEW r \in Runs, Waits(r) PROVE LBase'
  BY <1>3 DEF Waits, HearsLine, HearsNothing, GivesUp
<1>4. ASSUME NEW r \in Runs, Execs(r) \/ Ends(r) PROVE LBase'
  BY <1>4 DEF Execs, Ends
<1>5. ASSUME NEW r \in Runs, Sample(r) \/ Fails(r) \/ Clear(r) \/ Bind(r) \/ Listen(r)
      PROVE  LBase'
  BY <1>5 DEF Sample, Fails, Clear, Bind, Listen
<1>6. ASSUME NEW r \in Runs, Tell(r) PROVE LBase'
  BY <1>6 DEF Tell
<1>7. ASSUME NEW r \in Runs, SweepLists(r) \/ SweepProbes(r) \/ SweepRemoves(r) PROVE LBase'
  BY <1>7 DEF SweepLists, SweepProbes, SweepRemoves
<1>8. ASSUME NEW r \in Runs, Watch(r) \/ Follow(r) \/ Hangs(r) \/ IsKilled(r) PROVE LBase'
  BY <1>8 DEF Watch, Follow, Hangs, IsKilled
<1>9. ASSUME NEW p \in Paths, Age(p) PROVE LBase'
  BY <1>9 DEF Age
<1> QED
  BY <1>1, <1>2, <1>3, <1>4, <1>5, <1>6, <1>7, <1>8, <1>9 DEF Next, Serves

\* A relay goes on from one answering place to the next, ends, or gets stuck
\* before it bound; the files, the sweeps and the ages are left alone, or lose.
LEMMA Onward ==
  ASSUME LBase, LInv, NEW r \in Runs, NEW place,
         relay' = [relay EXCEPT ![r] = place],
         \/ place \in {"gone", "stuck"}
         \/ relay[r] = "listen" /\ place = "bound"
         \/ Answers(r) /\ place \in {"bound", "sweep", "probe", "reap", "watch", "serving"}
         \/ relay[r] = "start" /\ place = "clear",
         file' = file, old' = old,
         \A q \in Runs : found'[q] \subseteq found[q] /\ stale'[q] \subseteq stale[q]
  PROVE  LInv'
<1>1. relay'[r] = place /\ \A q \in Runs \ {r} : relay'[q] = relay[q]
  BY DEF LBase, TypeOK
<1>2. Exclusive'
  BY <1>1 DEF LInv, Exclusive, Alive, Answers
<1>3. Held'
  BY <1>1 DEF LInv, Held, Up, Answers
<1>4. Unswept'
  BY <1>1 DEF LInv, Unswept, Cleared, Up, Answers
<1> QED
  BY <1>2, <1>3, <1>4 DEF LInv

LEMMA StepLInv ==
  ASSUME Settled, LBase, LInv, [Next]_vars
  PROVE  LInv'
<1> USE RelayLifeAssumption DEF To, Quit
<1>1. CASE UNCHANGED vars
  BY <1>1 DEF vars, LInv, Exclusive, Held, Unswept, Cleared, Up, Answers, Alive
<1>2. ASSUME NEW r \in Runs, Launch(r) PROVE LInv'
  <2>1. \A q \in Runs \ {r} : NameOf[q] = NameOf[r] => ~ Alive(q)
    BY <1>2 DEF Launch, Settled, LBase, Lines, Alive
  <2>2. /\ relay[r] = "none" /\ relay'[r] \in {"none", "start"}
        /\ \A q \in Runs \ {r} : relay'[q] = relay[q]
    BY <1>2 DEF Launch, LBase, TypeOK, Lines
  <2>3. Exclusive'
    BY <2>1, <2>2 DEF LInv, Exclusive, Alive
  <2>4. Held' /\ Unswept'
    BY <1>2, <2>2 DEF Launch, LInv, Held, Unswept, Cleared, Up, Answers
  <2> QED
    BY <2>3, <2>4 DEF LInv
<1>3. ASSUME NEW r \in Runs, HearsLine(r) \/ HearsNothing(r) \/ Execs(r) \/ Ends(r)
      PROVE  LInv'
  BY <1>3 DEF HearsLine, HearsNothing, Execs, Ends, LInv, Exclusive, Held, Unswept, Cleared,
     Up, Answers, Alive
<1>4. ASSUME NEW r \in Runs,
             \/ GivesUp(r) \/ Fails(r) \/ Follow(r) \/ IsKilled(r) \/ Hangs(r)
             \/ Sample(r) \/ Listen(r) \/ Tell(r) \/ Watch(r)
      PROVE  LInv'
  <2>1. /\ file' = file /\ old' = old
        /\ \A q \in Runs : found'[q] \subseteq found[q] /\ stale'[q] \subseteq stale[q]
    BY <1>4 DEF GivesUp, Fails, Follow, IsKilled, Hangs, Sample, Listen, Tell, Watch, LBase,
       TypeOK
  <2>2. \E place :
          /\ relay' = [relay EXCEPT ![r] = place]
          /\ \/ place \in {"gone", "stuck"}
             \/ relay[r] = "listen" /\ place = "bound"
             \/ Answers(r) /\ place \in {"bound", "sweep", "probe", "reap", "watch", "serving"}
             \/ relay[r] = "start" /\ place = "clear"
    <3>1. CASE GivesUp(r) \/ Fails(r) \/ Follow(r) \/ IsKilled(r) \/ Hangs(r)
      BY <3>1 DEF GivesUp, Fails, Follow, IsKilled, Hangs
    <3>2. CASE Sample(r) \/ Listen(r) \/ Tell(r) \/ Watch(r)
      BY <3>2 DEF Sample, Listen, Tell, Watch, Answers
    <3> QED
      BY <1>4, <3>1, <3>2
  <2> QED
    BY <2>1, <2>2, Onward
<1>5. ASSUME NEW r \in Runs, Clear(r) PROVE LInv'
  <2>1. /\ relay'[r] = "bind" /\ relay[r] = "clear" /\ file'[NameOf[r]] = None
        /\ \A q \in Runs \ {r} : relay'[q] = relay[q]
        /\ \A p \in Paths \ {NameOf[r]} : file'[p] = file[p]
        /\ UNCHANGED <<old, found, stale>>
    BY <1>5 DEF Clear, LBase, TypeOK
  <2>2. \A q \in Runs : NameOf[r] \notin found[q] \cup stale[q]
    BY <1>5 DEF Clear, Settled
  <2>3. \A q \in Runs \ {r} : NameOf[q] = NameOf[r] => ~ Alive(q)
    BY <2>1 DEF LInv, Exclusive, Alive
  <2>4. Exclusive'
    BY <2>1, <2>3 DEF LInv, Exclusive, Alive
  <2>5. Held'
    BY <2>1, <2>3 DEF LInv, Held, Up, Answers, Alive
  <2>6. Unswept'
    BY <2>1, <2>2 DEF LInv, Unswept, Cleared, Up, Answers
  <2> QED
    BY <2>4, <2>5, <2>6 DEF LInv
<1>6. ASSUME NEW r \in Runs, Bind(r) PROVE LInv'
  <2>1. /\ relay'[r] = "listen" /\ relay[r] = "bind" /\ file'[NameOf[r]] = r
        /\ \A q \in Runs \ {r} : relay'[q] = relay[q]
        /\ \A p \in Paths \ {NameOf[r]} : file'[p] = file[p]
        /\ old' = old \ {NameOf[r]} /\ UNCHANGED <<found, stale>>
    BY <1>6 DEF Bind, LBase, TypeOK
  <2>2. \A q \in Runs \ {r} : NameOf[q] = NameOf[r] => ~ Alive(q)
    BY <2>1 DEF LInv, Exclusive, Alive
  <2>3. Exclusive'
    BY <2>1, <2>2 DEF LInv, Exclusive, Alive
  <2>4. Held'
    BY <2>1, <2>2 DEF LInv, Held, Up, Answers, Alive
  <2>5. Unswept'
    BY <2>1 DEF LInv, Unswept, Cleared, Up, Answers
  <2> QED
    BY <2>3, <2>4, <2>5 DEF LInv
<1>7. ASSUME NEW r \in Runs, SweepLists(r) PROVE LInv'
  <2>1. /\ relay'[r] = "probe" /\ relay[r] = "sweep"
        /\ \A q \in Runs \ {r} : relay'[q] = relay[q] /\ found'[q] = found[q]
        /\ found'[r] = {p \in old : file[p] # None}
        /\ UNCHANGED <<file, old, stale>>
    BY <1>7 DEF SweepLists, LBase, TypeOK
  <2>2. Exclusive' /\ Held'
    BY <2>1 DEF LInv, Exclusive, Held, Up, Answers, Alive
  <2>3. Unswept'
    BY <2>1 DEF LInv, Held, Unswept, Cleared, Up, Answers
  <2> QED
    BY <2>2, <2>3 DEF LInv
<1>8. ASSUME NEW r \in Runs, SweepProbes(r) PROVE LInv'
  <2>1. CASE relay' = [relay EXCEPT ![r] = "reap"] /\ UNCHANGED <<found, stale>>
    BY <1>8, <2>1, Onward DEF SweepProbes, Answers
  <2>2. ASSUME NEW p \in found[r],
               found' = [found EXCEPT ![r] = @ \ {p}],
               \/ stale' = stale
               \/ /\ ~ (file[p] # None /\ Answers(file[p]))
                  /\ stale' = [stale EXCEPT ![r] = @ \cup {p}],
               relay' = relay, file' = file, old' = old
        PROVE  LInv'
    <3>1. \A q \in Runs : found'[q] \subseteq found[q]
      BY <2>2 DEF LBase, TypeOK
    <3>2. \A q, u \in Runs : Cleared(u) /\ NameOf[u] \in stale'[q] => NameOf[u] = p
      BY <2>2 DEF LInv, Unswept, LBase, TypeOK
    <3>3. \A u \in Runs : Cleared(u) /\ NameOf[u] = p => Answers(u) /\ file[p] = u
      BY <2>2 DEF LInv, Unswept, Held, Cleared, Up
    <3>4. \A q, u \in Runs : Cleared(u) => NameOf[u] \notin stale'[q]
      BY <2>2, <3>2, <3>3 DEF LInv, Unswept
    <3>5. Exclusive' /\ Held'
      BY <2>2 DEF LInv, Exclusive, Held, Up, Answers, Alive
    <3>6. Unswept'
      BY <2>2, <3>1, <3>4 DEF LInv, Unswept, Cleared, Up, Answers
    <3> QED
      BY <3>5, <3>6 DEF LInv
  <2>3. UNCHANGED <<file, old>>
    BY <1>8 DEF SweepProbes
  <2>4. \/ relay' = [relay EXCEPT ![r] = "reap"] /\ UNCHANGED <<found, stale>>
        \/ \E p \in found[r] :
             /\ found' = [found EXCEPT ![r] = @ \ {p}]
             /\ \/ stale' = stale
                \/ /\ ~ (file[p] # None /\ Answers(file[p]))
                   /\ stale' = [stale EXCEPT ![r] = @ \cup {p}]
             /\ relay' = relay
    <3>1. CASE found[r] = {}
      BY <1>8, <3>1 DEF SweepProbes
    <3>2. ASSUME NEW p \in found[r],
                 found' = [found EXCEPT ![r] = @ \ {p}],
                 NEW dead \in IF file[p] # None /\ Answers(file[p]) THEN {{}} ELSE {{p}},
                 stale' = [stale EXCEPT ![r] = @ \cup dead],
                 relay' = relay
          PROVE  \/ stale' = stale
                 \/ /\ ~ (file[p] # None /\ Answers(file[p]))
                    /\ stale' = [stale EXCEPT ![r] = @ \cup {p}]
      <4>1. CASE dead = {}
        BY <3>2, <4>1 DEF LBase, TypeOK
      <4>2. CASE dead # {}
        BY <3>2, <4>2
      <4> QED
        BY <4>1, <4>2
    <3>3. "saturated" \notin Faults
      BY DEF Settled
    <3> QED
      BY <1>8, <3>1, <3>2, <3>3 DEF SweepProbes
  <2> QED
    BY <2>1, <2>2, <2>3, <2>4
<1>9. ASSUME NEW r \in Runs, SweepRemoves(r) PROVE LInv'
  <2>1. CASE relay' = [relay EXCEPT ![r] = "watch"] /\ UNCHANGED <<file, stale>>
    BY <1>9, <2>1, Onward DEF SweepRemoves, Answers
  <2>2. ASSUME NEW p \in stale[r],
               file' = [file EXCEPT ![p] = None],
               stale' = [stale EXCEPT ![r] = @ \ {p}], relay' = relay
        PROVE  LInv'
    <3>1. UNCHANGED <<old, found>> /\ \A q \in Runs : stale'[q] \subseteq stale[q]
      BY <1>9, <2>2 DEF SweepRemoves, LBase, TypeOK
    <3>2. \A u \in Runs : Cleared(u) => file'[NameOf[u]] = file[NameOf[u]]
      BY <2>2 DEF LInv, Unswept, LBase, TypeOK
    <3>3. Exclusive' /\ Held'
      BY <2>2, <3>2 DEF LInv, Exclusive, Held, Cleared, Up, Answers, Alive
    <3>4. Unswept'
      BY <2>2, <3>1 DEF LInv, Unswept, Cleared, Up, Answers
    <3> QED
      BY <3>3, <3>4 DEF LInv
  <2> QED
    BY <1>9, <2>1, <2>2 DEF SweepRemoves
<1>10. ASSUME NEW p \in Paths, Age(p) PROVE LInv'
  <2>1. \A r \in Runs : relay[r] = "listen" => NameOf[r] # p
    BY <1>10 DEF Age, LInv, Held, Up
  <2>2. old' = old \cup {p} /\ UNCHANGED <<relay, file, found, stale>>
    BY <1>10 DEF Age
  <2> QED
    BY <2>1, <2>2 DEF LInv, Exclusive, Held, Unswept, Cleared, Up, Answers, Alive
<1> QED
  BY <1>1, <1>2, <1>3, <1>4, <1>5, <1>6, <1>7, <1>8, <1>9, <1>10 DEF Next, Waits, Serves
-----------------------------------------------------------------------------
\* The runs, their relays and what a sweep has in hand keep their types.
THEOREM LifeTypeCorrect == Spec => []TypeOK
<1>1. LBase => TypeOK
  BY DEF LBase
<1> QED
  BY <1>1, LifeInit, StepLBase, PTL DEF Spec

\* No relay whose line the run has not read is left behind, wherever the relay
\* was when the run went on, its line just written included, and whatever goes
\* wrong (spawn_relay).
THEOREM NoneUnheard == Spec => []NoRelayUnheard
<1>1. LBase => NoRelayUnheard
  BY DEF LBase
<1> QED
  BY <1>1, LifeInit, StepLBase, PTL DEF Spec

\* A mounted socket is that of its own live relay, through any sweeps of any
\* other runs (SOCKET_REAP_GRACE, reap_stale_sockets), where names settle before
\* they come back and no backlog is full.
THEOREM MountedStaysServed ==
  ASSUME Settled
  PROVE  Spec => []MountedIsServed
<1>1. LBase /\ LInv => MountedIsServed
  <2> SUFFICES ASSUME LBase, LInv, NEW r \in Runs, run[r] \in {"bridged", "running"}, Alive(r)
               PROVE  file[NameOf[r]] = r
    BY DEF MountedIsServed
  <2>1. line[r] # None
    BY RelayLifeAssumption DEF LBase, Lines
  <2>2. Up(r)
    BY <2>1 DEF LBase, Lines, Up, Answers, Alive
  <2> QED
    BY <2>2 DEF LInv, Held
<1>2. LBase /\ LInv /\ [Next]_vars => (LBase /\ LInv)'
  BY StepLBase, StepLInv
<1> QED
  BY <1>1, <1>2, LifeInit, PTL DEF Spec
=============================================================================
