----------------------------- MODULE TabNumbers -----------------------------
(***************************************************************************)
(* The decision of src/src/tab_numbers.rs: which number a run's name takes *)
(* and what the state file says afterwards.  It is a pure function of the  *)
(* recorded sessions, of the identity read off the herdr socket, and of    *)
(* the request, as `allocate' is in the code.                              *)
(***************************************************************************)
EXTENDS Names

CONSTANTS
  SocketPaths,   \* herdr API socket paths, one per named herdr session
  Tabs,          \* herdr tab ids
  Bases,         \* the base names runs ask numbers for
  Inodes,        \* what (dev, ino) of a socket can be
  Births,        \* what st_birthtime of a socket can be
  MaxSessions    \* MAX_SESSIONS

\* session_key: a pane that was told no socket path uses the empty key.
Keys == SocketPaths \cup {None}

ServerRun == [ino : Inodes, birth : Births \cup {None}]
OptServer == ServerRun \cup {None}

Assigned == [base : Bases, number : Usize]

Session == [server   : OptServer,
            lastUsed : Nat,
            next     : [Bases -> Usize],    \* 0 : no entry for this base
            tabs     : [Tabs -> Assigned \cup {None}]]

ASSUME TabNumbersAssumption ==
  /\ Bases \subseteq Name
  /\ MaxSessions \in Nat \ {0}
  /\ None \notin SocketPaths \cup Tabs \cup Births \cup Name
  /\ None \notin Usize \cup Assigned \cup Session

Sessions == [Keys -> Session \cup {None}]

Alloc == [key        : Keys,
          base       : Bases,
          tab        : Tabs,
          ownLabel   : Name \cup {None},
          liveTabs   : (SUBSET Tabs) \cup {None},
          liveLabels : SUBSET Name,
          now        : Nat]

EmptySession == [server   |-> None,
                 lastUsed |-> 0,
                 next     |-> [b \in Bases |-> 0],
                 tabs     |-> [t \in Tabs |-> None]]

NoSessions == [k \in Keys |-> None]
-----------------------------------------------------------------------------
Larger(a, b) == IF a >= b THEN a ELSE b

\* `n + 1' in the width of usize: a release build wraps.
Succ(n) == IF n = UsizeMax THEN 0 ELSE n + 1

\* ServerRun::same_run: an absent birth time tells no two runs apart.
SameRun(r, l) ==
  /\ r.ino = l.ino
  /\ (r.birth # None /\ l.birth # None) => r.birth = l.birth

\* keeps_counting: unknown, on either side, keeps the count.
KeepsCounting(recorded, live) ==
  \/ recorded = None
  \/ live = None
  \/ SameRun(recorded, live)

\* prune_tabs: forget the tabs herdr no longer lists, never the run's own.
PruneTabs(tabs, live, keep) ==
  [t \in Tabs |-> IF live = None \/ t = keep \/ t \in live
                  THEN tabs[t] ELSE None]

\* Fault: labels on screen are not read before counting from 1.
SeedIgnoringLabels(labels, base) == 1

\* seed_from_labels: one past the highest number on screen for this base.
SeedFromLabels(labels, base) ==
  LET shown == UNION {NumberInLabel(l, base) : l \in labels}
  IN  IF shown = {} THEN 1 ELSE Succ(Max(shown))

\* Alloc::adopt: the numbers (at most one) the tab's own label carries.
Adopt(q) ==
  IF q.ownLabel = None THEN {} ELSE NumberInLabel(q.ownLabel, q.base)

\* Fault: the entry used last is evicted.
EvictNewest(sessions, keep) ==
  LET held   == {k \in Keys : sessions[k] # None}
      newest == CHOOSE k \in held \ {keep} :
                  \A j \in held \ {keep} :
                    sessions[k].lastUsed >= sessions[j].lastUsed
  IN  IF Cardinality(held) > MaxSessions /\ held \ {keep} # {}
      THEN [sessions EXCEPT ![newest] = None]
      ELSE sessions

\* evict: one allocation adds at most one session to a file that holds at
\* most MaxSessions, so the code's loop removes at most one.
Evict(sessions, keep) ==
  LET held   == {k \in Keys : sessions[k] # None}
      oldest == CHOOSE k \in held \ {keep} :
                  \A j \in held \ {keep} :
                    sessions[k].lastUsed <= sessions[j].lastUsed
  IN  IF Cardinality(held) > MaxSessions /\ held \ {keep} # {}
      THEN [sessions EXCEPT ![oldest] = None]
      ELSE sessions
-----------------------------------------------------------------------------
\* The session a request continues: the recorded one, unless a different
\* server run is listening now, in which case tabs and counters start over.
Continued(sessions, live, key) ==
  LET old == sessions[key]
  IN  IF old # None
      THEN IF KeepsCounting(old.server, live) THEN old ELSE EmptySession
      ELSE EmptySession

\* Does the tab already hold a number under this base?
Holds(session, q) ==
  /\ session.tabs[q.tab] # None
  /\ session.tabs[q.tab].base = q.base

CounterFor(session, q) ==
  Larger(session.next[q.base], SeedFromLabels(q.liveLabels, q.base))

\* The number handed out: the recorded one, else the one the tab's own label
\* carries, else the counter.
NumberOf(session, q) ==
  IF Holds(session, q) THEN session.tabs[q.tab].number
  ELSE IF Adopt(q) # {} THEN CHOOSE n \in Adopt(q) : TRUE
  ELSE CounterFor(session, q)

\* Fault: an adopted number moves the counter to one past itself, back
\* included.
RecordedGoingBack(session, live, q) ==
  LET number == NumberOf(session, q)
  IN  [server   |-> IF live = None THEN session.server ELSE live,
       lastUsed |-> q.now,
       next     |-> IF Holds(session, q) THEN session.next
                    ELSE [session.next EXCEPT ![q.base] = Succ(number)],
       tabs     |-> IF Holds(session, q) THEN session.tabs
                    ELSE [session.tabs EXCEPT ![q.tab] =
                            [base |-> q.base, number |-> number]]]

\* Fault: an adopted number is remembered and the counter not moved past it.
RecordedNotPastAdopted(session, live, q) ==
  LET number == NumberOf(session, q)
  IN  [server   |-> IF live = None THEN session.server ELSE live,
       lastUsed |-> q.now,
       next     |-> IF Holds(session, q) \/ Adopt(q) # {} THEN session.next
                    ELSE [session.next EXCEPT ![q.base] =
                            Larger(CounterFor(session, q), Succ(number))],
       tabs     |-> IF Holds(session, q) THEN session.tabs
                    ELSE [session.tabs EXCEPT ![q.tab] =
                            [base |-> q.base, number |-> number]]]

\* The session as recorded: a newly handed-out number is remembered and the
\* counter moves past it; a reused one changes neither.
Recorded(session, live, q) ==
  LET number == NumberOf(session, q)
  IN  [server   |-> IF live = None THEN session.server ELSE live,
       lastUsed |-> q.now,
       next     |-> IF Holds(session, q) THEN session.next
                    ELSE [session.next EXCEPT ![q.base] =
                            Larger(CounterFor(session, q), Succ(number))],
       tabs     |-> IF Holds(session, q) THEN session.tabs
                    ELSE [session.tabs EXCEPT ![q.tab] =
                            [base |-> q.base, number |-> number]]]

\* The session `allocate' works on, pruned.
Working(sessions, live, q) ==
  LET session == Continued(sessions, live, q.key)
  IN  [session EXCEPT !.tabs = PruneTabs(@, q.liveTabs, q.tab)]

\* allocate, its two results.
AllocateNumber(sessions, live, q) == NumberOf(Working(sessions, live, q), q)

AllocateState(sessions, live, q) ==
  Evict([sessions EXCEPT ![q.key] =
           Recorded(Working(sessions, live, q), live, q)], q.key)
-----------------------------------------------------------------------------
\* A recorded number is behind its counter, so the counter cannot hand it
\* out again.  The exception is the wrap at usize::MAX: past it the counter
\* is stuck (see Succ).
BehindCounter(session) ==
  \A t \in Tabs :
    LET a == session.tabs[t]
    IN  a # None => \/ a.number < session.next[a.base]
                    \/ a.number = UsizeMax

\* The counters of `to' continue those of `from'.
Continues(from, to) ==
  \A b \in Bases : from.next[b] <= to.next[b]
=============================================================================
