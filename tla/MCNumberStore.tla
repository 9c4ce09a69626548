---------------------------- MODULE MCNumberStore ----------------------------
(***************************************************************************)
(* NumberStore on small instances: two runs, two tabs, counters            *)
(* of a two-bit usize so that the wrap is reached, and requests that carry *)
(* adopted labels, labels to seed from and stale or missing tab lists.     *)
(***************************************************************************)
EXTENDS NumberStore, TLC

CONSTANTS r1, r2, t1, t2, s1, s2

MC2Runs == {r1, r2}
MCTabs == {t1, t2}
MC1Socket == {s1}
MC2Sockets == {s1, s2}

Foo    == [word |-> "foo", nums |-> <<>>]
Foo2   == [word |-> "foo", nums |-> <<2>>]
Foo3x2 == [word |-> "foo", nums |-> <<3, 2>>]
Human  == [word |-> "bar", nums |-> <<1>>]

MCBases == {Foo}

\* Requests in one session: with no tab list; with a label to adopt; and
\* with labels to seed from and a list taken before t2 was opened.
OneSessionRequests ==
  {[key |-> s1, base |-> Foo, tab |-> t, ownLabel |-> c[1], liveTabs |-> c[2],
    liveLabels |-> c[3], now |-> 0] :
      t \in MCTabs,
      c \in {<<None, None, {}>>, <<Foo2, MCTabs, {}>>,
            <<None, {t1}, {Foo3x2, Human}>>}}

\* Requests in two sessions and from a pane without a socket path, at two
\* times, with nothing to adopt.
ManySessionRequests ==
  {[key |-> k, base |-> Foo, tab |-> t1, ownLabel |-> None,
    liveTabs |-> None, liveLabels |-> {}, now |-> now] :
      k \in {s1, s2, None}, now \in {0, 1}}

RunSymmetry == Permutations(Runs)
=============================================================================
