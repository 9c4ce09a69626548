---------------------------- MODULE MCHerdrNaming ----------------------------
(***************************************************************************)
(* HerdrNaming on small instances: two or three tabs with one pane each,   *)
(* a few runs, at most one or two restarts of the herdr server.            *)
(***************************************************************************)
EXTENDS HerdrNaming, TLC

CONSTANTS t1, t2, t3, s1

MCSockets == {s1}
MC2Tabs == {t1, t2}
MC3Tabs == {t1, t2, t3}

N(word, nums) == [word |-> word, nums |-> nums]
MCAuto  == N("position", <<>>)
Foo     == N("foo", <<>>)
Foo1    == N("foo", <<1>>)
Mine    == N("mine", <<>>)

MCBases       == {Foo}
NoNames       == {}
MCHumanLabels == {Mine}
MCHumanAgents == {Foo1}
NoRequests    == {}

\* One pane per tab, standing for each other.
OnePanePerTab == [t \in Tabs |-> t]
TabSymmetry == Permutations(Tabs)
=============================================================================
