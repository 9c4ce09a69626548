----------------------------- MODULE HerdrNaming -----------------------------
(***************************************************************************)
(* src/src/naming.rs composed with the number store: `name_pane', which    *)
(* every `pall8t run' in a herdr pane executes before it turns into the    *)
(* container client, and the detached namer it leaves behind, which names  *)
(* the agent once herdr has detected it.  herdr itself is external: it     *)
(* lists tabs and agents, renames them, restores labels over a restart,    *)
(* and is the one that refuses an agent name somebody already answers to.  *)
(*                                                                         *)
(* One herdr session, one pane per element of Runs; a pane runs pall8t any *)
(* number of times, one run after the other.  A run starts in a pane only  *)
(* once the namer of the run before it is gone.  `auto_rename' is set (no  *)
(* action is taken otherwise) and every pane knows its tab and its socket. *)
(*                                                                         *)
(* Faults of NumberStore, and what else may go wrong:                      *)
(*   list, agents     herdr does not list its tabs, its agents             *)
(*   rename, relabel  herdr refuses to rename a tab, at either place       *)
(*   race             a human renames a tab between a run's tab.list and   *)
(*                    its number                                           *)
(*   wedge            herdr stops answering                                *)
(***************************************************************************)
EXTENDS NumberStore

CONSTANTS
  Socket,       \* the session's API socket path
  TabOf,        \* the tab of each pane
  Closed,       \* the label of a tab that is gone for good
  AutoLabel,    \* a tab's own label, its position
  HumanTabs,    \* bound: the tabs a human renames
  HumanLabels,  \* labels a human may give a tab
  HumanAgents,  \* names a human may give an agent pall8t did not start
  Expects,      \* whether runs carry an agent hint
  Unnamed,      \* a detected agent nobody has named
  MaxStarts,    \* bound: `pall8t run's ever started
  MaxRestarts   \* bound: herdr server restarts

ASSUME HerdrNamingAssumption ==
  /\ Socket \in SocketPaths
  /\ TabOf \in [Runs -> Tabs]
  /\ HumanTabs \subseteq Tabs
  /\ AutoLabel \in Name /\ HumanLabels \subseteq Name /\ HumanAgents \subseteq Name
  /\ {None, Closed, Unnamed} \cap Name = {} /\ None \notin {Closed, Unnamed}
  /\ Expects \subseteq BOOLEAN
  /\ MaxStarts \in Nat /\ MaxRestarts \in Nat

VARIABLES
  label,      \* what each tab shows: None until opened, Closed for ever after
  author,     \* who gave it that label
  agent,      \* the detected agent of each pane: None, Unnamed or its name
  others,     \* names of agents pall8t did not start
  job,        \* how far name_pane is in each pane
  namer,      \* the detached namer of each pane
  wedged,     \* herdr answers no call any more, and no call returns
  handed,     \* who was handed which number in this server run
  late,       \* panes whose tab a human has named since their run looked at it
  starts, restarts

herdrVars == <<label, author, agent, others>>
paneVars  == <<job, namer>>
restVars  == <<wedged, late, starts, restarts>>
vars == <<storeVars, herdrVars, paneVars, handed, restVars>>

Idle == [at |-> "idle", expect |-> FALSE, ours |-> FALSE,
         renamed |-> FALSE, name |-> None]
NoNamer == [at |-> "none", name |-> None, tab |-> FALSE, k |-> 1]

OpenTabs == {t \in Tabs : label[t] \notin {None, Closed}}
AgentNames == others \cup {agent[p] : p \in {q \in Runs : agent[q] \notin {None, Unnamed}}}

TypeOK ==
  /\ StoreTypeOK
  /\ label \in [Tabs -> Name \cup {None, Closed}]
  /\ author \in [Tabs -> {"herdr", "pall8t", "human"}]
  /\ agent \in [Runs -> Name \cup {None, Unnamed}]
  /\ others \subseteq HumanAgents
  /\ job \in [Runs -> [at : {"idle", "number", "rename", "spawn", "exec"},
                       expect : BOOLEAN, ours : BOOLEAN, renamed : BOOLEAN,
                       name : Name \cup {None}]]
  /\ namer \in [Runs -> [at : {"none", "waiting", "naming", "relabel", "over"},
                         name : Name \cup {None}, tab : BOOLEAN,
                         k : 1 .. CollisionTries + 1]]
  /\ wedged \in BOOLEAN
  /\ handed \subseteq [tab : Tabs, base : Bases, number : Usize]
  /\ late \subseteq Runs
  /\ starts \in 0 .. MaxStarts
  /\ restarts \in 0 .. MaxRestarts

Init ==
  /\ StoreInit
  /\ label = [t \in Tabs |-> None]
  /\ author = [t \in Tabs |-> "herdr"]
  /\ agent = [r \in Runs |-> None]
  /\ others = {}
  /\ job = [r \in Runs |-> Idle]
  /\ namer = [r \in Runs |-> NoNamer]
  /\ wedged = FALSE
  /\ handed = {}
  /\ late = {}
  /\ starts = 0
  /\ restarts = 0
-----------------------------------------------------------------------------
\* name_pane up to its call of number_for: one tab.list tells whose the label
\* is, what the other tabs show and which tabs there are.  A run that can
\* label nothing and expects no agent stops here, without a number.
Begin(r) ==
  /\ job[r].at = "idle" /\ namer[r].at = "none" /\ ~ wedged
  /\ TabOf[r] \in OpenTabs
  /\ starts < MaxStarts
  /\ \E base \in Bases, expect \in Expects,
        listed \in {TRUE} \cup (IF "list" \in Faults THEN {FALSE} ELSE {}) :
       LET t      == TabOf[r]
           ours   == listed /\ (label[t] = AutoLabel \/ LabelIsPall8tOwn(label[t], base))
           rest   == {label[u] : u \in OpenTabs \ {t}}
       IN  /\ job' = [job EXCEPT ![r] =
                        [at |-> IF ours \/ expect THEN "number" ELSE "exec",
                         expect |-> expect, ours |-> ours,
                         renamed |-> FALSE, name |-> None]]
           /\ IF ours \/ expect
              THEN Ask(r, [key        |-> Socket,
                           base       |-> base,
                           tab        |-> t,
                           ownLabel   |-> IF listed THEN label[t] ELSE None,
                           liveTabs   |-> IF listed THEN OpenTabs ELSE None,
                           liveLabels |-> IF listed THEN rest ELSE {},
                           now        |-> 0])
              ELSE UNCHANGED storeVars
  /\ starts' = starts + 1
  /\ late' = late \ {r}
  /\ UNCHANGED <<herdrVars, namer, wedged, handed, restarts>>

\* number_for, one step of it.
Number(r) ==
  /\ job[r].at = "number"
  /\ Step(r)
  /\ UNCHANGED <<herdrVars, paneVars, handed, restVars>>

\* The number is there, or is not: the live agents' names are added to the
\* labels read before, and the first free candidate becomes the name.
Choose(r) ==
  /\ job[r].at = "number" /\ pc[r] = "done" /\ ~ wedged
  /\ \E listed \in {TRUE} \cup (IF "agents" \in Faults THEN {FALSE} ELSE {}) :
       LET taken == req[r].liveLabels \cup (IF listed THEN AgentNames ELSE {})
       IN  job' = [job EXCEPT
                     ![r].at = IF job[r].ours THEN "rename" ELSE "spawn",
                     ![r].name = FirstFree(req[r].base, number[r], taken)]
  /\ handed' = handed \cup
                 (IF number[r] = None THEN {}
                  ELSE {[tab |-> TabOf[r], base |-> req[r].base, number |-> number[r]]})
  /\ UNCHANGED <<storeVars, herdrVars, namer, restVars>>

\* `herdr tab rename', which changes nothing when it fails.
RenameTab(r) ==
  /\ job[r].at = "rename" /\ ~ wedged
  /\ \/ /\ TabOf[r] \in OpenTabs
        /\ label' = [label EXCEPT ![TabOf[r]] = job[r].name]
        /\ author' = [author EXCEPT ![TabOf[r]] = "pall8t"]
        /\ job' = [job EXCEPT ![r].at = "spawn", ![r].renamed = TRUE]
     \/ /\ "rename" \in Faults
        /\ job' = [job EXCEPT ![r].at = "spawn"]
        /\ UNCHANGED <<label, author>>
  /\ UNCHANGED <<storeVars, agent, others, namer, handed, restVars>>

\* Fault: the namer is told of the tab whether or not it was renamed.
SpawnWithTab(r) ==
  /\ job[r].at = "spawn"
  /\ job' = [job EXCEPT ![r].at = "exec"]
  /\ \/ UNCHANGED namer
     \/ /\ job[r].expect
        /\ namer' = [namer EXCEPT ![r] = [at |-> "waiting", name |-> job[r].name,
                                          tab |-> TRUE, k |-> 1]]
  /\ UNCHANGED <<storeVars, herdrVars, handed, restVars>>

\* The namer is spawned where an agent is expected, told of the tab only
\* where the tab was renamed; it may fail to, which costs a warning.  Then the
\* run execs the container client.
Spawn(r) ==
  /\ job[r].at = "spawn"
  /\ job' = [job EXCEPT ![r].at = "exec"]
  /\ \/ UNCHANGED namer
     \/ /\ job[r].expect
        /\ namer' = [namer EXCEPT ![r] = [at |-> "waiting", name |-> job[r].name,
                                          tab |-> job[r].renamed, k |-> 1]]
  /\ UNCHANGED <<storeVars, herdrVars, handed, restVars>>

\* The run ends, or dies at any point before: with it go its lock, if it had
\* it, and its agent.
End(r) ==
  /\ job[r].at # "idle"
  /\ job' = [job EXCEPT ![r] = Idle]
  /\ agent' = [agent EXCEPT ![r] = None]
  /\ IF pc[r] = "idle" THEN UNCHANGED storeVars ELSE Exit(r)
  /\ UNCHANGED <<label, author, others, namer, handed, restVars>>
-----------------------------------------------------------------------------
\* wait_for_agent.  The agent is looked for before the run is, so an agent
\* detected in the breath the run ends is still named.
NamerDetects(r) ==
  /\ namer[r].at = "waiting" /\ agent[r] # None /\ ~ wedged
  /\ namer' = [namer EXCEPT ![r].at = "naming"]
  /\ UNCHANGED <<storeVars, herdrVars, job, handed, restVars>>

\* Fault: the namer gives up on its clock only, never because its run is over.
NamerKeepsWaiting(r) ==
  /\ namer[r].at = "waiting" /\ agent[r] = None /\ job[r].at = "exec" /\ ~ wedged
  /\ namer' = [namer EXCEPT ![r].at = "over"]
  /\ UNCHANGED <<storeVars, herdrVars, job, handed, restVars>>

\* The run is over, or AGENT_WAIT is: nothing is named.
NamerStopsWaiting(r) ==
  /\ namer[r].at = "waiting" /\ agent[r] = None /\ ~ wedged
  /\ namer' = [namer EXCEPT ![r].at = "over"]
  /\ UNCHANGED <<storeVars, herdrVars, job, handed, restVars>>

\* Fault: the agent is renamed past a collision and the tab is not.
NamerLeavesTabBehind(r) ==
  LET walk == Candidates(namer[r].name, None)
      left == namer[r].k <= CollisionTries
  IN  /\ namer[r].at = "naming" /\ (left => ~ wedged)
      /\ \/ /\ namer' = [namer EXCEPT ![r].at = "over"]
            /\ UNCHANGED agent
         \/ /\ left /\ agent[r] # None
            /\ walk[namer[r].k] \in AgentNames \ {agent[r]}
            /\ namer' = [namer EXCEPT ![r].k = @ + 1]
            /\ UNCHANGED agent
         \/ /\ left /\ agent[r] # None
            /\ walk[namer[r].k] \notin AgentNames \ {agent[r]}
            /\ agent' = [agent EXCEPT ![r] = walk[namer[r].k]]
            /\ namer' = [namer EXCEPT ![r].at = "over"]
  /\ UNCHANGED <<storeVars, label, author, others, job, handed, restVars>>

\* rename_with_retries, one `herdr agent rename': a taken name moves the walk
\* on; its end, or any other refusal (the agent is gone, herdr is), ends it.
NamerTries(r) ==
  LET walk == Candidates(namer[r].name, None)
      left == namer[r].k <= CollisionTries
  IN  /\ namer[r].at = "naming" /\ (left => ~ wedged)
      /\ \/ /\ namer' = [namer EXCEPT ![r].at = "over"]
            /\ UNCHANGED agent
         \/ /\ left /\ agent[r] # None
            /\ walk[namer[r].k] \in AgentNames \ {agent[r]}
            /\ namer' = [namer EXCEPT ![r].k = @ + 1]
            /\ UNCHANGED agent
         \/ /\ left /\ agent[r] # None
            /\ walk[namer[r].k] \notin AgentNames \ {agent[r]}
            /\ agent' = [agent EXCEPT ![r] = walk[namer[r].k]]
            /\ namer' = [namer EXCEPT ![r].at =
                            IF namer[r].tab /\ namer[r].k # 1 THEN "relabel" ELSE "over"]
  /\ UNCHANGED <<storeVars, label, author, others, job, handed, restVars>>

\* relabel_tab: the tab follows the agent when a collision changed the name,
\* whatever it has come to show meanwhile.
NamerRelabels(r) ==
  /\ namer[r].at = "relabel" /\ ~ wedged
  /\ \/ /\ TabOf[r] \in OpenTabs
        /\ label' = [label EXCEPT ![TabOf[r]] =
                       Candidates(namer[r].name, None)[namer[r].k]]
        /\ author' = [author EXCEPT ![TabOf[r]] = "pall8t"]
     \/ /\ "relabel" \in Faults \/ TabOf[r] \notin OpenTabs
        /\ UNCHANGED <<label, author>>
  /\ namer' = [namer EXCEPT ![r].at = "over"]
  /\ UNCHANGED <<storeVars, agent, others, job, handed, restVars>>

\* wait_out_spawning_run: the namer is gone once its run is.
NamerLeaves(r) ==
  /\ namer[r].at = "over" /\ job[r].at = "idle"
  /\ namer' = [namer EXCEPT ![r] = NoNamer]
  /\ UNCHANGED <<storeVars, herdrVars, job, handed, restVars>>

NamerStep(r) ==
  \/ NamerDetects(r) \/ NamerStopsWaiting(r) \/ NamerTries(r)
  \/ NamerRelabels(r) \/ NamerLeaves(r)
-----------------------------------------------------------------------------
\* herdr and its human.

\* The sandboxed agent shows up in its pane.
AgentAppears(r) ==
  /\ job[r].at = "exec" /\ job[r].expect /\ agent[r] = None
  /\ agent' = [agent EXCEPT ![r] = Unnamed]
  /\ UNCHANGED <<storeVars, label, author, others, paneVars, handed, restVars>>

\* Tab ids are never used twice.
OpenTab(t) ==
  /\ label[t] = None
  /\ label' = [label EXCEPT ![t] = AutoLabel]
  /\ UNCHANGED <<storeVars, author, agent, others, paneVars, handed, restVars>>

\* A tab closes once nothing runs in its panes.
CloseTab(t) ==
  /\ t \in OpenTabs
  /\ \A r \in Runs : TabOf[r] = t => job[r].at = "idle"
  /\ label' = [label EXCEPT ![t] = Closed]
  /\ UNCHANGED <<storeVars, author, agent, others, paneVars, handed, restVars>>

\* A human renames a tab at any time, before, between and after what pall8t
\* does to it; without "race" not between a run's tab.list and its number.
HumanRenames(t) ==
  /\ t \in OpenTabs
  /\ "race" \in Faults \/ \A r \in Runs : TabOf[r] = t => job[r].at # "number"
  /\ \E l \in HumanLabels \ {label[t]} : label' = [label EXCEPT ![t] = l]
  /\ author' = [author EXCEPT ![t] = "human"]
  /\ late' = late \cup {r \in Runs : TabOf[r] = t}
  /\ UNCHANGED <<storeVars, agent, others, paneVars, wedged, handed, starts, restarts>>

\* Somebody names an agent pall8t has nothing to do with.
HumanNamesAgent(n) ==
  /\ n \in HumanAgents \ AgentNames
  /\ others' = others \cup {n}
  /\ UNCHANGED <<storeVars, label, author, agent, paneVars, handed, restVars>>

\* herdr stops answering, until it is restarted.
Wedges ==
  /\ "wedge" \in Faults /\ ~ wedged
  /\ wedged' = TRUE
  /\ UNCHANGED <<storeVars, herdrVars, paneVars, handed, late, starts, restarts>>

\* The herdr server stops, taking the panes' processes with it, and starts
\* again on a new socket with every label restored.
Restart ==
  /\ restarts < MaxRestarts
  /\ \A r \in Runs : job[r].at = "idle" /\ namer[r].at = "none"
  /\ Rebind(Socket)
  /\ wedged' = FALSE
  /\ handed' = {}
  /\ others' = {}
  /\ restarts' = restarts + 1
  /\ UNCHANGED <<label, author, agent, paneVars, late, starts>>
-----------------------------------------------------------------------------
Next ==
  \/ \E r \in Runs : \/ Begin(r) \/ Number(r) \/ Choose(r) \/ RenameTab(r)
                     \/ Spawn(r) \/ End(r) \/ NamerStep(r) \/ AgentAppears(r)
  \/ \E t \in Tabs : OpenTab(t) \/ CloseTab(t)
  \/ \E t \in HumanTabs : HumanRenames(t)
  \/ \E n \in HumanAgents : HumanNamesAgent(n)
  \/ Wedges \/ Restart

Spec == Init /\ [][Next]_vars

\* A namer keeps going where its calls of herdr return: none of them has a
\* deadline, so nothing is assumed of it once herdr is wedged.
FairSpec == Spec /\ \A r \in Runs : WF_vars(NamerStep(r))
-----------------------------------------------------------------------------
\* No two tabs are handed the same number under the same base while one herdr
\* server run lasts, however the runs in them interleave, crash and repeat
\* (module doc of tab_numbers.rs: `handed out once and never reused').
NumbersUnique ==
  \A h, g \in handed :
    h.base = g.base /\ h.number = g.number => h.tab = g.tab

\* The tab and the agent carry the same string once the namer is done with a
\* run that named both, however far the walk had to go (naming.rs, issue #71).
TabAndAgentAgree ==
  \A r \in Runs :
    (/\ namer[r].at = "over" /\ job[r].at = "exec"
     /\ job[r].renamed /\ agent[r] \notin {None, Unnamed}
     /\ TabOf[r] \in OpenTabs /\ author[TabOf[r]] = "pall8t")
      => label[TabOf[r]] = agent[r]

\* pall8t's name is put over a label a human chose only where that reads as a
\* name pall8t would have picked, or was chosen after the run had looked: a run
\* never takes what it found for its own, and tells its namer of no tab it has
\* not labelled (README: `A tab you renamed is never clobbered').  Neither the
\* run's rename nor the namer's, up to AGENT_WAIT later, looks again.
HumanLabelKept ==
  [][\A r \in Runs :
       LET t == TabOf[r]
       IN  (/\ author[t] = "human" /\ author'[t] = "pall8t"
            /\ job'[r] # job[r] \/ namer'[r] # namer[r])
             => r \in late \/ \E b \in Bases : LabelIsPall8tOwn(label[t], b)]_vars

\* The namer's place is one where it calls herdr, and the call does not return.
HeldByHerdr(r) == wedged /\ namer[r].at \in {"waiting", "naming", "relabel"}

\* A namer does not outlive its run for ever, unless a herdr that has stopped
\* answering holds it: it notices the end of the run wherever it is, waiting for
\* an agent included, and once it is done with herdr nothing holds it.
NamerFollowsRun ==
  \A r \in Runs :
    (namer[r].at # "none" /\ job[r].at = "idle") ~>
      (namer[r].at = "none" \/ HeldByHerdr(r))
=============================================================================
