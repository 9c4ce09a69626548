---------------------------- MODULE CommandsProofs ----------------------------
(***************************************************************************)
(* What a sandbox reaches and what is said of it, for any two              *)
(* configuration files, any mounts on any machine and any pane: a command  *)
(* decides by two files that need not be of one mind, and its decisions    *)
(* are carried past a dozen steps to the process it becomes.               *)
(***************************************************************************)
EXTENDS Commands, WellFoundedInduction, TLAPS

Commandline == {s.cmd : s \in Starts}

\* The places only `run' comes to, in the order it does, and those it shares.
OfRun   == {"implicit", "entries", "reserve", "ssh", "announce", "name", "bridge",
            "relay", "exec"}
Planned == {"probe", "start", "version", "build", "reserve", "ssh", "announce", "name",
            "bridge", "asking", "relay", "exec"}
Decided == {"announce", "name", "bridge", "asking", "relay", "exec"}

\* Where each command can be.
Paced ==
  /\ pc \in OfRun => cmd.name = "run"
  /\ pc = "list" => cmd.name = "ls"
  /\ pc = "workdir" => cmd.name = "exec"
  /\ pc = "doctor" => cmd.name = "doctor"
  /\ pc \in {"probe", "start", "version"} => cmd.name \in {"run", "build", "ls", "exec", "stop"}
  /\ pc \in {"global", "project"} => cmd.name \in {"run", "build", "doctor"}
  /\ pc \in {"doctor", "global", "project"} => read["project"] = None
  /\ cmd.name = "run" /\ pc \in {"implicit", "entries"} \cup Planned => cfg # None

\* The configuration is what the two files that were read come to, and what is
\* to be said of them is said.
Merged ==
  cfg # None =>
    /\ read["global"] \in Raw
    /\ cfg = Merge(read["global"], read["project"])
    /\ Warnings(read["global"], read["project"]) \subseteq told

\* While entries are resolved, the mounts begin with those pall8t makes itself.
Placed ==
  /\ mounts \in Seq(Mounts) /\ next >= 1
  /\ pc = "entries" =>
       /\ Implicit(Cwd) # None /\ Len(Implicit(Cwd)) <= Len(mounts)
       /\ \A i \in 1 .. Len(Implicit(Cwd)) : mounts[i] = Implicit(Cwd)[i]

Base ==
  /\ TypeOK /\ Paced /\ Merged /\ Placed
  /\ host \in Host
  /\ pc = "project" => read["global"] \in Raw

-----------------------------------------------------------------------------
\* Configuration.

LEMMA MergeType ==
  ASSUME NEW g \in Raw, NEW p \in Raw
  PROVE  Merge(g, p) \in Config
<1> DEFINE c == Merge(g, p)
<1>1. \A f \in Plain : g.plain[f] \in Opt(Values) /\ p.plain[f] \in Opt(Values)
  BY DEF Raw
<1>2. \A f \in Plain : BuiltIn[f] \in Opt(Values)
  BY ConfigAssumption DEF BuiltIn, Opt
<1>3. [f \in Plain |-> OrElse(p.plain[f], OrElse(g.plain[f], BuiltIn[f]))]
        \in [Plain -> Opt(Values)]
  BY <1>1, <1>2 DEF OrElse
<1>4. MergedSsh(g.ssh, p.ssh) \in BOOLEAN
  BY ConfigAssumption DEF Raw, Opt, OrElse, MergedSsh
<1>5. /\ OrElse(p.hardening, OrElse(g.hardening, "default")) \in Hardenings
      /\ OrElse(p.mounts, OrElse(g.mounts, << >>)) \in MountLists
      /\ OrElse(p.agentName, g.agentName) \in Opt(Names)
  BY ConfigAssumption DEF Raw, Opt, OrElse, Hardenings
<1>6. OrElse(p.autoRename, OrElse(g.autoRename, FALSE)) \in BOOLEAN
  BY ConfigAssumption DEF Raw, Opt, OrElse
<1>7. MergedSandbox(g.sandbox, p.sandbox) \in Sandboxes
  BY DEF Raw, Opt, OrElse, MergedSandbox, Sandboxes
<1>8. (p.mounts # None) \in BOOLEAN
  OBVIOUS
<1> QED
  BY <1>3, <1>4, <1>5, <1>6, <1>7, <1>8 DEF Merge, Config

LEMMA ReadRawType ==
  ASSUME NEW f \in Files, f # Invalid
  PROVE  ReadRaw(f) \in Raw
<1>1. Unstated \in Raw
  BY DEF Unstated, Raw, Opt
<1> QED
  BY <1>1 DEF Files, ReadRaw, OrElse

LEMMA WarningsToldType ==
  ASSUME NEW g, NEW p
  PROVE  Warnings(g, p) \subseteq Messages /\ ReposRemoved(g, p) \subseteq Messages
BY DEF Warnings, ReposRemoved, Messages

\* The sandbox mode is one of the three, and never wider than the human's.
LEMMA SandboxNarrows ==
  ASSUME NEW g \in Opt(Sandboxes), NEW p \in Opt(Sandboxes)
  PROVE  SandboxRank[MergedSandbox(g, p)] >= SandboxRank[OrElse(g, "full")]
<1>1. /\ SandboxRank["full"] = 0
      /\ SandboxRank["readonly"] = 1
      /\ SandboxRank["off"] = 2
  BY DEF SandboxRank, Sandboxes
<1> QED
  BY <1>1, ConfigAssumption DEF MergedSandbox, OrElse, Opt, Sandboxes
-----------------------------------------------------------------------------
\* Mounts.

LEMMA GitDirType ==
  ASSUME NEW d \in Paths
  PROVE  MainGitDir(d) \in AnyPath \cup {None}
BY MountAssumption DEF MainGitDir

LEMMA DirMountType ==
  ASSUME NEW h \in AnyPath, NEW d \in AnyPath, NEW ro \in BOOLEAN,
         DirMount(h, d, ro) # None
  PROVE  /\ DirMount(h, d, ro) \in Mounts
         /\ DirMount(h, d, ro).host = h
BY DEF DirMount, Mount, Mounts

\* What is mounted of itself: the workspace, and its git directory.
LEMMA ImplicitType ==
  ASSUME NEW cwd \in Paths, Implicit(cwd) # None
  PROVE  /\ Implicit(cwd) \in Seq(Mounts)
         /\ \A i \in DOMAIN Implicit(cwd) : Implicit(cwd)[i].host \in {cwd, MainGitDir(cwd)}
<1> DEFINE git == MainGitDir(cwd)
           dirs == IF git = None THEN <<cwd>> ELSE <<cwd, git>>
<1>1. dirs \in Seq(AnyPath) /\ \A i \in DOMAIN dirs : dirs[i] \in {cwd, git}
  BY GitDirType, MountAssumption
<1>2. /\ \A i \in DOMAIN dirs : DirMount(dirs[i], dirs[i], FALSE) # None
      /\ Implicit(cwd) = [i \in DOMAIN dirs |-> DirMount(dirs[i], dirs[i], FALSE)]
  BY DEF Implicit
<1>3. \A i \in DOMAIN dirs : /\ DirMount(dirs[i], dirs[i], FALSE) \in Mounts
                            /\ DirMount(dirs[i], dirs[i], FALSE).host = dirs[i]
  <2>1. TAKE i \in DOMAIN dirs
  <2>2. dirs[i] \in AnyPath
    BY <1>1
  <2> QED
    BY <1>2, <2>2, DirMountType
<1> HIDE DEF dirs
<1>4. DOMAIN dirs = 1 .. Len(dirs) /\ Len(dirs) \in Nat
  BY <1>1
<1>5. Implicit(cwd) \in [1 .. Len(dirs) -> Mounts]
  BY <1>2, <1>3, <1>4
<1>6. Implicit(cwd) \in Seq(Mounts)
  BY <1>4, <1>5
<1>7. \A i \in DOMAIN Implicit(cwd) : Implicit(cwd)[i].host \in {cwd, git}
  <2>1. TAKE i \in DOMAIN Implicit(cwd)
  <2>2. i \in DOMAIN dirs /\ Implicit(cwd)[i] = DirMount(dirs[i], dirs[i], FALSE)
    BY <1>2
  <2> QED
    BY <1>1, <1>3, <2>2
<1> QED
  BY <1>6, <1>7

LEMMA EntryType ==
  ASSUME NEW e \in Entry, NEW cli_ \in Opt(BOOLEAN)
  PROVE  /\ Source(e) \in Paths \cup {None}
         /\ Source(e) # None => Target(e) \in AnyPath
         /\ MountReadonly(e, cli_) \in BOOLEAN
BY MountAssumption, ConfigAssumption
DEF Entry, Source, Target, OrElse, Opt, MountReadonly

\* An entry adds mounts, or is refused.
LEMMA AddEntryType ==
  ASSUME NEW ms \in Seq(Mounts), NEW protected, NEW e \in Entry,
         NEW cli_ \in Opt(BOOLEAN), AddEntry(ms, protected, e, cli_) # None
  PROVE  AddEntry(ms, protected, e, cli_) \in Seq(Mounts)
<1> DEFINE readonly == MountReadonly(e, cli_)
           own  == Append(ms, DirMount(Source(e), Target(e), readonly))
           git  == NeededGitDir(e)
<1>1. Acceptable(ms, protected, e)
  BY DEF AddEntry
<1>2. /\ Source(e) \in Paths /\ Target(e) \in AnyPath /\ readonly \in BOOLEAN
      /\ Source(e) \in AnyPath
  BY <1>1, EntryType, MountAssumption DEF Acceptable
<1>3. DirMount(Source(e), Target(e), readonly) \in Mounts
  BY <1>1, <1>2 DEF Acceptable, DirMount, Mount, Mounts
<1>4. own \in Seq(Mounts)
  BY <1>3
<1>5. \/ AddEntry(ms, protected, e, cli_) = own
      \/ /\ git # None /\ DirMount(git, git, readonly) # None
         /\ AddEntry(ms, protected, e, cli_) = Append(own, DirMount(git, git, readonly))
  BY <1>1 DEF AddEntry
<1>6. git \in AnyPath \cup {None}
  BY <1>2, GitDirType DEF NeededGitDir
<1>7. ASSUME git # None, DirMount(git, git, readonly) # None
      PROVE  DirMount(git, git, readonly) \in Mounts
  BY <1>2, <1>6, <1>7, DirMountType
<1> HIDE DEF own, git, readonly
<1> QED
  BY <1>4, <1>5, <1>7
-----------------------------------------------------------------------------
\* Types and places.

LEMMA InitBase == Init => Base
<1>1. ASSUME Init PROVE Base
  <2>1. PICK s \in Starts : /\ file = [global |-> s.global, project |-> s.project]
                            /\ cmd = s.cmd /\ host = s.host
    BY <1>1 DEF Init
  <2>2. cmd.name \in {"run", "build", "ls", "exec", "stop", "doctor", "init"}
    BY <2>1, CommandAssumption
  <2>3. file \in [{"global", "project"} -> Files]
    BY <2>1, CommandAssumption
  <2>4. pc \in {"global", "probe", "doctor", "init", "failed"}
    BY <1>1, <2>2 DEF Init, FirstPlace
  <2>5. Version!Idle \in Version!Call
    BY CommandAssumption DEF Version!Idle, Version!Call
  <2>6. TypeOK
    <3>1. cmd \in {s2.cmd : s2 \in Starts}
      BY <2>1
    <3>2. /\ read \in [{"global", "project"} -> Opt(Raw)]
          /\ read["project"] = None /\ cfg = None /\ cfg \in Opt(Config)
      BY <1>1 DEF Init, Opt
    <3>3. DOMAIN mounts = {}
      BY <1>1 DEF Init
    <3>4. told \subseteq Messages /\ next \in Nat /\ cli \in BOOLEAN /\ ran = None
      BY <1>1 DEF Init
    <3>5. call \in Version!Call
      BY <1>1, <2>5 DEF Init
    <3> QED
      BY <2>3, <2>4, <3>1, <3>2, <3>3, <3>4, <3>5 DEF TypeOK, Places, Ended
  <2>7. Paced
    <3>1. /\ pc = "probe" => cmd.name \in {"ls", "exec", "stop"}
          /\ pc = "global" => cmd.name \in {"run", "build"}
          /\ pc = "doctor" => cmd.name = "doctor"
      BY <1>1, <2>2 DEF Init, FirstPlace
    <3>2. read["project"] = None
      BY <1>1 DEF Init
    <3> QED
      BY <2>4, <3>1, <3>2 DEF Paced, OfRun, Planned
  <2>8. Placed
    BY <1>1, <2>4 DEF Init, Placed
  <2> QED
    BY <1>1, <2>1, <2>4, <2>6, <2>7, <2>8, CommandAssumption DEF Init, Base, Merged
<1> QED
  BY <1>1

\* A step that leaves alone what was read and says no more than it may.
LEMMA Onward ==
  ASSUME Base, UNCHANGED <<file, cmd, read, cfg>>,
         pc' \in Places \ {"global", "project", "doctor"},
         told \subseteq told', told' \subseteq Messages, host' \in Host,
         next' \in Nat, call' \in Version!Call, cli' \in BOOLEAN, Placed',
         ran' # None => pc' = "done",
         pc' \in OfRun => cmd.name = "run",
         pc' = "list" => cmd.name = "ls",
         pc' = "workdir" => cmd.name = "exec",
         pc' \in {"probe", "start", "version"} =>
           cmd.name \in {"run", "build", "ls", "exec", "stop"},
         cmd.name = "run" /\ pc' \in {"implicit", "entries"} \cup Planned => cfg # None
  PROVE  Base'
<1>1. \A i \in DOMAIN mounts' : mounts'[i] # None
  BY MountAssumption DEF Placed
<1>2. TypeOK'
  BY <1>1 DEF Base, TypeOK
<1>3. Paced'
  BY DEF Paced
<1>4. Merged'
  BY DEF Base, Merged
<1> QED
  BY <1>2, <1>3, <1>4 DEF Base

LEMMA LoadsBase ==
  ASSUME Base, Loads
  PROVE  Base'
<1>1. CASE ReadGlobal
  <2>1. /\ pc = "global" /\ cfg = None /\ cfg' = cfg /\ told' = told
        /\ UNCHANGED <<file, cmd, host, mounts, next, call, agent, cli, ran>>
        /\ read["project"] = None
        /\ cmd.name \in {"run", "build", "doctor"}
    BY <1>1 DEF ReadGlobal, Base, Paced, TypeOK, planVars, paneVars
  <2>4. pc' # "entries" => Placed'
    BY <2>1 DEF Base, Placed
  <2>2. CASE file["global"] = Invalid
    <3>1. pc' \in {"asking", "failed"} /\ read' = read /\ (pc' = "asking" => cmd.name = "doctor")
      BY <1>1, <2>2 DEF ReadGlobal, NoConfig, Goto
    <3> QED
      BY <2>1, <2>4, <3>1, Onward DEF Base, TypeOK, Places, Ended, OfRun, Planned
  <2>3. CASE file["global"] # Invalid
    <3>1. pc' = "project" /\ read' = [read EXCEPT !["global"] = ReadRaw(file["global"])]
      BY <1>1, <2>3 DEF ReadGlobal, Goto
    <3>2. ReadRaw(file["global"]) \in Raw
      BY <2>3, ReadRawType DEF Base, TypeOK
    <3>3. /\ read' \in [{"global", "project"} -> Opt(Raw)]
          /\ read'["global"] \in Raw /\ read'["project"] = None
      BY <2>1, <3>1, <3>2 DEF Base, TypeOK, Opt
    <3>4. TypeOK'
      BY <2>1, <3>1, <3>3 DEF Base, TypeOK, Places
    <3>5. Paced'
      BY <2>1, <3>1, <3>3 DEF Paced, OfRun, Planned
    <3> QED
      BY <2>1, <2>4, <3>1, <3>3, <3>4, <3>5 DEF Base, Merged
  <2> QED
    BY <2>2, <2>3
<1>2. CASE ReadProject
  <2> DEFINE g == read["global"]
             p == ReadRaw(file["project"])
  <2>1. /\ pc = "project" /\ cfg = None
        /\ UNCHANGED <<file, cmd, host, mounts, next, call, agent, cli, ran>>
        /\ read["project"] = None /\ g \in Raw
        /\ cmd.name \in {"run", "build", "doctor"}
    BY <1>2 DEF ReadProject, Base, Paced, TypeOK, planVars, paneVars
  <2>4. pc' # "entries" => Placed'
    BY <2>1 DEF Base, Placed
  <2>2. CASE file["project"] = Invalid
    <3>1. /\ pc' \in {"asking", "failed"} /\ UNCHANGED <<read, cfg, told>>
          /\ pc' = "asking" => cmd.name = "doctor"
      BY <1>2, <2>2 DEF ReadProject, NoConfig, Goto
    <3> QED
      BY <2>1, <2>4, <3>1, Onward DEF Base, TypeOK, Places, Ended, OfRun, Planned
  <2>3. CASE file["project"] # Invalid
    <3>1. p \in Raw
      BY <2>3, ReadRawType DEF Base, TypeOK
    <3>2. /\ read' = [read EXCEPT !["project"] = p]
          /\ \/ /\ ReposRemoved(g, p) # {} /\ told' = told \cup ReposRemoved(g, p)
                /\ pc' \in {"asking", "failed"} /\ (pc' = "asking" => cmd.name = "doctor")
                /\ cfg' = cfg
             \/ /\ ReposRemoved(g, p) = {} /\ told' = told \cup Warnings(g, p)
                /\ pc' \in {"implicit", "probe", "asking"}
                /\ pc' = "implicit" => cmd.name = "run"
                /\ pc' = "probe" => cmd.name = "build"
                /\ pc' = "asking" => cmd.name = "doctor"
                /\ cfg' = Merge(g, p)
      BY <1>2, <2>1, <2>3 DEF ReadProject, NoConfig, Goto, Say
    <3>3. /\ read' \in [{"global", "project"} -> Opt(Raw)]
          /\ read'["global"] = g /\ read'["project"] = p
      BY <3>1, <3>2 DEF Base, TypeOK, Opt
    <3>4. p # None /\ Merge(g, p) # None /\ Merge(g, p) \in Config
      BY <2>1, <3>1, MergeType, NoneAssumption
    <3>5. told' \subseteq Messages
      BY <3>2, WarningsToldType DEF Base, TypeOK
    <3>6. cfg' \in Opt(Config) /\ (cfg' # None <=> ReposRemoved(g, p) = {})
      BY <2>1, <3>2, <3>4 DEF Opt
    <3>7. TypeOK'
      BY <2>1, <3>2, <3>3, <3>4, <3>5, <3>6 DEF Base, TypeOK, Places, Ended
    <3>8. Paced'
      BY <2>1, <3>2, <3>3, <3>4 DEF Paced, OfRun, Planned
    <3>9. Merged'
      BY <2>1, <3>2, <3>3, <3>6 DEF Merged
    <3> QED
      BY <2>1, <2>4, <3>2, <3>7, <3>8, <3>9 DEF Base
  <2> QED
    BY <2>2, <2>3
<1> QED
  BY <1>1, <1>2 DEF Loads

\* The directory a command is run in.
LEMMA Line ==
  ASSUME Base
  PROVE  /\ Cwd \in Paths /\ Cwd \in AnyPath
         /\ cmd.readonly \in Opt(BOOLEAN) /\ cmd.ssh \in Opt(BOOLEAN)
         /\ cmd.name \in {"run", "build", "ls", "exec", "stop", "doctor", "init"}
BY CommandAssumption, MountAssumption DEF Base, TypeOK, Cwd

LEMMA EntryOf ==
  ASSUME Base, cfg # None, next \in Nat, next >= 1, next <= Len(cfg.mounts)
  PROVE  cfg.mounts[next] \in Entry
<1>1. cfg \in Config
  BY DEF Base, TypeOK, Opt
<1>2. cfg.mounts \in Seq(Entry)
  BY <1>1, MountAssumption DEF Config
<1> QED
  BY <1>2

LEMMA PlansBase ==
  ASSUME Base, Plans
  PROVE  Base'
<1>1. /\ UNCHANGED <<file, cmd, host, read, cfg, call, agent, cli, ran>>
      /\ pc \in {"implicit", "entries"} /\ cmd.name = "run" /\ cfg # None
      /\ ran = None
  BY DEF Plans, PlanImplicit, PlanEntry, PlanHome, planVars, paneVars, Base, Paced, OfRun, TypeOK
<1>2. CASE PlanImplicit
  <2>1. /\ next' = next
        /\ \/ pc' = "failed" /\ mounts' = mounts /\ told' = told
           \/ /\ pc' = "entries" /\ mounts' = Implicit(Cwd) /\ Implicit(Cwd) # None
              /\ told \subseteq told' /\ told' \subseteq told \cup {"worktree", "readonly idle"}
    BY <1>2 DEF PlanImplicit, Goto, Say
  <2>2. Placed'
    <3>1. Cwd' = Cwd /\ Cwd \in Paths
      BY <1>1, Line DEF Cwd
    <3>2. Implicit(Cwd) # None => Implicit(Cwd) \in Seq(Mounts)
      BY <3>1, ImplicitType
    <3>3. CASE pc' = "failed"
      BY <2>1, <3>3 DEF Base, Placed
    <3>4. CASE pc' = "entries"
      <4>1. Implicit(Cwd) # None /\ mounts' = Implicit(Cwd) /\ next' = next
        BY <2>1, <3>4
      <4>2. Len(Implicit(Cwd)) \in Nat
        BY <3>2, <4>1
      <4> QED
        BY <3>1, <3>2, <4>1, <4>2 DEF Base, Placed
    <3> QED
      BY <2>1, <3>3, <3>4
  <2>3. told \subseteq told' /\ told' \subseteq Messages
    BY <2>1 DEF Base, TypeOK, Messages
  <2> QED
    BY <1>1, <2>1, <2>2, <2>3, Onward DEF Base, TypeOK, Places, Ended, OfRun, Planned
<1>3. CASE PlanEntry
  <2> DEFINE more == AddEntry(Configured, Protected(Cwd), cfg.mounts[next], cmd.readonly)
  <2>1. /\ told' = told /\ pc = "entries" /\ next <= Len(cfg.mounts)
        /\ \/ pc' = "failed" /\ mounts' = mounts /\ next' = next
           \/ /\ pc' = "entries" /\ more # None /\ mounts' = Implicit(Cwd) \o more
              /\ next' = next + 1
    BY <1>3 DEF PlanEntry, Goto, planVars
  <2>2. /\ Implicit(Cwd) \in Seq(Mounts) /\ Implicit(Cwd) # None
        /\ mounts \in Seq(Mounts) /\ next \in Nat /\ next >= 1
    BY <2>1, ImplicitType, Line DEF Base, Placed, TypeOK
  <2>3. Configured \in Seq(Mounts)
    BY <2>2 DEF Configured
  <2>4. cfg.mounts[next] \in Entry
    BY <1>1, <2>1, <2>2, EntryOf
  <2>5. more # None => more \in Seq(Mounts)
    BY <2>3, <2>4, AddEntryType, Line
  <2> HIDE DEF more
  <2>6. Placed'
    <3>1. Cwd' = Cwd
      BY <1>1 DEF Cwd
    <3>2. CASE pc' = "failed"
      BY <1>1, <2>1, <2>2, <3>2 DEF Placed
    <3>3. CASE pc' = "entries"
      <4>1. more \in Seq(Mounts) /\ mounts' = Implicit(Cwd) \o more
        BY <2>1, <2>5, <3>3
      <4>2. /\ mounts' \in Seq(Mounts)
            /\ Len(mounts') = Len(Implicit(Cwd)) + Len(more)
            /\ \A i \in 1 .. Len(Implicit(Cwd)) : mounts'[i] = Implicit(Cwd)[i]
        BY <2>2, <4>1
      <4>3. Len(Implicit(Cwd)) \in Nat /\ Len(more) \in Nat
        BY <2>2, <4>1
      <4> QED
        BY <2>1, <2>2, <3>1, <3>3, <4>2, <4>3 DEF Placed
    <3> QED
      BY <2>1, <3>2, <3>3
  <2> QED
    BY <1>1, <2>1, <2>2, <2>6, Onward DEF Base, TypeOK, Places, Ended, OfRun, Planned
<1>4. CASE PlanHome
  <2> DEFINE home == DirMount(HomeDir, HomeDest, FALSE)
  <2>1. /\ next' = next
        /\ told \subseteq told' /\ told' \subseteq told \cup {"outside"}
        /\ \/ pc' = "failed" /\ mounts' = mounts
           \/ pc' = "probe" /\ home # None /\ mounts' = Append(mounts, home)
    BY <1>4 DEF PlanHome, Goto, Say
  <2>2. home # None => home \in Mounts
    BY DirMountType, CommandAssumption, MountAssumption
  <2> HIDE DEF home
  <2>3. Placed'
    BY <1>1, <2>1, <2>2 DEF Base, Placed
  <2>4. told' \subseteq Messages
    BY <2>1 DEF Base, TypeOK, Messages
  <2> QED
    BY <1>1, <2>1, <2>3, <2>4, Onward DEF Base, TypeOK, Places, Ended, OfRun, Planned
<1> QED
  BY <1>2, <1>3, <1>4 DEF Plans

\* Out of the places where mounts are planned, those made stay well formed.
LEMMA PlacedAfter ==
  ASSUME Base, pc' # "entries", next' \in Nat, next' >= 1, mounts' \in Seq(Mounts)
  PROVE  Placed'
BY DEF Placed

LEMMA RuntimesBase ==
  ASSUME Base, Runtimes
  PROVE  Base'
<1>1. /\ UNCHANGED <<file, cmd, read, cfg, mounts, next, call, agent, cli, ran>>
      /\ pc \in {"probe", "start", "version"}
      /\ pc' \in {"start", "version", "failed", "build", "list", "workdir", "stop"}
      /\ told \subseteq told' /\ told' \subseteq told \cup {"starting", "outdated"}
      /\ pc' \in {"start", "version"} => pc \in {"probe", "start"}
      /\ host' \in {host, [host EXCEPT !.probe = "exit 0"]}
  <2>1. CASE Probe
    BY <2>1 DEF Probe, Goto, planVars, paneVars
  <2>2. CASE StartSystem
    BY <2>2 DEF StartSystem, Goto, Say, planVars, paneVars
  <2>3. CASE CheckVersion
    BY <2>3 DEF CheckVersion, Goto, Say, planVars, paneVars, Base, Paced
  <2> QED
    BY <2>1, <2>2, <2>3 DEF Runtimes
<1>2. /\ pc' = "list" => cmd.name = "ls"
      /\ pc' = "workdir" => cmd.name = "exec"
      /\ pc' = "build" => cmd.name \in {"run", "build"}
  BY DEF Runtimes, Probe, StartSystem, CheckVersion, Goto, Base, Paced
<1>3. host' \in Host
  BY <1>1 DEF Base, Host
<1>4. Placed'
  BY <1>1, PlacedAfter DEF Base, Placed, TypeOK
<1>5. told' \subseteq Messages
  BY <1>1 DEF Base, TypeOK, Messages
<1>6. /\ cmd.name \in {"run", "build", "ls", "exec", "stop"}
      /\ cmd.name = "run" => cfg # None
      /\ ran = None
  BY <1>1 DEF Base, Paced, Planned, TypeOK
<1> QED
  BY <1>1, <1>2, <1>3, <1>4, <1>5, <1>6, Onward DEF Base, TypeOK, Places, Ended, OfRun

LEMMA CallStays ==
  ASSUME call \in Version!Call
  PROVE  /\ Version!CallerStep => call' \in Version!Call
         /\ Version!ChildExits => call' \in Version!Call
<1>0. VersionLimit \in Nat
  BY CommandAssumption
<1>1. CASE Version!Spawn
  <2>1. 0 \in 0 .. VersionLimit
    BY <1>0
  <2> QED
    <3>1. CASE call' = [at |-> "polling", child |-> "running", pipes |-> "open", polls |-> 0]
      BY <2>1, <3>1 DEF Version!Call
    <3>2. CASE call' = [call EXCEPT !.at = "failed"]
      BY <3>2 DEF Version!Call
    <3> QED
      BY <1>1, <3>1, <3>2 DEF Version!Spawn
<1>2. CASE Version!Sleep
  <2>1. call.polls \in 0 .. VersionLimit /\ call.polls < VersionLimit
    BY <1>2 DEF Version!Sleep, Version!Call
  <2>2. call.polls + 1 \in 0 .. VersionLimit
    BY <1>0, <2>1
  <2> QED
    BY <1>2, <2>2 DEF Version!Sleep, Version!Call
<1>3. CASE Version!Expire \/ Version!Reap \/ Version!Join
  BY <1>3 DEF Version!Expire, Version!Reap, Version!Join, Version!Call
<1>4. CASE Version!ChildExits
  BY <1>4 DEF Version!ChildExits, Version!Call
<1> QED
  BY <1>1, <1>2, <1>3, <1>4 DEF Version!CallerStep

LEMMA BridgeMountsType ==
  ASSUME Base, \A i \in DOMAIN BridgeMounts : BridgeMounts[i] # None
  PROVE  /\ BridgeMounts \in Seq(Mounts)
         /\ \A i \in DOMAIN BridgeMounts :
              BridgeMounts[i].kind = "dir" => BridgeMounts[i].host = BinDir
<1> DEFINE bin == DirMount(BinDir, BinDest, TRUE)
           socket == SocketMount(RelaySocket, SocketDest)
<1>1. bin # None => bin \in Mounts /\ bin.host = BinDir
  BY DirMountType, CommandAssumption, MountAssumption
<1>2. socket # None => socket \in Mounts /\ socket.kind = "socket"
  BY CommandAssumption, MountAssumption DEF SocketMount, Mount, Mounts
<1>3. BridgeMounts = (IF cli THEN <<bin>> ELSE << >>) \o <<socket>>
  BY DEF BridgeMounts
<1> HIDE DEF bin, socket
<1>4. CASE cli
  <2>1. Len(BridgeMounts) = 2 /\ DOMAIN BridgeMounts = 1 .. 2
    BY <1>3, <1>4
  <2>2. BridgeMounts[1] = bin /\ BridgeMounts[2] = socket
    BY <1>3, <1>4
  <2>3. bin \in Mounts /\ socket \in Mounts
    BY <1>1, <1>2, <2>1, <2>2
  <2>4. BridgeMounts \in Seq(Mounts)
    BY <1>3, <1>4, <2>3
  <2> QED
    BY <1>1, <1>2, <2>1, <2>2, <2>3, <2>4
<1>5. CASE ~ cli
  <2>1. DOMAIN BridgeMounts = 1 .. 1 /\ BridgeMounts[1] = socket
    BY <1>3, <1>5
  <2>2. socket \in Mounts
    BY <1>2, <2>1
  <2>3. BridgeMounts \in Seq(Mounts)
    BY <1>3, <1>5, <2>2
  <2> QED
    BY <1>2, <2>1, <2>2, <2>3
<1> QED
  BY <1>4, <1>5

LEMMA LaunchesBase ==
  ASSUME Base, Launches
  PROVE  Base'
<1> DEFINE news == {"unreserved", "ssh warning", "ssh on", "no metadata", "shadowed",
                    "bridge disabled", "bridge active", "no cli"}
<1>1. /\ UNCHANGED <<file, cmd, host, read, cfg, next>>
      /\ pc \in {"build", "asking"} \cup OfRun /\ pc \notin {"implicit", "entries"}
      /\ pc' \in {"done", "failed", "reserve", "ssh", "announce", "name", "bridge",
                  "asking", "relay", "exec"}
      /\ told \subseteq told' /\ told' \subseteq told \cup news
      /\ cli' \in {cli} \cup BOOLEAN
      /\ mounts' = mounts \/ SpawnRelay
      /\ ran' = ran \/ pc' = "done"
      /\ call' = call \/ Version!CallerStep
      /\ pc \in OfRun \/ pc' = pc \/ cmd.name = "run" \/ pc' \in {"done", "failed"}
  <2>1. CASE Build \/ Reserve \/ DecideSsh
    BY <2>1 DEF Build, Reserve, DecideSsh, Goto, Say, OfRun, planVars, paneVars
  <2>2. CASE Announce \/ NamePane \/ PrepareBridge
    BY <2>2 DEF Announce, NamePane, PrepareBridge, Goto, Say, OfRun, planVars, paneVars
  <2>3. CASE AskVersion \/ VersionTold
    BY <2>3 DEF AskVersion, VersionTold, Goto, Say, OfRun, planVars, paneVars
  <2>4. CASE SpawnRelay \/ Exec
    BY <2>4 DEF SpawnRelay, Exec, Goto, Say, OfRun, planVars, paneVars
  <2> QED
    BY <2>1, <2>2, <2>3, <2>4 DEF Launches
<1>2. mounts' \in Seq(Mounts)
  <2>1. CASE SpawnRelay
    <3>1. CASE UNCHANGED mounts
      BY <3>1 DEF Base, Placed
    <3>2. CASE /\ \A i \in DOMAIN BridgeMounts : BridgeMounts[i] # None
               /\ mounts' = mounts \o BridgeMounts
      BY <3>2, BridgeMountsType DEF Base, Placed
    <3> QED
      BY <2>1, <3>1, <3>2 DEF SpawnRelay
  <2> QED
    BY <1>1, <2>1 DEF Base, Placed
<1>3. Placed'
  BY <1>1, <1>2, PlacedAfter DEF Base, Placed, TypeOK
<1>4. call' \in Version!Call
  BY <1>1, CallStays DEF Base, TypeOK
<1>5. told' \subseteq Messages
  BY <1>1 DEF Base, TypeOK, Messages
<1>6. /\ cmd.name = "run" => cfg # None
      /\ ran = None
  BY <1>1 DEF Base, Paced, Planned, OfRun, TypeOK
<1>7. pc' \in OfRun => cmd.name = "run"
  BY <1>1 DEF Base, Paced, OfRun
<1> QED
  BY <1>1, <1>3, <1>4, <1>5, <1>6, <1>7, Onward DEF Base, TypeOK, Places, Ended

LEMMA OthersBase ==
  ASSUME Base, Others
  PROVE  Base'
<1>1. CASE List \/ AskWorkdir \/ Stop
  <2>1. /\ UNCHANGED <<file, cmd, host, read, cfg, told, mounts, next, call, agent, cli>>
        /\ pc' \in Ended /\ (ran' = ran \/ pc' = "done")
        /\ pc \notin Ended
    BY <1>1 DEF List, AskWorkdir, Stop, Goto, planVars, paneVars, Ended
  <2>2. Placed'
    BY <2>1, PlacedAfter DEF Base, Placed, TypeOK, Ended
  <2> QED
    BY <2>1, <2>2, Onward DEF Base, TypeOK, Places, Ended, OfRun, Planned
<1>2. CASE DoctorProbes
  <2>1. /\ UNCHANGED <<file, cmd, host, read, cfg, told, mounts, next, call, ran>>
        /\ pc = "doctor" /\ pc' = "global" /\ cli' \in BOOLEAN
    BY <1>2 DEF DoctorProbes, Goto, planVars
  <2>2. read["project"] = None /\ cfg = None
    BY <2>1 DEF Base, Paced, TypeOK
  <2>3. Placed'
    BY <2>1, PlacedAfter DEF Base, Placed, TypeOK
  <2>4. cmd.name = "doctor"
    BY <2>1 DEF Base, Paced
  <2>5. TypeOK' /\ Paced' /\ Merged'
    BY <2>1, <2>2, <2>4 DEF Base, TypeOK, Places, Paced, Merged, OfRun, Planned
  <2> QED
    BY <2>1, <2>3, <2>5 DEF Base
<1>3. CASE DoctorReports
  <2>1. /\ UNCHANGED <<file, cmd, host, read, cfg, told, mounts, next, call, agent, cli>>
        /\ pc' = "done"
    BY <1>3 DEF DoctorReports, Goto, planVars, paneVars
  <2>2. Placed'
    BY <2>1, PlacedAfter DEF Base, Placed, TypeOK
  <2> QED
    BY <2>1, <2>2, Onward DEF Base, TypeOK, Places, Ended, OfRun, Planned
<1>4. CASE CheckFile
  <2>1. /\ UNCHANGED <<file, cmd, host, read, cfg, told, mounts, call, agent, cli, ran>>
        /\ next' \in {next, next + 1} /\ pc' \in {"done", "write", "init"} /\ pc = "init"
    BY <1>4 DEF CheckFile, Goto, paneVars
  <2>2. Placed'
    BY <2>1, PlacedAfter DEF Base, Placed, TypeOK
  <2> QED
    BY <2>1, <2>2, Onward DEF Base, TypeOK, Places, Ended, OfRun, Planned
<1>5. CASE WriteFile
  <2>1. /\ UNCHANGED <<cmd, host, read, cfg, told, mounts, call, agent, cli, ran>>
        /\ next' \in {next, next + 1} /\ pc' \in {"failed", "init"} /\ pc = "write"
        /\ \/ file' = file
           \/ file' = [file EXCEPT ![InitOrder[next]] = Unstated]
    BY <1>5 DEF WriteFile, Goto, paneVars, Skeleton, GlobalSkeleton, ProjectSkeleton
  <2>2. Unstated \in Files
    BY DEF Unstated, Files, Raw, Opt
  <2>3. file' \in [{"global", "project"} -> Files]
    BY <2>1, <2>2 DEF Base, TypeOK
  <2>4. Placed'
    BY <2>1, PlacedAfter DEF Base, Placed, TypeOK
  <2>5. TypeOK'
    BY <2>1, <2>3 DEF Base, TypeOK, Places, Ended
  <2>6. Paced' /\ Merged'
    BY <2>1 DEF Base, Paced, Merged, OfRun, Planned
  <2> QED
    BY <2>1, <2>4, <2>5, <2>6 DEF Base
<1> QED
  BY <1>1, <1>2, <1>3, <1>4, <1>5 DEF Others

LEMMA WorldBase ==
  ASSUME Base, World
  PROVE  Base'
<1>1. /\ UNCHANGED <<file, cmd, pc, read, cfg, told, mounts, next, agent, cli, ran>>
      /\ host' \in {host, [host EXCEPT !.wedged = TRUE]}
      /\ call' = call \/ Version!ChildExits
  BY DEF World, HerdrExits, HerdrWedges, planVars, paneVars
<1>2. call' \in Version!Call
  BY <1>1, CallStays DEF Base, TypeOK
<1>3. host' \in Host
  BY <1>1 DEF Base, Host
<1>4. Placed'
  BY <1>1 DEF Base, Placed, Cwd
<1>5. TypeOK' /\ Paced' /\ Merged'
  BY <1>1, <1>2 DEF Base, TypeOK, Paced, Merged
<1> QED
  BY <1>1, <1>3, <1>4, <1>5 DEF Base

LEMMA StepBase ==
  ASSUME Base, [Next]_vars
  PROVE  Base'
<1>1. CASE UNCHANGED vars
  BY <1>1 DEF vars, planVars, paneVars, Base, TypeOK, Paced, Merged, Placed, Cwd
<1> QED
  BY <1>1, LoadsBase, PlansBase, RuntimesBase, LaunchesBase, OthersBase, WorldBase
  DEF Next, Step
-----------------------------------------------------------------------------
\* What is reached and what is said, from one place of `run' to the next.

\* A directory outside the workspace is pall8t's own, or the human's choice,
\* or told of.
Allowed(m) ==
  m.kind = "dir" /\ ~ StartsWith(m.host, Cwd) =>
    \/ m.host \in {HomeDir, BinDir, MainGitDir(Cwd)}
    \/ ~ cfg.fromProject
    \/ "outside" \in told

Mounted == {mounts[i] : i \in DOMAIN mounts}

OnlyAllowed == cmd.name = "run" /\ pc \in Planned => \A m \in Mounted : Allowed(m)
SshSaid ==
  cmd.name = "run" /\ pc \in Decided /\ Ssh => "ssh on" \in told \/ "ssh warning" \in told
BridgeSaid ==
  cmd.name = "run" /\ pc = "exec" /\ Detected(host.env) /\ cfg.sandbox # "off" =>
    "bridge active" \in told \/ "bridge disabled" \in told

\* What a step leaves of what was said and decided before it.
Goes ==
  /\ cmd' = cmd /\ told \subseteq told' /\ host'.env = host.env
  /\ cfg' = cfg \/ pc' \notin Planned \/ cmd.name # "run"

LEMMA StepGoes ==
  ASSUME Base, Next
  PROVE  Goes
<1>1. CASE Loads
  BY <1>1 DEF Loads, ReadGlobal, ReadProject, NoConfig, Goto, Say, Goes, Planned, Base, Paced
<1>2. CASE Plans
  BY <1>2 DEF Plans, PlanImplicit, PlanEntry, PlanHome, Goes, Say
<1>3. CASE Runtimes
  <2>1. host' \in {host, [host EXCEPT !.probe = "exit 0"]}
    BY <1>3 DEF Runtimes, Probe, StartSystem, CheckVersion
  <2>2. host'.env = host.env
    BY <2>1 DEF Base, Host
  <2> QED
    BY <1>3, <2>2 DEF Runtimes, Probe, StartSystem, CheckVersion, Goes, Say
<1>4. CASE Build \/ Reserve \/ DecideSsh \/ Announce
  BY <1>4 DEF Build, Reserve, DecideSsh, Announce, Goes, Say
<1>5. CASE NamePane \/ PrepareBridge \/ AskVersion \/ VersionTold
  BY <1>5 DEF NamePane, PrepareBridge, AskVersion, VersionTold, Goes, Say
<1>6. CASE SpawnRelay \/ Exec
  BY <1>6 DEF SpawnRelay, Exec, Goes, Say
<1>7. CASE Others
  BY <1>7 DEF Others, List, AskWorkdir, Stop, DoctorProbes, DoctorReports, CheckFile, WriteFile,
     Goes
<1>8. CASE World
  <2>1. host' \in {host, [host EXCEPT !.wedged = TRUE]}
    BY <1>8 DEF World, HerdrExits, HerdrWedges
  <2>2. host'.env = host.env
    BY <2>1 DEF Base, Host
  <2> QED
    BY <1>8, <2>2 DEF World, HerdrExits, HerdrWedges, Goes
<1> QED
  BY <1>1, <1>2, <1>3, <1>4, <1>5, <1>6, <1>7, <1>8 DEF Next, Step, Launches

LEMMA StillAllowed ==
  ASSUME Goes, cfg' = cfg, NEW m, Allowed(m)
  PROVE  Allowed(m)'
BY DEF Goes, Allowed, Cwd

LEMMA HomeAllowed ==
  ASSUME Base, PlanHome, pc' = "probe"
  PROVE  OnlyAllowed'
<1> DEFINE home == DirMount(HomeDir, HomeDest, FALSE)
<1>1. /\ pc = "entries" /\ home # None /\ mounts' = Append(mounts, home)
      /\ UNCHANGED <<cmd, cfg>> /\ cmd.name = "run"
      /\ told \subseteq told'
      /\ FromOutside(Configured, Cwd, cfg.fromProject) # {} => "outside" \in told'
  BY DEF PlanHome, Goto, Say, Base, Paced, OfRun
<1>2. home.host = HomeDir
  BY <1>1, DirMountType, CommandAssumption, MountAssumption
<1> HIDE DEF home
<1>3. Implicit(Cwd) # None /\ Cwd \in Paths
  BY <1>1, Line DEF Base, Placed
<1>4. /\ Implicit(Cwd) \in Seq(Mounts)
      /\ \A i \in DOMAIN Implicit(Cwd) : Implicit(Cwd)[i].host \in {Cwd, MainGitDir(Cwd)}
  BY <1>3, ImplicitType
<1>5. /\ mounts \in Seq(Mounts) /\ Len(Implicit(Cwd)) <= Len(mounts)
      /\ \A i \in 1 .. Len(Implicit(Cwd)) : mounts[i] = Implicit(Cwd)[i]
  BY <1>1 DEF Base, Placed
<1>6. StartsWith(Cwd, Cwd)
  BY Line DEF StartsWith, AnyPath
<1>7. Cwd' = Cwd
  BY <1>1 DEF Cwd
<1>8. ASSUME NEW m, m \in Mounted'
      PROVE  Allowed(m)'
  <2>1. PICK i \in DOMAIN mounts' : m = mounts'[i]
    BY <1>8 DEF Mounted
  <2>2. CASE i = Len(mounts) + 1
    <3>1. m = home
      BY <1>1, <1>5, <2>1, <2>2
    <3> QED
      BY <1>2, <3>1 DEF Allowed
  <2>3. CASE i \in 1 .. Len(Implicit(Cwd))
    <3>1. m = Implicit(Cwd)[i]
      BY <1>1, <1>4, <1>5, <2>1, <2>3
    <3>2. m.host \in {Cwd, MainGitDir(Cwd)}
      BY <1>4, <2>3, <3>1
    <3> QED
      BY <1>6, <1>7, <3>2 DEF Allowed
  <2>4. CASE i \in Len(Implicit(Cwd)) + 1 .. Len(mounts)
    <3> DEFINE n == Len(Implicit(Cwd))
    <3>1. n \in Nat /\ Len(mounts) \in Nat /\ i \in Nat
      BY <1>4, <1>5, <2>4
    <3>2. /\ i - n \in DOMAIN Configured
          /\ Configured[i - n] = mounts[i]
          /\ m = mounts[i]
      BY <1>1, <1>4, <1>5, <2>1, <2>4, <3>1 DEF Configured
    <3>3. CASE FromOutside(Configured, Cwd, cfg.fromProject) # {}
      BY <1>1, <3>3 DEF Allowed
    <3>4. CASE FromOutside(Configured, Cwd, cfg.fromProject) = {}
      <4>1. ~ cfg.fromProject \/ StartsWith(m.host, Cwd)
        BY <3>2, <3>4 DEF FromOutside
      <4> QED
        BY <1>1, <1>7, <4>1 DEF Allowed
    <3> QED
      BY <3>3, <3>4
  <2> QED
    BY <1>1, <1>4, <1>5, <2>1, <2>2, <2>3, <2>4
<1> QED
  BY <1>8 DEF OnlyAllowed

\* The bridge adds its own directory, and a socket.
LEMMA BridgeAllowed ==
  ASSUME Base, OnlyAllowed, SpawnRelay
  PROVE  OnlyAllowed'
<1>1. pc = "relay" /\ cmd.name = "run" /\ UNCHANGED <<cmd, cfg>> /\ told \subseteq told'
  BY DEF SpawnRelay, Say, Base, Paced, OfRun
<1>2. Goes
  BY StepGoes DEF Next, Step, Launches
<1>3. ASSUME NEW m, m \in Mounted'
      PROVE  Allowed(m)'
  <2>1. CASE m \in Mounted
    BY <1>1, <1>2, <2>1, StillAllowed DEF OnlyAllowed, Planned
  <2>2. CASE m \notin Mounted
    <3>1. /\ \A i \in DOMAIN BridgeMounts : BridgeMounts[i] # None
          /\ mounts' = mounts \o BridgeMounts
      BY <1>3, <2>2 DEF SpawnRelay, Mounted
    <3>2. /\ BridgeMounts \in Seq(Mounts)
          /\ \A i \in DOMAIN BridgeMounts :
               BridgeMounts[i].kind = "dir" => BridgeMounts[i].host = BinDir
      BY <3>1, BridgeMountsType
    <3>3. PICK i \in DOMAIN mounts' : m = mounts'[i]
      BY <1>3 DEF Mounted
    <3>4. mounts \in Seq(Mounts)
      BY DEF Base, Placed
    <3>5. CASE i \in DOMAIN mounts
      BY <2>2, <3>1, <3>2, <3>3, <3>4, <3>5 DEF Mounted
    <3>6. CASE i \notin DOMAIN mounts
      <4>1. /\ i - Len(mounts) \in DOMAIN BridgeMounts
            /\ m = BridgeMounts[i - Len(mounts)]
        BY <3>1, <3>2, <3>3, <3>4, <3>6
      <4> QED
        BY <3>2, <4>1 DEF Allowed
    <3> QED
      BY <3>5, <3>6
  <2> QED
    BY <2>1, <2>2
<1> QED
  BY <1>3 DEF OnlyAllowed

\* Every other step leaves the mounts, and does not begin with them unplanned.
LEMMA ElsewhereAllowed ==
  ASSUME Base, Next, cmd.name = "run", pc' \in Planned,
         ~ SpawnRelay, pc # "entries"
  PROVE  mounts' = mounts /\ pc \in Planned /\ cfg' = cfg
<1>1. CASE Loads
  BY <1>1 DEF Loads, ReadGlobal, ReadProject, NoConfig, Goto, Planned
<1>2. CASE Plans
  BY <1>2 DEF Plans, PlanImplicit, PlanEntry, PlanHome, Goto, Planned
<1>3. CASE Runtimes
  BY <1>3 DEF Runtimes, Probe, StartSystem, CheckVersion, Planned, planVars
<1>4. CASE Build \/ Reserve \/ DecideSsh \/ Announce
  BY <1>4 DEF Build, Reserve, DecideSsh, Announce, Planned, planVars
<1>5. CASE NamePane \/ PrepareBridge \/ AskVersion \/ VersionTold \/ Exec
  BY <1>5 DEF NamePane, PrepareBridge, AskVersion, VersionTold, Exec, Planned, planVars
<1>6. CASE Others
  BY <1>6 DEF Others, List, AskWorkdir, Stop, DoctorProbes, DoctorReports, CheckFile, WriteFile,
     Planned, Goto, Ended
<1>7. CASE World
  BY <1>7 DEF World, HerdrExits, HerdrWedges, planVars
<1> QED
  BY <1>1, <1>2, <1>3, <1>4, <1>5, <1>6, <1>7 DEF Next, Step, Launches

\* From "entries" the mounts are planned by PlanHome alone.
LEMMA FromEntries ==
  ASSUME Base, Next, pc = "entries", pc' \in Planned
  PROVE  PlanHome /\ pc' = "probe"
<1>1. ~ World
  BY DEF World, HerdrExits, HerdrWedges, Planned
<1>2. ~ Loads /\ ~ Runtimes /\ ~ Others
  BY DEF Loads, ReadGlobal, ReadProject, Runtimes, Probe, StartSystem, CheckVersion, Others,
     List, AskWorkdir, Stop, DoctorProbes, DoctorReports, CheckFile, WriteFile
<1>3. ~ Launches
  BY DEF Launches, Build, Reserve, DecideSsh, Announce, NamePane, PrepareBridge, AskVersion,
     VersionTold, SpawnRelay, Exec
<1>4. Plans
  BY <1>1, <1>2, <1>3 DEF Next, Step
<1> QED
  BY <1>4 DEF Plans, PlanImplicit, PlanEntry, PlanHome, Goto, Planned

LEMMA StepAllowed ==
  ASSUME Base, OnlyAllowed, Next
  PROVE  OnlyAllowed'
<1>1. Goes
  BY StepGoes
<1>2. CASE SpawnRelay
  BY <1>2, BridgeAllowed
<1>3. CASE pc = "entries" /\ pc' \in Planned
  BY <1>3, FromEntries, HomeAllowed
<1>4. CASE cmd.name = "run" /\ pc' \in Planned /\ ~ SpawnRelay /\ pc # "entries"
  <2>1. mounts' = mounts /\ pc \in Planned /\ cfg' = cfg
    BY <1>4, ElsewhereAllowed
  <2>2. ASSUME NEW m, m \in Mounted'
        PROVE  Allowed(m)'
    <3>1. m \in Mounted
      BY <2>1, <2>2 DEF Mounted
    <3>2. Allowed(m)
      BY <1>4, <2>1, <3>1 DEF OnlyAllowed
    <3> QED
      BY <1>1, <2>1, <3>2, StillAllowed
  <2> QED
    BY <2>2 DEF OnlyAllowed
<1>5. CASE cmd.name # "run" \/ pc' \notin Planned
  BY <1>1, <1>5 DEF OnlyAllowed, Goes
<1> QED
  BY <1>2, <1>3, <1>4, <1>5

\* A place of `run' after the decision about ssh is reached by that decision or
\* from another such place.
LEMMA StepSaid ==
  ASSUME Base, SshSaid, BridgeSaid, Next
  PROVE  SshSaid' /\ BridgeSaid'
<1>1. Goes
  BY StepGoes
<1>2. SUFFICES ASSUME cmd.name = "run", pc' \in Decided
               PROVE  SshSaid' /\ BridgeSaid'
  BY <1>1 DEF Goes, SshSaid, BridgeSaid, Decided
<1>3. cfg' = cfg /\ Ssh' = Ssh
  BY <1>1, <1>2 DEF Goes, Ssh, Decided, Planned
<1>4. Detected(host.env)' = Detected(host.env)
  BY <1>1 DEF Goes, Detected
<1>5. CASE DecideSsh
  <2>1. /\ Ssh => "ssh on" \in told' \/ "ssh warning" \in told'
        /\ pc' = "exec" => ~ Detected(host.env)
    BY <1>5 DEF DecideSsh, Goto, Say, SshWarning
  <2> QED
    BY <1>3, <1>4, <2>1 DEF SshSaid, BridgeSaid
<1>6. CASE ~ DecideSsh
  <2>1. /\ pc \in Decided
        /\ pc' = "exec" =>
             \/ pc = "exec"
             \/ cfg.sandbox = "off"
             \/ "bridge active" \in told' \/ "bridge disabled" \in told'
    <3>1. CASE Loads
      BY <1>2, <3>1 DEF Loads, ReadGlobal, ReadProject, NoConfig, Goto, Decided
    <3>2. CASE Plans
      BY <1>2, <3>2 DEF Plans, PlanImplicit, PlanEntry, PlanHome, Goto, Decided
    <3>3. CASE Runtimes
      BY <1>2, <3>3 DEF Runtimes, Probe, StartSystem, CheckVersion, Goto, Decided
    <3>4. CASE Build \/ Reserve \/ Announce \/ NamePane
      BY <1>2, <3>4 DEF Build, Reserve, Announce, NamePane, Goto, Decided
    <3>5. CASE PrepareBridge \/ AskVersion \/ VersionTold \/ SpawnRelay \/ Exec
      BY <1>2, <3>5
      DEF PrepareBridge, AskVersion, VersionTold, SpawnRelay, Exec, Goto, Say, Decided
    <3>6. CASE Others
      BY <1>2, <3>6
      DEF Others, List, AskWorkdir, Stop, DoctorProbes, DoctorReports, CheckFile, WriteFile,
          Goto, Decided, Ended
    <3>7. CASE World
      BY <1>2, <3>7 DEF World, HerdrExits, HerdrWedges
    <3> QED
      BY <1>6, <3>1, <3>2, <3>3, <3>4, <3>5, <3>6, <3>7 DEF Next, Step, Launches
  <2> QED
    BY <1>1, <1>2, <1>3, <1>4, <2>1 DEF Goes, SshSaid, BridgeSaid
<1> QED
  BY <1>5, <1>6
-----------------------------------------------------------------------------
\* What a run became is what Exec made it.

LEMMA OnlyExec ==
  ASSUME Base, Next, IsRun'
  PROVE  Exec /\ ran' = RunSpec
<1>1. cmd' = cmd /\ cmd.name = "run"
  BY StepGoes DEF Goes, IsRun
<1>2. ran # None => pc = "done"
  BY DEF Base, TypeOK
<1>3. CASE Loads
  BY <1>2, <1>3 DEF Loads, ReadGlobal, ReadProject, IsRun
<1>4. CASE Plans
  BY <1>2, <1>4 DEF Plans, PlanImplicit, PlanEntry, PlanHome, IsRun
<1>5. CASE Runtimes
  BY <1>2, <1>5 DEF Runtimes, Probe, StartSystem, CheckVersion, IsRun
<1>6. CASE Build \/ Reserve \/ DecideSsh \/ Announce \/ NamePane
  BY <1>2, <1>6 DEF Build, Reserve, DecideSsh, Announce, NamePane, IsRun
<1>7. CASE PrepareBridge \/ AskVersion \/ VersionTold \/ SpawnRelay
  BY <1>2, <1>7 DEF PrepareBridge, AskVersion, VersionTold, SpawnRelay, IsRun
<1>8. CASE Exec
  BY <1>2, <1>8 DEF Exec, IsRun
<1>9. CASE Others
  BY <1>1, <1>2, <1>9
  DEF Others, List, AskWorkdir, Stop, DoctorProbes, DoctorReports, CheckFile, WriteFile, IsRun,
      Base, Paced
<1>10. CASE World
  BY <1>2, <1>10 DEF World, HerdrExits, HerdrWedges, IsRun
<1> QED
  BY <1>3, <1>4, <1>5, <1>6, <1>7, <1>8, <1>9, <1>10 DEF Next, Step, Launches

\* What Exec finds, of the two files and of what was said.
LEMMA AtExec ==
  ASSUME Base, Exec, cmd.name = "run"
  PROVE  /\ read["global"] \in Raw /\ read["project"] \in Raw
         /\ cfg = Merge(read["global"], read["project"])
         /\ Warnings(read["global"], read["project"]) \subseteq told
         /\ ReposRemoved(read["global"], read["project"]) = {}
         /\ UNCHANGED <<cmd, read, cfg, told, host>>
<1>1. pc = "exec" /\ UNCHANGED <<cmd, read, cfg, told, host>>
  BY DEF Exec
<1>2. cfg # None
  BY <1>1 DEF Base, Paced, Planned
<1> QED
  BY <1>1, <1>2 DEF Base, TypeOK, Merged, Opt

LEMMA ExecReach ==
  ASSUME Base, OnlyAllowed, Exec, cmd.name = "run", ran' = RunSpec
  PROVE  ReachIsHumans'
<1> DEFINE g == read["global"]
           p == read["project"]
<1>1. /\ g \in Raw /\ p \in Raw /\ cfg = Merge(g, p)
      /\ UNCHANGED <<cmd, read, cfg, told, host>>
  BY AtExec
<1>2. ran'.ssh => \/ cmd.ssh = TRUE
                  \/ cmd.ssh = None /\ g.ssh = TRUE /\ p.ssh # FALSE
  <2>1. ran'.ssh = OrElse(cmd.ssh, cfg.ssh) /\ cfg.ssh = MergedSsh(g.ssh, p.ssh)
    BY <1>1 DEF RunSpec, Ssh, SshEnabled, Merge
  <2>2. cmd.ssh \in Opt(BOOLEAN) /\ g.ssh \in Opt(BOOLEAN)
    BY <1>1, Line DEF Raw
  <2>3. CASE cmd.ssh = None
    BY <2>1, <2>2, <2>3, ConfigAssumption DEF OrElse, MergedSsh, Opt
  <2>4. CASE cmd.ssh # None
    BY <2>1, <2>2, <2>4 DEF OrElse, Opt
  <2> QED
    BY <2>3, <2>4
<1>3. ran'.bridge # "off" => SandboxRank[ran'.bridge] >= SandboxRank[OrElse(g.sandbox, "full")]
  <2>1. ran'.bridge # "off" => ran'.bridge = MergedSandbox(g.sandbox, p.sandbox)
    BY <1>1 DEF RunSpec, Merge
  <2>2. g.sandbox \in Opt(Sandboxes) /\ p.sandbox \in Opt(Sandboxes)
    BY <1>1 DEF Raw
  <2> QED
    BY <2>1, <2>2, SandboxNarrows
<1>4. \A m \in Mounted : Allowed(m)
  BY DEF Exec, OnlyAllowed, Planned
<1>5. \A i \in DOMAIN ran'.mounts : Allowed(ran'.mounts[i])
  <2>1. ran'.mounts = mounts
    BY DEF RunSpec
  <2> QED
    BY <1>4, <2>1 DEF Mounted
<1>6. Cwd' = Cwd
  BY <1>1 DEF Cwd
<1> QED
  BY <1>1, <1>2, <1>3, <1>5, <1>6 DEF ReachIsHumans, Human, Allowed

LEMMA ExecSaid ==
  ASSUME Base, SshSaid, BridgeSaid, Exec, cmd.name = "run", ran' = RunSpec
  PROVE  NothingSilent'
<1> DEFINE g == read["global"]
           p == read["project"]
<1>1. /\ g \in Raw /\ p \in Raw /\ cfg = Merge(g, p)
      /\ Warnings(g, p) \subseteq told /\ ReposRemoved(g, p) = {}
      /\ UNCHANGED <<cmd, read, cfg, told, host>>
  BY AtExec
<1>2. p.ssh # None /\ p.ssh # cfg.ssh => "ssh ignored" \in told
  <2>1. cfg.ssh = MergedSsh(g.ssh, p.ssh) /\ g.ssh \in Opt(BOOLEAN) /\ p.ssh \in Opt(BOOLEAN)
    BY <1>1 DEF Merge, Raw
  <2>2. SshIgnored(g, p) => "ssh ignored" \in told
    BY <1>1 DEF Warnings
  <2> QED
    BY <2>1, <2>2, ConfigAssumption DEF MergedSsh, OrElse, Opt, SshIgnored
<1>3. p.sandbox # None /\ p.sandbox # cfg.sandbox => "sandbox ignored" \in told
  <2>1. /\ cfg.sandbox = MergedSandbox(g.sandbox, p.sandbox)
        /\ g.sandbox \in Opt(Sandboxes) /\ p.sandbox \in Opt(Sandboxes)
    BY <1>1 DEF Merge, Raw
  <2>2. SandboxIgnored(g, p) => "sandbox ignored" \in told
    BY <1>1 DEF Warnings
  <2>3. /\ SandboxRank["full"] = 0
        /\ SandboxRank["readonly"] = 1
        /\ SandboxRank["off"] = 2
    BY DEF SandboxRank, Sandboxes
  <2>4. ASSUME p.sandbox # None, p.sandbox # cfg.sandbox
        PROVE  SandboxIgnored(g, p)
    <3> DEFINE human == OrElse(g.sandbox, "full")
    <3>1. human \in Sandboxes /\ p.sandbox \in Sandboxes
      BY <2>1, <2>4 DEF OrElse, Opt, Sandboxes
    <3>2. cfg.sandbox = human /\ p.sandbox # human
          /\ ~ (SandboxRank[p.sandbox] > SandboxRank[human])
      BY <2>1, <2>4 DEF MergedSandbox
    <3> HIDE DEF human
    <3>3. SandboxRank[p.sandbox] < SandboxRank[human]
      BY <2>3, <3>1, <3>2 DEF Sandboxes
    <3> QED
      BY <2>4, <3>3 DEF SandboxIgnored, human
  <2> QED
    BY <2>2, <2>4
<1>4. g.hardening = "strict" /\ cfg.hardening # "strict" => "hardening loosened" \in told
  <2>1. /\ cfg.hardening = OrElse(p.hardening, OrElse(g.hardening, "default"))
        /\ g.hardening \in Opt(Hardenings) /\ p.hardening \in Opt(Hardenings)
    BY <1>1 DEF Merge, Raw
  <2>2. HardeningLoosened(g, p) => "hardening loosened" \in told
    BY <1>1 DEF Warnings
  <2>3. HardeningRank["default"] = 0 /\ HardeningRank["strict"] = 1
    BY DEF HardeningRank, Hardenings
  <2>4. ASSUME g.hardening = "strict", cfg.hardening # "strict"
        PROVE  HardeningLoosened(g, p)
    <3>1. g.hardening # None
      BY <2>4, ConfigAssumption
    <3>2. p.hardening = "default" /\ p.hardening # None
      BY <2>1, <2>4, <3>1 DEF OrElse, Opt, Hardenings
    <3>3. OrElse(g.hardening, "default") = "strict"
      BY <2>4, <3>1 DEF OrElse
    <3> QED
      BY <2>3, <3>2, <3>3 DEF HardeningLoosened
  <2> QED
    BY <2>2, <2>4
<1>5. /\ g.home = "set" => "home in global" \in told
      /\ p.home = "set" => "home in project" \in told
  BY <1>1 DEF Warnings, Deprecated
<1>6. ~ g.repos /\ ~ p.repos
  BY <1>1 DEF ReposRemoved
<1>7. cfg.agentName # None => cfg.autoRename \/ "agent name inert" \in told
  BY <1>1 DEF Warnings, InertAgentName
<1>8. pc = "exec" /\ ran'.ssh = Ssh /\ ran'.hardening = cfg.hardening
      /\ (ran'.bridge = "off" => ~ Bridged \/ cfg.sandbox = "off")
  BY DEF Exec, RunSpec
<1>9. ran'.ssh => "ssh on" \in told \/ "ssh warning" \in told
  BY <1>8 DEF SshSaid, Decided
<1>10. Detected(host.env) /\ cfg.sandbox # "off" /\ ran'.bridge = "off"
         => "bridge disabled" \in told
  BY <1>8 DEF BridgeSaid, Bridged
<1> QED
  BY <1>1, <1>2, <1>3, <1>4, <1>5, <1>6, <1>7, <1>8, <1>9, <1>10
  DEF NothingSilent, Human, Detected
-----------------------------------------------------------------------------
\* The inductive invariant.
Carried ==
  Base /\ OnlyAllowed /\ SshSaid /\ BridgeSaid /\ ReachIsHumans /\ NothingSilent

LEMMA InitCarried == Init => Carried
<1>1. ASSUME Init PROVE Carried
  <2>1. Base
    BY <1>1, InitBase
  <2>2. mounts = << >> /\ ran = None
    BY <1>1 DEF Init
  <2>3. Mounted = {}
    BY <2>2 DEF Mounted
  <2>4. cmd.name = "run" => pc \notin Decided
    BY <1>1 DEF Init, FirstPlace, Decided
  <2> QED
    BY <2>1, <2>2, <2>3, <2>4
    DEF Carried, OnlyAllowed, SshSaid, BridgeSaid, ReachIsHumans, NothingSilent, IsRun, Decided
<1> QED
  BY <1>1

LEMMA StepCarried ==
  ASSUME Carried, [Next]_vars
  PROVE  Carried'
<1>1. Base'
  BY StepBase DEF Carried
<1>2. CASE UNCHANGED vars
  <2>1. Cwd' = Cwd /\ Mounted' = Mounted /\ Ssh' = Ssh
    BY <1>2 DEF vars, planVars, Cwd, Mounted, Ssh
  <2>2. UNCHANGED <<cmd, host, pc, read, cfg, told, ran>>
    BY <1>2 DEF vars
  <2>3. OnlyAllowed' /\ SshSaid' /\ BridgeSaid'
    BY <2>1, <2>2 DEF Carried, OnlyAllowed, Allowed, SshSaid, BridgeSaid
  <2>4. ReachIsHumans'
    BY <2>1, <2>2 DEF Carried, ReachIsHumans, IsRun, Human
  <2>5. NothingSilent'
    BY <2>2 DEF Carried, NothingSilent, IsRun, Human
  <2> QED
    BY <1>1, <2>3, <2>4, <2>5 DEF Carried
<1>3. CASE Next
  <2>1. OnlyAllowed' /\ SshSaid' /\ BridgeSaid'
    BY <1>3, StepAllowed, StepSaid DEF Carried
  <2>2. ReachIsHumans' /\ NothingSilent'
    <3>1. CASE IsRun'
      <4>1. Exec /\ ran' = RunSpec /\ cmd.name = "run"
        BY <1>3, <3>1, OnlyExec DEF Carried, IsRun, Exec
      <4> QED
        BY <4>1, ExecReach, ExecSaid DEF Carried
    <3>2. CASE ~ IsRun'
      BY <3>2 DEF ReachIsHumans, NothingSilent
    <3> QED
      BY <3>1, <3>2
  <2> QED
    BY <1>1, <2>1, <2>2 DEF Carried
<1> QED
  BY <1>2, <1>3

LEMMA AlwaysCarried == Spec => []Carried
<1>1. Init => Carried
  BY InitCarried
<1>2. Carried /\ [Next]_vars => Carried'
  BY StepCarried
<1> QED
  BY <1>1, <1>2, PTL DEF Spec

-----------------------------------------------------------------------------
\* Paths, and the least and the greatest of some positions.

LEMMA PrefixesMeet ==
  ASSUME NEW p \in AnyPath, NEW a \in AnyPath, NEW b \in AnyPath,
         StartsWith(p, a), StartsWith(p, b)
  PROVE  Overlaps(a, b) /\ Overlaps(b, a)
<1>1. CASE Len(a) <= Len(b)
  <2>1. StartsWith(b, a)
    BY <1>1 DEF StartsWith, AnyPath
  <2> QED BY <2>1 DEF Overlaps
<1>2. CASE Len(b) <= Len(a)
  <2>1. StartsWith(a, b)
    BY <1>2 DEF StartsWith, AnyPath
  <2> QED BY <2>1 DEF Overlaps
<1>3. Len(a) \in Nat /\ Len(b) \in Nat
  BY DEF AnyPath
<1> QED BY <1>1, <1>2, <1>3

LEMMA StartsItself == ASSUME NEW p \in AnyPath PROVE StartsWith(p, p)
BY DEF StartsWith, AnyPath

LEMMA SameSeq ==
  ASSUME NEW S, NEW s \in Seq(S), NEW t \in Seq(S), Len(s) = Len(t),
         \A i \in 1 .. Len(s) : s[i] = t[i]
  PROVE  s = t
OBVIOUS

LEMMA Beyond ==
  ASSUME NEW n \in Nat, NEW m \in Nat, NEW i \in 1 .. m, i > n
  PROVE  \E j \in 1 .. m - n : n + j = i
<1>1. i - n \in 1 .. m - n /\ n + (i - n) = i
  OBVIOUS
<1> QED BY <1>1

LEMMA NotLast ==
  ASSUME NEW m \in Nat, NEW i \in 1 .. m, i # m
  PROVE  i \in 1 .. m - 1
OBVIOUS

LEMMA JoinedAt ==
  ASSUME NEW S, NEW s \in Seq(S), NEW t \in Seq(S)
  PROVE  /\ s \o t \in Seq(S) /\ Len(s \o t) = Len(s) + Len(t)
         /\ \A i \in 1 .. Len(s) : (s \o t)[i] = s[i]
         /\ \A j \in 1 .. Len(t) : (s \o t)[Len(s) + j] = t[j]
OBVIOUS

LEMMA MountsJoined ==
  ASSUME NEW s \in Seq(Mounts), NEW t \in Seq(Mounts)
  PROVE  /\ s \o t \in Seq(Mounts) /\ Len(s \o t) = Len(s) + Len(t)
         /\ DOMAIN t = 1 .. Len(t) /\ Len(t) \in Nat /\ Len(s) \in Nat
         /\ \A i \in 1 .. Len(s) : (s \o t)[i] = s[i]
         /\ \A j \in 1 .. Len(t) : (s \o t)[Len(s) + j] = t[j]
         /\ \A x \in Mounts : s \o Append(t, x) = Append(s \o t, x)
BY JoinedAt

\* A path is one it starts with, and the rest.
LEMMA SplitPath ==
  ASSUME NEW p \in AnyPath, NEW d \in AnyPath, StartsWith(p, d)
  PROVE  d \o SubSeq(p, Len(d) + 1, Len(p)) = p
<1> DEFINE rest == SubSeq(p, Len(d) + 1, Len(p))
<1>1. Len(d) \in Nat /\ Len(p) \in Nat /\ Len(d) <= Len(p)
  BY DEF StartsWith, AnyPath
<1>2. /\ rest \in Seq(STRING) /\ Len(rest) = Len(p) - Len(d)
      /\ \A i \in 1 .. Len(p) - Len(d) : rest[i] = p[Len(d) + i]
  BY <1>1 DEF AnyPath
<1> HIDE DEF rest
<1>3. d \o rest \in Seq(STRING) /\ Len(d \o rest) = Len(p)
  BY <1>1, <1>2 DEF AnyPath
<1>4. ASSUME NEW i \in 1 .. Len(p) PROVE (d \o rest)[i] = p[i]
  <2>1. CASE i <= Len(d)
    <3>1. (d \o rest)[i] = d[i]
      BY <1>1, <1>2, <2>1 DEF AnyPath
    <3> QED BY <1>1, <2>1, <3>1 DEF StartsWith, AnyPath
  <2>2. CASE i > Len(d)
    <3>1. PICK j \in 1 .. Len(p) - Len(d) : Len(d) + j = i
      BY <1>1, <2>2, Beyond
    <3>2. (d \o rest)[Len(d) + j] = rest[j]
      BY <1>2, <3>1, JoinedAt DEF AnyPath
    <3>3. rest[j] = p[Len(d) + j]
      BY <1>2, <3>1
    <3> QED BY <3>1, <3>2, <3>3
  <2>3. i <= Len(d) \/ i > Len(d)
    BY <1>1
  <2> QED BY <2>1, <2>2, <2>3
<1>5. d \o rest = p
  BY <1>3, <1>4, SameSeq DEF AnyPath
<1> QED BY <1>5 DEF rest

LEMMA JoinPath ==
  ASSUME NEW t \in AnyPath, NEW b \in AnyPath
  PROVE  /\ t \o b \in AnyPath /\ StartsWith(t \o b, t)
         /\ SubSeq(t \o b, Len(t) + 1, Len(t \o b)) = b
<1>1. /\ Len(t) \in Nat /\ Len(b) \in Nat
      /\ t \o b \in Seq(STRING) /\ Len(t \o b) = Len(t) + Len(b)
  BY DEF AnyPath
<1>2. \A i \in 1 .. Len(t) : (t \o b)[i] = t[i]
  BY <1>1 DEF AnyPath
<1>3. StartsWith(t \o b, t)
  BY <1>1, <1>2 DEF StartsWith, AnyPath
<1> DEFINE rest == SubSeq(t \o b, Len(t) + 1, Len(t \o b))
<1>4. rest \in Seq(STRING) /\ Len(rest) = Len(b)
  BY <1>1
<1>5. \A i \in 1 .. Len(b) : rest[i] = b[i]
  <2>1. TAKE i \in 1 .. Len(b)
  <2>2. rest[i] = (t \o b)[Len(t) + i]
    BY <1>1
  <2>3. (t \o b)[Len(t) + i] = b[i]
    BY <1>1 DEF AnyPath
  <2> QED BY <2>2, <2>3
<1> HIDE DEF rest
<1>6. rest = b
  BY <1>4, <1>5 DEF AnyPath
<1> QED BY <1>1, <1>3, <1>6 DEF rest, AnyPath

LEMMA LeastOf ==
  ASSUME NEW S \in SUBSET Nat, S # {}
  PROVE  Min(S) \in S /\ \A y \in S : Min(S) <= y
<1> DEFINE R == {ss \in Nat \X Nat : ss[1] < ss[2]}
<1>1. IsWellFoundedOn(R, Nat)
  BY NatLessThanWellFounded DEF OpToRel
<1>2. PICK x \in S : \A y \in S : ~ (<<y, x>> \in R)
  <2> HIDE DEF R
  <2> QED BY <1>1, WFMin
<1>3. \A y \in S : ~ (y < x)
  BY <1>2
<1>4. \A y \in S : x =< y
  BY <1>3
<1> QED BY <1>4 DEF Min

LEMMA OnlyOne == \A j \in Nat : Max({j}) = j
BY DEF Max

\* One more element at the end.
LEMMA Appended ==
  ASSUME NEW S, NEW s \in Seq(S), NEW x \in S
  PROVE  /\ Append(s, x) \in Seq(S) /\ Len(Append(s, x)) = Len(s) + 1
         /\ Append(s, x)[Len(s) + 1] = x
         /\ \A i \in 1 .. Len(s) : Append(s, x)[i] = s[i]
OBVIOUS

LEMMA TailJoined ==
  ASSUME NEW s \in Seq(Mounts), NEW head \in Seq(Mounts), Len(head) <= Len(s),
         \A i \in 1 .. Len(head) : head[i] = s[i]
  PROVE  LET c == SubSeq(s, Len(head) + 1, Len(s))
         IN c \in Seq(Mounts) /\ head \o c = s
<1> DEFINE c == SubSeq(s, Len(head) + 1, Len(s))
<1>1. Len(head) \in Nat /\ Len(s) \in Nat
  OBVIOUS
<1>2. /\ c \in Seq(Mounts) /\ Len(c) = Len(s) - Len(head)
      /\ \A i \in 1 .. Len(c) : c[i] = s[Len(head) + i]
  BY <1>1
<1> HIDE DEF c
<1>3. head \o c \in Seq(Mounts) /\ Len(head \o c) = Len(s)
  BY <1>1, <1>2, JoinedAt
<1>4. ASSUME NEW i \in 1 .. Len(s) PROVE (head \o c)[i] = s[i]
  <2>1. CASE i <= Len(head)
    <3>1. (head \o c)[i] = head[i] /\ i \in 1 .. Len(head)
      BY <1>1, <1>2, <2>1, JoinedAt
    <3> QED BY <3>1
  <2>2. CASE i > Len(head)
    <3>1. PICK j \in 1 .. Len(s) - Len(head) : Len(head) + j = i
      BY <1>1, <2>2, Beyond
    <3>2. j \in 1 .. Len(c)
      BY <1>2, <3>1
    <3>3. (head \o c)[Len(head) + j] = c[j]
      BY <1>2, <3>2, JoinedAt
    <3>4. c[j] = s[Len(head) + j]
      BY <1>2, <3>2
    <3> QED BY <3>1, <3>3, <3>4
  <2>3. i <= Len(head) \/ i > Len(head)
    BY <1>1
  <2> QED BY <2>1, <2>2, <2>3
<1>5. head \o c = s
  BY <1>3, <1>4, SameSeq
<1> QED BY <1>2, <1>5 DEF c

-----------------------------------------------------------------------------
\* Where mounts come to lie. `protected' is what no entry may cover, with the
\* container's home last.

Own(e, ro) == Mount("dir", Source(e), Target(e), MountReadonly(e, ro))

\* Off every protected path, and off what every later mount of an entry covers.
Clear(m, protected) == \A i \in DOMAIN protected : ~ Overlaps(m.dest, protected[i])

\* A git directory that is mounted beside a worktree.
GitOf(m, es) ==
  \E i \in DOMAIN es :
    /\ Source(es[i]) \in Dirs /\ MainGitDir(Source(es[i])) # None
    /\ m.host = MainGitDir(Source(es[i]))

ByGit(m, es, protected) ==
  /\ m.host = m.dest /\ GitOf(m, es)
  /\ \A i \in DOMAIN protected : ~ StartsWith(m.dest, protected[i])

\* The mounts begin with pall8t's own, each at its own path.
Based(ms, protected) ==
  /\ Len(protected) >= 1 /\ Len(protected) - 1 <= Len(ms)
  /\ protected[Len(protected)] = HomeDest
  /\ \A i \in 1 .. Len(protected) - 1 :
       ms[i].host = protected[i] /\ ms[i].dest = protected[i] /\ ~ ms[i].readonly

Added(ms, protected) == Len(protected) .. Len(ms)

\* The entries up to one are mounted, and only a git directory lies over an
\* earlier of the mounts.
Apart(ms, es, protected, ro, upto) ==
  /\ \A k \in Added(ms, protected) : ByGit(ms[k], es, protected) \/ Clear(ms[k], protected)
  /\ \A j, k \in Added(ms, protected) :
       j < k => ByGit(ms[k], es, protected) \/ ~ Overlaps(ms[j].dest, ms[k].dest)
  /\ \A i \in 1 .. upto :
       \E j \in Added(ms, protected) : ms[j] = Own(es[i], ro) /\ Clear(ms[j], protected)

\* Whatever lies over a path, and something does, shows that very path.
Seen(ms, g) ==
  /\ \E k \in DOMAIN ms : StartsWith(g, ms[k].dest)
  /\ \A k \in DOMAIN ms : StartsWith(g, ms[k].dest) => Reached(ms[k], g) = g

GitSeen(ms, es, upto) ==
  \A i \in 1 .. upto : NeededGitDir(es[i]) # None => Seen(ms, NeededGitDir(es[i]))

LEMMA MountFields ==
  ASSUME NEW m \in Mounts
  PROVE  m.host \in AnyPath /\ m.dest \in AnyPath /\ m.readonly \in BOOLEAN
BY DEF Mounts

\* A directory that is mounted at its own path shows what is below as itself.
LEMMA AsItself ==
  ASSUME NEW m \in Mounts, m.host = m.dest, NEW g \in AnyPath, StartsWith(g, m.dest)
  PROVE  Reached(m, g) = g
BY SplitPath, MountFields DEF Reached

LEMMA SeenMore ==
  ASSUME NEW ms \in Seq(Mounts), NEW x \in Mounts, NEW g, Seen(ms, g),
         StartsWith(g, x.dest) => Reached(x, g) = g
  PROVE  Seen(Append(ms, x), g)
<1> DEFINE more == Append(ms, x)
<1>1. /\ more \in Seq(Mounts) /\ Len(more) = Len(ms) + 1 /\ more[Len(ms) + 1] = x
      /\ \A i \in 1 .. Len(ms) : more[i] = ms[i]
  BY Appended
<1> HIDE DEF more
<1>2. Len(ms) \in Nat /\ DOMAIN ms = 1 .. Len(ms) /\ DOMAIN more = 1 .. Len(ms) + 1
  BY <1>1
<1>3. PICK k \in DOMAIN ms : StartsWith(g, ms[k].dest)
  BY DEF Seen
<1>4. k \in DOMAIN more /\ more[k] = ms[k]
  BY <1>1, <1>2
<1>5. ASSUME NEW j \in DOMAIN more, StartsWith(g, more[j].dest)
      PROVE  Reached(more[j], g) = g
  <2>1. CASE j = Len(ms) + 1
    BY <1>1, <1>5, <2>1
  <2>2. CASE j \in DOMAIN ms
    BY <1>1, <1>2, <1>5, <2>2 DEF Seen
  <2> QED BY <1>2, <2>1, <2>2
<1>6. Seen(more, g)
  BY <1>3, <1>4, <1>5 DEF Seen
<1> QED BY <1>6 DEF more

\* covering_mount says `same' of a path some protected directory or the first
\* mount over it shows as itself ...
LEMMA CoverSame ==
  ASSUME NEW own \in Seq(Mounts), NEW protected \in Seq(AnyPath), NEW g,
         CoveringMount(own, protected, g) = "same"
  PROVE  \/ \E i \in DOMAIN protected :
              StartsWith(g, protected[i]) /\ protected[i] # HomeDest
         \/ /\ \A i \in DOMAIN protected : ~ StartsWith(g, protected[i])
            /\ \E m \in DOMAIN own :
                 /\ StartsWith(g, own[m].dest) /\ Reached(own[m], g) = g
                 /\ \A k \in DOMAIN own : StartsWith(g, own[k].dest) => m <= k
<1> DEFINE kept == {i \in DOMAIN protected : StartsWith(g, protected[i])}
           over == {i \in DOMAIN own : StartsWith(g, own[i].dest)}
<1>1. kept \in SUBSET Nat /\ over \in SUBSET Nat
  OBVIOUS
<1>2. CASE kept # {}
  <2>1. Min(kept) \in kept
    BY <1>1, <1>2, LeastOf
  <2>2. ProtectedCoverage(protected, g)
          = IF protected[Min(kept)] \in {g, HomeDest} THEN "conflict" ELSE "same"
    BY <1>2 DEF ProtectedCoverage
  <2>3. ProtectedCoverage(protected, g) = "same"
    BY <2>2, MountAssumption DEF CoveringMount, OrElse
  <2>4. protected[Min(kept)] # HomeDest
    BY <2>2, <2>3
  <2> QED BY <2>1, <2>4
<1>3. CASE kept = {}
  <2>1. ProtectedCoverage(protected, g) = None
    BY <1>3 DEF ProtectedCoverage
  <2>2. MountCoverage(own, g) = "same"
    BY <2>1 DEF CoveringMount, OrElse
  <2>3. over # {} /\ Reached(own[Min(over)], g) = g
    BY <2>2, MountAssumption DEF MountCoverage
  <2>4. Min(over) \in over /\ \A y \in over : Min(over) <= y
    BY <1>1, <2>3, LeastOf
  <2> QED BY <1>3, <2>3, <2>4
<1> QED BY <1>2, <1>3

\* ... and neither `same' nor `conflict' of one that nothing is mounted over.
LEMMA CoverNone ==
  ASSUME NEW own \in Seq(Mounts), NEW protected \in Seq(AnyPath), NEW g,
         CoveringMount(own, protected, g) \notin {"same", "conflict"}
  PROVE  /\ \A i \in DOMAIN protected : ~ StartsWith(g, protected[i])
         /\ \A m \in DOMAIN own : ~ StartsWith(g, own[m].dest)
<1> DEFINE kept == {i \in DOMAIN protected : StartsWith(g, protected[i])}
           over == {i \in DOMAIN own : StartsWith(g, own[i].dest)}
<1>1. CASE kept # {}
  <2>1. ProtectedCoverage(protected, g) \in {"same", "conflict"}
    BY <1>1 DEF ProtectedCoverage
  <2> QED BY <2>1, MountAssumption DEF CoveringMount, OrElse
<1>2. CASE kept = {}
  <2>1. ProtectedCoverage(protected, g) = None
    BY <1>2 DEF ProtectedCoverage
  <2>2. MountCoverage(own, g) \notin {"same", "conflict"}
    BY <2>1 DEF CoveringMount, OrElse
  <2>3. over = {}
    BY <2>2 DEF MountCoverage
  <2> QED BY <1>2, <2>3
<1> QED BY <1>1, <1>2

\* What lies over a protected path is pall8t's own or a git directory, and shows
\* that path as itself.
LEMMA UnderProtected ==
  ASSUME NEW ms \in Seq(Mounts), NEW protected \in Seq(AnyPath), NEW es, NEW ro, NEW upto,
         Based(ms, protected), Apart(ms, es, protected, ro, upto),
         NEW i \in 1 .. Len(protected) - 1, NEW g \in AnyPath, StartsWith(g, protected[i])
  PROVE  Seen(ms, g)
<1>1. /\ Len(ms) \in Nat /\ Len(protected) \in Nat
      /\ DOMAIN ms = 1 .. Len(ms) /\ DOMAIN protected = 1 .. Len(protected)
      /\ Len(protected) - 1 <= Len(ms)
  BY DEF Based
<1>2. i \in DOMAIN ms /\ i \in DOMAIN protected /\ ms[i].dest = protected[i]
  BY <1>1 DEF Based
<1>3. ASSUME NEW k \in DOMAIN ms, StartsWith(g, ms[k].dest)
      PROVE  Reached(ms[k], g) = g
  <2>1. ms[k] \in Mounts /\ ms[k].dest \in AnyPath /\ protected[i] \in AnyPath
    BY <1>1, <1>2, MountFields
  <2>2. SUFFICES ms[k].host = ms[k].dest
    BY <1>3, <2>1, AsItself
  <2>3. CASE k \in 1 .. Len(protected) - 1
    BY <2>3 DEF Based
  <2>4. CASE k \in Added(ms, protected)
    <3>1. Overlaps(ms[k].dest, protected[i])
      BY <1>3, <2>1, PrefixesMeet
    <3>2. ~ Clear(ms[k], protected)
      BY <1>2, <3>1 DEF Clear
    <3>3. ByGit(ms[k], es, protected)
      BY <2>4, <3>2 DEF Apart
    <3> QED BY <3>3 DEF ByGit
  <2> QED BY <1>1, <2>3, <2>4 DEF Added
<1> QED BY <1>2, <1>3 DEF Seen

\* An entry's own mount, which overlaps none before it.
LEMMA OwnLaid ==
  ASSUME NEW ms \in Seq(Mounts), NEW protected \in Seq(AnyPath), NEW es, NEW ro,
         NEW k \in Nat, k >= 1, NEW o \in Mounts,
         Based(ms, protected), Apart(ms, es, protected, ro, k - 1), GitSeen(ms, es, k - 1),
         o = Own(es[k], ro), Clear(o, protected),
         \A j \in Added(ms, protected) : ~ Overlaps(o.dest, ms[j].dest),
         \A i \in 1 .. k - 1 : NeededGitDir(es[i]) \in AnyPath \cup {None}
  PROVE  /\ Based(Append(ms, o), protected)
         /\ Apart(Append(ms, o), es, protected, ro, k)
         /\ GitSeen(Append(ms, o), es, k - 1)
<1> DEFINE more == Append(ms, o)
<1>1. /\ more \in Seq(Mounts) /\ Len(more) = Len(ms) + 1 /\ more[Len(ms) + 1] = o
      /\ \A i \in 1 .. Len(ms) : more[i] = ms[i]
  BY Appended
<1> HIDE DEF more
<1>2. /\ Len(ms) \in Nat /\ Len(protected) \in Nat
      /\ DOMAIN ms = 1 .. Len(ms) /\ DOMAIN protected = 1 .. Len(protected)
      /\ Len(protected) >= 1 /\ Len(protected) - 1 <= Len(ms)
      /\ protected[Len(protected)] = HomeDest
      /\ \A i \in 1 .. Len(protected) - 1 :
           ms[i].host = protected[i] /\ ms[i].dest = protected[i] /\ ~ ms[i].readonly
  BY DEF Based
<1>3. /\ Added(ms, protected) = Len(protected) .. Len(ms)
      /\ Added(more, protected) = Len(protected) .. Len(ms) + 1
  BY <1>1 DEF Added
<1>4. Based(more, protected)
  BY <1>1, <1>2 DEF Based
<1>5. ASSUME NEW j \in Added(more, protected)
      PROVE  ByGit(more[j], es, protected) \/ Clear(more[j], protected)
  <2>1. CASE j = Len(ms) + 1
    BY <1>1, <2>1
  <2>2. CASE j \in Added(ms, protected)
    <3>1. more[j] = ms[j]
      BY <1>1, <1>2, <1>3, <2>2
    <3> QED BY <2>2, <3>1 DEF Apart
  <2> QED BY <1>2, <1>3, <2>1, <2>2
<1>6. ASSUME NEW j \in Added(more, protected), NEW l \in Added(more, protected), j < l
      PROVE  ByGit(more[l], es, protected) \/ ~ Overlaps(more[j].dest, more[l].dest)
  <2>1. j \in Added(ms, protected) /\ more[j] = ms[j]
    BY <1>1, <1>2, <1>3, <1>6
  <2>2. CASE l = Len(ms) + 1
    <3>1. ~ Overlaps(o.dest, ms[j].dest) /\ more[l] = o
      BY <1>1, <2>1, <2>2
    <3>2. ~ Overlaps(ms[j].dest, o.dest)
      BY <3>1 DEF Overlaps
    <3> QED BY <2>1, <3>1, <3>2
  <2>3. CASE l \in Added(ms, protected)
    <3>1. more[l] = ms[l]
      BY <1>1, <1>2, <1>3, <2>3
    <3> QED BY <1>6, <2>1, <2>3, <3>1 DEF Apart
  <2> QED BY <1>2, <1>3, <2>2, <2>3
<1>7. ASSUME NEW i \in 1 .. k
      PROVE  \E j \in Added(more, protected) :
               more[j] = Own(es[i], ro) /\ Clear(more[j], protected)
  <2>1. CASE i = k
    <3>1. Len(ms) + 1 \in Added(more, protected)
      BY <1>2, <1>3
    <3> QED BY <1>1, <2>1, <3>1
  <2>2. CASE i \in 1 .. k - 1
    <3>1. PICK j \in Added(ms, protected) : ms[j] = Own(es[i], ro) /\ Clear(ms[j], protected)
      BY <2>2 DEF Apart
    <3>2. j \in Added(more, protected) /\ more[j] = ms[j]
      BY <1>1, <1>2, <1>3
    <3> QED BY <3>1, <3>2
  <2> QED BY <2>1, <2>2
<1>8. Apart(more, es, protected, ro, k)
  BY <1>5, <1>6, <1>7 DEF Apart
<1>9. ASSUME NEW i \in 1 .. k - 1, NeededGitDir(es[i]) # None
      PROVE  Seen(more, NeededGitDir(es[i]))
  <2> DEFINE g == NeededGitDir(es[i])
  <2>1. Seen(ms, g) /\ g \in AnyPath
    BY <1>9 DEF GitSeen
  <2> HIDE DEF g
  <2>2. PICK j \in DOMAIN ms : StartsWith(g, ms[j].dest)
    BY <2>1 DEF Seen
  <2>3. ms[j].dest \in AnyPath /\ o.dest \in AnyPath
    BY <1>2, MountFields
  <2>4. ~ Overlaps(o.dest, ms[j].dest)
    <3>1. CASE j \in 1 .. Len(protected) - 1
      <4>1. ms[j].dest = protected[j] /\ j \in DOMAIN protected
        BY <1>2, <3>1
      <4> QED BY <4>1 DEF Clear
    <3>2. CASE j \in Added(ms, protected)
      BY <3>2
    <3> QED BY <1>2, <1>3, <3>1, <3>2
  <2>5. ~ StartsWith(g, o.dest)
    BY <2>1, <2>2, <2>3, <2>4, PrefixesMeet
  <2>6. Seen(Append(ms, o), g)
    BY <2>1, <2>5, SeenMore
  <2> QED BY <2>6 DEF g, more
<1>10. GitSeen(more, es, k - 1)
  BY <1>9 DEF GitSeen
<1> QED BY <1>4, <1>8, <1>10 DEF more

\* A git directory that nothing is mounted over, mounted as itself.
LEMMA GitLaid ==
  ASSUME NEW ms \in Seq(Mounts), NEW protected \in Seq(AnyPath), NEW es, NEW ro,
         NEW k \in Nat, k >= 1, NEW x \in Mounts,
         Based(ms, protected), Apart(ms, es, protected, ro, k), GitSeen(ms, es, k - 1),
         \A i \in 1 .. k : NeededGitDir(es[i]) \in AnyPath \cup {None},
         ByGit(x, es, protected), x.dest = NeededGitDir(es[k]),
         \A m \in DOMAIN ms : ~ StartsWith(x.dest, ms[m].dest)
  PROVE  /\ Apart(Append(ms, x), es, protected, ro, k)
         /\ GitSeen(Append(ms, x), es, k)
<1> DEFINE more == Append(ms, x)
<1>1. /\ more \in Seq(Mounts) /\ Len(more) = Len(ms) + 1 /\ more[Len(ms) + 1] = x
      /\ \A i \in 1 .. Len(ms) : more[i] = ms[i]
  BY Appended
<1> HIDE DEF more
<1>2. /\ Len(ms) \in Nat /\ Len(protected) \in Nat
      /\ DOMAIN ms = 1 .. Len(ms) /\ DOMAIN more = 1 .. Len(ms) + 1
      /\ Len(protected) >= 1
  BY <1>1 DEF Based
<1>3. /\ Added(ms, protected) = Len(protected) .. Len(ms)
      /\ Added(more, protected) = Len(protected) .. Len(ms) + 1
  BY <1>1 DEF Added
<1>4. ASSUME NEW j \in Added(more, protected)
      PROVE  ByGit(more[j], es, protected) \/ Clear(more[j], protected)
  <2>1. CASE j = Len(ms) + 1
    BY <1>1, <2>1
  <2>2. CASE j \in Added(ms, protected)
    <3>1. more[j] = ms[j]
      BY <1>1, <1>2, <1>3, <2>2
    <3> QED BY <2>2, <3>1 DEF Apart
  <2> QED BY <1>2, <1>3, <2>1, <2>2
<1>5. ASSUME NEW j \in Added(more, protected), NEW l \in Added(more, protected), j < l
      PROVE  ByGit(more[l], es, protected) \/ ~ Overlaps(more[j].dest, more[l].dest)
  <2>1. j \in Added(ms, protected) /\ more[j] = ms[j]
    BY <1>1, <1>2, <1>3, <1>5
  <2>2. CASE l = Len(ms) + 1
    BY <1>1, <2>2
  <2>3. CASE l \in Added(ms, protected)
    <3>1. more[l] = ms[l]
      BY <1>1, <1>2, <1>3, <2>3
    <3> QED BY <1>5, <2>1, <2>3, <3>1 DEF Apart
  <2> QED BY <1>2, <1>3, <2>2, <2>3
<1>6. ASSUME NEW i \in 1 .. k
      PROVE  \E j \in Added(more, protected) :
               more[j] = Own(es[i], ro) /\ Clear(more[j], protected)
  <2>1. PICK j \in Added(ms, protected) : ms[j] = Own(es[i], ro) /\ Clear(ms[j], protected)
    BY DEF Apart
  <2>2. j \in Added(more, protected) /\ more[j] = ms[j]
    BY <1>1, <1>2, <1>3
  <2> QED BY <2>1, <2>2
<1>7. Apart(more, es, protected, ro, k)
  BY <1>4, <1>5, <1>6 DEF Apart
<1>8. x.host = x.dest /\ x.dest \in AnyPath
  BY MountFields DEF ByGit
<1>9. ASSUME NEW i \in 1 .. k - 1, NeededGitDir(es[i]) # None
      PROVE  Seen(more, NeededGitDir(es[i]))
  <2> DEFINE g == NeededGitDir(es[i])
  <2>1. Seen(ms, g) /\ g \in AnyPath
    BY <1>9 DEF GitSeen
  <2> HIDE DEF g
  <2>2. StartsWith(g, x.dest) => Reached(x, g) = g
    BY <1>8, <2>1, AsItself
  <2>3. Seen(Append(ms, x), g)
    BY <2>1, <2>2, SeenMore
  <2> QED BY <2>3 DEF g, more
<1>10. Seen(more, NeededGitDir(es[k]))
  <2>1. StartsWith(x.dest, x.dest) /\ Reached(x, x.dest) = x.dest
    BY <1>8, StartsItself, AsItself
  <2>2. ASSUME NEW j \in DOMAIN more, StartsWith(x.dest, more[j].dest)
        PROVE  Reached(more[j], x.dest) = x.dest
    <3>1. j = Len(ms) + 1
      BY <1>1, <1>2, <2>2
    <3> QED BY <1>1, <2>1, <3>1
  <2>3. Len(ms) + 1 \in DOMAIN more /\ StartsWith(x.dest, more[Len(ms) + 1].dest)
    BY <1>1, <1>2, <2>1
  <2>4. Seen(more, x.dest)
    BY <2>2, <2>3 DEF Seen
  <2> QED BY <2>4
<1>11. GitSeen(more, es, k)
  BY <1>9, <1>10 DEF GitSeen
<1> QED BY <1>7, <1>11 DEF more

\* What `same' was said of is seen.
LEMMA SameLaid ==
  ASSUME NEW ms \in Seq(Mounts), NEW protected \in Seq(AnyPath), NEW es, NEW ro, NEW upto,
         Based(ms, protected), Apart(ms, es, protected, ro, upto),
         NEW own \in Seq(Mounts), Len(own) = Len(ms) - Len(protected) + 1,
         \A i \in 1 .. Len(own) : own[i] = ms[Len(protected) - 1 + i],
         NEW g \in AnyPath, CoveringMount(own, protected, g) = "same"
  PROVE  Seen(ms, g)
<1>0. /\ Len(ms) \in Nat /\ Len(protected) \in Nat /\ Len(own) \in Nat
      /\ DOMAIN ms = 1 .. Len(ms) /\ DOMAIN protected = 1 .. Len(protected)
      /\ DOMAIN own = 1 .. Len(own)
  OBVIOUS
<1>1. /\ Len(ms) \in Nat /\ Len(protected) \in Nat /\ Len(own) \in Nat
      /\ DOMAIN ms = 1 .. Len(ms) /\ DOMAIN protected = 1 .. Len(protected)
      /\ DOMAIN own = 1 .. Len(own)
      /\ Len(protected) >= 1 /\ Len(protected) - 1 <= Len(ms)
      /\ protected[Len(protected)] = HomeDest
      /\ \A i \in 1 .. Len(protected) - 1 : ms[i].dest = protected[i]
  BY <1>0 DEF Based
<1>2. CASE \E i \in DOMAIN protected : StartsWith(g, protected[i]) /\ protected[i] # HomeDest
  <2>1. PICK i \in 1 .. Len(protected) :
               StartsWith(g, protected[i]) /\ protected[i] # HomeDest
    BY <1>1, <1>2
  <2>2. i # Len(protected)
    BY <1>1, <2>1
  <2>3. i \in 1 .. Len(protected) - 1
    BY <1>0, <2>2, NotLast
  <2> QED BY <2>1, <2>3, UnderProtected
<1>3. ASSUME \A i \in DOMAIN protected : ~ StartsWith(g, protected[i]),
             NEW m \in DOMAIN own, StartsWith(g, own[m].dest), Reached(own[m], g) = g,
             \A k \in DOMAIN own : StartsWith(g, own[k].dest) => m <= k
      PROVE  Seen(ms, g)
  <2> DEFINE n == Len(protected) - 1
  <2>1. /\ n + m \in Added(ms, protected) /\ n + m \in DOMAIN ms /\ own[m] = ms[n + m]
    <3>1. m \in 1 .. Len(own) /\ m \in Nat
      BY <1>1
    <3>2. n + m \in Len(protected) .. Len(ms) /\ n + m \in 1 .. Len(ms)
      BY <1>0, <1>1, <3>1
    <3> QED BY <1>1, <3>1, <3>2 DEF Added
  <2>2. ASSUME NEW k \in DOMAIN ms, StartsWith(g, ms[k].dest)
        PROVE  Reached(ms[k], g) = g
    <3>0. k \in 1 .. Len(ms) /\ n \in Nat
      BY <1>1
    <3>1. k \notin 1 .. n
      <4>1. ASSUME k \in 1 .. n PROVE FALSE
        <5>1. ms[k].dest = protected[k] /\ k \in 1 .. Len(protected)
          BY <1>1, <4>1
        <5> QED BY <1>1, <1>3, <2>2, <5>1
      <4> QED BY <4>1
    <3>2. k > n /\ k \in Len(protected) .. Len(ms) /\ k \in 1 .. Len(ms)
      BY <1>0, <3>0, <3>1
    <3>3. PICK l \in 1 .. Len(ms) - n : n + l = k
      <4>1. n \in Nat
        BY <1>1
      <4> HIDE DEF n
      <4> QED BY <1>1, <3>2, <4>1, Beyond
    <3>4. l \in DOMAIN own /\ own[l] = ms[k]
      <4>1. Len(ms) - n = Len(own)
        BY <1>1
      <4>2. l \in 1 .. Len(own)
        BY <3>3, <4>1
      <4> QED BY <1>1, <3>3, <4>2
    <3>5. m <= l
      BY <1>3, <2>2, <3>4
    <3>6. CASE m = l
      BY <1>3, <3>4, <3>6
    <3>7. CASE m < l
      <4>1. n + m < k
        BY <1>1, <3>3, <3>7
      <4>2. ms[k] \in Mounts /\ ms[k].dest \in AnyPath /\ ms[n + m].dest \in AnyPath
        BY <2>1, MountFields
      <4>3. Overlaps(ms[n + m].dest, ms[k].dest)
        BY <1>3, <2>1, <2>2, <4>2, PrefixesMeet
      <4>4. ByGit(ms[k], es, protected)
        BY <2>1, <3>2, <4>1, <4>3 DEF Apart, Added
      <4> QED BY <2>2, <4>2, <4>4, AsItself DEF ByGit
    <3> QED BY <1>1, <3>5, <3>6, <3>7
  <2>3. StartsWith(g, ms[n + m].dest)
    BY <1>3, <2>1
  <2> QED BY <2>1, <2>2, <2>3 DEF Seen
<1>4. \/ \E i \in DOMAIN protected : StartsWith(g, protected[i]) /\ protected[i] # HomeDest
      \/ /\ \A i \in DOMAIN protected : ~ StartsWith(g, protected[i])
         /\ \E m \in DOMAIN own :
              /\ StartsWith(g, own[m].dest) /\ Reached(own[m], g) = g
              /\ \A k \in DOMAIN own : StartsWith(g, own[k].dest) => m <= k
  BY CoverSame
<1> QED BY <1>2, <1>3, <1>4

Accepted(es, upto) == \A i \in 1 .. upto : Source(es[i]) \in Dirs

LEMMA NeededType ==
  ASSUME NEW e, Source(e) \in Dirs
  PROVE  NeededGitDir(e) \in AnyPath \cup {None}
BY MountAssumption, GitDirType DEF NeededGitDir

\* resolve: what an entry adds.
LEMMA WhatIsAdded ==
  ASSUME NEW c, NEW protected, NEW e \in Entry, NEW ro \in Opt(BOOLEAN),
         AddEntry(c, protected, e, ro) # None
  PROVE  LET own == Append(c, Own(e, ro))
             git == NeededGitDir(e)
             x   == DirMount(git, git, MountReadonly(e, ro))
         IN /\ Acceptable(c, protected, e) /\ Own(e, ro) \in Mounts
            /\ \/ git = None /\ AddEntry(c, protected, e, ro) = own
               \/ /\ git # None /\ CoveringMount(own, protected, git) = "same"
                  /\ AddEntry(c, protected, e, ro) = own
               \/ /\ git # None /\ x # None
                  /\ CoveringMount(own, protected, git) \notin {"same", "conflict"}
                  /\ AddEntry(c, protected, e, ro) = Append(own, x)
<1>1. Acceptable(c, protected, e)
  BY DEF AddEntry
<1>2. /\ Source(e) \in AnyPath /\ Target(e) \in AnyPath
      /\ MountReadonly(e, ro) \in BOOLEAN
  BY <1>1, EntryType, MountAssumption DEF Acceptable
<1>3. DirMount(Source(e), Target(e), MountReadonly(e, ro)) = Own(e, ro)
  BY <1>1 DEF Acceptable, DirMount, Own
<1>4. Own(e, ro) \in Mounts
  BY <1>2 DEF Own, Mount, Mounts
<1> QED
  BY <1>1, <1>3, <1>4 DEF AddEntry

LEMMA DirMountIs ==
  ASSUME NEW g \in AnyPath, NEW ro \in BOOLEAN, DirMount(g, g, ro) # None
  PROVE  LET x == DirMount(g, g, ro)
         IN x \in Mounts /\ x.host = g /\ x.dest = g /\ x.readonly = ro
BY DEF DirMount, Mount, Mounts

LEMMA BasedMore ==
  ASSUME NEW ms \in Seq(Mounts), NEW protected \in Seq(AnyPath), NEW x \in Mounts,
         Based(ms, protected)
  PROVE  Based(Append(ms, x), protected)
<1> DEFINE more == Append(ms, x)
<1>1. /\ more \in Seq(Mounts) /\ Len(more) = Len(ms) + 1
      /\ \A i \in 1 .. Len(ms) : more[i] = ms[i]
  BY Appended
<1> HIDE DEF more
<1>2. Len(ms) \in Nat /\ Len(protected) \in Nat
  OBVIOUS
<1>3. Based(more, protected)
  BY <1>1, <1>2 DEF Based
<1> QED BY <1>3 DEF more

\* resolve: an entry that is accepted is mounted clear of every protected path
\* and of the entries before it, and its git directory is seen as itself.
LEMMA EntryLaid ==
  ASSUME NEW ms \in Seq(Mounts), NEW protected \in Seq(AnyPath),
         NEW es \in Seq(Entry), NEW ro \in Opt(BOOLEAN), NEW k \in 1 .. Len(es),
         NEW head \in Seq(Mounts), Len(head) = Len(protected) - 1,
         NEW c \in Seq(Mounts), head \o c = ms,
         Based(ms, protected), Apart(ms, es, protected, ro, k - 1),
         GitSeen(ms, es, k - 1), Accepted(es, k - 1),
         NEW more, more # None,
         more = AddEntry(c, protected, es[k], ro)
  PROVE  /\ Based(head \o more, protected) /\ Apart(head \o more, es, protected, ro, k)
         /\ GitSeen(head \o more, es, k) /\ Accepted(es, k)
<1> DEFINE e == es[k]
           o == Own(e, ro)
           own == Append(c, o)
           git == NeededGitDir(e)
           x == DirMount(git, git, MountReadonly(e, ro))
           ms1 == Append(ms, o)
<1>1. e \in Entry /\ k \in Nat /\ k >= 1 /\ k \in DOMAIN es
  OBVIOUS
<1>3. /\ Len(c) = Len(ms) - Len(head) /\ DOMAIN c = 1 .. Len(c) /\ Len(c) \in Nat
      /\ \A i \in 1 .. Len(c) : c[i] = ms[Len(head) + i]
      /\ \A y \in Mounts : head \o Append(c, y) = Append(ms, y)
  <2>1. /\ Len(head \o c) = Len(head) + Len(c)
        /\ DOMAIN c = 1 .. Len(c) /\ Len(c) \in Nat /\ Len(head) \in Nat
        /\ \A i \in 1 .. Len(c) : (head \o c)[Len(head) + i] = c[i]
        /\ \A y \in Mounts : head \o Append(c, y) = Append(head \o c, y)
    BY MountsJoined
  <2>2. Len(c) = Len(ms) - Len(head)
    BY <2>1
  <2> QED BY <2>1, <2>2
<1>4. /\ Acceptable(c, protected, e) /\ o \in Mounts
      /\ \/ git = None /\ more = own
         \/ git # None /\ CoveringMount(own, protected, git) = "same" /\ more = own
         \/ /\ git # None /\ x # None
            /\ CoveringMount(own, protected, git) \notin {"same", "conflict"}
            /\ more = Append(own, x)
  BY <1>1, WhatIsAdded
<1>5. /\ Source(e) \in Dirs /\ o.dest = Target(e)
      /\ \A i \in DOMAIN protected : ~ Overlaps(o.dest, protected[i])
      /\ \A i \in DOMAIN c : ~ Overlaps(o.dest, c[i].dest)
  BY <1>4 DEF Acceptable, Own, Mount
<1> HIDE DEF o
<1>6. Clear(o, protected)
  BY <1>5 DEF Clear
<1>7. Len(ms) \in Nat /\ Len(head) \in Nat /\ Len(protected) \in Nat /\ Len(protected) >= 1
  BY DEF Based
<1>8. \A j \in Added(ms, protected) : ~ Overlaps(o.dest, ms[j].dest)
  <2>1. TAKE j \in Added(ms, protected)
  <2>2. j \in 1 .. Len(ms) /\ j > Len(head)
    BY <1>7 DEF Added
  <2>3. PICK i \in 1 .. Len(ms) - Len(head) : Len(head) + i = j
    BY <1>7, <2>2, Beyond
  <2>4. i \in 1 .. Len(c)
    BY <1>3, <2>3
  <2>5. i \in DOMAIN c /\ c[i] = ms[j]
    BY <1>3, <2>3, <2>4
  <2> QED BY <1>5, <2>5
<1>9. Accepted(es, k)
  BY <1>1, <1>5 DEF Accepted
<1>10. \A i \in 1 .. k : NeededGitDir(es[i]) \in AnyPath \cup {None}
  BY <1>9, NeededType DEF Accepted
<1>11. /\ Based(ms1, protected) /\ Apart(ms1, es, protected, ro, k)
       /\ GitSeen(ms1, es, k - 1)
  <2>1. \A i \in 1 .. k - 1 : NeededGitDir(es[i]) \in AnyPath \cup {None}
    BY <1>1, <1>10
  <2>2. o = Own(es[k], ro)
    BY DEF o
  <2> QED BY <1>1, <1>4, <1>6, <1>8, <2>1, <2>2, OwnLaid
<1>12. /\ own \in Seq(Mounts) /\ Len(own) = Len(c) + 1 /\ head \o own = ms1
       /\ ms1 \in Seq(Mounts) /\ Len(ms1) = Len(ms) + 1
  BY <1>3, <1>4
<1>13. /\ DOMAIN own = 1 .. Len(own)
       /\ \A i \in 1 .. Len(own) : own[i] = ms1[Len(head) + i]
  <2> HIDE DEF own, ms1
  <2> QED BY <1>12, MountsJoined
<1> HIDE DEF own, ms1, git, x
<1>14. git \in AnyPath \cup {None}
  <2>1. k \in 1 .. k
    BY <1>1
  <2> QED BY <1>10, <2>1 DEF git
<1>15. CASE git = None /\ more = own
  <2>1. GitSeen(ms1, es, k)
    <3>1. ASSUME NEW i \in 1 .. k, NeededGitDir(es[i]) # None
          PROVE  Seen(ms1, NeededGitDir(es[i]))
      <4>1. i = k \/ i \in 1 .. k - 1
        BY <1>1
      <4> QED BY <1>11, <1>15, <3>1, <4>1 DEF GitSeen, git
    <3> QED BY <3>1 DEF GitSeen
  <2> QED BY <1>9, <1>11, <1>12, <1>15, <2>1
<1>16. CASE git # None /\ CoveringMount(own, protected, git) = "same" /\ more = own
  <2>1. /\ Len(own) = Len(ms1) - Len(protected) + 1
        /\ \A i \in 1 .. Len(own) : own[i] = ms1[Len(protected) - 1 + i]
    <3>1. Len(own) = Len(ms1) - Len(protected) + 1
      BY <1>3, <1>7, <1>12
    <3> QED BY <1>13, <3>1
  <2>2. Seen(ms1, git)
    BY <1>11, <1>12, <1>14, <1>16, <2>1, SameLaid
  <2>3. GitSeen(ms1, es, k)
    <3>1. ASSUME NEW i \in 1 .. k, NeededGitDir(es[i]) # None
          PROVE  Seen(ms1, NeededGitDir(es[i]))
      <4>1. i = k \/ i \in 1 .. k - 1
        BY <1>1
      <4> QED BY <1>11, <2>2, <3>1, <4>1 DEF GitSeen, git
    <3> QED BY <3>1 DEF GitSeen
  <2> QED BY <1>9, <1>11, <1>12, <1>16, <2>3
<1>17. CASE /\ git # None /\ x # None
            /\ CoveringMount(own, protected, git) \notin {"same", "conflict"}
            /\ more = Append(own, x)
  <2>1. /\ \A i \in DOMAIN protected : ~ StartsWith(git, protected[i])
        /\ \A m \in DOMAIN own : ~ StartsWith(git, own[m].dest)
    BY <1>12, <1>17, CoverNone
  <2>2. MountReadonly(e, ro) \in BOOLEAN
    BY <1>1, EntryType
  <2>3. x \in Mounts /\ x.host = git /\ x.dest = git
    BY <1>14, <1>17, <2>2, DirMountIs DEF x
  <2>4. git = MainGitDir(Source(e))
    BY <1>17 DEF git, NeededGitDir
  <2>5. ByGit(x, es, protected)
    BY <1>1, <1>5, <1>17, <2>1, <2>3, <2>4 DEF ByGit, GitOf
  <2>6. \A m \in DOMAIN ms1 : ~ StartsWith(git, ms1[m].dest)
    <3>1. TAKE m \in DOMAIN ms1
    <3>2. m \in 1 .. Len(ms1) /\ Len(ms1) \in Nat
      BY <1>12
    <3>3. CASE m \in 1 .. Len(protected) - 1
      <4>1. ms1[m].dest = protected[m]
        BY <1>11, <3>3 DEF Based
      <4>2. m \in DOMAIN protected
        BY <1>7, <3>3
      <4> QED BY <2>1, <4>1, <4>2
    <3>4. CASE m > Len(head)
      <4>1. PICK i \in 1 .. Len(ms1) - Len(head) : Len(head) + i = m
        BY <1>7, <3>2, <3>4, Beyond
      <4>2. i \in 1 .. Len(own)
        BY <1>3, <1>7, <1>12, <4>1
      <4>3. i \in DOMAIN own /\ own[i] = ms1[m]
        BY <1>13, <4>1, <4>2
      <4> QED BY <2>1, <4>3
    <3> QED BY <1>7, <3>2, <3>3, <3>4
  <2>7. /\ Apart(Append(ms1, x), es, protected, ro, k)
        /\ GitSeen(Append(ms1, x), es, k)
    <3>1. x.dest = NeededGitDir(es[k])
      BY <2>3 DEF git
    <3> QED BY <1>1, <1>10, <1>11, <1>12, <2>3, <2>5, <2>6, <3>1, GitLaid
  <2>8. Based(Append(ms1, x), protected)
    BY <1>11, <1>12, <2>3, BasedMore
  <2>9. head \o more = Append(ms1, x)
    <3>1. head \o Append(own, x) = Append(head \o own, x)
      BY <1>12, <2>3, MountsJoined
    <3> QED BY <1>12, <1>17, <3>1
  <2> QED BY <1>9, <2>7, <2>8, <2>9
<1> QED BY <1>4, <1>15, <1>16, <1>17

LEMMA GreatestOf ==
  ASSUME NEW n \in Nat, NEW S \in SUBSET (1 .. n), S # {}
  PROVE  Max(S) \in S
<1>0. \A i \in S : i \in 1 .. n
  OBVIOUS
<1>1. \A i \in S : i \in Nat /\ n - i \in Nat
  BY <1>0
<1> DEFINE R == {n - i : i \in S}
<1>2. R \in SUBSET Nat
  BY <1>1
<1>3. R # {}
  OBVIOUS
<1>4. PICK r \in R : \A y \in R : r <= y
  <2> HIDE DEF R
  <2> QED BY <1>2, <1>3, LeastOf
<1>5. PICK m \in S : r = n - m
  BY <1>4
<1>6. \A y \in S : n - m <= n - y
  BY <1>4, <1>5
<1>7. \A y \in S : m >= y
  <2>1. TAKE y \in S
  <2>2. m \in Nat /\ y \in Nat
    BY <1>1
  <2>3. n - m <= n - y
    BY <1>6
  <2> QED BY <2>2, <2>3
<1> QED BY <1>7 DEF Max

\* A path that is seen as itself is what the last mount over it shows.
LEMMA SeenShown ==
  ASSUME NEW ms \in Seq(Mounts), NEW g, Seen(ms, g)
  PROVE  \E k \in DOMAIN ms :
           /\ StartsWith(g, ms[k].dest)
           /\ Shown(ms, g) = [host |-> g, readonly |-> ms[k].readonly]
<1> DEFINE over == {i \in DOMAIN ms : StartsWith(g, ms[i].dest)}
<1>1. over # {} /\ DOMAIN ms = 1 .. Len(ms) /\ Len(ms) \in Nat
  BY DEF Seen
<1>2. over \in SUBSET (1 .. Len(ms))
  BY <1>1
<1>3. Shown(ms, g) = [host |-> Reached(ms[Max(over)], g), readonly |-> ms[Max(over)].readonly]
  BY <1>1 DEF Shown
<1>4. Max(over) \in over
  <2> HIDE DEF over
  <2> QED BY <1>1, <1>2, GreatestOf
<1>5. Reached(ms[Max(over)], g) = g
  BY <1>4 DEF Seen
<1> QED BY <1>3, <1>4, <1>5

\* What pall8t puts into a container by itself, beside the home.
PutBy(m, es) == m.host \in {BinDir, RelaySocket} \/ GitOf(m, es)

EntriesShown(ms, es, ro) ==
  \A i \in DOMAIN es :
    /\ Source(es[i]) \in Dirs /\ ~ Overlaps(Target(es[i]), HomeDest)
    /\ \E j \in DOMAIN ms :
         /\ ms[j] = Own(es[i], ro)
         /\ \A k \in DOMAIN ms :
              \/ k = j \/ PutBy(ms[k], es) \/ PutBy(ms[j], es)
              \/ ~ Overlaps(Target(es[i]), ms[k].dest)

GitShown(ms, es, cwd) ==
  /\ \A i \in DOMAIN es : NeededGitDir(es[i]) # None => Seen(ms, NeededGitDir(es[i]))
  /\ MainGitDir(cwd) # None => Seen(ms, MainGitDir(cwd))

CwdShown(ms, cwd) ==
  /\ Seen(ms, cwd)
  /\ \A k \in DOMAIN ms : StartsWith(cwd, ms[k].dest) => ~ ms[k].readonly

\* What the implicit mounts and the protected paths are.
LEMMA ImplicitIs ==
  ASSUME NEW cwd \in Paths, Implicit(cwd) # None
  PROVE  /\ Protected(cwd) \in Seq(AnyPath)
         /\ Len(Protected(cwd)) = Len(Implicit(cwd)) + 1
         /\ Based(Implicit(cwd), Protected(cwd))
         /\ 1 \in 1 .. Len(Protected(cwd)) - 1 /\ Protected(cwd)[1] = cwd
         /\ MainGitDir(cwd) # None =>
              2 \in 1 .. Len(Protected(cwd)) - 1 /\ Protected(cwd)[2] = MainGitDir(cwd)
<1> DEFINE git == MainGitDir(cwd)
           dirs == IF git = None THEN <<cwd>> ELSE <<cwd, git>>
           n == Len(dirs)
<1>0. cwd \in AnyPath /\ git \in AnyPath \cup {None}
  BY GitDirType, MountAssumption
<1>1. /\ dirs \in Seq(AnyPath) /\ n \in Nat /\ DOMAIN dirs = 1 .. n
      /\ n >= 1 /\ dirs[1] = cwd /\ (git # None => n = 2 /\ dirs[2] = git)
  <2> HIDE DEF git
  <2>1. CASE git = None
    <3>1. dirs = <<cwd>>
      BY <2>1
    <3>2. Len(dirs) = 1 /\ dirs[1] = cwd /\ DOMAIN dirs = 1 .. 1 /\ dirs \in Seq(AnyPath)
      BY <1>0, <3>1
    <3> QED BY <2>1, <3>2
  <2>2. CASE git # None
    <3>1. dirs = <<cwd, git>> /\ git \in AnyPath
      BY <1>0, <2>2
    <3>2. /\ Len(dirs) = 2 /\ dirs[1] = cwd /\ dirs[2] = git
          /\ DOMAIN dirs = 1 .. 2 /\ dirs \in Seq(AnyPath)
      BY <1>0, <3>1
    <3> QED BY <2>2, <3>2
  <2> QED BY <2>1, <2>2
<1>2. /\ \A i \in DOMAIN dirs : DirMount(dirs[i], dirs[i], FALSE) # None
      /\ Implicit(cwd) = [i \in DOMAIN dirs |-> DirMount(dirs[i], dirs[i], FALSE)]
  BY DEF Implicit
<1> HIDE DEF dirs
<1>3. \A i \in 1 .. n : LET x == DirMount(dirs[i], dirs[i], FALSE)
                        IN x \in Mounts /\ x.host = dirs[i] /\ x.dest = dirs[i] /\ ~ x.readonly
  <2>1. TAKE i \in 1 .. n
  <2>2. dirs[i] \in AnyPath
    BY <1>1
  <2>3. DirMount(dirs[i], dirs[i], FALSE) # None
    BY <1>1, <1>2
  <2> QED BY <2>2, <2>3, DirMountIs
<1>4. /\ Implicit(cwd) \in [1 .. n -> Mounts]
      /\ \A i \in 1 .. n : LET x == Implicit(cwd)[i]
                           IN x.host = dirs[i] /\ x.dest = dirs[i] /\ ~ x.readonly
  BY <1>1, <1>2, <1>3
<1>5. Implicit(cwd) \in Seq(Mounts) /\ Len(Implicit(cwd)) = n /\ DOMAIN Implicit(cwd) = 1 .. n
  BY <1>1, <1>4
<1> DEFINE own == [i \in DOMAIN Implicit(cwd) |-> Implicit(cwd)[i].dest]
<1>6. own \in Seq(AnyPath) /\ Len(own) = n /\ \A i \in 1 .. n : own[i] = dirs[i]
  <2>1. own \in [1 .. n -> AnyPath] /\ \A i \in 1 .. n : own[i] = dirs[i]
    BY <1>1, <1>4, <1>5
  <2> QED BY <1>1, <2>1
<1>7. Protected(cwd) = Append(own, HomeDest)
  BY DEF Protected
<1> HIDE DEF own, n
<1>8. HomeDest \in AnyPath
  BY MountAssumption
<1>9. /\ Protected(cwd) \in Seq(AnyPath) /\ Len(Protected(cwd)) = n + 1
      /\ Protected(cwd)[n + 1] = HomeDest
      /\ \A i \in 1 .. n : Protected(cwd)[i] = dirs[i]
  BY <1>6, <1>7, <1>8, Appended
<1>10. n \in Nat /\ n >= 1 /\ Len(Protected(cwd)) - 1 = n
  BY <1>1, <1>9
<1>11. Based(Implicit(cwd), Protected(cwd))
  BY <1>4, <1>5, <1>9, <1>10 DEF Based
<1>12. 1 \in 1 .. n /\ (git # None => 2 \in 1 .. n)
  BY <1>1, <1>10 DEF n
<1> QED BY <1>1, <1>5, <1>9, <1>10, <1>11, <1>12

\* The git directories a workspace lies inside are its own (GitApart, of one).
CwdApart(cwd) ==
  \A d \in Dirs :
    MainGitDir(d) # None /\ StartsWith(cwd, MainGitDir(d)) => MainGitDir(d) = MainGitDir(cwd)

\* When every entry is resolved, all is seen as it was asked for.
LEMMA LaidShown ==
  ASSUME NEW cwd \in Dirs, Implicit(cwd) # None, NEW ms \in Seq(Mounts),
         NEW es \in Seq(Entry), NEW ro \in Opt(BOOLEAN),
         Based(ms, Protected(cwd)), Apart(ms, es, Protected(cwd), ro, Len(es)),
         GitSeen(ms, es, Len(es)), Accepted(es, Len(es))
  PROVE  /\ EntriesShown(ms, es, ro) /\ GitShown(ms, es, cwd)
         /\ CwdApart(cwd) => CwdShown(ms, cwd)
<1> DEFINE protected == Protected(cwd)
<1>1. cwd \in Paths /\ cwd \in AnyPath /\ MainGitDir(cwd) \in AnyPath \cup {None}
  BY MountAssumption, GitDirType
<1>2. /\ protected \in Seq(AnyPath)
      /\ 1 \in 1 .. Len(protected) - 1 /\ protected[1] = cwd
      /\ MainGitDir(cwd) # None =>
           2 \in 1 .. Len(protected) - 1 /\ protected[2] = MainGitDir(cwd)
  BY <1>1, ImplicitIs
<1>3. Based(ms, protected) /\ Apart(ms, es, protected, ro, Len(es))
  OBVIOUS
<1> HIDE DEF protected
<1>4. /\ DOMAIN ms = 1 .. Len(ms) /\ Len(ms) \in Nat
      /\ DOMAIN protected = 1 .. Len(protected) /\ Len(protected) \in Nat
      /\ DOMAIN es = 1 .. Len(es)
  BY <1>2
<1>5. \A k \in DOMAIN ms : k \in 1 .. Len(protected) - 1 \/ k \in Added(ms, protected)
  BY <1>4 DEF Added
<1>6. \A i \in 1 .. Len(protected) - 1 : i \in DOMAIN protected /\ ms[i].dest = protected[i]
  BY <1>3, <1>4 DEF Based
<1>7. Len(protected) \in DOMAIN protected /\ protected[Len(protected)] = HomeDest
  BY <1>3, <1>4 DEF Based
<1>8. ASSUME NEW i \in DOMAIN es
      PROVE  /\ Source(es[i]) \in Dirs /\ ~ Overlaps(Target(es[i]), HomeDest)
             /\ \E j \in DOMAIN ms :
                  /\ ms[j] = Own(es[i], ro)
                  /\ \A k \in DOMAIN ms :
                       \/ k = j \/ PutBy(ms[k], es) \/ PutBy(ms[j], es)
                       \/ ~ Overlaps(Target(es[i]), ms[k].dest)
  <2>1. PICK j \in Added(ms, protected) : ms[j] = Own(es[i], ro) /\ Clear(ms[j], protected)
    BY <1>3, <1>4 DEF Apart
  <2>2. j \in DOMAIN ms /\ ms[j].dest = Target(es[i])
    <3>1. Len(protected) >= 1
      BY <1>3 DEF Based
    <3> QED BY <1>4, <2>1, <3>1 DEF Added, Own, Mount
  <2>3. Source(es[i]) \in Dirs
    BY <1>4 DEF Accepted
  <2>4. \A l \in DOMAIN protected : ~ Overlaps(Target(es[i]), protected[l])
    BY <2>1, <2>2 DEF Clear
  <2>5. ASSUME NEW k \in DOMAIN ms
        PROVE  \/ k = j \/ PutBy(ms[k], es) \/ PutBy(ms[j], es)
               \/ ~ Overlaps(Target(es[i]), ms[k].dest)
    <3>1. CASE k \in 1 .. Len(protected) - 1
      BY <1>6, <2>4, <3>1
    <3>2. CASE k \in Added(ms, protected) /\ j < k
      <4>1. ByGit(ms[k], es, protected) \/ ~ Overlaps(ms[j].dest, ms[k].dest)
        BY <1>3, <2>1, <3>2 DEF Apart
      <4> QED BY <2>2, <4>1 DEF ByGit, PutBy
    <3>3. CASE k \in Added(ms, protected) /\ k < j
      <4>1. ByGit(ms[j], es, protected) \/ ~ Overlaps(ms[k].dest, ms[j].dest)
        BY <1>3, <2>1, <3>3 DEF Apart
      <4>2. Overlaps(ms[j].dest, ms[k].dest) => Overlaps(ms[k].dest, ms[j].dest)
        BY DEF Overlaps
      <4> QED BY <2>2, <4>1, <4>2 DEF ByGit, PutBy
    <3>4. j \in Nat /\ k \in Nat
      BY <1>4, <2>2
    <3> QED BY <1>5, <3>1, <3>2, <3>3, <3>4
  <2> QED BY <1>7, <2>1, <2>2, <2>3, <2>4, <2>5
<1>9. EntriesShown(ms, es, ro)
  BY <1>8 DEF EntriesShown
<1>10. MainGitDir(cwd) # None => Seen(ms, MainGitDir(cwd))
  <2>1. ASSUME MainGitDir(cwd) # None PROVE Seen(ms, MainGitDir(cwd))
    <3>1. MainGitDir(cwd) \in AnyPath
      BY <1>1, <2>1
    <3>2. StartsWith(MainGitDir(cwd), protected[2])
      BY <1>2, <2>1, <3>1, StartsItself
    <3> QED BY <1>2, <1>3, <2>1, <3>1, <3>2, UnderProtected
  <2> QED BY <2>1
<1>11. GitShown(ms, es, cwd)
  BY <1>4, <1>10 DEF GitShown, GitSeen
<1>12. Seen(ms, cwd)
  <2>1. StartsWith(cwd, protected[1])
    BY <1>1, <1>2, StartsItself
  <2> QED BY <1>1, <1>2, <1>3, <2>1, UnderProtected
<1>13. ASSUME CwdApart(cwd), NEW k \in DOMAIN ms, StartsWith(cwd, ms[k].dest)
       PROVE  ~ ms[k].readonly
  <2>1. CASE k \in 1 .. Len(protected) - 1
    BY <1>3, <2>1 DEF Based
  <2>2. CASE k \in Added(ms, protected)
    <3>1. Overlaps(ms[k].dest, protected[1]) /\ 1 \in DOMAIN protected
      BY <1>2, <1>6, <1>13 DEF Overlaps
    <3>2. ByGit(ms[k], es, protected)
      BY <1>3, <2>2, <3>1 DEF Apart, Clear
    <3>3. PICK i \in DOMAIN es : /\ Source(es[i]) \in Dirs
                                 /\ MainGitDir(Source(es[i])) # None
                                 /\ ms[k].dest = MainGitDir(Source(es[i]))
      BY <3>2 DEF ByGit, GitOf
    <3>4. ms[k].dest = MainGitDir(cwd) /\ MainGitDir(cwd) # None
      BY <1>13, <3>3 DEF CwdApart
    <3>5. 2 \in DOMAIN protected /\ ms[k].dest = protected[2] /\ ms[k].dest \in AnyPath
      BY <1>1, <1>2, <1>6, <3>4
    <3>6. ~ StartsWith(ms[k].dest, protected[2])
      BY <3>2, <3>5 DEF ByGit
    <3> QED BY <3>5, <3>6, StartsItself
  <2> QED BY <1>5, <2>1, <2>2
<1>14. CwdApart(cwd) => CwdShown(ms, cwd)
  BY <1>12, <1>13 DEF CwdShown
<1> QED BY <1>9, <1>11, <1>14

LEMMA GitDirApart ==
  ASSUME HostApart, NEW d \in Dirs, MainGitDir(d) # None,
         NEW x \in {HomeDest, BinDest, SocketDest}
  PROVE  ~ StartsWith(MainGitDir(d), x)
<1>0. /\ d \in Paths /\ Pointer[d] # None /\ CommonDir[Pointer[d]] # None
      /\ MainGitDir(d) = Canonical[CommonDir[Pointer[d]]]
  BY MountAssumption DEF MainGitDir
<1>1. \E q \in Paths : MainGitDir(d) = Canonical[q]
  <2>1. Pointer[d] \in Paths
    BY <1>0, MountAssumption
  <2>2. CommonDir[Pointer[d]] \in Paths
    BY <1>0, <2>1, MountAssumption
  <2> QED BY <1>0, <2>2
<1>2. PICK q \in Paths : MainGitDir(d) = Canonical[q]
  BY <1>1
<1>3. Canonical[q] \in Dirs \cup {Canonical[p] : p \in Paths}
  OBVIOUS
<1> QED BY <1>2, <1>3 DEF HostApart

\* The container's home and the bridge cover none of it.
LEMMA ShownMore ==
  ASSUME HostApart, NEW cwd \in Dirs, NEW ms \in Seq(Mounts), NEW es \in Seq(Entry),
         NEW ro \in Opt(BOOLEAN), NEW x \in Mounts,
         \/ x.dest = HomeDest
         \/ x.dest \in {BinDest, SocketDest} /\ PutBy(x, es),
         EntriesShown(ms, es, ro), GitShown(ms, es, cwd)
  PROVE  /\ EntriesShown(Append(ms, x), es, ro) /\ GitShown(Append(ms, x), es, cwd)
         /\ CwdShown(ms, cwd) => CwdShown(Append(ms, x), cwd)
<1> DEFINE more == Append(ms, x)
<1>1. /\ more \in Seq(Mounts) /\ Len(more) = Len(ms) + 1 /\ more[Len(ms) + 1] = x
      /\ \A i \in 1 .. Len(ms) : more[i] = ms[i]
  BY Appended, Zenon
<1> HIDE DEF more
<1>2. /\ Len(ms) \in Nat /\ DOMAIN ms = 1 .. Len(ms) /\ DOMAIN more = 1 .. Len(ms) + 1
  BY <1>1
<1>3. \A k \in DOMAIN more : k = Len(ms) + 1 \/ (k \in DOMAIN ms /\ more[k] = ms[k])
  BY <1>1, <1>2
<1>4. ASSUME NEW i \in DOMAIN es
      PROVE  \E j \in DOMAIN more :
               /\ more[j] = Own(es[i], ro)
               /\ \A k \in DOMAIN more :
                    \/ k = j \/ PutBy(more[k], es) \/ PutBy(more[j], es)
                    \/ ~ Overlaps(Target(es[i]), more[k].dest)
  <2>1. PICK j \in DOMAIN ms :
          /\ ms[j] = Own(es[i], ro)
          /\ \A k \in DOMAIN ms :
               \/ k = j \/ PutBy(ms[k], es) \/ PutBy(ms[j], es)
               \/ ~ Overlaps(Target(es[i]), ms[k].dest)
    BY DEF EntriesShown
  <2>2. j \in DOMAIN more /\ more[j] = ms[j]
    BY <1>1, <1>2
  <2>3. PutBy(x, es) \/ ~ Overlaps(Target(es[i]), x.dest)
    BY DEF EntriesShown
  <2>4. ASSUME NEW k \in DOMAIN more
        PROVE  \/ k = j \/ PutBy(more[k], es) \/ PutBy(more[j], es)
               \/ ~ Overlaps(Target(es[i]), more[k].dest)
    BY <1>1, <1>3, <2>1, <2>2, <2>3
  <2> QED BY <2>1, <2>2, <2>4
<1>5. EntriesShown(more, es, ro)
  BY <1>4 DEF EntriesShown
<1>6. ASSUME NEW g, Seen(ms, g), ~ StartsWith(g, x.dest)
      PROVE  Seen(more, g)
  BY <1>6, SeenMore DEF more
<1>7. x.dest \in {HomeDest, BinDest, SocketDest}
  OBVIOUS
<1>8. GitShown(more, es, cwd)
  <2>1. ASSUME NEW i \in DOMAIN es, NeededGitDir(es[i]) # None
        PROVE  Seen(more, NeededGitDir(es[i]))
    <3>1. Source(es[i]) \in Dirs /\ NeededGitDir(es[i]) = MainGitDir(Source(es[i]))
      BY <2>1 DEF EntriesShown, NeededGitDir
    <3>2. ~ StartsWith(NeededGitDir(es[i]), x.dest)
      BY <1>7, <2>1, <3>1, GitDirApart
    <3> QED BY <1>6, <2>1, <3>2 DEF GitShown
  <2>2. ASSUME MainGitDir(cwd) # None PROVE Seen(more, MainGitDir(cwd))
    <3>1. ~ StartsWith(MainGitDir(cwd), x.dest)
      BY <1>7, <2>2, GitDirApart
    <3> QED BY <1>6, <2>2, <3>1 DEF GitShown
  <2> QED BY <2>1, <2>2 DEF GitShown
<1>9. ASSUME CwdShown(ms, cwd) PROVE CwdShown(more, cwd)
  <2>1. ~ StartsWith(cwd, x.dest)
    <3>1. cwd \in Dirs \cup {Canonical[p] : p \in Paths} /\ cwd # None
      BY MountAssumption
    <3> QED BY <1>7, <3>1 DEF HostApart
  <2>2. Seen(more, cwd)
    BY <1>6, <1>9, <2>1 DEF CwdShown
  <2>3. \A k \in DOMAIN more : StartsWith(cwd, more[k].dest) => ~ more[k].readonly
    BY <1>1, <1>3, <1>9, <2>1 DEF CwdShown
  <2> QED BY <2>2, <2>3 DEF CwdShown
<1> QED BY <1>5, <1>8, <1>9 DEF more

\* Below its target, an entry's directory is shown, or something pall8t put there.
LEMMA EntryAsAsked ==
  ASSUME NEW ms \in Seq(Mounts), NEW es \in Seq(Entry), NEW ro \in Opt(BOOLEAN),
         EntriesShown(ms, es, ro), NEW i \in DOMAIN es, NEW b \in AnyPath
  PROVE  LET e == es[i]
             path == Target(e) \o b
         IN \/ Shown(ms, path)
                 = [host |-> Source(e) \o b, readonly |-> MountReadonly(e, ro)]
            \/ \E k \in DOMAIN ms : StartsWith(path, ms[k].dest) /\ PutBy(ms[k], es)
<1> DEFINE e == es[i]
           t == Target(e)
           path == t \o b
           over == {k \in DOMAIN ms : StartsWith(path, ms[k].dest)}
<1>1. PICK j \in DOMAIN ms :
        /\ ms[j] = Own(e, ro)
        /\ \A k \in DOMAIN ms :
             \/ k = j \/ PutBy(ms[k], es) \/ PutBy(ms[j], es)
             \/ ~ Overlaps(t, ms[k].dest)
  BY DEF EntriesShown
<1>2. /\ ms[j].dest = t /\ ms[j].host = Source(e)
      /\ ms[j].readonly = MountReadonly(e, ro)
  BY <1>1 DEF Own, Mount
<1>3. t \in AnyPath /\ j \in Nat
  BY <1>1, <1>2, MountFields
<1> HIDE DEF t, e
<1>4. /\ path \in AnyPath /\ StartsWith(path, t)
      /\ SubSeq(path, Len(t) + 1, Len(path)) = b
  BY <1>3, JoinPath
<1> HIDE DEF path
<1>5. CASE \E k \in over : PutBy(ms[k], es)
  BY <1>5 DEF path, t, e
<1>6. CASE ~ \E k \in over : PutBy(ms[k], es)
  <2>1. j \in over
    BY <1>2, <1>4
  <2>2. ASSUME NEW k \in over PROVE k = j
    <3>1. StartsWith(path, ms[k].dest) /\ ms[k].dest \in AnyPath
      BY MountFields
    <3>2. Overlaps(t, ms[k].dest)
      BY <1>3, <1>4, <3>1, PrefixesMeet
    <3> QED BY <1>1, <1>6, <2>1, <3>2
  <2>3. over = {j}
    BY <2>1, <2>2
  <2>4. Shown(ms, path) = [host |-> Reached(ms[Max({j})], path), readonly |-> ms[Max({j})].readonly]
    BY <2>3 DEF Shown
  <2>5. Max({j}) = j
    BY <1>3, OnlyOne
  <2>6. Reached(ms[j], path) = Source(e) \o b
    BY <1>2, <1>4 DEF Reached
  <2>7. Shown(ms, path) = [host |-> Source(e) \o b, readonly |-> MountReadonly(e, ro)]
    BY <1>2, <2>4, <2>5, <2>6
  <2> QED BY <2>7 DEF path, t, e
<1> QED BY <1>5, <1>6

LEMMA CwdAsAsked ==
  ASSUME NEW ms \in Seq(Mounts), NEW cwd \in AnyPath, CwdShown(ms, cwd)
  PROVE  Shown(ms, cwd \o << >>) = [host |-> cwd \o << >>, readonly |-> FALSE]
<1>1. cwd \o << >> = cwd
  BY DEF AnyPath
<1>2. PICK k \in DOMAIN ms :
        StartsWith(cwd, ms[k].dest) /\ Shown(ms, cwd) = [host |-> cwd, readonly |-> ms[k].readonly]
  BY SeenShown DEF CwdShown
<1>3. ms[k].readonly \in BOOLEAN
  BY MountFields
<1>4. ms[k].readonly = FALSE
  BY <1>2, <1>3 DEF CwdShown
<1> QED BY <1>1, <1>2, <1>4

LEMMA GitAsItself ==
  ASSUME NEW ms \in Seq(Mounts), NEW g, Seen(ms, g)
  PROVE  Shown(ms, g).host = g
BY SeenShown
-----------------------------------------------------------------------------
\* How far the mounts are planned. Before the entries none is counted; among
\* them those resolved are laid; after them all is shown.

LaidTo(ms, es, cwd, ro, upto) ==
  /\ Based(ms, Protected(cwd)) /\ Apart(ms, es, Protected(cwd), ro, upto)
  /\ GitSeen(ms, es, upto) /\ Accepted(es, upto)

AllShown(ms, es, cwd, ro) ==
  /\ EntriesShown(ms, es, ro) /\ GitShown(ms, es, cwd)
  /\ CwdApart(cwd) => CwdShown(ms, cwd)

Fresh == cmd.name = "run" /\ pc \in {"global", "project", "implicit"} => next = 1

Resolving ==
  pc = "entries" =>
    /\ next - 1 <= Len(cfg.mounts)
    /\ LaidTo(mounts, cfg.mounts, cmd.cwd, cmd.readonly, next - 1)

Resolved ==
  cmd.name = "run" /\ pc \in Planned =>
    AllShown(mounts, cfg.mounts, cmd.cwd, cmd.readonly)

LEMMA StepFresh ==
  ASSUME Base, Fresh, Next
  PROVE  Fresh'
<1>1. SUFFICES ASSUME cmd'.name = "run", pc' \in {"global", "project", "implicit"}
               PROVE  next' = 1
  BY DEF Fresh
<1>2. cmd' = cmd
  BY StepGoes DEF Goes
<1>3. CASE Loads
  BY <1>1, <1>2, <1>3 DEF Loads, ReadGlobal, ReadProject, planVars, Fresh
<1>4. CASE Plans
  BY <1>1, <1>2, <1>4 DEF Plans, PlanImplicit, PlanEntry, PlanHome, Goto
<1>5. CASE Runtimes
  BY <1>1, <1>5 DEF Runtimes, Probe, StartSystem, CheckVersion, Goto
<1>6. CASE Build \/ Reserve \/ DecideSsh \/ Announce \/ NamePane
  BY <1>1, <1>6 DEF Build, Reserve, DecideSsh, Announce, NamePane, Goto
<1>7. CASE PrepareBridge \/ AskVersion \/ VersionTold \/ SpawnRelay \/ Exec
  BY <1>1, <1>7 DEF PrepareBridge, AskVersion, VersionTold, SpawnRelay, Exec, Goto
<1>8. CASE Others
  BY <1>1, <1>2, <1>8
  DEF Others, List, AskWorkdir, Stop, DoctorProbes, DoctorReports, CheckFile, WriteFile,
      Goto, Ended, Base, Paced
<1>9. CASE World
  BY <1>1, <1>2, <1>9 DEF World, HerdrExits, HerdrWedges
<1> QED
  BY <1>3, <1>4, <1>5, <1>6, <1>7, <1>8, <1>9 DEF Next, Step, Launches

\* Only these two come to the entries.
LEMMA ToEntries ==
  ASSUME Base, Next, pc' = "entries"
  PROVE  PlanImplicit \/ PlanEntry
<1>1. ~ Loads
  BY DEF Loads, ReadGlobal, ReadProject, NoConfig, Goto, Base, Paced
<1>2. ~ Runtimes
  BY DEF Runtimes, Probe, StartSystem, CheckVersion, Goto, Base, Paced
<1>3. ~ Launches
  BY DEF Launches, Build, Reserve, DecideSsh, Announce, NamePane, PrepareBridge, AskVersion,
     VersionTold, SpawnRelay, Exec, Goto
<1>4. ~ Others
  BY DEF Others, List, AskWorkdir, Stop, DoctorProbes, DoctorReports, CheckFile, WriteFile,
      Goto, Ended
<1>5. ~ World
  BY DEF World, HerdrExits, HerdrWedges
<1>6. ~ PlanHome
  BY DEF PlanHome, Goto
<1> QED
  BY <1>1, <1>2, <1>3, <1>4, <1>5, <1>6 DEF Next, Step, Plans

LEMMA NoneResolved ==
  ASSUME NEW cwd \in Paths, Implicit(cwd) # None, NEW es, NEW ro
  PROVE  LaidTo(Implicit(cwd), es, cwd, ro, 0)
<1> DEFINE protected == Protected(cwd)
           ms == Implicit(cwd)
<1>1. /\ Len(protected) = Len(ms) + 1 /\ Based(ms, protected) /\ ms \in Seq(Mounts)
  BY ImplicitIs, ImplicitType
<1> HIDE DEF protected, ms
<1>2. Added(ms, protected) = {}
  <2>1. Len(ms) \in Nat
    BY <1>1
  <2> QED BY <1>1, <2>1 DEF Added
<1>3. 1 .. 0 = {}
  OBVIOUS
<1>4. Apart(ms, es, protected, ro, 0) /\ GitSeen(ms, es, 0) /\ Accepted(es, 0)
  BY <1>2, <1>3 DEF Apart, GitSeen, Accepted
<1> QED BY <1>1, <1>4 DEF LaidTo, protected, ms

LEMMA StepResolving ==
  ASSUME Base, Fresh, Resolving, Next
  PROVE  Resolving'
<1>1. SUFFICES ASSUME pc' = "entries"
               PROVE  /\ next' - 1 <= Len(cfg'.mounts)
                      /\ LaidTo(mounts', cfg'.mounts, cmd'.cwd, cmd'.readonly, next' - 1)
  BY DEF Resolving
<1>2. cmd.cwd \in Paths /\ cmd.readonly \in Opt(BOOLEAN) /\ Cwd = cmd.cwd
  BY Line DEF Cwd
<1>3. CASE PlanImplicit
  <2>1. /\ mounts' = Implicit(cmd.cwd) /\ Implicit(cmd.cwd) # None
        /\ cfg' = cfg /\ cmd' = cmd /\ next' = next /\ pc = "implicit"
    BY <1>1, <1>2, <1>3 DEF PlanImplicit, Goto
  <2>2. next' = 1 /\ cfg # None
    BY <2>1 DEF Fresh, Base, Paced, OfRun
  <2>3. LaidTo(Implicit(cmd.cwd), cfg.mounts, cmd.cwd, cmd.readonly, 0)
    BY <1>2, <2>1, NoneResolved
  <2>4. cfg.mounts \in Seq(Entry)
    BY <2>2, MountAssumption DEF Base, TypeOK, Opt, Config
  <2>5. Len(cfg.mounts) \in Nat
    BY <2>4
  <2> QED BY <2>1, <2>2, <2>3, <2>5
<1>4. CASE PlanEntry
  <2> DEFINE head == Implicit(cmd.cwd)
             es == cfg.mounts
             ro == cmd.readonly
             protected == Protected(cmd.cwd)
             c == SubSeq(mounts, Len(head) + 1, Len(mounts))
             more == AddEntry(c, protected, es[next], ro)
  <2>1. /\ pc = "entries" /\ next <= Len(es) /\ more # None
        /\ mounts' = head \o more /\ next' = next + 1 /\ cfg' = cfg /\ cmd' = cmd
    BY <1>1, <1>2, <1>4 DEF PlanEntry, Configured, Goto, planVars
  <2>2. /\ mounts \in Seq(Mounts) /\ next \in Nat /\ next >= 1 /\ cfg # None
        /\ head # None /\ Len(head) <= Len(mounts)
        /\ \A i \in 1 .. Len(head) : mounts[i] = head[i]
    BY <1>2, <2>1 DEF Base, Placed, TypeOK, Paced, OfRun
  <2>3. /\ head \in Seq(Mounts) /\ protected \in Seq(AnyPath)
        /\ Len(protected) = Len(head) + 1
    BY <1>2, <2>2, ImplicitIs, ImplicitType
  <2>4. es \in Seq(Entry)
    BY <2>2, MountAssumption DEF Base, TypeOK, Opt, Config
  <2>5. LaidTo(mounts, es, cmd.cwd, ro, next - 1)
    BY <2>1 DEF Resolving
  <2>6. c \in Seq(Mounts) /\ head \o c = mounts
    <3> HIDE DEF head
    <3> QED BY <2>2, <2>3, TailJoined
  <2>7. next \in 1 .. Len(es) /\ Len(head) = Len(protected) - 1
    BY <2>1, <2>2, <2>3, <2>4
  <2> HIDE DEF head, es, ro, protected, c
  <2>8. /\ Based(head \o more, protected) /\ Apart(head \o more, es, protected, ro, next)
        /\ GitSeen(head \o more, es, next) /\ Accepted(es, next)
    <3>1. /\ Based(mounts, protected) /\ Apart(mounts, es, protected, ro, next - 1)
          /\ GitSeen(mounts, es, next - 1) /\ Accepted(es, next - 1)
      BY <2>5 DEF LaidTo, protected
    <3>2. more = AddEntry(c, protected, es[next], ro)
      OBVIOUS
    <3>3. ro \in Opt(BOOLEAN)
      BY <1>2 DEF ro
    <3> HIDE DEF more
    <3> QED BY <2>1, <2>2, <2>3, <2>4, <2>6, <2>7, <3>1, <3>2, <3>3, EntryLaid
  <2>9. LaidTo(mounts', es, cmd.cwd, ro, next)
    BY <2>1, <2>8 DEF LaidTo, protected
  <2>10. next' - 1 = next
    BY <2>1, <2>2
  <2> QED BY <2>1, <2>9, <2>10 DEF es, ro
<1> QED BY <1>1, <1>3, <1>4, ToEntries

\* The bridge's mounts, one after the other.
LEMMA BridgeMountsAre ==
  ASSUME Base, \A i \in DOMAIN BridgeMounts : BridgeMounts[i] # None
  PROVE  LET bin == DirMount(BinDir, BinDest, TRUE)
             socket == SocketMount(RelaySocket, SocketDest)
         IN /\ socket \in Mounts /\ socket.host = RelaySocket /\ socket.dest = SocketDest
            /\ \/ mounts \o BridgeMounts = Append(mounts, socket)
               \/ /\ bin \in Mounts /\ bin.host = BinDir /\ bin.dest = BinDest
                  /\ mounts \o BridgeMounts = Append(Append(mounts, bin), socket)
<1> DEFINE bin == DirMount(BinDir, BinDest, TRUE)
           socket == SocketMount(RelaySocket, SocketDest)
<1>1. bin # None => bin \in Mounts /\ bin.host = BinDir /\ bin.dest = BinDest
  BY CommandAssumption, MountAssumption DEF DirMount, Mount, Mounts
<1>2. socket # None => socket \in Mounts /\ socket.host = RelaySocket /\ socket.dest = SocketDest
  BY CommandAssumption, MountAssumption DEF SocketMount, Mount, Mounts
<1>3. BridgeMounts = (IF cli THEN <<bin>> ELSE << >>) \o <<socket>>
  BY DEF BridgeMounts
<1>4. mounts \in Seq(Mounts)
  BY DEF Base, Placed
<1> HIDE DEF bin, socket
<1>5. CASE cli
  <2>1. BridgeMounts = <<bin>> \o <<socket>>
    BY <1>3, <1>5
  <2>2. bin # None /\ socket # None
    <3>1. DOMAIN BridgeMounts = 1 .. 2 /\ BridgeMounts[1] = bin /\ BridgeMounts[2] = socket
      BY <2>1
    <3> QED BY <3>1
  <2>3. mounts \o (<<bin>> \o <<socket>>) = Append(Append(mounts, bin), socket)
    <3>1. bin \in Mounts /\ socket \in Mounts
      BY <1>1, <1>2, <2>2
    <3>2. <<bin>> \in Seq(Mounts)
      BY <3>1
    <3>3. <<bin>> \o <<socket>> = Append(<<bin>>, socket)
      OBVIOUS
    <3>4. mounts \o <<bin>> = Append(mounts, bin)
      BY <1>4, <3>1
    <3>5. mounts \o Append(<<bin>>, socket) = Append(mounts \o <<bin>>, socket)
      BY <1>4, <3>1, <3>2, MountsJoined
    <3> QED BY <3>3, <3>4, <3>5
  <2> QED BY <1>1, <1>2, <2>1, <2>2, <2>3 DEF bin, socket
<1>6. CASE ~ cli
  <2>1. BridgeMounts = <<socket>>
    BY <1>3, <1>6
  <2>2. socket # None
    BY <2>1
  <2>3. mounts \o <<socket>> = Append(mounts, socket)
    BY <1>2, <1>4, <2>2
  <2> QED BY <1>2, <2>1, <2>2, <2>3 DEF bin, socket
<1> QED BY <1>5, <1>6

LEMMA StepResolved ==
  ASSUME HostApart, Base, Resolving, Resolved, Next
  PROVE  Resolved'
<1>1. cmd' = cmd /\ Goes
  BY StepGoes DEF Goes
<1>2. SUFFICES ASSUME cmd.name = "run", pc' \in Planned
               PROVE  AllShown(mounts', cfg'.mounts, cmd.cwd, cmd.readonly)
  BY <1>1 DEF Resolved
<1>3. /\ cmd.cwd \in Dirs /\ cmd.cwd \in Paths /\ cmd.readonly \in Opt(BOOLEAN)
      /\ cmd.cwd = Cwd
  BY CommandAssumption, MountAssumption DEF Base, TypeOK, Cwd
<1>4. /\ mounts \in Seq(Mounts)
      /\ cfg # None => cfg.mounts \in Seq(Entry)
  BY MountAssumption DEF Base, Placed, TypeOK, Opt, Config
<1>5. CASE SpawnRelay
  <2>1. pc = "relay" /\ cfg' = cfg
    BY <1>5 DEF SpawnRelay
  <2>2. cfg # None
    BY <1>2, <2>1 DEF Base, Paced, Planned
  <2> DEFINE es == cfg.mounts
  <2>3. /\ EntriesShown(mounts, es, cmd.readonly) /\ GitShown(mounts, es, cmd.cwd)
        /\ CwdApart(cmd.cwd) => CwdShown(mounts, cmd.cwd)
    BY <1>2, <2>1 DEF Resolved, AllShown, Planned
  <2>4. es \in Seq(Entry)
    BY <1>4, <2>2
  <2> HIDE DEF es
  <2>5. CASE mounts' = mounts
    BY <2>1, <2>3, <2>5 DEF AllShown, es
  <2>6. CASE mounts' = mounts \o BridgeMounts
              /\ \A i \in DOMAIN BridgeMounts : BridgeMounts[i] # None
    <3> DEFINE bin == DirMount(BinDir, BinDest, TRUE)
               socket == SocketMount(RelaySocket, SocketDest)
    <3>1. /\ socket \in Mounts /\ socket.host = RelaySocket /\ socket.dest = SocketDest
          /\ \/ mounts' = Append(mounts, socket)
             \/ /\ bin \in Mounts /\ bin.host = BinDir /\ bin.dest = BinDest
                /\ mounts' = Append(Append(mounts, bin), socket)
      BY <2>6, BridgeMountsAre
    <3> HIDE DEF bin, socket
    <3>2. PutBy(socket, es) /\ socket.dest \in {BinDest, SocketDest}
      BY <3>1 DEF PutBy
    <3>3. CASE mounts' = Append(mounts, socket)
      <4>1. /\ EntriesShown(mounts', es, cmd.readonly) /\ GitShown(mounts', es, cmd.cwd)
            /\ CwdShown(mounts, cmd.cwd) => CwdShown(mounts', cmd.cwd)
        BY <1>3, <1>4, <2>3, <2>4, <3>1, <3>2, <3>3, ShownMore
      <4> QED BY <2>1, <2>3, <4>1 DEF AllShown, es
    <3>4. CASE /\ bin \in Mounts /\ bin.host = BinDir /\ bin.dest = BinDest
               /\ mounts' = Append(Append(mounts, bin), socket)
      <4> DEFINE ms == Append(mounts, bin)
      <4>1. PutBy(bin, es) /\ bin.dest \in {BinDest, SocketDest}
        BY <3>4 DEF PutBy
      <4>2. /\ EntriesShown(ms, es, cmd.readonly) /\ GitShown(ms, es, cmd.cwd)
            /\ CwdShown(mounts, cmd.cwd) => CwdShown(ms, cmd.cwd)
        BY <1>3, <1>4, <2>3, <2>4, <3>4, <4>1, ShownMore
      <4>3. ms \in Seq(Mounts) /\ mounts' = Append(ms, socket)
        BY <1>4, <3>4
      <4> HIDE DEF ms
      <4>4. /\ EntriesShown(mounts', es, cmd.readonly) /\ GitShown(mounts', es, cmd.cwd)
            /\ CwdShown(ms, cmd.cwd) => CwdShown(mounts', cmd.cwd)
        BY <1>3, <2>4, <3>1, <3>2, <4>2, <4>3, ShownMore
      <4> QED BY <2>1, <2>3, <4>2, <4>4 DEF AllShown, es
    <3> QED BY <3>1, <3>3, <3>4
  <2> QED BY <1>5, <2>5, <2>6 DEF SpawnRelay
<1>6. CASE pc = "entries"
  <2> DEFINE home == DirMount(HomeDir, HomeDest, FALSE)
             es == cfg.mounts
  <2>1. PlanHome /\ pc' = "probe"
    BY <1>2, <1>6, FromEntries
  <2>2. /\ home # None /\ mounts' = Append(mounts, home) /\ cfg' = cfg
        /\ next > Len(es)
    BY <2>1 DEF PlanHome, Goto
  <2>3. home \in Mounts /\ home.dest = HomeDest
    BY <2>2, CommandAssumption, MountAssumption DEF DirMount, Mount, Mounts
  <2> HIDE DEF home
  <2>4. cfg # None /\ next \in Nat /\ Implicit(cmd.cwd) # None
    BY <1>2, <1>3, <1>6 DEF Base, Paced, Placed, TypeOK
  <2>5. es \in Seq(Entry) /\ Len(es) \in Nat
    BY <1>4, <2>4
  <2>6. next - 1 <= Len(es) /\ LaidTo(mounts, es, cmd.cwd, cmd.readonly, next - 1)
    BY <1>6 DEF Resolving
  <2>7. next - 1 = Len(es)
    BY <2>2, <2>4, <2>5, <2>6
  <2> HIDE DEF es
  <2>8. LaidTo(mounts, es, cmd.cwd, cmd.readonly, Len(es))
    BY <2>6, <2>7
  <2>9. /\ EntriesShown(mounts, es, cmd.readonly) /\ GitShown(mounts, es, cmd.cwd)
        /\ CwdApart(cmd.cwd) => CwdShown(mounts, cmd.cwd)
    BY <1>3, <1>4, <2>4, <2>5, <2>8, LaidShown DEF LaidTo
  <2>10. /\ EntriesShown(mounts', es, cmd.readonly) /\ GitShown(mounts', es, cmd.cwd)
         /\ CwdShown(mounts, cmd.cwd) => CwdShown(mounts', cmd.cwd)
    BY <1>3, <1>4, <2>2, <2>3, <2>5, <2>9, ShownMore
  <2> QED BY <2>2, <2>9, <2>10 DEF AllShown, es
<1>7. CASE ~ SpawnRelay /\ pc # "entries"
  <2>1. mounts' = mounts /\ pc \in Planned /\ cfg' = cfg
    BY <1>2, <1>7, ElsewhereAllowed
  <2> QED BY <1>2, <2>1 DEF Resolved
<1> QED BY <1>5, <1>6, <1>7
-----------------------------------------------------------------------------
\* What a run becomes has the mounts that were planned.

RanShown ==
  IsRun =>
    /\ AllShown(ran.mounts, cfg.mounts, cmd.cwd, cmd.readonly)
    /\ ran.mounts \in Seq(Mounts) /\ cfg.mounts \in Seq(Entry)
    /\ cmd.cwd \in AnyPath /\ cmd.readonly \in Opt(BOOLEAN)
    /\ \E s \in Starts : cmd.cwd = s.cmd.cwd

LEMMA ExecShows ==
  ASSUME Base, Resolved, Exec, cmd.name = "run", ran' = RunSpec
  PROVE  RanShown'
<1>1. pc = "exec" /\ cmd' = cmd /\ cfg' = cfg
  BY DEF Exec
<1>2. ran'.mounts = mounts
  BY DEF RunSpec
<1>3. cfg # None
  BY <1>1 DEF Base, Paced, Planned
<1>4. AllShown(mounts, cfg.mounts, cmd.cwd, cmd.readonly)
  BY <1>1 DEF Resolved, Planned
<1>5. mounts \in Seq(Mounts) /\ cfg.mounts \in Seq(Entry)
  BY <1>3, MountAssumption DEF Base, Placed, TypeOK, Opt, Config
<1>6. /\ cmd.cwd \in AnyPath /\ cmd.readonly \in Opt(BOOLEAN)
      /\ \E s \in Starts : cmd.cwd = s.cmd.cwd
  BY CommandAssumption, MountAssumption DEF Base, TypeOK
<1> QED BY <1>1, <1>2, <1>4, <1>5, <1>6 DEF RanShown

LEMMA RanGit ==
  ASSUME RanShown, IsRun
  PROVE  GitReadable
<1> DEFINE ms == ran.mounts
           es == cfg.mounts
           cwd == cmd.cwd
<1>1. ms \in Seq(Mounts) /\ es \in Seq(Entry) /\ GitShown(ms, es, cwd)
  BY DEF RanShown, AllShown
<1>2. Cwd = cwd
  BY DEF Cwd
<1> HIDE DEF ms, es, cwd
<1>3. MainGitDir(cwd) # None => Shown(ms, MainGitDir(cwd)).host = MainGitDir(cwd)
  BY <1>1, GitAsItself DEF GitShown
<1>4. ASSUME NEW i \in DOMAIN es, Target(es[i]) = Source(es[i]),
             MainGitDir(Source(es[i])) # None
      PROVE  Shown(ms, MainGitDir(Source(es[i]))).host = MainGitDir(Source(es[i]))
  <2>1. NeededGitDir(es[i]) = MainGitDir(Source(es[i]))
    BY <1>4 DEF NeededGitDir
  <2>2. Seen(ms, MainGitDir(Source(es[i])))
    BY <1>1, <1>4, <2>1 DEF GitShown
  <2> QED BY <1>1, <2>2, GitAsItself
<1>5. \A d \in {cwd} \cup {Source(es[i]) :
                             i \in {j \in DOMAIN es : Target(es[j]) = Source(es[j])}} :
        MainGitDir(d) # None => Shown(ms, MainGitDir(d)).host = MainGitDir(d)
  BY <1>3, <1>4
<1> QED BY <1>2, <1>5 DEF GitReadable, ms, es, cwd

\* What is below a directory on the way to a path.
LEMMA RestType ==
  ASSUME NEW p \in AnyPath, NEW d \in AnyPath, StartsWith(p, d)
  PROVE  SubSeq(p, Len(d) + 1, Len(p)) \in AnyPath
<1>1. Len(d) \in Nat /\ Len(p) \in Nat /\ Len(d) <= Len(p)
  BY DEF StartsWith, AnyPath
<1> QED BY <1>1 DEF AnyPath

LEMMA RanSeen ==
  ASSUME GitApart, RanShown, IsRun
  PROVE  SeenAsMounted
<1> DEFINE ms == ran.mounts
           es == cfg.mounts
           cwd == cmd.cwd
           ro == cmd.readonly
<1>1. /\ ms \in Seq(Mounts) /\ es \in Seq(Entry) /\ EntriesShown(ms, es, ro)
      /\ CwdApart(cwd) => CwdShown(ms, cwd)
      /\ cwd \in AnyPath /\ ro \in Opt(BOOLEAN)
      /\ \E s \in Starts : cwd = s.cmd.cwd
  BY DEF RanShown, AllShown
<1> HIDE DEF ms, es, cwd, ro
<1>2. CwdApart(cwd)
  BY <1>1 DEF CwdApart, GitApart
<1>3. Shown(ms, cwd \o << >>) = [host |-> cwd \o << >>, readonly |-> FALSE]
  BY <1>1, <1>2, CwdAsAsked
<1> DEFINE EntrySeen(i, b) ==
             \/ Shown(ms, Target(es[i]) \o b)
                  = [host |-> Source(es[i]) \o b, readonly |-> MountReadonly(es[i], ro)]
             \/ \E m \in {ms[k] : k \in DOMAIN ms} :
                  /\ StartsWith(Target(es[i]) \o b, m.dest)
                  /\ \/ m.host = BinDir \/ m.host = RelaySocket
                     \/ \E j \in DOMAIN es : m.host = MainGitDir(Source(es[j]))
<1>4. ASSUME NEW i \in DOMAIN es, NEW q \in Paths, StartsWith(q, Source(es[i])),
             NEW b, b = SubSeq(q, Len(Source(es[i])) + 1, Len(q))
      PROVE  EntrySeen(i, b)
  <2>1. q \in AnyPath /\ Source(es[i]) \in AnyPath
    BY <1>1, MountAssumption DEF EntriesShown
  <2>2. b \in AnyPath
    BY <1>4, <2>1, RestType
  <2>3. \/ Shown(ms, Target(es[i]) \o b)
             = [host |-> Source(es[i]) \o b, readonly |-> MountReadonly(es[i], ro)]
        \/ \E k \in DOMAIN ms : StartsWith(Target(es[i]) \o b, ms[k].dest) /\ PutBy(ms[k], es)
    BY <1>1, <2>2, EntryAsAsked
  <2>4. ASSUME NEW k \in DOMAIN ms, StartsWith(Target(es[i]) \o b, ms[k].dest),
               PutBy(ms[k], es)
        PROVE  \E m \in {ms[l] : l \in DOMAIN ms} :
                  /\ StartsWith(Target(es[i]) \o b, m.dest)
                  /\ \/ m.host = BinDir \/ m.host = RelaySocket
                     \/ \E j \in DOMAIN es : m.host = MainGitDir(Source(es[j]))
    <3>1. \/ ms[k].host = BinDir \/ ms[k].host = RelaySocket
          \/ \E j \in DOMAIN es : ms[k].host = MainGitDir(Source(es[j]))
      BY <2>4 DEF PutBy, GitOf
    <3>2. ms[k] \in {ms[l] : l \in DOMAIN ms}
      OBVIOUS
    <3> QED BY <2>4, <3>1, <3>2
  <2> QED BY <2>3, <2>4
<1>5. ASSUME NEW i \in DOMAIN es, NEW q \in {p \in Paths : StartsWith(p, Source(es[i]))}
      PROVE  EntrySeen(i, SubSeq(q, Len(Source(es[i])) + 1, Len(q)))
  <2>1. q \in Paths /\ StartsWith(q, Source(es[i]))
    OBVIOUS
  <2> DEFINE b == SubSeq(q, Len(Source(es[i])) + 1, Len(q))
  <2>2. b = SubSeq(q, Len(Source(es[i])) + 1, Len(q))
    OBVIOUS
  <2> HIDE DEF b, EntrySeen
  <2>3. EntrySeen(i, b)
    BY <1>4, <2>1, <2>2
  <2> QED BY <2>2, <2>3
<1> QED
  BY <1>3, <1>5 DEF SeenAsMounted, AsAsked, PutOver, Cwd, ms, es, cwd, ro

\* The inductive invariant of the plan, beside Carried.
Planning == Fresh /\ Resolving /\ Resolved /\ RanShown

LEMMA InitPlanning ==
  ASSUME Init
  PROVE  Planning
<1>1. /\ next = 1 /\ ran = None
      /\ pc \notin {"entries"} /\ (cmd.name = "run" => pc \notin Planned)
  BY CommandAssumption DEF Init, FirstPlace, Planned
<1> QED
  BY <1>1 DEF Planning, Fresh, Resolving, Resolved, RanShown, IsRun

LEMMA StepPlanning ==
  ASSUME HostApart, Base, Planning, [Next]_vars
  PROVE  Planning'
<1>1. CASE UNCHANGED vars
  BY <1>1 DEF vars, planVars, Planning, Fresh, Resolving, Resolved, RanShown, IsRun
<1>2. CASE Next
  <2>1. Fresh' /\ Resolving' /\ Resolved'
    BY <1>2, StepFresh, StepResolving, StepResolved DEF Planning
  <2>2. CASE IsRun'
    <3>1. Exec /\ ran' = RunSpec /\ cmd.name = "run"
      BY <1>2, <2>2, OnlyExec DEF IsRun, Exec
    <3>2. Resolved
      BY DEF Planning
    <3> QED
      BY <2>1, <3>1, <3>2, ExecShows DEF Planning
  <2>3. CASE ~ IsRun'
    BY <2>1, <2>3 DEF Planning, RanShown
  <2> QED
    BY <2>2, <2>3
<1> QED
  BY <1>1, <1>2

LEMMA AlwaysPlanning ==
  ASSUME HostApart
  PROVE  Spec => []Planning
<1>1. Init => Planning
  BY InitPlanning
<1>2. Base /\ Planning /\ [Next]_vars => Planning'
  BY StepPlanning
<1>3. Carried => Base
  BY DEF Carried
<1> QED
  BY <1>1, <1>2, <1>3, AlwaysCarried, PTL DEF Spec
-----------------------------------------------------------------------------

\* Whatever two files and whichever place it stopped at, a command's state is of
\* its types, and it holds a configuration exactly when both files were read and
\* neither declares [[repos]] (load).
THEOREM CommandsTypeCorrect == Spec => []TypeOK
<1>1. Carried => TypeOK
  BY DEF Carried, Base
<1> QED
  BY <1>1, AlwaysCarried, PTL

\* For any two files, mounts and machines, a run reaches outside its workspace
\* what the human's file or the command line allows, and no more (merge,
\* plan_mounts, prepare_bridge).
THEOREM ReachStaysHumans == Spec => []ReachIsHumans
<1>1. Carried => ReachIsHumans
  BY DEF Carried
<1> QED
  BY <1>1, AlwaysCarried, PTL

\* For any two files, mounts and machines, a run that becomes the client has
\* said what it refused, removed or loosened of a file, and what it forwards
\* (load, warn_config_issues, cmd_run).
THEOREM NothingStaysSilent == Spec => []NothingSilent
<1>1. Carried => NothingSilent
  BY DEF Carried
<1> QED
  BY <1>1, AlwaysCarried, PTL

\* Git can read the workspace and every worktree that is mounted at its own path:
\* whatever entries are resolved, in whatever order, the git directory each needs
\* is in the container as itself (main_git_dir, covering_mount), provided no host
\* directory lies where the container's own home and the bridge appear.
THEOREM WorktreesStayReadable ==
  ASSUME HostApart
  PROVE  Spec => []GitReadable
<1>1. Planning => GitReadable
  BY RanGit DEF Planning, GitReadable
<1> QED
  BY <1>1, AlwaysPlanning, PTL

\* Every entry is seen at its target and below as its own directory, read-only as
\* asked, save where the git directory of another entry or the bridge lies over
\* it; and so is the workspace (resolve, plan_mounts), provided besides that it
\* is in no other repository's git directory.
THEOREM EntriesStaySeen ==
  ASSUME HostApart, GitApart
  PROVE  Spec => []SeenAsMounted
<1>1. Planning => SeenAsMounted
  BY RanSeen DEF Planning, SeenAsMounted
<1> QED
  BY <1>1, AlwaysPlanning, PTL
=============================================================================
