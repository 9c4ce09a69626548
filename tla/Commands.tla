------------------------------ MODULE Commands ------------------------------
(***************************************************************************)
(* One pall8t command from the shell to its end (src/src/main.rs): `run',  *)
(* which reads two configuration files, plans mounts, starts the runtime,  *)
(* gets an image, names its pane, sets up the herdr bridge and becomes the *)
(* container client; and the smaller commands that share its beginnings.   *)
(*                                                                         *)
(* Calls of `container' and of herdr are external and are steps here; what *)
(* they do to images, tabs, relays and the binary cache is in              *)
(* ImageLifecycle, HerdrNaming, RelayLife and HerdrCache.                  *)
(***************************************************************************)
EXTENDS MountPlan, HerdrPane, Runtime

CONSTANTS
  HomeDir,       \* ~/.pall8t/home
  BinDir,        \* the verified herdr cache
  RelaySocket,   \* the relay's socket
  Starts,        \* what a command may be and find: [global, project, cmd, host],
                 \* with cmd a [name, cwd, readonly, ssh, given] and host a [probe,
                 \* version, env, reachable, sock, client, listing, wedged]
  TokensOf,      \* the words of a configured or given command
  VersionLimit   \* VERSION_LIMIT, in polls

\* What a command finds of the runtime and of its pane.
Listed ==
  [id : Opt(STRING), state : Opt(STRING), image : Opt(STRING), labelled : BOOLEAN,
   prefixed : BOOLEAN]
Host ==
  [probe : {"exit 0", "exit 1", "not found", "no spawn"}, version : Opt(Nat),
   env : [PaneVars -> Opt(STRING)], reachable : BOOLEAN, sock : Opt({"listening", "dead"}),
   client : Opt({"binary", "wrapper", "stale wrapper", "script"}),
   listing : [kind : {"empty", "garbled", "rows"}, rows : Seq(Listed)], wedged : BOOLEAN]

ASSUME CommandAssumption ==
  /\ VersionLimit \in Nat
  /\ {HomeDir, BinDir, RelaySocket} \subseteq AnyPath
  /\ \A s \in Starts : /\ s.global \in Files /\ s.project \in Files
                       /\ s.cmd.name \in {"run", "build", "ls", "exec", "stop", "doctor",
                                         "init"}
                       /\ s.cmd.cwd \in Dirs
                       /\ s.cmd.ssh \in Opt(BOOLEAN)
                       /\ s.cmd.readonly \in Opt(BOOLEAN)
                       /\ s.host \in Host /\ ~ s.host.wedged

VARIABLES
  file,    \* the two files: [global, project]
  cmd,     \* the command line
  host,    \* the machine: the runtime, the pane's environment, the ssh agent
  pc,
  read,    \* what has been read of each file, None before
  cfg,     \* the merged configuration, None before
  told,    \* what has been printed to stderr
  mounts,  \* the mounts planned so far
  next,    \* the next [[mounts]] entry
  call,    \* the bounded call of `herdr --version'
  agent,   \* the agent name announced for the pane
  cli,     \* whether herdr's CLI was found: Linux' for `run', the host's for `doctor'
  ran      \* what this process became or printed, None before

planVars == <<mounts, next>>
paneVars == <<agent, cli>>
vars == <<file, cmd, host, pc, read, cfg, told, planVars, call, paneVars, ran>>

Version == INSTANCE BoundedCall WITH Limit      <- VersionLimit,
                                     Grandchild <- TRUE

\* The workspace.
Cwd == cmd.cwd

Ended == {"done", "failed"}
Places ==
  {"global", "project", "implicit", "entries", "home", "probe", "start", "version",
   "build", "reserve", "ssh", "announce", "name", "bridge", "asking", "relay",
   "exec", "list", "workdir", "stop", "doctor", "init", "write"} \cup Ended

Messages ==
  {"home in global", "home in project", "ssh ignored", "hardening loosened",
   "sandbox ignored", "agent name inert", "repos in global", "repos in project",
   "worktree", "readonly idle", "outside", "starting", "outdated", "unreserved",
   "ssh warning", "ssh on", "shadowed", "no metadata", "bridge disabled",
   "no cli", "bridge active"}

TypeOK ==
  /\ file \in [{"global", "project"} -> Files]
  /\ cmd \in {s.cmd : s \in Starts}
  /\ pc \in Places
  /\ read \in [{"global", "project"} -> Opt(Raw)]
  /\ cfg \in Opt(Config)
  /\ cfg # None <=> read["project"] # None /\ ReposRemoved(read["global"], read["project"]) = {}
  /\ told \subseteq Messages
  /\ \A i \in DOMAIN mounts : mounts[i] # None
  /\ next \in Nat
  /\ call \in Version!Call
  /\ cli \in BOOLEAN
  /\ ran # None => pc = "done"

\* The first step of each command.
FirstPlace(name) ==
  CASE name \in {"run", "build"} -> "global"
    [] name \in {"ls", "exec", "stop"} -> "probe"
    [] name = "doctor" -> "doctor"
    [] name = "init" -> "init"

Init ==
  /\ \E s \in Starts :
       /\ file = [global |-> s.global, project |-> s.project]
       /\ cmd = s.cmd /\ host = s.host
  \* cmd_exec: no command is an error before anything is asked.
  /\ pc = IF cmd.name = "exec" /\ cmd.given = None THEN "failed" ELSE FirstPlace(cmd.name)
  /\ read = [f \in {"global", "project"} |-> None]
  /\ cfg = None /\ told = {}
  /\ mounts = << >> /\ next = 1
  /\ call = Version!Idle
  /\ agent = None /\ cli = FALSE
  /\ ran = None

Goto(place) == pc' = place
Say(messages) == told' = told \cup messages
-----------------------------------------------------------------------------
\* workspace_config

\* A doctor goes on without a configuration, the others do not.
NoConfig == Goto(IF cmd.name = "doctor" THEN "asking" ELSE "failed")

\* load: the human's file is read first.
ReadGlobal ==
  /\ pc = "global"
  /\ IF file["global"] = Invalid
     THEN NoConfig /\ UNCHANGED read
     ELSE /\ read' = [read EXCEPT !["global"] = ReadRaw(file["global"])]
          /\ Goto("project")
  /\ UNCHANGED <<file, cmd, host, cfg, told, planVars, call, paneVars, ran>>

\* Fault: the configuration's warnings are only printed for `build'.
ReadProjectQuietly ==
  /\ pc = "project"
  /\ IF file["project"] = Invalid \/ ReposRemoved(read["global"], ReadRaw(file["project"])) # {}
     THEN NoConfig /\ UNCHANGED <<read, cfg>>
     ELSE /\ read' = [read EXCEPT !["project"] = ReadRaw(file["project"])]
          /\ cfg' = Merge(read["global"], ReadRaw(file["project"]))
          /\ Goto(CASE cmd.name = "run"    -> "implicit"
                    [] cmd.name = "build"  -> "probe"
                    [] cmd.name = "doctor" -> "asking")
  /\ UNCHANGED <<file, cmd, host, told, planVars, call, paneVars, ran>>

\* Fault: [[repos]] is told of, and the file loaded all the same.
ReadProjectWithRepos ==
  /\ pc = "project"
  /\ IF file["project"] = Invalid
     THEN NoConfig /\ UNCHANGED <<read, cfg, told>>
     ELSE LET g == read["global"]
              p == ReadRaw(file["project"])
          IN /\ read' = [read EXCEPT !["project"] = p]
             /\ cfg' = Merge(g, p)
             /\ Say(Warnings(g, p) \cup ReposRemoved(g, p))
             /\ Goto(CASE cmd.name = "run"    -> "implicit"
                       [] cmd.name = "build"  -> "probe"
                       [] cmd.name = "doctor" -> "asking")
  /\ UNCHANGED <<file, cmd, host, planVars, call, paneVars, ran>>

\* load: then the repository's, and what the two of them come to.
ReadProject ==
  /\ pc = "project"
  /\ IF file["project"] = Invalid
     THEN NoConfig /\ UNCHANGED <<read, cfg, told>>
     ELSE LET g == read["global"]
              p == ReadRaw(file["project"])
          IN /\ read' = [read EXCEPT !["project"] = p]
             /\ IF ReposRemoved(g, p) # {}
                THEN Say(ReposRemoved(g, p)) /\ NoConfig /\ UNCHANGED cfg
                ELSE /\ cfg' = Merge(g, p)
                     /\ Say(Warnings(g, p))
                     /\ Goto(CASE cmd.name = "run"    -> "implicit"
                               [] cmd.name = "build"  -> "probe"
                               [] cmd.name = "doctor" -> "asking")
  /\ UNCHANGED <<file, cmd, host, planVars, call, paneVars, ran>>
-----------------------------------------------------------------------------
\* plan_mounts

PlanImplicit ==
  /\ pc = "implicit"
  /\ IF Implicit(Cwd) = None
     THEN Goto("failed") /\ UNCHANGED <<mounts, told>>
     ELSE /\ mounts' = Implicit(Cwd)
          /\ Say((IF MainGitDir(Cwd) # None THEN {"worktree"} ELSE {})
                 \cup (IF ReadonlyIdle(cmd.readonly, cfg.mounts)
                       THEN {"readonly idle"} ELSE {}))
          /\ Goto("entries")
  /\ UNCHANGED <<file, cmd, host, read, cfg, next, call, paneVars, ran>>

\* What `resolve' has made of the entries, without the implicit mounts.
Configured == SubSeq(mounts, Len(Implicit(Cwd)) + 1, Len(mounts))

\* resolve, one entry at a time.
PlanEntry ==
  /\ pc = "entries" /\ next <= Len(cfg.mounts)
  /\ LET more == AddEntry(Configured, Protected(Cwd), cfg.mounts[next], cmd.readonly)
     IN IF more = None
        THEN Goto("failed") /\ UNCHANGED planVars
        ELSE /\ mounts' = Implicit(Cwd) \o more
             /\ next' = next + 1
             /\ UNCHANGED pc
  /\ UNCHANGED <<file, cmd, host, read, cfg, told, call, paneVars, ran>>

\* The last mount is the container's home.
PlanHome ==
  /\ pc = "entries" /\ next > Len(cfg.mounts)
  /\ Say(IF FromOutside(Configured, Cwd, cfg.fromProject) # {} THEN {"outside"} ELSE {})
  /\ LET home == DirMount(HomeDir, HomeDest, FALSE)
     IN IF home = None
        THEN Goto("failed") /\ UNCHANGED mounts
        ELSE mounts' = Append(mounts, home) /\ Goto("probe")
  /\ UNCHANGED <<file, cmd, host, read, cfg, next, call, paneVars, ran>>
-----------------------------------------------------------------------------
\* ensure_container_system

Probe ==
  /\ pc = "probe"
  /\ Goto(CASE SystemStatus(host.probe) = "running" -> "version"
            [] SystemStatus(host.probe) = "stopped" -> "start"
            [] OTHER -> "failed")
  /\ UNCHANGED <<file, cmd, host, read, cfg, told, planVars, call, paneVars, ran>>

\* system_start: a start that fails ends the command, without the warning.
StartSystem ==
  /\ pc = "start"
  /\ Say({"starting"})
  /\ \/ host' = [host EXCEPT !.probe = "exit 0"] /\ Goto("version")
     \/ Goto("failed") /\ UNCHANGED host
  /\ UNCHANGED <<file, cmd, read, cfg, planVars, call, paneVars, ran>>

\* warn_if_container_outdated
CheckVersion ==
  /\ pc = "version"
  /\ Say(IF Outdated(host.version) THEN {"outdated"} ELSE {})
  /\ Goto(CASE cmd.name \in {"run", "build"} -> "build"
            [] cmd.name = "ls"   -> "list"
            [] cmd.name = "exec" -> "workdir"
            [] cmd.name = "stop" -> "stop")
  /\ UNCHANGED <<file, cmd, host, read, cfg, planVars, call, paneVars, ran>>

\* image::ensure_built gives an image or an error.
Build ==
  /\ pc = "build"
  /\ \/ Goto(IF cmd.name = "run" THEN "reserve" ELSE "done")
     \/ Goto("failed")
  /\ UNCHANGED <<file, cmd, host, read, cfg, told, planVars, call, paneVars, ran>>

\* reserve_tag is a hint: one that cannot be written is a warning.
Reserve ==
  /\ pc = "reserve"
  /\ \E m \in {{}, {"unreserved"}} : Say(m)
  /\ Goto("ssh")
  /\ UNCHANGED <<file, cmd, host, read, cfg, planVars, call, paneVars, ran>>
-----------------------------------------------------------------------------
\* cmd_run, between the image and the container.

Ssh == SshEnabled(cfg.ssh, cmd.ssh)

\* Forwarding is announced whether or not there is an agent to forward.
DecideSsh ==
  /\ pc = "ssh"
  /\ Say(IF SshWarning(Ssh, host.sock) THEN {"ssh warning"}
         ELSE IF Ssh THEN {"ssh on"} ELSE {})
  /\ Goto(IF Detected(host.env) THEN "announce" ELSE "exec")
  /\ UNCHANGED <<file, cmd, host, read, cfg, planVars, call, paneVars, ran>>

\* A command given on the line bypasses the configured one.
Command == OrElse(cmd.given, cfg.plain["command"])

\* announce_pane_identity: nothing without a name; report_metadata is a call
\* of herdr without a deadline.
Announce ==
  /\ pc = "announce"
  /\ LET hint == AgentHint(host.env, TokensOf[Command])
     IN /\ agent' = hint
        /\ \/ hint = None /\ UNCHANGED told
           \/ /\ hint # None /\ ~ host.wedged
              /\ \E m \in {{}, {"no metadata"}} :
                   Say(m \cup (IF Shadowed(host.env, TokensOf[Command])
                               THEN {"shadowed"} ELSE {}))
  /\ Goto("name")
  /\ UNCHANGED <<file, cmd, host, read, cfg, planVars, call, cli, ran>>

\* name_pane asks herdr for tabs and agents and renames, without a deadline.
NamePane ==
  /\ pc = "name"
  /\ cfg.autoRename => ~ host.wedged
  /\ Goto("bridge")
  /\ UNCHANGED <<file, cmd, host, read, cfg, told, planVars, call, paneVars, ran>>

\* prepare_bridge: off is silence, no socket is a warning.
PrepareBridge ==
  /\ pc = "bridge"
  /\ IF cfg.sandbox = "off" THEN Goto("exec") /\ UNCHANGED told
     ELSE IF host.env["HERDR_SOCKET_PATH"] = None
     THEN Say({"bridge disabled"}) /\ Goto("exec")
     ELSE Goto("asking") /\ UNCHANGED told
  /\ UNCHANGED <<file, cmd, host, read, cfg, planVars, call, paneVars, ran>>

\* host_herdr_version, under its deadline.
AskVersion ==
  /\ pc = "asking" /\ Version!CallerStep
  /\ UNCHANGED <<file, cmd, host, pc, read, cfg, told, planVars, paneVars, ran>>

HerdrExits ==
  /\ pc = "asking" /\ Version!ChildExits
  /\ UNCHANGED <<file, cmd, host, pc, read, cfg, told, planVars, paneVars, ran>>

\* ensure_linux_herdr: a version that is told may still lead to no binary.
VersionTold ==
  /\ pc = "asking" /\ cmd.name = "run" /\ Version!Returned
  /\ \/ call.at = "ok" /\ cli' = TRUE /\ UNCHANGED told
     \/ Say({"no cli"}) /\ UNCHANGED cli
  /\ Goto("relay")
  /\ UNCHANGED <<file, cmd, host, read, cfg, planVars, call, agent, ran>>

\* spawn_relay, whose own wait is bounded (RelayLife); a binary directory or a
\* socket path that cannot be mounted ends the bridge.
BridgeMounts ==
  (IF cli THEN <<DirMount(BinDir, BinDest, TRUE)>> ELSE << >>)
    \o <<SocketMount(RelaySocket, SocketDest)>>

SpawnRelay ==
  /\ pc = "relay"
  /\ \/ /\ \A i \in DOMAIN BridgeMounts : BridgeMounts[i] # None
        /\ mounts' = mounts \o BridgeMounts
        /\ Say({"bridge active"})
     \/ Say({"bridge disabled"}) /\ UNCHANGED mounts
  /\ Goto("exec")
  /\ UNCHANGED <<file, cmd, host, read, cfg, next, call, paneVars, ran>>

Bridged == "bridge active" \in told

\* run_labels: what the container is labelled with.
RunLabels ==
  {"pall8t.version", "pall8t.project", "pall8t.image"}
    \cup (IF MainGitDir(Cwd) # None THEN {"pall8t.worktree.git_dir"} ELSE {})
    \cup (IF Detected(host.env) THEN HerdrLabels(host.env) ELSE {})

\* RunSpec and run_argv: what the runtime is asked for. The paths git is told
\* to trust are those planned before the bridge's own mounts.
RunSpec ==
  LET own == IF Bridged THEN Len(mounts) - Len(BridgeMounts) ELSE Len(mounts)
  IN [mounts    |-> mounts,
      options   |-> [i \in DOMAIN mounts |-> Told(mounts[i])],
      safe      |-> SafeDirectories(SubSeq(mounts, 1, own)),
      ssh       |-> Ssh,
      hardening |-> cfg.hardening,
      bridge    |-> IF Bridged THEN cfg.sandbox ELSE "off",
      env       |-> IF Bridged THEN BridgeEnv(host.env) ELSE << >>,
      labels    |-> RunLabels,
      command   |-> Command,
      wrapped   |-> Bridged,   \* wrap_command_for_bridge
      argv0     |-> SeenArgv0(host.client, agent)]

\* exec_container: the process becomes the client, or there is none.
Exec ==
  /\ pc = "exec"
  /\ IF host.client = None
     THEN Goto("failed") /\ UNCHANGED ran
     ELSE Goto("done") /\ ran' = RunSpec
  /\ UNCHANGED <<file, cmd, host, read, cfg, told, planVars, call, paneVars>>
-----------------------------------------------------------------------------
\* The other commands.

\* cmd_ls: pall8t's containers, or an error where the shape is unknown.
List ==
  /\ pc = "list"
  /\ \/ /\ ListPall8t(host.listing) # None
        /\ Goto("done")
        /\ ran' = [listed |-> ListPall8t(host.listing)]
     \/ Goto("failed") /\ UNCHANGED ran
  /\ UNCHANGED <<file, cmd, host, read, cfg, told, planVars, call, paneVars>>

\* cmd_exec: the workspace the container was created with, if it can be told.
AskWorkdir ==
  /\ pc = "workdir"
  /\ IF host.client = None
     THEN Goto("failed") /\ UNCHANGED ran
     ELSE \E w \in Opt({Cwd}) : Goto("done") /\ ran' = [workdir |-> w, argv0 |-> "container"]
  /\ UNCHANGED <<file, cmd, host, read, cfg, told, planVars, call, paneVars>>

\* cmd_stop
Stop ==
  /\ pc = "stop"
  /\ \E place \in Ended : Goto(place)
  /\ UNCHANGED <<file, cmd, host, read, cfg, told, planVars, call, paneVars, ran>>

\* cmd_herdr Doctor: bin_resolvable waits for herdr without a deadline; the
\* configuration is read after it.
DoctorProbes ==
  /\ pc = "doctor" /\ ~ host.wedged
  /\ cli' \in BOOLEAN
  /\ Goto("global")
  /\ UNCHANGED <<file, cmd, host, read, cfg, told, planVars, call, agent, ran>>

\* Then what is cached for the version herdr tells (cached_linux_herdr).
DoctorReports ==
  /\ pc = "asking" /\ cmd.name = "doctor" /\ Version!Returned
  /\ Goto("done")
  /\ \E cached \in {FALSE, call.at = "ok"} :
       ran' = [checks |-> DoctorChecks(host.env, host.reachable, cli),
               mode   |-> DoctorMode(cfg),
               cached |-> cached]
  /\ UNCHANGED <<file, cmd, host, read, cfg, told, planVars, call, paneVars>>

\* cmd_init, one file after the other; the default Containerfile is a third
\* that nothing here reads.
InitOrder == <<"global", "project">>
Skeleton(f) == IF f = "global" THEN GlobalSkeleton ELSE ProjectSkeleton

\* ensure_file: a file that is there is left alone ...
CheckFile ==
  /\ pc = "init"
  /\ IF next > Len(InitOrder) THEN Goto("done") /\ UNCHANGED next
     ELSE IF file[InitOrder[next]] = None THEN Goto("write") /\ UNCHANGED next
     ELSE next' = next + 1 /\ UNCHANGED pc
  /\ UNCHANGED <<file, cmd, host, read, cfg, told, mounts, call, paneVars, ran>>

\* ... and one that was not is written, over whatever is there by now.
WriteFile ==
  /\ pc = "write"
  /\ \/ /\ file' = [file EXCEPT ![InitOrder[next]] = Skeleton(InitOrder[next])]
        /\ next' = next + 1
        /\ Goto("init")
     \/ Goto("failed") /\ UNCHANGED <<file, next>>
  /\ UNCHANGED <<cmd, host, read, cfg, told, mounts, call, paneVars, ran>>
-----------------------------------------------------------------------------
\* herdr stops answering, with a call of it under way or before one.
HerdrWedges ==
  /\ ~ host.wedged /\ pc \in {"announce", "name", "doctor"}
  /\ host' = [host EXCEPT !.wedged = TRUE]
  /\ UNCHANGED <<file, cmd, pc, read, cfg, told, planVars, call, paneVars, ran>>
-----------------------------------------------------------------------------
Loads   == ReadGlobal \/ ReadProject
Plans   == PlanImplicit \/ PlanEntry \/ PlanHome
Runtimes == Probe \/ StartSystem \/ CheckVersion
Launches == \/ Build \/ Reserve \/ DecideSsh \/ Announce \/ NamePane \/ PrepareBridge
            \/ AskVersion \/ VersionTold \/ SpawnRelay \/ Exec
Others  == \/ List \/ AskWorkdir \/ Stop \/ DoctorProbes \/ DoctorReports
           \/ CheckFile \/ WriteFile

\* What this process does, and what the others do.
Step  == Loads \/ Plans \/ Runtimes \/ Launches \/ Others
World == HerdrExits \/ HerdrWedges

Next == Step \/ World

Spec == Init /\ [][Next]_vars

\* The process goes on; herdr, its --version and what that leaves behind may
\* do as they like.
FairSpec == Spec /\ WF_vars(Step)
-----------------------------------------------------------------------------
\* The human's file as this command has read it.
Human == read["global"]

IsRun == cmd.name = "run" /\ ran # None

\* What the sandbox reaches outside itself is what the human's own file or the
\* command line allows, whatever the repository's file says and however either
\* is edited while they are read: the ssh agent, the herdr bridge, and host
\* directories, which the human is told of (merge, plan_mounts, prepare_bridge).
ReachIsHumans ==
  IsRun =>
    /\ ran.ssh => \/ cmd.ssh = TRUE
                  \/ /\ cmd.ssh = None /\ Human.ssh = TRUE
                     /\ read["project"].ssh # FALSE
    /\ ran.bridge # "off" =>
         SandboxRank[ran.bridge] >= SandboxRank[OrElse(Human.sandbox, "full")]
    /\ \A i \in DOMAIN ran.mounts :
         ran.mounts[i].kind = "dir" /\ ~ StartsWith(ran.mounts[i].host, Cwd) =>
           \/ ran.mounts[i].host \in {HomeDir, BinDir, MainGitDir(Cwd)}
           \/ ~ cfg.fromProject
           \/ "outside" \in told

\* Nothing a file states is dropped in silence: by the time the process is
\* replaced by the client and can print no more, each setting that was refused,
\* removed, loosened or without effect has been said, and so has each capability
\* in use (load, warn_config_issues, cmd_run).
NothingSilent ==
  IsRun =>
    LET p == read["project"]
    IN /\ p.ssh # None /\ p.ssh # cfg.ssh => "ssh ignored" \in told
       /\ p.sandbox # None /\ p.sandbox # cfg.sandbox => "sandbox ignored" \in told
       /\ Human.hardening = "strict" /\ ran.hardening # "strict"
            => "hardening loosened" \in told
       /\ Human.home = "set" => "home in global" \in told
       /\ p.home = "set" => "home in project" \in told
       /\ ~ Human.repos /\ ~ p.repos
       /\ cfg.agentName # None => cfg.autoRename \/ "agent name inert" \in told
       /\ ran.ssh => "ssh on" \in told \/ "ssh warning" \in told
       /\ Detected(host.env) /\ cfg.sandbox # "off" /\ ran.bridge = "off"
            => "bridge disabled" \in told

\* Every [[mounts]] entry of a run is seen in the container as it was asked
\* for: at its target and at every path below it, the container shows the
\* entry's own directory, read-only exactly when asked (resolve: `the second of
\* two overlapping mounts silently wins'); and so it is with the workspace.
\* Only what pall8t adds by itself can come to lie over an entry: the git
\* directory of a later worktree, and the bridge's directory and socket.
AsAsked(path, below, host_, readonly) ==
  Shown(ran.mounts, path \o below) = [host |-> host_ \o below, readonly |-> readonly]

PutOver(path) ==
  \E m \in {ran.mounts[i] : i \in DOMAIN ran.mounts} :
    /\ StartsWith(path, m.dest)
    /\ \/ m.host = BinDir \/ m.host = RelaySocket
       \/ \E i \in DOMAIN cfg.mounts : m.host = MainGitDir(Source(cfg.mounts[i]))

SeenAsMounted ==
  IsRun =>
    /\ \A i \in DOMAIN cfg.mounts :
         LET e == cfg.mounts[i]
             below(q) == SubSeq(q, Len(Source(e)) + 1, Len(q))
         IN \A q \in {p \in Paths : StartsWith(p, Source(e))} :
              \/ AsAsked(Target(e), below(q), Source(e), MountReadonly(e, cmd.readonly))
              \/ PutOver(Target(e) \o below(q))
    /\ AsAsked(Cwd, << >>, Cwd, FALSE)

\* A workspace does not lie inside the git directory of a worktree that is not
\* its own: `resolve' asks what covers a git directory, not what one covers.
GitApart ==
  \A s \in Starts, d \in Dirs :
    LET git == MainGitDir(d)
    IN git # None /\ StartsWith(s.cmd.cwd, git) => git = MainGitDir(s.cmd.cwd)

\* Git can read every worktree that is mounted at its own path, and the
\* workspace: the git directory it points to is there as itself (main_git_dir,
\* `or the agent gets a directory git cannot read as a repository at all').
GitReadable ==
  IsRun =>
    \A d \in {Cwd} \cup {Source(cfg.mounts[i]) :
                           i \in {j \in DOMAIN cfg.mounts :
                                   Target(cfg.mounts[j]) = Source(cfg.mounts[j])}} :
      MainGitDir(d) # None =>
        Shown(ran.mounts, MainGitDir(d)).host = MainGitDir(d)

\* A worktree is not refused for a git directory the container already shows
\* at that very path (covering_mount, `a path under any of them is already
\* there, as itself').
NoFalseConflict ==
  [][LET e == cfg.mounts[next]
         own == Append(mounts, DirMount(Source(e), Target(e), MountReadonly(e, cmd.readonly)))
     IN /\ pc = "entries" /\ pc' = "failed" /\ next <= Len(cfg.mounts)
        /\ Acceptable(Configured, Protected(Cwd), e)
        => LET git == NeededGitDir(e)
           IN Shown(own, git) = None \/ Shown(own, git).host # git]_vars

\* A command ends, unless it waits for ever at one of the waits that have no
\* limit: for the answer of a herdr that has stopped giving any, or for the end
\* of pipes a process that outlived `herdr --version' holds (run_ok_timeout, `so
\* a child that never exits is strictly worse than one that fails').
WaitsWithoutLimit ==
  \/ host.wedged /\ pc \in {"announce", "name", "doctor"}
  \/ pc = "asking" /\ call.at = "joining" /\ call.pipes = "held"

CommandEnds == <>(pc \in Ended) \/ <>[]WaitsWithoutLimit
=============================================================================
