------------------------------- MODULE Config -------------------------------
(***************************************************************************)
(* The configuration of one invocation (src/src/config.rs): the human's    *)
(* ~/.pall8t/config.toml overlaid by the .pall8t/config.toml that ships    *)
(* with the repository, field by field, except where the repository may    *)
(* only narrow what its sandbox reaches.                                   *)
(*                                                                         *)
(* A file is what parsing makes of it: None (no such file), Invalid (it    *)
(* cannot be read, is no TOML, or has a key a section does not know), or   *)
(* the settings it states.  A message is the name of what it is about.     *)
(***************************************************************************)
EXTENDS Naturals, Option

CONSTANTS
  Invalid,      \* a file `read_raw' returns an error for
  Values,       \* values of the settings merge treats alike
  Names,        \* agent names
  MountLists    \* lists of [[mounts]] entries

ASSUME ConfigAssumption ==
  /\ None \notin BOOLEAN /\ None \notin Values /\ None \notin Names
  /\ None \notin MountLists
  /\ None \notin {"full", "readonly", "off", "default", "strict"}
  /\ "default" \in Values /\ << >> \in MountLists

\* HerdrSandbox and Hardening, in the order of how much they confine.
Sandboxes  == {"full", "readonly", "off"}
Hardenings == {"default", "strict"}
SandboxRank  == [m \in Sandboxes |->
                   CASE m = "full" -> 0 [] m = "readonly" -> 1 [] m = "off" -> 2]
HardeningRank == [h \in Hardenings |-> IF h = "default" THEN 0 ELSE 1]

\* The settings for which the project's word simply wins.
Plain == {"cpus", "memory", "containerfile", "watch", "command"}

\* What is used when neither file states a plain setting.
BuiltIn == [f \in Plain |-> IF f = "containerfile" THEN None ELSE "default"]

\* What a file states. home is what [home] holds: nothing at all, the bare
\* header an old `init' wrote, or a setting.
Raw ==
  [plain      : [Plain -> Opt(Values)],
   ssh        : Opt(BOOLEAN),
   hardening  : Opt(Hardenings),
   mounts     : Opt(MountLists),
   sandbox    : Opt(Sandboxes),
   autoRename : Opt(BOOLEAN),
   agentName  : Opt(Names),
   repos      : BOOLEAN,
   home       : {"absent", "bare", "set"}]

Files == Raw \cup {None, Invalid}

\* Raw::default: a file that states nothing.
Unstated ==
  [plain |-> [f \in Plain |-> None], ssh |-> None, hardening |-> None,
   mounts |-> None, sandbox |-> None, autoRename |-> None, agentName |-> None,
   repos |-> FALSE, home |-> "absent"]

\* What `pall8t init' writes: every key of either skeleton is commented out.
GlobalSkeleton  == Unstated
ProjectSkeleton == Unstated

Config ==
  [plain      : [Plain -> Opt(Values)],
   ssh        : BOOLEAN,
   hardening  : Hardenings,
   mounts     : MountLists,
   fromProject: BOOLEAN,      \* mounts_from_project
   sandbox    : Sandboxes,
   autoRename : BOOLEAN,
   agentName  : Opt(Names)]

\* None stands for no file and no configuration.
ASSUME NoneAssumption == None \notin Raw /\ None \notin Config
-----------------------------------------------------------------------------
\* read_raw, of a file that can be read.
ReadRaw(file) == OrElse(file, Unstated)

\* Fault: project.or(global), as the other fields are merged.
MergedSshPerField(g, p) == OrElse(p, OrElse(g, FALSE))

\* The repository may switch forwarding off, never on.
MergedSsh(g, p) == IF p = FALSE THEN FALSE ELSE OrElse(g, FALSE)

\* The more confining of the two.
MergedSandbox(g, p) ==
  LET human == OrElse(g, "full")
  IN IF p # None /\ SandboxRank[p] > SandboxRank[human] THEN p ELSE human

Merge(g, p) ==
  [plain       |-> [f \in Plain |-> OrElse(p.plain[f], OrElse(g.plain[f], BuiltIn[f]))],
   ssh         |-> MergedSsh(g.ssh, p.ssh),
   hardening   |-> OrElse(p.hardening, OrElse(g.hardening, "default")),
   mounts      |-> OrElse(p.mounts, OrElse(g.mounts, << >>)),
   fromProject |-> p.mounts # None,
   sandbox     |-> MergedSandbox(g.sandbox, p.sandbox),
   autoRename  |-> OrElse(p.autoRename, OrElse(g.autoRename, FALSE)),
   agentName   |-> OrElse(p.agentName, g.agentName)]
-----------------------------------------------------------------------------
\* What `load' says about the two files.

\* deprecations_in
Deprecated(raw) == raw.home = "set"

\* project_ssh_ignored_warning
SshIgnored(g, p) == p.ssh = TRUE /\ g.ssh # TRUE

\* project_sandbox_ignored_warning
SandboxIgnored(g, p) ==
  p.sandbox # None /\ SandboxRank[p.sandbox] < SandboxRank[OrElse(g.sandbox, "full")]

\* project_hardening_loosened_notice
HardeningLoosened(g, p) ==
  /\ p.hardening # None
  /\ HardeningRank[p.hardening] < HardeningRank[OrElse(g.hardening, "default")]

\* inert_agent_name_warning, of the merged configuration.
InertAgentName(c) == ~ c.autoRename /\ c.agentName # None

Warnings(g, p) ==
  {w \in {"home in global", "home in project", "ssh ignored",
          "hardening loosened", "sandbox ignored", "agent name inert"} :
     \/ w = "home in global" /\ Deprecated(g)
     \/ w = "home in project" /\ Deprecated(p)
     \/ w = "ssh ignored" /\ SshIgnored(g, p)
     \/ w = "hardening loosened" /\ HardeningLoosened(g, p)
     \/ w = "sandbox ignored" /\ SandboxIgnored(g, p)
     \/ w = "agent name inert" /\ InertAgentName(Merge(g, p))}

\* repos_removed_errors: the files that still declare [[repos]].
ReposRemoved(g, p) ==
  {w \in {"repos in global", "repos in project"} :
     \/ w = "repos in global" /\ g.repos
     \/ w = "repos in project" /\ p.repos}
-----------------------------------------------------------------------------
\* mount_readonly: the flag beats the entry, the entry the default.
MountReadonly(entry, cli) == OrElse(cli, OrElse(entry.readonly, FALSE))

\* ssh_enabled
SshEnabled(config, cli) == OrElse(cli, config)

\* ssh_warning: forwarding is asked for and no agent answers. sock is what
\* SSH_AUTH_SOCK names: None (unset or empty), or whether an agent listens.
SshWarning(enabled, sock) == enabled /\ sock # "listening"
=============================================================================
