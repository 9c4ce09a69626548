----------------------------- MODULE HerdrPane -----------------------------
(***************************************************************************)
(* What a run knows of the herdr pane it was started in, and what it tells *)
(* the sandbox and herdr of it (src/src/herdr.rs, `herdr_labels' of        *)
(* src/src/main.rs): all of it is read off the environment and the         *)
(* command.                                                                *)
(*                                                                         *)
(* A variable of the environment is None (unset, or set to nothing) or its *)
(* value.  A word of a command is [dir, name]: the program or agent it     *)
(* names, without an npm scope and a version, and whether a directory      *)
(* comes before it.                                                        *)
(***************************************************************************)
EXTENDS Config, Sequences, FiniteSets, FiniteSetsExt

CONSTANT KnownAgents   \* the names herdr recognises an agent by

\* The variables herdr gives a pane's process.
PaneVars == {"HERDR_ENV", "HERDR_PANE_ID", "HERDR_WORKSPACE_ID", "HERDR_TAB_ID",
             "HERDR_SOCKET_PATH", "HERDR_BIN_PATH", "HERDR_AGENT"}

\* detect: whether there is a pane worth acting on.
Detected(env) == env["HERDR_ENV"] = "1" /\ env["HERDR_PANE_ID"] # None
-----------------------------------------------------------------------------
\* agent_name_token: only the first word may be a path, so that the paths
\* among the arguments name nobody.
NamesAgent(command, i) ==
  command[i].name \in KnownAgents /\ (command[i].dir => i = 1)

\* agent_from_command: the first word that names an agent.
AgentFromCommand(command) ==
  LET named == {i \in DOMAIN command : NamesAgent(command, i)}
  IN IF named = {} THEN None ELSE command[Min(named)].name

\* agent_hint: what runs wins over what the environment claims.
AgentHint(env, command) == OrElse(AgentFromCommand(command), env["HERDR_AGENT"])

\* announce_pane_identity: HERDR_AGENT says one agent, the command another.
Shadowed(env, command) ==
  /\ env["HERDR_AGENT"] # None
  /\ env["HERDR_AGENT"] # AgentHint(env, command)
-----------------------------------------------------------------------------
\* herdr_labels: the keys a run in a pane is labelled with.
HerdrLabels(env) ==
  {"pall8t.herdr.pane", "pall8t.herdr.sandbox"}
    \cup (IF env["HERDR_WORKSPACE_ID"] # None THEN {"pall8t.herdr.workspace"} ELSE {})
    \cup (IF env["HERDR_TAB_ID"] # None THEN {"pall8t.herdr.tab"} ELSE {})

\* SandboxBridge.env: the variables the sandbox gets, which are a pane's own
\* but for the socket and the binary, which are the mounted ones.
BridgeEnv(env) ==
  [v \in {"HERDR_ENV", "HERDR_PANE_ID", "HERDR_SOCKET_PATH", "HERDR_BIN_PATH"}
         \cup {w \in {"HERDR_WORKSPACE_ID", "HERDR_TAB_ID"} : env[w] # None} |->
     CASE v = "HERDR_ENV"         -> "1"
       [] v = "HERDR_SOCKET_PATH" -> "CONTAINER_SOCKET_PATH"
       [] v = "HERDR_BIN_PATH"    -> "CONTAINER_BIN_DIR/herdr"
       [] OTHER                   -> env[v]]
-----------------------------------------------------------------------------
\* doctor_checks: whether each line of the doctor's report is a tick.
DoctorChecks(env, reachable, resolvable) ==
  [c \in {"HERDR_ENV", "HERDR_PANE_ID", "HERDR_SOCKET_PATH", "socket reachable",
          "herdr binary", "HERDR_AGENT"} |->
     CASE c = "HERDR_ENV"         -> env["HERDR_ENV"] = "1"
       [] c = "HERDR_PANE_ID"     -> env["HERDR_PANE_ID"] # None
       [] c = "HERDR_SOCKET_PATH" -> env["HERDR_SOCKET_PATH"] # None
       [] c = "socket reachable"  -> env["HERDR_SOCKET_PATH"] # None /\ reachable
       [] c = "herdr binary"      -> resolvable
       [] c = "HERDR_AGENT"       -> TRUE]

\* bridge_checks: the mode the doctor reports, the default when the
\* configuration cannot be loaded.
DoctorMode(cfg) == IF cfg = None THEN "full" ELSE cfg.sandbox
=============================================================================
