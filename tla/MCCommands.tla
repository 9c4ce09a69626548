----------------------------- MODULE MCCommands -----------------------------
(***************************************************************************)
(* Commands on one machine: a repository `main' with two worktrees, some   *)
(* plain directories, a symbolic link, and names the runtime cannot take.  *)
(***************************************************************************)
EXTENDS Commands

P(a) == <<"/", a>>

main  == P("main")
mgit  == <<"/", "main", ".git">>
hooks == <<"/", "main", ".git", "hooks">>
w1    == P("w1")
w2    == P("w2")
priv1 == <<"/", "main", ".git", "worktrees", "w1">>
priv2 == <<"/", "main", ".git", "worktrees", "w2">>
notes == P("notes")
inner == <<"/", "notes", "inner">>
link  == P("link")
note  == <<"/", "notes", "file">>
gone  == P("gone")
comma == P("a,b")
me    == <<"/", "me">>

MCPaths == {main, mgit, hooks, w1, w2, priv1, priv2, notes, inner, link, note, gone, comma}
MCDirs  == MCPaths \ {note, gone}
MCHomeDir == <<"/", "me", ".pall8t", "home">>
MCBinDir  == <<"/", "me", ".pall8t", "herdr">>
MCRelaySocket == <<"/", "me", ".pall8t", "run", "relay.sock">>
Over(f, x, y) == [f EXCEPT ![x] = y]
Nowhere == [q \in MCPaths |-> None]
MCCanonical == [q \in MCPaths |-> CASE q = gone -> None [] q = link -> notes [] OTHER -> q]
MCPointer   == Over(Over(Nowhere, w1, priv1), w2, priv2)
MCCommonDir == Over(Over(Nowhere, priv1, mgit), priv2, mgit)

At(source, target, readonly) ==
  [source |-> source, target |-> target, readonly |-> readonly]
Here(source) == At(source, None, None)
\* Entries that are refused, retargeted, nested, linked or worktrees.
Entries ==
  {Here(main), Here(w2), At(w2, None, TRUE), At(w2, P("elsewhere"), TRUE),
   At(hooks, None, TRUE), Here(notes), At(link, P("x"), TRUE),
   At(inner, <<"/", "x", "in">>, None), At(notes, mgit, None),
   At(notes, <<"/", "opt", "pall8t">>, None)}
Refused ==
  {Here(note), Here(gone), Here(comma), At(notes, HomeDest, None),
   At(notes, <<"rel">>, None), At(notes, <<"/", "x", "..", "main">>, None),
   Here(<<"~", "nowhere">>), At(notes, <<"/", "w1", "deps">>, None)}
MCMountLists ==
  {<< >>} \cup {<<e>> : e \in Entries \cup Refused} \cup {<<e, f>> : e, f \in Entries}

\* What the two files state: one thing at a time, and what collides.
Set(raw, f, v) == [raw EXCEPT ![f] = v]
HumanStrict == [Unstated EXCEPT !.hardening = "strict", !.sandbox = "readonly",
                                !.autoRename = TRUE, !.agentName = "claude", !.home = "set"]
HumanSsh == [Unstated EXCEPT !.ssh = TRUE, !.mounts = <<Here(notes)>>,
                             !.plain["command"] = "other", !.home = "bare"]
HumanOff == Set(Unstated, "sandbox", "off")
Globals ==
  {None, Invalid, HumanStrict, HumanSsh, HumanOff, Set(Unstated, "repos", TRUE)}
Projects ==
  {None, Invalid, Set(Unstated, "repos", TRUE), Set(Unstated, "home", "set"),
   [Unstated EXCEPT !.ssh = TRUE, !.sandbox = "full", !.hardening = "default"],
   [Unstated EXCEPT !.ssh = FALSE, !.sandbox = "off", !.hardening = "strict"],
   [Unstated EXCEPT !.sandbox = "readonly", !.agentName = "claude"],
   [Unstated EXCEPT !.autoRename = TRUE, !.plain["command"] = "other"]}

Word(dir, name) == [dir |-> dir, name |-> name]
MCTokensOf ==
  [c \in {"default", "other", "given"} |->
     CASE c = "default" -> <<Word(FALSE, "claude")>>
       [] c = "other"   -> <<Word(FALSE, "sh"), Word(TRUE, "claude")>>
       [] c = "given"   -> <<Word(FALSE, "npx"), Word(FALSE, "codex")>>]

Line(name, cwd, readonly, ssh, given) ==
  [name |-> name, cwd |-> cwd, readonly |-> readonly, ssh |-> ssh, given |-> given]
RunLines ==
  {Line("run", w1, None, None, None), Line("run", main, TRUE, TRUE, "given"),
   Line("run", notes, FALSE, FALSE, None)}
OtherLines ==
  {Line(n, main, None, None, None) : n \in {"build", "ls", "exec", "stop", "doctor", "init"}}
  \cup {Line("exec", main, None, None, "given")}

NoPane == [v \in PaneVars |-> None]
Pane   == [NoPane EXCEPT !["HERDR_ENV"] = "1", !["HERDR_PANE_ID"] = "7",
                         !["HERDR_TAB_ID"] = "3"]
Bridgeable == [Pane EXCEPT !["HERDR_SOCKET_PATH"] = "/herdr.sock", !["HERDR_AGENT"] = "codex",
                           !["HERDR_WORKSPACE_ID"] = "2", !["HERDR_BIN_PATH"] = "/bin/herdr"]

Row(id, state, image, labelled, prefixed) ==
  [id |-> id, state |-> state, image |-> image, labelled |-> labelled, prefixed |-> prefixed]
Rows(rows) == [kind |-> "rows", rows |-> rows]
Garbled    == [kind |-> "garbled", rows |-> << >>]
Ours == Row("pall8t-1", "running", "img", TRUE, TRUE)
Old  == Row("pall8t-0", None, None, FALSE, TRUE)
Other == Row("db", "stopped", "pg", FALSE, FALSE)

Machine(probe, version, env, sock, client, listing) ==
  [probe |-> probe, version |-> version, env |-> env, reachable |-> sock = "listening",
   sock |-> sock, client |-> client, listing |-> listing, wedged |-> FALSE]
Good  == Machine("exit 0", 1, Bridgeable, "listening", "binary", Rows(<<Ours, Old, Other>>))
Hosts ==
  {Good,
   Machine("exit 1", 0, Bridgeable, "dead", "wrapper", Garbled),
   Machine("exit 0", None, Pane, None, "stale wrapper", [kind |-> "empty", rows |-> << >>]),
   Machine("exit 0", 0, NoPane, "listening", "script",
           Rows(<<Row(None, None, None, FALSE, FALSE)>>)),
   Machine("not found", None, NoPane, None, None, Garbled),
   Machine("no spawn", None, Bridgeable, None, None, Garbled)}

\* Mount lists are planned on one machine; every pair of files is read by the
\* commands that run; the other commands meet every machine.
Starting(globals, projects, cmds, hosts) ==
  [global : globals, project : projects, cmd : cmds, host : hosts]
MCStarts ==
  Starting({None}, {Set(Unstated, "mounts", l) : l \in MCMountLists}, RunLines, {Good})
  \cup Starting(Globals, Projects, RunLines, Hosts)
  \cup Starting({None, Invalid, HumanStrict}, {None, Invalid, Set(Unstated, "repos", TRUE)},
                OtherLines, Hosts)

\* This machine is one of those the theorems about mounts speak of.
ASSUME MountsApart == HostApart /\ GitApart
=============================================================================
