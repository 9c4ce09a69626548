----------------------------- MODULE MountPlan -----------------------------
(***************************************************************************)
(* Which host directories a run's container sees, where, and whether it    *)
(* may write to them (src/src/mounts.rs, src/src/worktree.rs, and `Mount'  *)
(* of src/src/container.rs).                                               *)
(*                                                                         *)
(* A path is the sequence of its components; an absolute one begins with   *)
(* the root "/".  The host's file system is constant while one run plans.  *)
(***************************************************************************)
EXTENDS Config, Sequences, FiniteSets, FiniteSetsExt

CONSTANTS
  Paths,        \* the host paths there are to speak of
  Home,         \* the user's home directory
  Canonical,    \* [Paths -> Paths \cup {None}]: canonicalize, None: not found
  Dirs,         \* those that are directories
  Pointer,      \* [Paths -> Paths \cup {None}]: the gitdir a `.git' file names
  CommonDir,    \* [Paths -> Paths \cup {None}]: what its `commondir' names
  CommaNames,   \* components with a `,' in them
  ColonNames    \* components with a `:' in them

AnyPath == Seq(STRING)

\* Where the container's home and the bridge's mounts appear.
HomeDest   == <<"/", "home", "dev">>
BinDest    == <<"/", "opt", "pall8t", "bin">>
SocketDest == <<"/", "tmp", "pall8t", "herdr.sock">>

\* A [[mounts]] entry, and what the container gets.
Entry  == [source : AnyPath, target : Opt(AnyPath), readonly : Opt(BOOLEAN)]
Mounts == [kind : {"dir", "socket"}, host : AnyPath, dest : AnyPath, readonly : BOOLEAN]

ASSUME MountAssumption ==
  /\ Paths \subseteq AnyPath /\ None \notin Paths
  /\ {HomeDest, BinDest, SocketDest} \subseteq AnyPath
  /\ MountLists \subseteq Seq(Entry)
  /\ None \notin Mounts \cup {"same", "conflict"}
  /\ Canonical \in [Paths -> Paths \cup {None}]
  /\ Pointer \in [Paths -> Paths \cup {None}]
  /\ CommonDir \in [Paths -> Paths \cup {None}]
  /\ Dirs \subseteq Paths

Absolute(p) == p # << >> /\ p[1] = "/"
HasAny(p, names) == \E i \in DOMAIN p : p[i] \in names

\* Path::starts_with, by whole components.
StartsWith(p, q) == Len(q) <= Len(p) /\ \A i \in DOMAIN q : p[i] = q[i]

\* overlaps
Overlaps(p, q) == StartsWith(p, q) \/ StartsWith(q, p)

\* expand_tilde
ExpandTilde(p) == IF p # << >> /\ p[1] = "~" THEN Home \o Tail(p) ELSE p

\* worktree::main_git_dir: None unless `.git' is the pointer file of a
\* worktree and the directory it leads to can be resolved.
MainGitDir(dir) ==
  IF Pointer[dir] = None \/ CommonDir[Pointer[dir]] = None THEN None
  ELSE Canonical[CommonDir[Pointer[dir]]]
-----------------------------------------------------------------------------
\* Mount::new and Mount::socket: a mount, or None where they refuse. The
\* runtime splits a directory's paths on `,' and a socket's on `:'.
Mount(kind, host, dest, readonly) ==
  [kind |-> kind, host |-> host, dest |-> dest, readonly |-> readonly]

DirMount(host, dest, readonly) ==
  IF \/ HasAny(host, CommaNames) \/ HasAny(dest, CommaNames)
     \/ HasAny(dest, {".."})
  THEN None ELSE Mount("dir", host, dest, readonly)

SocketMount(host, dest) ==
  IF HasAny(host, ColonNames) \/ HasAny(dest, ColonNames)
  THEN None ELSE Mount("socket", host, dest, FALSE)

\* Mount::spec: what the runtime is told. Only --mount knows `ro'.
Told(m) ==
  [flag |-> IF m.kind = "dir" THEN "--mount" ELSE "-v",
   host |-> m.host, dest |-> m.dest, ro |-> m.kind = "dir" /\ m.readonly]
-----------------------------------------------------------------------------
\* covering_mount: what is already mounted over a path pall8t would add.
ProtectedCoverage(protected, path) ==
  LET over == {i \in DOMAIN protected : StartsWith(path, protected[i])}
  IN IF over = {} THEN None
     ELSE IF protected[Min(over)] \in {path, HomeDest} THEN "conflict" ELSE "same"

\* The host path a mount shows at a container path under it.
Reached(m, path) == m.host \o SubSeq(path, Len(m.dest) + 1, Len(path))

\* Fault: a mount over the path is taken to show the same directory.
MountCoverageUnread(mounts, path) ==
  IF \E i \in DOMAIN mounts : StartsWith(path, mounts[i].dest) THEN "same" ELSE None

MountCoverage(mounts, path) ==
  LET over == {i \in DOMAIN mounts : StartsWith(path, mounts[i].dest)}
  IN IF over = {} THEN None
     ELSE IF Reached(mounts[Min(over)], path) = path THEN "same" ELSE "conflict"

CoveringMount(mounts, protected, path) ==
  OrElse(ProtectedCoverage(protected, path), MountCoverage(mounts, path))

\* A [[mounts]] entry: a source, a target or None, readonly or None.
Source(entry) ==
  LET p == ExpandTilde(entry.source)
  IN IF p \in Paths THEN Canonical[p] ELSE None

Target(entry) == OrElse(entry.target, Source(entry))

\* Fault: a target may lie inside an earlier one.
AcceptableInside(mounts, protected, entry) ==
  /\ Source(entry) # None /\ Source(entry) \in Dirs
  /\ Absolute(Target(entry))
  /\ \A i \in DOMAIN protected : ~ Overlaps(Target(entry), protected[i])
  /\ DirMount(Source(entry), Target(entry), FALSE) # None

\* An entry `resolve' accepts, after the mounts it has accepted.
Acceptable(mounts, protected, entry) ==
  /\ Source(entry) # None /\ Source(entry) \in Dirs
  /\ Absolute(Target(entry))
  /\ \A i \in DOMAIN protected : ~ Overlaps(Target(entry), protected[i])
  /\ \A i \in DOMAIN mounts : ~ Overlaps(Target(entry), mounts[i].dest)
  /\ DirMount(Source(entry), Target(entry), FALSE) # None

\* The git directory a worktree needs beside itself: only one mounted at its
\* own path can be read by git.
NeededGitDir(entry) ==
  IF Target(entry) = Source(entry) THEN MainGitDir(Source(entry)) ELSE None

\* resolve, of one entry: the mounts with it, or None where it refuses.
AddEntry(mounts, protected, entry, cli) ==
  LET readonly == MountReadonly(entry, cli)
      own  == Append(mounts, DirMount(Source(entry), Target(entry), readonly))
      git  == NeededGitDir(entry)
      over == CoveringMount(own, protected, git)
  IN CASE ~ Acceptable(mounts, protected, entry) -> None
       [] Acceptable(mounts, protected, entry) /\ git = None -> own
       [] OTHER ->
            CASE over = "same"     -> own
              [] over = "conflict" -> None
              [] OTHER -> IF DirMount(git, git, readonly) = None THEN None
                          ELSE Append(own, DirMount(git, git, readonly))

\* plan_mounts, before the configured entries: the workspace, and the git
\* directory it is a worktree of. None where Mount::identity refuses.
Implicit(cwd) ==
  LET git == MainGitDir(cwd)
      dirs == IF git = None THEN <<cwd>> ELSE <<cwd, git>>
  IN IF \E i \in DOMAIN dirs : DirMount(dirs[i], dirs[i], FALSE) = None THEN None
     ELSE [i \in DOMAIN dirs |-> DirMount(dirs[i], dirs[i], FALSE)]

\* What no configured mount may cover: where those appear, and the home.
Protected(cwd) ==
  Append([i \in DOMAIN Implicit(cwd) |-> Implicit(cwd)[i].dest], HomeDest)

\* from_outside_the_project: what the repository's file mounts of the host.
FromOutside(mounts, cwd, fromProject) ==
  {i \in DOMAIN mounts : fromProject /\ ~ StartsWith(mounts[i].host, cwd)}

\* no_mounts_warning
ReadonlyIdle(cli, entries) == cli # None /\ entries = << >>

\* safe_directory_env: the container paths git is told to trust, one entry
\* for each mount.
SafeDirectories(mounts) == [i \in DOMAIN mounts |-> mounts[i].dest]
-----------------------------------------------------------------------------
\* What the container sees at a path: the last mount over it wins.
Shown(mounts, path) ==
  LET over == {i \in DOMAIN mounts : StartsWith(path, mounts[i].dest)}
  IN IF over = {} THEN None
     ELSE [host     |-> Reached(mounts[Max(over)], path),
           readonly |-> mounts[Max(over)].readonly]

\* No directory of the host lies where the container's own home and the
\* bridge's mounts appear: as a rule it has no /home/dev, /opt/pall8t/bin or
\* /tmp/pall8t/herdr.sock, and nothing below one, to mount.
HostApart ==
  \A p \in Dirs \cup {Canonical[q] : q \in Paths} :
    p # None => \A d \in {HomeDest, BinDest, SocketDest} : ~ StartsWith(p, d)
=============================================================================
