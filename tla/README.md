# pall8t in TLA+

`pall8t run` turns the current directory into a sandbox: it resolves and builds
an image, starts a container on Apple's `container`, and, inside a herdr pane,
names the tab and the agent and bridges herdr's socket into the sandbox. Every
run is a process of its own. Runs share files under `~/.pall8t`, the image
store, and the herdr session, and none of them knows of the others except
through these. What can go wrong is therefore mostly in the interleaving of
processes, in processes that die or hang between two steps, and in answers that
are stale by the time they are used. That is what most of these modules are
about. The rest is about what one command decides: what of two configuration
files holds, what the sandbox gets to see, and what the human is told of it.

To check a run: `tlc -config X.cfg M`; to check the proofs of a module:
`tlapm M.tla`, for each of the eight `*Proofs.tla`. `PROJECT.json` maps every
definition to the lines it is translated from, and lists the hazards of the
code with the properties that are about them.

## 1. Inventory

| Component | State it keeps | Operations | Interacts through | What makes it hard | What makes it correct |
|---|---|---|---|---|---|
| Tab numbering (`tab_numbers.rs`) | `herdr-naming.json`: sessions, their counters and recorded tabs | `number_for`: lock, read, stat, `allocate`, write, unlock | the file, an `flock`, herdr's socket inode | concurrent runs, deaths, stuck holders, failed writes, server restarts, newer file formats, `usize` wrap | no lost update, counters never go back, recorded numbers stay behind counters, newer files untouched, no hang on the lock |
| Naming (`naming.rs`) | tab labels and agent names (herdr's), the detached namer | `name_pane`, candidate walk, `wait_for_agent`, `rename_with_retries`, `relabel_tab` | `herdr` CLI calls, the number store | stale `tab.list`, humans renaming, two walks over one list of candidates, restored labels | one number one tab, tab and agent agree, human labels kept, the namer ends with its run |
| Image lifecycle (`image.rs`) | images by tag, poisoned records, launch reservations | `ensure_built`, `try_build`, `delete_poisoned`, `prune_superseded`, `reserve_tag` | `container` CLI calls, `~/.pall8t/state` | files edited during a build, two builders, prune beside launch, failed deletes, kills | a tag that lies is on record, a claimed image is not deleted, the retry ends |
| Container adapter (`container.rs`) | none | references and their spellings, listings, the service and its version, mounts, the client | `container` CLI calls | several spellings of one reference, listings that cannot be read, a wrapper beside a stale binary | what is not known deletes nothing, one image has one identity |
| Relay connections (`relay.rs`: `serve`, `handle`) | slots, the connections' sockets and threads | accept, admit or refuse, first line, decide, connect, pump | sockets | slot guard on every path, a timeout shared by two directions, a thread parked in read | slots match, cap holds, nothing lost, nothing cut, slots come back |
| Relay life (`relay.rs`: `run`; `herdr.rs`: `spawn_relay`) | relay processes, socket files | spawn, readiness line, bind, sweep, parent watch | a pipe, the socket directory, `getppid` | the run ends or gives up at any moment, sweeps of other runs | a mounted socket is served, no relay outlives its run or is left unheard |
| herdr binary cache (`herdr.rs`: `ensure_linux_herdr`) | the binary, its recorded hash, temporary downloads | verify, remove, download, record, publish | `~/.pall8t/tools/herdr` | processes side by side, a death between two renames, damage | only the asset is ever trusted or handed out |
| Configuration (`config.rs`) | none | load, merge, warnings and refusals | two files | one of the two belongs to the repository, and may only narrow | the reach is the human's, nothing stated is dropped in silence |
| Mounts, worktrees (`mounts.rs`, `worktree.rs`) | none | implicit mounts, entries, refusals, git directories | the file system | overlaps, links, worktrees that share a git directory | mounts are seen as asked, git can read its worktrees |
| Commands (`main.rs`) | what one process has read, planned and said | `run`, `build`, `ls`, `exec`, `stop`, `herdr doctor`, `init` | all of the above | the process is replaced at the end; waits on herdr | the same, and the command ends |
| Bounded calls (`util.rs`: `run_ok_timeout`) | a child and two reader threads | spawn, poll, kill, join | pipes | a grandchild that keeps a pipe open | it returns in its limit, but for that grandchild |
| Plugin, scripts, workflows | none | glue | | | not modelled |

`cmd_run` composes them in this order: read the configuration, plan the mounts,
start the service, build the image, reserve its tag, announce the agent, number
and name the tab (leaving the namer behind), fill the herdr cache, spawn the
relay, `exec` the container client under the same pid. `Commands` has that
order; the other modules have, each, what the processes of many runs do to one
of the things they share.

## 2. Plan

The order follows what is shared by most runs and hardest to test.

1. `Names`, `TabNumbers` (pure), `NumberStore` (the processes around them),
   `AtomicNumbering` (what the file promises), which `NumberStore` implements,
   and `NumberStoreProofs`. *Done.*
2. `HerdrNaming`, which extends `NumberStore` with herdr, the naming of a run
   and its namer, and `HerdrNamingProofs`. *Done.*
3. `ImageLifecycle` and `ImageLifecycleProofs`; `ImageRefs` and `WatchedBuild`,
   which open up what it takes for one step, and `WatchedBuildProofs`. *Done.*
4. `Relay`, `RelayLife`, `HerdrCache`, each with its proofs. *Done.*
5. `Option`, `Config`, `MountPlan`, `HerdrPane`, `Runtime`, `BoundedCall` (pure,
   or of one call), and `Commands`, which composes them, and `CommandsProofs`.
   *Done.*
6. Left: an abstract relay (a bounded set of conversations, each delivered
   whole) that `Relay` implements, and an abstract image store (a tag is absent,
   right, or on record) that `ImageLifecycle` implements.

## 3. Modules

**Names.** A name is a word with the counters written after it, so `foo-3-2` is
`[word |-> "foo", nums |-> <<3, 2>>]`. `Candidates` is `candidates`,
`FirstFree` is `first_free`, `NumberInLabel` reads a label both ways
`number_in_label` does, `LabelIsPall8tOwn` is `label_is_pall8t_own`. The
32-byte cap is left out: names here fit it.

**TabNumbers.** `allocate` and its helpers. `Succ` is `n + 1` with the wrap a
release build has at `usize::MAX` (a debug build would panic).
`AllocateNumber`/`AllocateState` are its two results. Sessions are keyed by the
socket path or by none; `server` is the inode and birth time of that socket.

**NumberStore.** One process per element of `Runs`; `pc` is its place in
`number_for`. `Acquire`, `FailToLock`, `GiveUp` are the bounded tries; `Read`,
`Decide`, `Write`/`WriteFails`, `Release` the read-modify-write; `Exit` is the
end of the process anywhere, which drops the flock. `Rebind` restarts herdr,
`Upgrade` has a newer version rewrite the file. The rename makes a write one
step; its failure leaves the file as it was.

**AtomicNumbering.** The file alone: every change is one `allocate` of what is
there, and a newer file never changes. `NumberStore` has it as
`Atomic == INSTANCE AtomicNumbering WITH file <- disk`: lock, processes and
failures are hidden, and only the file is left.

**HerdrNaming.** Extends NumberStore with `label`/`author` (tabs), `agent` and
`others` (agents), `job` (a run in `name_pane`) and `namer`. `Begin` is the first
`tab.list`, `Number` any step of `number_for`, `Choose` the `agent.list` and the
walk, `RenameTab`, `Spawn`. `NamerDetects` to `NamerLeaves` are the
detached namer. herdr, the human and a server restart with restored labels
are environment actions. `wedged` is a herdr that has stopped answering: no step
that calls it is taken any more, since no call of the naming has a deadline. The
human renames whenever they like, before, in and after a run and while its namer
waits; `late` is history: whose tab a human has named since the run looked at it.

**ImageLifecycle.** One process per `run` or `build` of one workspace; every
call of `container` and every access to a state file is a step. A tag is the
content it was resolved from, so `image[t]` differs from `t` exactly when the
image is not what its tag says. `faults` is fixed in the initial state and says
what may go wrong. `early` is history: who had claimed a tag when a deleting
process began to look.

**ImageRefs.** A reference is its registry and namespaces, its base, owner,
hash and digest; `RefMatches`, `RefHasPrefix`, `ShouldPrune` and
`FilterPrunable` are the functions of those names.

**WatchedBuild.** One process, file by file. A file is a version that an edit
moves on, and what its path leads to; a hash is the function from files to the
versions that were read. `Resolve` picks the Containerfile and what is watched,
`ReadFile`, `Reread` and `RefuseFile` are `hash_with_retry` file by file,
`BuilderReads` is the builder reading the same files at times of its own,
`Verify` the second read, `Prune` and `DeleteOne` the deletes, over lists in
which the runtime spells a reference any way it does. `images` and `poisoned`
start with what earlier commands may have left.

**Relay.** A stream is a count of units: sent by the client, taken by the relay,
got by herdr. `Accept` claims the slot before `Admit`/`Refuse` look at what
`fetch_add` returned. `ReadLine`, `LineEnds`, `ReadTimesOut`, `Decide`,
`Connect` are `handle` up to the pump, `Forward`/`ForwardEnds` the thread
`to_upstream`, `CopyBack`/`CopyEnds`/`Join` the rest of `handle`. `ClientReads` is
a client reading its answers, which `CopyBack` waits for once `ClientBuffer` units
lie unread. The list of methods is abstracted to its classes. Counts tell what is
lost and not in what order it arrives; the buffered part goes first by the order
of `Forward`.

**RelayLife.** `run[r]` is the launching process until it is the container
client, `relay[r]` its relay between `getppid` and the serving loop. `line[r]` is
the readiness line: not written, written, or read by the run; `GivesUp` may come
between the last two. `bind` and
`listen` are two steps, since a socket in between refuses connects; a sweep
lists, probes and unlinks in separate steps; two runs may share a path, because
a pid comes back.

**HerdrCache.** Files by content, hashes by the content they are of. A process
may leave at any step, which stands for errors, kills and the end of a session.

**Config.** A file is `None`, `Invalid` or the settings it states. `Merge` is
`merge` setting by setting; those it treats alike share a set of values.
`Warnings` and `ReposRemoved` are what `load` says and refuses.

**MountPlan.** A path is the sequence of its components. `Acceptable` has the
refusals of one entry, `AddEntry` what a mounted worktree brings with it,
`CoveringMount` is `covering_mount`. `Shown` is external: what a container with
these mounts shows at a path, the last mount over it winning.

**HerdrPane, Runtime.** What is read off the environment and the command
(`detect`, `agent_from_command`, the labels, the bridge's variables, the checks
of the doctor), and off the answers of `container` (status, version, listings,
the binary behind the client).

**BoundedCall.** One `run_ok_timeout`: the child, its pipes and the polling
caller. `Commands` instantiates it for `herdr --version`.

**Commands.** One command from its first read to its end; `pc` is its place in
`main.rs`. `told` is what has been printed so far, `ran` what the process became
or printed. The two files are read one after the other.
What other runs do to images, tabs and relays is in the other modules; here
those calls succeed or fail.

Every module carries, beside the translated definitions, small faulty variants
of some of them, each marked `Fault:`. They are not part of any
specification: replacing the original by one of them shows which property
notices. `PROJECT.json` lists the pairs.

## 4. Runs

| Run | Question | Instance |
|---|---|---|
| NumberStore_interleavings | Is an update lost, a counter taken back, a newer file rewritten, in any interleaving of failures, deaths and restarts? Does the file change by whole allocations? | 2 runs, 2 tabs, one session, requests with no list, a label to adopt, labels to seed from; `usize` of two bits so that the wrap is reached; all faults |
| NumberStore_sessions | Does a run touch another session, or evict the wrong one? Does it get past a stuck lock? | 2 runs, 2 sessions and none, a file holding 2 of the 3, 2 tries |
| HerdrNaming_numbering | Is a number given to two tabs in one server run? | 3 tabs, 4 runs, 1 restart with restored labels |
| HerdrNaming_names | Do tab and agent agree, is a human's label kept, does the namer end? | 2 tabs, 2 runs, one foreign agent, failing renames and agent lists, a human who renames one of the tabs at any time, a herdr that may stop answering |
| ImageLifecycle | Is a tag that lies on record? Is an image deleted that was claimed before the deleting process looked? | 2 processes, 2 contents; each behaviour has one of two plans of faults: failing calls of `container` with reservations that age or cannot be read, or failing calls with everything that is wrong for the records. Each property excepts the faults of its own it cannot stand, so each is checked under the other's |
| WatchedBuild | Is what sits under a tag what the tag says, file by file? Does a prune spare what is used, however it is spelled? Does the command end? | one Containerfile and one watched file, each edited once and flapping as it likes, 5 configurations, 2 stores left by earlier commands |
| Relay_connections | Are slots given back once, bytes delivered, streams left alone? Does anything hold a slot for ever? | 2 connections for 1 slot, a line of 2 units and 2 more, 2 answers, a client's socket that holds one of them unread, deadline of 1 tick |
| RelayLife_launches | Is a mounted socket served by its own relay, is a relay ever left behind, one that got ready as the limit ran out included? | 3 runs, 2 paths, relays that hang, fail and are killed, mounts that are declined |
| HerdrCache_fills | Can anything but the asset be trusted or handed out? | 3 processes, the binary goes bad twice |
| Commands | Does the sandbox reach only what the human allows, is nothing dropped in silence, are mounts seen as asked, can git read its worktrees, does the command end? | every command; 6 files of the human's with 8 of the repository's; lists of no, one or two of 10 mounts and of one of 8 refused ones, on a machine with a repository and two worktrees; 6 states of runtime and pane |
| ImageLifecycle_condemned | *Violated:* `delete_poisoned` looks at containers, not at reservations | 2 processes, no fault |
| Commands_siblings | *Violated:* a run in one worktree that mounts a sibling worktree is refused for a conflict with a git directory that is mounted as itself | as `Commands` |

The two violated runs are the findings of `PROJECT.json`: in both, what a comment
promises is not what the code does.

**ImageLifecycle_condemned.** A build is condemned, and between the moment its
process looks at the containers and the delete, another process that resolved
the same tag reserves it. The reservation is what speaks for an image until its
container exists (`main.rs:396-399`), and `delete_poisoned` (`image.rs:516`)
does not read it.

**Commands_siblings.** In worktree `w1`, with worktree `w2` of the same
repository under `[[mounts]]`, the git directory both need is among the
protected paths, mounted there as itself; `covering_mount` (`mounts.rs:47`)
reports any equal protected path as a conflict.

### Bounds

Every process repeats one straight piece of code, and the shared state is a
file, a record or a slot counter: an error needs one process in the middle of
its critical steps and a second one that passes it, which two processes give,
and a third state (the one both started from), which the second tab, session,
content or connection gives. Eviction needs one session more than the file
holds; a restart with stale labels needs one tab that ran before and two that
run after; a reused path needs a third run to do the sweeping. In
`WatchedBuild` a torn read needs two files and one edit between them. In
`Commands`, two entries are enough for one to lie over, under or beside another,
and a worktree beside its sibling; the settings of a file do not act on each
other beyond those combined in the instance. Where the bounds are about the
number of processes, connections or edits, the theorems of section 5 do away with
them. Symmetry (of runs, tabs or contents) is used only in runs without
liveness. Deadlock is not checked: every system here stops when its bounded runs
have ended.

### Fairness

- `FairStoreSpec`: weak fairness of a waiting run's own tries. Nothing is
  assumed of the holder, which is what `LOCK_TRIES` is for.
- `HerdrNaming`: the namer keeps going where its calls of herdr return. They are
  `run_ok` without a deadline (`naming.rs:568-570`, `653-659`, `876-880`), so the
  steps that need an answer are disabled while herdr is wedged, and
  `NamerFollowsRun` excepts a namer held there.
- `Relay`: the threads are scheduled and time passes. Nothing is assumed of a
  client, that it reads its answer included, or of herdr: a connect to it and a
  write to it may never return, since the code limits neither. Only a forwarder
  whose herdr has closed, and a thread that is not connecting, must go on.
- `RelayLife`: a run's bounded wait ends and a relay that is not stuck keeps
  going; a stuck one is a place of its own, without steps. A connect of its sweep
  is taken to return: one to a live relay with a full backlog waits until that
  has room (`relay.rs:494-497`), which is a limit of `RelayFollowsRun`.
- `Commands`, `WatchedBuild`: one process goes on while it can. A call of
  `container` returns, with or without success: the code gives it no limit and
  the human sees it run. Nothing is assumed of herdr, of `herdr --version`, of
  what that leaves behind, and of the files, so `CommandEnds` excepts by name
  the waits that have no limit: `report_metadata`, `name_pane` and the doctor on
  a herdr that has stopped answering, and the join of `run_ok_timeout` while
  something holds the pipes. Their places are the only ones where it may wait.

`ImageLifecycle`, `HerdrCache` and `HerdrNaming_numbering` state no liveness and
have no fairness.

## 5. Proofs

Eight modules of theorems. Each holds for any set of runs, processes or
connections, and any values of the other constants, that the module's
assumptions allow; TLC checks those assumptions on every instance. Each follows
one pattern: an invariant that steps preserve, one step of the proof per
action, and the theorem from it by temporal logic.

**NumberStoreProofs**: type correctness (`StoreTypeCorrect`), `NoLostUpdate`,
`LockDiscipline`, `NumbersBehindCounters`, `CountersMonotone`, `NewerFileStays`,
`SessionsStayIndependent`, that the file never holds more than `MAX_SESSIONS`
sessions (`FileStaysBounded`), and that the store implements `AtomicNumbering` (`StoreImplementsAtomic`). The
inductive invariant `IInv` is the conjunction of the type invariant,
`UpdateInProgress`, `HolderSeesDisk` and `RecordedBehindCounter`. None of the
last three is inductive without the others: `HolderSeesDisk` survives another
run's `Write` only because the lock belongs to the writer, which
`UpdateInProgress` says; `RecordedBehindCounter` survives a `Write` only because
what is written is an allocation (`UpdateInProgress`) of what is on disk
(`HolderSeesDisk`). The pure part is in lemmas about `allocate`: what it returns
has its type, it keeps every recorded number behind its counter, and it takes a
counter back only when the recorded server run is provably another one
(`AllocateSteps`). The action properties and the refinement follow from `IInv`
and one lemma on how the file changes (`DiskSteps`).

**HerdrNamingProofs** builds on the former: `NamingTypeCorrect`,
`TabAndAgentMatch` (one pane per tab, relabels that do not fail) and
`HumanLabelsStay` (no human picks a bare position for a label, which reads as
herdr's own; the human may rename at any time). `NBase`
is the type invariant with `StoreSound` (what a run in `number_for` has in hand)
and `Pace` (where a run, its allocation and its namer can be at the same time).
`NumbersStayUnique` is the one theorem that is about the counter and the labels at
once. Its invariant `Counted` adds to `NBase` four parts. `Ordered`: the file holds this
session's entry only, and between `read` and `write` a run has in hand what is on
disk. `Numbers`: a number given out is behind its counter, given to one tab, and
shown by no other; what a run that still asks has read of the labels accounts for
every number on screen that the counter has not passed; and two runs that ask at
once do not count on one number. `RenamedIsPassed`: who may rename a tab takes no
number off the screen that the counter has not passed, since the next run could
not see it any more. `NamesCarryNumbers`: a name carries a number its tab was
given, also after a walk past taken names.

It assumes `Reliable`, `PlainLabels`, `BasesApart` and a behaviour in which no
counter wraps (`CountersBelowMax`), and each of these excludes a way the code
really gives a number twice: a write that fails leaves the counter where it was; a
first list that fails leaves restored labels unread; a lock not got or a directory
not made gives a name without a number, and the walk from it reaches `foo-2`, which
is tab 2's; a socket not read leaves the counter of the run before; a base `api-2`
beside a base `api` reads the other's labels as its own; a human may write any of
these labels; and a run may rename over a list gone stale. Kills at any place,
restarts of herdr, agents that start by themselves and failing renames and relabels
are allowed.

For the labels, `Entitled` says that a run or namer about to rename has found, or
has itself written, a label that reads as one of pall8t's, unless a human has named
the tab since (`late`); it is needed because neither action that renames looks
again, and it holds over the namer's whole wait. For the names, `Matched` says what
tab and agent carry at each place of the namer, since they are renamed in two
steps and agree only after the second.

**ImageLifecycleProofs**: `TypeCorrect`, `RecordsHold`, `ClaimsHold`. For the
records, `Recorded` alone is not inductive: a build may clear the record of its
tag, so `Cleared` says the image is right by then; that it is right is what
`Verify` compares, so `ReadElse` and `BuiltElse` say that a build that read
something else will find a difference; and `Apart` that no second build of the
tag is between these steps. For the claims, `Spared` says for each place of a
deleting process what it knows by then of the processes that had claimed a tag
when it began to look: not yet listed but reserved, then kept, then not among the
victims.

**WatchedBuildProofs**: `VerifiedIsBuiltTheorem`, for any files, edits and
stores. The hash, the builder and the second read see each file at times of their
own, but a version only grows, so what the builder read of a file lies between
the other two (`Between`); where those are equal it is equal to both.
`WatchTypeCorrect` is its types, and `PrunedIsSupersededTheorem` is for every store
and every order and spelling of a listing. Their invariant `WatchInv` adds that
the store is finite and its references plain (`StoreKept`), so that a listing is a
sequence of all of it, no two victims are spellings of one image (`NamedOnce`), and
what was true of a victim when it was picked stays true while others are deleted
(`Doomed`).

**RelayProofs**: every safety property the run checks, for any finite set of
connections, any cap, deadline, length of a first line and of a conversation:
`RelayType`, `SlotsAlwaysMatch`, `CapHolds`, `AllForwarded`, `AllAnswered` and
the action property `NeverCut`. The inductive invariant `RInv` adds two things to
the properties. One relates the accept loop to the connections: a connection is
claimed exactly while it is in the loop's hands, and what the loop's `fetch_add`
returned bounds the connections served, which stays true because threads only
end meanwhile; without it `Admit` could not be shown to respect the cap. The
other, `Good`, is what holds of one connection by itself; its first conjunct (a
deadline is set only while the first line is read) is what excludes a time-out
that cuts a conversation, and `got <= taken <= sent` is what makes `AllForwarded`
inductive. Two lemmas carry most steps: a step that changes one connection and
leaves its slot alone (`Stays`), and the end of a connection (`GivesBack`,
`Ends`).

**RelayLifeProofs**: `LifeTypeCorrect`, `NoneUnheard` (a relay whose line the run
has not read, whether or not it was written by then) and `MountedStaysServed`
(no pid that comes back during a sweep, no full backlog). Two live relays have
two names (`Exclusive`); the path of a relay that is bound is its own (`Held`);
and no sweep holds the path of a relay that lives, because it lists only old
sockets and a socket gets old only after it listens (`Unswept`), which is what
`SOCKET_REAP_GRACE` is for.

**HerdrCacheProofs**: `CacheTypeCorrect`, `TrustHolds`, `ReturnedStays`. Only the
asset's hash is ever recorded (`OnlyAsset`); while nothing is damaged, a binary is
in place only after its hash is, so no process has a reason to remove it
(`Undamaged`).

**CommandsProofs**: `CommandsTypeCorrect`, `ReachStaysHumans`,
`NothingStaysSilent`, `EntriesStaySeen` (`SeenAsMounted`) and
`WorktreesStayReadable` (`GitReadable`), for any two files (and any edit of them that `init` makes),
any mounts, file system, pane and machine. What a run became is decided in one
step, `Exec`, from what a dozen earlier ones left; so the invariant says at each
place what they left. `Paced` says which command can be there, and that a run past
its files has a configuration; `Merged` that it is what the two files come to,
with every warning said; `Placed` that the mounts begin with the workspace's own.
`OnlyAllowed`, `SshSaid` and `BridgeSaid` carry the decisions on: no step between
planning and `Exec` adds a host directory but the bridge's, the decision about
ssh is said where it is taken, and the three ways to `Exec` from a pane each say
what became of the bridge or have it off. `OnlyExec` shows that nothing else makes
a run's process something. That the merged sandbox is never wider than the
human's is a lemma about `Merge` alone (`SandboxNarrows`). The assumptions are
the types of the files, entries and machines, and that no name is `None`.

The last two theorems follow `resolve` through every overlap of paths. Their
invariant, `Planning`, stands beside the one above. While entries are resolved,
only a git directory lies over another of the mounts added (`Apart`), and whatever
lies over the git directory an entry so far needs shows that very path
(`GitSeen`). An entry adds its own mount, that of its git directory as well, or
neither; the lemmas on `resolve` say what covers what after each (`OwnLaid`,
`GitLaid`, `SameLaid`). Past resolving, `EntriesShown`, `GitShown` and `CwdShown`
say it of the plan, and what is added then (home, bridge) leaves it so
(`ShownMore`). They assume two things of the machine, which `MCCommands` checks of
its own:
- `HostApart`: no host directory lies at or under `/home/dev`,
  `/opt/pall8t/bin` or the socket's path in `/tmp`, where pall8t mounts things of
  its own. On macOS a canonical path begins with neither `/tmp` nor `/home`; a
  real `/opt/pall8t/bin` on the host is a limit.
- `GitApart` (for `SeenAsMounted` only): the workspace is not inside the git
  directory of a worktree other than itself. With a workspace that is a plain
  directory in a bare repository, and a worktree of that repository listed, the
  mount of the git directory lies over the workspace: `resolve` asks what covers a
  git directory, not what a git directory covers. A bare repository with its
  worktrees beside one another in it satisfies the assumption.

Only proved, not run: `LockDiscipline` (`UpdateInProgress`) and `CapHolds`
(`WithinCap`), which are parts of the arguments, and `FileStaysBounded`. Only
model-checked, since liveness is out of the prover's reach: `NeverHangsOnLock`,
`NamerFollowsRun`, `SlotComesBack`, `RelayFollowsRun`, `LaunchGetsOn`,
`CommandEnds` and `BuildEnds`. The two runs that expect a violation
(`NoFalseConflict`, `CondemnSparesReserved`) have nothing to prove.

## 6. Limits of what is shown

The following are behaviours of the code under which a checked property does not
hold. They are excepted by the property, or switched off by a constant or a
fault; switching them on makes TLC show the behaviour.

- `NumbersUnique` fails with fault `"list"` (the first `tab.list` after a
  restart fails, so the counter starts from 1 beside restored labels), with
  `"stat"` (the socket cannot be read at the first run after a restart and can
  at the next), with `"write"` (the number is used and the counter stays), with
  `"busy"` and `"dir"` (a walk from a name without a number reaches another tab's),
  with `"race"` (a rename takes off the screen what the next run had to see), with
  two bases of which one is the other with a counter (a label of base `foo-1` reads
  as one of base `foo`), and when a human gives a tab a label of pall8t's.
- A `tab.list` older than the lock makes `prune_tabs` forget a tab opened and
  numbered since; its next run is given another number. No property claims that
  a tab's number is fixed.
- Two tabs can come to wear one label: the walk looks at labels read before the
  lock, and two runs whose numbers already collided can both step to the same
  next candidate. After both the run's and the namer's walk have stepped on, the
  label (`foo-1-2-2`) is no longer taken for pall8t's own (`naming.rs:217-226`),
  and the tab keeps it.
- `HumanLabelKept` excepts a label chosen after the run looked at the tab
  (`r \in late`). The run's rename is on the strength of an older list, and
  `relabel_tab` (`naming.rs:866-870`) renames a second time after a collision, up
  to `AGENT_WAIT` (45 s) later, without looking, though the comment over it says it
  `never touches a label a human chose` (`naming.rs:862-865`). Without the
  exception TLC shows both. What the property and `HumanLabelsStay` do say is that
  a human's label the run could see is kept, by the run and by its namer.
- `NamerFollowsRun` excepts a herdr that has stopped answering: a namer in a call
  of it outlives its run until herdr is killed or answers.
- `SlotComesBack` excepts a client that stays and does not read its answer: the
  copy to it (`relay.rs:689`) has no write timeout, so it keeps its thread and its
  slot, after herdr has closed too.
- `TrustedIsAsset` rests on what is recorded being the download's own hash, and
  holds in whatever order hash and binary are renamed; the order is what
  `ReturnedIsThere` is about.
- `TabAndAgentAgree` fails with `"relabel"`: the relabel is best effort.
- `MistaggedIsRecorded` fails with `"aba"` (content is back by the time it is
  compared), `"kill"` (a death between build and record), `"state"` (no record
  can be written) and `"builders"`: two builders of one tag share its record, and
  the one whose build is good clears what the other has written
  (`image.rs:496`). Another process may reuse a tag that is built and not yet
  verified. For the same reason as `"aba"`, `VerifiedIsBuilt` takes every edit to
  be a new version: one that is taken back is not seen.
- `ClaimedImageStays` fails with `"slow"` (the grace of a reservation is five
  minutes, a download may take ten) and `"unread"` (a directory of reservations
  that cannot be listed reads as empty). It speaks of claims made before
  the deleting process began to look: later ones are not seen, because the
  reservations are listed once.
- In `Relay` the deadline is one of a read: each piece of a first line starts it
  again, and a client can take longer than the deadline over one line. A
  conversation whose client has shut its side and whose herdr stays silent
  keeps its slot until herdr speaks or closes.
- `MountedIsServed` fails with `"reuse"` (a pid comes back while a sweep still
  holds its old path) and `"saturated"` (a full backlog refuses a connect and
  reads as dead). A relay whose mount is declined after its line was read serves
  on, unmounted, until its run ends.
- In `HerdrCache`, two processes that both found the binary damaged can have the
  second remove what the first has published and returned; `ReturnedIsThere`
  speaks of an undamaged cache.
- `SeenAsMounted` excepts what pall8t itself puts over an entry (`PutOver`): the
  git directory of a worktree listed later, and the bridge's directory and
  socket. It fails for the workspace where that lies inside the git directory
  of another worktree that is listed; both it and `GitReadable` fail where a host
  directory has the path of a mount of the container's own (see 5, `GitApart` and
  `HostApart`).
- `CommandEnds` excepts the waits named under Fairness.
- `ensure_file` (`util.rs:161`) looks and then writes: what someone writes in
  between is written over. `Commands` takes the two apart and has nobody else
  write.

## 7. Not modelled

- Parsing and formatting: JSON, TOML, the argument strings of `container`
  (`hardening_argv`, `label_value`, `run_name`), the hashing of files, the wording
  of what is printed.
- Names that reach the 32-byte cap and the sanitising of `base_name`; the choice
  of a socket path that fits (`socket_path`).
- Panes without a tab id. Several panes in one tab are in no run: of the theorems,
  `NamingTypeCorrect` and `HumanLabelsStay` hold of them, and `TabAndAgentMatch`
  excludes them. A new run in a pane starts only after the namer of the one before
  is gone.
- The state file wiped or made unreadable in the middle of its life.
- Pid reuse, except in `RelayLife`.
- The herdr plugin, which starts a `pall8t run` per event and keeps no state, and
  the build, release and documentation scripts.
