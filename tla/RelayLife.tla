------------------------------- MODULE RelayLife -------------------------------
(***************************************************************************)
(* The life of a relay process beside the run it serves: `pall8t run'      *)
(* spawns it and waits a bounded time for its readiness line (spawn_relay  *)
(* and prepare_bridge of src/src/herdr.rs), the relay clears its path,     *)
(* binds its socket there, says so, sweeps what exited runs left in the    *)
(* directory, and follows its run out (run, reap_stale_sockets and         *)
(* watch_parent of src/src/relay.rs).  What it serves is module Relay.     *)
(*                                                                         *)
(* A run's socket is named after its workspace and its pid, and a pid can  *)
(* come back: NameOf gives two runs the same path.                         *)
(***************************************************************************)
EXTENDS Naturals

CONSTANTS
  Runs,    \* `pall8t run' processes that want the bridge, each started once
  Paths,   \* socket paths under ~/.pall8t/run
  NameOf,  \* the path of each run
  None,
  Faults   \* what may go wrong, out of
           \*   "hang":      a relay gets stuck before it is ready
           \*   "kill":      a relay is killed
           \*   "declined":  the socket cannot be mounted (a `:' in its path)
           \*   "reuse":     a name comes back before the traces of the run
           \*                that had it are settled
           \*   "saturated": a live relay refuses the sweep's connect

ASSUME RelayLifeAssumption ==
  /\ NameOf \in [Runs -> Paths]
  /\ None \notin Runs /\ None \notin {"path", "read"}

VARIABLES
  run,     \* each run: waiting for its relay, ready to exec, or the container
  relay,   \* each relay process
  parent,  \* the parent a relay saw when it looked: its run, or init
  line,    \* its readiness line, while its run is there: not written, written
           \* into the pipe between them, or read
  file,    \* the relay whose socket each path holds, alive or not
  old,     \* the paths whose socket is past SOCKET_REAP_GRACE
  found,   \* the paths a sweep has listed and not probed
  stale    \* the paths it has probed and found dead

vars == <<run, relay, parent, line, file, old, found, stale>>

TypeOK ==
  /\ run \in [Runs -> {"none", "asking", "bridged", "plain", "running", "bare", "gone"}]
  /\ relay \in [Runs -> {"none", "start", "clear", "bind", "listen", "bound", "sweep",
                         "probe", "reap", "watch", "serving", "stuck", "gone"}]
  /\ parent \in [Runs -> {None, "run", "init"}]
  /\ line \in [Runs -> {None, "path", "read"}]
  /\ file \in [Paths -> Runs \cup {None}]
  /\ old \subseteq Paths
  /\ found \in [Runs -> SUBSET Paths]
  /\ stale \in [Runs -> SUBSET Paths]

Init ==
  /\ run = [r \in Runs |-> "none"]
  /\ relay = [r \in Runs |-> "none"]
  /\ parent = [r \in Runs |-> None]
  /\ line = [r \in Runs |-> None]
  /\ file = [p \in Paths |-> None]
  /\ old = {}
  /\ found = [r \in Runs |-> {}]
  /\ stale = [r \in Runs |-> {}]

Alive(r) == relay[r] \notin {"none", "stuck", "gone"}

\* A connect to a socket is answered from listen(2) to the relay's end.
Answers(r) == relay[r] \in {"bound", "sweep", "probe", "reap", "watch", "serving"}

To(r, place) == relay' = [relay EXCEPT ![r] = place]

\* The relay process ends; its socket file stays where it is.
Quit(r) ==
  /\ To(r, "gone")
  /\ found' = [found EXCEPT ![r] = {}]
  /\ stale' = [stale EXCEPT ![r] = {}]
-----------------------------------------------------------------------------
\* The run.

\* spawn_relay, up to the spawn; without it the run goes on without a bridge.
Launch(r) ==
  /\ run[r] = "none"
  /\ \A q \in Runs \ {r} : NameOf[q] = NameOf[r] =>
       /\ run[q] \in {"none", "gone"}
       /\ "reuse" \in Faults \/ ~ Alive(q)
  /\ \/ run' = [run EXCEPT ![r] = "asking"] /\ To(r, "start")
     \/ run' = [run EXCEPT ![r] = "plain"] /\ UNCHANGED relay
  /\ UNCHANGED <<parent, line, file, old, found, stale>>

\* The line names the socket asked for, and it is mounted, unless it cannot
\* be: then the run goes on without it, and without a word to the relay.
HearsLine(r) ==
  /\ run[r] = "asking" /\ line[r] = "path"
  /\ line' = [line EXCEPT ![r] = "read"]
  /\ \/ run' = [run EXCEPT ![r] = "bridged"]
     \/ "declined" \in Faults /\ run' = [run EXCEPT ![r] = "plain"]
  /\ UNCHANGED <<relay, parent, file, old, found, stale>>

\* End of file without a line: the relay is gone, and is reaped.
HearsNothing(r) ==
  /\ run[r] = "asking" /\ line[r] = None /\ relay[r] = "gone"
  /\ run' = [run EXCEPT ![r] = "plain"]
  /\ UNCHANGED <<relay, parent, line, file, old, found, stale>>

\* Fault: only a relay that is silent is killed, and not one that got ready as
\* the limit ran out.
GivesUpOnSilence(r) ==
  /\ run[r] = "asking"
  /\ run' = [run EXCEPT ![r] = "plain"]
  /\ IF line[r] = None THEN Quit(r) ELSE UNCHANGED <<relay, found, stale>>
  /\ UNCHANGED <<parent, line, file, old>>

\* Fault: there is no limit, only the end of a relay is waited for.
WaitsForIt(r) ==
  /\ run[r] = "asking" /\ line[r] = None /\ relay[r] = "gone"
  /\ run' = [run EXCEPT ![r] = "plain"]
  /\ UNCHANGED <<relay, parent, line, file, old, found, stale>>

\* RELAY_READY_LIMIT is over and no line has been read, whether or not one has
\* been written by now: the relay is killed.
GivesUp(r) ==
  /\ run[r] = "asking"
  /\ run' = [run EXCEPT ![r] = "plain"]
  /\ Quit(r)
  /\ UNCHANGED <<parent, line, file, old>>

\* The run becomes the container client, under the same pid; a socket that is
\* to be mounted has to be there.
Execs(r) ==
  /\ \/ /\ run[r] = "bridged"
        /\ run' = [run EXCEPT ![r] = IF file[NameOf[r]] # None THEN "running" ELSE "gone"]
     \/ run[r] = "plain" /\ run' = [run EXCEPT ![r] = "bare"]
  /\ UNCHANGED <<relay, parent, line, file, old, found, stale>>

\* The session is over, or the run dies on its way there; with it goes what it
\* has been told.
Ends(r) ==
  /\ run[r] \notin {"none", "gone"}
  /\ run' = [run EXCEPT ![r] = "gone"]
  /\ line' = [line EXCEPT ![r] = None]
  /\ UNCHANGED <<relay, parent, file, old, found, stale>>
-----------------------------------------------------------------------------
\* The relay.

\* The first thing it does is to look who its parent is.
Sample(r) ==
  /\ relay[r] = "start"
  /\ parent' = [parent EXCEPT ![r] = IF run[r] = "gone" THEN "init" ELSE "run"]
  /\ To(r, "clear")
  /\ UNCHANGED <<run, line, file, old, found, stale>>

\* The directory is not the run root, cannot be made or cannot be restricted,
\* or the socket cannot be bound or opened up.
Fails(r) ==
  /\ relay[r] \in {"clear", "bind", "bound"}
  /\ Quit(r)
  /\ UNCHANGED <<run, parent, line, file, old>>

\* What a run of the same name left is removed.
Clear(r) ==
  /\ relay[r] = "clear"
  /\ "reuse" \in Faults \/ \A q \in Runs : NameOf[r] \notin found[q] \cup stale[q]
  /\ file' = [file EXCEPT ![NameOf[r]] = None]
  /\ To(r, "bind")
  /\ UNCHANGED <<run, parent, line, old, found, stale>>

\* bind(2) makes the file, and fails where there is one; listen(2) follows.
Bind(r) ==
  /\ relay[r] = "bind" /\ file[NameOf[r]] = None
  /\ file' = [file EXCEPT ![NameOf[r]] = r]
  /\ old' = old \ {NameOf[r]}
  /\ To(r, "listen")
  /\ UNCHANGED <<run, parent, line, found, stale>>

Listen(r) ==
  /\ relay[r] = "listen"
  /\ To(r, "bound")
  /\ UNCHANGED <<run, parent, line, file, old, found, stale>>

\* Fault: the line names another socket than the one asked for.
TellsAnother(r) ==
  /\ relay[r] = "bound"
  /\ line' = [line EXCEPT ![r] = "another"]
  /\ To(r, "sweep")
  /\ UNCHANGED <<run, parent, file, old, found, stale>>

\* The readiness line.  With nobody left to read it, println! panics.
Tell(r) ==
  /\ relay[r] = "bound"
  /\ IF run[r] = "gone"
     THEN Quit(r) /\ UNCHANGED line
     ELSE /\ line' = [line EXCEPT ![r] = "path"]
          /\ To(r, "sweep")
          /\ UNCHANGED <<found, stale>>
  /\ UNCHANGED <<run, parent, file, old>>

\* Fault: age is not looked at.
SweepListsAll(r) ==
  /\ relay[r] = "sweep"
  /\ found' = [found EXCEPT ![r] = {p \in Paths : file[p] # None}]
  /\ To(r, "probe")
  /\ UNCHANGED <<run, parent, line, file, old, stale>>

\* reap_stale_sockets: the sockets past the grace are listed ...
SweepLists(r) ==
  /\ relay[r] = "sweep"
  /\ found' = [found EXCEPT ![r] = {p \in old : file[p] # None}]
  /\ To(r, "probe")
  /\ UNCHANGED <<run, parent, line, file, old, stale>>

\* ... each is connected to: refused, or gone, is dead ...
SweepProbes(r) ==
  /\ relay[r] = "probe"
  /\ \/ \E p \in found[r] :
          LET answered == file[p] # None /\ Answers(file[p])
          IN  /\ found' = [found EXCEPT ![r] = @ \ {p}]
              /\ stale' \in {[stale EXCEPT ![r] = @ \cup dead] :
                               dead \in (IF answered THEN {{}} ELSE {{p}})
                                   \cup (IF "saturated" \in Faults THEN {{p}} ELSE {})}
              /\ UNCHANGED relay
     \/ found[r] = {} /\ To(r, "reap") /\ UNCHANGED <<found, stale>>
  /\ UNCHANGED <<run, parent, line, file, old>>

\* ... and the dead ones are unlinked, by path.
SweepRemoves(r) ==
  /\ relay[r] = "reap"
  /\ \/ \E p \in stale[r] :
          /\ file' = [file EXCEPT ![p] = None]
          /\ stale' = [stale EXCEPT ![r] = @ \ {p}]
          /\ UNCHANGED relay
     \/ stale[r] = {} /\ To(r, "watch") /\ UNCHANGED <<file, stale>>
  /\ UNCHANGED <<run, parent, line, old, found>>

\* spawning_run_alive: the parent is what it was, and was not init.
SpawningRunAlive(r) == parent[r] = "run" /\ run[r] # "gone"

\* watch_parent asks once before it serves, then every PARENT_POLL.
Watch(r) ==
  /\ relay[r] = "watch" /\ SpawningRunAlive(r)
  /\ To(r, "serving")
  /\ UNCHANGED <<run, parent, line, file, old, found, stale>>

\* Fault: the run is looked for once, before the relay serves.
FollowOnce(r) ==
  /\ relay[r] = "watch" /\ ~ SpawningRunAlive(r)
  /\ Quit(r)
  /\ UNCHANGED <<run, parent, line, file, old>>

Follow(r) ==
  /\ relay[r] \in {"watch", "serving"} /\ ~ SpawningRunAlive(r)
  /\ Quit(r)
  /\ UNCHANGED <<run, parent, line, file, old>>
-----------------------------------------------------------------------------
\* What happens to a relay, and time.

Hangs(r) ==
  /\ "hang" \in Faults /\ relay[r] \in {"start", "clear", "bind"}
  /\ To(r, "stuck")
  /\ UNCHANGED <<run, parent, line, file, old, found, stale>>

IsKilled(r) ==
  /\ "kill" \in Faults /\ relay[r] \notin {"none", "gone"}
  /\ Quit(r)
  /\ UNCHANGED <<run, parent, line, file, old>>

\* The grace is far longer than a relay takes from bind(2) to listen(2).
Age(p) ==
  /\ file[p] # None /\ p \notin old
  /\ relay[file[p]] # "listen"
  /\ old' = old \cup {p}
  /\ UNCHANGED <<run, relay, parent, line, file, found, stale>>
-----------------------------------------------------------------------------
Waits(r) == HearsLine(r) \/ HearsNothing(r) \/ GivesUp(r)

Serves(r) ==
  \/ Sample(r) \/ Fails(r) \/ Clear(r) \/ Bind(r) \/ Listen(r) \/ Tell(r)
  \/ SweepLists(r) \/ SweepProbes(r) \/ SweepRemoves(r)
  \/ Watch(r) \/ Follow(r)

Next ==
  \/ \E r \in Runs : \/ Launch(r) \/ Waits(r) \/ Execs(r) \/ Ends(r)
                     \/ Serves(r) \/ Hangs(r) \/ IsKilled(r)
  \/ \E p \in Paths : Age(p)

Spec == Init /\ [][Next]_vars

\* A run keeps waiting for its relay's line, its limit included; a relay that
\* is not stuck keeps going.  A connect of its sweep is taken to return, though
\* one to a live relay whose backlog is full waits until that has room
\* (relay.rs, before reap_stale_sockets).
FairSpec ==
  Spec /\ \A r \in Runs : WF_vars(Waits(r)) /\ WF_vars(Serves(r))
-----------------------------------------------------------------------------
\* The path a run mounts, or has mounted, holds the socket of its own relay for
\* as long as that relay lives: no sweep of another run takes it away, not even
\* one that looked in the breath between bind and listen (SOCKET_REAP_GRACE,
\* stale_sockets: `A live run's socket is never reaped').
MountedIsServed ==
  \A r \in Runs :
    (run[r] \in {"bridged", "running"} /\ Alive(r)) => file[NameOf[r]] = r

\* A run that goes on without having read its relay's line has left none behind
\* that could still come up, or has just done so as the limit ran out, and
\* serve a socket nobody mounts (spawn_relay).
NoRelayUnheard ==
  \A r \in Runs :
    (run[r] \in {"plain", "bare"} /\ line[r] # "read") => relay[r] \in {"none", "gone"}

\* A relay follows its run out, wherever either of them was when the run ended,
\* a relay that had not looked for its parent yet included (watch_parent:
\* `leaking one process per failed run').
RelayFollowsRun ==
  \A r \in Runs : (run[r] = "gone" /\ Alive(r)) ~> ~ Alive(r)

\* A relay that is stuck does not hold its run up (RELAY_READY_LIMIT).
LaunchGetsOn == \A r \in Runs : (run[r] = "asking") ~> (run[r] # "asking")
=============================================================================
