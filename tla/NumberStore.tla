----------------------------- MODULE NumberStore -----------------------------
(***************************************************************************)
(* `number_for' of src/src/tab_numbers.rs as concurrent `pall8t run'       *)
(* processes execute it on ~/.pall8t/state/herdr-naming.json: the lock is  *)
(* tried a bounded number of times, the file is read, the socket is        *)
(* stat'ed and the number decided, the new state is published by a rename, *)
(* and the lock goes when the descriptor does.  A run can be killed        *)
(* between any two of these, and the herdr server can stop and start.      *)
(***************************************************************************)
EXTENDS TabNumbers

CONSTANTS
  Runs,        \* `pall8t run' processes
  Requests,    \* what they may ask for
  LockTries,   \* LOCK_TRIES
  Newer,       \* a file in a format newer than SCHEMA
  Faults       \* the failures of the environment that may happen, out of
               \* {"stat", "dir", "write", "busy", "newer", "restart"}

ASSUME NumberStoreAssumption ==
  /\ Requests \subseteq Alloc
  /\ LockTries \in Nat \ {0}
  /\ None \notin Runs
  /\ Newer # None /\ None \notin Sessions /\ Newer \notin Sessions

VARIABLES
  server,   \* the herdr server run bound to each socket path, if any
  disk,     \* the state file: absent or unreadable (None), Newer, or sessions
  holder,   \* the run whose descriptor holds the flock, or None
  pc,       \* where each run is in number_for
  req,      \* its request
  tries,    \* how often it has tried the lock
  seen,     \* the sessions it read
  memo,     \* the sessions it is about to write
  number    \* the number it was given, or None

runVars   == <<pc, req, tries, seen, memo, number>>
storeVars == <<server, disk, holder, runVars>>

Disk == Sessions \cup {None, Newer}
Places == {"idle", "lock", "read", "decide", "write", "release", "done"}

\* parse: what is not usable reads as no sessions at all.
Parse(file) == IF file = None THEN NoSessions ELSE file

StoreTypeOK ==
  /\ server \in [SocketPaths -> OptServer]
  /\ disk \in Disk
  /\ holder \in Runs \cup {None}
  /\ pc \in [Runs -> Places]
  /\ req \in [Runs -> Alloc \cup {None}]
  /\ tries \in [Runs -> 0 .. LockTries]
  /\ seen \in [Runs -> Sessions \cup {None}]
  /\ memo \in [Runs -> Sessions \cup {None}]
  /\ number \in [Runs -> Usize \cup {None}]

StoreInit ==
  /\ server \in [SocketPaths -> OptServer]
  /\ disk = None
  /\ holder = None
  /\ pc = [r \in Runs |-> "idle"]
  /\ req = [r \in Runs |-> None]
  /\ tries = [r \in Runs |-> 0]
  /\ seen = [r \in Runs |-> None]
  /\ memo = [r \in Runs |-> None]
  /\ number = [r \in Runs |-> None]
-----------------------------------------------------------------------------
\* A run enters number_for with the request its caller put together.
Ask(r, q) ==
  /\ pc[r] = "idle"
  /\ pc' = [pc EXCEPT ![r] = "lock"]
  /\ req' = [req EXCEPT ![r] = q]
  /\ UNCHANGED <<server, disk, holder, tries, seen, memo, number>>

\* The state directory, or the lock file in it, cannot be used: no number.
DirFails(r) ==
  /\ "dir" \in Faults
  /\ pc[r] = "lock" /\ tries[r] = 0
  /\ pc' = [pc EXCEPT ![r] = "done"]
  /\ UNCHANGED <<server, disk, holder, req, tries, seen, memo, number>>

\* flock(LOCK_EX | LOCK_NB) succeeds.
Acquire(r) ==
  /\ pc[r] = "lock" /\ holder = None
  /\ holder' = r
  /\ pc' = [pc EXCEPT ![r] = "read"]
  /\ UNCHANGED <<server, disk, req, tries, seen, memo, number>>

\* Fault: a try that fails is not counted.
FailToLockUncounted(r) ==
  /\ pc[r] = "lock" /\ holder # None
  /\ UNCHANGED storeVars

\* Fault: the tries are counted and have no end.
FailToLockUnbounded(r) ==
  /\ pc[r] = "lock" /\ holder # None
  /\ tries' = [tries EXCEPT ![r] = @ + 1]
  /\ UNCHANGED <<server, disk, holder, pc, req, seen, memo, number>>

\* It does not; the run sleeps and tries again.  A holder that is not stuck
\* is gone before the last try is spent (`the hold is microseconds').
FailToLock(r) ==
  /\ pc[r] = "lock" /\ holder # None
  /\ tries[r] + 1 < LockTries
  /\ tries' = [tries EXCEPT ![r] = @ + 1]
  /\ UNCHANGED <<server, disk, holder, pc, req, seen, memo, number>>

\* The last try fails as well: the run goes without a number.
GiveUp(r) ==
  /\ "busy" \in Faults
  /\ pc[r] = "lock" /\ holder # None
  /\ tries[r] + 1 = LockTries
  /\ tries' = [tries EXCEPT ![r] = @ + 1]
  /\ pc' = [pc EXCEPT ![r] = "done"]
  /\ UNCHANGED <<server, disk, holder, req, seen, memo, number>>

\* Fault: the lock covers the read only, not the write that follows.
ReadAndUnlock(r) ==
  /\ pc[r] = "read"
  /\ holder' = None
  /\ IF disk = Newer
     THEN pc' = [pc EXCEPT ![r] = "done"] /\ UNCHANGED seen
     ELSE /\ pc' = [pc EXCEPT ![r] = "decide"]
          /\ seen' = [seen EXCEPT ![r] = Parse(disk)]
  /\ UNCHANGED <<server, disk, req, tries, memo, number>>

\* Fault: a file in a newer format reads as no sessions.
ReadOverNewer(r) ==
  /\ pc[r] = "read"
  /\ pc' = [pc EXCEPT ![r] = "decide"]
  /\ seen' = [seen EXCEPT ![r] = IF disk = Newer THEN NoSessions ELSE Parse(disk)]
  /\ UNCHANGED <<server, disk, holder, req, tries, memo, number>>

\* read_state under the lock.  A file of a newer pall8t is left alone, and
\* returning drops the lock.
Read(r) ==
  /\ pc[r] = "read"
  /\ IF disk = Newer
     THEN /\ pc' = [pc EXCEPT ![r] = "done"]
          /\ holder' = None
          /\ UNCHANGED seen
     ELSE /\ pc' = [pc EXCEPT ![r] = "decide"]
          /\ seen' = [seen EXCEPT ![r] = Parse(disk)]
          /\ UNCHANGED holder
  /\ UNCHANGED <<server, disk, req, tries, memo, number>>

\* server_run: nothing to stat without a socket path, and a stat can fail.
StatOutcomes(key) ==
  IF key = None THEN {None}
  ELSE {server[key]} \cup (IF "stat" \in Faults THEN {None} ELSE {})

\* The stat and allocate.
Decide(r) ==
  /\ pc[r] = "decide"
  /\ \E live \in StatOutcomes(req[r].key) :
       /\ memo' = [memo EXCEPT ![r] = AllocateState(seen[r], live, req[r])]
       /\ number' = [number EXCEPT ![r] = AllocateNumber(seen[r], live, req[r])]
  /\ pc' = [pc EXCEPT ![r] = "write"]
  /\ UNCHANGED <<server, disk, holder, req, tries, seen>>

\* write_state: the rename publishes the whole new state ...
Write(r) ==
  /\ pc[r] = "write"
  /\ disk' = memo[r]
  /\ pc' = [pc EXCEPT ![r] = "release"]
  /\ UNCHANGED <<server, holder, req, tries, seen, memo, number>>

\* Fault: the file is written in place, and a write that fails leaves it
\* truncated.
WriteFailsInPlace(r) ==
  /\ "write" \in Faults
  /\ pc[r] = "write"
  /\ disk' = None
  /\ pc' = [pc EXCEPT ![r] = "release"]
  /\ UNCHANGED <<server, holder, req, tries, seen, memo, number>>

\* ... or it fails, and the number already decided is used all the same.
WriteFails(r) ==
  /\ "write" \in Faults
  /\ pc[r] = "write"
  /\ pc' = [pc EXCEPT ![r] = "release"]
  /\ UNCHANGED <<server, disk, holder, req, tries, seen, memo, number>>

\* number_for returns: its locals go, the descriptor closes and the lock
\* with it.
Release(r) ==
  /\ pc[r] = "release"
  /\ holder' = None
  /\ pc' = [pc EXCEPT ![r] = "done"]
  /\ seen' = [seen EXCEPT ![r] = None]
  /\ memo' = [memo EXCEPT ![r] = None]
  /\ UNCHANGED <<server, disk, req, tries, number>>

\* The process is gone, at the end of its run or killed in the middle of it:
\* the kernel closes its descriptors.
Exit(r) ==
  /\ pc[r] # "idle"
  /\ pc' = [pc EXCEPT ![r] = "idle"]
  /\ holder' = IF holder = r THEN None ELSE holder
  /\ req' = [req EXCEPT ![r] = None]
  /\ tries' = [tries EXCEPT ![r] = 0]
  /\ seen' = [seen EXCEPT ![r] = None]
  /\ memo' = [memo EXCEPT ![r] = None]
  /\ number' = [number EXCEPT ![r] = None]
  /\ UNCHANGED <<server, disk>>

\* herdr unlinks its socket on the way down and binds a new one on the way
\* up; what a socket's inode and birth time look like is the filesystem's.
Rebind(s) ==
  /\ "restart" \in Faults
  /\ server' \in {[server EXCEPT ![s] = x] : x \in OptServer \ {server[s]}}
  /\ UNCHANGED <<disk, holder, runVars>>

\* A newer pall8t, taking the same lock, rewrites the file in its format.
Upgrade ==
  /\ "newer" \in Faults
  /\ holder = None
  /\ disk' = Newer
  /\ UNCHANGED <<server, holder, runVars>>
-----------------------------------------------------------------------------
\* What a run does by itself once it has asked.
Step(r) ==
  \/ Acquire(r) \/ FailToLock(r) \/ GiveUp(r) \/ DirFails(r)
  \/ Read(r) \/ Decide(r) \/ Write(r) \/ WriteFails(r) \/ Release(r)

StoreNext ==
  \/ \E r \in Runs : \/ \E q \in Requests : Ask(r, q)
                     \/ Step(r)
                     \/ Exit(r)
  \/ \E s \in SocketPaths : Rebind(s)
  \/ Upgrade

StoreSpec == StoreInit /\ [][StoreNext]_storeVars

\* A run keeps trying the lock it wants.  Nothing is assumed of the run that
\* holds it: the bounded tries are there for a holder that is stuck.
FairStoreSpec ==
  StoreSpec /\ \A r \in Runs :
    WF_storeVars(Acquire(r) \/ FailToLock(r) \/ GiveUp(r))
-----------------------------------------------------------------------------
\* A run between its read and its write.
InUpdate(r) == pc[r] \in {"decide", "write"}

\* No update is lost: from the read of the state file until its rename, the
\* file is what the run read, so what it publishes is built on what is there
\* (the read-modify-write number_for holds the flock across).
HolderSeesDisk == \A r \in Runs : InUpdate(r) => seen[r] = Parse(disk)

\* The flock is held exactly while a run is in its read-modify-write, a run
\* never makes more tries than it has, and what a run is about to publish is
\* one allocation made from what it read.
UpdateInProgress ==
  \A r \in Runs :
    /\ pc[r] \in {"read", "decide", "write", "release"} <=> holder = r
    /\ pc[r] \in {"idle", "lock"} => tries[r] < LockTries
    /\ pc[r] # "idle" => req[r] \in Requests
    /\ InUpdate(r) => seen[r] \in Sessions
    /\ pc[r] = "write" =>
         \E live \in OptServer : memo[r] = AllocateState(seen[r], live, req[r])

\* A number recorded for a tab is behind its base's counter in every session
\* of the file, so no counter hands out a number some tab still holds.
RecordedBehindCounter ==
  disk \in Sessions =>
    \A k \in Keys : disk[k] # None => BehindCounter(disk[k])

\* No write takes a counter back while its herdr server run lasts, whatever
\* the interleaving of the runs and of the restarts: a session's counters
\* restart only when the identity recorded then is provably another run's,
\* or its entry is evicted (Session.next, `never decreases').
CountersOnlyResetOnRestart ==
  [][(disk \in Sessions /\ disk' \in Sessions) =>
       \A k \in Keys :
         (disk[k] # None /\ disk'[k] # None) =>
           \/ Continues(disk[k], disk'[k])
           \/ ~ KeepsCounting(disk[k].server, disk'[k].server)]_storeVars

\* Sessions are independent: a run's write changes its own session only, and
\* the one other thing it may do is drop the entry unused for longest, when
\* the file is full (evict; State.sessions: `sharing one entry would make
\* every run look like a restart of the other session').
SessionsIndependent ==
  [][\A r \in Runs :
       (pc[r] = "write" /\ disk \in Sessions /\ disk' \in Sessions) =>
         \A k \in Keys \ {req[r].key} :
           \/ disk'[k] = disk[k]
           \/ /\ disk'[k] = None
              /\ \A j \in Keys \ {req[r].key} :
                    disk'[j] # None => disk[k].lastUsed <= disk'[j].lastUsed
              /\ Cardinality({j \in Keys : disk'[j] # None}) = MaxSessions
    ]_storeVars

\* A file in a newer format is never written again by this version, not even
\* by a run that read the file before it was upgraded (Load::Frozen).
NewerFileUntouched == [][disk = Newer => disk' = Newer]_storeVars

\* A run never waits for the lock forever, even behind a holder that is stuck
\* (LOCK_TRIES): it gets the lock, goes without a number, or dies.
NeverHangsOnLock == \A r \in Runs : (pc[r] = "lock") ~> (pc[r] # "lock")

\* The state file changes only by whole allocations made one after another:
\* this is the refinement of AtomicNumbering, the file standing for itself.
Atomic == INSTANCE AtomicNumbering WITH file <- disk
ImplementsAtomicNumbering == Atomic!Spec
=============================================================================
