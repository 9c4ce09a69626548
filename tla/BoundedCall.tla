---------------------------- MODULE BoundedCall ----------------------------
(***************************************************************************)
(* One call of run_ok_timeout (src/src/util.rs): a child, the thread that  *)
(* reads its pipes, and the caller, which polls the child until it exits   *)
(* or its time is up.  The pipes close when the last process that holds    *)
(* them is gone, which need not be the child.                              *)
(***************************************************************************)
EXTENDS Naturals

CONSTANTS
  Limit,       \* the time allowed, in polls
  Grandchild   \* whether a child may leave a process behind with its pipes

VARIABLE call

Idle == [at |-> "idle", child |-> "none", pipes |-> "closed", polls |-> 0]

Call ==
  [at    : {"idle", "polling", "joining", "ok", "failed"},
   child : {"none", "running", "exited 0", "exited 1", "killed"},
   pipes : {"open", "held", "closed"},   \* held: by a process the child left
   polls : 0 .. Limit]

\* The program is spawned, its pipes are read by threads; or it cannot be.
Spawn ==
  /\ call.at = "idle"
  /\ \/ call' = [at |-> "polling", child |-> "running", pipes |-> "open", polls |-> 0]
     \/ call' = [call EXCEPT !.at = "failed"]

\* The child ends by itself.
ChildExits ==
  /\ call.child = "running"
  /\ \E code \in {"exited 0", "exited 1"},
        pipes \in {"closed"} \cup (IF Grandchild THEN {"held"} ELSE {}) :
       call' = [call EXCEPT !.child = code, !.pipes = pipes]

\* try_wait finds it running with time left: the caller sleeps REAP_POLL.
Sleep ==
  /\ call.at = "polling" /\ call.child = "running" /\ call.polls < Limit
  /\ call' = [call EXCEPT !.polls = @ + 1]

\* Fault: there is no deadline.
ExpireNever == FALSE

\* The deadline: the child is killed and reaped, and nothing is joined.
Expire ==
  /\ call.at = "polling" /\ call.child = "running" /\ call.polls = Limit
  /\ call' = [call EXCEPT !.at = "failed", !.child = "killed", !.pipes = "closed"]

\* try_wait finds the status: the readers are joined.
Reap ==
  /\ call.at = "polling" /\ call.child \in {"exited 0", "exited 1"}
  /\ call' = [call EXCEPT !.at = "joining"]

\* The readers end at the end of the pipes.
Join ==
  /\ call.at = "joining" /\ call.pipes = "closed"
  /\ call' = [call EXCEPT !.at = IF call.child = "exited 0" THEN "ok" ELSE "failed"]

\* What the caller does; what the child does is up to it.
CallerStep == Spawn \/ Sleep \/ Expire \/ Reap \/ Join

Returned == call.at \in {"ok", "failed"}
=============================================================================
