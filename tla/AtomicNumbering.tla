-------------------------- MODULE AtomicNumbering --------------------------
(***************************************************************************)
(* What src/src/tab_numbers.rs promises about its state file, with no      *)
(* processes in it: the file changes by whole allocations, one after the   *)
(* other, each made from what the file said at that moment, and a file     *)
(* written by a newer pall8t does not change at all.                       *)
(***************************************************************************)
EXTENDS TabNumbers

CONSTANTS Requests,   \* the requests runs make
          Newer       \* a file in a format newer than SCHEMA

VARIABLE file   \* None when absent or unreadable, Newer, or the sessions

\* parse: a file that is not usable reads as no sessions at all.
Parse(f) == IF f = None THEN NoSessions ELSE f

Init == file \in {None, Newer}

\* One whole allocation.
Allocation ==
  \E q \in Requests, live \in OptServer :
    /\ file # Newer
    /\ file' = AllocateState(Parse(file), live, q)

\* A newer pall8t takes the file over.
Upgrade == file' = Newer

Next == Allocation \/ Upgrade

Spec == Init /\ [][Next]_file
=============================================================================
