---------------------------- MODULE ImageLifecycle ----------------------------
(***************************************************************************)
(* The sandbox image of one workspace as concurrent `pall8t run' and       *)
(* `pall8t build' processes resolve, build, verify, condemn, prune and     *)
(* launch it (src/src/image.rs, called from cmd_run and cmd_build).  The   *)
(* image store and the containers belong to Apple's `container', a process *)
(* away: every call of it is a step of its own, and so is every access to  *)
(* the two kinds of files under ~/.pall8t/state, the poisoned records and  *)
(* the launch reservations.  The user edits the Containerfile and the      *)
(* watched files at any time.                                              *)
(*                                                                         *)
(* A tag is the hash of the content it was resolved from, and the model    *)
(* writes the content for the tag.                                         *)
(***************************************************************************)
EXTENDS Naturals

CONSTANTS
  Runs,      \* pall8t processes, each started once
  Contents,  \* what the Containerfile and the watched files may hold
  None,      \* not readable; no image; nothing
  FaultSets  \* the sets of what may go wrong or race in a behaviour, out of
             \*   "aba":      content returns to a tag while it is built
             \*   "builders": two processes build one tag at once
             \*   "kill":     a process dies before it verified its build
             \*   "state":    the state directory cannot be used
             \*   "cli":      a call of `container' fails
             \*   "unread":   the reservations cannot be listed
             \*   "slow":     a launch outlasts LAUNCH_GRACE

ASSUME ImageAssumption ==
  /\ None \notin Contents
  /\ FaultSets \subseteq
       SUBSET {"aba", "builders", "kill", "state", "cli", "unread", "slow"}

VARIABLES
  faults,       \* what may go wrong in this behaviour
  content,      \* what the files hold now
  image,        \* the content the image under each tag was built from
  poisoned,     \* the tags recorded as not matching their content
  pc, mode, attempt, tag,
  built,        \* the content the build in progress has read
  keep,         \* the tags a prune will spare
  victims,      \* the tags it has yet to delete
  reservation,  \* the launch reservation of each process
  early         \* the processes that had claimed a tag when this process
                \* began to look for claims (history only)

fileVars == <<content, poisoned, reservation>>
runVars  == <<mode, attempt, tag, built, keep, victims, early>>
vars     == <<faults, fileVars, image, pc, runVars>>

Building == {"build", "publish", "verify", "mark", "inuse", "delete", "forget", "clear"}
Pruning  == {"snapshot", "reservations", "list", "prune"}
Launching == {"reserve", "launch"}
Ended == {"running", "over"}
Places == {"start", "resolve", "exists", "record"} \cup Building \cup Pruning
            \cup Launching \cup Ended

TypeOK ==
  /\ content \in Contents \cup {None}
  /\ image \in [Contents -> Contents \cup {None}]
  /\ poisoned \subseteq Contents
  /\ pc \in [Runs -> Places]
  /\ mode \in [Runs -> {"run", "build"}]
  /\ attempt \in [Runs -> 1 .. 2]
  /\ tag \in [Runs -> Contents \cup {None}]
  /\ built \in [Runs -> Contents \cup {None}]
  /\ keep \in [Runs -> SUBSET Contents]
  /\ victims \in [Runs -> SUBSET Contents]
  /\ reservation \in [Runs -> {"none", "fresh", "aged"}]
  /\ early \in [Runs -> SUBSET Runs]

Init ==
  /\ faults \in FaultSets
  /\ content \in Contents
  /\ image = [c \in Contents |-> None]
  /\ poisoned = {}
  /\ pc = [r \in Runs |-> "start"]
  /\ mode = [r \in Runs |-> "run"]
  /\ attempt = [r \in Runs |-> 1]
  /\ tag = [r \in Runs |-> None]
  /\ built = [r \in Runs |-> None]
  /\ keep = [r \in Runs |-> {}]
  /\ victims = [r \in Runs |-> {}]
  /\ reservation = [r \in Runs |-> "none"]
  /\ early = [r \in Runs |-> {}]

\* The containers that exist, and the tags they run (in_use_refs).
Containers == {q \in Runs : pc[q] = "running"}
Reserved   == {q \in Runs : reservation[q] = "fresh"}
InUse      == {tag[q] : q \in Containers}

Goto(r, place) == pc' = [pc EXCEPT ![r] = place]
-----------------------------------------------------------------------------
\* A process is started: a `run' (IfMissing) or a `build' (Force).
Start(r) ==
  /\ pc[r] = "start"
  /\ \E m \in {"run", "build"} : mode' = [mode EXCEPT ![r] = m]
  /\ Goto(r, "resolve")
  /\ UNCHANGED <<fileVars, image, attempt, tag, built, keep, victims, early>>

\* resolve: the tag is the content's.  Files that stay unreadable through the
\* retries of hash_with_retry are an error.  The first attempt of a `run'
\* asks for the image before it builds one; a retry does not.
Resolve(r) ==
  /\ pc[r] = "resolve"
  /\ \/ /\ content # None
        /\ tag' = [tag EXCEPT ![r] = content]
        /\ Goto(r, IF mode[r] = "run" /\ attempt[r] = 1 THEN "exists" ELSE "build")
     \/ /\ content = None
        /\ Goto(r, "over")
        /\ UNCHANGED tag
  /\ UNCHANGED <<fileVars, image, mode, attempt, built, keep, victims, early>>

\* container::image_exists; an image list that fails reads as `no'.
ImageExists(r) ==
  /\ pc[r] = "exists"
  /\ \/ image[tag[r]] # None /\ Goto(r, "record")
     \/ (image[tag[r]] = None \/ "cli" \in faults) /\ Goto(r, "build")
  /\ UNCHANGED <<fileVars, image, runVars>>

\* is_poisoned; a record that cannot be read counts as no record.
IsPoisoned(r) ==
  /\ pc[r] = "record"
  /\ \/ tag[r] \in poisoned /\ Goto(r, "build")
     \/ (tag[r] \notin poisoned \/ "state" \in faults) /\ Goto(r, "reserve")
  /\ UNCHANGED <<fileVars, image, runVars>>
-----------------------------------------------------------------------------
\* `container build' reads the Containerfile and its context ...
BuildReads(r) ==
  /\ pc[r] = "build"
  /\ "builders" \in faults \/
       \A q \in Runs \ {r} : pc[q] \in Building \ {"build"} => tag[q] # tag[r]
  /\ built' = [built EXCEPT ![r] = content]
  /\ Goto(r, IF content = None THEN "over" ELSE "publish")
  /\ UNCHANGED <<fileVars, image, mode, attempt, tag, keep, victims, early>>

\* ... and leaves the image under the tag, or fails and leaves nothing.
Publish(r) ==
  /\ pc[r] = "publish"
  /\ built' = [built EXCEPT ![r] = None]
  /\ \/ /\ image' = [image EXCEPT ![tag[r]] = built[r]]
        /\ Goto(r, "verify")
     \/ /\ "cli" \in faults
        /\ Goto(r, "over")
        /\ UNCHANGED image
  /\ UNCHANGED <<fileVars, mode, attempt, tag, keep, victims, early>>

\* The files are read again; anything but the content of the tag, files that
\* cannot be read included, poisons the build.
Verify(r) ==
  /\ pc[r] = "verify"
  /\ Goto(r, IF content = tag[r] THEN "clear" ELSE "mark")
  /\ UNCHANGED <<fileVars, image, runVars>>

\* mark_poisoned, before any attempt to delete.
MarkPoisoned(r) ==
  /\ pc[r] = "mark"
  /\ \/ poisoned' = poisoned \cup {tag[r]}
     \/ "state" \in faults /\ UNCHANGED poisoned
  /\ Goto(r, "inuse")
  /\ UNCHANGED <<content, reservation, image, runVars>>

\* Fault: retries are counted and have no end.
AgainCounted(r) ==
  /\ Goto(r, "resolve")
  /\ attempt' = [attempt EXCEPT ![r] = @ + 1]
  /\ early' = [early EXCEPT ![r] = {}]

\* The attempt is over, poisoned.  ensure_built retries once.
Again(r) ==
  /\ Goto(r, IF attempt[r] = 1 THEN "resolve" ELSE "over")
  /\ attempt' = [attempt EXCEPT ![r] = 2]
  /\ early' = [early EXCEPT ![r] = {}]

\* A tag some container runs, or may run, is kept.
CondemnInUse(r) ==
  /\ pc[r] = "inuse"
  /\ \/ /\ tag[r] \notin InUse
        /\ early' = [early EXCEPT ![r] = Containers]
        /\ Goto(r, "delete")
        /\ UNCHANGED attempt
     \/ /\ tag[r] \in InUse \/ "cli" \in faults
        /\ Again(r)
  /\ UNCHANGED <<fileVars, image, mode, tag, built, keep, victims>>

\* The mistagged image is deleted, and the record with it ...
DeletePoisoned(r) ==
  /\ pc[r] = "delete" /\ image[tag[r]] # None
  /\ image' = [image EXCEPT ![tag[r]] = None]
  /\ Goto(r, "forget")
  /\ UNCHANGED <<fileVars, runVars>>

ForgetPoisoned(r) ==
  /\ pc[r] = "forget"
  /\ \/ poisoned' = poisoned \ {tag[r]}
     \/ "state" \in faults /\ UNCHANGED poisoned
  /\ Again(r)
  /\ UNCHANGED <<content, reservation, image, mode, tag, built, keep, victims>>

\* Fault: the record is cleared whether or not the image is gone.
DeletePoisonedForgets(r) ==
  /\ pc[r] = "delete" /\ (image[tag[r]] = None \/ "cli" \in faults)
  /\ poisoned' = poisoned \ {tag[r]}
  /\ Again(r)
  /\ UNCHANGED <<content, reservation, image, mode, tag, built, keep, victims>>

\* ... or the delete fails, for one because there is no such image any more,
\* and the record stays.
DeletePoisonedFails(r) ==
  /\ pc[r] = "delete" /\ (image[tag[r]] = None \/ "cli" \in faults)
  /\ Again(r)
  /\ UNCHANGED <<fileVars, image, mode, tag, built, keep, victims>>

\* A verified build answers what was recorded against its tag.
ClearPoisoned(r) ==
  /\ pc[r] = "clear"
  /\ \/ poisoned' = poisoned \ {tag[r]}
     \/ "state" \in faults /\ UNCHANGED poisoned
  /\ Goto(r, "snapshot")
  /\ UNCHANGED <<content, reservation, image, runVars>>
-----------------------------------------------------------------------------
\* What ensure_built returns to: cmd_run goes on to launch, cmd_build is done.
Return(r) == Goto(r, IF mode[r] = "run" THEN "reserve" ELSE "over")

\* prune_superseded reads the containers first; not knowing ends the prune.
PruneSnapshot(r) ==
  /\ pc[r] = "snapshot"
  /\ \/ /\ keep' = [keep EXCEPT ![r] = InUse]
        /\ early' = [early EXCEPT ![r] = Containers \cup Reserved]
        /\ Goto(r, "reservations")
     \/ /\ "cli" \in faults
        /\ Return(r)
        /\ UNCHANGED <<keep, early>>
  /\ UNCHANGED <<fileVars, image, mode, attempt, tag, built, victims>>

\* Fault: the reservations replace the containers instead of adding to them.
PruneReservationsOnly(r) ==
  /\ pc[r] = "reservations"
  /\ \/ /\ keep' = [keep EXCEPT ![r] = {tag[q] : q \in Reserved}]
        /\ reservation' = [q \in Runs |-> IF reservation[q] = "aged" THEN "none"
                                          ELSE reservation[q]]
        /\ Goto(r, "list")
     \/ /\ "state" \in faults
        /\ Return(r)
        /\ UNCHANGED <<keep, reservation>>
  /\ UNCHANGED <<content, poisoned, image, mode, attempt, tag, built, victims, early>>

\* reserved_tags: what is reserved is kept as well, what has aged is swept;
\* a listing that fails reads as no reservations, and without a directory
\* there is no prune.
PruneReservations(r) ==
  /\ pc[r] = "reservations"
  /\ \/ /\ keep' = [keep EXCEPT ![r] = @ \cup {tag[q] : q \in Reserved}]
        /\ reservation' = [q \in Runs |-> IF reservation[q] = "aged" THEN "none"
                                          ELSE reservation[q]]
        /\ Goto(r, "list")
     \/ /\ "unread" \in faults
        /\ Goto(r, "list")
        /\ UNCHANGED <<keep, reservation>>
     \/ /\ "state" \in faults
        /\ Return(r)
        /\ UNCHANGED <<keep, reservation>>
  /\ UNCHANGED <<content, poisoned, image, mode, attempt, tag, built, victims, early>>

\* prunable_images: every other tag of the workspace that nothing claims.
PruneList(r) ==
  /\ pc[r] = "list"
  /\ \/ /\ victims' = [victims EXCEPT ![r] =
                         {c \in Contents : image[c] # None} \ (keep[r] \cup {tag[r]})]
        /\ Goto(r, "prune")
     \/ /\ "cli" \in faults
        /\ Return(r)
        /\ UNCHANGED victims
  /\ keep' = [keep EXCEPT ![r] = {}]
  /\ UNCHANGED <<fileVars, image, mode, attempt, tag, built, early>>

\* One image is deleted, or is not.
PruneOne(r) ==
  /\ pc[r] = "prune"
  /\ \E c \in victims[r] :
       /\ victims' = [victims EXCEPT ![r] = @ \ {c}]
       /\ \/ image' = [image EXCEPT ![c] = None]
          \/ "cli" \in faults /\ UNCHANGED image
  /\ UNCHANGED <<fileVars, pc, mode, attempt, tag, built, keep, early>>

PruneDone(r) ==
  /\ pc[r] = "prune" /\ victims[r] = {}
  /\ early' = [early EXCEPT ![r] = {}]
  /\ Return(r)
  /\ UNCHANGED <<fileVars, image, mode, attempt, tag, built, keep, victims>>
-----------------------------------------------------------------------------
\* reserve_tag, a hint the run does without when it cannot be written.
Reserve(r) ==
  /\ pc[r] = "reserve"
  /\ \/ reservation' = [reservation EXCEPT ![r] = "fresh"]
     \/ "state" \in faults /\ UNCHANGED reservation
  /\ Goto(r, "launch")
  /\ UNCHANGED <<content, poisoned, image, runVars>>

\* After naming the tab and preparing the bridge the process becomes
\* `container run', which fails without the image.
Launch(r) ==
  /\ pc[r] = "launch"
  /\ Goto(r, IF image[tag[r]] # None THEN "running" ELSE "over")
  /\ UNCHANGED <<fileVars, image, runVars>>

\* The container ends and --rm removes it.
ContainerEnds(r) ==
  /\ pc[r] = "running"
  /\ Goto(r, "over")
  /\ UNCHANGED <<fileVars, image, runVars>>

\* Killed.  Without "kill", not between a build and what verifies it.
Die(r) ==
  /\ pc[r] \notin Ended \cup {"start"}
  /\ "kill" \in faults \/ pc[r] \notin {"verify", "mark"}
  /\ Goto(r, "over")
  /\ built' = [built EXCEPT ![r] = None]
  /\ keep' = [keep EXCEPT ![r] = {}]
  /\ victims' = [victims EXCEPT ![r] = {}]
  /\ early' = [early EXCEPT ![r] = {}]
  /\ UNCHANGED <<fileVars, image, mode, attempt, tag>>

\* Five minutes pass.  Without "slow" that is longer than any launch, and
\* than the pause between the two reads of a prune.
Age(r) ==
  /\ reservation[r] = "fresh"
  /\ "slow" \in faults \/
       /\ pc[r] \notin Launching
       /\ \A q \in Runs : pc[q] # "reservations"
  /\ reservation' = [reservation EXCEPT ![r] = "aged"]
  /\ UNCHANGED <<content, poisoned, image, pc, runVars>>

\* The user, an agent or a checkout changes the files; an atomic rewrite can
\* leave a moment with nothing to read.
Edit(c) ==
  /\ c # content
  /\ "aba" \in faults \/
       \A r \in Runs : pc[r] \in {"publish", "verify"} => tag[r] # c
  /\ content' = c
  /\ UNCHANGED <<poisoned, reservation, image, pc, runVars>>
-----------------------------------------------------------------------------
Build(r) ==
  \/ BuildReads(r) \/ Publish(r) \/ Verify(r) \/ MarkPoisoned(r)
  \/ CondemnInUse(r) \/ DeletePoisoned(r) \/ DeletePoisonedFails(r)
  \/ ForgetPoisoned(r) \/ ClearPoisoned(r)

Prune(r) ==
  PruneSnapshot(r) \/ PruneReservations(r) \/ PruneList(r) \/ PruneOne(r) \/ PruneDone(r)

Step(r) ==
  \/ Resolve(r) \/ ImageExists(r) \/ IsPoisoned(r)
  \/ Build(r) \/ Prune(r)
  \/ Reserve(r) \/ Launch(r)

Next ==
  /\ \/ \E r \in Runs : Start(r) \/ Step(r) \/ ContainerEnds(r) \/ Die(r) \/ Age(r)
     \/ \E c \in Contents \cup {None} : Edit(c)
  /\ UNCHANGED faults

Spec == Init /\ [][Next]_vars
-----------------------------------------------------------------------------
\* No image sits under a tag it was not built from without a record saying so,
\* but for the moment before the build that put it there is verified: what the
\* next `run' is handed on the strength of the tag is what the tag says
\* (try_build, delete_poisoned, issue #103). Not so where content comes back to
\* a tag during its build, two processes build one tag, a build is never
\* verified, or the record cannot be kept.
MistaggedIsRecorded ==
  faults \cap {"aba", "builders", "kill", "state"} = {} =>
    \A c \in Contents :
      image[c] \notin {None, c} =>
        \/ c \in poisoned
        \/ \E r \in Runs : tag[r] = c /\ pc[r] \in {"verify", "mark"}

\* r deletes the image under c.
Deletes(r, c) ==
  /\ image[c] # None /\ image'[c] = None
  /\ pc[r] \in {"delete", "prune"}
  /\ pc'[r] # pc[r] \/ victims'[r] # victims[r]

\* No image is deleted under a launch or a container that had claimed it, by
\* its reservation or by existing, when the deleting process began to look for
\* claims: neither by a prune nor by the deletion of a poisoned build, whatever
\* the run does between its reservation and its container (issue #88). Not so
\* for a launch slower than its grace, nor where reservations cannot be read.
ClaimedImageStays ==
  [][faults \cap {"slow", "unread"} = {} =>
       \A r \in Runs, c \in Contents : Deletes(r, c) =>
         \A q \in early[r] : pc[q] \in {"launch", "running"} => tag[q] # c]_vars

\* The deletion of a poisoned build spares an image whose launch is reserved at
\* that moment (cmd_run: `Nothing in container list speaks for the image through
\* that window - the reservation does').
CondemnSparesReserved ==
  [][\A r \in Runs, c \in Contents :
       (pc[r] = "delete" /\ Deletes(r, c)) =>
         \A q \in Reserved : pc[q] = "launch" => tag[q] # c]_vars
=============================================================================
