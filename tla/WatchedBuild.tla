----------------------------- MODULE WatchedBuild -----------------------------
(***************************************************************************)
(* One pall8t process getting its image (ensure_built, src/src/image.rs),  *)
(* file by file: which Containerfile and which watched files go into the   *)
(* hash, how they are read, retried and read again while they are edited,  *)
(* and which references of the runtime's image list it deletes after.      *)
(* ImageLifecycle has the races between such processes, and takes all the  *)
(* files for one content that is read at once.                             *)
(*                                                                         *)
(* A file is its version and what its path leads to; an edit moves the     *)
(* version on, and what was read is the function from files to versions    *)
(* that the hash is made of.                                               *)
(***************************************************************************)
EXTENDS ImageRefs, Runtime, FiniteSets, FiniteSetsExt

CONSTANTS
  Watched,      \* the files `container.watch' may name, in the order of their names
  Configs,      \* [given, watch]: whether a Containerfile is configured, and
                \* the entries of `container.watch', a sequence of [path, rel]
  WatchMaxFiles,
  Attempts,     \* ATTEMPTS of hash_with_retry
  Owner,        \* this user's uid and gid
  Stores,       \* what earlier commands may have left: [images, poisoned], the
                \* images [ref, content] with a normalized ref
  MaxVersion    \* bound: of every file

ASSUME WatchAssumption ==
  /\ Watched \in Seq(STRING) /\ Attempts \in Nat \ {0} /\ WatchMaxFiles \in Nat
  /\ MaxVersion \in Nat
  /\ \A s \in Stores : IsFiniteSet(s.images)
  /\ \A s \in Stores : \A i, j \in s.images :
       /\ i.ref = ImageTagHashed(i.ref.base, i.ref.owner, i.ref.hash)
       /\ i.ref = j.ref => i = j
       /\ i.ref.owner = Owner /\ i.ref.hash \notin {None, i.content} => i.ref \in s.poisoned

VARIABLES
  disk,      \* what each path leads to
  images,    \* the image store
  poisoned,  \* the tags recorded as not matching their content
  claims,    \* the images containers and reservations speak for
  pc,
  mode,      \* IfMissing or Force
  config,
  build,     \* what is being built: [base, files]
  reading,   \* [got, attempt]: the files being read
  hash,      \* what `resolve' hashed
  built,     \* what the builder has read
  retry,     \* whether this is the second try
  victims    \* the references a prune has yet to delete

vars == <<disk, images, poisoned, claims, pc, mode, config, build, reading,
          hash, built, retry, victims>>

\* The Containerfiles of the project and of ~/.pall8t, the latter never edited.
Project == "Containerfile"
Default == "default Containerfile"
Files   == {Project, Default} \cup ToSet(Watched)

\* What a path leads to: a file, nothing for the moment, or what is refused
\* among the watched files: no regular file, or over WATCH_MAX_TOTAL_BYTES.
Kinds == {"file", "gone", "refused"}

Versions == UNION {[F -> 0 .. MaxVersion] : F \in SUBSET Files}
Nothing  == [f \in {} |-> 0]

Tag == ImageTagHashed(build.base, Owner, hash)

Mistagged(image) == image.ref.owner = Owner /\ image.ref.hash \notin {None, image.content}

TypeOK ==
  /\ disk \in [Files -> [version : 0 .. MaxVersion, is : Kinds]]
  /\ \A i \in images : i.ref = NormalizeRef(i.ref)
  /\ \A i, j \in images : i.ref = j.ref => i = j
  /\ pc \in {"resolve", "hash", "exists", "build", "verify",
             "condemn", "clear", "prune", "delete", "over"}
  /\ reading.got \in Versions /\ reading.attempt \in 1 .. Attempts
  /\ hash \in Versions /\ built \in Versions
  /\ retry \in BOOLEAN
  /\ pc \in {"exists", "build", "verify", "condemn", "clear"}
       => DOMAIN hash = build.files
  \* No two references of a prune name one image: the second delete would fail.
  /\ \A r, s \in victims : NormalizeRef(r) = NormalizeRef(s) => r = s

\* An image as the runtime lists it, in one or several spellings.
Spellings(ref) ==
  {ref, [ref EXCEPT !.qual = <<"localhost">>, !.digest = TRUE]}

Unread == [got |-> Nothing, attempt |-> 1]

\* A command begins: `run' builds IfMissing, `build' by Force. At most one image
\* is spoken for, by a container, which the runtime lists in a spelling of its
\* own, or by the reservation of another run.
Init ==
  /\ disk = [f \in Files |-> [version |-> 0, is |-> "file"]]
  /\ \E store \in Stores : images = store.images /\ poisoned = store.poisoned
  /\ \/ claims = {}
     \/ \E i \in {j \in images : j.ref.owner = Owner} :
          \/ claims = {[by |-> "reservation", ref |-> i.ref]}
          \/ \E ref \in Spellings(i.ref) \ {i.ref} :
               claims = {[by |-> "container", ref |-> ref]}
  /\ pc = "resolve"
  /\ mode \in {"IfMissing", "Force"} /\ config \in Configs
  /\ build = [base |-> "project", files |-> {}]
  /\ reading = Unread
  /\ hash = Nothing /\ built = Nothing /\ retry = FALSE
  /\ victims = {}

Goto(place) == pc' = place
StartReading == reading' = Unread
-----------------------------------------------------------------------------
\* normalize_watch_path: what an entry names, or None where it is refused.
WatchPath(entry) ==
  IF entry.path \in {"empty", "tilde", "up", "absolute"} THEN None ELSE entry.rel

\* resolve_watch_paths: the files, once each, or None. They are sorted: see
\* Before.
WatchFiles(watch) ==
  LET named == {WatchPath(watch[i]) : i \in DOMAIN watch}
  IN IF None \in named \/ Cardinality(named) > WatchMaxFiles THEN None
     ELSE named \cap ToSet(Watched)

\* resolve, up to the hash: is_file is asked once. A configured Containerfile
\* that is not there is an error; one of the project's own gives way to the
\* shared default, unless files are watched.
Resolve ==
  /\ pc = "resolve"
  /\ LET files == WatchFiles(config.watch)
         there == disk[Project].is = "file"
     IN \/ /\ files # None /\ there
           /\ build' = [base |-> "project", files |-> {Project} \cup files]
           /\ Goto("hash")
        \/ /\ files = {} /\ ~ there /\ ~ config.given
           /\ build' = [base |-> "shared", files |-> {Default}]
           /\ Goto("hash")
        \/ /\ files = None \/ (~ there /\ (config.given \/ files # {}))
           /\ Goto("over")
           /\ UNCHANGED build
  /\ StartReading
  /\ UNCHANGED <<disk, images, poisoned, claims, mode, config, hash, built,
                 retry, victims>>
-----------------------------------------------------------------------------
\* try_read_watched, of the next file: only the watched files have a kind and
\* a size to be checked.
Pending == build.files \ DOMAIN reading.got
AllRead == Pending = {}

\* The Containerfile is read first, then the watched files by name.
Before(f, g) ==
  \/ f \in {Project, Default}
  \/ \E i, j \in DOMAIN Watched : i < j /\ Watched[i] = f /\ Watched[j] = g

NextFile(f) == f \in Pending /\ \A g \in Pending \ {f} : Before(f, g)

\* A file's version is added to what was read.
Plus(got, f) ==
  [g \in DOMAIN got \cup {f} |-> IF g = f THEN disk[f].version ELSE got[g]]

Readable(f)   == disk[f].is = "file"
Unreadable(f) == disk[f].is = "gone"
Refused(f)    == disk[f].is = "refused"

ReadFile ==
  /\ pc \in {"hash", "verify"}
  /\ \E f \in Files : /\ NextFile(f) /\ Readable(f)
                      /\ reading' = [got |-> Plus(reading.got, f), attempt |-> reading.attempt]
  /\ UNCHANGED <<disk, images, poisoned, claims, pc, mode, config, build,
                 hash, built, retry, victims>>

\* Fault: the attempts are not counted.
RereadUncounted ==
  /\ pc = "hash" /\ \E f \in Files : NextFile(f) /\ Unreadable(f)
  /\ reading' = [reading EXCEPT !.got = Nothing]
  /\ UNCHANGED <<disk, images, poisoned, claims, pc, mode, config, build,
                 hash, built, retry, victims>>

\* hash_with_retry: a miss begins the whole set again, until the last attempt.
Reread ==
  /\ pc = "hash" /\ \E f \in Files : NextFile(f) /\ Unreadable(f)
  /\ IF reading.attempt < Attempts
     THEN reading' = [got |-> Nothing, attempt |-> reading.attempt + 1] /\ UNCHANGED pc
     ELSE Goto("over") /\ UNCHANGED reading
  /\ UNCHANGED <<disk, images, poisoned, claims, mode, config, build, hash,
                 built, retry, victims>>

\* What a retry could not cure is an error at once.
RefuseFile ==
  /\ pc = "hash" /\ \E f \in Files : NextFile(f) /\ Refused(f)
  /\ Goto("over")
  /\ UNCHANGED <<disk, images, poisoned, claims, mode, config, build, reading,
                 hash, built, retry, victims>>

\* The set is read: the tag is known. A retry does not ask for the image.
Hash ==
  /\ pc = "hash" /\ AllRead
  /\ hash' = reading.got
  /\ Goto(IF mode = "IfMissing" /\ ~ retry THEN "exists" ELSE "build")
  /\ built' = Nothing
  /\ StartReading
  /\ UNCHANGED <<disk, images, poisoned, claims, mode, config, build, retry,
                 victims>>
-----------------------------------------------------------------------------
\* A list of them, in some order.
Listed(S) == FoldSet(LAMBDA x, list : Append(list, x), << >>, S)

\* What `container image list' shows.
ImageLists ==
  LET refs == {i.ref : i \in images}
      all  == UNION {Spellings(r) : r \in refs}
  IN {Listed(refs), Listed(all), Listed(all \ refs)}

\* image_exists and is_poisoned; a list that fails reads as `no'.
Exists ==
  /\ pc = "exists"
  /\ \/ \E list \in ImageLists :
          Goto(IF ImageExists(list, Tag) /\ Tag \notin poisoned THEN "over" ELSE "build")
     \/ Goto("build")
  /\ UNCHANGED <<disk, images, poisoned, claims, mode, config, build, reading,
                 hash, built, retry, victims>>

\* `container build' reads the files one by one in its own time, and fails on
\* one that is not there; what pall8t refuses it may read or not.
BuilderReads ==
  /\ pc = "build" /\ DOMAIN built # build.files
  /\ \E f \in build.files \ DOMAIN built :
       \/ /\ ~ Unreadable(f)
          /\ built' = Plus(built, f)
          /\ UNCHANGED pc
       \/ /\ ~ Readable(f)
          /\ Goto("over")
          /\ UNCHANGED built
  /\ UNCHANGED <<disk, images, poisoned, claims, mode, config, build, reading,
                 hash, retry, victims>>

\* ... and leaves an image under the tag, in the place of one that had it.
Publish ==
  /\ pc = "build" /\ DOMAIN built = build.files
  /\ images' = {i \in images : i.ref # Tag} \cup {[ref |-> Tag, content |-> built]}
  /\ StartReading
  /\ built' = Nothing
  /\ Goto("verify")
  /\ UNCHANGED <<disk, poisoned, claims, mode, config, build, hash, retry,
                 victims>>

\* Fault: what cannot be read again is taken to be unchanged.
VerifyUnread ==
  /\ pc = "verify"
  /\ \/ AllRead /\ Goto(IF reading.got = hash THEN "clear" ELSE "condemn")
     \/ \E f \in Files : NextFile(f) /\ Unreadable(f) /\ Goto("clear")
     \/ \E f \in Files : NextFile(f) /\ Refused(f) /\ Goto("condemn")
  /\ UNCHANGED <<disk, images, poisoned, claims, mode, config, build, reading,
                 hash, built, retry, victims>>

\* try_build: the whole set, read again, has to be what was hashed; one miss,
\* or a file that is refused, is as bad as a change.
Verify ==
  /\ pc = "verify"
  /\ \/ AllRead /\ Goto(IF reading.got = hash THEN "clear" ELSE "condemn")
     \/ \E f \in Files : NextFile(f) /\ ~ Readable(f) /\ Goto("condemn")
  /\ UNCHANGED <<disk, images, poisoned, claims, mode, config, build, reading,
                 hash, built, retry, victims>>
-----------------------------------------------------------------------------
\* What `container list' may say of the containers there are: all of it, or
\* nothing pall8t can read, or one container without its image.
Row(image) ==
  [id |-> "c", state |-> "running", image |-> image, labelled |-> TRUE, prefixed |-> TRUE]

ContainerRows == {Row(c.ref) : c \in {d \in claims : d.by = "container"}}

ContainerLists ==
  {[kind |-> "rows", rows |-> Listed(ContainerRows)], [kind |-> "garbled", rows |-> << >>]}
  \cup {[kind |-> "rows", rows |-> Listed((ContainerRows \ {r}) \cup {Row(None)})] :
          r \in ContainerRows}

\* delete_poisoned, then the one retry, or the error.
Condemn ==
  /\ pc = "condemn"
  /\ \E list \in ContainerLists :
       LET inUse == InUseRefs(list)
       IN \/ /\ inUse # None /\ ~ InUseContains(inUse, Tag)
             /\ images' = {i \in images : i.ref # Tag}
             /\ poisoned' = poisoned \ {Tag}
          \* Kept: it is used, nobody knows, or the delete failed.
          \/ /\ poisoned' = poisoned \cup {Tag}
             /\ UNCHANGED images
  /\ Goto(IF retry THEN "over" ELSE "resolve")
  /\ retry' = TRUE
  /\ UNCHANGED <<disk, claims, mode, config, build, reading, hash, built, victims>>

\* clear_poisoned
Clear ==
  /\ pc = "clear"
  /\ poisoned' = poisoned \ {Tag}
  /\ Goto("prune")
  /\ UNCHANGED <<disk, images, claims, mode, config, build, reading, hash,
                 built, retry, victims>>

\* prune_superseded, up to the first delete; not knowing ends it.
Prune ==
  /\ pc = "prune"
  /\ \/ \E containers \in ContainerLists, list \in ImageLists :
          LET inUse    == InUseRefs(containers)
              reserved == {c.ref : c \in {d \in claims : d.by = "reservation"}}
          IN /\ inUse # None
             /\ victims' = FilterPrunable(list, build.base, Tag, Owner, inUse \cup reserved)
             /\ Goto("delete")
     \/ Goto("over") /\ UNCHANGED victims
  /\ UNCHANGED <<disk, images, poisoned, claims, mode, config, build, reading,
                 hash, built, retry>>

\* One is deleted or is not; either way the next one is tried.
DeleteOne ==
  /\ pc = "delete"
  /\ \E r \in victims :
       /\ victims' = victims \ {r}
       /\ \/ images' = {i \in images : i.ref # NormalizeRef(r)}
          \/ UNCHANGED images
  /\ UNCHANGED <<disk, poisoned, claims, pc, mode, config, build, reading, hash,
                 built, retry>>

PruneEnds ==
  /\ pc = "delete" /\ victims = {}
  /\ Goto("over")
  /\ UNCHANGED <<disk, images, poisoned, claims, mode, config, build, reading,
                 hash, built, retry, victims>>
-----------------------------------------------------------------------------
\* The rest of the world. What becomes of a file while nobody looks at it shows
\* when somebody does.
LookedAt ==
  IF pc = "resolve" THEN Files
  ELSE IF pc \in {"hash", "build", "verify"} THEN build.files ELSE {}

\* A file is edited, which moves its version on.
Edit(f) ==
  /\ f \in LookedAt \ {Default} /\ disk[f].version < MaxVersion
  /\ disk' = [disk EXCEPT ![f] = [version |-> @.version + 1, is |-> "file"]]
  /\ UNCHANGED <<images, poisoned, claims, pc, mode, config, build, reading,
                 hash, built, retry, victims>>

\* It vanishes and comes back, as often as it likes; a watched path may come to
\* lead to something that is no file pall8t would read.
Flap(f, kind) ==
  /\ f \in LookedAt \ {Default} /\ kind # disk[f].is
  /\ kind \in IF f = Project THEN {"file", "gone"} ELSE Kinds
  /\ disk' = [disk EXCEPT ![f] = [version |-> @.version, is |-> kind]]
  /\ UNCHANGED <<images, poisoned, claims, pc, mode, config, build, reading,
                 hash, built, retry, victims>>
-----------------------------------------------------------------------------
Reads  == ReadFile \/ Reread \/ RefuseFile \/ Hash
Builds == Exists \/ BuilderReads \/ Publish \/ Verify \/ Condemn \/ Clear
Prunes == Prune \/ DeleteOne \/ PruneEnds
Step   == Resolve \/ Reads \/ Builds \/ Prunes
World  == \E f \in Files : Edit(f) \/ \E kind \in Kinds : Flap(f, kind)

Next == Step \/ World

Spec == Init /\ [][Next]_vars

\* The process goes on; the files may go on changing.
FairSpec == Spec /\ WF_vars(Step)
-----------------------------------------------------------------------------
\* An image sits under a tag of this user's only if every file that went into
\* it was the one that went into the tag's hash, though the hash, the builder
\* and the second read saw the files one after the other and at different
\* times, or the tag is recorded as bad, or its build is not verified yet
\* (try_build). It takes the files that were edited to be told from what they
\* were: an edit that is taken back is not seen.
VerifiedIsBuilt ==
  \A i \in images : Mistagged(i) =>
    \/ i.ref \in poisoned
    \/ i.ref = Tag /\ pc \in {"verify", "condemn"}

\* What a prune deletes is an image of the same base and the same user's, and
\* neither what was just built nor what a container or a reservation speaks
\* for, in whatever spelling any of the lists had it (filter_prunable).
PrunedIsSuperseded ==
  [][pc = "delete" =>
       \A i \in images \ images' :
         /\ i.ref.base = build.base /\ i.ref.owner = Owner
         /\ i.ref # Tag
         /\ \A c \in claims : NormalizeRef(c.ref) # i.ref]_vars

\* Whatever the files do under it, a command comes to an end: misses are
\* retried and mismatches rebuilt a bounded number of times (hash_with_retry,
\* ensure_built).
BuildEnds == <>(pc = "over")
=============================================================================
