------------------------------ MODULE HerdrCache ------------------------------
(***************************************************************************)
(* The cache of the Linux herdr binary for one herdr version, which every  *)
(* bridged run verifies, repairs or fills (ensure_linux_herdr of           *)
(* src/src/herdr.rs): the binary in the directory that is mounted, its     *)
(* recorded hash beside that directory, and each process's download.       *)
(*                                                                         *)
(* A file is modelled by its content, a hash by the content it is of.      *)
(***************************************************************************)
EXTENDS Naturals

CONSTANTS
  Runs,        \* processes that call ensure_linux_herdr, any number of times
  Asset,       \* the release asset of this version
  Damaged,     \* any other content
  None,
  MaxDamages   \* bound: how often the cached binary goes bad

ASSUME HerdrCacheAssumption ==
  /\ Asset # Damaged /\ None \notin {Asset, Damaged}
  /\ MaxDamages \in Nat

VARIABLES
  bin,       \* <version>/herdr
  sidecar,   \* <version>.sha256
  pc,        \* where each process is
  recorded,  \* the hash it read from the sidecar
  tmp,       \* the file it is downloading to, named after its pid
  damages

vars == <<bin, sidecar, pc, recorded, tmp, damages>>

Content == {Asset, Damaged}

TypeOK ==
  /\ bin \in Content \cup {None}
  /\ sidecar \in Content \cup {None}
  /\ pc \in [Runs -> {"idle", "exists", "record", "compare", "remove", "download",
                      "digest", "publish", "ok"}]
  /\ recorded \in [Runs -> Content \cup {None}]
  /\ tmp \in [Runs -> Content \cup {None}]
  /\ \A r \in Runs : tmp[r] # None <=> pc[r] \in {"digest", "publish"}
  /\ damages \in 0 .. MaxDamages

Init ==
  /\ bin = None /\ sidecar = None
  /\ pc = [r \in Runs |-> "idle"]
  /\ recorded = [r \in Runs |-> None]
  /\ tmp = [r \in Runs |-> None]
  /\ damages = 0

Goto(r, place) == pc' = [pc EXCEPT ![r] = place]
-----------------------------------------------------------------------------
\* The host's herdr has told its version, and with it the paths.
Begin(r) ==
  /\ pc[r] = "idle"
  /\ Goto(r, "exists")
  /\ UNCHANGED <<bin, sidecar, recorded, tmp, damages>>

Exists(r) ==
  /\ pc[r] = "exists"
  /\ Goto(r, IF bin # None THEN "record" ELSE "download")
  /\ UNCHANGED <<bin, sidecar, recorded, tmp, damages>>

\* cache_verified: the recorded hash is read first ...
ReadRecord(r) ==
  /\ pc[r] = "record"
  /\ recorded' = [recorded EXCEPT ![r] = sidecar]
  /\ Goto(r, IF sidecar = None THEN "remove" ELSE "compare")
  /\ UNCHANGED <<bin, sidecar, tmp, damages>>

\* ... then the binary, which may be gone or another by now.
Compare(r) ==
  /\ pc[r] = "compare"
  /\ Goto(r, IF bin = recorded[r] THEN "ok" ELSE "remove")
  /\ recorded' = [recorded EXCEPT ![r] = None]
  /\ UNCHANGED <<bin, sidecar, tmp, damages>>

\* What did not verify is removed, whatever is there by now.
Remove(r) ==
  /\ pc[r] = "remove"
  /\ bin' = None
  /\ Goto(r, "download")
  /\ UNCHANGED <<sidecar, recorded, tmp, damages>>

\* curl into a file of this process's own: the whole asset, or an error.
Download(r) ==
  /\ pc[r] = "download"
  /\ \/ tmp' = [tmp EXCEPT ![r] = Asset] /\ Goto(r, "digest")
     \/ Goto(r, "idle") /\ UNCHANGED tmp
  /\ UNCHANGED <<bin, sidecar, recorded, damages>>

\* Fault: the hash of what the cache holds is recorded, if it holds anything.
RecordCached(r) ==
  /\ pc[r] = "digest"
  /\ sidecar' = IF bin = None THEN tmp[r] ELSE bin
  /\ Goto(r, "publish")
  /\ UNCHANGED <<bin, recorded, tmp, damages>>

\* Fault: the hash is not recorded.
RecordNothing(r) ==
  /\ pc[r] = "digest"
  /\ Goto(r, "publish")
  /\ UNCHANGED <<bin, sidecar, recorded, tmp, damages>>

\* The sidecar is renamed into place first ...
Record(r) ==
  /\ pc[r] = "digest"
  /\ sidecar' = tmp[r]
  /\ Goto(r, "publish")
  /\ UNCHANGED <<bin, recorded, tmp, damages>>

\* Fault: the download is copied into place, and stays.
PublishCopy(r) ==
  /\ pc[r] = "publish"
  /\ bin' = tmp[r]
  /\ Goto(r, "ok")
  /\ UNCHANGED <<sidecar, recorded, tmp, damages>>

\* ... and then the binary.
Publish(r) ==
  /\ pc[r] = "publish"
  /\ bin' = tmp[r]
  /\ tmp' = [tmp EXCEPT ![r] = None]
  /\ Goto(r, "ok")
  /\ UNCHANGED <<sidecar, recorded, damages>>

\* An error on the way, a kill, or the end of a run that was given the
\* directory; a file half downloaded is written over by the next of its name.
Leave(r) ==
  /\ pc[r] # "idle"
  /\ Goto(r, "idle")
  /\ recorded' = [recorded EXCEPT ![r] = None]
  /\ tmp' = [tmp EXCEPT ![r] = None]
  /\ UNCHANGED <<bin, sidecar, damages>>

\* The cached binary changes on disk.
Damage ==
  /\ bin = Asset /\ damages < MaxDamages
  /\ bin' = Damaged
  /\ damages' = damages + 1
  /\ UNCHANGED <<sidecar, pc, recorded, tmp>>
-----------------------------------------------------------------------------
Ensure(r) ==
  \/ Exists(r) \/ ReadRecord(r) \/ Compare(r) \/ Remove(r)
  \/ Download(r) \/ Record(r) \/ Publish(r)

Next == Damage \/ \E r \in Runs : Begin(r) \/ Ensure(r) \/ Leave(r)

Spec == Init /\ [][Next]_vars
-----------------------------------------------------------------------------
\* A binary the next run would trust is the asset, whatever crashed or went bad
\* between the two renames (ensure_linux_herdr: `never a trusted-but-wrong
\* state').
TrustedIsAsset == (bin # None /\ bin = sidecar) => bin = Asset

\* A run that was given the directory has the binary in it for as long as it
\* runs, whoever else fills or verifies the cache meanwhile, if nothing has
\* damaged it (ensure_linux_herdr: `whichever rename lands last is equivalent').
ReturnedIsThere ==
  damages = 0 => \A r \in Runs : pc[r] = "ok" => bin = Asset

=============================================================================
