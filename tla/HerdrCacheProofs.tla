---------------------------- MODULE HerdrCacheProofs ----------------------------
(***************************************************************************)
(* What the cache of the herdr binary promises, for any number of          *)
(* processes and of damages: only the asset is ever trusted, and a run     *)
(* that was given an undamaged cache keeps its binary.                     *)
(***************************************************************************)
EXTENDS HerdrCache, TLAPS

\* A recorded hash, read or not, is the asset's.
OnlyAsset ==
  /\ sidecar \in {None, Asset}
  /\ \A r \in Runs : recorded[r] \in {None, Asset} /\ tmp[r] \in {None, Asset}

\* With nothing damaged, a binary is in place only after its hash is, and
\* stays: no process that looked at it has a reason to remove it.
Undamaged ==
  damages = 0 =>
    /\ bin \in {None, sidecar}
    /\ \A r \in Runs :
         /\ pc[r] # "remove"
         /\ pc[r] \in {"record", "compare", "ok"} => bin = Asset
         /\ pc[r] = "compare" => recorded[r] = Asset
         /\ pc[r] = "publish" => sidecar = Asset

CInv == TypeOK /\ OnlyAsset /\ Undamaged

LEMMA CacheInit == Init => CInv
BY HerdrCacheAssumption DEF Init, CInv, TypeOK, Content, OnlyAsset, Undamaged

LEMMA CacheStep ==
  ASSUME CInv, [Next]_vars
  PROVE  CInv'
<1> USE HerdrCacheAssumption DEF CInv, TypeOK, Content, OnlyAsset, Undamaged, Goto
<1>1. CASE UNCHANGED vars
  BY <1>1 DEF vars
<1>2. CASE Damage
  BY <1>2 DEF Damage
<1>3. ASSUME NEW r \in Runs, Begin(r) \/ Exists(r) PROVE CInv'
  BY <1>3 DEF Begin, Exists
<1>4. ASSUME NEW r \in Runs, ReadRecord(r) \/ Compare(r) PROVE CInv'
  BY <1>4 DEF ReadRecord, Compare
<1>5. ASSUME NEW r \in Runs, Remove(r) \/ Download(r) PROVE CInv'
  BY <1>5 DEF Remove, Download
<1>6. ASSUME NEW r \in Runs, Record(r) \/ Publish(r) PROVE CInv'
  BY <1>6 DEF Record, Publish
<1>7. ASSUME NEW r \in Runs, Leave(r) PROVE CInv'
  BY <1>7 DEF Leave
<1> QED
  BY <1>1, <1>2, <1>3, <1>4, <1>5, <1>6, <1>7 DEF Next, Ensure

\* What ensure_linux_herdr reads and writes keeps its type; a process has a
\* download exactly while it has yet to publish it.
THEOREM CacheTypeCorrect == Spec => []TypeOK
<1>1. CInv => TypeOK
  BY DEF CInv
<1> QED
  BY <1>1, CacheInit, CacheStep, PTL DEF Spec

\* A binary the next run would trust is the asset: the hash of a download is
\* the only thing ever recorded (ensure_linux_herdr, cache_verified).
THEOREM TrustHolds == Spec => []TrustedIsAsset
<1>1. CInv => TrustedIsAsset
  BY DEF CInv, OnlyAsset, TrustedIsAsset
<1> QED
  BY <1>1, CacheInit, CacheStep, PTL DEF Spec

\* A run that was given the directory keeps the binary, whatever the other
\* processes fill, repair or leave half done (ensure_linux_herdr).
THEOREM ReturnedStays == Spec => []ReturnedIsThere
<1>1. CInv => ReturnedIsThere
  BY DEF CInv, Undamaged, ReturnedIsThere
<1> QED
  BY <1>1, CacheInit, CacheStep, PTL DEF Spec
=============================================================================
