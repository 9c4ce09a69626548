-------------------------- MODULE WatchedBuildProofs --------------------------
(***************************************************************************)
(* A verified image was built from the content its tag names: whatever the *)
(* files are and however often they are edited. The files are hashed, read *)
(* by the builder and read again one after the other, at times of their    *)
(* own; since a version only grows, what the builder read of a file lies   *)
(* between the other two. And what a prune deletes after that is nothing   *)
(* but superseded builds, whatever there is in the store and however the   *)
(* runtime lists it.                                                       *)
(***************************************************************************)
EXTENDS WatchedBuild, FiniteSetTheorems, TLAPS

\* What may be assumed of `got', read from the files being built.
ReadSoFar(got) ==
  /\ got \in [DOMAIN got -> Nat] /\ DOMAIN got \subseteq build.files
  /\ \A f \in DOMAIN got : got[f] <= disk[f].version

DiskOK == disk \in [Files -> [version : Nat, is : Kinds]]
FilesOK == build.files \subseteq Files
Reading == pc \in {"hash", "verify"} => ReadSoFar(reading.got)
Hashed ==
  pc \in {"exists", "build", "verify"} =>
    /\ hash \in [build.files -> Nat]
    /\ \A f \in build.files : hash[f] <= disk[f].version
Built ==
  pc \in {"exists", "build"} =>
    ReadSoFar(built) /\ \A f \in DOMAIN built : hash[f] <= built[f]
\* The image that waits to be verified lies between the two reads.
Between ==
  pc = "verify" => \A i \in images : i.ref = Tag =>
    /\ i.content \in [build.files -> Nat]
    /\ \A f \in build.files : hash[f] <= i.content[f] /\ i.content[f] <= disk[f].version
    /\ \A f \in DOMAIN reading.got : i.content[f] <= reading.got[f]
Verified == pc = "clear" => \A i \in images : i.ref = Tag => i.content = hash

IInv ==
  DiskOK /\ FilesOK /\ Reading /\ Hashed /\ Built /\ Between /\ Verified /\ VerifiedIsBuilt
-----------------------------------------------------------------------------
\* The tag carries the hash it was made of, and no build's changes while it lasts.
LEMMA TagHash == Tag.hash = hash
BY DEF Tag, ImageTagHashed, ImageTag

LEMMA TagStays == UNCHANGED <<build, hash>> => Tag' = Tag
BY DEF Tag

\* Reading one more file of the build keeps what is known of what was read.
LEMMA PlusReads ==
  ASSUME DiskOK, FilesOK, NEW got, ReadSoFar(got), NEW f \in build.files
  PROVE  /\ Plus(got, f) \in [DOMAIN Plus(got, f) -> Nat]
         /\ DOMAIN Plus(got, f) = DOMAIN got \cup {f}
         /\ DOMAIN Plus(got, f) \subseteq build.files
         /\ \A g \in DOMAIN Plus(got, f) : Plus(got, f)[g] <= disk[g].version
         /\ Plus(got, f)[f] = disk[f].version
         /\ \A g \in DOMAIN got : g # f => Plus(got, f)[g] = got[g]
<1>1. disk[f].version \in Nat
  BY DEF DiskOK, FilesOK
<1>2. DOMAIN Plus(got, f) = DOMAIN got \cup {f}
  BY DEF Plus
<1>3. \A g \in DOMAIN got \cup {f} :
        Plus(got, f)[g] = IF g = f THEN disk[f].version ELSE got[g]
  BY DEF Plus
<1>4. Plus(got, f) \in [DOMAIN got \cup {f} -> Nat]
  BY <1>1 DEF Plus, ReadSoFar
<1>5. \A g \in DOMAIN got \cup {f} : Plus(got, f)[g] <= disk[g].version
  BY <1>1, <1>3 DEF ReadSoFar
<1> QED
  BY <1>2, <1>3, <1>4, <1>5 DEF ReadSoFar

LEMMA InitIInv == Init => IInv
<1> SUFFICES ASSUME Init PROVE IInv
  OBVIOUS
<1>1. DiskOK
  BY DEF Init, DiskOK, Kinds
<1>2. FilesOK
  BY DEF Init, FilesOK
<1>3. VerifiedIsBuilt
  <2> PICK store \in Stores : images = store.images /\ poisoned = store.poisoned
    BY DEF Init
  <2> QED
    BY WatchAssumption DEF WatchAssumption, VerifiedIsBuilt, Mistagged
<1> QED
  BY <1>1, <1>2, <1>3 DEF Init, IInv, Reading, Hashed, Built, Between, Verified

LEMMA StepIInv ==
  ASSUME IInv, [Next]_vars
  PROVE  IInv'
<1> USE DEF IInv, Goto
<1>1. CASE Resolve
  <2>1. build'.files \subseteq Files
    <3> DEFINE files == WatchFiles(config.watch)
    <3>1. files # None => files \subseteq ToSet(Watched)
      BY DEF WatchFiles
    <3> QED BY <1>1, <3>1 DEF Resolve, Files, FilesOK
  <2>2. reading'.got = Nothing /\ ReadSoFar(Nothing)'
    BY <1>1 DEF Resolve, StartReading, Unread, ReadSoFar, Nothing
  <2>3. VerifiedIsBuilt'
    BY <1>1 DEF Resolve, VerifiedIsBuilt, Mistagged
  <2> QED
    BY <1>1, <2>1, <2>2, <2>3
    DEF Resolve, DiskOK, FilesOK, Reading, Hashed, Built, Between, Verified
<1>2. CASE ReadFile
  <2> USE <1>2 DEF ReadFile
  <2>1. PICK f \in Files :
          /\ NextFile(f)
          /\ reading' = [got |-> Plus(reading.got, f), attempt |-> reading.attempt]
    OBVIOUS
  <2>2. f \in build.files /\ f \notin DOMAIN reading.got /\ ReadSoFar(reading.got)
    BY <2>1 DEF NextFile, Pending, Reading
  <2> DEFINE got == Plus(reading.got, f)
  <2>3. reading'.got = got
    BY <2>1
  <2>4. UNCHANGED <<disk, images, poisoned, pc, build, hash, built>> /\ Tag' = Tag
    BY TagStays
  <2>5. /\ got \in [DOMAIN got -> Nat]
        /\ DOMAIN got = DOMAIN reading.got \cup {f}
        /\ DOMAIN got \subseteq build.files
        /\ \A g \in DOMAIN got : got[g] <= disk[g].version
        /\ got[f] = disk[f].version
        /\ \A g \in DOMAIN reading.got : g # f => got[g] = reading.got[g]
    BY <2>2, PlusReads, Zenon
  <2> HIDE DEF got
  <2>6. ReadSoFar(reading.got)'
    BY <2>3, <2>4, <2>5 DEF ReadSoFar
  <2>7. Between'
    <3>1. SUFFICES ASSUME pc = "verify", NEW i \in images, i.ref = Tag
                   PROVE  \A g \in DOMAIN reading'.got : i.content[g] <= reading'.got[g]
      BY <2>4 DEF Between
    <3>2. i.content[f] <= disk[f].version
      BY <2>2, <3>1 DEF Between
    <3>3. \A g \in DOMAIN reading.got : i.content[g] <= reading.got[g]
      BY <3>1 DEF Between
    <3> QED BY <2>3, <2>5, <3>2, <3>3
  <2>8. DiskOK' /\ FilesOK' /\ Hashed' /\ Built' /\ Verified' /\ VerifiedIsBuilt'
    BY <2>4 DEF DiskOK, FilesOK, Hashed, Built, ReadSoFar, Verified, VerifiedIsBuilt, Mistagged
  <2>9. Reading'
    BY <2>6 DEF Reading
  <2> QED BY <2>7, <2>8, <2>9
<1>3. CASE Reread
  <2>1. ReadSoFar(Nothing)
    BY DEF ReadSoFar, Nothing
  <2> QED
    BY <1>3, <2>1 DEF Reread, DiskOK, FilesOK, Reading, ReadSoFar, Hashed, Built, Between,
       Verified, VerifiedIsBuilt, Mistagged, Tag
<1>4. CASE RefuseFile
  BY <1>4 DEF RefuseFile, DiskOK, FilesOK, Reading, Hashed, Built, Between, Verified,
     VerifiedIsBuilt, Mistagged, Tag
<1>5. CASE Hash
  <2> USE <1>5 DEF Hash
  <2>1. ReadSoFar(reading.got) /\ DOMAIN reading.got = build.files
    BY DEF Reading, ReadSoFar, AllRead, Pending
  <2>2. pc' \in {"exists", "build"} /\ hash' = reading.got
    OBVIOUS
  <2>3. Hashed'
    BY <2>1, <2>2 DEF Hashed, ReadSoFar
  <2>4. Built'
    BY <2>2 DEF Built, ReadSoFar, Nothing
  <2>5. VerifiedIsBuilt'
    BY <2>2 DEF VerifiedIsBuilt, Mistagged
  <2> QED
    BY <2>2, <2>3, <2>4, <2>5 DEF DiskOK, FilesOK, Reading, Between, Verified
<1>6. CASE Exists
  <2>1. pc' \in {"over", "build"}
    BY <1>6 DEF Exists
  <2> QED
    BY <1>6, <2>1 DEF Exists, DiskOK, FilesOK, Reading, Hashed, Built, ReadSoFar, Between,
       Verified, VerifiedIsBuilt, Mistagged
<1>7. CASE BuilderReads
  <2> USE <1>7 DEF BuilderReads
  <2>1. PICK f \in build.files \ DOMAIN built :
          \/ built' = Plus(built, f) /\ pc' = "build"
          \/ pc' = "over" /\ built' = built
    OBVIOUS
  <2>2. ReadSoFar(built) /\ (\A g \in DOMAIN built : hash[g] <= built[g])
    BY DEF Built
  <2>3. hash[f] <= disk[f].version
    BY DEF Hashed
  <2>4. Built'
    <3>1. CASE built' = Plus(built, f)
      <4> DEFINE more == Plus(built, f)
      <4>1. /\ more \in [DOMAIN more -> Nat]
            /\ DOMAIN more = DOMAIN built \cup {f}
            /\ DOMAIN more \subseteq build.files
            /\ \A g \in DOMAIN more : more[g] <= disk[g].version
            /\ more[f] = disk[f].version
            /\ \A g \in DOMAIN built : g # f => more[g] = built[g]
        BY <2>2, PlusReads, Zenon
      <4> HIDE DEF more
      <4>2. built' = more
        BY <3>1 DEF more
      <4>3. ReadSoFar(built)'
        BY <4>1, <4>2 DEF ReadSoFar
      <4>4. \A g \in DOMAIN built' : hash[g] <= built'[g]
        BY <2>2, <2>3, <4>1, <4>2
      <4> QED BY <4>3, <4>4 DEF Built
    <3>2. CASE pc' = "over"
      BY <3>2 DEF Built
    <3> QED BY <2>1, <3>1, <3>2
  <2> QED
    BY <2>1, <2>4 DEF DiskOK, FilesOK, Reading, Hashed, Between, Verified,
       VerifiedIsBuilt, Mistagged
<1>8. CASE Publish
  <2> USE <1>8 DEF Publish
  <2>1. Tag' = Tag
    BY TagStays
  <2>2. \A i \in images' : i.ref = Tag => i.content = built
    OBVIOUS
  <2>3. Between'
    <3>1. ReadSoFar(built) /\ (\A f \in DOMAIN built : hash[f] <= built[f])
      BY DEF Built
    <3> QED
      BY <2>1, <2>2, <3>1 DEF Between, ReadSoFar, StartReading, Unread, Nothing
  <2>4. VerifiedIsBuilt'
    BY <2>1 DEF VerifiedIsBuilt, Mistagged
  <2>5. Reading'
    BY DEF Reading, ReadSoFar, StartReading, Unread, Nothing
  <2> QED
    BY <2>3, <2>4, <2>5 DEF DiskOK, FilesOK, Hashed, Built, Verified
<1>9. CASE Verify
  <2> USE <1>9 DEF Verify
  <2>1. Tag' = Tag
    BY TagStays
  <2>2. pc' = "condemn" \/ (pc' = "clear" /\ AllRead /\ reading.got = hash)
    OBVIOUS
  <2>3. Verified'
    <3> SUFFICES ASSUME pc' = "clear", NEW i \in images, i.ref = Tag
                 PROVE  i.content = hash
      BY <2>1 DEF Verified
    <3>1. AllRead /\ reading.got = hash
      BY <2>2
    <3>2. hash \in [build.files -> Nat] /\ i.content \in [build.files -> Nat]
      BY DEF Hashed, Between
    <3>3. \A f \in build.files : hash[f] <= i.content[f] /\ i.content[f] <= hash[f]
      BY <3>1, <3>2 DEF Between
    <3>4. \A f \in build.files : hash[f] = i.content[f]
      BY <3>2, <3>3
    <3> QED BY <3>2, <3>4
  <2>4. VerifiedIsBuilt'
    <3> SUFFICES ASSUME NEW i \in images, Mistagged(i), i.ref \notin poisoned
                 PROVE  i.ref = Tag /\ pc' = "condemn"
      BY <2>1 DEF VerifiedIsBuilt, Mistagged
    <3>1. i.ref = Tag
      BY DEF VerifiedIsBuilt
    <3>2. i.ref.hash # i.content
      BY DEF Mistagged
    <3>3. pc' # "clear"
      BY <2>1, <2>3, <3>1, <3>2, TagHash DEF Verified
    <3> QED BY <2>2, <3>1, <3>3
  <2> QED
    BY <2>2, <2>3, <2>4 DEF DiskOK, FilesOK, Reading, Hashed, Built, Between
<1>10. CASE Condemn
  <2> USE <1>10 DEF Condemn
  <2>1. \/ images' = {i \in images : i.ref # Tag} /\ poisoned' = poisoned \ {Tag}
        \/ images' = images /\ poisoned' = poisoned \cup {Tag}
    OBVIOUS
  <2>2. pc' \in {"over", "resolve"} /\ pc = "condemn"
    OBVIOUS
  <2>3. VerifiedIsBuilt'
    BY <2>1, <2>2 DEF VerifiedIsBuilt, Mistagged
  <2> QED
    BY <2>2, <2>3 DEF DiskOK, FilesOK, Reading, Hashed, Built, Between, Verified
<1>11. CASE Clear
  <2> USE <1>11 DEF Clear
  <2>1. VerifiedIsBuilt'
    BY TagHash DEF VerifiedIsBuilt, Mistagged, Verified
  <2> QED
    BY <2>1 DEF DiskOK, FilesOK, Reading, Hashed, Built, Between, Verified
<1>12. CASE Prunes
  <2>1. /\ pc \in {"prune", "delete"} /\ pc' \in {"delete", "over"}
        /\ images' \subseteq images
        /\ UNCHANGED <<disk, poisoned, build, reading, hash, built>>
    BY <1>12 DEF Prunes, Prune, DeleteOne, PruneEnds
  <2>2. VerifiedIsBuilt'
    BY <2>1 DEF VerifiedIsBuilt, Mistagged
  <2> QED
    BY <2>1, <2>2 DEF DiskOK, FilesOK, Reading, Hashed, Built, Between, Verified
<1>13. ASSUME NEW f \in Files, Edit(f) \/ \E kind \in Kinds : Flap(f, kind)
       PROVE  IInv'
  <2>1. UNCHANGED <<images, poisoned, pc, build, reading, hash, built>>
    BY <1>13 DEF Edit, Flap
  <2>2. DiskOK' /\ \A g \in Files : disk[g].version <= disk'[g].version
    <3>1. PICK v \in Nat, k \in Kinds :
            disk' = [disk EXCEPT ![f] = [version |-> v, is |-> k]] /\ disk[f].version <= v
      <4>1. disk[f].version \in Nat
        BY DEF DiskOK
      <4>2. CASE Edit(f)
        <5>1. disk' = [disk EXCEPT ![f] = [version |-> disk[f].version + 1, is |-> "file"]]
          BY <4>2 DEF Edit
        <5>2. disk[f].version + 1 \in Nat /\ disk[f].version <= disk[f].version + 1
          BY <4>1
        <5>3. "file" \in Kinds
          BY DEF Kinds
        <5> QED BY <5>1, <5>2, <5>3
      <4>3. ASSUME NEW kind \in Kinds, Flap(f, kind)
            PROVE  \E v \in Nat, k \in Kinds :
                     disk' = [disk EXCEPT ![f] = [version |-> v, is |-> k]] /\ disk[f].version <= v
        <5>1. disk' = [disk EXCEPT ![f] = [version |-> disk[f].version, is |-> kind]]
          BY <4>3 DEF Flap
        <5>2. disk[f].version <= disk[f].version
          BY <4>1
        <5> QED BY <4>1, <5>1, <5>2
      <4> QED BY <1>13, <4>2, <4>3
    <3>2. DiskOK'
      BY <3>1 DEF DiskOK
    <3>3. \A g \in Files : disk[g].version \in Nat
      BY DEF DiskOK
    <3> QED BY <3>1, <3>2, <3>3 DEF DiskOK
  <2>3. \A g \in Files : disk[g].version \in Nat /\ disk'[g].version \in Nat
    BY <2>2 DEF DiskOK
  <2>4. \A got : ReadSoFar(got) => ReadSoFar(got)'
    BY <2>1, <2>2, <2>3 DEF ReadSoFar, FilesOK
  <2>5. Hashed'
    <3> SUFFICES ASSUME pc \in {"exists", "build", "verify"} PROVE Hashed'
      BY <2>1 DEF Hashed
    <3>1. hash \in [build.files -> Nat] /\ \A g \in build.files : hash[g] <= disk[g].version
      BY DEF Hashed
    <3>2. \A g \in build.files : hash[g] <= disk'[g].version
      BY <2>2, <2>3, <3>1 DEF FilesOK
    <3> QED BY <2>1, <3>1, <3>2 DEF Hashed
  <2>6. Between'
    <3> SUFFICES ASSUME pc = "verify", NEW i \in images, i.ref = Tag
                 PROVE  \A g \in build.files : i.content[g] <= disk'[g].version
      BY <2>1 DEF Between, Tag
    <3>1. i.content \in [build.files -> Nat]
          /\ \A g \in build.files : i.content[g] <= disk[g].version
      BY DEF Between
    <3> QED BY <2>2, <2>3, <3>1 DEF FilesOK
  <2>7. Reading' /\ Built'
    BY <2>1, <2>4 DEF Reading, Built
  <2>8. FilesOK' /\ Verified' /\ VerifiedIsBuilt'
    BY <2>1 DEF FilesOK, Verified, VerifiedIsBuilt, Mistagged, Tag
  <2> QED BY <2>2, <2>5, <2>6, <2>7, <2>8
<1>14. CASE UNCHANGED vars
  BY <1>14 DEF vars, DiskOK, FilesOK, Reading, ReadSoFar, Hashed, Built, Between, Verified,
     VerifiedIsBuilt, Mistagged, Tag
<1> QED
  BY <1>1, <1>2, <1>3, <1>4, <1>5, <1>6, <1>7, <1>8, <1>9, <1>10, <1>11, <1>12, <1>13,
     <1>14
  DEF Next, Step, Reads, Builds, World
-----------------------------------------------------------------------------
(***************************************************************************)
(* A listing of a finite set is a sequence of its elements that leaves     *)
(* none out.  The fold behind Listed is a recursive function on the sets   *)
(* below the one that is listed; that there is one, and what it returns,   *)
(* follows from a least set for which it would not be so.                  *)
(***************************************************************************)

LEMMA LeastSubset ==
  ASSUME NEW S, IsFiniteSet(S), NEW C, C \subseteq SUBSET S, NEW M \in C
  PROVE  \E T \in C : \A U \in C : U \subseteq T => U = T
<1>1. IsWellFoundedOn(StrictSubsetOrdering(S), SUBSET S)
  BY FS_FiniteSubsetsOfFinite, FS_StrictSubsetOrderingWellFounded
<1>2. PICK T \in C : \A U \in C : ~ (<<U, T>> \in StrictSubsetOrdering(S))
  BY <1>1, WFMin
<1> QED BY <1>2 DEF StrictSubsetOrdering

\* The element of a set that is listed last, and the sets below it.
Final(s) == CHOOSE x \in s : TRUE
Lists(g, T) ==
  g = [s \in SUBSET T |-> IF s = {} THEN << >> ELSE Append(g[s \ {Final(s)}], Final(s))]

LEMMA FinalIn == ASSUME NEW s, s # {} PROVE Final(s) \in s /\ s \ {Final(s)} # s
BY DEF Final

LEMMA ListsAt ==
  ASSUME NEW T, NEW g, Lists(g, T), NEW s \in SUBSET T
  PROVE  g[s] = IF s = {} THEN << >> ELSE Append(g[s \ {Final(s)}], Final(s))
BY DEF Lists

LEMMA OneListing ==
  ASSUME NEW S, IsFiniteSet(S), NEW T \in SUBSET S, NEW U \in SUBSET S,
         NEW g, Lists(g, T), NEW h, Lists(h, U)
  PROVE  \A s \in SUBSET (T \cap U) : g[s] = h[s]
<1> DEFINE C == {s \in SUBSET (T \cap U) : g[s] # h[s]}
<1> SUFFICES ASSUME C # {} PROVE FALSE
  OBVIOUS
<1>1. PICK s \in C : \A u \in C : u \subseteq s => u = s
  <2>1. C \subseteq SUBSET S
    OBVIOUS
  <2> HIDE DEF C
  <2>2. PICK M \in C : TRUE
    OBVIOUS
  <2> QED BY <2>1, <2>2, LeastSubset
<1>2. s \in SUBSET T /\ s \in SUBSET U /\ g[s] # h[s]
  OBVIOUS
<1>3. s # {}
  BY <1>2, ListsAt
<1>4. s \ {Final(s)} \notin C
  BY <1>1, <1>3, FinalIn
<1>5. g[s \ {Final(s)}] = h[s \ {Final(s)}]
  BY <1>4
<1> QED BY <1>2, <1>3, <1>5, ListsAt

LEMMA SomeListing ==
  ASSUME NEW S, IsFiniteSet(S)
  PROVE  \E g : Lists(g, S)
<1> DEFINE C == {T \in SUBSET S : ~ \E g : Lists(g, T)}
<1> SUFFICES ASSUME C # {} PROVE FALSE
  OBVIOUS
<1>1. PICK T \in C : \A U \in C : U \subseteq T => U = T
  <2>1. C \subseteq SUBSET S
    OBVIOUS
  <2> HIDE DEF C
  <2>2. PICK M \in C : TRUE
    OBVIOUS
  <2> QED BY <2>1, <2>2, LeastSubset
<1> DEFINE G(U) == CHOOSE g : Lists(g, U)
           h == [s \in SUBSET T |->
                   IF s = {} THEN << >>
                   ELSE Append(G(s \ {Final(s)})[s \ {Final(s)}], Final(s))]
<1>2. \A U \in SUBSET T : U # T => Lists(G(U), U)
  BY <1>1
<1> HIDE DEF G
<1>3. ASSUME NEW u \in SUBSET T, u # T PROVE h[u] = G(u)[u]
  <2>1. CASE u = {}
    BY <1>2, <1>3, <2>1, ListsAt
  <2>2. CASE u # {}
    <3> DEFINE v == u \ {Final(u)}
    <3>1. v \in SUBSET T /\ v # T /\ v \subseteq u
      BY <1>3, <2>2, FinalIn
    <3>2. Lists(G(u), u) /\ Lists(G(v), v)
      BY <1>2, <1>3, <3>1
    <3>3. u \in SUBSET S /\ v \in SUBSET S /\ v \in SUBSET (u \cap v)
      BY <3>1
    <3>4. G(u)[v] = G(v)[v]
      <4> HIDE DEF v
      <4> QED BY <3>2, <3>3, OneListing
    <3>5. G(u)[u] = Append(G(u)[v], Final(u))
      BY <2>2, <3>2, ListsAt
    <3> QED BY <2>2, <3>4, <3>5
  <2> QED BY <2>1, <2>2
<1>4. ASSUME NEW s \in SUBSET T, s # {}
      PROVE  G(s \ {Final(s)})[s \ {Final(s)}] = h[s \ {Final(s)}]
  <2>1. s \ {Final(s)} \in SUBSET T /\ s \ {Final(s)} # T
    BY <1>4, FinalIn
  <2> HIDE DEF h
  <2> QED BY <1>3, <2>1
<1>5. Lists(h, T)
  <2>1. h = [s \in SUBSET T |->
               IF s = {} THEN << >> ELSE Append(h[s \ {Final(s)}], Final(s))]
    BY <1>4
  <2> HIDE DEF h
  <2> QED BY <2>1 DEF Lists
<1> QED BY <1>1, <1>5

LEMMA ListedIs ==
  ASSUME NEW S, IsFiniteSet(S)
  PROVE  /\ Listed(S) \in Seq(S)
         /\ \A x \in S : \E i \in DOMAIN Listed(S) : Listed(S)[i] = x
<1> DEFINE g == CHOOSE f : Lists(f, S)
<1>1. Listed(S) = g[S]
  BY DEF Listed, FoldSet, MapThenFoldSet, Lists, Final
<1>2. Lists(g, S)
  BY SomeListing
<1> HIDE DEF g
<1> DEFINE Whole(s) == g[s] \in Seq(s) /\ \A x \in s : \E i \in DOMAIN g[s] : g[s][i] = x
           C == {s \in SUBSET S : ~ Whole(s)}
<1>3. C = {}
  <2> SUFFICES ASSUME C # {} PROVE FALSE
    OBVIOUS
  <2>1. PICK s \in C : \A u \in C : u \subseteq s => u = s
    <3>1. C \subseteq SUBSET S
      OBVIOUS
    <3> HIDE DEF C
    <3>2. PICK M \in C : TRUE
      OBVIOUS
    <3> QED BY <3>1, <3>2, LeastSubset
  <2>2. CASE s = {}
    <3>1. g[{}] = << >>
      BY <1>2, ListsAt
    <3>2. ~ Whole(s)
      BY <2>1
    <3> QED BY <2>2, <3>1, <3>2
  <2>3. CASE s # {}
    <3> DEFINE x == Final(s)
               u == s \ {x}
    <3>1. x \in s /\ u \subseteq s /\ u # s
      BY <2>3, FinalIn
    <3>2. Whole(u)
      BY <2>1, <3>1
    <3>3. g[s] = Append(g[u], x)
      BY <1>2, <2>3, ListsAt
    <3> HIDE DEF x
    <3>4. g[u] \in Seq(s)
      BY <3>2
    <3>5. g[s] \in Seq(s)
      BY <3>1, <3>3, <3>4
    <3>6. ASSUME NEW y \in s PROVE \E i \in DOMAIN g[s] : g[s][i] = y
      <4>1. CASE y = x
        <5>1. Len(g[u]) + 1 \in DOMAIN g[s] /\ g[s][Len(g[u]) + 1] = x
          BY <3>3, <3>4
        <5> QED BY <4>1, <5>1
      <4>2. CASE y # x
        <5>1. PICK i \in DOMAIN g[u] : g[u][i] = y
          BY <3>2, <4>2
        <5>2. i \in DOMAIN g[s] /\ g[s][i] = y
          BY <3>3, <3>4, <5>1
        <5> QED BY <5>2
      <4> QED BY <4>1, <4>2
    <3> QED BY <2>1, <3>5, <3>6
  <2> QED BY <2>2, <2>3
<1> QED BY <1>1, <1>3
-----------------------------------------------------------------------------
(***************************************************************************)
(* What a reference names, in the spellings the runtime lists it in, and   *)
(* what filter_prunable makes of a listing.                                *)
(***************************************************************************)

\* A reference pall8t may have given an image: no registry, and no digest.
Plain(ref) == \E base, owner, h : ref = ImageTagHashed(base, owner, h)

RefFields == {"qual", "base", "owner", "hash", "digest"}
IsFcn(f) == f = [x \in DOMAIN f |-> f[x]]

LEMMA SameFcn ==
  ASSUME NEW f, IsFcn(f), NEW g, IsFcn(g), DOMAIN f = DOMAIN g, \A x \in DOMAIN f : f[x] = g[x]
  PROVE  f = g
BY DEF IsFcn

LEMMA TagFields ==
  \A base, owner, h, ref : ref = ImageTagHashed(base, owner, h) =>
    /\ IsFcn(ref) /\ DOMAIN ref = RefFields
    /\ ref.qual = << >> /\ ref.digest = FALSE
    /\ ref.base = base /\ ref.owner = owner /\ ref.hash = h
BY DEF ImageTagHashed, RefFields, IsFcn

LEMMA PlainFields ==
  ASSUME NEW ref, Plain(ref)
  PROVE  IsFcn(ref) /\ DOMAIN ref = RefFields /\ ref.qual = << >> /\ ref.digest = FALSE
BY TagFields DEF Plain

LEMMA PlainTag == Plain(Tag)
BY DEF Plain, Tag

LEMMA NormalRef ==
  ASSUME NEW s, DOMAIN s = RefFields,
         NEW base, NEW owner, NEW h, base = s.base, owner = s.owner, h = s.hash
  PROVE  NormalizeRef(s) = ImageTagHashed(base, owner, h)
<1> DEFINE n == NormalizeRef(s)
           t == ImageTagHashed(base, owner, h)
<1>1. DOMAIN n = RefFields /\ IsFcn(n)
  BY DEF NormalizeRef, RefFields, IsFcn
<1>2. /\ n.qual = << >> /\ n.digest = FALSE
      /\ n.base = base /\ n.owner = owner /\ n.hash = h
  BY <1>1 DEF NormalizeRef, RefFields
<1>3. /\ IsFcn(t) /\ DOMAIN t = RefFields
      /\ t.qual = << >> /\ t.digest = FALSE
      /\ t.base = base /\ t.owner = owner /\ t.hash = h
  BY TagFields
<1> HIDE DEF n, t
<1>4. \A x \in RefFields : n[x] = t[x]
  BY <1>2, <1>3 DEF RefFields
<1>5. n = t
  BY <1>1, <1>3, <1>4, SameFcn
<1> QED BY <1>5 DEF n, t

LEMMA PlainNormal == ASSUME NEW ref, Plain(ref) PROVE NormalizeRef(ref) = ref
<1> PICK base, owner, h : ref = ImageTagHashed(base, owner, h)
  BY DEF Plain
<1>1. DOMAIN ref = RefFields /\ ref.base = base /\ ref.owner = owner /\ ref.hash = h
  BY TagFields
<1> QED BY <1>1, NormalRef

\* The two spellings of a reference have its fields, and name its image.
LEMMA SpelledRef ==
  ASSUME NEW ref, Plain(ref), NEW s \in Spellings(ref)
  PROVE  /\ DOMAIN s = RefFields
         /\ s.base = ref.base /\ s.owner = ref.owner /\ s.hash = ref.hash
         /\ NormalizeRef(s) = ref
<1>1. CASE s = ref
  BY <1>1, PlainFields, PlainNormal
<1>2. CASE s = [ref EXCEPT !.qual = <<"localhost">>, !.digest = TRUE]
  <2>1. /\ DOMAIN s = RefFields
        /\ s.base = ref.base /\ s.owner = ref.owner /\ s.hash = ref.hash
    BY <1>2, PlainFields DEF RefFields
  <2>2. PICK base, owner, h : ref = ImageTagHashed(base, owner, h)
    BY DEF Plain
  <2>3. ref.base = base /\ ref.owner = owner /\ ref.hash = h
    BY <2>2, TagFields
  <2> QED BY <2>1, <2>2, <2>3, NormalRef
<1> QED BY <1>1, <1>2 DEF Spellings

LEMMA LocalhostIsSuffixed == IsStrictSuffix(<< >>, <<"localhost">>)
<1> DEFINE r == Reverse(<<"localhost">>)
<1>1. Reverse(<< >>) = << >>
  BY DEF Reverse
<1>2. Len(r) = 1 /\ \E T : r \in Seq(T)
  <2> DEFINE T == {<<"localhost">>[(1 - i) + 1] : i \in 1 .. 1}
  <2>1. r = [i \in 1 .. 1 |-> <<"localhost">>[(1 - i) + 1]]
    BY DEF Reverse
  <2>2. r \in [1 .. 1 -> T]
    BY <2>1
  <2> HIDE DEF r, T
  <2>3. \E n \in Nat : r \in [1 .. n -> T]
    BY <2>2
  <2>4. r \in Seq(T) /\ DOMAIN r = 1 .. 1
    BY <2>2, <2>3
  <2>5. Len(r) = 1
    BY <2>4
  <2> QED BY <2>4, <2>5
<1> HIDE DEF r
<1>3. SubSeq(<< >>, 1, 0) = << >> /\ SubSeq(r, 1, 0) = << >>
  BY <1>2
<1>4. IsPrefix(<< >>, r)
  BY <1>2, <1>3 DEF IsPrefix
<1> QED BY <1>1, <1>4 DEF IsStrictSuffix, IsSuffix, r

\* A prune that keeps a tag keeps every spelling of it.
LEMMA TagIsKept ==
  ASSUME NEW ref, Plain(ref), NEW s \in Spellings(ref)
  PROVE  RefMatches(s, ref)
<1>1. CASE s = ref
  BY <1>1 DEF RefMatches
<1>2. CASE s = [ref EXCEPT !.qual = <<"localhost">>, !.digest = TRUE]
  <2>1. /\ DOMAIN s = RefFields /\ DOMAIN ref = RefFields
        /\ s.qual = <<"localhost">> /\ ref.qual = << >>
        /\ \A x \in RefFields \ {"qual", "digest"} : s[x] = ref[x]
    BY <1>2, PlainFields DEF RefFields
  <2>2. [StripDigest(s) EXCEPT !.qual = << >>] = [StripDigest(ref) EXCEPT !.qual = << >>]
    <3> DEFINE a == [StripDigest(s) EXCEPT !.qual = << >>]
               b == [StripDigest(ref) EXCEPT !.qual = << >>]
    <3>1. DOMAIN a = RefFields /\ DOMAIN b = RefFields
      BY <2>1 DEF StripDigest
    <3>2. \A x \in RefFields : a[x] = b[x]
      BY <2>1 DEF StripDigest, RefFields
    <3>3. IsFcn(a) /\ IsFcn(b)
      BY DEF IsFcn, StripDigest
    <3> QED BY <3>1, <3>2, <3>3, SameFcn
  <2>3. StripDigest(s).qual = <<"localhost">> /\ StripDigest(ref).qual = << >>
    BY <2>1 DEF StripDigest, RefFields
  <2>4. IsSlashSuffix(StripDigest(s), StripDigest(ref))
    BY <2>2, <2>3, LocalhostIsSuffixed DEF IsSlashSuffix
  <2> QED BY <2>4 DEF RefMatches
<1> QED BY <1>1, <1>2 DEF Spellings

\* What may be pruned of the images of a base names that base, and its owner.
LEMMA OwnedIsOfBase ==
  ASSUME NEW ref, Plain(ref), NEW s \in Spellings(ref), NEW base, NEW owner,
         ImageOwnedBy(s, base, owner)
  PROVE  ref.base = base /\ ref.owner = owner
<1> DEFINE tag == ImageTag(base, owner)
<1>1. /\ DOMAIN s = RefFields
      /\ s.base = ref.base /\ s.owner = ref.owner /\ NormalizeRef(s) = ref
  BY SpelledRef
<1>2. CASE RefHasPrefix(s, base, owner)
  BY <1>1, <1>2 DEF RefHasPrefix
<1>3. CASE RefMatches(s, tag)
  <2>1. DOMAIN tag = RefFields /\ tag.base = base /\ tag.owner = owner
    BY DEF ImageTag, RefFields
  <2> HIDE DEF tag
  <2> DEFINE a == StripDigest(s)
             b == StripDigest(tag)
  <2>2. [a EXCEPT !.qual = << >>] = [b EXCEPT !.qual = << >>]
    BY <1>3 DEF RefMatches, IsSlashSuffix
  <2>3. [a EXCEPT !.qual = << >>].base = ref.base /\ [a EXCEPT !.qual = << >>].owner = ref.owner
    BY <1>1 DEF StripDigest, RefFields
  <2>4. [b EXCEPT !.qual = << >>].base = base /\ [b EXCEPT !.qual = << >>].owner = owner
    BY <2>1 DEF StripDigest, RefFields
  <2> QED BY <2>2, <2>3, <2>4
<1> QED BY <1>2, <1>3 DEF ImageOwnedBy

\* filter_prunable, of a listing in any order: every victim is of the base and
\* of its owner, is not what is kept, is not spoken for, and is named once.
LEMMA PrunableIs ==
  ASSUME NEW refs, NEW S, refs \in Seq(S),
         \A s \in S : \E ref : Plain(ref) /\ s \in Spellings(ref),
         NEW keep, Plain(keep), NEW base, NEW owner, NEW inUse,
         NEW r \in FilterPrunable(refs, base, keep, owner, inUse)
  PROVE  /\ NormalizeRef(r).base = base /\ NormalizeRef(r).owner = owner
         /\ NormalizeRef(r) # keep
         /\ \A u \in inUse : NormalizeRef(u) # NormalizeRef(r)
         /\ \A q \in FilterPrunable(refs, base, keep, owner, inUse) :
              NormalizeRef(q) = NormalizeRef(r) => q = r
<1> DEFINE candidates == {i \in DOMAIN refs : /\ ShouldPrune(refs[i], keep, base, owner)
                                              /\ ~ InUseContains(inUse, refs[i])}
           same(i, j) == NormalizeRef(refs[i]) = NormalizeRef(refs[j])
           first == {k \in candidates : \A j \in candidates : same(j, k) => k <= j}
<1>1. FilterPrunable(refs, base, keep, owner, inUse) = {refs[i] : i \in first}
  BY DEF FilterPrunable
<1>2. PICK k \in first : r = refs[k]
  BY <1>1
<1>3. /\ ShouldPrune(r, keep, base, owner) /\ ~ InUseContains(inUse, r) /\ r \in S
  BY <1>2
<1>4. PICK ref : Plain(ref) /\ r \in Spellings(ref)
  BY <1>3
<1>5. NormalizeRef(r) = ref
  BY <1>4, SpelledRef
<1>6. ref.base = base /\ ref.owner = owner
  BY <1>3, <1>4, OwnedIsOfBase DEF ShouldPrune
<1>7. ref # keep
  BY <1>3, <1>4, TagIsKept DEF ShouldPrune
<1>8. \A u \in inUse : NormalizeRef(u) # NormalizeRef(r)
  BY <1>3 DEF InUseContains
<1>9. ASSUME NEW q \in FilterPrunable(refs, base, keep, owner, inUse),
             NormalizeRef(q) = NormalizeRef(r)
      PROVE  q = r
  <2>1. PICK j \in first : q = refs[j]
    BY <1>1
  <2>2. j <= k /\ k <= j
    BY <1>2, <1>9, <2>1
  <2>3. j \in Nat /\ k \in Nat
    OBVIOUS
  <2> QED BY <1>2, <2>1, <2>2, <2>3
<1> QED BY <1>5, <1>6, <1>7, <1>8, <1>9
-----------------------------------------------------------------------------
(***************************************************************************)
(* What the runtime lists: images, each by references that name it, and    *)
(* containers, each by what it runs.                                       *)
(***************************************************************************)

LEMMA FiniteRange ==
  ASSUME NEW S, IsFiniteSet(S), NEW f
  PROVE  IsFiniteSet({f[x] : x \in S})
<1> DEFINE T == {f[x] : x \in S}
           g == [x \in S |-> f[x]]
<1>1. g \in Surjection(S, T)
  BY DEF Surjection
<1> HIDE DEF T, g
<1>2. IsFiniteSet(T)
  BY <1>1, FS_Surjection
<1> QED BY <1>2 DEF T

LEMMA FinitePair == \A a, b : IsFiniteSet({a, b})
<1> TAKE a, b
<1>1. IsFiniteSet({a}) /\ IsFiniteSet({a} \cup {b})
  BY FS_Singleton, FS_AddElement
<1>2. {a, b} = {a} \cup {b}
  OBVIOUS
<1> QED BY <1>1, <1>2

LEMMA ImageListed ==
  ASSUME IsFiniteSet(images), \A i \in images : Plain(i.ref), NEW list \in ImageLists
  PROVE  \E S : list \in Seq(S) /\ \A s \in S : \E ref : Plain(ref) /\ s \in Spellings(ref)
<1> DEFINE refs == {i.ref : i \in images}
           spelled == {Spellings(r) : r \in refs}
           all  == UNION spelled
<1>1. IsFiniteSet(refs)
  <2> DEFINE f == [i \in images |-> i.ref]
  <2>1. refs = {f[i] : i \in images}
    OBVIOUS
  <2> HIDE DEF f
  <2> QED BY <2>1, FiniteRange
<1>2. \A r \in refs : Plain(r) /\ r \in Spellings(r) /\ IsFiniteSet(Spellings(r))
  BY FinitePair DEF Spellings
<1> HIDE DEF refs
<1>3. IsFiniteSet(spelled)
  <2> DEFINE f == [r \in refs |-> Spellings(r)]
  <2>1. spelled = {f[r] : r \in refs}
    OBVIOUS
  <2> HIDE DEF f
  <2> QED BY <1>1, <2>1, FiniteRange
<1>4. \A s \in all : \E ref : Plain(ref) /\ s \in Spellings(ref)
  BY <1>2
<1>5. \A T \in spelled : IsFiniteSet(T)
  BY <1>2
<1>6. refs \subseteq all
  BY <1>2
<1>7. list = Listed(refs) \/ list = Listed(all) \/ list = Listed(all \ refs)
  BY DEF ImageLists, refs
<1> HIDE DEF spelled
<1>8. IsFiniteSet(all)
  BY <1>3, <1>5, FS_UNION
<1> HIDE DEF all
<1>9. IsFiniteSet(all \ refs)
  BY <1>8, FS_Difference
<1>10. CASE list = Listed(refs)
  BY <1>1, <1>4, <1>6, <1>10, ListedIs
<1>11. CASE list = Listed(all)
  BY <1>4, <1>8, <1>11, ListedIs
<1>12. CASE list = Listed(all \ refs)
  BY <1>4, <1>9, <1>12, ListedIs
<1> QED BY <1>7, <1>10, <1>11, <1>12

\* No list of containers in which every image can be told leaves one out.
LEMMA InUseIsWhole ==
  ASSUME IsFiniteSet(claims), NEW list \in ContainerLists, InUseRefs(list) # None,
         NEW c \in claims, c.by = "container"
  PROVE  c.ref \in InUseRefs(list)
<1>1. IsFiniteSet(ContainerRows)
  <2> DEFINE D == {d \in claims : d.by = "container"}
             f == [d \in D |-> Row(d.ref)]
  <2>1. IsFiniteSet(D)
    BY FS_Subset
  <2>2. ContainerRows = {f[d] : d \in D}
    BY DEF ContainerRows
  <2> HIDE DEF f, D
  <2> QED BY <2>1, <2>2, FiniteRange
<1> DEFINE rows == list.rows
           all  == ParseListAll(list)
<1>2. all # None /\ InUseRefs(list) = {all[i].image : i \in DOMAIN all}
      /\ \A i \in DOMAIN all : all[i].image # None
  BY DEF InUseRefs
<1>3. list.kind # "garbled"
      /\ all = [i \in DOMAIN rows |-> [rows[i] EXCEPT !.state = IF @ = "running" THEN @ ELSE "stopped"]]
  BY <1>2 DEF ParseListAll
<1> HIDE DEF all
<1>4. \A i \in DOMAIN rows : DOMAIN rows[i] = {"id", "state", "image", "labelled", "prefixed"}
        => all[i].image = rows[i].image
  BY <1>3
<1>5. \A image : /\ DOMAIN Row(image) = {"id", "state", "image", "labelled", "prefixed"}
                 /\ Row(image).image = image
  BY DEF Row
<1>6. Row(c.ref) \in ContainerRows
  BY DEF ContainerRows
<1>7. CASE rows = Listed(ContainerRows)
  <2>1. PICK i \in DOMAIN rows : rows[i] = Row(c.ref)
    BY <1>1, <1>6, <1>7, ListedIs
  <2>2. all[i].image = c.ref /\ i \in DOMAIN all
    BY <1>3, <1>4, <1>5, <2>1
  <2> QED BY <1>2, <2>2
<1>8. ASSUME NEW r \in ContainerRows, rows = Listed((ContainerRows \ {r}) \cup {Row(None)})
      PROVE  FALSE
  <2> DEFINE S == (ContainerRows \ {r}) \cup {Row(None)}
  <2>1. IsFiniteSet(S)
    BY <1>1, FS_Difference, FS_AddElement
  <2>2. Row(None) \in S
    OBVIOUS
  <2> HIDE DEF S
  <2>3. rows = Listed(S)
    BY <1>8 DEF S
  <2>4. PICK i \in DOMAIN rows : rows[i] = Row(None)
    BY <2>1, <2>2, <2>3, ListedIs
  <2>5. all[i].image = None /\ i \in DOMAIN all
    BY <1>3, <1>4, <1>5, <2>4
  <2> QED BY <1>2, <2>5
<1>9. \/ rows = Listed(ContainerRows)
      \/ \E r \in ContainerRows : rows = Listed((ContainerRows \ {r}) \cup {Row(None)})
  BY <1>3 DEF ContainerLists
<1> QED BY <1>7, <1>8, <1>9
-----------------------------------------------------------------------------
(***************************************************************************)
(* The types, and what a prune has picked. Beside its types the store has  *)
(* to be finite, for a listing of it to be one, and its references plain;  *)
(* and of the victims what was true when they were picked stays true while *)
(* they are deleted one by one.                                            *)
(***************************************************************************)

DiskTyped == disk \in [Files -> [version : 0 .. MaxVersion, is : Kinds]]
StoreKept ==
  /\ IsFiniteSet(images)
  /\ \A i \in images : Plain(i.ref)
  /\ \A i, j \in images : i.ref = j.ref => i = j
PlaceTyped ==
  pc \in {"resolve", "hash", "exists", "build", "verify",
          "condemn", "clear", "prune", "delete", "over"}
ReadsTyped ==
  /\ reading.got \in Versions /\ reading.attempt \in 1 .. Attempts
  /\ hash \in Versions /\ built \in Versions
HashWhole ==
  pc \in {"exists", "build", "verify", "condemn", "clear"} => DOMAIN hash = build.files
ClaimsKept == IsFiniteSet(claims) /\ \A c \in claims : c.by \in {"reservation", "container"}
NamedOnce == \A r, s \in victims : NormalizeRef(r) = NormalizeRef(s) => r = s
Doomed ==
  pc = "delete" => \A r \in victims :
    /\ NormalizeRef(r).base = build.base /\ NormalizeRef(r).owner = Owner
    /\ NormalizeRef(r) # Tag
    /\ \A c \in claims : NormalizeRef(c.ref) # NormalizeRef(r)

WatchInv ==
  /\ IInv
  /\ DiskTyped /\ StoreKept /\ PlaceTyped /\ ReadsTyped /\ retry \in BOOLEAN
  /\ HashWhole /\ ClaimsKept /\ NamedOnce /\ Doomed

LEMMA WatchInvTypeOK == WatchInv => TypeOK
<1> SUFFICES ASSUME WatchInv PROVE TypeOK
  OBVIOUS
<1>1. \A i \in images : i.ref = NormalizeRef(i.ref)
  BY PlainNormal DEF WatchInv, StoreKept
<1> QED
  BY <1>1 DEF WatchInv, DiskTyped, StoreKept, PlaceTyped, ReadsTyped, HashWhole, NamedOnce,
     TypeOK

LEMMA VersionsIs ==
  \A got : got \in Versions <=>
    DOMAIN got \subseteq Files /\ got \in [DOMAIN got -> 0 .. MaxVersion]
BY DEF Versions

LEMMA NothingTyped == Nothing \in Versions
BY VersionsIs DEF Nothing

LEMMA PlusTyped ==
  ASSUME DiskTyped, NEW got \in Versions, NEW f \in Files
  PROVE  Plus(got, f) \in Versions
<1>1. disk[f].version \in 0 .. MaxVersion
  BY DEF DiskTyped
<1>2. DOMAIN got \subseteq Files /\ got \in [DOMAIN got -> 0 .. MaxVersion]
  BY VersionsIs
<1>3. Plus(got, f) \in [DOMAIN got \cup {f} -> 0 .. MaxVersion]
  BY <1>1, <1>2 DEF Plus
<1>4. DOMAIN Plus(got, f) = DOMAIN got \cup {f}
  BY DEF Plus
<1> QED BY <1>2, <1>3, <1>4, VersionsIs

LEMMA InitWatch == Init => WatchInv
<1> SUFFICES ASSUME Init PROVE WatchInv
  OBVIOUS
<1>1. IInv
  BY InitIInv
<1>2. DiskTyped
  <2>1. MaxVersion \in Nat
    BY WatchAssumption DEF WatchAssumption
  <2> QED BY <2>1 DEF Init, DiskTyped, Kinds
<1>3. StoreKept
  <2> PICK store \in Stores : images = store.images
    BY DEF Init
  <2>1. IsFiniteSet(images) /\ \A i, j \in images : i.ref = j.ref => i = j
    BY WatchAssumption DEF WatchAssumption
  <2>2. \A i \in images : i.ref = ImageTagHashed(i.ref.base, i.ref.owner, i.ref.hash)
    BY WatchAssumption DEF WatchAssumption
  <2> QED BY <2>1, <2>2 DEF StoreKept, Plain
<1>4. ReadsTyped
  <2>1. Attempts \in Nat \ {0}
    BY WatchAssumption DEF WatchAssumption
  <2> QED BY <2>1, NothingTyped DEF Init, ReadsTyped, Unread
<1>5. ClaimsKept
  <2>1. claims = {} \/ \E c : claims = {c} /\ c.by \in {"reservation", "container"}
    BY DEF Init
  <2>2. IsFiniteSet(claims)
    <3>1. CASE claims = {}
      BY <3>1, FS_EmptySet
    <3>2. ASSUME NEW c, claims = {c} PROVE IsFiniteSet(claims)
      BY <3>2, FS_Singleton
    <3> QED BY <2>1, <3>1, <3>2
  <2> QED BY <2>1, <2>2 DEF ClaimsKept
<1> QED
  BY <1>1, <1>2, <1>3, <1>4, <1>5
  DEF Init, WatchInv, PlaceTyped, HashWhole, NamedOnce, Doomed

\* What a prune picks is to be deleted, whatever the lists showed.
LEMMA PrunePicks ==
  ASSUME WatchInv, Prune
  PROVE  NamedOnce' /\ Doomed'
<1>1. pc = "prune" /\ UNCHANGED <<build, hash, claims>> /\ Tag' = Tag
  BY TagStays DEF Prune
<1>2. CASE pc' = "over" /\ UNCHANGED victims
  BY <1>2 DEF WatchInv, NamedOnce, Doomed
<1>3. ASSUME NEW containers \in ContainerLists, NEW list \in ImageLists,
             InUseRefs(containers) # None,
             victims' = FilterPrunable(list, build.base, Tag, Owner, InUseRefs(containers)
                          \cup {c.ref : c \in {d \in claims : d.by = "reservation"}})
      PROVE  NamedOnce' /\ Doomed'
  <2> DEFINE spoken == InUseRefs(containers)
                         \cup {c.ref : c \in {d \in claims : d.by = "reservation"}}
             picked == FilterPrunable(list, build.base, Tag, Owner, spoken)
  <2>1. \A c \in claims : c.ref \in spoken
    <3> SUFFICES ASSUME NEW c \in claims PROVE c.ref \in spoken
      OBVIOUS
    <3>1. CASE c.by = "container"
      BY <1>3, <3>1, InUseIsWhole DEF WatchInv, ClaimsKept
    <3>2. CASE c.by = "reservation"
      BY <3>2
    <3> QED BY <3>1, <3>2 DEF WatchInv, ClaimsKept
  <2>2. PICK S : list \in Seq(S) /\ \A s \in S : \E ref : Plain(ref) /\ s \in Spellings(ref)
    BY ImageListed DEF WatchInv, StoreKept
  <2> HIDE DEF spoken
  <2>3. \A r \in picked :
          /\ NormalizeRef(r).base = build.base /\ NormalizeRef(r).owner = Owner
          /\ NormalizeRef(r) # Tag
          /\ \A u \in spoken : NormalizeRef(u) # NormalizeRef(r)
          /\ \A q \in picked : NormalizeRef(q) = NormalizeRef(r) => q = r
    BY <2>2, PlainTag, PrunableIs
  <2>4. victims' = picked
    BY <1>3 DEF spoken
  <2> HIDE DEF picked
  <2> QED BY <1>1, <2>1, <2>3, <2>4 DEF NamedOnce, Doomed
<1> QED BY <1>2, <1>3 DEF Prune, Goto

LEMMA StepWatch ==
  ASSUME WatchInv, [Next]_vars
  PROVE  WatchInv'
<1>0. IInv'
  BY StepIInv DEF WatchInv
<1> USE DEF Goto
<1>1. ClaimsKept'
  <2>1. claims' = claims
    BY DEF Next, Step, Reads, Builds, Prunes, World, Resolve, ReadFile, Reread, RefuseFile,
       Hash, Exists, BuilderReads, Publish, Verify, Condemn, Clear, Prune, DeleteOne, PruneEnds,
       Edit, Flap, vars
  <2> QED BY <2>1 DEF WatchInv, ClaimsKept
<1>2. CASE Resolve
  <2>1. ReadsTyped'
    <3>1. reading' = Unread /\ UNCHANGED <<hash, built>>
      BY <1>2 DEF Resolve, StartReading
    <3>2. 1 \in 1 .. Attempts
      BY WatchAssumption DEF WatchAssumption
    <3> QED BY <3>1, <3>2, NothingTyped DEF WatchInv, ReadsTyped, Unread
  <2>2. pc' \in {"hash", "over"}
    BY <1>2 DEF Resolve
  <2> QED
    BY <1>0, <1>1, <1>2, <2>1, <2>2
    DEF Resolve, WatchInv, DiskTyped, StoreKept, PlaceTyped, HashWhole, NamedOnce, Doomed
<1>3. CASE ReadFile
  <2>1. PICK f \in Files :
          reading' = [got |-> Plus(reading.got, f), attempt |-> reading.attempt]
    BY <1>3 DEF ReadFile
  <2>2. Plus(reading.got, f) \in Versions
    BY PlusTyped DEF WatchInv, ReadsTyped
  <2>3. ReadsTyped'
    BY <1>3, <2>1, <2>2 DEF ReadFile, WatchInv, ReadsTyped
  <2> QED
    BY <1>0, <1>1, <1>3, <2>3
    DEF ReadFile, WatchInv, DiskTyped, StoreKept, PlaceTyped, HashWhole, NamedOnce, Doomed
<1>4. CASE Reread
  <2>1. ReadsTyped'
    <3>1. Attempts \in Nat
      BY WatchAssumption DEF WatchAssumption
    <3>2. CASE reading.attempt < Attempts
      <4>1. reading'.got = Nothing /\ reading'.attempt = reading.attempt + 1
        BY <1>4, <3>2 DEF Reread
      <4>2. reading.attempt + 1 \in 1 .. Attempts
        BY <3>1, <3>2 DEF WatchInv, ReadsTyped
      <4> QED BY <1>4, <4>1, <4>2, NothingTyped DEF Reread, WatchInv, ReadsTyped
    <3>3. CASE ~ (reading.attempt < Attempts)
      BY <1>4, <3>3 DEF Reread, WatchInv, ReadsTyped
    <3> QED BY <3>2, <3>3
  <2>2. pc' \in {"hash", "over"}
    BY <1>4 DEF Reread
  <2> QED
    BY <1>0, <1>1, <1>4, <2>1, <2>2
    DEF Reread, WatchInv, DiskTyped, StoreKept, PlaceTyped, HashWhole, NamedOnce, Doomed
<1>5. CASE RefuseFile
  BY <1>0, <1>1, <1>5
  DEF RefuseFile, WatchInv, DiskTyped, StoreKept, PlaceTyped, ReadsTyped, HashWhole, NamedOnce,
      Doomed
<1>6. CASE Hash
  <2>1. ReadsTyped'
    <3>1. /\ reading'.got = Nothing /\ reading'.attempt = 1
          /\ hash' = reading.got /\ built' = Nothing
      BY <1>6 DEF Hash, StartReading, Unread
    <3>2. 1 \in 1 .. Attempts
      BY WatchAssumption DEF WatchAssumption
    <3> QED BY <3>1, <3>2, NothingTyped DEF WatchInv, ReadsTyped
  <2>2. HashWhole'
    <3>1. DOMAIN reading.got = build.files
      BY <1>6 DEF Hash, WatchInv, IInv, Reading, ReadSoFar, AllRead, Pending
    <3> QED BY <1>6, <3>1 DEF Hash, HashWhole
  <2>3. pc' \in {"exists", "build"}
    BY <1>6 DEF Hash
  <2> QED
    BY <1>0, <1>1, <1>6, <2>1, <2>2, <2>3
    DEF Hash, WatchInv, DiskTyped, StoreKept, PlaceTyped, NamedOnce, Doomed
<1>7. CASE Exists
  <2>1. pc = "exists" /\ pc' \in {"over", "build"}
    BY <1>7 DEF Exists
  <2> QED
    BY <1>0, <1>1, <1>7, <2>1
    DEF Exists, WatchInv, DiskTyped, StoreKept, PlaceTyped, ReadsTyped, HashWhole, NamedOnce,
        Doomed
<1>8. CASE BuilderReads
  <2>1. PICK f \in build.files :
          \/ built' = Plus(built, f) /\ pc' = pc
          \/ pc' = "over" /\ built' = built
    BY <1>8 DEF BuilderReads
  <2>2. Plus(built, f) \in Versions
    BY PlusTyped DEF WatchInv, ReadsTyped, IInv, FilesOK
  <2>3. ReadsTyped'
    BY <1>8, <2>1, <2>2 DEF BuilderReads, WatchInv, ReadsTyped
  <2>4. pc = "build" /\ pc' \in {"build", "over"}
    BY <1>8, <2>1 DEF BuilderReads
  <2> QED
    BY <1>0, <1>1, <1>8, <2>3, <2>4
    DEF BuilderReads, WatchInv, DiskTyped, StoreKept, PlaceTyped, HashWhole, NamedOnce, Doomed
<1>9. CASE Publish
  <2>1. StoreKept'
    <3> DEFINE rest == {i \in images : i.ref # Tag}
               new  == [ref |-> Tag, content |-> built]
    <3>1. images' = rest \cup {new} /\ new.ref = Tag
      BY <1>9 DEF Publish
    <3>2. IsFiniteSet(rest)
      BY FS_Subset DEF WatchInv, StoreKept
    <3>3. \A i \in rest : i \in images /\ i.ref # Tag
      OBVIOUS
    <3> HIDE DEF rest, new
    <3>4. IsFiniteSet(rest \cup {new})
      BY <3>2, FS_AddElement
    <3>5. \A i \in images' : Plain(i.ref)
      BY <3>1, <3>3, PlainTag DEF WatchInv, StoreKept
    <3>6. \A i, j \in images' : i.ref = j.ref => i = j
      BY <3>1, <3>3 DEF WatchInv, StoreKept
    <3> QED BY <3>1, <3>4, <3>5, <3>6 DEF StoreKept
  <2>2. ReadsTyped'
    <3>1. reading'.got = Nothing /\ reading'.attempt = 1 /\ built' = Nothing /\ hash' = hash
      BY <1>9 DEF Publish, StartReading, Unread
    <3>2. 1 \in 1 .. Attempts
      BY WatchAssumption DEF WatchAssumption
    <3> QED BY <3>1, <3>2, NothingTyped DEF WatchInv, ReadsTyped
  <2> QED
    BY <1>0, <1>1, <1>9, <2>1, <2>2
    DEF Publish, WatchInv, DiskTyped, PlaceTyped, HashWhole, NamedOnce, Doomed
<1>10. CASE Verify
  <2>1. pc = "verify" /\ pc' \in {"clear", "condemn"}
    BY <1>10 DEF Verify
  <2> QED
    BY <1>0, <1>1, <1>10, <2>1
    DEF Verify, WatchInv, DiskTyped, StoreKept, PlaceTyped, ReadsTyped, HashWhole, NamedOnce,
        Doomed
<1>11. CASE Condemn
  <2>1. images' \subseteq images /\ pc' \in {"over", "resolve"} /\ retry' = TRUE
    BY <1>11 DEF Condemn
  <2>2. StoreKept'
    BY <2>1, FS_Subset DEF WatchInv, StoreKept
  <2> QED
    BY <1>0, <1>1, <1>11, <2>1, <2>2
    DEF Condemn, WatchInv, DiskTyped, PlaceTyped, ReadsTyped, HashWhole, NamedOnce, Doomed
<1>12. CASE Clear
  BY <1>0, <1>1, <1>12
  DEF Clear, WatchInv, DiskTyped, StoreKept, PlaceTyped, ReadsTyped, HashWhole, NamedOnce, Doomed
<1>13. CASE Prune
  <2>1. pc' \in {"delete", "over"}
    BY <1>13 DEF Prune
  <2> QED
    BY <1>0, <1>1, <1>13, <2>1, PrunePicks
    DEF Prune, WatchInv, DiskTyped, StoreKept, PlaceTyped, ReadsTyped, HashWhole
<1>14. CASE DeleteOne
  <2>1. images' \subseteq images /\ victims' \subseteq victims /\ UNCHANGED <<build, hash, claims>>
    BY <1>14 DEF DeleteOne
  <2>2. StoreKept'
    BY <2>1, FS_Subset DEF WatchInv, StoreKept
  <2>3. Doomed'
    <3>1. pc = "delete" /\ Tag' = Tag
      BY <1>14, <2>1, TagStays DEF DeleteOne
    <3> QED BY <2>1, <3>1 DEF WatchInv, Doomed
  <2> QED
    BY <1>0, <1>1, <1>14, <2>1, <2>2, <2>3
    DEF DeleteOne, WatchInv, DiskTyped, PlaceTyped, ReadsTyped, HashWhole, NamedOnce
<1>15. CASE PruneEnds
  BY <1>0, <1>1, <1>15
  DEF PruneEnds, WatchInv, DiskTyped, StoreKept, PlaceTyped, ReadsTyped, HashWhole, NamedOnce,
      Doomed
<1>16. ASSUME NEW f \in Files, Edit(f) \/ \E kind \in Kinds : Flap(f, kind)
       PROVE  WatchInv'
  <2>1. UNCHANGED <<images, claims, pc, build, reading, hash, built, retry, victims>> /\ Tag' = Tag
    BY <1>16, TagStays DEF Edit, Flap
  <2>2. DiskTyped'
    <3>1. \A g \in Files : disk[g].version \in 0 .. MaxVersion
      BY DEF WatchInv, DiskTyped
    <3>2. PICK v \in 0 .. MaxVersion, k \in Kinds : disk' = [disk EXCEPT ![f] = [version |-> v, is |-> k]]
      <4>1. CASE Edit(f)
        <5>1. disk' = [disk EXCEPT ![f] = [version |-> disk[f].version + 1, is |-> "file"]]
              /\ disk[f].version < MaxVersion
          BY <4>1 DEF Edit
        <5>2. MaxVersion \in Nat
          BY WatchAssumption DEF WatchAssumption
        <5>3. disk[f].version + 1 \in 0 .. MaxVersion /\ "file" \in Kinds
          BY <3>1, <5>1, <5>2 DEF Kinds
        <5> QED BY <5>1, <5>3
      <4>2. ASSUME NEW kind \in Kinds, Flap(f, kind)
            PROVE  \E v \in 0 .. MaxVersion, k \in Kinds :
                     disk' = [disk EXCEPT ![f] = [version |-> v, is |-> k]]
        <5>1. disk' = [disk EXCEPT ![f] = [version |-> disk[f].version, is |-> kind]]
          BY <4>2 DEF Flap
        <5> QED BY <3>1, <5>1
      <4> QED BY <1>16, <4>1, <4>2
    <3> QED BY <3>2 DEF WatchInv, DiskTyped
  <2> QED
    BY <1>0, <1>1, <2>1, <2>2
    DEF WatchInv, StoreKept, PlaceTyped, ReadsTyped, HashWhole, NamedOnce, Doomed
<1>17. CASE UNCHANGED vars
  BY <1>0, <1>1, <1>17, TagStays
  DEF vars, WatchInv, DiskTyped, StoreKept, PlaceTyped, ReadsTyped, HashWhole, NamedOnce, Doomed
<1> QED
  BY <1>2, <1>3, <1>4, <1>5, <1>6, <1>7, <1>8, <1>9, <1>10, <1>11, <1>12, <1>13, <1>14, <1>15,
     <1>16, <1>17
  DEF Next, Step, Reads, Builds, Prunes, World
-----------------------------------------------------------------------------
\* Every image under a tag of this user's was built from what the tag's hash was
\* made of, file by file, or is recorded as bad, or is still to be verified, for
\* any number of watched files and of edits (try_build).
THEOREM VerifiedIsBuiltTheorem == Spec => []VerifiedIsBuilt
<1>1. IInv => VerifiedIsBuilt
  BY DEF IInv
<1> QED
  BY InitIInv, StepIInv, <1>1, PTL DEF Spec

\* The state of a build has its types: what is read and hashed are versions of
\* files there are, the hash that is verified is of the files being built, the
\* store holds one image to a reference, and no two references a prune deletes
\* name the same image (ensure_built, filter_prunable).
THEOREM WatchTypeCorrect == Spec => []TypeOK
BY InitWatch, StepWatch, WatchInvTypeOK, PTL DEF Spec

\* What a prune deletes is an image of the base and the user it is for, and
\* neither what was just built nor what a container or a reservation speaks
\* for, whatever is in the store and in whatever order and spellings the lists
\* show it (prune_superseded, filter_prunable, in_use_refs).
THEOREM PrunedIsSupersededTheorem == Spec => PrunedIsSuperseded
<1> DEFINE Kept ==
      pc = "delete" => \A i \in images \ images' :
        /\ i.ref.base = build.base /\ i.ref.owner = Owner
        /\ i.ref # Tag
        /\ \A c \in claims : NormalizeRef(c.ref) # i.ref
<1>1. ASSUME WatchInv, [Next]_vars PROVE Kept
  <2> SUFFICES ASSUME pc = "delete", images' # images PROVE Kept
    BY DEF Kept
  <2>1. DeleteOne
    BY <1>1 DEF Next, Step, Reads, Builds, Prunes, World, Resolve, ReadFile, Reread, RefuseFile,
       Hash, Exists, BuilderReads, Publish, Verify, Condemn, Clear, Prune, PruneEnds, Edit, Flap,
       vars
  <2>2. PICK r \in victims : images' = {i \in images : i.ref # NormalizeRef(r)}
    BY <2>1 DEF DeleteOne
  <2>3. \A i \in images \ images' : i.ref = NormalizeRef(r)
    BY <2>2
  <2> QED BY <1>1, <2>3 DEF WatchInv, Doomed
<1>2. Kept => [Kept]_vars
  OBVIOUS
<1> QED BY <1>1, InitWatch, StepWatch, PTL DEF Spec, PrunedIsSuperseded
=============================================================================
