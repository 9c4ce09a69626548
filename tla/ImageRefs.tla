------------------------------ MODULE ImageRefs ------------------------------
(***************************************************************************)
(* The references by which the runtime speaks of images, and which of them *)
(* name the same one (src/src/container.rs).  A reference is registry and  *)
(* namespaces, a base, the owner's uid and gid, the hash of the content or *)
(* None, and a digest or not:                                              *)
(*                                                                         *)
(*     ghcr.io/me/ pall8t-app : 501-20 -abc123 @sha256:...                 *)
(*     qual        base         owner   hash   digest                      *)
(***************************************************************************)
EXTENDS Naturals, Sequences, SequencesExt, Option

\* image_tag, image_tag_hashed: what a build is published as.
ImageTag(base, owner) ==
  [qual |-> << >>, base |-> base, owner |-> owner, hash |-> None, digest |-> FALSE]

ImageTagHashed(base, owner, hash) ==
  [qual |-> << >>, base |-> base, owner |-> owner, hash |-> hash, digest |-> FALSE]

StripDigest(s)  == [s EXCEPT !.digest = FALSE]
NormalizeRef(s) == [s EXCEPT !.digest = FALSE, !.qual = << >>]

\* is_slash_suffix
IsSlashSuffix(longer, shorter) ==
  /\ [longer EXCEPT !.qual = << >>] = [shorter EXCEPT !.qual = << >>]
  /\ IsStrictSuffix(shorter.qual, longer.qual)

\* ref_matches
RefMatches(s, tag) ==
  LET a == StripDigest(s)
      b == StripDigest(tag)
  IN a = b \/ IsSlashSuffix(a, b) \/ IsSlashSuffix(b, a)

\* ref_has_prefix, of `base:uid-gid-'.
RefHasPrefix(s, base, owner) ==
  LET n == NormalizeRef(s) IN n.base = base /\ n.owner = owner /\ n.hash # None

\* in_use_contains
InUseContains(inUse, candidate) ==
  \E u \in inUse : NormalizeRef(candidate) = NormalizeRef(u)

\* image_owned_by
ImageOwnedBy(s, base, owner) ==
  RefMatches(s, ImageTag(base, owner)) \/ RefHasPrefix(s, base, owner)

\* should_prune
ShouldPrune(s, keep, base, owner) ==
  ~ RefMatches(s, keep) /\ ImageOwnedBy(s, base, owner)

\* image_exists, of the references `container image list' shows.
ImageExists(refs, tag) == \E i \in DOMAIN refs : RefMatches(refs[i], tag)

\* Fault: every spelling is a victim.
FilterPrunableSpellings(refs, base, keep, owner, inUse) ==
  {refs[i] : i \in {k \in DOMAIN refs : /\ ShouldPrune(refs[k], keep, base, owner)
                                       /\ ~ InUseContains(inUse, refs[k])}}

\* filter_prunable: of the spellings of one image, the first that is listed.
FilterPrunable(refs, base, keep, owner, inUse) ==
  LET candidates == {i \in DOMAIN refs : /\ ShouldPrune(refs[i], keep, base, owner)
                                         /\ ~ InUseContains(inUse, refs[i])}
      same(i, j) == NormalizeRef(refs[i]) = NormalizeRef(refs[j])
  IN {refs[i] : i \in {k \in candidates : \A j \in candidates : same(j, k) => k <= j}}
=============================================================================
