------------------------------- MODULE Names -------------------------------
(***************************************************************************)
(* The algebra of the names pall8t gives a herdr tab and its agent, from   *)
(* src/src/naming.rs: `<base>-<number>', extended to `<base>-<number>-<k>' *)
(* when the walk over candidates has to step past a name that is taken.    *)
(*                                                                         *)
(* A name is a word followed by the counters written after it: `foo-3-2'   *)
(* is [word |-> "foo", nums |-> <<3, 2>>].  A base may end in a counter of *)
(* its own (`agent_name = "api-2"').  The 32-byte cap of `capped_to' is    *)
(* not modelled: every name here is one that fits it.                      *)
(***************************************************************************)
EXTENDS Integers, Sequences, FiniteSets, FiniteSetsExt

CONSTANTS
  None,            \* Rust's Option::None
  Words,           \* the words names are made of
  UsizeMax,        \* usize::MAX, the largest counter that parses
  CollisionTries   \* COLLISION_TRIES: how many names the walk offers

ASSUME NamesAssumption ==
  /\ UsizeMax \in Nat /\ UsizeMax > 1
  /\ CollisionTries \in 1 .. UsizeMax

Usize == 0 .. UsizeMax
Name == [word : Words, nums : Seq(Usize)]

\* `<name>-<counter>'.
WithCounter(name, counter) == [name EXCEPT !.nums = Append(@, counter)]

\* split_counter: a name that ends in a counter is the one before it and
\* that counter.
HasCounter(name) == name.nums # <<>>
HeadOf(name)     == [name EXCEPT !.nums = SubSeq(@, 1, Len(@) - 1)]
Counter(name)    == name.nums[Len(name.nums)]

\* The two shapes a label is read as: `<base>-<n>' and, with the walk's own
\* counter taken off, the `<base>-<n>' of a `<base>-<n>-<k>'.
Readings(label) ==
  {label} \cup (IF HasCounter(label) THEN {HeadOf(label)} ELSE {})

\* number_in_label: the numbers a label carries for a base.  It is at most
\* one, because the two readings differ in length.
NumberInLabel(label, base) ==
  {Counter(l) : l \in {r \in Readings(label) :
                         /\ HasCounter(r)
                         /\ WithCounter(base, Counter(r)) = r}}

\* label_is_pall8t_own: the bare base, or a name carrying a number for it.
LabelIsPall8tOwn(label, base) ==
  \/ label = base
  \/ NumberInLabel(label, base) # {}

\* first_candidate and candidates: the walk from the wanted name through
\* `<wanted>-2' .. `<wanted>-<CollisionTries>'.
FirstCandidate(base, number) ==
  IF number = None THEN base ELSE WithCounter(base, number)

Candidates(base, number) ==
  LET first == FirstCandidate(base, number)
  IN  [k \in 1 .. CollisionTries |->
         IF k = 1 THEN first ELSE WithCounter(first, k)]

\* first_free: the first candidate nobody holds, or the last one when every
\* candidate is held.
FirstFree(base, number, taken) ==
  LET walk == Candidates(base, number)
      free == {k \in 1 .. CollisionTries : walk[k] \notin taken}
  IN  IF free = {} THEN walk[CollisionTries] ELSE walk[Min(free)]
=============================================================================
