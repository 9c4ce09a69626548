------------------------------ MODULE Runtime ------------------------------
(***************************************************************************)
(* What pall8t makes of the answers of apple's `container' CLI             *)
(* (src/src/container.rs): whether the service is up, which version it is, *)
(* which containers there are, which of them are pall8t's, and how the     *)
(* client is to be exec'd.                                                 *)
(*                                                                         *)
(* A listing is [kind, rows]: "empty" (no output at all), "garbled" (no    *)
(* JSON, or no array) or "rows"; a row is [id, state, image, labelled,     *)
(* prefixed], the first three None where the listing does not carry them.  *)
(***************************************************************************)
EXTENDS Naturals, Sequences, Option

\* MIN_VERSION: 0 is an older version, 1 this one or a newer.
MinVersion == 1

\* system_status: a spawn that fails for another reason than NotFound says
\* nothing about what is installed.
SystemStatus(probe) ==
  CASE probe = "exit 0"       -> "running"
    [] probe = "exit 1"       -> "stopped"
    [] probe = "not found"    -> "missing"
    [] probe = "no spawn"     -> "probe failed"

\* version_warning_for_installed: a banner that cannot be read says nothing.
Outdated(version) == version # None /\ version < MinVersion
-----------------------------------------------------------------------------
\* parse_list_all: the containers listed, or None where the shape is not
\* one pall8t knows.
ParseListAll(listing) ==
  IF \/ listing.kind = "garbled"
     \/ \E i \in DOMAIN listing.rows : listing.rows[i].id = None
  THEN None
  ELSE [i \in DOMAIN listing.rows |->
          [listing.rows[i] EXCEPT !.state = IF @ = "running" THEN @ ELSE "stopped"]]

\* is_pall8t_container
IsPall8t(c) == c.labelled \/ c.prefixed

\* list_pall8t
ListPall8t(listing) ==
  IF ParseListAll(listing) = None THEN None
  ELSE SelectSeq(ParseListAll(listing), IsPall8t)

\* Fault: a container whose image is not told is left out.
InUseRefsTold(listing) ==
  LET all == ParseListAll(listing)
  IN IF all = None THEN None
     ELSE {all[i].image : i \in {j \in DOMAIN all : all[j].image # None}}

\* image::in_use_refs: the images containers were created from, or None where
\* one of them cannot be told.
InUseRefs(listing) ==
  LET all == ParseListAll(listing)
  IN IF all = None THEN None
     ELSE IF \E i \in DOMAIN all : all[i].image = None THEN None
     ELSE {all[i].image : i \in DOMAIN all}
-----------------------------------------------------------------------------
\* client_exec_target: what is exec'd for `container' when argv[0] matters.
\* installed is what PATH finds: None, a "binary", a Homebrew "wrapper" whose
\* target can be run, a "stale wrapper" whose target cannot, or a "script" of
\* any other shape.
ClientExecTarget(installed) ==
  IF installed = "wrapper" THEN "target" ELSE "container"

\* exec_container: the argv[0] herdr reads off the client: a script found as
\* `container' execs its target by its own path.
SeenArgv0(installed, arg0) ==
  IF arg0 = None THEN "container"
  ELSE IF ClientExecTarget(installed) = "target" \/ installed = "binary" THEN arg0
  ELSE "container"
=============================================================================
