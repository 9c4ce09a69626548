------------------------------- MODULE Option -------------------------------
(***************************************************************************)
(* Rust's Option: None, or a value.                                        *)
(***************************************************************************)
CONSTANT None

Opt(S) == S \cup {None}

\* Option::unwrap_or, Option::or.
OrElse(o, d) == IF o = None THEN d ELSE o
=============================================================================
