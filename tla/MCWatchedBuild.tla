--------------------------- MODULE MCWatchedBuild ---------------------------
(***************************************************************************)
(* WatchedBuild with one watched file, and images in the store that look   *)
(* like this project's own.                                                *)
(***************************************************************************)
EXTENDS WatchedBuild

Entry(path, rel) == [path |-> path, rel |-> rel]
Lock == Entry("name", "lock")

\* Nothing watched, one file named twice, a file too many, a way out of the
\* project.
MCConfigs ==
  {[given |-> FALSE, watch |-> << >>], [given |-> FALSE, watch |-> <<Lock, Lock>>],
   [given |-> TRUE, watch |-> <<Lock>>],
   [given |-> FALSE, watch |-> <<Lock, Entry("name", "more")>>],
   [given |-> FALSE, watch |-> <<Entry("up", "lock")>>]}
MCWatched == <<"lock">>

\* Another user's image, one from before tags were hashed, builds of contents
\* the files may have again, and one of them that is known to be bad.
Image(ref, content) == [ref |-> ref, content |-> content]
Own(content) == ImageTagHashed("project", "me", content)
Main(v)      == [f \in {Project} |-> v]
Both         == [f \in {Project, "lock"} |-> 0]
Others ==
  {Image(ImageTagHashed("project", "other user", Main(0)), Main(0)),
   Image(ImageTag("project", "me"), None)}
MCStores ==
  {[images |-> Others, poisoned |-> {}],
   [images |-> Others \cup {Image(Own(Main(0)), Main(0)), Image(Own(Both), Both),
                            Image(Own(Main(1)), Main(0))},
    poisoned |-> {Own(Main(1))}]}
=============================================================================
