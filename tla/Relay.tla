-------------------------------- MODULE Relay --------------------------------
(***************************************************************************)
(* The connections of one sandbox's herdr relay (src/src/relay.rs): the    *)
(* accept loop of `serve', which claims a slot before it checks the cap,   *)
(* and the thread of `handle' that reads a first request line under a      *)
(* deadline, decides whether it may cross, connects to herdr and pumps     *)
(* bytes both ways, one direction in a thread of its own.  The client in   *)
(* the sandbox and herdr behind the relay are external.                    *)
(*                                                                         *)
(* A byte stream is modelled by how much of it has been passed on; the     *)
(* first request line is the first LineLen units of it.                    *)
(***************************************************************************)
EXTENDS Naturals, FiniteSets, FiniteSetsExt

CONSTANTS
  Conns,      \* connections clients may make
  None,
  Mode,       \* Mode::Full or Mode::Readonly: "full" or "readonly"
  Cap,        \* MAX_CONNECTIONS
  Deadline,   \* FIRST_LINE_DEADLINE, in ticks
  LineLen,    \* units in a first request line
  ClientBuffer, \* units the client's socket holds unread
  MaxSent,    \* bound: units a client sends in all
  MaxReplies  \* bound: units herdr answers with

ASSUME RelayAssumption ==
  /\ IsFiniteSet(Conns) /\ None \notin Conns
  /\ Mode \in {"full", "readonly"}
  /\ Cap \in Nat \ {0} /\ Deadline \in Nat \ {0}
  /\ ClientBuffer \in Nat \ {0}
  /\ LineLen \in Nat \ {0} /\ MaxSent \in Nat /\ MaxReplies \in Nat

VARIABLES
  conn,     \* each connection: its client, its thread, herdr's side of it
  live,     \* the slots claimed
  accepted, \* the connection in the accept loop's hands, or None
  before    \* what its fetch_add returned

vars == <<conn, live, accepted, before>>

\* The threads of `handle' that exist, and the connections a slot is held for.
Serving(c) == conn[c].at \in {"reading", "deciding", "connecting", "pumping", "joining"}
Holding(c) == Serving(c) \/ conn[c].at = "claimed"

Conn ==
  [at     : {"none", "backlog", "claimed", "reading", "deciding", "connecting",
             "pumping", "joining", "closed"},
   client : {"open", "shut", "gone"},   \* shut: it has nothing more to send
   armed  : BOOLEAN,                    \* a read timeout is set on its socket
   quiet  : 0 .. Deadline,              \* ticks since a read returned
   sent   : 0 .. MaxSent,               \* what the client has written
   taken  : 0 .. MaxSent,               \* what the relay has read of it
   got    : 0 .. MaxSent,               \* what it has forwarded
   fwd    : {"none", "copying", "over"},\* the thread to_upstream
   herdr  : {"none", "open", "closed"},
   said   : 0 .. MaxReplies,            \* what herdr has answered
   back   : 0 .. MaxReplies,            \* what has been copied to the client
   heard  : 0 .. MaxReplies]            \* what the client has read of it

TypeOK ==
  /\ conn \in [Conns -> Conn]
  /\ live \in Nat
  /\ accepted \in Conns \cup {None}
  /\ before \in Nat

Init ==
  /\ conn = [c \in Conns |->
               [at |-> "none", client |-> "open", armed |-> FALSE, quiet |-> 0,
                sent |-> 0, taken |-> 0, got |-> 0, fwd |-> "none",
                herdr |-> "none", said |-> 0, back |-> 0, heard |-> 0]]
  /\ live = 0
  /\ accepted = None
  /\ before = 0

Unread(c) == conn[c].sent > conn[c].taken

\* Fault: the relay shuts its write half only, and a parked read stays parked.
AtEOFOfClient(c) == ~ Unread(c) /\ conn[c].client # "open"

\* read on the client's socket returns 0: nothing is left, and the client has
\* shut its side or the relay the socket.
AtEOF(c) ==
  ~ Unread(c) /\ (conn[c].client # "open" \/ conn[c].at = "joining")

\* The thread ends, and drops what it owns: the slot, the socket, upstream.
Finish(c) ==
  /\ conn' = [conn EXCEPT ![c].at = "closed", ![c].armed = FALSE]
  /\ live' = live - 1
-----------------------------------------------------------------------------
\* The accept loop.

\* accept(2), and the slot is claimed before the cap is looked at.
Accept(c) ==
  /\ accepted = None /\ conn[c].at = "backlog"
  /\ accepted' = c
  /\ before' = live
  /\ live' = live + 1
  /\ conn' = [conn EXCEPT ![c].at = "claimed"]

\* admits: a thread takes the connection and its slot over, and arms the
\* deadline of the first line.
Admit(c) ==
  /\ accepted = c /\ before < Cap
  /\ accepted' = None
  /\ conn' = [conn EXCEPT ![c].at = "reading", ![c].armed = TRUE]
  /\ UNCHANGED <<live, before>>

\* Fault: the slot of a refused connection is not given back.
RefuseAndKeep(c) ==
  /\ accepted = c /\ before >= Cap
  /\ accepted' = None
  /\ conn' = [conn EXCEPT ![c].at = "closed"]
  /\ UNCHANGED <<live, before>>

\* Fault: it is given back by the guard and by hand.
RefuseTwice(c) ==
  /\ accepted = c /\ before >= Cap
  /\ accepted' = None
  /\ conn' = [conn EXCEPT ![c].at = "closed"]
  /\ live' = live - 2
  /\ UNCHANGED before

\* The relay is full: the client is told, and its slot goes back.
Refuse(c) ==
  /\ accepted = c /\ before >= Cap
  /\ accepted' = None
  /\ Finish(c)
  /\ UNCHANGED before
-----------------------------------------------------------------------------
\* handle: the first request line.

\* Fault: the deadline stays set once the line is there.
ReadLineArmed(c) ==
  /\ conn[c].at = "reading" /\ Unread(c)
  /\ conn' = [conn EXCEPT ![c].taken = conn[c].sent,
                          ![c].quiet = 0,
                          ![c].at = IF conn[c].sent >= LineLen THEN "deciding"
                                    ELSE "reading"]
  /\ UNCHANGED <<live, accepted, before>>

\* One read of the socket returns all that is there; it may be less than a
\* line, and more.  Once the line is complete the deadline is cleared.
ReadLine(c) ==
  /\ conn[c].at = "reading" /\ Unread(c)
  /\ LET whole == conn[c].sent >= LineLen
     IN  conn' = [conn EXCEPT ![c].taken = conn[c].sent,
                              ![c].quiet = 0,
                              ![c].armed = ~ whole,
                              ![c].at = IF whole THEN "deciding" ELSE "reading"]
  /\ UNCHANGED <<live, accepted, before>>

\* The client ends before the line does.  Nothing at all ends the thread, a
\* piece of a line is decided upon like any other.
LineEnds(c) ==
  /\ conn[c].at = "reading" /\ AtEOF(c)
  /\ IF conn[c].taken = 0
     THEN Finish(c)
     ELSE /\ conn' = [conn EXCEPT ![c].at = "deciding", ![c].armed = FALSE]
          /\ UNCHANGED live
  /\ UNCHANGED <<accepted, before>>

\* A read that waited the whole deadline fails: before the line that ends the
\* connection, after it it would end the thread that forwards.
ReadTimesOut(c) ==
  /\ conn[c].armed /\ conn[c].quiet = Deadline
  /\ ~ Unread(c) /\ ~ AtEOF(c)
  /\ IF conn[c].at = "reading"
     THEN Finish(c)
     ELSE /\ conn' = [conn EXCEPT ![c].fwd = "over"]
          /\ UNCHANGED live
  /\ UNCHANGED <<accepted, before>>

\* classify and allowed; a line without a method crosses in full mode only.
Classes == {"read", "mutate", "host admin", "no method"}
Allowed(class) ==
  \/ class = "read"
  \/ class \in {"mutate", "no method"} /\ Mode = "full"

\* The decision about the first line.  A piece of a line names no method.
Decide(c) ==
  /\ conn[c].at = "deciding"
  /\ \E class \in Classes :
       /\ conn[c].taken < LineLen => class = "no method"
       /\ IF Allowed(class)
          THEN /\ conn' = [conn EXCEPT ![c].at = "connecting"]
               /\ UNCHANGED live
          ELSE Finish(c)
  /\ UNCHANGED <<accepted, before>>

\* Fault: of what was read only the line is kept.
ConnectDropsRest(c) ==
  /\ conn[c].at = "connecting"
  /\ conn' = [conn EXCEPT ![c].at = "pumping", ![c].herdr = "open",
                          ![c].got = Min({LineLen, conn[c].taken}),
                          ![c].fwd = "over"]
  /\ UNCHANGED <<live, accepted, before>>

\* The line goes to herdr and the pump starts; what the reader has taken
\* beyond the line stays in its buffer.  herdr may not be there.
Connect(c) ==
  /\ conn[c].at = "connecting"
  /\ \/ /\ conn' = [conn EXCEPT ![c].at = "pumping", ![c].herdr = "open",
                                ![c].got = Min({LineLen, conn[c].taken}),
                                ![c].fwd = "copying"]
        /\ UNCHANGED live
     \/ Finish(c)
  /\ UNCHANGED <<accepted, before>>
-----------------------------------------------------------------------------
\* handle: the pump.

\* to_upstream: what is buffered goes first, then what the socket has.  herdr
\* gone, the write fails.
Forward(c) ==
  /\ conn[c].fwd = "copying"
  /\ \/ /\ conn[c].got < conn[c].taken
        /\ conn' = IF conn[c].herdr = "open"
                   THEN [conn EXCEPT ![c].got = conn[c].taken]
                   ELSE [conn EXCEPT ![c].fwd = "over"]
     \/ /\ conn[c].got = conn[c].taken /\ Unread(c)
        /\ conn' = [conn EXCEPT ![c].taken = conn[c].sent, ![c].quiet = 0]
  /\ UNCHANGED <<live, accepted, before>>

\* The client has nothing more to say: herdr is told so.
ForwardEnds(c) ==
  /\ conn[c].fwd = "copying" /\ conn[c].got = conn[c].taken /\ AtEOF(c)
  /\ conn' = [conn EXCEPT ![c].fwd = "over"]
  /\ UNCHANGED <<live, accepted, before>>

\* The thread itself copies herdr's answers back.  The write waits while the
\* client's socket is full, for as long as that is; a client that is gone makes
\* it fail, and that ends the copy.
CopyBack(c) ==
  /\ conn[c].at = "pumping" /\ conn[c].back < conn[c].said
  /\ conn[c].client = "gone" \/ conn[c].back < conn[c].heard + ClientBuffer
  /\ conn' = IF conn[c].client = "gone"
             THEN [conn EXCEPT ![c].at = "joining"]
             ELSE [conn EXCEPT ![c].back = @ + 1]
  /\ UNCHANGED <<live, accepted, before>>

\* Fault: the copy ends as soon as the client has nothing more to send.
CopyStopsWithClient(c) ==
  /\ conn[c].at = "pumping" /\ (conn[c].herdr = "closed" \/ conn[c].fwd = "over")
  /\ conn' = [conn EXCEPT ![c].at = "joining"]
  /\ UNCHANGED <<live, accepted, before>>

\* herdr has closed and all it said is copied: both halves of the client's
\* socket are shut, which is what makes a forwarder parked in read return.
CopyEnds(c) ==
  /\ conn[c].at = "pumping" /\ conn[c].herdr = "closed" /\ conn[c].back = conn[c].said
  /\ conn' = [conn EXCEPT ![c].at = "joining"]
  /\ UNCHANGED <<live, accepted, before>>

\* join, and handle returns.
Join(c) ==
  /\ conn[c].at = "joining" /\ conn[c].fwd = "over"
  /\ Finish(c)
  /\ UNCHANGED <<accepted, before>>
-----------------------------------------------------------------------------
\* The client, herdr, and time.

ClientConnects(c) ==
  /\ conn[c].at = "none"
  /\ conn' = [conn EXCEPT ![c].at = "backlog"]
  /\ UNCHANGED <<live, accepted, before>>

\* A client writes what it likes when it likes, a first line in pieces too.
ClientSends(c) ==
  /\ conn[c].at \notin {"none", "joining", "closed"} /\ conn[c].client = "open"
  /\ \E n \in conn[c].sent + 1 .. MaxSent : conn' = [conn EXCEPT ![c].sent = n]
  /\ UNCHANGED <<live, accepted, before>>

\* A client reads what it likes of its answers; what it reads once the copy is
\* over changes nothing.
ClientReads(c) ==
  /\ conn[c].at = "pumping" /\ conn[c].client # "gone" /\ conn[c].heard < conn[c].back
  /\ conn' = [conn EXCEPT ![c].heard = @ + 1]
  /\ UNCHANGED <<live, accepted, before>>

ClientLeaves(c) ==
  /\ conn[c].at \notin {"none", "closed"}
  /\ \/ conn[c].client = "open" /\ conn' = [conn EXCEPT ![c].client = "shut"]
     \/ conn[c].client # "gone" /\ conn' = [conn EXCEPT ![c].client = "gone"]
  /\ UNCHANGED <<live, accepted, before>>

HerdrAnswers(c) ==
  /\ Serving(c) /\ conn[c].herdr = "open" /\ conn[c].said < MaxReplies
  /\ conn' = [conn EXCEPT ![c].said = @ + 1]
  /\ UNCHANGED <<live, accepted, before>>

HerdrCloses(c) ==
  /\ Serving(c) /\ conn[c].herdr = "open"
  /\ conn' = [conn EXCEPT ![c].herdr = "closed"]
  /\ UNCHANGED <<live, accepted, before>>

\* A tick of the clock.  A read that has something to return, or has waited
\* its whole timeout, returns before the next one.
Tick ==
  /\ \E c \in Conns : conn[c].armed
  /\ \A c \in Conns : conn[c].armed =>
       ~ Unread(c) /\ ~ AtEOF(c) /\ conn[c].quiet < Deadline
  /\ conn' = [c \in Conns |->
                IF conn[c].armed
                THEN [conn[c] EXCEPT !.quiet = @ + 1]
                ELSE conn[c]]
  /\ UNCHANGED <<live, accepted, before>>
-----------------------------------------------------------------------------
Thread(c) ==
  \/ ReadLine(c) \/ LineEnds(c) \/ ReadTimesOut(c) \/ Decide(c) \/ Connect(c)
  \/ CopyBack(c) \/ CopyEnds(c) \/ Join(c)

Forwarder(c) == Forward(c) \/ ForwardEnds(c)

AcceptLoop(c) == Accept(c) \/ Admit(c) \/ Refuse(c)

Client(c) == ClientConnects(c) \/ ClientSends(c) \/ ClientReads(c) \/ ClientLeaves(c)

Herdr(c) == HerdrAnswers(c) \/ HerdrCloses(c)

Next ==
  \/ \E c \in Conns :
       AcceptLoop(c) \/ Thread(c) \/ Forwarder(c) \/ Client(c) \/ Herdr(c)
  \/ Tick

Spec == Init /\ [][Next]_vars

\* The relay's threads are scheduled and time passes.  Nothing is assumed of the
\* client, that it reads its answers included, or of herdr: that it accepts, or
\* takes what is written to it, is not.
FairSpec ==
  /\ Spec
  /\ WF_vars(Tick)
  /\ \A c \in Conns :
       /\ WF_vars(AcceptLoop(c))
       /\ WF_vars(conn[c].at # "connecting" /\ Thread(c))
       /\ WF_vars(conn[c].herdr # "open" /\ Forwarder(c))
-----------------------------------------------------------------------------
\* The count of slots is the number of connections they are held for, whichever
\* way a connection ends: the cap never ratchets down (Slot).
SlotsMatch == live = Cardinality({c \in Conns : Holding(c)})

\* No more connections are served at once than the cap says (MAX_CONNECTIONS,
\* admits), with connections ending at any moment between the claim of a slot
\* and the check.
WithinCap == Cardinality({c \in Conns : Serving(c)}) <= Cap

\* All a client sent before it shut its side has been forwarded when herdr is
\* told that nothing more comes: what the reader took past the first line too.
PipelinedForwarded ==
  \A c \in Conns :
    (conn[c].at = "pumping" /\ conn[c].fwd = "over" /\ conn[c].herdr = "open")
      => conn[c].got = conn[c].sent

\* A client that is still there has all of herdr's answer when the relay closes
\* a conversation with it, a client that shut its own side first included.
AnswersDelivered ==
  \A c \in Conns :
    (conn[c].at = "joining" /\ conn[c].client # "gone")
      => conn[c].herdr = "closed" /\ conn[c].back = conn[c].said

\* An established conversation is never cut by the relay, however long both
\* sides are silent: the deadline ends with the first line.
EstablishedNotCut ==
  [][\A c \in Conns :
       (conn[c].at = "pumping" /\ conn[c].client = "open" /\ conn[c].herdr = "open")
         => conn'[c].at = "pumping" /\ conn'[c].fwd = conn[c].fwd]_vars

\* The copy waits for a client that is there and does not read: no timeout ends
\* this.
HeldByClient(c) ==
  /\ conn[c].at = "pumping" /\ conn[c].client # "gone"
  /\ conn[c].back < conn[c].said /\ conn[c].back = conn[c].heard + ClientBuffer

\* A slot comes back from a client that neither speaks nor closes: before the
\* first line it is given up, and a conversation herdr has closed is wound up
\* as soon as the client has room for the rest of the answer, a forwarder
\* parked in a read of a silent client included (FIRST_LINE_DEADLINE,
\* issue #85).  A client that does not read its answer keeps it.
SlotComesBack ==
  \A c \in Conns :
    /\ (conn[c].at = "reading") ~> (conn[c].at # "reading")
    /\ (conn[c].at = "pumping" /\ conn[c].herdr = "closed") ~>
         (conn[c].at = "closed" \/ HeldByClient(c))
=============================================================================
