----------------------------- MODULE RelayProofs -----------------------------
(***************************************************************************)
(* Proofs about Relay, for any finite set of connections, any cap, any     *)
(* deadline and any length of a line or of a conversation.                 *)
(***************************************************************************)
EXTENDS Relay, FiniteSetTheorems, TLAPS

\* The connections a slot is held for, and those a thread serves.
Held   == {c \in Conns : Holding(c)}
Served == {c \in Conns : Serving(c)}

\* What holds of one connection by itself: the deadline is set while the first
\* line is read and not after; the forwarder of an established conversation
\* ends only when all is forwarded and nothing more can come; and a
\* conversation is wound up only when all of herdr's answer has been copied,
\* or nobody is there to read it.
Good(k) ==
  /\ k.armed => k.at = "reading"
  /\ k.got <= k.taken /\ k.taken <= k.sent
  /\ (k.at = "pumping" /\ k.fwd = "over" /\ k.herdr = "open") =>
       k.got = k.sent /\ k.client # "open"
  /\ (k.at = "joining" /\ k.client # "gone") =>
       k.herdr = "closed" /\ k.back = k.said

\* The inductive invariant.  What the accept loop read before it claimed its
\* slot still bounds the connections served, because only the loop adds to them.
RInv ==
  /\ TypeOK
  /\ SlotsMatch
  /\ WithinCap
  /\ \A c \in Conns : conn[c].at = "claimed" <=> accepted = c
  /\ accepted # None => Cardinality(Served) <= before
  /\ \A c \in Conns : Good(conn[c])

LEMMA MinOfTwo ==
  ASSUME NEW m \in Nat, NEW n \in Nat
  PROVE  Min({m, n}) \in {m, n} /\ Min({m, n}) <= m /\ Min({m, n}) <= n
<1>1. \E x \in {m, n} : \A y \in {m, n} : x <= y
  BY SMT
<1> QED BY <1>1 DEF Min

LEMMA HeldFinite ==
  /\ IsFiniteSet(Held) /\ Cardinality(Held) \in Nat
  /\ IsFiniteSet(Served) /\ Cardinality(Served) \in Nat
<1>1. Held \subseteq Conns /\ Served \subseteq Conns
  BY DEF Held, Served
<1> QED BY <1>1, FS_Subset, FS_CardinalityType, RelayAssumption

\* A step that changes the record of one connection, and leaves it well formed.
Moves(c) ==
  /\ conn' \in [Conns -> Conn]
  /\ \A d \in Conns : d # c => conn'[d] = conn[d]
  /\ Good(conn'[c])

\* Setting the whole record of a connection to a well-formed one is such a step.
LEMMA Change ==
  ASSUME RInv, NEW c \in Conns, NEW k \in Conn, Good(k), conn' = [conn EXCEPT ![c] = k]
  PROVE  Moves(c) /\ conn'[c] = k
<1>1. conn \in [Conns -> Conn]
  BY DEF RInv, TypeOK
<1>2. conn' \in [Conns -> Conn] /\ conn'[c] = k /\ \A d \in Conns : d # c => conn'[d] = conn[d]
  BY <1>1
<1> QED BY <1>2 DEF Moves

\* A step of one connection that neither takes a slot nor gives one back.
LEMMA Stays ==
  ASSUME RInv, NEW c \in Conns, Moves(c),
         UNCHANGED <<live, accepted, before>>,
         \/ Serving(c) /\ Serving(c)'
         \/ ~ Holding(c) /\ ~ Holding(c)'
         \/ conn'[c].at = conn[c].at
  PROVE  RInv'
<1>1. \A d \in Conns : (Serving(d)' <=> Serving(d)) /\ (Holding(d)' <=> Holding(d))
  BY DEF Moves, Serving, Holding
<1>2. Served' = Served /\ Held' = Held
  BY <1>1 DEF Served, Held
<1>3. TypeOK'
  BY DEF RInv, TypeOK, Moves
<1>4. SlotsMatch' /\ WithinCap'
  BY <1>2 DEF RInv, SlotsMatch, WithinCap, Served, Held
<1>5. \A d \in Conns : conn'[d].at = "claimed" <=> accepted' = d
  BY <1>1 DEF RInv, Serving, Holding, Moves
<1>6. accepted' # None => Cardinality(Served') <= before'
  BY <1>2 DEF RInv
<1>7. \A d \in Conns : Good(conn'[d])
  BY DEF RInv, Moves
<1> QED BY <1>3, <1>4, <1>5, <1>6, <1>7 DEF RInv

\* What a thread leaves behind when it ends.
LEMMA Finishes ==
  ASSUME RInv, NEW c \in Conns, Finish(c)
  PROVE  Moves(c) /\ conn'[c].at = "closed"
<1> DEFINE k == [conn[c] EXCEPT !.at = "closed", !.armed = FALSE]
<1>1. conn \in [Conns -> Conn] /\ conn[c] \in Conn /\ Good(conn[c])
  BY DEF RInv, TypeOK
<1>2. conn' = [conn EXCEPT ![c] = k]
  BY <1>1 DEF Finish
<1>3. k \in Conn
  BY <1>1 DEF Conn
<1>4. k.at = "closed" /\ k.armed = FALSE
  BY <1>1 DEF Conn
<1>5. k.got = conn[c].got /\ k.taken = conn[c].taken /\ k.sent = conn[c].sent
  BY <1>1 DEF Conn
<1>6. Good(k)
  BY <1>1, <1>4, <1>5 DEF Good
<1> HIDE DEF k
<1> QED BY <1>2, <1>3, <1>4, <1>6, Change

\* The end of a thread, or of a connection that gets none: its slot goes back,
\* and nobody else's.
LEMMA GivesBack ==
  ASSUME RInv, NEW c \in Conns, Holding(c), Finish(c)
  PROVE  /\ Served' = Served \ {c}
         /\ live' \in Nat
         /\ SlotsMatch'
<1>1. Moves(c) /\ conn'[c].at = "closed"
  BY Finishes
<1>2. \A d \in Conns : d # c => (Serving(d)' <=> Serving(d)) /\ (Holding(d)' <=> Holding(d))
  BY <1>1 DEF Moves, Serving, Holding
<1>3. ~ Serving(c)' /\ ~ Holding(c)'
  BY <1>1 DEF Holding, Serving
<1>4. Served' = Served \ {c} /\ Held' = Held \ {c}
  BY <1>2, <1>3 DEF Served, Held
<1>5. c \in Held
  BY DEF Held
<1>6. Cardinality(Held') = Cardinality(Held) - 1
  BY <1>4, <1>5, HeldFinite, FS_RemoveElement
<1>7. IsFiniteSet(Held') /\ Cardinality(Held') \in Nat
  BY <1>4, HeldFinite, FS_RemoveElement, FS_CardinalityType
<1>8. live' = Cardinality(Held')
  BY <1>6 DEF RInv, SlotsMatch, Held, Finish
<1> QED BY <1>4, <1>7, <1>8 DEF SlotsMatch, Held

LEMMA Ends ==
  ASSUME RInv, NEW c \in Conns, Serving(c), Finish(c), UNCHANGED <<accepted, before>>
  PROVE  RInv'
<1>1. Moves(c) /\ conn'[c].at = "closed"
  BY Finishes
<1>2. Served' = Served \ {c} /\ live' \in Nat /\ SlotsMatch'
  BY GivesBack DEF Holding
<1>3. c \in Served
  BY DEF Served
<1>4. Cardinality(Served') = Cardinality(Served) - 1
  BY <1>2, <1>3, HeldFinite, FS_RemoveElement
<1>5. TypeOK'
  BY <1>1, <1>2 DEF RInv, TypeOK, Moves
<1>6. WithinCap'
  BY <1>4, HeldFinite, RelayAssumption DEF RInv, WithinCap, Served
<1>7. \A d \in Conns : conn'[d].at = "claimed" <=> accepted' = d
  BY <1>1 DEF RInv, Serving, Moves
<1>8. accepted' # None => Cardinality(Served') <= before'
  BY <1>4, HeldFinite DEF RInv, TypeOK
<1>9. \A d \in Conns : Good(conn'[d])
  BY <1>1 DEF RInv, Moves
<1> QED BY <1>2, <1>5, <1>6, <1>7, <1>8, <1>9 DEF RInv

\* The accept loop turns a connection away: nobody is served the less.
LEMMA RefuseRInv ==
  ASSUME RInv, NEW c \in Conns, Refuse(c)
  PROVE  RInv'
<1>1. conn[c].at = "claimed" /\ accepted' = None /\ Finish(c)
  BY DEF RInv, Refuse
<1>2. Moves(c) /\ conn'[c].at = "closed"
  BY <1>1, Finishes
<1>3. Served' = Served \ {c} /\ live' \in Nat /\ SlotsMatch'
  BY <1>1, GivesBack DEF Holding
<1>4. c \notin Served
  BY <1>1 DEF Served, Serving
<1>5. Served' = Served
  BY <1>3, <1>4
<1>6. TypeOK'
  BY <1>1, <1>2, <1>3 DEF RInv, TypeOK, Moves, Refuse
<1>7. WithinCap'
  BY <1>5 DEF RInv, WithinCap, Served
<1>8. \A d \in Conns : conn'[d].at = "claimed" <=> accepted' = d
  BY <1>1, <1>2, RelayAssumption DEF RInv, Refuse, Moves
<1>9. \A d \in Conns : Good(conn'[d])
  BY <1>2 DEF RInv, Moves
<1> QED BY <1>1, <1>3, <1>6, <1>7, <1>8, <1>9 DEF RInv

\* The accept loop claims a slot: with no other connection in its hands, the
\* slots held are those of the connections served.
LEMMA AcceptRInv ==
  ASSUME RInv, NEW c \in Conns, Accept(c)
  PROVE  RInv'
<1> DEFINE k == [conn[c] EXCEPT !.at = "claimed"]
<1>1. conn[c] \in Conn /\ Good(conn[c]) /\ conn[c].at = "backlog" /\ accepted = None
  BY DEF RInv, TypeOK, Accept
<1>2. conn' = [conn EXCEPT ![c] = k]
  BY DEF Accept
<1>3. k \in Conn /\ Good(k) /\ k.at = "claimed"
  BY <1>1 DEF Conn, Good
<1>4. Moves(c) /\ conn'[c].at = "claimed"
  <2> HIDE DEF k
  <2> QED BY <1>2, <1>3, Change
<1>5. \A d \in Conns : conn[d].at # "claimed"
  BY <1>1, RelayAssumption DEF RInv
<1>6. Held = Served
  BY <1>5 DEF Held, Served, Holding
<1>7. Served' = Served /\ Held' = Held \cup {c} /\ c \notin Held
  BY <1>1, <1>4 DEF Held, Served, Holding, Serving, Moves
<1>8. Cardinality(Held') = Cardinality(Held) + 1
  BY <1>7, HeldFinite, FS_AddElement
<1>9. TypeOK'
  BY <1>4 DEF RInv, TypeOK, Moves, Accept
<1>10. SlotsMatch'
  BY <1>8 DEF RInv, SlotsMatch, Held, Accept
<1>11. WithinCap'
  BY <1>7 DEF RInv, WithinCap, Served
<1>12. \A d \in Conns : conn'[d].at = "claimed" <=> accepted' = d
  BY <1>4, <1>5 DEF Accept, Moves
<1>13. Cardinality(Served') <= before'
  <2>1. before' = live /\ live = Cardinality(Held)
    BY DEF RInv, SlotsMatch, Held, Accept
  <2>2. Served' = Held
    BY <1>6, <1>7
  <2>3. Cardinality(Served') = before' /\ Cardinality(Held) \in Nat
    BY <2>1, <2>2, HeldFinite
  <2> QED BY <2>1, <2>2, <2>3
<1>14. \A d \in Conns : Good(conn'[d])
  BY <1>4 DEF RInv, Moves
<1> QED BY <1>9, <1>10, <1>11, <1>12, <1>13, <1>14 DEF RInv

\* The accept loop hands a connection over to a thread, below the cap.
LEMMA AdmitRInv ==
  ASSUME RInv, NEW c \in Conns, Admit(c)
  PROVE  RInv'
<1> DEFINE k == [conn[c] EXCEPT !.at = "reading", !.armed = TRUE]
<1>1. conn[c] \in Conn /\ Good(conn[c]) /\ conn[c].at = "claimed"
  BY DEF RInv, TypeOK, Admit
<1>2. conn' = [conn EXCEPT ![c] = k]
  BY <1>1 DEF RInv, TypeOK, Admit
<1>3. k \in Conn /\ k.at = "reading"
  BY <1>1 DEF Conn
<1>4. Good(k)
  BY <1>1 DEF Conn, Good
<1>5. Moves(c) /\ conn'[c].at = "reading"
  <2> HIDE DEF k
  <2> QED BY <1>2, <1>3, <1>4, Change
<1>6. Served' = Served \cup {c} /\ Held' = Held /\ c \notin Served
  BY <1>1, <1>5 DEF Held, Served, Holding, Serving, Moves
<1>7. Cardinality(Served') = Cardinality(Served) + 1
  BY <1>6, HeldFinite, FS_AddElement
<1>8. Cardinality(Served) <= before /\ before < Cap
  BY RelayAssumption DEF RInv, Admit
<1>9. TypeOK'
  BY <1>5 DEF RInv, TypeOK, Moves, Admit
<1>10. SlotsMatch'
  BY <1>6 DEF RInv, SlotsMatch, Held, Admit
<1>11. WithinCap'
  BY <1>7, <1>8, HeldFinite, RelayAssumption DEF RInv, TypeOK, WithinCap, Served
<1>12. \A d \in Conns : conn'[d].at = "claimed" <=> accepted' = d
  BY <1>1, <1>5, RelayAssumption DEF RInv, Admit, Moves
<1>13. accepted' = None
  BY DEF Admit
<1>14. \A d \in Conns : Good(conn'[d])
  BY <1>5 DEF RInv, Moves
<1> QED BY <1>9, <1>10, <1>11, <1>12, <1>13, <1>14 DEF RInv

\* A read of the first line: the deadline is cleared as soon as it is whole.
LEMMA ReadLineRInv ==
  ASSUME RInv, NEW c \in Conns, ReadLine(c)
  PROVE  RInv'
<1> DEFINE whole == conn[c].sent >= LineLen
           k == [conn[c] EXCEPT !.taken = conn[c].sent, !.quiet = 0, !.armed = ~ whole,
                                !.at = IF whole THEN "deciding" ELSE "reading"]
<1>1. conn[c] \in Conn /\ Good(conn[c]) /\ Unread(c) /\ conn[c].at = "reading"
  BY DEF RInv, TypeOK, ReadLine
<1>2. conn' = [conn EXCEPT ![c] = k]
  BY DEF RInv, TypeOK, ReadLine
<1>3. /\ whole \in BOOLEAN /\ conn[c].got <= conn[c].sent
      /\ 0 \in 0 .. Deadline /\ conn[c].sent \in 0 .. MaxSent
  BY <1>1, RelayAssumption DEF Conn, Good
<1> HIDE DEF whole
<1>4. k \in Conn /\ Good(k) /\ k.at \in {"reading", "deciding"}
  <2>1. CASE whole
    <3> DEFINE j == [conn[c] EXCEPT !.taken = conn[c].sent, !.quiet = 0, !.armed = FALSE,
                                    !.at = "deciding"]
    <3>1. k = j
      BY <2>1
    <3>2. j \in Conn
      BY <1>1, <1>3 DEF Conn
    <3>3. Good(j) /\ j.at = "deciding"
      BY <1>1, <1>3 DEF Conn, Good
    <3> HIDE DEF k, j
    <3> QED BY <3>1, <3>2, <3>3
  <2>2. CASE ~ whole
    <3> DEFINE j == [conn[c] EXCEPT !.taken = conn[c].sent, !.quiet = 0, !.armed = TRUE,
                                    !.at = "reading"]
    <3>1. k = j
      BY <2>2
    <3>2. j \in Conn
      BY <1>1, <1>3 DEF Conn
    <3>3. Good(j) /\ j.at = "reading"
      BY <1>1, <1>3 DEF Conn, Good
    <3> HIDE DEF k, j
    <3> QED BY <3>1, <3>2, <3>3
  <2> QED BY <1>3, <2>1, <2>2
<1>5. Moves(c) /\ conn'[c].at \in {"reading", "deciding"}
  <2> HIDE DEF k
  <2> QED BY <1>2, <1>4, Change
<1> QED BY <1>1, <1>5, Stays DEF Serving, ReadLine

\* The client ends within the first line.
LEMMA LineEndsRInv ==
  ASSUME RInv, NEW c \in Conns, LineEnds(c)
  PROVE  RInv'
<1> DEFINE k == [conn[c] EXCEPT !.at = "deciding", !.armed = FALSE]
<1>1. conn[c] \in Conn /\ Good(conn[c]) /\ conn[c].at = "reading"
  BY DEF RInv, TypeOK, LineEnds
<1>2. CASE Finish(c)
  BY <1>1, <1>2, Ends DEF LineEnds, Serving
<1>3. CASE ~ Finish(c)
  <2>1. conn' = [conn EXCEPT ![c] = k] /\ UNCHANGED <<live, accepted, before>>
    BY <1>1, <1>3 DEF RInv, TypeOK, LineEnds
  <2>2. k \in Conn
    BY <1>1 DEF Conn
  <2>3. Good(k) /\ k.at = "deciding"
    BY <1>1 DEF Conn, Good
  <2>4. Moves(c) /\ conn'[c].at = "deciding"
    <3> HIDE DEF k
    <3> QED BY <2>1, <2>2, <2>3, Change
  <2> QED BY <1>1, <2>1, <2>4, Stays DEF Serving
<1> QED BY <1>2, <1>3

\* A deadline that has passed: it is only ever the first line's.
LEMMA ReadTimesOutRInv ==
  ASSUME RInv, NEW c \in Conns, ReadTimesOut(c)
  PROVE  RInv'
<1>1. conn[c].at = "reading"
  BY DEF RInv, Good, ReadTimesOut
<1> QED BY <1>1, Ends DEF ReadTimesOut, Serving

\* The decision about the first line.
LEMMA DecideRInv ==
  ASSUME RInv, NEW c \in Conns, Decide(c)
  PROVE  RInv'
<1> DEFINE k == [conn[c] EXCEPT !.at = "connecting"]
<1>1. conn[c] \in Conn /\ Good(conn[c]) /\ conn[c].at = "deciding"
  BY DEF RInv, TypeOK, Decide
<1>2. CASE Finish(c)
  BY <1>1, <1>2, Ends DEF Decide, Serving
<1>3. CASE ~ Finish(c)
  <2>1. conn' = [conn EXCEPT ![c] = k] /\ UNCHANGED <<live, accepted, before>>
    BY <1>3 DEF Decide
  <2>2. k \in Conn
    BY <1>1 DEF Conn
  <2>3. Good(k) /\ k.at = "connecting"
    BY <1>1 DEF Conn, Good
  <2>4. Moves(c) /\ conn'[c].at = "connecting"
    <3> HIDE DEF k
    <3> QED BY <2>1, <2>2, <2>3, Change
  <2> QED BY <1>1, <2>1, <2>4, Stays DEF Serving
<1> QED BY <1>2, <1>3

\* The pump starts, with the first line passed on and no more.
LEMMA ConnectRInv ==
  ASSUME RInv, NEW c \in Conns, Connect(c)
  PROVE  RInv'
<1> DEFINE m == Min({LineLen, conn[c].taken})
           k == [conn[c] EXCEPT !.at = "pumping", !.herdr = "open", !.got = m,
                                !.fwd = "copying"]
<1>1. conn[c] \in Conn /\ Good(conn[c]) /\ conn[c].at = "connecting"
  BY DEF RInv, TypeOK, Connect
<1>2. CASE Finish(c)
  BY <1>1, <1>2, Ends DEF Connect, Serving
<1>3. CASE ~ Finish(c)
  <2>1. conn' = [conn EXCEPT ![c] = k] /\ UNCHANGED <<live, accepted, before>>
    BY <1>1, <1>3 DEF RInv, TypeOK, Connect
  <2>2. m \in 0 .. MaxSent /\ m <= conn[c].taken
    <3>1. conn[c].taken \in Nat /\ conn[c].taken <= MaxSent /\ LineLen \in Nat /\ MaxSent \in Nat
      BY <1>1, RelayAssumption DEF Conn
    <3>2. m \in {LineLen, conn[c].taken} /\ m <= conn[c].taken
      BY <3>1, MinOfTwo
    <3> HIDE DEF m
    <3> QED BY <3>1, <3>2
  <2> HIDE DEF m
  <2>3. k \in Conn
    BY <1>1, <2>2 DEF Conn
  <2>4. Good(k) /\ k.at = "pumping"
    BY <1>1, <2>2 DEF Conn, Good
  <2>5. Moves(c) /\ conn'[c].at = "pumping"
    <3> HIDE DEF k
    <3> QED BY <2>1, <2>3, <2>4, Change
  <2> QED BY <1>1, <2>1, <2>5, Stays DEF Serving
<1> QED BY <1>2, <1>3

\* The forwarder passes on what is buffered, or reads more.
LEMMA ForwardRInv ==
  ASSUME RInv, NEW c \in Conns, Forward(c)
  PROVE  RInv'
<1>1. /\ conn[c] \in Conn /\ Good(conn[c]) /\ conn \in [Conns -> Conn]
      /\ conn[c].fwd = "copying" /\ UNCHANGED <<live, accepted, before>>
  BY DEF RInv, TypeOK, Forward
<1>2. ASSUME NEW k \in Conn, Good(k), k.at = conn[c].at, conn' = [conn EXCEPT ![c] = k]
      PROVE  RInv'
  BY <1>1, <1>2, Change, Stays
<1>3. CASE conn' = [conn EXCEPT ![c].got = conn[c].taken]
  <2> DEFINE k == [conn[c] EXCEPT !.got = conn[c].taken]
  <2>1. conn' = [conn EXCEPT ![c] = k]
    BY <1>1, <1>3
  <2>2. k \in Conn
    BY <1>1 DEF Conn
  <2>3. Good(k) /\ k.at = conn[c].at
    BY <1>1, RelayAssumption DEF Conn, Good
  <2> HIDE DEF k
  <2> QED BY <1>2, <2>1, <2>2, <2>3
<1>4. CASE conn[c].herdr # "open" /\ conn' = [conn EXCEPT ![c].fwd = "over"]
  <2> DEFINE k == [conn[c] EXCEPT !.fwd = "over"]
  <2>1. conn' = [conn EXCEPT ![c] = k]
    BY <1>1, <1>4
  <2>2. k \in Conn
    BY <1>1 DEF Conn
  <2>3. Good(k) /\ k.at = conn[c].at
    BY <1>1, <1>4 DEF Conn, Good
  <2> HIDE DEF k
  <2> QED BY <1>2, <2>1, <2>2, <2>3
<1>5. CASE conn' = [conn EXCEPT ![c].taken = conn[c].sent, ![c].quiet = 0]
  <2> DEFINE k == [conn[c] EXCEPT !.taken = conn[c].sent, !.quiet = 0]
  <2>1. conn' = [conn EXCEPT ![c] = k]
    BY <1>1, <1>5
  <2>2. 0 \in 0 .. Deadline /\ conn[c].sent \in 0 .. MaxSent /\ conn[c].got <= conn[c].sent
    BY <1>1, RelayAssumption DEF Conn, Good
  <2>3. k \in Conn
    BY <1>1, <2>2 DEF Conn
  <2>4. Good(k) /\ k.at = conn[c].at
    BY <1>1, <2>2 DEF Conn, Good
  <2> HIDE DEF k
  <2> QED BY <1>2, <2>1, <2>3, <2>4
<1> QED BY <1>3, <1>4, <1>5 DEF Forward

\* The forwarder ends: all is forwarded, and the client has shut its side.
LEMMA ForwardEndsRInv ==
  ASSUME RInv, NEW c \in Conns, ForwardEnds(c)
  PROVE  RInv'
<1> DEFINE k == [conn[c] EXCEPT !.fwd = "over"]
<1>1. conn[c] \in Conn /\ Good(conn[c]) /\ conn' = [conn EXCEPT ![c] = k]
  BY DEF RInv, TypeOK, ForwardEnds
<1>2. conn[c].got = conn[c].sent
  BY <1>1, RelayAssumption DEF Conn, Good, ForwardEnds, AtEOF, Unread
<1>3. conn[c].client # "open" \/ conn[c].at = "joining"
  BY DEF ForwardEnds, AtEOF
<1>4. k \in Conn
  BY <1>1 DEF Conn
<1>5. Good(k) /\ k.at = conn[c].at
  BY <1>1, <1>2, <1>3 DEF Conn, Good
<1>6. Moves(c) /\ conn'[c].at = conn[c].at
  <2> HIDE DEF k
  <2> QED BY <1>1, <1>4, <1>5, Change
<1> QED BY <1>6, Stays DEF ForwardEnds

\* One answer of herdr's is copied, or cannot be: nobody reads it any more.
LEMMA CopyBackRInv ==
  ASSUME RInv, NEW c \in Conns, CopyBack(c)
  PROVE  RInv'
<1>1. /\ conn[c] \in Conn /\ Good(conn[c]) /\ conn \in [Conns -> Conn]
      /\ conn[c].at = "pumping" /\ UNCHANGED <<live, accepted, before>>
  BY DEF RInv, TypeOK, CopyBack
<1>2. CASE conn[c].client = "gone"
  <2> DEFINE k == [conn[c] EXCEPT !.at = "joining"]
  <2>1. conn' = [conn EXCEPT ![c] = k]
    BY <1>1, <1>2 DEF CopyBack
  <2>2. k \in Conn
    BY <1>1 DEF Conn
  <2>3. Good(k) /\ k.at = "joining"
    BY <1>1, <1>2 DEF Conn, Good
  <2>4. Moves(c) /\ conn'[c].at = "joining"
    <3> HIDE DEF k
    <3> QED BY <2>1, <2>2, <2>3, Change
  <2> QED BY <1>1, <2>4, Stays DEF Serving
<1>3. CASE conn[c].client # "gone"
  <2> DEFINE k == [conn[c] EXCEPT !.back = conn[c].back + 1]
  <2>1. conn' = [conn EXCEPT ![c] = k]
    BY <1>1, <1>3 DEF CopyBack
  <2>2. conn[c].back + 1 \in 0 .. MaxReplies
    BY <1>1, RelayAssumption DEF Conn, CopyBack
  <2>3. k \in Conn
    BY <1>1, <2>2 DEF Conn
  <2>4. Good(k) /\ k.at = "pumping"
    BY <1>1 DEF Conn, Good
  <2>5. Moves(c) /\ conn'[c].at = "pumping"
    <3> HIDE DEF k
    <3> QED BY <2>1, <2>3, <2>4, Change
  <2> QED BY <1>1, <2>5, Stays DEF Serving
<1> QED BY <1>2, <1>3

\* The answer is whole: the thread stops copying.
LEMMA CopyEndsRInv ==
  ASSUME RInv, NEW c \in Conns, CopyEnds(c)
  PROVE  RInv'
<1> DEFINE k == [conn[c] EXCEPT !.at = "joining"]
<1>1. conn[c] \in Conn /\ Good(conn[c]) /\ conn' = [conn EXCEPT ![c] = k]
  BY DEF RInv, TypeOK, CopyEnds
<1>2. k \in Conn
  BY <1>1 DEF Conn
<1>3. Good(k) /\ k.at = "joining"
  BY <1>1 DEF Conn, Good, CopyEnds
<1>4. Moves(c) /\ conn'[c].at = "joining"
  <2> HIDE DEF k
  <2> QED BY <1>1, <1>2, <1>3, Change
<1> QED BY <1>4, Stays DEF Serving, CopyEnds

\* A client asks for a connection.
LEMMA ClientConnectsRInv ==
  ASSUME RInv, NEW c \in Conns, ClientConnects(c)
  PROVE  RInv'
<1> DEFINE k == [conn[c] EXCEPT !.at = "backlog"]
<1>1. conn[c] \in Conn /\ Good(conn[c]) /\ conn' = [conn EXCEPT ![c] = k]
  BY DEF RInv, TypeOK, ClientConnects
<1>2. k \in Conn
  BY <1>1 DEF Conn
<1>3. Good(k) /\ k.at = "backlog"
  BY <1>1 DEF Conn, Good, ClientConnects
<1>4. Moves(c) /\ conn'[c].at = "backlog"
  <2> HIDE DEF k
  <2> QED BY <1>1, <1>2, <1>3, Change
<1> QED BY <1>4, Stays DEF Serving, Holding, ClientConnects

\* A client writes: only one that has not shut its side.
LEMMA ClientSendsRInv ==
  ASSUME RInv, NEW c \in Conns, ClientSends(c)
  PROVE  RInv'
<1>1. PICK n \in conn[c].sent + 1 .. MaxSent : conn' = [conn EXCEPT ![c].sent = n]
  BY DEF ClientSends
<1> DEFINE k == [conn[c] EXCEPT !.sent = n]
<1>2. conn[c] \in Conn /\ Good(conn[c]) /\ conn' = [conn EXCEPT ![c] = k]
  BY <1>1 DEF RInv, TypeOK
<1>3. conn[c].client = "open" /\ conn[c].at # "joining"
  BY DEF ClientSends
<1>4. n \in 0 .. MaxSent /\ conn[c].taken <= n
  BY <1>2, RelayAssumption DEF Conn, Good
<1>5. k \in Conn
  BY <1>2, <1>4 DEF Conn
<1>6. Good(k) /\ k.at = conn[c].at
  BY <1>2, <1>3, <1>4 DEF Conn, Good
<1>7. Moves(c) /\ conn'[c].at = conn[c].at
  <2> HIDE DEF k
  <2> QED BY <1>2, <1>5, <1>6, Change
<1> QED BY <1>7, Stays DEF ClientSends

\* A client reads what has been copied to it.
LEMMA ClientReadsRInv ==
  ASSUME RInv, NEW c \in Conns, ClientReads(c)
  PROVE  RInv'
<1> DEFINE k == [conn[c] EXCEPT !.heard = conn[c].heard + 1]
<1>1. conn[c] \in Conn /\ Good(conn[c]) /\ conn' = [conn EXCEPT ![c] = k]
  BY DEF RInv, TypeOK, ClientReads
<1>2. conn[c].heard + 1 \in 0 .. MaxReplies
  BY <1>1, RelayAssumption DEF Conn, ClientReads
<1>3. k \in Conn
  BY <1>1, <1>2 DEF Conn
<1>4. Good(k) /\ k.at = conn[c].at
  BY <1>1 DEF Conn, Good
<1>5. Moves(c) /\ conn'[c].at = conn[c].at
  <2> HIDE DEF k
  <2> QED BY <1>1, <1>3, <1>4, Change
<1> QED BY <1>5, Stays DEF ClientReads

\* A client shuts its side, or goes away.
LEMMA ClientLeavesRInv ==
  ASSUME RInv, NEW c \in Conns, ClientLeaves(c)
  PROVE  RInv'
<1>1. PICK w \in {"shut", "gone"} :
        /\ conn' = [conn EXCEPT ![c].client = w]
        /\ w = "shut" => conn[c].client = "open"
  BY DEF ClientLeaves
<1> DEFINE k == [conn[c] EXCEPT !.client = w]
<1>2. conn[c] \in Conn /\ Good(conn[c]) /\ conn' = [conn EXCEPT ![c] = k]
  BY <1>1 DEF RInv, TypeOK
<1>3. k \in Conn
  BY <1>2 DEF Conn
<1>4. Good(k) /\ k.at = conn[c].at
  BY <1>1, <1>2 DEF Conn, Good
<1>5. Moves(c) /\ conn'[c].at = conn[c].at
  <2> HIDE DEF k
  <2> QED BY <1>2, <1>3, <1>4, Change
<1> QED BY <1>5, Stays DEF ClientLeaves

\* herdr answers: only while it has not closed.
LEMMA HerdrAnswersRInv ==
  ASSUME RInv, NEW c \in Conns, HerdrAnswers(c)
  PROVE  RInv'
<1> DEFINE k == [conn[c] EXCEPT !.said = conn[c].said + 1]
<1>1. conn[c] \in Conn /\ Good(conn[c]) /\ conn' = [conn EXCEPT ![c] = k]
  BY DEF RInv, TypeOK, HerdrAnswers
<1>2. conn[c].said + 1 \in 0 .. MaxReplies
  BY <1>1, RelayAssumption DEF Conn, HerdrAnswers
<1>3. k \in Conn
  BY <1>1, <1>2 DEF Conn
<1>4. Good(k) /\ k.at = conn[c].at
  BY <1>1 DEF Conn, Good, HerdrAnswers
<1>5. Moves(c) /\ conn'[c].at = conn[c].at
  <2> HIDE DEF k
  <2> QED BY <1>1, <1>3, <1>4, Change
<1> QED BY <1>5, Stays DEF HerdrAnswers

\* herdr closes its side.
LEMMA HerdrClosesRInv ==
  ASSUME RInv, NEW c \in Conns, HerdrCloses(c)
  PROVE  RInv'
<1> DEFINE k == [conn[c] EXCEPT !.herdr = "closed"]
<1>1. conn[c] \in Conn /\ Good(conn[c]) /\ conn' = [conn EXCEPT ![c] = k]
  BY DEF RInv, TypeOK, HerdrCloses
<1>2. k \in Conn
  BY <1>1 DEF Conn
<1>3. Good(k) /\ k.at = conn[c].at
  BY <1>1 DEF Conn, Good, HerdrCloses
<1>4. Moves(c) /\ conn'[c].at = conn[c].at
  <2> HIDE DEF k
  <2> QED BY <1>1, <1>2, <1>3, Change
<1> QED BY <1>4, Stays DEF HerdrCloses

\* Time passes for every connection that has a deadline.
LEMMA TickRInv ==
  ASSUME RInv, Tick
  PROVE  RInv'
<1>1. ASSUME NEW d \in Conns
      PROVE  conn'[d] \in Conn /\ Good(conn'[d]) /\ conn'[d].at = conn[d].at
  <2> DEFINE k == [conn[d] EXCEPT !.quiet = conn[d].quiet + 1]
  <2>1. conn[d] \in Conn /\ Good(conn[d])
    BY DEF RInv, TypeOK
  <2>2. CASE ~ conn[d].armed
    BY <2>1, <2>2 DEF Tick
  <2>3. CASE conn[d].armed
    <3>1. conn'[d] = k
      BY <2>3 DEF Tick
    <3>2. conn[d].quiet + 1 \in 0 .. Deadline
      BY <2>1, <2>3, RelayAssumption DEF Conn, Tick
    <3>3. k \in Conn
      BY <2>1, <3>2 DEF Conn
    <3>4. Good(k) /\ k.at = conn[d].at
      BY <2>1 DEF Conn, Good
    <3> HIDE DEF k
    <3> QED BY <3>1, <3>3, <3>4
  <2> QED BY <2>2, <2>3
<1>2. \A d \in Conns : (Serving(d)' <=> Serving(d)) /\ (Holding(d)' <=> Holding(d))
  BY <1>1 DEF Serving, Holding
<1>3. Served' = Served /\ Held' = Held /\ UNCHANGED <<live, accepted, before>>
  BY <1>2 DEF Served, Held, Tick
<1>4. conn' \in [Conns -> Conn]
  <2>1. DOMAIN conn' = Conns /\ conn' = [d \in Conns |-> conn'[d]]
    BY DEF Tick
  <2> QED BY <1>1, <2>1
<1>5. TypeOK'
  BY <1>3, <1>4 DEF RInv, TypeOK
<1>6. SlotsMatch' /\ WithinCap'
  BY <1>3 DEF RInv, SlotsMatch, WithinCap, Held, Served
<1> QED BY <1>1, <1>3, <1>5, <1>6 DEF RInv
-----------------------------------------------------------------------------
\* Nothing is connected, and nothing claimed.
LEMMA InitRInv == Init => RInv
<1> SUFFICES ASSUME Init PROVE RInv
  OBVIOUS
<1>1. \A c \in Conns : /\ conn[c] \in Conn /\ Good(conn[c])
                       /\ conn[c].at = "none"
  <2> DEFINE k == [at |-> "none", client |-> "open", armed |-> FALSE, quiet |-> 0,
                   sent |-> 0, taken |-> 0, got |-> 0, fwd |-> "none",
                   herdr |-> "none", said |-> 0, back |-> 0, heard |-> 0]
  <2>1. \A c \in Conns : conn[c] = k
    BY DEF Init
  <2>2. 0 \in 0 .. Deadline /\ 0 \in 0 .. MaxSent /\ 0 \in 0 .. MaxReplies
    BY RelayAssumption
  <2>3. k \in Conn
    BY <2>2 DEF Conn
  <2>4. Good(k) /\ k.at = "none"
    BY DEF Good
  <2> HIDE DEF k
  <2> QED BY <2>1, <2>3, <2>4
<1>2. TypeOK
  BY <1>1 DEF Init, TypeOK
<1>3. {c \in Conns : Holding(c)} = {} /\ {c \in Conns : Serving(c)} = {}
  BY <1>1 DEF Holding, Serving
<1>4. SlotsMatch /\ WithinCap
  BY <1>3, FS_EmptySet, RelayAssumption DEF SlotsMatch, WithinCap, Init
<1>5. accepted = None /\ \A c \in Conns : conn[c].at # "claimed"
  BY <1>1 DEF Init
<1> QED BY <1>1, <1>2, <1>4, <1>5, RelayAssumption DEF RInv

\* Every step keeps the invariant.
LEMMA NextRInv == RInv /\ [Next]_vars => RInv'
<1> SUFFICES ASSUME RInv, [Next]_vars PROVE RInv'
  OBVIOUS
<1>1. ASSUME NEW c \in Conns, AcceptLoop(c) PROVE RInv'
  BY <1>1, AcceptRInv, AdmitRInv, RefuseRInv DEF AcceptLoop
<1>2. ASSUME NEW c \in Conns, Join(c) PROVE RInv'
  BY <1>2, Ends DEF Join, Serving
<1>3. ASSUME NEW c \in Conns, Thread(c) PROVE RInv'
  BY <1>2, <1>3, ReadLineRInv, LineEndsRInv, ReadTimesOutRInv, DecideRInv, ConnectRInv,
     CopyBackRInv, CopyEndsRInv DEF Thread
<1>4. ASSUME NEW c \in Conns, Forwarder(c) PROVE RInv'
  BY <1>4, ForwardRInv, ForwardEndsRInv DEF Forwarder
<1>5. ASSUME NEW c \in Conns, Client(c) PROVE RInv'
  BY <1>5, ClientConnectsRInv, ClientSendsRInv, ClientReadsRInv, ClientLeavesRInv
  DEF Client
<1>6. ASSUME NEW c \in Conns, Herdr(c) PROVE RInv'
  BY <1>6, HerdrAnswersRInv, HerdrClosesRInv DEF Herdr
<1>7. CASE Tick
  BY <1>7, TickRInv
<1>8. CASE UNCHANGED vars
  BY <1>8 DEF vars, RInv, TypeOK, SlotsMatch, WithinCap, Holding, Serving, Served, Good
<1> QED BY <1>1, <1>3, <1>4, <1>5, <1>6, <1>7, <1>8 DEF Next

LEMMA RelayInvariance == Spec => []RInv
BY InitRInv, NextRInv, PTL DEF Spec

\* The state of every connection stays well formed, the count of slots a
\* natural number: it never goes below zero.
THEOREM RelayType == Spec => []TypeOK
<1>1. RInv => TypeOK
  BY DEF RInv
<1> QED BY <1>1, RelayInvariance, PTL

\* The slots claimed are the connections they are held for, however many
\* connections there are and however they end (Slot).
THEOREM SlotsAlwaysMatch == Spec => []SlotsMatch
<1>1. RInv => SlotsMatch
  BY DEF RInv
<1> QED BY <1>1, RelayInvariance, PTL

\* Never more connections served at once than MAX_CONNECTIONS, whatever it is.
THEOREM CapHolds == Spec => []WithinCap
<1>1. RInv => WithinCap
  BY DEF RInv
<1> QED BY <1>1, RelayInvariance, PTL

\* All a client sent is forwarded before herdr is told that no more comes.
THEOREM AllForwarded == Spec => []PipelinedForwarded
<1>1. RInv => PipelinedForwarded
  BY DEF RInv, Good, PipelinedForwarded
<1> QED BY <1>1, RelayInvariance, PTL

\* A conversation is wound up only when a client still there has all of it.
THEOREM AllAnswered == Spec => []AnswersDelivered
<1>1. RInv => AnswersDelivered
  BY DEF RInv, Good, AnswersDelivered
<1> QED BY <1>1, RelayInvariance, PTL
-----------------------------------------------------------------------------
\* The conversation of a client and a herdr that are both there.
Talking(c) == conn[c].at = "pumping" /\ conn[c].client = "open" /\ conn[c].herdr = "open"

Uncut(c) == conn'[c].at = "pumping" /\ conn'[c].fwd = conn[c].fwd

\* A step of another connection does not touch it.
LEMMA OthersApart ==
  ASSUME RInv, NEW c \in Conns, NEW d \in Conns, c # d,
         AcceptLoop(d) \/ Thread(d) \/ Forwarder(d) \/ Client(d) \/ Herdr(d)
  PROVE  conn'[c] = conn[c]
<1> USE DEF RInv, TypeOK
<1>1. CASE AcceptLoop(d)
  BY <1>1 DEF AcceptLoop, Accept, Admit, Refuse, Finish
<1>2. CASE Thread(d)
  BY <1>2 DEF Thread, ReadLine, LineEnds, ReadTimesOut, Decide, Connect, CopyBack, CopyEnds,
              Join, Finish
<1>3. CASE Forwarder(d)
  BY <1>3 DEF Forwarder, Forward, ForwardEnds
<1>4. CASE Client(d)
  BY <1>4 DEF Client, ClientConnects, ClientSends, ClientReads, ClientLeaves
<1>5. CASE Herdr(d)
  BY <1>5 DEF Herdr, HerdrAnswers, HerdrCloses
<1> QED BY <1>1, <1>2, <1>3, <1>4, <1>5

\* None of its own steps cuts it.
LEMMA OwnStepsUncut ==
  ASSUME RInv, NEW c \in Conns, Talking(c),
         AcceptLoop(c) \/ Thread(c) \/ Forwarder(c) \/ Client(c) \/ Herdr(c)
  PROVE  Uncut(c)
<1>1. conn \in [Conns -> Conn] /\ conn[c] \in Conn /\ ~ conn[c].armed
  BY DEF RInv, TypeOK, Good, Talking
<1>2. conn[c].at # "claimed" /\ accepted # c
  BY DEF RInv, Talking
<1>3. ~ AcceptLoop(c)
  BY <1>2 DEF AcceptLoop, Accept, Admit, Refuse, Talking
<1>4. CASE Thread(c)
  <2>1. CopyBack(c)
    BY <1>1, <1>4 DEF Talking, Thread, ReadLine, LineEnds, ReadTimesOut, Decide, Connect,
                      CopyEnds, Join
  <2>2. conn' = [conn EXCEPT ![c].back = conn[c].back + 1]
    BY <2>1 DEF Talking, CopyBack
  <2>3. conn'[c] = [conn[c] EXCEPT !.back = conn[c].back + 1]
    BY <1>1, <2>2
  <2> QED BY <1>1, <2>3 DEF Talking, Uncut, Conn
<1>5. CASE Forwarder(c)
  <2>1. Forward(c)
    BY <1>5 DEF Forwarder, ForwardEnds, AtEOF, Talking
  <2>2. \/ conn' = [conn EXCEPT ![c].got = conn[c].taken]
        \/ conn' = [conn EXCEPT ![c].taken = conn[c].sent, ![c].quiet = 0]
    BY <2>1 DEF Forward, Talking
  <2>3. \/ conn'[c] = [conn[c] EXCEPT !.got = conn[c].taken]
        \/ conn'[c] = [conn[c] EXCEPT !.taken = conn[c].sent, !.quiet = 0]
    BY <1>1, <2>2
  <2> QED BY <1>1, <2>3 DEF Talking, Uncut, Conn
<1>6. CASE Client(c)
  <2>1. \/ \E n : conn' = [conn EXCEPT ![c].sent = n]
        \/ \E n : conn' = [conn EXCEPT ![c].heard = n]
        \/ \E w : conn' = [conn EXCEPT ![c].client = w]
    BY <1>6 DEF Client, ClientConnects, ClientSends, ClientReads, ClientLeaves, Talking
  <2>2. \/ \E n : conn'[c] = [conn[c] EXCEPT !.sent = n]
        \/ \E n : conn'[c] = [conn[c] EXCEPT !.heard = n]
        \/ \E w : conn'[c] = [conn[c] EXCEPT !.client = w]
    BY <1>1, <2>1
  <2> QED BY <1>1, <2>2 DEF Talking, Uncut, Conn
<1>7. CASE Herdr(c)
  <2>1. \/ conn' = [conn EXCEPT ![c].said = conn[c].said + 1]
        \/ conn' = [conn EXCEPT ![c].herdr = "closed"]
    BY <1>7 DEF Herdr, HerdrAnswers, HerdrCloses
  <2>2. \/ conn'[c] = [conn[c] EXCEPT !.said = conn[c].said + 1]
        \/ conn'[c] = [conn[c] EXCEPT !.herdr = "closed"]
    BY <1>1, <2>1
  <2> QED BY <1>1, <2>2 DEF Talking, Uncut, Conn
<1> QED BY <1>3, <1>4, <1>5, <1>6, <1>7

\* An established conversation is never cut by the relay, whatever the
\* deadline and however long it is silent.
THEOREM NeverCut == Spec => EstablishedNotCut
<1>1. ASSUME RInv, [Next]_vars
      PROVE  [\A c \in Conns : Talking(c) => Uncut(c)]_vars
  <2>1. CASE UNCHANGED vars
    BY <2>1
  <2>2. CASE Tick
    <3> SUFFICES ASSUME NEW c \in Conns, Talking(c) PROVE Uncut(c)
      OBVIOUS
    <3>1. ~ conn[c].armed
      BY <1>1 DEF RInv, Good, Talking
    <3>2. conn'[c] = conn[c]
      BY <2>2, <3>1 DEF Tick
    <3> QED BY <3>2 DEF Talking, Uncut
  <2>3. CASE \E d \in Conns :
               AcceptLoop(d) \/ Thread(d) \/ Forwarder(d) \/ Client(d) \/ Herdr(d)
    <3> SUFFICES ASSUME NEW c \in Conns, Talking(c) PROVE Uncut(c)
      OBVIOUS
    <3>1. PICK d \in Conns :
            AcceptLoop(d) \/ Thread(d) \/ Forwarder(d) \/ Client(d) \/ Herdr(d)
      BY <2>3
    <3>2. CASE d = c
      BY <1>1, <3>1, <3>2, OwnStepsUncut
    <3>3. CASE d # c
      <4>1. conn'[c] = conn[c]
        BY <1>1, <3>1, <3>3, OthersApart
      <4> QED BY <4>1 DEF Talking, Uncut
    <3> QED BY <3>2, <3>3
  <2> QED BY <1>1, <2>1, <2>2, <2>3 DEF Next
<1>2. RInv /\ [Next]_vars =>
        [\A c \in Conns :
           (conn[c].at = "pumping" /\ conn[c].client = "open" /\ conn[c].herdr = "open")
             => conn'[c].at = "pumping" /\ conn'[c].fwd = conn[c].fwd]_vars
  BY <1>1 DEF Talking, Uncut
<1> QED BY <1>2, RelayInvariance, PTL DEF Spec, EstablishedNotCut
=============================================================================
