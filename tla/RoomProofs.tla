----------------------------- MODULE RoomProofs -----------------------------
(* Theorems about Room, for every set of connections, senders and users,   *)
(* every ring size and every bound on messages.                            *)
EXTENDS Room, SequenceTheorems, TLAPS

-----------------------------------------------------------------------------
(* Facts about the operators that run's cases are built from.              *)

\* Storing a message keeps the ring a sequence of messages, never larger than
\* the ring.
LEMMA StoreType ==
    ASSUME NEW ring \in Seq(1..MaxMsgs), Len(ring) <= RingSize,
           NEW n \in 1..MaxMsgs
    PROVE  /\ Store(ring, n) \in Seq(1..MaxMsgs)
           /\ Len(Store(ring, n)) <= RingSize
           /\ Len(Store(ring, n)) <= Len(ring) + 1
<1>1. RingSize \in Nat /\ RingSize >= 1
  BY RingSizeAssumption
<1>2. CASE Len(ring) < RingSize
  BY <1>1, <1>2 DEF Store
<1>3. CASE ~ (Len(ring) < RingSize)
  <2>1. ring # <<>>
    BY <1>1, <1>3
  <2>2. Tail(ring) \in Seq(1..MaxMsgs) /\ Len(Tail(ring)) = Len(ring) - 1
    BY <2>1
  <2> QED BY <1>1, <1>3, <2>2 DEF Store
<1> QED BY <1>2, <1>3

\* An event turns a set of users into a set of users and a ZMODEM status into
\* a ZMODEM status.
LEMMA EventTypes ==
    ASSUME NEW m \in RoomMessage
    PROVE  /\ m.event = "Data" => m.n \in 1..MaxMsgs
           /\ \A us \in SUBSET Users : UsersAfter(us, m) \in SUBSET Users
           /\ \A b \in BOOLEAN : ZmodemAfter(b, m) \in BOOLEAN
<1>1. m.event = "Data" => m.n \in 1..MaxMsgs
  BY DEF RoomMessage, Data
<1>2. m.event \in {"Share_JOIN", "Share_LEAVE"} => m.body \in Users
  BY DEF RoomMessage, Data
<1>3. ASSUME NEW us \in SUBSET Users PROVE UsersAfter(us, m) \in SUBSET Users
  <2>1. CASE m.event = "Share_JOIN"
    BY <1>2, <2>1 DEF UsersAfter
  <2>2. CASE m.event = "Share_LEAVE"
    BY <2>2 DEF UsersAfter
  <2>3. CASE m.event \notin {"Share_JOIN", "Share_LEAVE"}
    BY <2>3 DEF UsersAfter
  <2> QED BY <2>1, <2>2, <2>3
<1>4. ASSUME NEW b \in BOOLEAN PROVE ZmodemAfter(b, m) \in BOOLEAN
  BY DEF ZmodemAfter
<1> QED BY <1>1, <1>3, <1>4
-----------------------------------------------------------------------------
(* Type correctness.                                                       *)

LEMMA TypeInit == Init => TypeOK
<1> SUFFICES ASSUME Init PROVE TypeOK
  OBVIOUS
<1>1. <<>> \in Seq(1..MaxMsgs) /\ Len(<<>>) = 0
  OBVIOUS
<1>2. [zmodem |-> FALSE, users |-> {}] \in [zmodem : BOOLEAN, users : SUBSET Users]
  OBVIOUS
<1>3. shown \in [Conns -> [zmodem : BOOLEAN, users : SUBSET Users]]
  BY <1>2 DEF Init
<1>4. got \in [Conns -> Seq(1..MaxMsgs)] /\ since \in [Conns -> Nat \ {0}]
  BY <1>1 DEF Init
<1>5. /\ recent \in Seq(1..MaxMsgs) /\ Len(recent) <= RingSize
      /\ log \in Seq(1..MaxMsgs) /\ Len(recent) <= Len(log)
      /\ replay \in Seq(1..MaxMsgs)
  BY <1>1, RingSizeAssumption DEF Init
<1>6. /\ call \in [Conns -> {"out", "subscribe", "in", "unsubscribe", "left"}]
      /\ pending \in [Senders -> RoomMessage \cup {None}]
      /\ stream \in [Conns -> {"open", "closed", "gone"}]
      /\ sent \in 0..MaxMsgs
  BY MaxMsgsAssumption DEF Init
<1> QED BY <1>3, <1>4, <1>5, <1>6 DEF Init, TypeOK

LEMMA TypeStep == TypeOK /\ [Next]_vars => TypeOK'
<1> SUFFICES ASSUME TypeOK, [Next]_vars PROVE TypeOK'
  OBVIOUS
<1> USE RingSizeAssumption, MaxMsgsAssumption
<1>1. CASE TickExit
  BY <1>1 DEF TypeOK, TickExit, roomVars, peerVars
<1>2. CASE TickReap
  BY <1>2 DEF TypeOK, TickReap, WorkOn, roomVars, peerVars
<1>3. CASE AcceptExit
  BY <1>3 DEF TypeOK, AcceptExit, WorkOn, roomVars, peerVars
<1>4. ASSUME NEW c \in Conns, SendReplay(c) PROVE TypeOK'
  <2>1. replay \in Seq(1..MaxMsgs) /\ replay # <<>>
    BY <1>4 DEF TypeOK, SendReplay
  <2>2. Head(replay) \in 1..MaxMsgs /\ Tail(replay) \in Seq(1..MaxMsgs)
    BY <2>1
  <2>3. got' \in [Conns -> Seq(1..MaxMsgs)]
    BY <1>4, <2>2 DEF TypeOK, SendReplay
  <2> QED BY <1>4, <2>2, <2>3 DEF TypeOK, SendReplay, roomVars
<1>5. ASSUME NEW c \in Conns, SendUsers(c) PROVE TypeOK'
  BY <1>5 DEF TypeOK, SendUsers, WorkOn, roomVars
<1>6. ASSUME NEW c \in Conns, Deliver(c) PROVE TypeOK'
  <2>1. msg \in RoomMessage
    BY <1>6 DEF TypeOK, Deliver
  <2>2. got' \in [Conns -> Seq(1..MaxMsgs)]
    BY <1>6, <2>1, EventTypes DEF TypeOK, Deliver
  <2>3. shown' \in [Conns -> [zmodem : BOOLEAN, users : SUBSET Users]]
    <3>1. /\ ZmodemAfter(shown[c].zmodem, msg) \in BOOLEAN
          /\ UsersAfter(shown[c].users, msg) \in SUBSET Users
      BY <2>1, EventTypes DEF TypeOK
    <3> QED BY <1>6, <3>1 DEF TypeOK, Deliver
  <2> QED BY <1>6, <2>1, <2>2, <2>3 DEF TypeOK, Deliver, WorkOn, roomVars
<1>7. ASSUME NEW c \in Conns, CloseConn(c) PROVE TypeOK'
  BY <1>7 DEF TypeOK, CloseConn, WorkOn, roomVars
<1>8. ASSUME NEW c \in Conns, AcceptSubscribe(c) PROVE TypeOK'
  <2>1. since' \in [Conns -> Nat \ {0}]
    <3>1. Len(log) - Len(recent) + 1 \in Nat \ {0}
      BY DEF TypeOK
    <3> QED BY <1>8, <3>1 DEF TypeOK, AcceptSubscribe
  <2>2. shown' \in [Conns -> [zmodem : BOOLEAN, users : SUBSET Users]]
    <3>1. shown \in [Conns -> [zmodem : BOOLEAN, users : SUBSET Users]]
      BY DEF TypeOK
    <3>2. shown' = shown \/ shown' = [shown EXCEPT ![c].zmodem = TRUE]
      BY <1>8 DEF AcceptSubscribe
    <3> QED BY <3>1, <3>2
  <2> QED BY <1>8, <2>1, <2>2 DEF TypeOK, AcceptSubscribe, WorkOn
<1>9. ASSUME NEW c \in Conns, AcceptUnSubscribe(c) PROVE TypeOK'
  BY <1>9 DEF TypeOK, AcceptUnSubscribe, runVars, peerVars
<1>10. ASSUME NEW s \in Senders, AcceptBroadcast(s) PROVE TypeOK'
  <2> DEFINE m == pending[s]
  <2>1. m \in RoomMessage /\ msg' = IF connMaps = {} THEN None ELSE m
    BY <1>10 DEF TypeOK, AcceptBroadcast
  <2>2. /\ recent' \in Seq(1..MaxMsgs) /\ Len(recent') <= RingSize
        /\ log' \in Seq(1..MaxMsgs) /\ Len(recent') <= Len(log')
    <3>1. CASE m.event = "Data"
      BY <1>10, <2>1, <3>1, EventTypes, StoreType DEF TypeOK, AcceptBroadcast
    <3>2. CASE m.event # "Data"
      BY <1>10, <2>1, <3>2 DEF TypeOK, AcceptBroadcast
    <3> QED BY <3>1, <3>2
  <2>3. online' \in SUBSET Users /\ zmodem' \in BOOLEAN
    BY <1>10, <2>1, EventTypes DEF TypeOK, AcceptBroadcast
  <2> QED BY <1>10, <2>1, <2>2, <2>3 DEF TypeOK, AcceptBroadcast, WorkOn, peerVars
<1>11. CASE Callers
  <2>1. CASE Stop \/ StopDone \/ StopClose
    BY <2>1 DEF TypeOK, Stop, StopDone, StopClose, runVars, roomVars, peerVars
  <2>2. ASSUME NEW c \in Conns, Subscribe(c) \/ UnSubscribe(c) PROVE TypeOK'
    <3>1. CASE Subscribe(c)
      BY <3>1 DEF TypeOK, Subscribe, runVars, roomVars, peerVars
    <3>2. CASE UnSubscribe(c)
      BY <3>2 DEF TypeOK, UnSubscribe, runVars, roomVars, peerVars
    <3> QED BY <2>2, <3>1, <3>2
  <2>5. ASSUME NEW c \in Conns, HangUp(c) PROVE TypeOK'
    BY <2>5 DEF TypeOK, HangUp, runVars, roomVars
  <2>3. ASSUME NEW s \in Senders, Broadcast(s) PROVE TypeOK'
    BY <2>3 DEF TypeOK, Broadcast, runVars, roomVars, peerVars
  <2>4. ASSUME NEW s \in Senders, BroadcastDone(s) PROVE TypeOK'
    BY <2>4 DEF TypeOK, BroadcastDone, runVars, roomVars, peerVars
  <2> QED BY <1>11, <2>1, <2>2, <2>3, <2>4, <2>5 DEF Callers
<1>12. CASE UNCHANGED vars
  BY <1>12 DEF TypeOK, vars
<1> QED
  BY <1>1, <1>2, <1>3, <1>4, <1>5, <1>6, <1>7, <1>8, <1>9, <1>10, <1>11, <1>12
     DEF Next, Run, Work

\* Every variable of the room keeps its type, and the ring never holds more
\* than RingSize messages, whatever is called in whatever order.
THEOREM TypeCorrect == Spec => []TypeOK
BY TypeInit, TypeStep, PTL DEF Spec
-----------------------------------------------------------------------------
(* The connections run knows keep it alive.                                *)

ConnInv == TypeOK /\ RunShape /\ MembersKeepRoomAlive

LEMMA ConnInit == Init => ConnInv
BY TypeInit DEF Init, ConnInv, RunShape, MembersKeepRoomAlive

LEMMA ConnStep == ConnInv /\ [Next]_vars => ConnInv'
<1> SUFFICES ASSUME ConnInv, [Next]_vars PROVE ConnInv'
  OBVIOUS
<1> USE DEF ConnInv, RunShape, MembersKeepRoomAlive
<1>0. TypeOK'
  BY TypeStep
<1>1. CASE TickExit
  BY <1>0, <1>1 DEF TypeOK, TickExit, roomVars
<1>2. CASE TickReap
  BY <1>0, <1>2 DEF TypeOK, TickReap, WorkOn, roomVars
<1>3. CASE AcceptExit
  BY <1>0, <1>3 DEF TypeOK, AcceptExit, WorkOn, roomVars
<1>4. ASSUME NEW c \in Conns, SendReplay(c) PROVE ConnInv'
  BY <1>0, <1>4 DEF TypeOK, SendReplay, roomVars
<1>5. ASSUME NEW c \in Conns, SendUsers(c) PROVE ConnInv'
  BY <1>0, <1>5 DEF TypeOK, SendUsers, WorkOn, roomVars
<1>6. ASSUME NEW c \in Conns, Deliver(c) PROVE ConnInv'
  BY <1>0, <1>6 DEF TypeOK, Deliver, WorkOn, roomVars
<1>7. ASSUME NEW c \in Conns, CloseConn(c) PROVE ConnInv'
  BY <1>0, <1>7 DEF TypeOK, CloseConn, WorkOn, roomVars
<1>8. ASSUME NEW c \in Conns, AcceptSubscribe(c) PROVE ConnInv'
  <2>1. to' = {c} /\ at' = "replay" /\ at = "select"
    BY <1>8 DEF AcceptSubscribe, WorkOn
  <2>2. RunShape'
    BY <1>8, <2>1 DEF TypeOK, AcceptSubscribe
  <2>3. MembersKeepRoomAlive'
    BY <1>8, <2>1 DEF TypeOK, AcceptSubscribe
  <2> QED BY <1>0, <2>2, <2>3
<1>9. ASSUME NEW c \in Conns, AcceptUnSubscribe(c) PROVE ConnInv'
  <2>1. /\ at' = at /\ at = "select" /\ to' = to /\ done' = done
        /\ connMaps' = connMaps \ {c} /\ call[c] = "unsubscribe"
        /\ call' = [call EXCEPT ![c] = "left"]
    BY <1>9 DEF AcceptUnSubscribe, runVars
  <2>2. RunShape'
    BY <2>1 DEF TypeOK
  <2>3. MembersKeepRoomAlive'
    BY <2>1 DEF TypeOK
  <2> QED BY <1>0, <2>2, <2>3
<1>10. ASSUME NEW s \in Senders, AcceptBroadcast(s) PROVE ConnInv'
  BY <1>0, <1>10 DEF TypeOK, AcceptBroadcast, WorkOn
<1>11. CASE Callers
  <2>1. CASE Stop \/ StopDone \/ StopClose
    BY <1>0, <2>1 DEF Stop, StopDone, StopClose, runVars, roomVars
  <2>2. ASSUME NEW c \in Conns, Subscribe(c) PROVE ConnInv'
    BY <1>0, <2>2 DEF TypeOK, Subscribe, runVars, roomVars
  <2>4. ASSUME NEW c \in Conns, UnSubscribe(c) PROVE ConnInv'
    <3>1. RunShape'
      BY <2>4 DEF TypeOK, UnSubscribe, runVars, roomVars
    <3>2. MembersKeepRoomAlive'
      BY <2>4 DEF TypeOK, UnSubscribe, runVars, roomVars
    <3> QED BY <1>0, <3>1, <3>2
  <2>5. ASSUME NEW c \in Conns, HangUp(c) PROVE ConnInv'
    BY <1>0, <2>5 DEF TypeOK, HangUp, runVars, roomVars
  <2>3. ASSUME NEW s \in Senders, Broadcast(s) \/ BroadcastDone(s) PROVE ConnInv'
    BY <1>0, <2>3 DEF Broadcast, BroadcastDone, runVars, roomVars
  <2> QED BY <1>11, <2>1, <2>2, <2>3, <2>4, <2>5 DEF Callers
<1>12. CASE UNCHANGED vars
  BY <1>0, <1>12 DEF vars
<1> QED
  BY <1>1, <1>2, <1>3, <1>4, <1>5, <1>6, <1>7, <1>8, <1>9, <1>10, <1>11, <1>12
     DEF Next, Run, Work

\* Subscribed connections are in connMaps and run has not returned, so the
\* unbuffered send of UnSubscribe always finds its receiver; and run works
\* only on connections it knows.
THEOREM RoomStaysForItsMembers == Spec => [](MembersKeepRoomAlive /\ RunShape)
<1>1. Spec => []ConnInv
  BY ConnInit, ConnStep, PTL DEF Spec
<1>2. ConnInv => MembersKeepRoomAlive /\ RunShape
  BY DEF ConnInv
<1> QED BY <1>1, <1>2, PTL

\* A connection that left is no longer known to run, so no step of run writes
\* to it or closes it.
THEOREM LeaversAreLeftAlone == Spec => NoWriteAfterLeave
<1>1. ConnInv /\ [Next]_vars =>
        [\A c \in Conns : call[c] = "left" =>
            /\ <<shown[c], got[c]>>' = <<shown[c], got[c]>>
            /\ stream'[c] \in {stream[c], "gone"}]_vars
  <2> SUFFICES ASSUME ConnInv, [Next]_vars, NEW c \in Conns, call[c] = "left"
               PROVE  /\ shown'[c] = shown[c] /\ got'[c] = got[c]
                      /\ stream'[c] \in {stream[c], "gone"}
    BY DEF vars
  <2>1. c \notin to
    BY DEF ConnInv, RunShape, MembersKeepRoomAlive
  <2>2. ASSUME NEW d \in Conns, SendReplay(d) \/ SendUsers(d) \/ Deliver(d) \/ CloseConn(d)
        PROVE  /\ shown'[c] = shown[c] /\ got'[c] = got[c] /\ stream'[c] = stream[c]
    BY <2>1, <2>2 DEF SendReplay, SendUsers, Deliver, CloseConn, ConnInv, TypeOK
  <2>3. ASSUME NEW d \in Conns, AcceptSubscribe(d) \/ AcceptUnSubscribe(d)
        PROVE  /\ shown'[c] = shown[c] /\ got'[c] = got[c] /\ stream'[c] = stream[c]
    BY <2>3 DEF AcceptSubscribe, AcceptUnSubscribe, peerVars, ConnInv, TypeOK
  <2>4. CASE TickExit \/ TickReap \/ AcceptExit \/ \E s \in Senders : AcceptBroadcast(s)
    BY <2>4 DEF TickExit, TickReap, AcceptExit, AcceptBroadcast, peerVars
  <2>5. CASE Callers
    BY <2>5 DEF Callers, Stop, StopDone, StopClose, Subscribe, UnSubscribe, HangUp,
                Broadcast, BroadcastDone, peerVars, ConnInv, TypeOK
  <2> QED BY <2>2, <2>3, <2>4, <2>5 DEF Next, Run, Work, vars
<1> QED BY <1>1, ConnInit, ConnStep, PTL DEF Spec, NoWriteAfterLeave

-----------------------------------------------------------------------------
(* What the connections of a room are sent: the room's state is shown to   *)
(* every peer, and the log reaches it without a gap.                       *)

-----------------------------------------------------------------------------
(* Facts about the end of a sequence.                                      *)

\* Appending to a sequence appends to each of its suffixes.
LEMMA SuffixAppend ==
    ASSUME NEW S, NEW s \in Seq(S), NEW k \in 1..(Len(s) + 1), NEW e \in S
    PROVE  SubSeq(Append(s, e), k, Len(s) + 1) = Append(SubSeq(s, k, Len(s)), e)
<1> DEFINE a == SubSeq(Append(s, e), k, Len(s) + 1)
           b == Append(SubSeq(s, k, Len(s)), e)
<1>1. Len(s) \in Nat /\ Append(s, e) \in Seq(S) /\ Len(Append(s, e)) = Len(s) + 1
  BY AppendProperties
<1>2. \A i \in 1..(Len(s) + 1) : Append(s, e)[i] \in S
  BY <1>1, ElementOfSeq
<1>3. /\ a \in Seq(S) /\ Len(a) = Len(s) + 2 - k
      /\ \A i \in 1..(Len(s) + 2 - k) : a[i] = Append(s, e)[k + i - 1]
  BY <1>1, <1>2, SubSeqProperties
<1>4. /\ SubSeq(s, k, Len(s)) \in Seq(S) /\ Len(SubSeq(s, k, Len(s))) = Len(s) + 1 - k
      /\ \A i \in 1..(Len(s) + 1 - k) : SubSeq(s, k, Len(s))[i] = s[k + i - 1]
  BY <1>1, SubSeqProperties, ElementOfSeq
<1>5. b \in Seq(S) /\ Len(b) = Len(s) + 2 - k /\ b[Len(s) + 2 - k] = e
  BY <1>1, <1>4, AppendProperties
<1>6. ASSUME NEW i \in 1..(Len(s) + 2 - k) PROVE a[i] = b[i]
  <2>1. CASE i = Len(s) + 2 - k
    BY <1>1, <1>3, <1>5, <2>1, AppendProperties
  <2>2. CASE i # Len(s) + 2 - k
    <3>1. i \in 1..(Len(s) + 1 - k) /\ k + i - 1 \in 1..Len(s)
      BY <1>1, <2>2
    <3>2. b[i] = SubSeq(s, k, Len(s))[i]
      BY <1>4, <3>1, AppendProperties
    <3> QED BY <1>1, <1>3, <1>4, <3>1, <3>2, AppendProperties
  <2> QED BY <2>1, <2>2
<1> QED BY <1>3, <1>5, <1>6, SeqEqual

\* Moving the head of b to the end of a leaves a followed by b as it is.
LEMMA ShiftHead ==
    ASSUME NEW S, NEW a \in Seq(S), NEW b \in Seq(S), b # <<>>
    PROVE  Append(a, Head(b)) \o Tail(b) = a \o b
<1>1. Head(b) \in S /\ Tail(b) \in Seq(S) /\ <<Head(b)>> \in Seq(S)
  BY HeadTailProperties
<1>2. Append(a, Head(b)) = a \o <<Head(b)>>
  BY <1>1, AppendIsConcat
<1>3. <<Head(b)>> \o Tail(b) = b
  OBVIOUS
<1> QED BY <1>1, <1>2, <1>3, ConcatAssociative

\* The ring is the end of the log after a message was stored in both.
LEMMA StoreIsSuffix ==
    ASSUME NEW l \in Seq(1..MaxMsgs), NEW ring \in Seq(1..MaxMsgs),
           NEW n \in 1..MaxMsgs, Len(ring) <= RingSize, Len(ring) <= Len(l),
           Len(ring) \in {RingSize, Len(l)},
           ring = SubSeq(l, Len(l) - Len(ring) + 1, Len(l))
    PROVE  /\ Len(Store(ring, n)) \in {RingSize, Len(Append(l, n))}
           /\ Store(ring, n) = SubSeq(Append(l, n),
                                      Len(Append(l, n)) - Len(Store(ring, n)) + 1,
                                      Len(Append(l, n)))
<1> DEFINE k == Len(l) - Len(ring) + 1
<1>1. /\ RingSize \in Nat /\ RingSize >= 1 /\ Len(l) \in Nat /\ Len(ring) \in Nat
      /\ k \in 1..(Len(l) + 1) /\ Len(Append(l, n)) = Len(l) + 1
  BY RingSizeAssumption, AppendProperties
<1>2. CASE Len(ring) < RingSize
  <2>1. Store(ring, n) = Append(ring, n) /\ Len(Append(ring, n)) = Len(ring) + 1
    BY <1>2, AppendProperties DEF Store
  <2>2. Append(ring, n) = SubSeq(Append(l, n), k, Len(l) + 1)
    BY <1>1, SuffixAppend
  <2> QED BY <1>1, <1>2, <2>1, <2>2
<1>3. CASE ~ (Len(ring) < RingSize)
  <2>1. /\ ring # <<>> /\ Len(ring) = RingSize /\ k \in 1..Len(l)
        /\ k + 1 \in 1..(Len(l) + 1)
    <3>1. Len(ring) = RingSize
      <4>1. \A x, y \in Nat : x <= y /\ ~ (x < y) => x = y
        OBVIOUS
      <4> QED BY <1>1, <1>3, <4>1
    <3>2. Len(ring) >= 1 /\ Len(ring) <= Len(l)
      BY <1>1, <3>1
    <3>3. k \in 1..Len(l) /\ k + 1 \in 1..(Len(l) + 1)
      BY <1>1, <3>2
    <3> QED BY <3>1, <3>2, <3>3, EmptySeq
  <2> HIDE DEF k
  <2>2. Tail(ring) = SubSeq(l, k + 1, Len(l))
    <3>1. ring = SubSeq(l, k, Len(l))
      BY DEF k
    <3>2. Len(l) \in k..Len(l)
      BY <1>1, <2>1
    <3> QED BY <2>1, <3>1, <3>2, HeadTailOfSubSeq
  <2>3. Append(Tail(ring), n) = SubSeq(Append(l, n), k + 1, Len(l) + 1)
    <3>1. SubSeq(Append(l, n), k + 1, Len(l) + 1) = Append(SubSeq(l, k + 1, Len(l)), n)
      BY <2>1, SuffixAppend
    <3> QED BY <2>2, <3>1
  <2>4. Store(ring, n) = Append(Tail(ring), n) /\ Len(Append(Tail(ring), n)) = Len(ring)
    BY <1>3, <2>1, HeadTailProperties, AppendProperties DEF Store
  <2>5. Len(Store(ring, n)) = Len(ring)
    BY <2>4
  <2>6. Len(Append(l, n)) - Len(Store(ring, n)) + 1 = k + 1
    BY <1>1, <2>5 DEF k
  <2> QED BY <1>1, <2>1, <2>3, <2>4, <2>5, <2>6
<1> QED BY <1>2, <1>3
-----------------------------------------------------------------------------
(* Every peer is shown the room's state.                                   *)

PeersInv == ConnInv /\ PeersShown

LEMMA PeersInit == Init => PeersInv
BY ConnInit DEF Init, PeersInv, PeersShown, Live

LEMMA PeersStep == PeersInv /\ [Next]_vars => PeersInv'
<1> SUFFICES ASSUME PeersInv, [Next]_vars PROVE PeersInv'
  OBVIOUS
<1>0. TypeOK /\ RunShape /\ MembersKeepRoomAlive /\ PeersShown /\ ConnInv'
  BY ConnStep DEF PeersInv, ConnInv
<1> SUFFICES PeersShown'
  BY <1>0 DEF PeersInv
<1>1. CASE TickExit
  BY <1>0, <1>1 DEF TickExit, RunShape, PeersShown, Live, roomVars, peerVars
<1>2. CASE TickReap
  BY <1>0, <1>2 DEF TickReap, WorkOn, RunShape, PeersShown, Live, roomVars, peerVars
<1>3. CASE AcceptExit
  BY <1>0, <1>3 DEF AcceptExit, WorkOn, RunShape, PeersShown, Live, roomVars, peerVars
<1>4. ASSUME NEW c \in Conns, SendReplay(c) PROVE PeersShown'
  BY <1>0, <1>4 DEF SendReplay, RunShape, MembersKeepRoomAlive, PeersShown, Live,
                    roomVars, TypeOK
<1>5. ASSUME NEW c \in Conns, SendUsers(c) PROVE PeersShown'
  <2>1. to' = {} /\ to = {c} /\ at = "replay"
    BY <1>0, <1>5 DEF SendUsers, WorkOn, RunShape
  <2>2. Live' = Live
    BY <1>5 DEF SendUsers, Live, roomVars
  <2>3. shown'[c].zmodem = shown[c].zmodem /\ (stream[c] # "gone" => shown'[c].users = online)
    BY <1>0, <1>5 DEF SendUsers, TypeOK
  <2>4. \A d \in Conns \ {c} : shown'[d] = shown[d]
    BY <1>0, <1>5 DEF SendUsers, TypeOK
  <2> QED BY <1>0, <1>5, <2>1, <2>2, <2>3, <2>4
          DEF SendUsers, PeersShown, Live, roomVars
<1>6. ASSUME NEW c \in Conns, Deliver(c) PROVE PeersShown'
  <2>1. to' = to \ {c} /\ at = "cast" /\ at' \in {"select", "cast"} /\ c \in connMaps
    BY <1>0, <1>6 DEF Deliver, WorkOn, RunShape
  <2>2. Live' = Live
    BY <1>6 DEF Deliver, Live, roomVars
  <2>3. stream[c] # "gone" => /\ shown'[c].zmodem = ZmodemAfter(shown[c].zmodem, msg)
                             /\ shown'[c].users = UsersAfter(shown[c].users, msg)
    BY <1>0, <1>6 DEF Deliver, TypeOK
  <2>4. \A d \in Conns \ {c} : shown'[d] = shown[d] /\ got'[d] = got[d]
    BY <1>0, <1>6 DEF Deliver, TypeOK
  <2>5. call[c] \notin {"out", "subscribe"}
    BY <1>0, <2>1 DEF MembersKeepRoomAlive
  <2> QED BY <1>0, <1>6, <2>1, <2>2, <2>3, <2>4, <2>5
          DEF Deliver, PeersShown, Live, roomVars
<1>7. ASSUME NEW c \in Conns, CloseConn(c) PROVE PeersShown'
  <2>1. Live' = Live /\ at = "close" /\ at' \in {"select", "close"} /\ (at' = "select" => to' = {})
    BY <1>0, <1>7 DEF CloseConn, WorkOn, Live, roomVars, TypeOK
  <2> QED BY <1>0, <1>7, <2>1 DEF CloseConn, PeersShown, roomVars
<1>8. ASSUME NEW c \in Conns, AcceptSubscribe(c) PROVE PeersShown'
  <2>1. /\ to' = {c} /\ to = {} /\ at' = "replay" /\ at = "select"
        /\ connMaps' = connMaps \cup {c} /\ call[c] = "subscribe"
    BY <1>0, <1>8 DEF AcceptSubscribe, WorkOn, RunShape
  <2>2. stream[c] # "gone" => shown'[c].zmodem = zmodem
    <3>1. shown[c].zmodem = FALSE /\ zmodem \in BOOLEAN /\ c \in DOMAIN shown
      BY <1>0, <2>1 DEF TypeOK, PeersShown
    <3>2. CASE zmodem /\ stream[c] # "gone"
      <4>1. shown' = [shown EXCEPT ![c].zmodem = TRUE]
        BY <1>8, <3>2 DEF AcceptSubscribe
      <4>2. shown'[c] = [shown[c] EXCEPT !.zmodem = TRUE] /\ "zmodem" \in DOMAIN shown[c]
        BY <1>0, <3>1, <4>1 DEF TypeOK
      <4> QED BY <3>2, <4>2
    <3>3. CASE ~ zmodem
      BY <1>8, <3>1, <3>3 DEF AcceptSubscribe
    <3> QED BY <3>1, <3>2, <3>3
  <2>3. \A d \in Conns \ {c} : shown'[d] = shown[d] /\ call'[d] = call[d]
    BY <1>0, <1>8 DEF AcceptSubscribe, TypeOK
  <2>4. \A d \in Live' : d = c \/ d \in Live
    BY <1>8 DEF AcceptSubscribe, Live
  <2>5. call'[c] = "in"
    BY <1>0, <1>8 DEF AcceptSubscribe, TypeOK
  <2>6. /\ got' = got /\ zmodem' = zmodem /\ online' = online
        /\ \A d \in Live' : stream[d] # "gone"
    BY <1>8 DEF AcceptSubscribe, Live
  <2>7. \A d \in Conns : call'[d] \in {"out", "subscribe"} =>
                            ~ shown'[d].zmodem /\ got'[d] = <<>>
    BY <1>0, <2>3, <2>5, <2>6 DEF PeersShown
  <2>8. ASSUME NEW d \in Live', d # c
        PROVE  d \notin to' /\ shown'[d].zmodem = zmodem' /\ shown'[d].users = online'
    <3>1. d \in Live /\ d \in Conns /\ d \notin to
      BY <1>0, <2>1, <2>4, <2>8 DEF Live, TypeOK
    <3> QED BY <1>0, <2>1, <2>3, <2>6, <2>8, <3>1 DEF PeersShown
  <2>9. c \in Live' => shown'[c].zmodem = zmodem'
    BY <2>2, <2>6
  <2> QED BY <2>1, <2>7, <2>8, <2>9 DEF PeersShown
<1>9. ASSUME NEW c \in Conns, AcceptUnSubscribe(c) PROVE PeersShown'
  BY <1>0, <1>9 DEF AcceptUnSubscribe, RunShape, PeersShown, Live, runVars, peerVars, TypeOK
<1>10. ASSUME NEW s \in Senders, AcceptBroadcast(s) PROVE PeersShown'
  <2>1. /\ to = {} /\ to' = connMaps /\ at' \in {"select", "cast"} /\ Live' = Live
        /\ UNCHANGED <<shown, got, call>>
    BY <1>0, <1>10 DEF AcceptBroadcast, WorkOn, RunShape, Live, peerVars
  <2>2. connMaps # {} => /\ zmodem' = ZmodemAfter(zmodem, msg')
                         /\ online' = UsersAfter(online, msg')
    BY <1>10 DEF AcceptBroadcast
  <2>3. \A c \in Live : /\ c \in to' /\ at' = "cast"
                        /\ shown[c].zmodem = zmodem /\ shown[c].users = online
    BY <1>0, <1>10, <2>1 DEF AcceptBroadcast, WorkOn, Live, PeersShown
  <2> QED BY <1>0, <2>1, <2>2, <2>3 DEF PeersShown
<1>11. CASE Callers
  <2>1. CASE Stop \/ StopDone \/ StopClose
    BY <1>0, <2>1 DEF Stop, StopDone, StopClose, runVars, roomVars, peerVars, PeersShown, Live
  <2>2. ASSUME NEW c \in Conns, Subscribe(c) \/ UnSubscribe(c) \/ HangUp(c)
        PROVE  PeersShown'
    BY <1>0, <2>2 DEF TypeOK, Subscribe, UnSubscribe, HangUp, runVars, roomVars,
                      peerVars, PeersShown, Live
  <2>3. ASSUME NEW s \in Senders, Broadcast(s) \/ BroadcastDone(s) PROVE PeersShown'
    BY <1>0, <2>3 DEF Broadcast, BroadcastDone, runVars, roomVars, peerVars, PeersShown, Live
  <2> QED BY <1>11, <2>1, <2>2, <2>3 DEF Callers
<1>12. CASE UNCHANGED vars
  BY <1>0, <1>12 DEF vars, PeersShown, Live
<1> QED
  BY <1>1, <1>2, <1>3, <1>4, <1>5, <1>6, <1>7, <1>8, <1>9, <1>10, <1>11, <1>12
     DEF Next, Run, Work, PeersInv

\* Whenever run is back at its select, every live peer knows the room's ZMODEM
\* status and users: a late joiner through the replay, the others through the
\* broadcasts, and none of them half way between two states.
THEOREM PeersAgreeAlways == Spec => []PeersAgree
<1>1. Spec => []PeersInv
  BY PeersInit, PeersStep, PTL DEF Spec
<1>2. PeersInv => PeersAgree
  <2> SUFFICES ASSUME PeersInv, at = "select", NEW c \in Live
               PROVE  shown[c] = [zmodem |-> zmodem, users |-> online]
    BY DEF PeersAgree
  <2>1. c \notin to /\ c \in Conns
    BY DEF PeersInv, ConnInv, RunShape, Live, TypeOK
  <2>2. shown[c].zmodem = zmodem /\ shown[c].users = online
    BY <2>1 DEF PeersInv, PeersShown
  <2>3. shown[c] \in [zmodem : BOOLEAN, users : SUBSET Users]
    BY <2>1 DEF PeersInv, ConnInv, TypeOK
  <2> QED BY <2>2, <2>3
<1> QED BY <1>1, <1>2, PTL
-----------------------------------------------------------------------------
(* The log reaches every connection without a gap.                         *)

FeedInv == PeersInv /\ RecentIsSuffix /\ NoGapNoRepeat

LEMMA FeedInit == Init => FeedInv
<1>1. Init => RecentIsSuffix
  <2>1. Len(<<>>) = 0 /\ SubSeq(<<>>, 1, 0) = <<>>
    BY SubSeqEmpty
  <2> QED BY <2>1 DEF Init, RecentIsSuffix
<1>2. Init => NoGapNoRepeat
  BY DEF Init, NoGapNoRepeat, Live
<1> QED BY <1>1, <1>2, PeersInit DEF FeedInv

\* A step that leaves the log, the ring, the connections' logs and what run has
\* in hand for the live connections alone keeps both.
LEMMA FeedUnchanged ==
    ASSUME RecentIsSuffix, NoGapNoRepeat, UNCHANGED <<log, recent, since, got>>,
           Live' \subseteq Live, \A c \in Live' : InHand(c)' = InHand(c)
    PROVE  RecentIsSuffix' /\ NoGapNoRepeat'
BY DEF RecentIsSuffix, NoGapNoRepeat

LEMMA FeedStep == FeedInv /\ [Next]_vars => FeedInv'
<1> SUFFICES ASSUME FeedInv, [Next]_vars PROVE FeedInv'
  OBVIOUS
<1>0. /\ TypeOK /\ RunShape /\ MembersKeepRoomAlive /\ PeersShown
      /\ RecentIsSuffix /\ NoGapNoRepeat /\ PeersInv' /\ TypeOK'
  BY PeersStep DEF FeedInv, PeersInv, ConnInv
<1> SUFFICES RecentIsSuffix' /\ NoGapNoRepeat'
  BY <1>0 DEF FeedInv
<1>1. CASE TickExit
  BY <1>0, <1>1, FeedUnchanged DEF TickExit, RunShape, Live, roomVars, peerVars
<1>2. CASE TickReap
  BY <1>0, <1>2, FeedUnchanged DEF TickReap, WorkOn, RunShape, Live, InHand, roomVars, peerVars
<1>3. CASE AcceptExit
  BY <1>0, <1>3, FeedUnchanged DEF AcceptExit, WorkOn, RunShape, Live, InHand, roomVars, peerVars
<1>4. ASSUME NEW c \in Conns, SendReplay(c) PROVE RecentIsSuffix' /\ NoGapNoRepeat'
  <2>1. RecentIsSuffix' /\ Live' = Live
    BY <1>0, <1>4 DEF SendReplay, RecentIsSuffix, Live, roomVars
  <2>2. to = {c} /\ to' = {c} /\ at = "replay" /\ at' = "replay"
    BY <1>0, <1>4 DEF SendReplay, RunShape
  <2>3. ASSUME NEW d \in Live', d # c
        PROVE  got'[d] \o InHand(d)' = SubSeq(log, since[d], Len(log))
    <3>1. d \in Live /\ got'[d] = got[d]
      BY <1>0, <1>4, <2>1, <2>3 DEF SendReplay, TypeOK, Live
    <3>2. InHand(d)' = InHand(d)
      BY <2>2, <2>3 DEF InHand
    <3> QED BY <1>0, <3>1, <3>2 DEF NoGapNoRepeat
  <2>4. ASSUME c \in Live'
        PROVE  got'[c] \o InHand(c)' = SubSeq(log, since[c], Len(log))
    <3>1. InHand(c) = replay /\ InHand(c)' = Tail(replay)
      BY <1>4, <2>2 DEF InHand, SendReplay
    <3>2. got'[c] = Append(got[c], Head(replay))
      BY <1>0, <1>4, <2>1, <2>4 DEF SendReplay, Live, TypeOK
    <3>3. Append(got[c], Head(replay)) \o Tail(replay) = got[c] \o replay
      <4>1. /\ got[c] \in Seq(1..MaxMsgs) /\ replay \in Seq(1..MaxMsgs)
            /\ replay # <<>>
        BY <1>0, <1>4 DEF SendReplay, TypeOK
      <4> QED BY <4>1, ShiftHead
    <3> QED BY <1>0, <2>1, <2>4, <3>1, <3>2, <3>3 DEF NoGapNoRepeat
  <2> QED BY <1>4, <2>1, <2>3, <2>4 DEF NoGapNoRepeat, SendReplay
<1>5. ASSUME NEW c \in Conns, SendUsers(c) PROVE RecentIsSuffix' /\ NoGapNoRepeat'
  <2>1. to = {c} /\ to' = {} /\ at = "replay" /\ at' = "select" /\ replay = <<>>
    BY <1>0, <1>5 DEF SendUsers, WorkOn, RunShape
  <2>2. Live' = Live
    BY <1>5 DEF SendUsers, Live, roomVars
  <2>3. \A d \in Live' : InHand(d)' = InHand(d)
    BY <2>1 DEF InHand
  <2> QED BY <1>0, <1>5, <2>2, <2>3, FeedUnchanged DEF SendUsers, roomVars
<1>6. ASSUME NEW c \in Conns, Deliver(c) PROVE RecentIsSuffix' /\ NoGapNoRepeat'
  <2>1. RecentIsSuffix' /\ Live' = Live
    BY <1>0, <1>6 DEF Deliver, RecentIsSuffix, Live, roomVars
  <2>2. to' = to \ {c} /\ at = "cast" /\ (to' # {} => at' = "cast") /\ at' \in {"select", "cast"}
    BY <1>6 DEF Deliver, WorkOn
  <2>3. ASSUME NEW d \in Live', d # c
        PROVE  got'[d] \o InHand(d)' = SubSeq(log, since[d], Len(log))
    <3>1. d \in Live /\ got'[d] = got[d] /\ (d \in to => msg' = msg)
      BY <1>0, <1>6, <2>1, <2>3 DEF Deliver, TypeOK, Live
    <3>2. InHand(d)' = InHand(d)
      BY <2>2, <2>3, <3>1 DEF InHand
    <3> QED BY <1>0, <3>1, <3>2 DEF NoGapNoRepeat
  <2>4. ASSUME c \in Live'
        PROVE  got'[c] \o InHand(c)' = SubSeq(log, since[c], Len(log))
    <3>1. InHand(c)' = <<>>
      BY <2>2 DEF InHand
    <3>2. got'[c] \in Seq(1..MaxMsgs) /\ got[c] \in Seq(1..MaxMsgs)
      BY <1>0 DEF TypeOK
    <3>3. CASE msg.event = "Data"
      <4>1. InHand(c) = <<msg.n>> /\ got'[c] = Append(got[c], msg.n)
        BY <1>0, <1>6, <2>1, <2>4, <3>3 DEF Deliver, InHand, TypeOK, Live
      <4>2. msg.n \in 1..MaxMsgs
        BY <1>0, <1>6, <3>3, EventTypes DEF Deliver, TypeOK
      <4>3. got'[c] \o <<>> = got[c] \o <<msg.n>>
        BY <3>2, <4>1, <4>2, AppendIsConcat, ConcatEmptySeq
      <4> QED BY <1>0, <2>1, <2>4, <3>1, <4>1, <4>3 DEF NoGapNoRepeat
    <3>4. CASE msg.event # "Data"
      <4>1. InHand(c) = <<>> /\ got'[c] = got[c]
        BY <1>0, <1>6, <2>2, <3>4 DEF Deliver, InHand, TypeOK
      <4> QED BY <1>0, <2>1, <2>4, <3>1, <4>1 DEF NoGapNoRepeat
    <3> QED BY <3>3, <3>4
  <2> QED BY <1>6, <2>1, <2>3, <2>4 DEF NoGapNoRepeat, Deliver
<1>7. ASSUME NEW c \in Conns, CloseConn(c) PROVE RecentIsSuffix' /\ NoGapNoRepeat'
  <2>1. Live' = Live /\ at = "close" /\ at' \in {"select", "close"}
    BY <1>0, <1>7 DEF CloseConn, WorkOn, Live, roomVars, TypeOK
  <2> QED BY <1>0, <1>7, <2>1, FeedUnchanged DEF CloseConn, InHand, roomVars
<1>8. ASSUME NEW c \in Conns, AcceptSubscribe(c) PROVE RecentIsSuffix' /\ NoGapNoRepeat'
  <2>1. to' = {c} /\ at' = "replay" /\ at = "select" /\ to = {} /\ replay' = recent
    BY <1>0, <1>8 DEF AcceptSubscribe, WorkOn, RunShape
  <2>2. Len(log) \in Nat /\ Len(recent) \in Nat
    BY <1>0 DEF TypeOK
  <2>3. UNCHANGED <<log, recent, got, stream>> /\ connMaps' = connMaps \cup {c}
    BY <1>8 DEF AcceptSubscribe
  <2>4. RecentIsSuffix'
    <3>1. \A d \in Conns : since'[d] \in {since[d], Len(log) - Len(recent) + 1}
      BY <1>0, <1>8 DEF AcceptSubscribe, TypeOK
    <3>2. \A d \in Conns : since'[d] <= Len(log) + 1
      BY <1>0, <2>2, <3>1 DEF RecentIsSuffix
    <3> QED BY <1>0, <2>3, <3>2 DEF RecentIsSuffix
  <2>5. ASSUME NEW d \in Live', d # c
        PROVE  got'[d] \o InHand(d)' = SubSeq(log', since'[d], Len(log'))
    <3>1. d \in Live /\ InHand(d)' = <<>> /\ InHand(d) = <<>> /\ since'[d] = since[d]
      BY <1>0, <1>8, <2>1, <2>3, <2>5 DEF AcceptSubscribe, InHand, TypeOK, Live
    <3> QED BY <1>0, <2>3, <3>1 DEF NoGapNoRepeat
  <2>6. ASSUME c \in Live'
        PROVE  got'[c] \o InHand(c)' = SubSeq(log', since'[c], Len(log'))
    <3>1. got[c] = <<>> /\ stream[c] # "gone"
      BY <1>0, <1>8, <2>3, <2>6 DEF AcceptSubscribe, PeersShown, Live
    <3>2. since'[c] = Len(log) - Len(recent) + 1 /\ InHand(c)' = recent
      BY <1>0, <1>8, <2>1, <3>1 DEF AcceptSubscribe, InHand, TypeOK
    <3>3. <<>> \o recent = recent
      BY <1>0, ConcatEmptySeq DEF TypeOK
    <3> QED BY <1>0, <2>3, <3>1, <3>2, <3>3 DEF RecentIsSuffix
  <2> QED BY <2>4, <2>5, <2>6 DEF NoGapNoRepeat
<1>9. ASSUME NEW c \in Conns, AcceptUnSubscribe(c) PROVE RecentIsSuffix' /\ NoGapNoRepeat'
  <2>1. Live' \subseteq Live /\ at' = "select" /\ at = "select"
    BY <1>9 DEF AcceptUnSubscribe, Live, runVars, peerVars
  <2> QED BY <1>0, <1>9, <2>1, FeedUnchanged DEF AcceptUnSubscribe, InHand, runVars, peerVars
<1>10. ASSUME NEW s \in Senders, AcceptBroadcast(s) PROVE RecentIsSuffix' /\ NoGapNoRepeat'
  <2> DEFINE m == pending[s]
  <2>1. m \in RoomMessage /\ (connMaps # {} => msg' = m)
    BY <1>0, <1>10 DEF AcceptBroadcast, TypeOK
  <2>2. /\ at = "select" /\ to' = connMaps /\ Live' = Live /\ UNCHANGED <<got, since>>
        /\ (connMaps # {} => at' = "cast")
    BY <1>10 DEF AcceptBroadcast, WorkOn, Live, peerVars
  <2>3. \A c \in Live : InHand(c) = <<>> /\ c \in to' /\ at' = "cast" /\ c \in Conns
    BY <1>0, <2>2 DEF InHand, Live, TypeOK
  <2>4. CASE m.event # "Data"
    <3>1. UNCHANGED <<log, recent>>
      BY <1>10, <2>1, <2>4 DEF AcceptBroadcast
    <3>2. \A c \in Live' : InHand(c)' = InHand(c)
      BY <2>1, <2>2, <2>3, <2>4 DEF InHand
    <3> QED BY <1>0, <2>2, <3>1, <3>2, FeedUnchanged
  <2>5. CASE m.event = "Data"
    <3>1. PICK n \in 1..MaxMsgs : n = m.n
      BY <2>1, <2>5, EventTypes
    <3>2. log' = Append(log, n) /\ recent' = Store(recent, n)
      BY <1>10, <2>1, <2>5, <3>1 DEF AcceptBroadcast
    <3>3. Len(log') = Len(log) + 1 /\ Len(log) \in Nat
      BY <1>0, <3>1, <3>2, AppendProperties DEF TypeOK
    <3>4. RecentIsSuffix'
      <4>1. /\ Len(recent') \in {RingSize, Len(log')}
            /\ recent' = SubSeq(log', Len(log') - Len(recent') + 1, Len(log'))
        <5>1. /\ log \in Seq(1..MaxMsgs) /\ recent \in Seq(1..MaxMsgs)
              /\ Len(recent) <= RingSize /\ Len(recent) <= Len(log)
              /\ Len(recent) \in {RingSize, Len(log)}
              /\ recent = SubSeq(log, Len(log) - Len(recent) + 1, Len(log))
          BY <1>0 DEF TypeOK, RecentIsSuffix
        <5>2. /\ Len(Store(recent, n)) \in {RingSize, Len(Append(log, n))}
              /\ Store(recent, n) = SubSeq(Append(log, n),
                                    Len(Append(log, n)) - Len(Store(recent, n)) + 1,
                                    Len(Append(log, n)))
          BY <5>1, StoreIsSuffix
        <5> QED BY <3>2, <5>2
      <4>2. \A c \in Conns : since'[c] <= Len(log') + 1
        BY <1>0, <2>2, <3>3 DEF RecentIsSuffix, TypeOK
      <4> QED BY <4>1, <4>2 DEF RecentIsSuffix
    <3>5. ASSUME NEW c \in Live'
          PROVE  got'[c] \o InHand(c)' = SubSeq(log', since'[c], Len(log'))
      <4>1. InHand(c)' = <<n>> /\ InHand(c) = <<>> /\ c \in Live /\ c \in Conns
        BY <2>1, <2>2, <2>3, <2>5, <3>1, <3>5 DEF InHand
      <4>2. got[c] = SubSeq(log, since[c], Len(log))
        <5>1. got[c] \o <<>> = SubSeq(log, since[c], Len(log))
          BY <1>0, <4>1 DEF NoGapNoRepeat
        <5>2. got[c] \in Seq(1..MaxMsgs)
          BY <1>0, <4>1 DEF TypeOK
        <5> QED BY <5>1, <5>2, ConcatEmptySeq
      <4>3. since[c] \in 1..(Len(log) + 1)
        BY <1>0, <3>3, <4>1 DEF RecentIsSuffix, TypeOK
      <4>4. SubSeq(Append(log, n), since[c], Len(log) + 1) = Append(got[c], n)
        <5>1. log \in Seq(1..MaxMsgs)
          BY <1>0 DEF TypeOK
        <5>2. SubSeq(Append(log, n), since[c], Len(log) + 1)
                = Append(SubSeq(log, since[c], Len(log)), n)
          BY <4>3, <5>1, SuffixAppend
        <5> QED BY <4>2, <5>2
      <4>5. Append(got[c], n) = got[c] \o <<n>>
        <5>1. got[c] \in Seq(1..MaxMsgs)
          BY <1>0, <4>1 DEF TypeOK
        <5> QED BY <5>1, AppendIsConcat
      <4>6. got'[c] = got[c] /\ since'[c] = since[c]
        BY <2>2
      <4>7. SubSeq(log', since'[c], Len(log')) = Append(got[c], n)
        BY <3>2, <3>3, <4>4, <4>6
      <4> QED BY <4>1, <4>5, <4>6, <4>7
    <3> QED BY <3>4, <3>5 DEF NoGapNoRepeat
  <2> QED BY <2>4, <2>5
<1>11. CASE Callers
  <2>1. Live' \subseteq Live
    BY <1>0, <1>11 DEF Callers, Stop, StopDone, StopClose, Subscribe, UnSubscribe, HangUp,
                       Broadcast, BroadcastDone, roomVars, peerVars, Live, TypeOK
  <2>2. UNCHANGED <<runVars, roomVars, since, log, got>>
    BY <1>11 DEF Callers, Stop, StopDone, StopClose, Subscribe, UnSubscribe, HangUp,
                 Broadcast, BroadcastDone, peerVars
  <2> QED BY <1>0, <2>1, <2>2, FeedUnchanged DEF InHand, runVars, roomVars
<1>12. CASE UNCHANGED vars
  BY <1>0, <1>12, FeedUnchanged DEF vars, InHand, Live
<1> QED
  BY <1>1, <1>2, <1>3, <1>4, <1>5, <1>6, <1>7, <1>8, <1>9, <1>10, <1>11, <1>12
     DEF Next, Run, Work, FeedInv

\* For every connection whose peer reads, what it was sent and what run still
\* holds for it are the log from where it joined to its end.
THEOREM FedWithoutGaps == Spec => []NoGapNoRepeat
<1>1. FeedInv => NoGapNoRepeat
  BY DEF FeedInv
<1> QED BY <1>1, FeedInit, FeedStep, PTL DEF Spec

-----------------------------------------------------------------------------
(* Room implements Hub: each step of a room is a step of the hub or leaves *)
(* the hub's state alone.  And what a hub feeds is a run of its log.       *)

-----------------------------------------------------------------------------
\* Where a connection stands in the log when run has nothing in hand for it.
LEMMA NothingInHand ==
    ASSUME NEW S, NEW l \in Seq(S), NEW k \in 1..(Len(l) + 1), NEW a \in Seq(S),
           a = SubSeq(l, k, Len(l))
    PROVE  k + Len(a) = Len(l) + 1
<1>1. Len(l) \in Nat /\ \A i \in k..Len(l) : l[i] \in S
  BY ElementOfSeq
<1>2. Len(SubSeq(l, k, Len(l))) = IF k <= Len(l) THEN Len(l) - k + 1 ELSE 0
  BY <1>1, SubSeqProperties
<1> QED BY <1>1, <1>2

\* What follows one sequence in front of another is the other's first element.
LEMMA ElementAfter ==
    ASSUME NEW S, NEW a \in Seq(S), NEW b \in Seq(S), b # <<>>
    PROVE  Len(a \o b) = Len(a) + Len(b) /\ (a \o b)[Len(a) + 1] = b[1]
OBVIOUS

\* The first message in hand is the message of the log that comes next.
LEMMA HeadInHand ==
    ASSUME NEW S, NEW l \in Seq(S), NEW k \in 1..(Len(l) + 1),
           NEW a \in Seq(S), NEW b \in Seq(S), b # <<>>,
           a \o b = SubSeq(l, k, Len(l))
    PROVE  k + Len(a) <= Len(l) /\ Head(b) = l[k + Len(a)]
<1>1. Len(l) \in Nat /\ \A i \in k..Len(l) : l[i] \in S
  BY ElementOfSeq
<1>2. /\ Len(SubSeq(l, k, Len(l))) = IF k <= Len(l) THEN Len(l) - k + 1 ELSE 0
      /\ \A i \in 1..(Len(l) - k + 1) : SubSeq(l, k, Len(l))[i] = l[k + i - 1]
  BY <1>1, SubSeqProperties
<1>3. /\ Len(a) \in Nat /\ Len(b) \in Nat /\ Len(b) >= 1
      /\ Len(a \o b) = Len(a) + Len(b)
      /\ (a \o b)[Len(a) + 1] = b[1] /\ Head(b) = b[1]
  <2>1. Len(a) \in Nat /\ Len(b) \in Nat /\ Len(b) >= 1 /\ Head(b) = b[1]
    BY EmptySeq
  <2>2. Len(a \o b) = Len(a) + Len(b) /\ (a \o b)[Len(a) + 1] = b[1]
    BY ElementAfter, Zenon
  <2> QED BY <2>1, <2>2
<1>4. Len(a) + 1 \in 1..(Len(l) - k + 1)
  BY <1>1, <1>2, <1>3
<1>5. k + (Len(a) + 1) - 1 = k + Len(a) /\ k + Len(a) <= Len(l)
  BY <1>1, <1>3, <1>4
<1> QED BY <1>2, <1>3, <1>4, <1>5

\* The same of the messages of a room.
LEMMA NextInHand ==
    \A l, a, b \in Seq(1..MaxMsgs) : \A k \in 1..(Len(l) + 1) :
       b # <<>> /\ a \o b = SubSeq(l, k, Len(l))
         => k + Len(a) <= Len(l) /\ Head(b) = l[k + Len(a)]
<1> TAKE l, a, b \in Seq(1..MaxMsgs)
<1> TAKE k \in 1..(Len(l) + 1)
<1> HAVE b # <<>> /\ a \o b = SubSeq(l, k, Len(l))
<1> QED BY HeadInHand, SMTT(30)
-----------------------------------------------------------------------------
LEMMA HubInit == Init => H!Init
BY DEF Init, H!Init, Live

\* Between two cases of its select a room lags behind with no connection.
LEMMA CaughtUpAtSelect ==
    ASSUME FeedInv, at = "select"
    PROVE  H!AllCaughtUp
<1> SUFFICES ASSUME NEW c \in Live PROVE since[c] + Len(got[c]) = Len(log) + 1
  BY DEF H!AllCaughtUp, H!NextFor
<1>1. /\ c \in Conns /\ log \in Seq(1..MaxMsgs) /\ got[c] \in Seq(1..MaxMsgs)
      /\ since[c] \in Nat \ {0} /\ since[c] <= Len(log) + 1 /\ Len(log) \in Nat
  BY DEF FeedInv, PeersInv, ConnInv, TypeOK, Live, RecentIsSuffix
<1>2. got[c] \o <<>> = SubSeq(log, since[c], Len(log))
  BY DEF FeedInv, NoGapNoRepeat, InHand
<1>3. got[c] = SubSeq(log, since[c], Len(log))
  BY <1>1, <1>2, ConcatEmptySeq
<1>4. since[c] \in 1..(Len(log) + 1)
  BY <1>1
<1> QED BY <1>1, <1>3, <1>4, NothingInHand

\* Writing the first message in hand to a live connection feeds it.
LEMMA WriteFeeds ==
    ASSUME FeedInv, NEW c \in Live, InHand(c) \in Seq(1..MaxMsgs), InHand(c) # <<>>,
           got' = [got EXCEPT ![c] = Append(@, Head(InHand(c)))],
           Live' = Live, UNCHANGED <<log, since>>
    PROVE  H!Feed(c)
<1>0. c \in Conns
  BY DEF FeedInv, PeersInv, ConnInv, TypeOK, Live
<1>1. /\ log \in Seq(1..MaxMsgs) /\ got[c] \in Seq(1..MaxMsgs)
      /\ since[c] \in Nat \ {0} /\ since[c] <= Len(log) + 1 /\ Len(log) \in Nat
      /\ got \in [Conns -> Seq(1..MaxMsgs)]
  BY <1>0 DEF FeedInv, PeersInv, ConnInv, TypeOK, RecentIsSuffix
<1>2. got[c] \o InHand(c) = SubSeq(log, since[c], Len(log))
  BY DEF FeedInv, NoGapNoRepeat
<1>3. since[c] \in 1..(Len(log) + 1)
  BY <1>1
<1>4. since[c] + Len(got[c]) <= Len(log) /\ Head(InHand(c)) = log[since[c] + Len(got[c])]
  BY <1>1, <1>2, <1>3, NextInHand, Zenon
<1>5. got' = [got EXCEPT ![c] = Append(@, log[since[c] + Len(got[c])])]
  BY <1>4, Zenon
<1>6. UNCHANGED <<log, Live, since>>
  OBVIOUS
<1> QED BY <1>4, <1>5, <1>6 DEF H!Feed, H!NextFor

LEMMA HubStep == FeedInv /\ [Next]_vars => [H!Next]_(H!vars)
<1> SUFFICES ASSUME FeedInv, [Next]_vars PROVE H!Next \/ UNCHANGED H!vars
  OBVIOUS
<1>0. TypeOK /\ RunShape /\ MembersKeepRoomAlive /\ PeersShown /\ RecentIsSuffix
  BY DEF FeedInv, PeersInv, ConnInv
<1>a. Live \subseteq Conns
  BY <1>0 DEF Live, TypeOK
<1>1. CASE TickExit \/ TickReap \/ AcceptExit
  BY <1>1 DEF TickExit, TickReap, AcceptExit, roomVars, peerVars, H!vars, Live
<1>2. ASSUME NEW c \in Conns, SendReplay(c) PROVE H!Next \/ UNCHANGED H!vars
  <2>1. Live' = Live /\ UNCHANGED <<log, since>>
    BY <1>2 DEF SendReplay, roomVars, Live
  <2>2. CASE stream[c] = "gone"
    BY <1>2, <2>1, <2>2 DEF SendReplay, H!vars
  <2>3. CASE stream[c] # "gone"
    <3>1. c \in Live /\ InHand(c) = replay /\ replay # <<>> /\ replay \in Seq(1..MaxMsgs)
      BY <1>0, <1>2, <2>3 DEF SendReplay, RunShape, Live, InHand, TypeOK
    <3>2. got' = [got EXCEPT ![c] = Append(@, Head(InHand(c)))]
      BY <1>2, <2>3, <3>1 DEF SendReplay
    <3>3. H!Feed(c)
      BY <2>1, <3>1, <3>2, WriteFeeds
    <3> QED BY <3>3 DEF H!Next
  <2> QED BY <2>2, <2>3
<1>3. ASSUME NEW c \in Conns, SendUsers(c) \/ CloseConn(c)
      PROVE  UNCHANGED H!vars
  BY <1>0, <1>3 DEF SendUsers, CloseConn, roomVars, H!vars, Live, TypeOK
<1>4. ASSUME NEW c \in Conns, Deliver(c) PROVE H!Next \/ UNCHANGED H!vars
  <2>1. Live' = Live /\ UNCHANGED <<log, since>>
    BY <1>4 DEF Deliver, roomVars, Live
  <2>2. CASE stream[c] = "gone" \/ msg.event # "Data"
    BY <1>4, <2>1, <2>2 DEF Deliver, H!vars
  <2>3. CASE stream[c] # "gone" /\ msg.event = "Data"
    <3>1. c \in Live /\ InHand(c) = <<msg.n>> /\ msg.n \in 1..MaxMsgs
      BY <1>0, <1>4, <2>3, EventTypes DEF Deliver, RunShape, Live, InHand, TypeOK
    <3>2. InHand(c) \in Seq(1..MaxMsgs) /\ InHand(c) # <<>> /\ Head(InHand(c)) = msg.n
      BY <3>1
    <3>3. got' = [got EXCEPT ![c] = Append(@, Head(InHand(c)))]
      BY <1>4, <2>3, <3>2 DEF Deliver
    <3>4. H!Feed(c)
      BY <2>1, <3>1, <3>2, <3>3, WriteFeeds
    <3> QED BY <3>4 DEF H!Next
  <2> QED BY <2>2, <2>3
<1>5. ASSUME NEW c \in Conns, AcceptSubscribe(c) PROVE H!Next \/ UNCHANGED H!vars
  <2>1. at = "select" /\ UNCHANGED <<log, got, stream>> /\ connMaps' = connMaps \cup {c}
    BY <1>5 DEF AcceptSubscribe
  <2>2. c \notin connMaps /\ got[c] = <<>>
    BY <1>0, <1>5 DEF AcceptSubscribe, MembersKeepRoomAlive, PeersShown
  <2>3. CASE stream[c] = "gone"
    BY <1>5, <2>1, <2>3 DEF AcceptSubscribe, H!vars, Live
  <2>4. CASE stream[c] # "gone"
    <3>1. Live' = Live \cup {c} /\ c \notin Live
      BY <1>0, <2>1, <2>2, <2>4 DEF Live
    <3>2. /\ Len(log) \in Nat /\ Len(recent) \in Nat /\ RingSize \in Nat
          /\ Len(recent) <= RingSize /\ Len(recent) <= Len(log)
          /\ Len(recent) \in {RingSize, Len(log)}
      BY <1>0, RingSizeAssumption DEF TypeOK, RecentIsSuffix
    <3>3. Len(log) - Len(recent) + 1
            = IF Len(log) < RingSize THEN 1 ELSE Len(log) - RingSize + 1
      BY <3>2
    <3>4. since' = [since EXCEPT ![c] = Len(log) - Len(recent) + 1]
      BY <1>5, <2>4 DEF AcceptSubscribe
    <3>5. H!AllCaughtUp
      BY <2>1, CaughtUpAtSelect
    <3>6. H!Join(c)
      BY <2>1, <2>2, <3>1, <3>3, <3>4, <3>5 DEF H!Join
    <3> QED BY <3>6 DEF H!Next
  <2> QED BY <2>3, <2>4
<1>6. ASSUME NEW c \in Conns, AcceptUnSubscribe(c) \/ HangUp(c)
      PROVE  H!Next \/ UNCHANGED H!vars
  <2>1. UNCHANGED <<log, since, got>> /\ Live' = Live \ {c}
    BY <1>0, <1>6 DEF AcceptUnSubscribe, HangUp, runVars, roomVars, peerVars, Live, TypeOK
  <2>2. CASE c \in Live
    BY <2>1, <2>2 DEF H!Leave, H!Next
  <2>3. CASE c \notin Live
    BY <2>1, <2>3 DEF H!vars
  <2> QED BY <2>2, <2>3
<1>7. ASSUME NEW s \in Senders, AcceptBroadcast(s) PROVE H!Next \/ UNCHANGED H!vars
  <2> DEFINE m == pending[s]
  <2>1. at = "select" /\ Live' = Live /\ UNCHANGED <<got, since>>
    BY <1>7 DEF AcceptBroadcast, Live, peerVars
  <2>2. CASE m.event # "Data"
    BY <1>7, <2>1, <2>2 DEF AcceptBroadcast, H!vars
  <2>3. CASE m.event = "Data"
    <3>1. m \in RoomMessage
      BY <1>0, <1>7, <2>1 DEF AcceptBroadcast, TypeOK
    <3>2. PICK n \in 1..MaxMsgs : n = m.n
      BY <2>3, <3>1 DEF RoomMessage, Data
    <3>3. log' = Append(log, n)
      BY <1>7, <2>3, <3>2 DEF AcceptBroadcast
    <3>4. H!AllCaughtUp
      BY <2>1, CaughtUpAtSelect
    <3>5. H!Publish(n)
      BY <2>1, <3>3, <3>4 DEF H!Publish
    <3> QED BY <3>5 DEF H!Next
  <2> QED BY <2>2, <2>3
<1>8. CASE Stop \/ StopDone \/ StopClose
  BY <1>8 DEF Stop, StopDone, StopClose, roomVars, peerVars, H!vars, Live
<1>9. ASSUME NEW c \in Conns, Subscribe(c) \/ UnSubscribe(c) PROVE UNCHANGED H!vars
  BY <1>9 DEF Subscribe, UnSubscribe, roomVars, peerVars, H!vars, Live
<1>10. ASSUME NEW s \in Senders, Broadcast(s) \/ BroadcastDone(s) PROVE UNCHANGED H!vars
  BY <1>10 DEF Broadcast, BroadcastDone, roomVars, peerVars, H!vars, Live
<1>11. CASE UNCHANGED vars
  BY <1>11 DEF vars, H!vars, Live
<1> QED
  BY <1>1, <1>2, <1>3, <1>4, <1>5, <1>6, <1>7, <1>8, <1>9, <1>10, <1>11
     DEF Next, Run, Work, Callers

\* A room is a hub: whatever its callers do, one log exists of which every live
\* connection is fed consecutive messages, starting at most RingSize before the
\* end at its Subscribe, and no message is taken while one lags.
THEOREM RoomImplementsHub == Spec => HubSpec
<1>1. Spec => []FeedInv
  BY FeedInit, FeedStep, PTL DEF Spec
<1> QED BY <1>1, HubInit, HubStep, PTL DEF Spec, HubSpec, H!Spec

\* What the hub feeds stays a run of the log: a later message, a later join and
\* a leave do not change what was fed before.
LEMMA FedStep ==
    ASSUME EverFedARun, TypeOK, [H!Next]_(H!vars)
    PROVE  EverFedARun'
<1> USE DEF EverFedARun, H!FedIsARunOfLog, H!NextFor
<1>0. /\ log \in Seq(1..MaxMsgs) /\ got \in [Conns -> Seq(1..MaxMsgs)]
      /\ since \in [Conns -> Nat \ {0}] /\ Len(log) \in Nat
      /\ RingSize \in Nat /\ RingSize >= 1
  BY RingSizeAssumption DEF TypeOK
<1>1. ASSUME NEW n \in 1..MaxMsgs, H!Publish(n) PROVE EverFedARun'
  <2>1. /\ log' = Append(log, n) /\ got' = got /\ since' = since
        /\ Len(log') = Len(log) + 1 /\ \A j \in 1..Len(log) : log'[j] = log[j]
    BY <1>0, <1>1, AppendProperties DEF H!Publish
  <2>2. ASSUME NEW c \in Conns
        PROVE  /\ since'[c] + Len(got'[c]) <= Len(log') + 1
               /\ \A i \in 1..Len(got'[c]) : got'[c][i] = log'[since'[c] + i - 1]
    <3>1. Len(got[c]) \in Nat /\ since[c] \in Nat /\ since[c] >= 1
      BY <1>0
    <3>2. since[c] + Len(got[c]) <= Len(log) + 1
      OBVIOUS
    <3>3. ASSUME NEW i \in 1..Len(got[c]) PROVE since[c] + i - 1 \in 1..Len(log)
      BY <1>0, <3>1, <3>2
    <3> QED BY <1>0, <2>1, <3>1, <3>2, <3>3
  <2> QED BY <2>2
<1>2. ASSUME NEW c \in Conns, H!Join(c) PROVE EverFedARun'
  <2>1. got' = got /\ log' = log /\ got[c] = <<>> /\ Len(got[c]) = 0
    BY <1>2, EmptySeq DEF H!Join
  <2>2. \A d \in Conns \ {c} : since'[d] = since[d]
    BY <1>0, <1>2 DEF H!Join
  <2>3. since'[c] \in Nat /\ since'[c] <= Len(log) + 1
    BY <1>0, <1>2 DEF H!Join
  <2>4. \A d \in Conns \ {c} :
          /\ since'[d] + Len(got'[d]) <= Len(log') + 1
          /\ \A i \in 1..Len(got'[d]) : got'[d][i] = log'[since'[d] + i - 1]
    BY <2>1, <2>2
  <2>5. /\ since'[c] + Len(got'[c]) <= Len(log') + 1
        /\ \A i \in 1..Len(got'[c]) : got'[c][i] = log'[since'[c] + i - 1]
    BY <1>0, <2>1, <2>3
  <2> QED BY <2>4, <2>5
<1>3. ASSUME NEW c \in Conns, H!Feed(c) PROVE EverFedARun'
  <2> DEFINE n == log[since[c] + Len(got[c])]
  <2>1. /\ Len(got[c]) \in Nat /\ since[c] \in Nat /\ since[c] >= 1
        /\ since[c] + Len(got[c]) \in 1..Len(log) /\ got[c] \in Seq(1..MaxMsgs)
    BY <1>0, <1>3 DEF H!Feed
  <2>2. n \in 1..MaxMsgs
    BY <1>0, <2>1, ElementOfSeq
  <2>3. /\ log' = log /\ since' = since /\ got'[c] = Append(got[c], n)
        /\ \A d \in Conns \ {c} : got'[d] = got[d]
    BY <1>0, <1>3 DEF H!Feed
  <2>4. /\ Len(got'[c]) = Len(got[c]) + 1 /\ got'[c][Len(got[c]) + 1] = n
        /\ \A i \in 1..Len(got[c]) : got'[c][i] = got[c][i]
    BY <2>1, <2>2, <2>3, AppendProperties
  <2>5. since[c] + (Len(got[c]) + 1) - 1 = since[c] + Len(got[c])
    BY <2>1
  <2>6. ASSUME NEW i \in 1..Len(got'[c]) PROVE got'[c][i] = log[since[c] + i - 1]
    <3>1. CASE i = Len(got[c]) + 1
      BY <2>4, <2>5, <3>1
    <3>2. CASE i # Len(got[c]) + 1
      <4>1. i \in 1..Len(got[c])
        BY <2>1, <2>4, <3>2
      <4> QED BY <2>4, <4>1
    <3> QED BY <3>1, <3>2
  <2>7. since[c] + Len(got'[c]) <= Len(log) + 1
    BY <1>0, <2>1, <2>4
  <2>8. log' = log /\ since'[c] = since[c]
    BY <2>3
  <2>9. \A d \in Conns \ {c} : since'[d] = since[d] /\ got'[d] = got[d]
    BY <2>3
  <2> QED BY <2>6, <2>7, <2>8, <2>9
<1>4. ASSUME NEW c \in Conns, H!Leave(c) PROVE EverFedARun'
  BY <1>4 DEF H!Leave
<1>5. CASE UNCHANGED H!vars
  BY <1>5 DEF H!vars
<1> QED BY <1>1, <1>2, <1>3, <1>4, <1>5 DEF H!Next

\* Every connection, whether it still listens or not, was sent consecutive
\* messages from where it joined: nothing skipped, repeated or reordered.
THEOREM EveryoneIsFedARun == Spec => []EverFedARun
<1>1. Init => EverFedARun
  <2> SUFFICES ASSUME Init, NEW c \in Conns
               PROVE  /\ since[c] + Len(got[c]) <= Len(log) + 1
                      /\ \A i \in 1..Len(got[c]) : got[c][i] = log[since[c] + i - 1]
    BY DEF EverFedARun, H!FedIsARunOfLog, H!NextFor
  <2>1. got[c] = <<>> /\ since[c] = 1 /\ Len(got[c]) = 0 /\ Len(log) = 0
    BY EmptySeq DEF Init
  <2> QED BY <2>1
<1>2. FeedInv /\ EverFedARun /\ [Next]_vars => EverFedARun'
  BY HubStep, FedStep DEF FeedInv, PeersInv, ConnInv
<1> QED BY <1>1, <1>2, FeedInit, FeedStep, PTL DEF Spec
=============================================================================
