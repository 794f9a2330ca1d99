----------------------------- MODULE BridgeProofs -----------------------------
(* Theorems about Bridge, for any number of pieces typed and sent and any  *)
(* tasks of administrators.                                                *)
EXTENDS Bridge, SequenceTheorems, TLAPS

-----------------------------------------------------------------------------
(* The invariant: what is in whose hands, that Bridge has left its select  *)
(* when its room is done, and each stream up to where nothing more is      *)
(* taken out of it.                                                        *)
Leaving == Deferred \cup {"over"}

HandsFit ==
    /\ b \in {"new", "connect"} => s = "off" /\ p = "off"
    /\ b \in {"new", "connect", "join"} => u = "off"
    /\ b \notin {"cast", "stuck"} => hold["b"] = <<>>
    /\ s = "send" => Len(hold["s"]) = 1
    /\ s \in {"off", "read"} => hold["s"] = <<>>
    /\ u = "first" => Len(hold["u"]) = 2 /\ (hold["u"][1] # 0 => hold["u"][2] # 0)
    /\ u = "second" => Len(hold["u"]) = 1
    /\ u \notin {"first", "second"} => hold["u"] = <<>>
    /\ p \in {"user", "srv"} => Len(hold["p"]) = 1

\* A sequence that is the first pieces of so many.
FirstOf(pieces, n) == Len(pieces) <= n /\ pieces = Upto(Len(pieces))

InputInv ==
    /\ roomDone => b \in Leaving
    /\ p # "end" /\ ~ roomDone => InputOnItsWay = Upto(typed)
    /\ ~ roomDone => FirstOf(srvGot \o InWrite \o userOut, typed)
    /\ FirstOf(srvGot, typed)

\* The output that has left the parser, and that has left the reader.
PastParser == roomGot \o InCast \o srvOut
PastReader == PastParser \o InParser("srv") \o srvIn

OutputInv ==
    /\ p # "end" /\ (s = "send" \/ hold["s"] = <<>>) => OutputOnItsWay = Upto(sent)
    /\ p # "end" => FirstOf(PastReader, sent)
    /\ FirstOf(PastParser, sent)

BridgeInv == TypeOK /\ HandsFit /\ InputInv /\ OutputInv

-----------------------------------------------------------------------------
(* Facts about the first pieces.                                           *)

\* Upto(n) is the sequence of the numbers up to n.
LEMMA UptoType ==
    ASSUME NEW n \in Nat
    PROVE  Upto(n) \in Seq(Nat) /\ Len(Upto(n)) = n /\ \A i \in 1..n : Upto(n)[i] = i
BY DEF Upto

\* The first of some pieces are the first of more.
LEMMA FirstOfMore ==
    ASSUME NEW x \in Seq(Nat), NEW n \in Nat, NEW m \in Nat, n <= m, FirstOf(x, n)
    PROVE  FirstOf(x, m)
BY DEF FirstOf

\* All pieces are the first of them.
LEMMA AllAreFirst ==
    ASSUME NEW n \in Nat, NEW x \in Seq(Nat), x = Upto(n)
    PROVE  FirstOf(x, n)
BY UptoType DEF FirstOf

\* What the first pieces start with are the first pieces.
LEMMA FrontIsFirst ==
    ASSUME NEW x \in Seq(Nat), NEW y \in Seq(Nat), NEW n \in Nat, FirstOf(x \o y, n)
    PROVE  FirstOf(x, n)
<1>1. Len(x) \in Nat /\ Len(y) \in Nat /\ Len(x \o y) = Len(x) + Len(y)
      /\ \A i \in 1..Len(x) : (x \o y)[i] = x[i]
  BY ConcatProperties
<1> DEFINE k == Len(x) + Len(y)
<1>2. ASSUME NEW i \in 1..Len(x) PROVE x[i] = i
  <2>1. k \in Nat /\ i \in 1..k
    BY <1>1
  <2>3. Upto(k)[i] = i
    BY <2>1, UptoType
  <2>2. x \o y = Upto(k)
    BY <1>1 DEF FirstOf
  <2> QED BY <1>1, <2>3, <2>2
<1>3. x = Upto(Len(x))
  BY <1>1, <1>2, UptoType, SeqEqual
<1> QED BY <1>1, <1>3 DEF FirstOf

\* The first pieces are a prefix of all.
LEMMA FirstIsPrefix ==
    ASSUME NEW x \in Seq(Nat), NEW n \in Nat, FirstOf(x, n)
    PROVE  IsPrefix(x, Upto(n))
<1>1. Len(x) \in Nat /\ Len(x) <= n /\ \A i \in 1..Len(x) : x[i] = i
  BY UptoType DEF FirstOf
<1>2. Upto(n) \in Seq(Nat) /\ Len(Upto(n)) = n /\ \A i \in 1..n : Upto(n)[i] = i
  BY UptoType
<1>3. SubSeq(x, 1, Len(x)) = SubSeq(Upto(n), 1, Len(x))
  BY <1>1, <1>2
<1> QED BY <1>1, <1>2, <1>3 DEF IsPrefix

\* A piece, or two, of the next numbers make more first pieces.
LEMMA NextPiece ==
    ASSUME NEW x \in Seq(Nat), NEW n \in Nat, x = Upto(n)
    PROVE  x \o <<n + 1>> = Upto(n + 1) /\ x \o <<n + 1, n + 2>> = Upto(n + 2)
BY DEF Upto

-----------------------------------------------------------------------------
(* Types.                                                                  *)
Places ==
    /\ b \in {"new", "connect", "join", "select", "cast", "lastcast", "stuck", "over"}
             \cup Deferred
    /\ s \in {"off", "read", "send", "exit", "close", "end"}
    /\ u \in {"off", "read", "first", "second", "exit", "end"}
    /\ p \in {"off", "select", "user", "srv", "end"}

Hands == hold \in [{"b", "s", "u", "p"} -> Seq(Nat)]

AtMostOne == {c \in Seq(Nat) : Len(c) <= 1}

Channels == srvIn \in AtMostOne /\ userIn \in AtMostOne /\ userOut \in AtMostOne /\ srvOut \in AtMostOne

Signals == closed \subseteq {"srvIn", "out"} /\ exitSignal \in 0..2 /\ notify \in 0..1

Ends ==
    /\ roomDone \in BOOLEAN /\ srv \in {"open", "deaf", "closed"} /\ userGone \in BOOLEAN
    /\ terminated \in BOOLEAN /\ crashed \in BOOLEAN /\ pipe \in {"open", "broken", "new"}

Streams ==
    /\ typed \in 0..MaxTyped /\ sent \in 0..MaxOutput
    /\ srvGot \in Seq(Nat) /\ roomGot \in Seq(Nat)

Types == Places /\ Hands /\ Channels /\ Signals /\ Ends /\ Streams

\* TypeOK in six parts.
LEMMA TypeOKIsTypes == TypeOK <=> Types
BY DEF TypeOK, Types, Places, Hands, Channels, AtMostOne, Signals, Ends, Streams

\* Where the goroutines are.
LEMMA PlacesStep ==
    ASSUME Places, [Next]_vars
    PROVE  Places'
<1> USE DEF Places, goVars, chanVars, envVars, dataVars, Deferred
<1>1. CASE Proxy \/ Reader
  BY <1>1 DEF Proxy, AddSession, ConnectFails, BridgeStart, BridgeJoin, RemoveSession,
     Reader, SrvRead, SrvSend, SrvReadErr, SrvExit, SrvCloseIn
<1>2. CASE Typist
  BY <1>2 DEF Typist, UserRead, UserChunk, UserSteal, UserReceive, UserReadErr, UserExit,
     UserReadPlain, RemoveSession
<1>3. CASE Parser
  BY <1>3 DEF Parser, ParseUser, ParseSrv, ParsePut, ParseEnd
<1>4. CASE Select
  BY <1>4 DEF Select, BridgeTick, BridgeTerminated, BridgeWindow, BridgeFromSrv, BridgeFromUser,
     BridgeParserEnded, BridgeUserGone, BridgeExit, BridgeNotify, BridgeStuck, BridgeTo
<1>5. CASE BridgeCast \/ Returning \/ DoneToParser \/ DoneToReader
  BY <1>5 DEF BridgeCast, Returning, BridgeLeave, BridgeRenewUser, BridgeCloseSrv,
     DoneToParser, DoneToReader, RemoveSession
<1>6. CASE Outside \/ UNCHANGED vars
  BY <1>6 DEF vars, Outside, RoomStops, SrvEnds, UserLeaves, Terminate, Pause
<1> QED BY <1>1, <1>2, <1>3, <1>4, <1>5, <1>6 DEF Next

\* The two ends of the bridge.
LEMMA EndsStep ==
    ASSUME Ends, [Next]_vars
    PROVE  Ends'
<1> USE DEF Ends, goVars, chanVars, envVars, dataVars
<1>1. CASE Proxy \/ Reader
  <2>1. CASE Proxy
    BY <2>1 DEF Proxy, AddSession, ConnectFails, BridgeStart, BridgeJoin, RemoveSession
  <2>2. CASE Reader
    BY <2>2 DEF Reader, SrvRead, SrvSend, SrvReadErr, SrvExit, SrvCloseIn
  <2> QED BY <1>1, <2>1, <2>2
<1>2. CASE Typist
  BY <1>2 DEF Typist, UserRead, UserChunk, UserSteal, UserReceive, UserReadErr, UserExit,
     UserReadPlain, RemoveSession
<1>3. CASE Parser
  BY <1>3 DEF Parser, ParseUser, ParseSrv, ParsePut, ParseEnd
<1>4. CASE Select
  BY <1>4 DEF Select, BridgeTick, BridgeTerminated, BridgeWindow, BridgeFromSrv, BridgeFromUser,
     BridgeParserEnded, BridgeUserGone, BridgeExit, BridgeNotify, BridgeStuck, BridgeTo
<1>5. CASE BridgeCast \/ Returning \/ DoneToParser \/ DoneToReader
  BY <1>5 DEF BridgeCast, Returning, BridgeLeave, BridgeRenewUser, BridgeCloseSrv,
     DoneToParser, DoneToReader, RemoveSession
<1>6. CASE Outside \/ UNCHANGED vars
  BY <1>6 DEF vars, Outside, RoomStops, SrvEnds, UserLeaves, Terminate, Pause
<1> QED BY <1>1, <1>2, <1>3, <1>4, <1>5, <1>6 DEF Next

\* The channels that are closed, and the signals on their way.
LEMMA SignalsStep ==
    ASSUME Signals, [Next]_vars
    PROVE  Signals'
<1> USE DEF goVars, chanVars, envVars, dataVars
<1>1. CASE UNCHANGED <<closed, exitSignal, notify>>
  BY <1>1 DEF Signals
<1>2. CASE closed' = closed \cup {"srvIn"} /\ UNCHANGED <<exitSignal, notify>>
  BY <1>2 DEF Signals
<1>3. CASE closed' = closed \cup {"out"} /\ exitSignal' = exitSignal /\ notify' \in {notify, 0}
  BY <1>3 DEF Signals
<1>4. CASE SrvExit \/ UserExit
  <2>1. closed' = closed /\ notify' = notify /\ exitSignal < 2 /\ exitSignal' = exitSignal + 1
    BY <1>4 DEF SrvExit, UserExit
  <2>2. exitSignal' \in 0..2
    BY <2>1 DEF Signals
  <2> QED BY <2>1, <2>2 DEF Signals
<1>5. CASE BridgeExit
  BY <1>5 DEF BridgeExit, Signals
<1>6. CASE closed' \in {closed, {}} /\ exitSignal' \in {exitSignal, 0} /\ notify' \in {notify, 0, 1}
  BY <1>6 DEF Signals
<1>7. CASE Proxy \/ Reader
  BY <1>1, <1>2, <1>4, <1>6, <1>7 DEF Proxy, AddSession, ConnectFails, BridgeStart, BridgeJoin,
     RemoveSession, Reader, SrvRead, SrvSend, SrvReadErr, SrvCloseIn
<1>8. CASE Typist
  BY <1>1, <1>4, <1>6, <1>8 DEF Typist, UserRead, UserChunk, UserSteal, UserReceive, UserReadErr,
     UserReadPlain, RemoveSession
<1>9. CASE Parser
  BY <1>1, <1>3, <1>9 DEF Parser, ParseUser, ParseSrv, ParsePut, ParseEnd
<1>10. CASE Select
  BY <1>1, <1>5, <1>6, <1>10 DEF Select, BridgeTick, BridgeTerminated, BridgeWindow, BridgeFromSrv,
     BridgeFromUser, BridgeParserEnded, BridgeUserGone, BridgeNotify, BridgeStuck
<1>11. CASE BridgeCast \/ Returning \/ DoneToParser \/ DoneToReader
  BY <1>1, <1>3, <1>6, <1>11 DEF BridgeCast, Returning, BridgeLeave, BridgeRenewUser,
     BridgeCloseSrv, DoneToParser, DoneToReader, RemoveSession
<1>12. CASE Outside \/ UNCHANGED vars
  BY <1>1, <1>6, <1>12 DEF vars, Outside, RoomStops, SrvEnds, UserLeaves, Terminate, Pause
<1> QED BY <1>7, <1>8, <1>9, <1>10, <1>11, <1>12 DEF Next

\* What has no length is empty.
LEMMA EmptyHasNoLength ==
    \A x \in Seq(Nat) : /\ x = <<>> <=> Len(x) = 0
                        /\ Len(x) \in {1, 2} => x # <<>>
<1> TAKE x \in Seq(Nat)
<1>1. x = <<>> <=> Len(x) = 0
  BY EmptySeq
<1>2. \A n : n \in {1, 2} => n # 0
  OBVIOUS
<1>3. Len(x) \in {1, 2} => x # <<>>
  BY <1>1, <1>2
<1> QED BY <1>1, <1>3

\* A channel of capacity one has one piece or none.
LEMMA OneOrNone ==
    /\ \A x \in AtMostOne : x \in Seq(Nat) /\ (x # <<>> => Len(x) = 1)
    /\ \A x \in Seq(Nat) : Len(x) = 1 => x \in AtMostOne
<1>1. ASSUME NEW x \in Seq(Nat), x # <<>>, Len(x) <= 1
      PROVE  Len(x) = 1
  BY <1>1, EmptySeq
<1>2. \A x \in AtMostOne : x \in Seq(Nat) /\ Len(x) <= 1
  BY DEF AtMostOne
<1>3. ASSUME NEW x \in Seq(Nat), Len(x) = 1
      PROVE  x \in AtMostOne
  BY <1>3 DEF AtMostOne
<1> QED BY <1>1, <1>2, <1>3

\* The rest of one piece or two.
LEMMA RestOfPieces ==
    \A x \in Seq(Nat) : /\ Len(x) = 2 => Tail(x) \in Seq(Nat) /\ Len(Tail(x)) = 1
                        /\ Len(x) = 1 => Tail(x) = <<>>
<1> TAKE x \in Seq(Nat)
<1>1. CASE Len(x) \in {1, 2}
  <2>1. x # <<>>
    BY <1>1, EmptyHasNoLength
  <2>2. Tail(x) \in Seq(Nat) /\ Len(Tail(x)) = Len(x) - 1
    BY <2>1, HeadTailProperties
  <2>3. Tail(x) = <<>> <=> Len(Tail(x)) = 0
    BY <2>2, EmptyHasNoLength
  <2> DEFINE n == Len(x)
             t == Tail(x)
             k == Len(t)
  <2>4. n \in {1, 2} /\ t \in Seq(Nat) /\ k = n - 1 /\ (t = <<>> <=> k = 0)
    BY <1>1, <2>2, <2>3
  <2> HIDE DEF n, t, k
  <2>5. /\ n = 2 => t \in Seq(Nat) /\ k = 1
        /\ n = 1 => t = <<>>
    BY <2>4
  <2> QED BY <2>5 DEF n, t, k
<1>2. CASE Len(x) \notin {1, 2}
  <2>1. \A n : n \notin {1, 2} => n # 2 /\ n # 1
    OBVIOUS
  <2> QED BY <1>2, <2>1
<1> QED BY <1>1, <1>2

\* A hand that takes something up or puts it down leaves the others alone.
LEMMA HandTakes ==
    ASSUME Hands, NEW g \in {"b", "s", "u", "p"}, NEW x \in Seq(Nat),
           hold' = [hold EXCEPT ![g] = x]
    PROVE  /\ Hands' /\ hold'[g] = x
           /\ \A h \in {"b", "s", "u", "p"} \ {g} : hold'[h] = hold[h]
BY DEF Hands

\* What is in the channels and hands comes from there, or is typed or sent.
LEMMA HandsStep ==
    ASSUME Hands, Channels, Streams, HandsFit, [Next]_vars
    PROVE  Hands' /\ HandsFit'
<1> USE DEF goVars, chanVars, envVars, dataVars
<1>1. /\ hold["b"] \in Seq(Nat) /\ hold["s"] \in Seq(Nat)
      /\ hold["u"] \in Seq(Nat) /\ hold["p"] \in Seq(Nat) /\ <<>> \in Seq(Nat)
  BY DEF Hands
<1>2. CASE SrvRead
  <2>1. <<sent'>> \in Seq(Nat) /\ Len(<<sent'>>) = 1
    BY <1>2 DEF SrvRead, Streams
  <2>2. Hands' /\ hold'["s"] = <<sent'>> /\ \A h \in {"b", "u", "p"} : hold'[h] = hold[h]
    BY <1>2, <2>1, HandTakes DEF SrvRead
  <2> QED BY <1>2, <2>1, <2>2 DEF SrvRead, HandsFit
<1>3. CASE SrvSend
  <2>1. Hands' /\ hold'["s"] = <<>> /\ \A h \in {"b", "u", "p"} : hold'[h] = hold[h]
    BY <1>1, <1>3, HandTakes DEF SrvSend
  <2> QED BY <1>3, <2>1 DEF SrvSend, HandsFit
<1>4. CASE UserRead \/ UserSteal
  <2>1. PICK cut \in {<<typed + 1, typed + 2>>, <<0, typed + 1>>, <<0, 0>>} :
            u = "read" /\ u' = "first" /\ hold' = [hold EXCEPT !["u"] = cut]
            /\ UNCHANGED <<b, s, p>>
    BY <1>4 DEF UserRead, UserChunk, UserSteal
  <2>2. cut \in Seq(Nat) /\ Len(cut) = 2 /\ (cut[1] # 0 => cut[2] # 0)
    <3>1. typed \in Nat
      BY DEF Streams
    <3>2. CASE cut = <<typed + 1, typed + 2>>
      BY <3>1, <3>2
    <3>3. CASE cut = <<0, typed + 1>>
      BY <3>1, <3>3
    <3>4. CASE cut = <<0, 0>>
      BY <3>4
    <3> QED BY <2>1, <3>2, <3>3, <3>4
  <2>3. Hands' /\ hold'["u"] = cut /\ \A h \in {"b", "s", "p"} : hold'[h] = hold[h]
    BY <2>1, <2>2, HandTakes
  <2> QED BY <2>1, <2>2, <2>3 DEF HandsFit
<1>5. CASE UserReceive
  <2>1. /\ u = "first" => Len(hold["u"]) = 2
        /\ u = "second" => Len(hold["u"]) = 1
        /\ b \notin {"new", "connect", "join"}
    BY <1>5 DEF UserReceive, HandsFit
  <2>2. /\ Tail(hold["u"]) \in Seq(Nat)
        /\ u = "first" => Len(Tail(hold["u"])) = 1
        /\ u = "second" => Tail(hold["u"]) = <<>>
    BY <1>1, <1>5, <2>1, RestOfPieces DEF UserReceive
  <2>3. Hands' /\ hold'["u"] = Tail(hold["u"]) /\ \A h \in {"b", "s", "p"} : hold'[h] = hold[h]
    BY <1>5, <2>2, HandTakes DEF UserReceive
  <2> QED BY <1>5, <2>1, <2>2, <2>3 DEF UserReceive, HandsFit
<1>6. CASE UserReadPlain
  BY <1>6 DEF UserReadPlain, RemoveSession, Hands, HandsFit
<1>7. CASE ParseUser \/ ParseSrv
  <2>1. \/ UNCHANGED <<p, hold>>
        \/ /\ p' \in {"user", "srv"}
           /\ \E x \in {userIn, srvIn} : x # <<>> /\ hold' = [hold EXCEPT !["p"] = x]
    BY <1>7 DEF ParseUser, ParseSrv
  <2>2. UNCHANGED <<b, s, u>>
    BY <1>7 DEF ParseUser, ParseSrv
  <2>3. CASE UNCHANGED <<p, hold>>
    BY <2>2, <2>3 DEF Hands, HandsFit
  <2>4. ASSUME NEW x \in {userIn, srvIn}, x # <<>>, hold' = [hold EXCEPT !["p"] = x],
               p' \in {"user", "srv"}
        PROVE  Hands' /\ HandsFit'
    <3>1. x \in Seq(Nat) /\ Len(x) = 1
      BY <2>4, OneOrNone DEF Channels
    <3>2. Hands' /\ hold'["p"] = x /\ \A h \in {"b", "s", "u"} : hold'[h] = hold[h]
      BY <2>4, <3>1, HandTakes
    <3>3. b' \in {"new", "connect"} => p = "off"
      BY <2>2 DEF HandsFit
    <3>4. p = "select"
      BY <1>7 DEF ParseUser, ParseSrv
    <3> QED BY <2>2, <2>4, <3>1, <3>2, <3>3, <3>4 DEF HandsFit
  <2> QED BY <2>1, <2>3, <2>4
<1>8. CASE ParsePut
  <2>1. Hands' /\ hold'["p"] = <<>> /\ \A h \in {"b", "s", "u"} : hold'[h] = hold[h]
    BY <1>1, <1>8, HandTakes DEF ParsePut
  <2> QED BY <1>8, <2>1 DEF ParsePut, HandsFit
<1>9. CASE BridgeFromSrv
  <2>1. Hands' /\ \A h \in {"s", "u", "p"} : hold'[h] = hold[h]
    BY <1>9, HandTakes, OneOrNone DEF BridgeFromSrv, Channels
  <2> QED BY <1>9, <2>1 DEF BridgeFromSrv, BridgeTo, HandsFit
<1>16. CASE BridgeStuck
  <2>1. Hands' /\ \A h \in {"s", "u", "p"} : hold'[h] = hold[h]
    <3>1. userOut \in Seq(Nat)
      BY OneOrNone DEF Channels
    <3>2. hold' = hold \/ hold' = [hold EXCEPT !["b"] = userOut]
      BY <1>16 DEF BridgeStuck
    <3>3. CASE hold' = hold
      BY <3>3 DEF Hands
    <3>4. CASE hold' = [hold EXCEPT !["b"] = userOut]
      BY <3>1, <3>4, HandTakes
    <3> QED BY <3>2, <3>3, <3>4
  <2> QED BY <1>16, <2>1 DEF BridgeStuck, BridgeTo, HandsFit
<1>10. CASE BridgeCast
  <2>1. Hands' /\ hold'["b"] = <<>> /\ \A h \in {"s", "u", "p"} : hold'[h] = hold[h]
    BY <1>1, <1>10, HandTakes DEF BridgeCast
  <2> QED BY <1>10, <2>1 DEF BridgeCast, HandsFit
<1>11. CASE Proxy
  BY <1>11 DEF Proxy, AddSession, ConnectFails, BridgeStart, BridgeJoin, RemoveSession,
     Hands, HandsFit
<1>12. CASE SrvReadErr \/ SrvExit \/ SrvCloseIn \/ UserReadErr \/ UserExit \/ ParseEnd
  <2>1. CASE SrvReadErr \/ SrvExit \/ SrvCloseIn
    BY <2>1 DEF SrvReadErr, SrvExit, SrvCloseIn, Hands, HandsFit
  <2>2. CASE UserReadErr \/ UserExit
    BY <2>2 DEF UserReadErr, UserExit, Hands, HandsFit
  <2>3. CASE ParseEnd
    BY <2>3 DEF ParseEnd, Hands, HandsFit
  <2> QED BY <1>12, <2>1, <2>2, <2>3
<1>13. CASE BridgeTick \/ BridgeTerminated \/ BridgeWindow \/ BridgeFromUser
          \/ BridgeParserEnded \/ BridgeUserGone \/ BridgeExit \/ BridgeNotify
  <2>1. CASE BridgeTick \/ BridgeTerminated
    BY <2>1 DEF BridgeTick, BridgeTerminated, BridgeTo, Hands, HandsFit
  <2>2. CASE BridgeWindow \/ BridgeFromUser
    BY <2>2 DEF BridgeWindow, BridgeFromUser, BridgeTo, Hands, HandsFit
  <2>3. CASE BridgeParserEnded \/ BridgeUserGone
    BY <2>3 DEF BridgeParserEnded, BridgeUserGone, BridgeTo, Hands, HandsFit
  <2>4. CASE BridgeExit \/ BridgeNotify
    BY <2>4 DEF BridgeExit, BridgeNotify, BridgeTo, Hands, HandsFit
  <2> QED BY <1>13, <2>1, <2>2, <2>3, <2>4
<1>14. CASE Returning \/ DoneToParser \/ DoneToReader
  BY <1>14 DEF Returning, BridgeLeave, BridgeRenewUser, BridgeCloseSrv, DoneToParser,
     DoneToReader, RemoveSession, Hands, HandsFit
<1>15. CASE Outside \/ UNCHANGED vars
  BY <1>15 DEF vars, Outside, RoomStops, SrvEnds, UserLeaves, Terminate, Pause, Hands, HandsFit
<1> QED BY <1>2, <1>3, <1>4, <1>5, <1>6, <1>7, <1>8, <1>9, <1>10, <1>11, <1>12, <1>13, <1>14,
           <1>15, <1>16 DEF Next, Reader, Typist, Parser, Select

\* A channel takes what a hand held, and is empty before or after.
LEMMA ChannelsStep ==
    ASSUME Hands, Channels, HandsFit, [Next]_vars
    PROVE  Channels'
<1> USE DEF goVars, chanVars, envVars, dataVars
<1>1. <<>> \in AtMostOne /\ \A n \in Nat : <<n>> \in AtMostOne
  BY DEF AtMostOne
<1>2. CASE SrvSend
  <2>1. hold["s"] \in AtMostOne
    <3>1. hold["s"] \in Seq(Nat) /\ Len(hold["s"]) = 1
      BY <1>2 DEF SrvSend, Hands, HandsFit
    <3> QED BY <3>1, OneOrNone
  <2> QED BY <1>2, <2>1 DEF SrvSend, Channels
<1>3. CASE UserReceive
  <2>1. hold["u"] \in Seq(Nat) /\ hold["u"] # <<>>
    <3>1. hold["u"] \in Seq(Nat) /\ Len(hold["u"]) \in {1, 2}
      BY <1>3 DEF UserReceive, Hands, HandsFit
    <3> QED BY <3>1, EmptyHasNoLength
  <2>2. Head(hold["u"]) \in Nat
    BY <2>1
  <2> QED BY <1>1, <1>3, <2>2 DEF UserReceive, Channels
<1>4. CASE UserReadPlain
  BY <1>1, <1>4 DEF UserReadPlain, Channels
<1>5. CASE ParseUser \/ ParseSrv \/ ParseEnd
  BY <1>1, <1>5 DEF ParseUser, ParseSrv, ParseEnd, Channels
<1>6. CASE ParsePut
  <2>1. hold["p"] \in AtMostOne
    <3>1. hold["p"] \in Seq(Nat) /\ Len(hold["p"]) = 1
      BY <1>6 DEF ParsePut, Hands, HandsFit
    <3> QED BY <3>1, OneOrNone
  <2> QED BY <1>1, <1>6, <2>1 DEF ParsePut, Channels
<1>7. CASE BridgeFromSrv \/ BridgeFromUser \/ BridgeStuck
  BY <1>1, <1>7 DEF BridgeFromSrv, BridgeFromUser, BridgeStuck, Channels
<1>8. CASE Proxy
  BY <1>8 DEF Proxy, AddSession, ConnectFails, BridgeStart, BridgeJoin, Channels
<1>9. CASE SrvRead \/ SrvReadErr \/ SrvExit \/ SrvCloseIn
  BY <1>9 DEF SrvRead, SrvReadErr, SrvExit, SrvCloseIn, Channels
<1>10. CASE UserRead \/ UserSteal \/ UserReadErr \/ UserExit
  BY <1>10 DEF UserRead, UserChunk, UserSteal, UserReadErr, UserExit, Channels
<1>11. CASE BridgeTick \/ BridgeTerminated \/ BridgeWindow \/ BridgeCast
          \/ BridgeParserEnded \/ BridgeUserGone \/ BridgeExit \/ BridgeNotify
  BY <1>11 DEF BridgeTick, BridgeTerminated, BridgeWindow, BridgeCast,
     BridgeParserEnded, BridgeUserGone, BridgeExit, BridgeNotify, Channels
<1>12. CASE Returning \/ DoneToParser \/ DoneToReader
  BY <1>12 DEF Returning, BridgeLeave, BridgeRenewUser, BridgeCloseSrv, DoneToParser,
     DoneToReader, Channels
<1>13. CASE Outside \/ UNCHANGED vars
  BY <1>13 DEF vars, Outside, RoomStops, SrvEnds, UserLeaves, Terminate, Pause, Channels
<1> QED BY <1>2, <1>3, <1>4, <1>5, <1>6, <1>7, <1>8, <1>9, <1>10, <1>11, <1>12, <1>13
        DEF Next, Reader, Typist, Parser, Select

\* What went through the bridge, and how much.
LEMMA StreamsStep ==
    ASSUME Streams, Hands, Channels, [Next]_vars
    PROVE  Streams'
<1> USE BoundsAssumption DEF goVars, chanVars, envVars, dataVars
<1>1. CASE SrvRead
  BY <1>1 DEF SrvRead, Streams
<1>2. CASE UserRead
  <2>1. PICK cut \in {<<typed + 1, typed + 2>>, <<0, typed + 1>>} : UserChunk(cut)
    BY <1>2 DEF UserRead
  <2>2. cut[2] \in {typed + 1, typed + 2}
    BY <2>1
  <2> QED BY <2>1, <2>2 DEF UserChunk, Streams
<1>3. CASE BridgeFromUser
  BY <1>3 DEF BridgeFromUser, Streams, Channels, AtMostOne
<1>4. CASE BridgeCast
  <2>1. hold["b"] \in Seq(Nat)
    BY DEF Hands
  <2> QED BY <1>4, <2>1 DEF BridgeCast, Streams
<1>5. CASE Proxy \/ SrvSend \/ SrvReadErr \/ SrvExit \/ SrvCloseIn
  BY <1>5 DEF Proxy, AddSession, ConnectFails, BridgeStart, BridgeJoin,
     SrvSend, SrvReadErr, SrvExit, SrvCloseIn, Streams
<1>6. CASE UserSteal \/ UserReceive \/ UserReadErr \/ UserExit \/ UserReadPlain
  BY <1>6 DEF UserSteal, UserReceive, UserReadErr, UserExit, UserReadPlain, Streams
<1>7. CASE Parser
  BY <1>7 DEF Parser, ParseUser, ParseSrv, ParsePut, ParseEnd, Streams
<1>8. CASE BridgeTick \/ BridgeTerminated \/ BridgeWindow \/ BridgeFromSrv
          \/ BridgeParserEnded \/ BridgeUserGone \/ BridgeExit \/ BridgeNotify \/ BridgeStuck
  BY <1>8 DEF BridgeTick, BridgeTerminated, BridgeWindow, BridgeFromSrv,
     BridgeParserEnded, BridgeUserGone, BridgeExit, BridgeNotify, BridgeStuck, Streams
<1>9. CASE Returning \/ DoneToParser \/ DoneToReader
  BY <1>9 DEF Returning, BridgeLeave, BridgeRenewUser, BridgeCloseSrv, DoneToParser,
     DoneToReader, Streams
<1>10. CASE Outside \/ UNCHANGED vars
  BY <1>10 DEF vars, Outside, RoomStops, SrvEnds, UserLeaves, Terminate, Pause, Streams
<1> QED BY <1>1, <1>2, <1>3, <1>4, <1>5, <1>6, <1>7, <1>8, <1>9, <1>10
        DEF Next, Reader, Typist, Select

-----------------------------------------------------------------------------
(* The input.                                                              *)

\* The room is done only when Bridge is leaving, from which there is no way back, and
\* an ended parser has ended.
LEMMA LeavingStep ==
    ASSUME HandsFit, roomDone => b \in Leaving, [Next]_vars
    PROVE  /\ roomDone' => b' \in Leaving
           /\ roomDone => roomDone'
           /\ p = "end" => p' = "end"
<1> USE DEF Leaving, Deferred, goVars, chanVars, envVars, dataVars
<1>1. CASE Proxy
  BY <1>1 DEF Proxy, AddSession, ConnectFails, BridgeStart, BridgeJoin, RemoveSession, HandsFit
<1>2. CASE Reader
  BY <1>2 DEF Reader, SrvRead, SrvSend, SrvReadErr, SrvExit, SrvCloseIn
<1>3. CASE Typist
  BY <1>3 DEF Typist, UserRead, UserChunk, UserSteal, UserReceive, UserReadErr, UserExit,
     UserReadPlain, RemoveSession
<1>4. CASE Parser
  BY <1>4 DEF Parser, ParseUser, ParseSrv, ParsePut, ParseEnd
<1>5. CASE Select
  BY <1>5 DEF Select, BridgeTick, BridgeTerminated, BridgeWindow, BridgeFromSrv, BridgeFromUser,
     BridgeParserEnded, BridgeUserGone, BridgeExit, BridgeNotify, BridgeStuck, BridgeTo
<1>6. CASE BridgeCast \/ Returning \/ DoneToParser \/ DoneToReader
  BY <1>6 DEF BridgeCast, Returning, BridgeLeave, BridgeRenewUser, BridgeCloseSrv,
     DoneToParser, DoneToReader, RemoveSession
<1>7. CASE Outside \/ UNCHANGED vars
  BY <1>7 DEF vars, Outside, RoomStops, SrvEnds, UserLeaves, Terminate, Pause
<1> QED BY <1>1, <1>2, <1>3, <1>4, <1>5, <1>6, <1>7 DEF Next

\* A call that waits in the server connection does so until the process is gone.
LEMMA StuckStays ==
    ASSUME Hands, [Next]_vars, ~ BridgeStuck, ~ UserReadPlain
    PROVE  /\ b' = "stuck" <=> b = "stuck"
           /\ b = "stuck" => hold'["b"] = hold["b"]
           /\ InWrite' = InWrite
<1> USE DEF Deferred, goVars, chanVars, envVars, dataVars
<1>1. CASE Proxy
  BY <1>1 DEF Proxy, AddSession, ConnectFails, BridgeStart, BridgeJoin, RemoveSession, InWrite
<1>2. CASE Reader
  BY <1>2 DEF Reader, SrvRead, SrvSend, SrvReadErr, SrvExit, SrvCloseIn, Hands, InWrite
<1>3. CASE Typist
  <2>1. CASE UserRead
    BY <2>1 DEF UserRead, UserChunk, Hands, InWrite
  <2>2. CASE UserSteal \/ UserReceive
    BY <2>2 DEF UserSteal, UserReceive, Hands, InWrite
  <2>3. CASE UserReadErr \/ UserExit
    BY <2>3 DEF UserReadErr, UserExit, InWrite
  <2> QED BY <1>3, <2>1, <2>2, <2>3 DEF Typist
<1>4. CASE Parser
  BY <1>4 DEF Parser, ParseUser, ParseSrv, ParsePut, ParseEnd, Hands, InWrite
<1>5. CASE Select
  BY <1>5 DEF Select, BridgeTick, BridgeTerminated, BridgeWindow, BridgeFromSrv, BridgeFromUser,
     BridgeParserEnded, BridgeUserGone, BridgeExit, BridgeNotify, BridgeTo, InWrite
<1>6. CASE BridgeCast \/ Returning \/ DoneToParser \/ DoneToReader
  BY <1>6 DEF BridgeCast, Returning, BridgeLeave, BridgeRenewUser, BridgeCloseSrv,
     DoneToParser, DoneToReader, RemoveSession, InWrite
<1>7. CASE Outside \/ UNCHANGED vars
  BY <1>7 DEF vars, Outside, RoomStops, SrvEnds, UserLeaves, Terminate, Pause, InWrite
<1> QED BY <1>1, <1>2, <1>3, <1>4, <1>5, <1>6, <1>7 DEF Next

\* What is full of no piece, of one and of two.
LEMMA FullOfOne ==
    /\ Full(<<>>) = <<>> /\ Full(<<0>>) = <<>> /\ Full(<<0, 0>>) = <<>>
    /\ \A n \in Nat : n # 0 => Full(<<n>>) = <<n>>
    /\ \A n, m \in Nat : m # 0 => Full(<<n, m>>) = IF n = 0 THEN <<m>> ELSE <<n, m>>
BY DEF Full

\* Full pieces are pieces.
LEMMA FullType ==
    ASSUME NEW x \in Seq(Nat)
    PROVE  Full(x) \in Seq(Nat)
<1>1. CASE x = <<>>
  BY <1>1 DEF Full
<1>2. CASE x # <<>>
  BY <1>2 DEF Full
<1> QED BY <1>1, <1>2

\* One piece and another are two.
LEMMA OneAndOne == \A n, m \in Nat : <<n>> \o <<m>> = <<n, m>>
<1> SUFFICES ASSUME NEW n \in Nat, NEW m \in Nat
             PROVE  <<n>> \o <<m>> = <<n, m>>
  OBVIOUS
<1> DEFINE x == <<n>>  y == <<m>>  z == <<n, m>>
<1>1. /\ x \in Seq(Nat) /\ Len(x) = 1 /\ x[1] = n
      /\ y \in Seq(Nat) /\ Len(y) = 1 /\ y[1] = m
      /\ z \in Seq(Nat) /\ Len(z) = 2 /\ z[1] = n /\ z[2] = m
  OBVIOUS
<1> HIDE DEF x, y, z
<1>2. x \o y \in Seq(Nat) /\ Len(x \o y) = 2 /\ (x \o y)[1] = n /\ (x \o y)[2] = m
  <2>1. /\ x \o y \in Seq(Nat) /\ Len(x \o y) = Len(x) + Len(y)
        /\ \A i \in 1..Len(x) + Len(y) :
              (x \o y)[i] = IF i <= Len(x) THEN x[i] ELSE y[i - Len(x)]
    BY <1>1, ConcatProperties
  <2> QED BY <1>1, <2>1
<1>3. \A i \in 1..2 : (x \o y)[i] = z[i]
  BY <1>1, <1>2
<1>4. x \o y = z
  BY <1>1, <1>2, <1>3, SeqEqual
<1> QED BY <1>4 DEF x, y, z

\* Sequences of one piece and of two.
LEMMA OneTwoPieces ==
    /\ \A x \in Seq(Nat) : Len(x) = 1 => \E n \in Nat : x = <<n>>
    /\ \A x \in Seq(Nat) : Len(x) = 2 =>
          \E n, m \in Nat : x = <<n, m>> /\ n = x[1] /\ m = x[2]
<1>1. ASSUME NEW x \in Seq(Nat), Len(x) = 1
      PROVE  \E n \in Nat : x = <<n>>
  <2>1. x[1] \in Nat
    <3>1. 1 \in 1..Len(x)
      BY <1>1
    <3> QED BY <3>1, ElementOfSeq
  <2>2. <<x[1]>> \in Seq(Nat) /\ Len(<<x[1]>>) = 1 /\ <<x[1]>>[1] = x[1]
    BY <2>1
  <2>3. x = <<x[1]>>
    BY <1>1, <2>2, SeqEqual
  <2> QED BY <2>1, <2>3
<1>2. ASSUME NEW x \in Seq(Nat), Len(x) = 2
      PROVE  \E n, m \in Nat : x = <<n, m>> /\ n = x[1] /\ m = x[2]
  <2>1. x[1] \in Nat /\ x[2] \in Nat
    <3>1. 1 \in 1..Len(x) /\ 2 \in 1..Len(x)
      BY <1>2
    <3> QED BY <3>1, ElementOfSeq
  <2> DEFINE y == <<x[1], x[2]>>
  <2>2. y \in Seq(Nat) /\ Len(y) = 2 /\ y[1] = x[1] /\ y[2] = x[2]
    BY <2>1
  <2>3. x = y
    <3> HIDE DEF y
    <3>1. \A i \in 1..2 : x[i] = y[i]
      BY <2>2
    <3> QED BY <1>2, <2>2, <3>1, SeqEqual
  <2> QED BY <2>1, <2>3
<1> QED BY <1>1, <1>2

\* The pieces of a chunk are full one by one.
LEMMA FullSplits ==
    ASSUME NEW x \in Seq(Nat),
           Len(x) = 1 \/ (Len(x) = 2 /\ (x[1] # 0 => x[2] # 0))
    PROVE  /\ <<Head(x)>> \in Seq(Nat) /\ Tail(x) \in Seq(Nat)
           /\ Full(x) = Full(<<Head(x)>>) \o Full(Tail(x))
<1>1. CASE Len(x) = 1
  <2>1. PICK n \in Nat : x = <<n>>
    BY <1>1, OneTwoPieces
  <2>2. Head(<<n>>) = n /\ Tail(<<n>>) = <<>> /\ <<n>> \in Seq(Nat)
    OBVIOUS
  <2>3. Full(<<n>>) \in Seq(Nat)
    BY <2>2, FullType
  <2>4. Full(<<n>>) = Full(<<n>>) \o <<>>
    BY <2>3, ConcatEmptySeq
  <2>5. Full(<<Head(<<n>>)>>) = Full(<<n>>) /\ Full(Tail(<<n>>)) = <<>>
    BY <2>2, FullOfOne
  <2>6. <<Head(<<n>>)>> \in Seq(Nat) /\ Tail(<<n>>) \in Seq(Nat)
    BY <2>2
  <2> QED BY <2>1, <2>4, <2>5, <2>6
<1>2. CASE Len(x) = 2 /\ (x[1] # 0 => x[2] # 0)
  <2>1. PICK n, m \in Nat : x = <<n, m>> /\ (n # 0 => m # 0)
    BY <1>2, OneTwoPieces
  <2>2. /\ Head(<<n, m>>) = n /\ Tail(<<n, m>>) = <<m>>
        /\ <<n>> \in Seq(Nat) /\ <<m>> \in Seq(Nat)
    OBVIOUS
  <2>3. Full(<<n, m>>) = Full(<<n>>) \o Full(<<m>>)
    <3>1. CASE m = 0
      <4>1. n = 0
        BY <2>1, <3>1
      <4>2. Full(<<n, m>>) = <<>> /\ Full(<<n>>) = <<>> /\ Full(<<m>>) = <<>>
        BY <3>1, <4>1, FullOfOne
      <4>3. <<>> \o <<>> = <<>>
        OBVIOUS
      <4> QED BY <4>2, <4>3
    <3>2. CASE m # 0 /\ n = 0
      <4>1. Full(<<n>>) = <<>> /\ Full(<<n, m>>) = <<m>> /\ Full(<<m>>) = <<m>>
        BY <3>2, FullOfOne
      <4>2. <<>> \o <<m>> = <<m>>
        BY <2>2, ConcatEmptySeq
      <4> QED BY <4>1, <4>2
    <3>3. CASE m # 0 /\ n # 0
      <4>1. Full(<<n, m>>) = <<n, m>> /\ Full(<<n>>) = <<n>> /\ Full(<<m>>) = <<m>>
        BY <3>3, FullOfOne
      <4> QED BY <4>1, OneAndOne
    <3> QED BY <3>1, <3>2, <3>3
  <2> QED BY <2>1, <2>2, <2>3
<1> QED BY <1>1, <1>2

\* The pieces on their way are sequences.
LEMMA InputTypes ==
    ASSUME Types
    PROVE  /\ srvGot \in Seq(Nat) /\ userOut \in Seq(Nat) /\ userIn \in Seq(Nat)
           /\ InWrite \in Seq(Nat) /\ InParser("user") \in Seq(Nat)
           /\ Full(userIn) \in Seq(Nat) /\ Full(hold["u"]) \in Seq(Nat)
           /\ typed \in Nat
<1>1. hold["b"] \in Seq(Nat) /\ hold["u"] \in Seq(Nat) /\ hold["p"] \in Seq(Nat)
  BY DEF Types, Hands
<1>2. srvGot \in Seq(Nat) /\ userOut \in Seq(Nat) /\ userIn \in Seq(Nat) /\ typed \in Nat
  BY BoundsAssumption DEF Types, Streams, Channels, AtMostOne
<1>3. InWrite \in Seq(Nat) /\ InParser("user") \in Seq(Nat)
  BY <1>1 DEF InWrite, InParser
<1> QED BY <1>1, <1>2, <1>3, FullType

\* What is on its way after a step.
LEMMA InputAfter ==
    InputOnItsWay' = srvGot' \o InWrite' \o userOut' \o (IF p' = "user" THEN hold'["p"] ELSE <<>>)
                     \o Full(userIn') \o Full(hold'["u"])
BY DEF InputOnItsWay, InParser

\* It does not matter in which order what is on its way is put together.
LEMMA Regroup ==
    ASSUME NEW x \in Seq(Nat), NEW y \in Seq(Nat), NEW z \in Seq(Nat)
    PROVE  (x \o y) \o z = x \o (y \o z)
BY SMT

\* A piece that moves on into an empty place keeps its place in the order.
LEMMA MovesOn ==
    ASSUME NEW a \in Seq(Nat), NEW x \in Seq(Nat)
    PROVE  (a \o <<>>) \o x = (a \o x) \o <<>>
BY ConcatProperties, ConcatEmptySeq

\* As long as neither the server nor what is in front of it gets anything, the input
\* stays in order if what is on its way does.
LEMMA InputMoves ==
    ASSUME Types, InputInv, typed' \in Nat, typed <= typed', UNCHANGED <<srvGot, userOut>>,
           InWrite' = InWrite,
           roomDone' => b' \in Leaving, roomDone => roomDone', p = "end" => p' = "end",
           InputOnItsWay = Upto(typed) /\ p' # "end" /\ ~ roomDone'
               => InputOnItsWay' = Upto(typed')
    PROVE  InputInv'
<1>1. /\ typed \in Nat /\ srvGot \in Seq(Nat) /\ srvGot \o InWrite \o userOut \in Seq(Nat)
  BY InputTypes, ConcatProperties
<1>2. p' # "end" /\ ~ roomDone' => InputOnItsWay' = Upto(typed')
  BY DEF InputInv
<1>3. ~ roomDone' => FirstOf(srvGot \o InWrite \o userOut, typed')
  BY <1>1, FirstOfMore DEF InputInv
<1>4. FirstOf(srvGot, typed')
  BY <1>1, FirstOfMore DEF InputInv
<1> QED BY <1>2, <1>3, <1>4 DEF InputInv

\* A step that touches nothing of the input.
LEMMA InputKept ==
    ASSUME Types, InputInv, UNCHANGED <<srvGot, userOut, userIn, typed>>, hold'["u"] = hold["u"],
           InWrite' = InWrite,
           \/ p # "user" /\ p' # "user"
           \/ p' = p /\ hold'["p"] = hold["p"]
           \/ p' = "end",
           roomDone' => b' \in Leaving, roomDone => roomDone', p = "end" => p' = "end"
    PROVE  InputInv'
<1>1. typed \in Nat
  BY InputTypes
<1>2. ASSUME p' # "end"
      PROVE  InputOnItsWay' = InputOnItsWay
  <2>1. InParser("user") = IF p' = "user" THEN hold'["p"] ELSE <<>>
    BY <1>2 DEF InParser
  <2> QED BY <2>1, InputAfter DEF InputOnItsWay
<1> QED BY <1>1, <1>2, InputMoves

\* The parser takes an input piece, or the empty one, which it drops.
LEMMA ParserTakesInput ==
    ASSUME Types, ParseUser, InWrite' = InWrite
    PROVE  InputOnItsWay' = InputOnItsWay
<1>1. /\ p = "select" /\ userIn # <<>> /\ userIn' = <<>> /\ UNCHANGED <<srvGot, userOut, u>>
      /\ IF userIn = <<0>> THEN UNCHANGED <<p, hold>>
         ELSE p' = "user" /\ hold' = [hold EXCEPT !["p"] = userIn]
  BY DEF ParseUser, dataVars
<1>2. InParser("user") = <<>> /\ Full(<<>>) = <<>>
  BY <1>1, FullOfOne DEF InParser
<1> DEFINE a == srvGot \o InWrite \o userOut
<1>3. a \in Seq(Nat) /\ userIn \in Seq(Nat) /\ Full(userIn) \in Seq(Nat)
  BY InputTypes, ConcatProperties
<1>4. CASE userIn = <<0>>
  BY <1>1, <1>2, <1>4, FullOfOne, InputAfter DEF InputOnItsWay
<1>5. CASE userIn # <<0>>
  <2>1. p' = "user" /\ hold'["p"] = userIn /\ hold'["u"] = hold["u"]
    BY <1>1, <1>5, <1>3, HandTakes DEF Types
  <2>2. PICK n \in Nat : userIn = <<n>>
    BY <1>1, OneOrNone, OneTwoPieces DEF Types, Channels
  <2>3. Full(userIn) = userIn
    BY <1>5, <2>2, FullOfOne
  <2>4. InputOnItsWay' = (a \o userIn) \o <<>> \o Full(hold["u"])
    BY <1>1, <1>2, <2>1, InputAfter
  <2>5. InputOnItsWay = (a \o <<>>) \o userIn \o Full(hold["u"])
    BY <1>2, <2>3 DEF InputOnItsWay
  <2> QED BY <1>3, <2>4, <2>5, MovesOn
<1> QED BY <1>4, <1>5

\* The room takes a piece of a chunk.
LEMMA RoomTakesInput ==
    ASSUME Types, HandsFit, UserReceive, ~ roomDone, InWrite' = InWrite
    PROVE  InputOnItsWay' = InputOnItsWay
<1>1. /\ u \in {"first", "second"} /\ userIn = <<>> /\ userIn' = <<Head(hold["u"])>>
      /\ hold' = [hold EXCEPT !["u"] = Tail(hold["u"])] /\ UNCHANGED <<srvGot, userOut, p>>
  BY DEF UserReceive, Free, dataVars
<1> DEFINE x == hold["u"]  a == srvGot \o InWrite \o userOut \o InParser("user")
<1>2. x \in Seq(Nat) /\ (Len(x) = 1 \/ (Len(x) = 2 /\ (x[1] # 0 => x[2] # 0)))
  <2>1. x \in Seq(Nat)
    BY DEF Types, Hands
  <2>2. CASE u = "first"
    BY <2>1, <2>2 DEF HandsFit
  <2>3. CASE u = "second"
    BY <2>1, <2>3 DEF HandsFit
  <2> QED BY <1>1, <2>2, <2>3
<1>3. <<Head(x)>> \in Seq(Nat) /\ Tail(x) \in Seq(Nat)
      /\ Full(x) = Full(<<Head(x)>>) \o Full(Tail(x))
  BY <1>2, FullSplits
<1>4. Full(<<Head(x)>>) \in Seq(Nat) /\ Full(Tail(x)) \in Seq(Nat) /\ a \in Seq(Nat)
  BY <1>3, FullType, InputTypes, ConcatProperties
<1>5. hold'["u"] = Tail(x) /\ hold'["p"] = hold["p"]
  BY <1>1, <1>3, HandTakes DEF Types
<1>6. InputOnItsWay' = a \o Full(<<Head(x)>>) \o Full(Tail(x))
  BY <1>1, <1>5, InputAfter DEF InParser
<1>7. InputOnItsWay = a \o Full(x)
  <2>1. Full(userIn) = <<>>
    BY <1>1, FullOfOne
  <2>2. a \o <<>> = a
    BY <1>4, ConcatEmptySeq
  <2> QED BY <2>1, <2>2 DEF InputOnItsWay
<1> DEFINE y == Full(<<Head(x)>>)  z == Full(Tail(x))
<1>8. a \in Seq(Nat) /\ y \in Seq(Nat) /\ z \in Seq(Nat)
  BY <1>4
<1>9. (a \o y) \o z = a \o (y \o z)
  BY <1>8, Regroup
<1> QED BY <1>3, <1>6, <1>7, <1>9

\* The user types a chunk.
LEMMA UserTypes ==
    ASSUME Types, HandsFit, UserRead, InputOnItsWay = Upto(typed), InWrite' = InWrite
    PROVE  InputOnItsWay' = Upto(typed')
<1>1. PICK cut \in {<<typed + 1, typed + 2>>, <<0, typed + 1>>} : UserChunk(cut)
  BY DEF UserRead
<1>2. /\ u = "read" /\ typed' = cut[2] /\ hold' = [hold EXCEPT !["u"] = cut]
      /\ UNCHANGED <<srvGot, userOut, userIn, p>>
  BY <1>1 DEF UserChunk, chanVars
<1>3. typed \in Nat /\ cut \in Seq(Nat)
  <2>1. typed \in Nat
    BY InputTypes
  <2>2. <<typed + 1, typed + 2>> \in Seq(Nat) /\ <<0, typed + 1>> \in Seq(Nat)
    BY <2>1
  <2> QED BY <2>1, <2>2
<1>4. hold'["u"] = cut /\ hold'["p"] = hold["p"]
  BY <1>2, <1>3, HandTakes DEF Types
<1> DEFINE a == srvGot \o InWrite \o userOut \o InParser("user") \o Full(userIn)
<1>5. a \in Seq(Nat)
  BY InputTypes, ConcatProperties
<1>6. InputOnItsWay' = a \o Full(cut)
  BY <1>2, <1>4, InputAfter DEF InParser
<1>7. InputOnItsWay = a
  <2>1. Full(hold["u"]) = <<>>
    BY <1>2, FullOfOne DEF HandsFit
  <2>2. a \o <<>> = a
    BY <1>5, ConcatEmptySeq
  <2> QED BY <2>1, <2>2 DEF InputOnItsWay
<1>8. CASE cut = <<typed + 1, typed + 2>>
  <2>1. typed' = typed + 2
    BY <1>2, <1>8
  <2>2. Full(cut) = cut
    <3>1. typed + 1 \in Nat /\ typed + 2 \in Nat /\ typed + 1 # 0 /\ typed + 2 # 0
      BY <1>3
    <3> QED BY <1>8, <3>1, FullOfOne
  <2> QED BY <1>3, <1>5, <1>6, <1>7, <1>8, <2>1, <2>2, NextPiece
<1>9. CASE cut = <<0, typed + 1>>
  <2>1. typed' = typed + 1
    BY <1>2, <1>9
  <2>2. Full(cut) = <<typed + 1>>
    <3>1. typed + 1 \in Nat /\ typed + 1 # 0
      BY <1>3
    <3> QED BY <1>9, <3>1, FullOfOne
  <2> QED BY <1>3, <1>5, <1>6, <1>7, <2>1, <2>2, NextPiece
<1> QED BY <1>1, <1>8, <1>9

\* A reader of the session that ended takes what was typed for the menu: two empty
\* pieces, which count for nothing here.
LEMMA UserStealsNothing ==
    ASSUME Types, HandsFit, UserSteal, InWrite' = InWrite
    PROVE  InputOnItsWay' = InputOnItsWay
<1>1. /\ u = "read" /\ hold' = [hold EXCEPT !["u"] = <<0, 0>>]
      /\ UNCHANGED <<srvGot, userOut, userIn, p>>
  BY DEF UserSteal, chanVars, dataVars
<1>2. <<0, 0>> \in Seq(Nat)
  OBVIOUS
<1>3. hold'["u"] = <<0, 0>> /\ hold'["p"] = hold["p"]
  BY <1>1, <1>2, HandTakes DEF Types
<1>4. Full(hold["u"]) = <<>> /\ Full(<<0, 0>>) = <<>>
  BY <1>1, FullOfOne DEF HandsFit
<1> QED BY <1>1, <1>3, <1>4, InputAfter DEF InputOnItsWay, InParser

\* The parser gives an input piece on.
LEMMA ParserGivesInput ==
    ASSUME Types, InputInv, ParsePut, p = "user", roomDone' => b' \in Leaving,
           roomDone => roomDone', InWrite' = InWrite
    PROVE  InputInv'
<1>1. /\ userOut = <<>> /\ userOut' = hold["p"] /\ p' = "select"
      /\ hold' = [hold EXCEPT !["p"] = <<>>] /\ UNCHANGED <<srvGot, userIn, typed>>
  BY DEF ParsePut, Free, dataVars
<1> DEFINE w == srvGot \o InWrite  x == hold["p"]  c == Full(userIn)  d == Full(hold["u"])
<1>2. /\ w \in Seq(Nat) /\ x \in Seq(Nat) /\ c \in Seq(Nat) /\ d \in Seq(Nat)
      /\ typed \in Nat /\ <<>> \in Seq(Nat)
  BY InputTypes, ConcatProperties DEF Types, Hands
<1>3. hold'["u"] = hold["u"]
  BY <1>1, <1>2, HandTakes DEF Types
<1>4. InputOnItsWay' = (w \o x) \o <<>> \o c \o d
  BY <1>1, <1>3, InputAfter
<1>5. InputOnItsWay = (w \o <<>>) \o x \o c \o d
  BY <1>1 DEF InputOnItsWay, InParser
<1>6. ASSUME ~ roomDone'
      PROVE  InputOnItsWay' = Upto(typed) /\ FirstOf(w \o x, typed)
  <2>1. InputOnItsWay' = Upto(typed)
    BY <1>2, <1>4, <1>5, <1>6, MovesOn DEF InputInv
  <2> DEFINE y == w \o x
  <2>2. y \in Seq(Nat) /\ c \o d \in Seq(Nat)
    BY <1>2, ConcatProperties
  <2>3. y \o (c \o d) = Upto(typed)
    <3>1. InputOnItsWay' = (y \o c) \o d
      BY <1>4, <2>2, ConcatEmptySeq
    <3>2. y \in Seq(Nat) /\ c \in Seq(Nat) /\ d \in Seq(Nat)
      BY <1>2, <2>2
    <3>3. (y \o c) \o d = y \o (c \o d)
      BY <3>2, Regroup
    <3> QED BY <2>1, <3>1, <3>3
  <2>4. FirstOf(y \o (c \o d), typed)
    <3>1. y \o (c \o d) \in Seq(Nat)
      BY <2>2, ConcatProperties
    <3> QED BY <1>2, <2>3, <3>1, AllAreFirst
  <2> QED BY <1>2, <2>1, <2>2, <2>4, FrontIsFirst
<1> QED BY <1>1, <1>6 DEF InputInv

\* The server gets a piece.
LEMMA ServerGetsInput ==
    ASSUME Types, HandsFit, InputInv, BridgeFromUser
    PROVE  InputInv'
<1>1. /\ b = "select" /\ userOut' = <<>> /\ srvGot' = srvGot \o userOut
      /\ UNCHANGED <<b, p, hold, userIn, typed, roomDone>>
  BY DEF BridgeFromUser, goVars, envVars
<1>2. ~ roomDone
  BY <1>1 DEF InputInv, Leaving, Deferred
<1>3. srvGot' \in Seq(Nat)
  BY <1>1, InputTypes, ConcatProperties
<1>4. srvGot' \o InWrite' \o userOut' = srvGot \o InWrite \o userOut
  <2>1. InWrite = <<>> /\ InWrite' = <<>>
    BY <1>1 DEF InWrite
  <2>2. srvGot' \o <<>> = srvGot' /\ srvGot \o <<>> = srvGot
    BY <1>3, InputTypes, ConcatEmptySeq
  <2> QED BY <1>1, <2>1, <2>2
<1>5. InputOnItsWay' = InputOnItsWay
  BY <1>1, <1>4, InputAfter DEF InputOnItsWay, InParser
<1>6. FirstOf(srvGot', typed)
  <2>1. InWrite = <<>> /\ srvGot \o <<>> = srvGot
    BY <1>1, InputTypes, ConcatEmptySeq DEF InWrite
  <2> QED BY <1>1, <1>2, <2>1 DEF InputInv
<1> QED BY <1>1, <1>2, <1>4, <1>5, <1>6 DEF InputInv

\* A piece that Write waits with is out of its channel, and still on its way.
LEMMA WriteWaits ==
    ASSUME Types, HandsFit, InputInv, BridgeStuck
    PROVE  InputInv'
<1>1. /\ b = "select" /\ b' = "stuck" /\ UNCHANGED <<p, srvGot, userIn, typed, roomDone>>
      /\ \/ userOut' = <<>> /\ hold' = [hold EXCEPT !["b"] = userOut]
         \/ UNCHANGED <<userOut, hold>>
  BY DEF BridgeStuck, BridgeTo, envVars, dataVars
<1>2. srvGot \in Seq(Nat) /\ userOut \in Seq(Nat)
  BY InputTypes
<1>3. InWrite = <<>> /\ InWrite' = hold'["b"] /\ hold["b"] = <<>>
  BY <1>1 DEF InWrite, HandsFit
<1>4. /\ srvGot' \o InWrite' \o userOut' = srvGot \o InWrite \o userOut
      /\ hold'["p"] = hold["p"] /\ hold'["u"] = hold["u"]
  <2>1. CASE userOut' = <<>> /\ hold' = [hold EXCEPT !["b"] = userOut]
    <3>1. hold'["b"] = userOut /\ hold'["p"] = hold["p"] /\ hold'["u"] = hold["u"]
      BY <1>2, <2>1, HandTakes DEF Types
    <3> QED BY <1>1, <1>2, <1>3, <2>1, <3>1, MovesOn
  <2>2. CASE UNCHANGED <<userOut, hold>>
    BY <1>1, <1>3, <2>2
  <2> QED BY <1>1, <2>1, <2>2
<1>5. InputOnItsWay' = InputOnItsWay
  BY <1>1, <1>4, InputAfter DEF InputOnItsWay, InParser
<1>6. ~ roomDone
  BY <1>1 DEF InputInv, Leaving, Deferred
<1> QED BY <1>1, <1>4, <1>5, <1>6 DEF InputInv

\* The input stays in order.
LEMMA InputStep ==
    ASSUME Types, Types', HandsFit, InputInv, [Next]_vars
    PROVE  InputInv'
<1> USE DEF goVars, chanVars, envVars, dataVars
<1>1. /\ roomDone' => b' \in Leaving
      /\ roomDone => roomDone'
      /\ p = "end" => p' = "end"
  BY LeavingStep DEF InputInv
<1>2. typed \in Nat /\ typed' \in Nat
  <2>1. typed' \in Nat
    BY BoundsAssumption DEF Types, Streams
  <2> QED BY <2>1, InputTypes
<1>23. CASE BridgeStuck
  BY <1>23, WriteWaits
<1>9. CASE UserReadPlain
  BY <1>9, <1>1 DEF UserReadPlain, InputInv
<1> SUFFICES ASSUME ~ BridgeStuck, ~ UserReadPlain
             PROVE  InputInv'
  BY <1>9, <1>23
<1>24. InWrite' = InWrite
  BY StuckStays DEF Types
<1>3. CASE UserRead
  <2>1. typed <= typed'
    <3>1. typed' \in {typed + 1, typed + 2}
      BY <1>3 DEF UserRead, UserChunk
    <3> QED BY <1>2, <3>1
  <2>2. UNCHANGED <<srvGot, userOut>>
    BY <1>3 DEF UserRead, UserChunk
  <2> QED BY <1>1, <1>2, <1>3, <1>24, <2>1, <2>2, UserTypes, InputMoves
<1>4. CASE UserSteal
  <2>1. UNCHANGED <<srvGot, userOut, typed>>
    BY <1>4 DEF UserSteal
  <2> QED BY <1>1, <1>2, <1>4, <1>24, <2>1, UserStealsNothing, InputMoves
<1>5. CASE UserReceive
  <2>1. UNCHANGED <<srvGot, userOut, typed, roomDone>>
    BY <1>5 DEF UserReceive
  <2> QED BY <1>1, <1>2, <1>5, <1>24, <2>1, RoomTakesInput, InputMoves
<1>6. CASE ParseUser
  <2>1. UNCHANGED <<srvGot, userOut, typed>>
    BY <1>6 DEF ParseUser
  <2> QED BY <1>1, <1>2, <1>6, <1>24, <2>1, ParserTakesInput, InputMoves
<1>7. CASE ParsePut /\ p = "user"
  BY <1>1, <1>7, <1>24, ParserGivesInput
<1>8. CASE BridgeFromUser
  BY <1>8, ServerGetsInput
<1> DEFINE Kept == /\ UNCHANGED <<srvGot, userOut, userIn, typed>> /\ hold'["u"] = hold["u"]
                   /\ \/ p # "user" /\ p' # "user"
                      \/ p' = p /\ hold'["p"] = hold["p"]
                      \/ p' = "end"
<1>10. CASE Kept
  BY <1>1, <1>10, <1>24, InputKept
<1>11. CASE Proxy
  <2>1. Kept
    BY <1>11 DEF Proxy, AddSession, ConnectFails, BridgeStart, BridgeJoin, RemoveSession, HandsFit
  <2> QED BY <1>10, <2>1
<1>12. ASSUME NEW g \in {"b", "s", "p"}, NEW x \in Seq(Nat), hold' = [hold EXCEPT ![g] = x],
              g # "p" => p' = p, g = "p" => p # "user" /\ p' # "user",
              UNCHANGED <<srvGot, userOut, userIn, typed>>
       PROVE  InputInv'
  <2>1. hold'["u"] = hold["u"] /\ (g # "p" => hold'["p"] = hold["p"])
    BY <1>12, HandTakes DEF Types
  <2>2. Kept
    BY <1>12, <2>1
  <2> QED BY <1>10, <2>2
<1>13. /\ \A n \in Nat : <<n>> \in Seq(Nat) /\ <<>> \in Seq(Nat)
       /\ srvIn \in Seq(Nat) /\ srvOut \in Seq(Nat) /\ sent \in Nat
  BY BoundsAssumption DEF Types, Channels, AtMostOne, Streams
<1>14. CASE SrvRead
  <2>1. <<sent'>> \in Seq(Nat)
    BY <1>13, <1>14 DEF SrvRead
  <2> QED BY <1>12, <1>14, <2>1 DEF SrvRead
<1>15. CASE SrvSend \/ BridgeCast
  BY <1>12, <1>13, <1>15 DEF SrvSend, BridgeCast
<1>16. CASE BridgeFromSrv
  BY <1>12, <1>13, <1>16 DEF BridgeFromSrv
<1>17. CASE ParseSrv
  BY <1>12, <1>13, <1>17 DEF ParseSrv
<1>18. CASE ParsePut /\ p # "user"
  BY <1>12, <1>13, <1>18 DEF ParsePut
<1>19. CASE SrvReadErr \/ SrvExit \/ SrvCloseIn \/ UserReadErr \/ UserExit \/ ParseEnd
  <2>1. Kept
    BY <1>19 DEF SrvReadErr, SrvExit, SrvCloseIn, UserReadErr, UserExit, ParseEnd
  <2> QED BY <1>10, <2>1
<1>20. CASE BridgeTick \/ BridgeTerminated \/ BridgeWindow
          \/ BridgeParserEnded \/ BridgeUserGone \/ BridgeExit \/ BridgeNotify
  <2>1. Kept
    BY <1>20 DEF BridgeTick, BridgeTerminated, BridgeWindow,
       BridgeParserEnded, BridgeUserGone, BridgeExit, BridgeNotify, BridgeTo
  <2> QED BY <1>10, <2>1
<1>21. CASE Returning \/ DoneToParser \/ DoneToReader
  <2>1. Kept
    BY <1>21 DEF Returning, BridgeLeave, BridgeRenewUser, BridgeCloseSrv, DoneToParser, DoneToReader
  <2> QED BY <1>10, <2>1
<1>22. CASE Outside \/ UNCHANGED vars
  <2>1. Kept
    BY <1>22 DEF vars, Outside, RoomStops, SrvEnds, UserLeaves, Terminate, Pause
  <2> QED BY <1>10, <2>1
<1> HIDE DEF Kept
<1> QED BY <1>3, <1>4, <1>5, <1>6, <1>7, <1>8, <1>11, <1>14, <1>15, <1>16, <1>17, <1>18,
           <1>19, <1>20, <1>21, <1>22 DEF Next, Reader, Typist, Parser, Select

-----------------------------------------------------------------------------
(* The output.                                                             *)

\* The pieces of output are sequences, and the last are in the hands of the reader.
LEMMA OutputTypes ==
    ASSUME Types
    PROVE  /\ roomGot \in Seq(Nat) /\ srvOut \in Seq(Nat) /\ srvIn \in Seq(Nat)
           /\ hold["b"] \in Seq(Nat) /\ hold["s"] \in Seq(Nat) /\ InCast \in Seq(Nat)
           /\ InParser("srv") \in Seq(Nat)
           /\ PastParser \in Seq(Nat) /\ PastReader \in Seq(Nat)
           /\ sent \in Nat
           /\ OutputOnItsWay = PastReader \o hold["s"]
<1>1. hold["b"] \in Seq(Nat) /\ hold["s"] \in Seq(Nat) /\ hold["p"] \in Seq(Nat)
  BY DEF Types, Hands
<1>2. roomGot \in Seq(Nat) /\ srvOut \in Seq(Nat) /\ srvIn \in Seq(Nat) /\ sent \in Nat
  BY BoundsAssumption DEF Types, Streams, Channels, AtMostOne
<1>3. InCast \in Seq(Nat) /\ InParser("srv") \in Seq(Nat)
  BY <1>1 DEF InCast, InParser
<1>4. PastParser \in Seq(Nat)
  BY <1>2, <1>3, ConcatProperties DEF PastParser
<1>5. PastReader \in Seq(Nat)
  BY <1>2, <1>3, <1>4, ConcatProperties DEF PastReader
<1>6. OutputOnItsWay = PastReader \o hold["s"]
  BY DEF OutputOnItsWay, PastReader, PastParser
<1> QED BY <1>1, <1>2, <1>3, <1>4, <1>5, <1>6

\* What is where after a step.
LEMMA OutputAfter ==
    /\ PastParser' = roomGot' \o InCast' \o srvOut'
    /\ PastReader' = PastParser' \o (IF p' = "srv" THEN hold'["p"] ELSE <<>>) \o srvIn'
    /\ OutputOnItsWay' = PastReader' \o hold'["s"]
BY DEF OutputOnItsWay, PastReader, PastParser, InParser

\* A step that only moves output between the places behind the reader.
LEMMA OutputMoves ==
    ASSUME Types, OutputInv, sent' = sent, hold'["s"] = hold["s"], s' = s \/ s' # "send",
           PastReader' = PastReader \/ p' = "end", PastParser' = PastParser,
           p = "end" => p' = "end"
    PROVE  OutputInv'
<1>1. ASSUME p' # "end"
      PROVE  PastReader' = PastReader /\ OutputOnItsWay' = OutputOnItsWay
  BY <1>1, OutputAfter, OutputTypes
<1>2. s' = "send" => s = "send"
  OBVIOUS
<1>3. p' # "end" /\ (s' = "send" \/ hold'["s"] = <<>>) => OutputOnItsWay' = Upto(sent')
  BY <1>1, <1>2 DEF OutputInv
<1>4. p' # "end" => FirstOf(PastReader', sent')
  BY <1>1 DEF OutputInv
<1>5. FirstOf(PastParser', sent')
  BY DEF OutputInv
<1> QED BY <1>3, <1>4, <1>5 DEF OutputInv

\* A step that touches nothing of the output.
LEMMA OutputKept ==
    ASSUME Types, OutputInv, UNCHANGED <<roomGot, srvOut, srvIn, sent>>,
           InCast' = InCast, hold'["s"] = hold["s"], s' = s \/ s' # "send",
           \/ p # "srv" /\ p' # "srv"
           \/ p' = p /\ hold'["p"] = hold["p"]
           \/ p' = "end",
           p = "end" => p' = "end"
    PROVE  OutputInv'
<1>1. PastParser' = PastParser
  BY OutputAfter DEF PastParser
<1>2. ASSUME p' # "end"
      PROVE  PastReader' = PastReader
  <2>1. InParser("srv") = IF p' = "srv" THEN hold'["p"] ELSE <<>>
    BY <1>2 DEF InParser
  <2> QED BY <1>1, <2>1, OutputAfter DEF PastReader
<1> QED BY <1>1, <1>2, OutputMoves

\* The server sends a piece.
LEMMA ServerSends ==
    ASSUME Types, HandsFit, OutputInv, SrvRead
    PROVE  OutputInv'
<1>1. /\ s = "read" /\ sent' = sent + 1 /\ s' = "send" /\ hold' = [hold EXCEPT !["s"] = <<sent + 1>>]
      /\ UNCHANGED <<b, p, srvOut, srvIn, roomGot>>
  BY DEF SrvRead, chanVars
<1>2. sent \in Nat /\ <<sent + 1>> \in Seq(Nat)
  <2>1. sent \in Nat
    BY OutputTypes
  <2> QED BY <2>1
<1>3. hold'["s"] = <<sent + 1>> /\ InCast' = InCast /\ hold'["p"] = hold["p"]
  BY <1>1, <1>2, HandTakes DEF Types, InCast
<1>4. PastParser' = PastParser
  BY <1>1, <1>3, OutputAfter DEF PastParser
<1>5. PastReader' = PastReader
  BY <1>1, <1>3, <1>4, OutputAfter DEF PastReader, InParser
<1>6. PastReader \in Seq(Nat) /\ PastParser \in Seq(Nat) /\ OutputOnItsWay = PastReader \o hold["s"]
  BY OutputTypes
<1>7. ASSUME p # "end"
      PROVE  PastReader = Upto(sent)
  <2>1. hold["s"] = <<>>
    BY <1>1 DEF HandsFit
  <2>2. OutputOnItsWay = Upto(sent)
    BY <1>7, <2>1 DEF OutputInv
  <2> QED BY <1>6, <2>1, <2>2, ConcatEmptySeq
<1>8. ASSUME p # "end"
      PROVE  OutputOnItsWay' = Upto(sent')
  <2>1. OutputOnItsWay' = PastReader \o <<sent + 1>>
    BY <1>3, <1>5, OutputAfter
  <2> QED BY <1>1, <1>2, <1>6, <1>7, <1>8, <2>1, NextPiece
<1>9. /\ p # "end" => FirstOf(PastReader, sent + 1)
      /\ FirstOf(PastParser, sent + 1)
  <2>1. sent + 1 \in Nat /\ sent <= sent + 1
    BY <1>2
  <2> QED BY <1>2, <1>6, <2>1, FirstOfMore DEF OutputInv
<1> QED BY <1>1, <1>4, <1>5, <1>8, <1>9 DEF OutputInv

\* The reader hands a piece on.
LEMMA ReaderSends ==
    ASSUME Types, HandsFit, OutputInv, SrvSend
    PROVE  OutputInv'
<1>1. /\ s = "send" /\ srvIn = <<>> /\ srvIn' = hold["s"] /\ s' = "read"
      /\ hold' = [hold EXCEPT !["s"] = <<>>] /\ UNCHANGED <<b, p, srvOut, roomGot, sent>>
  BY DEF SrvSend, Free, dataVars
<1> DEFINE x == hold["s"]  a == PastParser \o InParser("srv")
<1>2. a \in Seq(Nat) /\ x \in Seq(Nat) /\ <<>> \in Seq(Nat) /\ sent \in Nat
  BY OutputTypes, ConcatProperties
<1>3. hold'["s"] = <<>> /\ InCast' = InCast /\ hold'["p"] = hold["p"]
  BY <1>1, <1>2, HandTakes DEF Types, InCast
<1>4. PastParser' = PastParser
  BY <1>1, <1>3, OutputAfter DEF PastParser
<1>5. PastReader' = a \o x
  BY <1>1, <1>3, <1>4, OutputAfter DEF InParser
<1>6. OutputOnItsWay = (a \o <<>>) \o x /\ OutputOnItsWay' = (a \o x) \o <<>>
  BY <1>1, <1>3, <1>5, OutputTypes, OutputAfter DEF PastReader
<1>7. a \o x \in Seq(Nat) /\ (a \o x) \o <<>> = a \o x /\ (a \o <<>>) \o x = a \o x
  BY <1>2, ConcatProperties, ConcatEmptySeq
<1>8. ASSUME p # "end"
      PROVE  OutputOnItsWay' = Upto(sent) /\ FirstOf(PastReader', sent)
  <2>1. OutputOnItsWay = Upto(sent)
    BY <1>1, <1>8 DEF OutputInv
  <2> QED BY <1>2, <1>5, <1>6, <1>7, <2>1, AllAreFirst
<1> QED BY <1>1, <1>4, <1>8 DEF OutputInv

\* The parser takes a piece of output.
LEMMA ParserTakesOutput ==
    ASSUME Types, OutputInv, ParseSrv
    PROVE  OutputInv'
<1>1. /\ p = "select" /\ srvIn' = <<>> /\ p' = "srv" /\ hold' = [hold EXCEPT !["p"] = srvIn]
      /\ UNCHANGED <<b, s, srvOut, roomGot, sent>>
  BY DEF ParseSrv, dataVars
<1>2. srvIn \in Seq(Nat) /\ PastParser \in Seq(Nat)
  BY OutputTypes
<1>3. hold'["s"] = hold["s"] /\ InCast' = InCast /\ hold'["p"] = srvIn
  BY <1>1, <1>2, HandTakes DEF Types, InCast
<1>4. PastParser' = PastParser
  BY <1>1, <1>3, OutputAfter DEF PastParser
<1>5. PastReader' = (PastParser \o srvIn) \o <<>>
  BY <1>1, <1>3, <1>4, OutputAfter
<1>6. PastReader = (PastParser \o <<>>) \o srvIn
  BY <1>1 DEF PastReader, InParser
<1>7. PastReader' = PastReader
  BY <1>2, <1>5, <1>6, MovesOn
<1> QED BY <1>1, <1>3, <1>4, <1>7, OutputMoves

\* The parser gives a piece of output on.
LEMMA ParserGivesOutput ==
    ASSUME Types, OutputInv, ParsePut, p = "srv"
    PROVE  OutputInv'
<1>1. /\ srvOut = <<>> /\ srvOut' = hold["p"] /\ p' = "select"
      /\ hold' = [hold EXCEPT !["p"] = <<>>] /\ UNCHANGED <<b, s, srvIn, roomGot, sent>>
  BY DEF ParsePut, Free, dataVars
<1> DEFINE x == hold["p"]  a == roomGot \o InCast
<1>2. a \in Seq(Nat) /\ x \in Seq(Nat) /\ srvIn \in Seq(Nat) /\ <<>> \in Seq(Nat) /\ sent \in Nat
  BY OutputTypes, ConcatProperties DEF Types, Hands
<1>3. hold'["s"] = hold["s"] /\ InCast' = InCast
  BY <1>1, <1>2, HandTakes DEF Types, InCast
<1>4. PastParser' = a \o x /\ a \o x \in Seq(Nat) /\ (a \o x) \o <<>> = a \o x
  BY <1>1, <1>2, <1>3, OutputAfter, ConcatProperties, ConcatEmptySeq
<1>5. PastReader' = (a \o x) \o <<>> \o srvIn
  BY <1>1, <1>4, OutputAfter
<1>6. PastReader = (a \o <<>>) \o x \o srvIn
  BY <1>1 DEF PastReader, PastParser, InParser
<1>7. PastReader' = PastReader
  BY <1>2, <1>5, <1>6, MovesOn
<1>8. FirstOf(PastParser', sent)
  <2>1. PastReader = PastParser' \o srvIn
    BY <1>4, <1>5, <1>7
  <2>2. FirstOf(PastReader, sent)
    BY DEF OutputInv
  <2> QED BY <1>2, <1>4, <2>1, <2>2, FrontIsFirst
<1>9. OutputOnItsWay' = OutputOnItsWay
  BY <1>3, <1>7, OutputAfter, OutputTypes
<1> QED BY <1>1, <1>3, <1>7, <1>8, <1>9 DEF OutputInv

\* Bridge takes a piece of output.
LEMMA BridgeTakesOutput ==
    ASSUME Types, HandsFit, OutputInv, BridgeFromSrv
    PROVE  OutputInv'
<1>1. /\ b = "select" /\ b' = "cast" /\ srvOut' = <<>> /\ hold' = [hold EXCEPT !["b"] = srvOut]
      /\ UNCHANGED <<s, p, srvIn, roomGot, sent>>
  BY DEF BridgeFromSrv, BridgeTo, dataVars
<1>2. srvOut \in Seq(Nat) /\ roomGot \in Seq(Nat)
  BY OutputTypes
<1>3. hold'["s"] = hold["s"] /\ InCast' = srvOut /\ hold'["p"] = hold["p"]
  BY <1>1, <1>2, HandTakes DEF Types, InCast
<1>4. PastParser' = (roomGot \o srvOut) \o <<>>
  BY <1>1, <1>3, OutputAfter
<1>5. PastParser = (roomGot \o <<>>) \o srvOut
  BY <1>1 DEF PastParser, InCast, HandsFit
<1>6. PastParser' = PastParser
  BY <1>2, <1>4, <1>5, MovesOn
<1>7. PastReader' = PastReader
  BY <1>1, <1>3, <1>6, OutputAfter DEF PastReader, InParser
<1> QED BY <1>1, <1>3, <1>6, <1>7, OutputMoves

\* Bridge gives a piece of output to its room.
LEMMA BridgeGivesOutput ==
    ASSUME Types, OutputInv, BridgeCast
    PROVE  OutputInv'
<1>1. /\ b # "stuck" /\ b' # "stuck"
      /\ roomGot' = roomGot \o hold["b"] /\ hold' = [hold EXCEPT !["b"] = <<>>]
      /\ UNCHANGED <<s, p, srvIn, srvOut, sent>>
  BY DEF BridgeCast, chanVars
<1>2. roomGot \o hold["b"] \in Seq(Nat) /\ <<>> \in Seq(Nat)
  BY OutputTypes, ConcatProperties
<1>3. /\ hold'["s"] = hold["s"] /\ hold'["p"] = hold["p"]
      /\ InCast' = <<>> /\ InCast = hold["b"]
  BY <1>1, <1>2, HandTakes DEF Types, InCast
<1>4. PastParser' = PastParser
  BY <1>1, <1>2, <1>3, OutputAfter, ConcatEmptySeq DEF PastParser
<1>5. PastReader' = PastReader
  BY <1>1, <1>3, <1>4, OutputAfter DEF PastReader, InParser
<1> QED BY <1>1, <1>3, <1>4, <1>5, OutputMoves

\* A process that is gone has nothing on its way.
LEMMA CrashKeepsOutput ==
    ASSUME Types, OutputInv, UserReadPlain
    PROVE  OutputInv'
<1>1. /\ p' = "end" /\ srvOut' = <<>> /\ InCast' = <<>> /\ UNCHANGED <<roomGot, sent>>
  BY DEF UserReadPlain, dataVars, Types, Hands, InCast
<1>2. roomGot \in Seq(Nat) /\ InCast \in Seq(Nat) /\ srvOut \in Seq(Nat) /\ sent \in Nat
  BY OutputTypes
<1>3. PastParser' = roomGot
  BY <1>1, <1>2, OutputAfter, ConcatEmptySeq
<1>4. FirstOf(roomGot, sent)
  <2>1. roomGot \o InCast \in Seq(Nat)
    BY <1>2, ConcatProperties
  <2>2. FirstOf(roomGot \o InCast, sent)
    BY <1>2, <2>1, FrontIsFirst DEF OutputInv, PastParser
  <2> QED BY <1>2, <2>2, FrontIsFirst
<1> QED BY <1>1, <1>3, <1>4 DEF OutputInv

\* A call that waits in the server connection has no output.
LEMMA WaitKeepsOutput ==
    ASSUME Types, HandsFit, OutputInv, BridgeStuck, p = "end" => p' = "end"
    PROVE  OutputInv'
<1>1. /\ b = "select" /\ b' = "stuck" /\ UNCHANGED <<p, s, srvIn, srvOut, roomGot, sent>>
      /\ \/ hold' = [hold EXCEPT !["b"] = userOut]
         \/ hold' = hold
  BY DEF BridgeStuck, BridgeTo, dataVars
<1>2. hold'["s"] = hold["s"] /\ hold'["p"] = hold["p"]
  <2>1. userOut \in Seq(Nat)
    BY InputTypes
  <2> QED BY <1>1, <2>1, HandTakes DEF Types
<1>3. InCast' = InCast
  BY <1>1 DEF InCast, HandsFit
<1> QED BY <1>1, <1>2, <1>3, OutputKept

\* The output stays in order.
LEMMA OutputStep ==
    ASSUME Types, HandsFit, InputInv, OutputInv, [Next]_vars
    PROVE  OutputInv'
<1> USE DEF goVars, chanVars, envVars, dataVars
<1>1. p = "end" => p' = "end"
  BY LeavingStep DEF InputInv
<1>2. CASE SrvRead
  BY <1>2, ServerSends
<1>3. CASE SrvSend
  BY <1>3, ReaderSends
<1>4. CASE ParseSrv
  BY <1>4, ParserTakesOutput
<1>5. CASE ParsePut /\ p = "srv"
  BY <1>5, ParserGivesOutput
<1>6. CASE BridgeFromSrv
  BY <1>6, BridgeTakesOutput
<1>7. CASE BridgeCast
  BY <1>7, BridgeGivesOutput
<1>8. CASE UserReadPlain
  BY <1>8, CrashKeepsOutput
<1>21. CASE BridgeStuck
  BY <1>1, <1>21, WaitKeepsOutput
<1> SUFFICES ASSUME ~ BridgeStuck, ~ UserReadPlain
             PROVE  OutputInv'
  BY <1>8, <1>21
<1>22. b' = "stuck" <=> b = "stuck"
  BY StuckStays DEF Types
<1> DEFINE Kept == /\ UNCHANGED <<roomGot, srvOut, srvIn, sent>>
                   /\ hold'["b"] = hold["b"] /\ hold'["s"] = hold["s"]
                   /\ s' = s \/ s' # "send"
                   /\ \/ p # "srv" /\ p' # "srv"
                      \/ p' = p /\ hold'["p"] = hold["p"]
                      \/ p' = "end"
<1>9. CASE Kept
  <2>1. InCast' = InCast
    BY <1>9, <1>22 DEF InCast
  <2> QED BY <1>1, <1>9, <2>1, OutputKept
<1>10. ASSUME NEW g \in {"u", "p"}, NEW x \in Seq(Nat), hold' = [hold EXCEPT ![g] = x],
              g = "u" => p' = p, g = "p" => p # "srv" /\ p' # "srv",
              UNCHANGED <<roomGot, srvOut, srvIn, sent, s>>
       PROVE  OutputInv'
  <2>1. hold'["b"] = hold["b"] /\ hold'["s"] = hold["s"] /\ (g = "u" => hold'["p"] = hold["p"])
    BY <1>10, HandTakes DEF Types
  <2>2. Kept
    BY <1>10, <2>1
  <2> QED BY <1>9, <2>2
<1>11. userIn \in Seq(Nat) /\ <<>> \in Seq(Nat) /\ typed \in Nat
  BY InputTypes
<1>12. CASE UserRead \/ UserSteal
  <2>1. PICK cut \in {<<typed + 1, typed + 2>>, <<0, typed + 1>>, <<0, 0>>} :
            /\ hold' = [hold EXCEPT !["u"] = cut]
            /\ UNCHANGED <<p, roomGot, srvOut, srvIn, sent, s>>
    BY <1>12 DEF UserRead, UserChunk, UserSteal
  <2>2. cut \in Seq(Nat)
    <3>1. <<typed + 1, typed + 2>> \in Seq(Nat) /\ <<0, typed + 1>> \in Seq(Nat) /\ <<0, 0>> \in Seq(Nat)
      BY <1>11
    <3> QED BY <3>1
  <2> QED BY <1>10, <2>1, <2>2
<1>13. CASE UserReceive
  <2>1. /\ hold' = [hold EXCEPT !["u"] = Tail(hold["u"])]
        /\ UNCHANGED <<p, roomGot, srvOut, srvIn, sent, s>>
    BY <1>13 DEF UserReceive
  <2>2. Tail(hold["u"]) \in Seq(Nat)
    <3>1. hold["u"] \in Seq(Nat) /\ Len(hold["u"]) \in {1, 2}
      BY <1>13 DEF UserReceive, Types, Hands, HandsFit
    <3> QED BY <3>1, EmptyHasNoLength, HeadTailProperties
  <2> QED BY <1>10, <2>1, <2>2
<1>14. CASE ParseUser
  <2>1. CASE UNCHANGED <<p, hold>>
    <3>1. Kept
      BY <1>14, <2>1 DEF ParseUser
    <3> QED BY <1>9, <3>1
  <2>2. CASE p' = "user" /\ hold' = [hold EXCEPT !["p"] = userIn]
    BY <1>10, <1>11, <1>14, <2>2 DEF ParseUser
  <2> QED BY <1>14, <2>1, <2>2 DEF ParseUser
<1>15. CASE ParsePut /\ p # "srv"
  BY <1>10, <1>11, <1>15 DEF ParsePut
<1>16. CASE Proxy
  <2>1. Kept
    BY <1>16 DEF Proxy, AddSession, ConnectFails, BridgeStart, BridgeJoin, RemoveSession, HandsFit
  <2> QED BY <1>9, <2>1
<1>17. CASE SrvReadErr \/ SrvExit \/ SrvCloseIn \/ UserReadErr \/ UserExit \/ ParseEnd
  <2>1. Kept
    BY <1>17 DEF SrvReadErr, SrvExit, SrvCloseIn, UserReadErr, UserExit, ParseEnd
  <2> QED BY <1>9, <2>1
<1>18. CASE BridgeTick \/ BridgeTerminated \/ BridgeWindow \/ BridgeFromUser
          \/ BridgeParserEnded \/ BridgeUserGone \/ BridgeExit \/ BridgeNotify
  <2>1. Kept
    BY <1>18 DEF BridgeTick, BridgeTerminated, BridgeWindow, BridgeFromUser,
       BridgeParserEnded, BridgeUserGone, BridgeExit, BridgeNotify, BridgeTo
  <2> QED BY <1>9, <2>1
<1>19. CASE Returning \/ DoneToParser \/ DoneToReader
  <2>1. Kept
    BY <1>19 DEF Returning, BridgeLeave, BridgeRenewUser, BridgeCloseSrv, DoneToParser, DoneToReader
  <2> QED BY <1>9, <2>1
<1>20. CASE Outside \/ UNCHANGED vars
  <2>1. Kept
    BY <1>20 DEF vars, Outside, RoomStops, SrvEnds, UserLeaves, Terminate, Pause
  <2> QED BY <1>9, <2>1
<1> HIDE DEF Kept
<1> QED BY <1>2, <1>3, <1>4, <1>5, <1>6, <1>7, <1>12, <1>13, <1>14, <1>15, <1>16, <1>17,
           <1>18, <1>19, <1>20 DEF Next, Reader, Typist, Parser, Select

-----------------------------------------------------------------------------
(* The theorems.                                                           *)

\* At first nothing is typed or sent.
LEMMA InitInv == Init => BridgeInv
<1> SUFFICES ASSUME Init
             PROVE  BridgeInv
  OBVIOUS
<1> USE DEF Init
<1>1. <<>> \in Seq(Nat) /\ Len(<<>>) = 0 /\ <<>> \o <<>> = <<>> /\ Upto(0) = <<>>
  BY DEF Upto
<1>2. Types
  <2>1. Places /\ Hands /\ Ends
    BY <1>1 DEF Places, Hands, Ends
  <2>2. Channels
    BY <1>1 DEF Channels, AtMostOne
  <2>3. Signals /\ Streams
    BY <1>1, BoundsAssumption DEF Signals, Streams
  <2> QED BY <2>1, <2>2, <2>3 DEF Types
<1>3. HandsFit
  BY DEF HandsFit
<1>4. FirstOf(<<>>, 0)
  BY <1>1 DEF FirstOf
<1>5. InputInv
  BY <1>1, <1>4, FullOfOne DEF InputInv, InputOnItsWay, InWrite, InParser
<1>6. OutputInv
  BY <1>1, <1>4 DEF OutputInv, OutputOnItsWay, PastReader, PastParser, InCast, InParser
<1> QED BY <1>2, <1>3, <1>5, <1>6, TypeOKIsTypes DEF BridgeInv

\* Every step keeps the invariant.
LEMMA StepInv == BridgeInv /\ [Next]_vars => BridgeInv'
<1> SUFFICES ASSUME BridgeInv, [Next]_vars
             PROVE  BridgeInv'
  OBVIOUS
<1>1. Types /\ HandsFit /\ InputInv /\ OutputInv
  BY TypeOKIsTypes DEF BridgeInv
<1>2. Places /\ Hands /\ Channels /\ Signals /\ Ends /\ Streams
  BY <1>1 DEF Types
<1>3. Places' /\ Ends' /\ Signals'
  BY <1>2, PlacesStep, EndsStep, SignalsStep
<1>4. Hands' /\ HandsFit'
  BY <1>1, <1>2, HandsStep
<1>5. Channels'
  BY <1>1, <1>2, ChannelsStep
<1>6. Streams'
  BY <1>1, <1>2, StreamsStep
<1>7. Types'
  BY <1>3, <1>4, <1>5, <1>6 DEF Types
<1>8. TypeOK'
  BY <1>7 DEF TypeOK, Types, Places, Hands, Channels, AtMostOne, Signals, Ends, Streams
<1>9. InputInv'
  BY <1>1, <1>7, InputStep
<1>10. OutputInv'
  BY <1>1, OutputStep
<1> QED BY <1>4, <1>8, <1>9, <1>10 DEF BridgeInv

\* The invariant holds throughout.
LEMMA BridgeCorrect == Spec => []BridgeInv
BY InitInv, StepInv, PTL DEF Spec

\* Bridge's variables have their types: no channel holds more than its capacity, and
\* neither exitSignal nor notifyMsgChan is ever sent to when full.
THEOREM BridgeTypeCorrect == Spec => []TypeOK
<1>1. BridgeInv => TypeOK
  BY DEF BridgeInv
<1> QED BY <1>1, BridgeCorrect, PTL

\* For any number of pieces typed and sent, whatever administrators do and however the
\* two ends close: what the server and the room got are the first of the pieces, none
\* lost, repeated or swapped, and until the parser ends (of the input: until the room
\* does) the rest is on its way in order.
THEOREM StreamsStayInOrder == Spec => []StreamsInOrder
<1>1. BridgeInv => StreamsInOrder
  <2> SUFFICES ASSUME BridgeInv
               PROVE  StreamsInOrder
    OBVIOUS
  <2>1. Types /\ InputInv /\ OutputInv
    BY TypeOKIsTypes DEF BridgeInv
  <2>2. IsPrefix(srvGot, Upto(typed))
    BY <2>1, InputTypes, FirstIsPrefix DEF InputInv
  <2>3. IsPrefix(roomGot, Upto(sent))
    <3>1. /\ roomGot \in Seq(Nat) /\ InCast \in Seq(Nat) /\ srvOut \in Seq(Nat) /\ sent \in Nat
          /\ roomGot \o InCast \in Seq(Nat)
      BY <2>1, OutputTypes, ConcatProperties
    <3>2. FirstOf(roomGot \o InCast, sent)
      BY <2>1, <3>1, FrontIsFirst DEF OutputInv, PastParser
    <3> QED BY <3>1, <3>2, FrontIsFirst, FirstIsPrefix
  <2> QED BY <2>1, <2>2, <2>3 DEF InputInv, OutputInv, StreamsInOrder, InputInOrder, OutputInOrder
<1> QED BY <1>1, BridgeCorrect, PTL
=============================================================================
