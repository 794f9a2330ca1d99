-------------------------------- MODULE Bridge --------------------------------
(***************************************************************************)
(* ProxyServer.Proxy (pkg/proxy/server.go) and SwitchSession.Bridge        *)
(* (switch.go), which it calls: the goroutines between a user's terminal   *)
(* and a container, and the channels that join them.  While Proxy runs the *)
(* session is in the session manager (pkg/session), where administrators'  *)
(* tasks find it, also before Bridge has begun and while it ends.          *)
(*                                                                         *)
(*   user -> userReader -> userIn -> parser -> userOut -> Bridge -> server *)
(*   server -> srvReader -> srvIn -> parser -> srvOut -> Bridge -> room    *)
(*                                                                         *)
(* Bridge leaves its select for many reasons and then runs its deferred    *)
(* calls in the reverse of their order, the last of which hands one value  *)
(* over on the unbuffered channel done.  Data is a sequence of numbered    *)
(* pieces; 0 is the empty piece in front of a carriage return.             *)
(***************************************************************************)
EXTENDS Naturals, Sequences, SequencesExt

CONSTANTS
    MaxTyped,     \* bound: pieces the user types
    MaxOutput,    \* bound: pieces the server sends
    MaxPieces,    \* bound: pieces that both send
    PlainChunks,  \* whether the user may type a chunk without carriage return
    Tasks,        \* administrators' tasks that occur
    GoesDeaf      \* whether exec may never run, or end with a late key (module Container)

ASSUME BoundsAssumption ==
    /\ MaxTyped \in Nat /\ MaxOutput \in Nat /\ MaxPieces \in Nat /\ PlainChunks \in BOOLEAN
    /\ GoesDeaf \in BOOLEAN
    /\ Tasks \subseteq {"kill", "lock"}

VARIABLES
    b,          \* Proxy: "new", "connect"; Bridge: "join", "select", "cast",
                \* "lastcast", "stuck" in a call of the server connection; its deferred
                \* calls "leave", "renewUser", "closeSrv", "done"; "over" when Proxy
                \* has returned
    s,          \* srvReader: "off", "read", "send", "exit", "close", "end"
    u,          \* userReader: "off", "read", "first", "second", "exit", "end"
    p,          \* parser: "off", "select", "user", "srv", "end"
    hold,       \* pieces in the hands of b, s, u, p
    srvIn,      \* srvInChan, capacity 1
    userIn,     \* userInputMessageChan, capacity 1
    userOut,    \* userOutputChan, capacity 1
    srvOut,     \* srvOutputChan, capacity 1
    closed,     \* which of "srvIn", "out" (userOut and srvOut) are closed
    exitSignal, \* values in exitSignal, capacity 2
    notify,     \* values in notifyMsgChan, capacity 1
    roomDone,   \* the room's channel done is closed
    srv,        \* the server connection: "open"; "deaf" when nothing reads its stdin
                \* pipe and nothing ever will; "closed" when it was closed
    userGone,   \* the user's context is done
    pipe,       \* what userConn reads: "open", "broken" (Close is at it), "new"
    terminated, \* Terminate has cancelled the session's context
    crashed,    \* a goroutine panicked: the process is gone
    typed, sent,        \* pieces the user typed and the server sent so far
    srvGot, roomGot     \* pieces written to the server and broadcast so far

goVars == <<b, s, u, p, hold>>
chanVars == <<srvIn, userIn, userOut, srvOut, closed, exitSignal, notify>>
envVars == <<roomDone, srv, userGone, pipe, terminated, crashed>>
dataVars == <<typed, sent, srvGot, roomGot>>
vars == <<goVars, chanVars, envVars, dataVars>>

Deferred == {"leave", "renewUser", "closeSrv", "done"}

TypeOK ==
    /\ b \in {"new", "connect", "join", "select", "cast", "lastcast", "stuck", "over"}
             \cup Deferred
    /\ s \in {"off", "read", "send", "exit", "close", "end"}
    /\ u \in {"off", "read", "first", "second", "exit", "end"}
    /\ p \in {"off", "select", "user", "srv", "end"}
    /\ hold \in [{"b", "s", "u", "p"} -> Seq(Nat)]
    /\ \A c \in {srvIn, userIn, userOut, srvOut} : c \in Seq(Nat) /\ Len(c) <= 1
    /\ closed \subseteq {"srvIn", "out"}
    /\ exitSignal \in 0..2 /\ notify \in 0..1
    /\ {roomDone, userGone, terminated, crashed} \subseteq BOOLEAN
    /\ srv \in {"open", "deaf", "closed"} /\ pipe \in {"open", "broken", "new"}
    /\ typed \in 0..MaxTyped /\ sent \in 0..MaxOutput
    /\ srvGot \in Seq(Nat) /\ roomGot \in Seq(Nat)

Init ==
    /\ b = "new" /\ s = "off" /\ u = "off" /\ p = "off"
    /\ hold = [g \in {"b", "s", "u", "p"} |-> <<>>]
    /\ srvIn = <<>> /\ userIn = <<>> /\ userOut = <<>> /\ srvOut = <<>>
    /\ closed = {} /\ exitSignal = 0 /\ notify = 0
    /\ roomDone = FALSE /\ srv = "open" /\ userGone = FALSE /\ pipe = "open"
    /\ terminated = FALSE /\ crashed = FALSE
    /\ typed = 0 /\ sent = 0 /\ srvGot = <<>> /\ roomGot = <<>>

Free(chan) == chan = <<>>

\* The session manager has the session.
Listed == b \notin {"new", "over"}

\* Exec has failed before it read anything, and its own Close waits in the stdin pipe.
NeverRan == srv = "deaf" /\ srvGot = <<>>

\* Bridge has begun.
Started == p # "off"
-----------------------------------------------------------------------------
(***************************************************************************)
(* Proxy, up to and after Bridge.  The terminal's configuration and the    *)
(* options of the connection, both nil at this commit, are taken to be set.*)
(***************************************************************************)
AddSession ==
    /\ b = "new" /\ b' = "connect"
    /\ UNCHANGED <<s, u, p, hold, chanVars, envVars, dataVars>>

\* Proxy's deferred call, once Bridge has returned or there is no connection.  The
\* context and notifyMsgChan of its SwitchSession go with it.
RemoveSession == b' = "over" /\ terminated' = FALSE /\ notify' = 0

ConnectFails ==
    /\ b = "connect" /\ RemoveSession
    /\ UNCHANGED <<s, u, p, hold, srvIn, userIn, userOut, srvOut, closed, exitSignal,
                   roomDone, srv, userGone, pipe, crashed, dataVars>>

\* getServerConn has returned.  Bridge starts the parser, registers and joins its room,
\* starts the srvReader and broadcasts the join.
BridgeStart ==
    /\ b = "connect" /\ b' = "join" /\ p' = "select" /\ s' = "read"
    /\ srv' \in {srv} \cup (IF GoesDeaf THEN {"deaf"} ELSE {})
    /\ UNCHANGED <<u, hold, chanVars, roomDone, userGone, pipe, terminated, crashed,
                   dataVars>>

\* The broadcast returns, and the userReader starts.
BridgeJoin ==
    /\ b = "join" /\ b' = "select" /\ u' = "read"
    /\ UNCHANGED <<s, p, hold, chanVars, envVars, dataVars>>
-----------------------------------------------------------------------------
(***************************************************************************)
(* srvReader.                                                              *)
(***************************************************************************)
SrvRead ==
    /\ s = "read" /\ srv # "closed" /\ ~ NeverRan
    /\ sent < MaxOutput /\ typed + sent < MaxPieces
    /\ sent' = sent + 1
    /\ s' = "send" /\ hold' = [hold EXCEPT !["s"] = <<sent'>>]
    /\ UNCHANGED <<b, u, p, chanVars, envVars, typed, srvGot, roomGot>>

\* Fault: srvInChan grows past its capacity.
SrvSendOver ==
    /\ s = "send"
    /\ srvIn' = srvIn \o hold["s"]
    /\ s' = "read" /\ hold' = [hold EXCEPT !["s"] = <<>>]
    /\ UNCHANGED <<b, u, p, userIn, userOut, srvOut, closed, exitSignal, notify,
                   envVars, dataVars>>

SrvSend ==
    /\ s = "send" /\ Free(srvIn)
    /\ srvIn' = hold["s"]
    /\ s' = "read" /\ hold' = [hold EXCEPT !["s"] = <<>>]
    /\ UNCHANGED <<b, u, p, userIn, userOut, srvOut, closed, exitSignal, notify,
                   envVars, dataVars>>

SrvReadErr ==
    /\ s = "read" /\ srv = "closed" /\ s' = "exit"
    /\ UNCHANGED <<b, u, p, hold, chanVars, envVars, dataVars>>

SrvExit ==
    /\ s = "exit" /\ exitSignal < 2
    /\ exitSignal' = exitSignal + 1 /\ s' = "close"
    /\ UNCHANGED <<b, u, p, hold, srvIn, userIn, userOut, srvOut, closed, notify,
                   envVars, dataVars>>

SrvCloseIn ==
    /\ s = "close" /\ s' = "end"
    /\ closed' = closed \cup {"srvIn"}
    /\ UNCHANGED <<b, u, p, hold, srvIn, userIn, userOut, srvOut, exitSignal,
                   notify, envVars, dataVars>>
-----------------------------------------------------------------------------
(***************************************************************************)
(* userReader.  A chunk is cut in front of its carriage return and its two *)
(* pieces are given to the room, 100ms apart; without one the cut panics.  *)
(***************************************************************************)
UserChunk(cut) ==
    /\ u = "read" /\ pipe = "open"
    /\ typed' = cut[2] /\ typed' <= MaxTyped /\ typed' + sent <= MaxPieces
    /\ u' = "first" /\ hold' = [hold EXCEPT !["u"] = cut]
    /\ UNCHANGED <<b, s, p, chanVars, envVars, sent, srvGot, roomGot>>

UserRead == \/ UserChunk(<<typed + 1, typed + 2>>)
            \/ UserChunk(<<0, typed + 1>>)

\* buf[:index] with index -1: the process, all it holds and its connections are gone.
UserReadPlain ==
    /\ u = "read" /\ pipe = "open" /\ PlainChunks
    /\ crashed' = TRUE /\ roomDone' = TRUE /\ srv' = "closed" /\ userGone' = TRUE
    /\ RemoveSession /\ s' = "end" /\ u' = "end" /\ p' = "end"
    /\ hold' = [g \in DOMAIN hold |-> <<>>]
    /\ srvIn' = <<>> /\ userIn' = <<>> /\ userOut' = <<>> /\ srvOut' = <<>>
    /\ closed' = {} /\ exitSignal' = 0
    /\ UNCHANGED <<pipe, dataVars>>

\* After Close the reader takes input that was typed for the menu.
UserSteal ==
    /\ u = "read" /\ pipe = "new"
    /\ u' = "first" /\ hold' = [hold EXCEPT !["u"] = <<0, 0>>]
    /\ UNCHANGED <<b, s, p, chanVars, envVars, dataVars>>

\* Room.Receive: hand the piece over or, once the room is done, drop it.
UserReceive ==
    /\ u \in {"first", "second"}
    /\ u' = IF u = "first" THEN "second" ELSE "read"
    /\ hold' = [hold EXCEPT !["u"] = Tail(@)]
    /\ \/ Free(userIn) /\ userIn' = <<Head(hold["u"])>>
       \/ roomDone /\ UNCHANGED userIn
    /\ UNCHANGED <<b, s, p, srvIn, userOut, srvOut, closed, exitSignal, notify,
                   envVars, dataVars>>

\* A Read may fail once the user is gone, and does on a broken pipe.
UserReadErr ==
    /\ u = "read" /\ (userGone \/ pipe = "broken") /\ u' = "exit"
    /\ UNCHANGED <<b, s, p, hold, chanVars, envVars, dataVars>>

UserExit ==
    /\ u = "exit" /\ exitSignal < 2
    /\ exitSignal' = exitSignal + 1 /\ u' = "end"
    /\ UNCHANGED <<b, s, p, hold, srvIn, userIn, userOut, srvOut, closed, notify,
                   envVars, dataVars>>
-----------------------------------------------------------------------------
(***************************************************************************)
(* parser (ParseStream).                                                   *)
(***************************************************************************)
ParseUser ==
    /\ p = "select" /\ userIn # <<>>
    /\ userIn' = <<>>
    /\ IF userIn = <<0>> THEN UNCHANGED <<p, hold>>
       ELSE p' = "user" /\ hold' = [hold EXCEPT !["p"] = userIn]
    /\ UNCHANGED <<b, s, u, srvIn, userOut, srvOut, closed, exitSignal, notify,
                   envVars, dataVars>>

ParseSrv ==
    /\ p = "select" /\ srvIn # <<>>
    /\ srvIn' = <<>> /\ p' = "srv" /\ hold' = [hold EXCEPT !["p"] = srvIn]
    /\ UNCHANGED <<b, s, u, userIn, userOut, srvOut, closed, exitSignal, notify,
                   envVars, dataVars>>

\* Fault: what does not fit is dropped.
ParsePutDrop ==
    /\ \/ p = "user" /\ UNCHANGED srvOut /\ userOut' = (IF Free(userOut) THEN hold["p"] ELSE userOut)
       \/ p = "srv" /\ UNCHANGED userOut /\ srvOut' = (IF Free(srvOut) THEN hold["p"] ELSE srvOut)
    /\ p' = "select" /\ hold' = [hold EXCEPT !["p"] = <<>>]
    /\ UNCHANGED <<b, s, u, srvIn, userIn, closed, exitSignal, notify, envVars,
                   dataVars>>
\* Fault: the server's output goes to whichever channel is free first.
ParsePutCrossed ==
    /\ \/ Free(userOut) /\ userOut' = hold["p"] /\ UNCHANGED srvOut
       \/ p = "srv" /\ Free(srvOut) /\ srvOut' = hold["p"] /\ UNCHANGED userOut
    /\ p \in {"user", "srv"} /\ p' = "select" /\ hold' = [hold EXCEPT !["p"] = <<>>]
    /\ UNCHANGED <<b, s, u, srvIn, userIn, closed, exitSignal, notify, envVars,
                   dataVars>>

ParsePut ==
    /\ \/ p = "user" /\ Free(userOut) /\ userOut' = hold["p"] /\ UNCHANGED srvOut
       \/ p = "srv" /\ Free(srvOut) /\ srvOut' = hold["p"] /\ UNCHANGED userOut
    /\ p' = "select" /\ hold' = [hold EXCEPT !["p"] = <<>>]
    /\ UNCHANGED <<b, s, u, srvIn, userIn, closed, exitSignal, notify, envVars,
                   dataVars>>

ParseEnd ==
    /\ p = "select" /\ srvIn = <<>> /\ "srvIn" \in closed
    /\ p' = "end" /\ closed' = closed \cup {"out"}
    /\ UNCHANGED <<b, s, u, hold, srvIn, userIn, userOut, srvOut, exitSignal,
                   notify, envVars, dataVars>>
-----------------------------------------------------------------------------
(***************************************************************************)
(* Bridge: the cases of its select.                                        *)
(***************************************************************************)
BridgeTo(next) == b = "select" /\ b' = next

\* Session time, idle time or permission has run out.
BridgeTick ==
    /\ BridgeTo("lastcast")
    /\ UNCHANGED <<s, u, p, hold, chanVars, envVars, dataVars>>

BridgeTerminated ==
    /\ terminated /\ BridgeTo("lastcast")
    /\ UNCHANGED <<s, u, p, hold, chanVars, envVars, dataVars>>

\* SetWinSize has returned.
BridgeWindow ==
    /\ ~ userGone /\ BridgeTo("cast")
    /\ UNCHANGED <<s, u, p, hold, chanVars, envVars, dataVars>>

BridgeFromSrv ==
    /\ srvOut # <<>> /\ BridgeTo("cast")
    /\ srvOut' = <<>> /\ hold' = [hold EXCEPT !["b"] = srvOut]
    /\ UNCHANGED <<s, u, p, srvIn, userIn, userOut, closed, exitSignal, notify,
                   envVars, dataVars>>

\* srvConn.Write has returned.  A key that comes when the shell has just ended is the
\* last one the copy of stdin takes.
BridgeFromUser ==
    /\ userOut # <<>> /\ b = "select" /\ srv # "deaf"
    /\ userOut' = <<>> /\ srvGot' = srvGot \o userOut
    /\ srv' \in {srv} \cup (IF GoesDeaf /\ srv = "open" THEN {"deaf"} ELSE {})
    /\ UNCHANGED <<goVars, srvIn, userIn, srvOut, closed, exitSignal, notify, roomDone,
                   userGone, pipe, terminated, crashed, typed, sent, roomGot>>

\* Write waits in the pipe for ever, or SetWinSize in a full winSizeChan that nothing
\* ever took a size from.
BridgeStuck ==
    /\ srv = "deaf" /\ BridgeTo("stuck")
    /\ \/ userOut # <<>> /\ userOut' = <<>> /\ hold' = [hold EXCEPT !["b"] = userOut]
       \/ NeverRan /\ ~ userGone /\ UNCHANGED <<userOut, hold>>
    /\ UNCHANGED <<s, u, p, srvIn, userIn, srvOut, closed, exitSignal, notify, envVars,
                   dataVars>>

BridgeParserEnded ==
    /\ "out" \in closed /\ (srvOut = <<>> \/ userOut = <<>>) /\ BridgeTo("leave")
    /\ UNCHANGED <<s, u, p, hold, chanVars, envVars, dataVars>>
\* Fault: only new windows are looked at when the user is gone.
BridgeUserGoneOn ==
    /\ userGone /\ BridgeTo("cast")
    /\ UNCHANGED <<s, u, p, hold, chanVars, envVars, dataVars>>

BridgeUserGone ==
    /\ userGone /\ BridgeTo("leave")
    /\ UNCHANGED <<s, u, p, hold, chanVars, envVars, dataVars>>

BridgeExit ==
    /\ exitSignal > 0 /\ exitSignal' = exitSignal - 1 /\ BridgeTo("leave")
    /\ UNCHANGED <<s, u, p, hold, srvIn, userIn, userOut, srvOut, closed, notify,
                   envVars, dataVars>>
BridgeNotify ==
    /\ notify > 0 /\ notify' = 0 /\ BridgeTo("cast")
    /\ UNCHANGED <<s, u, p, hold, srvIn, userIn, userOut, srvOut, closed,
                   exitSignal, envVars, dataVars>>

\* Room.Broadcast has been taken by the room's run.
BridgeCast ==
    /\ b \in {"cast", "lastcast"}
    /\ b' = IF b = "cast" THEN "select" ELSE "leave"
    /\ roomGot' = roomGot \o hold["b"] /\ hold' = [hold EXCEPT !["b"] = <<>>]
    /\ UNCHANGED <<s, u, p, chanVars, envVars, typed, sent, srvGot>>

(***************************************************************************)
(* Bridge: its deferred calls.                                             *)
(***************************************************************************)
\* room.UnSubscribe(conn) and exchange.UnRegister(room) have returned, and
\* WrapperSession.Close breaks the pipe, then makes a new one: a userReader that
\* reads in between ends, one that reads later gets the input of the menu.
BridgeLeave ==
    /\ b = "leave" /\ b' = "renewUser" /\ pipe' = "broken"
    /\ UNCHANGED <<s, u, p, hold, chanVars, roomDone, srv, userGone,
                   terminated, crashed, dataVars>>

BridgeRenewUser ==
    /\ b = "renewUser" /\ b' = "closeSrv" /\ pipe' = "new"
    /\ UNCHANGED <<s, u, p, hold, chanVars, roomDone, srv, userGone,
                   terminated, crashed, dataVars>>

\* ContainerConnection.Close writes exit into the stdin pipe before it closes anything,
\* so that it waits for ever when the connection is deaf.
BridgeCloseSrv ==
    /\ b = "closeSrv" /\ srv # "deaf" /\ b' = "done" /\ srv' = "closed"
    /\ UNCHANGED <<s, u, p, hold, chanVars, roomDone, userGone, pipe, terminated,
                   crashed, dataVars>>

\* done <- struct{}{}: the parser takes it wherever it is.
DoneToParser ==
    /\ b = "done" /\ p # "end" /\ RemoveSession
    /\ p' = "end" /\ closed' = closed \cup {"out"}
    /\ UNCHANGED <<s, u, hold, srvIn, userIn, userOut, srvOut, exitSignal,
                   roomDone, srv, userGone, pipe, crashed, dataVars>>

\* The srvReader takes it instead when it is about to send.
DoneToReader ==
    /\ b = "done" /\ s = "send" /\ RemoveSession
    /\ s' = "exit"
    /\ UNCHANGED <<u, p, hold, srvIn, userIn, userOut, srvOut, closed, exitSignal,
                   roomDone, srv, userGone, pipe, crashed, dataVars>>
-----------------------------------------------------------------------------
(***************************************************************************)
(* The room, the two ends of the bridge, and administrators' tasks.        *)
(***************************************************************************)
\* The registry stops the room once UnRegister has handed it over.
RoomStops ==
    /\ b \in Deferred \cup {"over"} /\ Started
    /\ ~ roomDone /\ roomDone' = TRUE
    /\ UNCHANGED <<goVars, chanVars, srv, userGone, pipe, terminated,
                   crashed, dataVars>>

\* The goroutine of exec has closed the connection.
SrvEnds ==
    /\ Started /\ srv = "open" /\ srv' = "closed"
    /\ UNCHANGED <<goVars, chanVars, roomDone, userGone, pipe, terminated,
                   crashed, dataVars>>

UserLeaves ==
    /\ ~ userGone /\ userGone' = TRUE
    /\ UNCHANGED <<goVars, chanVars, roomDone, srv, pipe, terminated,
                   crashed, dataVars>>

\* Tasks reach a session while the session manager has it, before Bridge begins too.
Terminate ==
    /\ "kill" \in Tasks /\ ~ terminated /\ Listed /\ terminated' = TRUE
    /\ UNCHANGED <<goVars, chanVars, roomDone, srv, userGone, pipe,
                   crashed, dataVars>>

\* PauseOperation and ResumeOperation: a task that finds notifyMsgChan full waits
\* in its send, which nobody else notices.
Pause ==
    /\ "lock" \in Tasks /\ Listed
    /\ notify = 0 /\ notify' = 1
    /\ UNCHANGED <<goVars, srvIn, userIn, userOut, srvOut, closed, exitSignal,
                   envVars, dataVars>>
-----------------------------------------------------------------------------
Proxy == AddSession \/ ConnectFails \/ BridgeStart \/ BridgeJoin
Reader == SrvRead \/ SrvSend \/ SrvReadErr \/ SrvExit \/ SrvCloseIn
Typist == UserRead \/ UserSteal \/ UserReceive \/ UserReadErr \/ UserExit \/ UserReadPlain
Parser == ParseUser \/ ParseSrv \/ ParsePut \/ ParseEnd
Select == \/ BridgeTick \/ BridgeTerminated \/ BridgeWindow \/ BridgeFromSrv
          \/ BridgeFromUser \/ BridgeParserEnded \/ BridgeUserGone \/ BridgeExit
          \/ BridgeNotify \/ BridgeStuck
Returning == BridgeLeave \/ BridgeRenewUser \/ BridgeCloseSrv
Outside == RoomStops \/ SrvEnds \/ UserLeaves \/ Terminate \/ Pause

Next == \/ Proxy \/ Reader \/ Typist \/ Parser \/ Select \/ BridgeCast \/ Returning
        \/ DoneToParser \/ DoneToReader \/ Outside

Spec == Init /\ [][Next]_vars

(***************************************************************************)
(* Fairness, as the properties need it.  Goroutines run; calls of the room *)
(* return, and those of the server connection unless it is deaf (WF).      *)
(* A case of a select that keeps being ready is taken in the end (SF): Go  *)
(* picks at random.  Nobody has to type, send, leave, terminate or wait    *)
(* for a tick.                                                             *)
(***************************************************************************)
BridgeEnds == BridgeTerminated \/ BridgeUserGone \/ BridgeExit \/ BridgeParserEnded

Fairness ==
    /\ WF_vars(SrvSend \/ SrvReadErr \/ SrvExit \/ SrvCloseIn)
    /\ WF_vars(ParsePut) /\ SF_vars(ParseSrv)
    /\ SF_vars(BridgeFromSrv \/ BridgeFromUser) /\ SF_vars(BridgeEnds)
    /\ WF_vars(Proxy \/ BridgeCast \/ Returning \/ DoneToParser \/ DoneToReader)

FairSpec == Spec /\ Fairness
-----------------------------------------------------------------------------
Upto(n) == [i \in 1..n |-> i]

\* Pieces without the empty ones, which come in front of the others.
Full(pieces) ==
    IF pieces = <<>> \/ pieces[Len(pieces)] = 0 THEN <<>>
    ELSE IF pieces[1] = 0 THEN Tail(pieces) ELSE pieces

InParser(from) == IF p = from THEN hold["p"] ELSE <<>>
InWrite == IF b = "stuck" THEN hold["b"] ELSE <<>>
InCast == IF b = "stuck" THEN <<>> ELSE hold["b"]
InputOnItsWay == srvGot \o InWrite \o userOut \o InParser("user") \o Full(userIn) \o Full(hold["u"])
OutputOnItsWay == roomGot \o InCast \o srvOut \o InParser("srv") \o srvIn \o hold["s"]

\* What the user typed reaches the server in order, nothing lost or repeated,
\* although it passes two goroutines and three channels: while the parser runs
\* and the room takes it, it is written, or on its way, in order.
InputInOrder ==
    /\ IsPrefix(srvGot, Upto(typed))
    /\ p # "end" /\ ~ roomDone => InputOnItsWay = Upto(typed)

\* The same of the server's output, broadcast to the room in order.
OutputInOrder ==
    /\ IsPrefix(roomGot, Upto(sent))
    /\ p # "end" /\ (s = "send" \/ hold["s"] = <<>>) => OutputOnItsWay = Upto(sent)

\* Neither direction of a session loses, repeats or swaps a chunk on its way through
\* the goroutines, while the ends close one by one.
StreamsInOrder == InputInOrder /\ OutputInOrder

\* An end on either side, or an administrator's, also one that comes before Bridge has
\* begun, takes Bridge through its deferred calls up to the last one, whatever its
\* goroutines are at: it has left the room and both connections are closed, unless the
\* process has panicked, or Bridge is in a Write, SetWinSize or Close of a connection
\* that nobody reads and that only this Close could have closed: such a session hangs.
EndTakesBridgeDown ==
    (srv = "closed" \/ userGone \/ terminated) ~>
        \/ crashed
        \/ srv = "deaf" /\ b \in {"stuck", "closeSrv"}
        \/ b \in {"done", "over"} /\ (Started => pipe = "new" /\ srv = "closed")

\* "手动结束" (manual end, switch.go:254): a session an administrator terminates
\* ends; Bridge returns to Proxy, which takes it from the session manager.
TerminateEnds == terminated ~> ~ Listed
=============================================================================
