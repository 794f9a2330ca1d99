-------------------------------- MODULE Room --------------------------------
(***************************************************************************)
(* One exchange room (pkg/exchange/room_message.go): the goroutine of      *)
(* Room.run, which owns the connections, and the goroutines that call      *)
(* Subscribe, UnSubscribe, Broadcast and stop on it.                       *)
(*                                                                         *)
(* Every channel of a room is unbuffered, so a call hands its argument     *)
(* over in one step: the step in which run's select takes it.  A call is   *)
(* split in two, the step that starts it and the step that lets it return. *)
(* Writes of run to a connection may block, so each is a step of its own.  *)
(***************************************************************************)
EXTENDS Naturals, Sequences

CONSTANTS
    Conns,      \* connections; each subscribes and unsubscribes once
    Senders,    \* goroutines that call Broadcast
    Users,      \* identities (MetaMessage.User + Created) joining a share
    RingSize,   \* recentMessages is ring.New(5)
    MaxMsgs,    \* bound: calls of Broadcast made in a behaviour
    None        \* no message

ASSUME RingSizeAssumption == RingSize \in Nat \ {0}
ASSUME MaxMsgsAssumption == MaxMsgs \in Nat

VARIABLES
    at,         \* where run is: "select", writing "replay" to a new
                \* connection, writing a "cast", calling Close in "close",
                \* or returned ("end")
    to,         \* connections that step still has to write to or close
    replay,     \* recent Data messages a new connection still has to be sent
    msg,        \* message being broadcast, while run does
    done,       \* the channel done is closed
    connMaps,   \* connections run knows
    recent,     \* the ring, oldest message first, without its empty slots
    zmodem,     \* ZMODEMStatus
    online,     \* keys of currentOnlineUsers
    call,       \* call[c]: where the owner of connection c is
    pending,    \* pending[s]: message a Broadcast call of s wants to hand over
    stopper,    \* the registry's call of stop: "idle", "signal" or "closing"
    stream,     \* stream[c]: "open", "closed" by a Close, or "gone" with its peer
    shown,      \* shown[c]: what the peer of c was told: zmodem, users
    got,        \* got[c]: Data messages written to c, in order
    since,      \* history: position in log of the first message meant for c
    log,        \* history: the Data messages the room accepted, in order
    sent        \* number of Broadcast calls made

vars == <<at, to, replay, msg, done, connMaps, recent, zmodem, online, call,
          pending, stopper, stream, shown, got, since, log, sent>>

runVars == <<at, to, replay, msg>>
roomVars == <<connMaps, recent, zmodem, online>>
peerVars == <<stream, shown, got>>
-----------------------------------------------------------------------------
(***************************************************************************)
(* The messages run tells apart.  A Data message is known by its number;   *)
(* "Windows" stands for the events that are only passed on.                *)
(***************************************************************************)
Data(n) == [event |-> "Data", n |-> n, body |-> None]

RoomMessage ==
    {Data(n) : n \in 1..MaxMsgs}
      \cup [event : {"Share_JOIN", "Share_LEAVE"}, n : {0}, body : Users]
      \cup [event : {"Action"}, n : {0}, body : {"ZMODEM_START", "ZMODEM_END"}]
      \cup [event : {"Windows"}, n : {0}, body : {None}]

TypeOK ==
    /\ at \in {"select", "replay", "cast", "close", "end"}
    /\ to \in SUBSET Conns
    /\ replay \in Seq(1..MaxMsgs)
    /\ msg \in RoomMessage \cup {None} /\ (at = "cast" => msg \in RoomMessage)
    /\ done \in BOOLEAN
    /\ connMaps \in SUBSET Conns
    /\ recent \in Seq(1..MaxMsgs) /\ Len(recent) <= RingSize
    /\ log \in Seq(1..MaxMsgs) /\ Len(recent) <= Len(log)
    /\ zmodem \in BOOLEAN
    /\ online \in SUBSET Users
    /\ call \in [Conns -> {"out", "subscribe", "in", "unsubscribe", "left"}]
    /\ pending \in [Senders -> RoomMessage \cup {None}]
    /\ stopper \in {"idle", "signal", "closing"}
    /\ stream \in [Conns -> {"open", "closed", "gone"}]
    /\ shown \in [Conns -> [zmodem : BOOLEAN, users : SUBSET Users]]
    /\ got \in [Conns -> Seq(1..MaxMsgs)]
    /\ since \in [Conns -> Nat \ {0}]
    /\ sent \in 0..MaxMsgs

Init ==
    /\ at = "select" /\ to = {} /\ replay = <<>> /\ msg = None
    /\ done = FALSE
    /\ connMaps = {} /\ recent = <<>> /\ zmodem = FALSE /\ online = {}
    /\ call = [c \in Conns |-> "out"]
    /\ pending = [s \in Senders |-> None]
    /\ stopper = "idle"
    /\ stream = [c \in Conns |-> "open"]
    /\ shown = [c \in Conns |-> [zmodem |-> FALSE, users |-> {}]]
    /\ got = [c \in Conns |-> <<>>]
    /\ since = [c \in Conns |-> 1]
    /\ log = <<>> /\ sent = 0
-----------------------------------------------------------------------------
(***************************************************************************)
(* run: the cases of its select.                                           *)
(***************************************************************************)

\* The loop goes on to its select when nothing is left to write or close.
WorkOn(step, rest) == /\ to' = rest
                      /\ at' = IF rest = {} THEN "select" ELSE step

\* Fault: a tick ends a stopped room although connections are left.
TickExitWhenDone ==
    /\ at = "select" /\ (connMaps = {} \/ done)
    /\ at' = "end" /\ done' = TRUE
    /\ UNCHANGED <<to, replay, msg, roomVars, call, pending, stopper, peerVars,
                   since, log, sent>>

\* A tick that finds no connection ends run; the deferred closeOnce follows.
TickExit ==
    /\ at = "select" /\ connMaps = {}
    /\ at' = "end" /\ done' = TRUE
    /\ UNCHANGED <<to, replay, msg, roomVars, call, pending, stopper, peerVars,
                   since, log, sent>>

\* A tick of a room that was stopped closes the connections that are left.
TickReap ==
    /\ at = "select" /\ connMaps # {} /\ done
    /\ WorkOn("close", connMaps)
    /\ UNCHANGED <<replay, msg, done, roomVars, call, pending, stopper,
                   peerVars, since, log, sent>>

\* A new connection is told the ZMODEM status first; the recent messages and
\* the users follow, in SendReplay and SendUsers.
AcceptSubscribe(c) ==
    /\ at = "select" /\ call[c] = "subscribe"
    /\ call' = [call EXCEPT ![c] = "in"]
    /\ connMaps' = connMaps \cup {c}
    /\ WorkOn("replay", {c}) /\ replay' = recent
    /\ since' = IF stream[c] = "gone" THEN since
                ELSE [since EXCEPT ![c] = Len(log) - Len(recent) + 1]
    /\ shown' = IF zmodem /\ stream[c] # "gone"
                THEN [shown EXCEPT ![c].zmodem = TRUE] ELSE shown
    /\ UNCHANGED <<msg, done, recent, zmodem, online, pending, stopper, stream,
                   got, log, sent>>

SendReplay(c) ==
    /\ at = "replay" /\ c \in to /\ replay # <<>>
    /\ replay' = Tail(replay)
    /\ got' = IF stream[c] = "gone" THEN got
              ELSE [got EXCEPT ![c] = Append(@, Head(replay))]
    /\ UNCHANGED <<at, to, msg, done, roomVars, call, pending, stopper, stream,
                   shown, since, log, sent>>

\* Fault: a new connection is not told who is online.
SendNoUsers(c) ==
    /\ at = "replay" /\ c \in to /\ replay = <<>>
    /\ WorkOn("replay", to \ {c})
    /\ UNCHANGED <<replay, msg, done, roomVars, call, pending, stopper, peerVars,
                   since, log, sent>>

SendUsers(c) ==
    /\ at = "replay" /\ c \in to /\ replay = <<>>
    /\ WorkOn("replay", to \ {c})
    /\ shown' = IF stream[c] = "gone" THEN shown
                ELSE [shown EXCEPT ![c].users = online]
    /\ UNCHANGED <<replay, msg, done, roomVars, call, pending, stopper, stream,
                   got, since, log, sent>>

\* Fault: the connection stays in connMaps.
AcceptUnSubscribeKeep(c) ==
    /\ at = "select" /\ call[c] = "unsubscribe"
    /\ call' = [call EXCEPT ![c] = "left"]
    /\ UNCHANGED <<runVars, done, roomVars, pending, stopper, peerVars, since,
                   log, sent>>

AcceptUnSubscribe(c) ==
    /\ at = "select" /\ call[c] = "unsubscribe"
    /\ call' = [call EXCEPT ![c] = "left"]
    /\ connMaps' = connMaps \ {c}
    /\ UNCHANGED <<runVars, done, recent, zmodem, online, pending, stopper,
                   peerVars, since, log, sent>>

\* Faults: the ring grows, loses its newest message, or holds one too few.
StoreUnbounded(ring, n) == Append(ring, n)
StoreOverNewest(ring, n) == IF Len(ring) < RingSize THEN Append(ring, n)
                            ELSE [ring EXCEPT ![RingSize] = n]
StoreOneShort(ring, n) == IF Len(ring) < RingSize - 1 THEN Append(ring, n)
                          ELSE Append(Tail(ring), n)

\* Storing in the ring overwrites its oldest message once it is full.
Store(ring, n) == IF Len(ring) < RingSize THEN Append(ring, n)
                  ELSE Append(Tail(ring), n)

\* What an event does to a set of users, on the room's side or a peer's.
UsersAfter(users, m) ==
    CASE m.event = "Share_JOIN"  -> users \cup {m.body}
      [] m.event = "Share_LEAVE" -> users \ {m.body}
      [] OTHER                   -> users

ZmodemAfter(status, m) ==
    IF m.event = "Action" THEN m.body = "ZMODEM_START" ELSE status

AcceptBroadcast(s) ==
    /\ at = "select" /\ pending[s] # None
    /\ pending' = [pending EXCEPT ![s] = None]
    /\ LET m == pending[s]
       IN  /\ recent' = IF m.event = "Data" THEN Store(recent, m.n) ELSE recent
           /\ log' = IF m.event = "Data" THEN Append(log, m.n) ELSE log
           /\ online' = UsersAfter(online, m)
           /\ zmodem' = ZmodemAfter(zmodem, m)
           /\ msg' = IF connMaps = {} THEN None ELSE m
    /\ WorkOn("cast", connMaps)
    /\ UNCHANGED <<replay, done, connMaps, call, stopper, peerVars, since, sent>>

\* handlerMessage on one connection; with several connections each has a
\* goroutine of its own and run waits for all of them.
Deliver(c) ==
    /\ at = "cast" /\ c \in to
    /\ WorkOn("cast", to \ {c})
    /\ msg' = IF to = {c} THEN None ELSE msg
    /\ got' = IF stream[c] # "gone" /\ msg.event = "Data"
              THEN [got EXCEPT ![c] = Append(@, msg.n)] ELSE got
    /\ shown' = IF stream[c] # "gone"
                THEN [shown EXCEPT ![c] =
                        [zmodem |-> ZmodemAfter(@.zmodem, msg),
                         users |-> UsersAfter(@.users, msg)]]
                ELSE shown
    /\ UNCHANGED <<replay, done, roomVars, call, pending, stopper, stream,
                   since, log, sent>>

\* exitSignal asks every connection to close; run itself goes on.
AcceptExit ==
    /\ at = "select" /\ stopper = "signal"
    /\ stopper' = "closing"
    /\ WorkOn("close", connMaps)
    /\ UNCHANGED <<replay, msg, done, roomVars, call, pending, peerVars, since,
                   log, sent>>

CloseConn(c) ==
    /\ at = "close" /\ c \in to
    /\ WorkOn("close", to \ {c})
    /\ stream' = [stream EXCEPT ![c] = IF @ = "open" THEN "closed" ELSE @]
    /\ UNCHANGED <<replay, msg, done, roomVars, call, pending, stopper, shown,
                   got, since, log, sent>>
-----------------------------------------------------------------------------
(***************************************************************************)
(* The callers.                                                            *)
(***************************************************************************)
Subscribe(c) ==
    /\ call[c] = "out"
    /\ call' = [call EXCEPT ![c] = "subscribe"]
    /\ UNCHANGED <<runVars, done, roomVars, pending, stopper, peerVars, since,
                   log, sent>>

\* The owner unsubscribes whenever it likes (Bridge does when it returns).
UnSubscribe(c) ==
    /\ call[c] = "in"
    /\ call' = [call EXCEPT ![c] = "unsubscribe"]
    /\ UNCHANGED <<runVars, done, roomVars, pending, stopper, peerVars, since,
                   log, sent>>

\* The next Data message is numbered when its Broadcast is called.
Broadcast(s) ==
    /\ pending[s] = None /\ sent < MaxMsgs
    /\ sent' = sent + 1
    /\ \E m \in RoomMessage :
          /\ m.event = "Data" => m.n = sent'
          /\ pending' = [pending EXCEPT ![s] = m]
    /\ UNCHANGED <<runVars, done, roomVars, call, stopper, peerVars, since, log>>

\* Broadcast gives up, and drops the message, once done is closed.
BroadcastDone(s) ==
    /\ pending[s] # None /\ done
    /\ pending' = [pending EXCEPT ![s] = None]
    /\ UNCHANGED <<runVars, done, roomVars, call, stopper, peerVars, since, log,
                   sent>>

Stop ==
    /\ stopper = "idle" /\ stopper' = "signal"
    /\ UNCHANGED <<runVars, done, roomVars, call, pending, peerVars, since, log,
                   sent>>

StopDone ==
    /\ stopper = "signal" /\ done /\ stopper' = "idle"
    /\ UNCHANGED <<runVars, done, roomVars, call, pending, peerVars, since, log,
                   sent>>

StopClose ==
    /\ stopper = "closing" /\ stopper' = "idle" /\ done' = TRUE
    /\ UNCHANGED <<runVars, roomVars, call, pending, peerVars, since, log, sent>>

\* External: the peer of a connection goes away; writes to it are lost.
HangUp(c) ==
    /\ stream[c] # "gone"
    /\ stream' = [stream EXCEPT ![c] = "gone"]
    /\ UNCHANGED <<runVars, done, roomVars, call, pending, stopper, shown, got,
                   since, log, sent>>
-----------------------------------------------------------------------------
\* The calls run makes on connections before it is back at its select.
Work == \E c \in Conns : SendReplay(c) \/ SendUsers(c) \/ Deliver(c) \/ CloseConn(c)

Run ==
    \/ TickExit \/ TickReap \/ AcceptExit \/ Work
    \/ \E c \in Conns : AcceptSubscribe(c) \/ AcceptUnSubscribe(c)
    \/ \E s \in Senders : AcceptBroadcast(s)

Callers ==
    \/ Stop \/ StopDone \/ StopClose
    \/ \E c \in Conns : Subscribe(c) \/ UnSubscribe(c) \/ HangUp(c)
    \/ \E s \in Senders : Broadcast(s) \/ BroadcastDone(s)

Next == Run \/ Callers

Spec == Init /\ [][Next]_vars

-----------------------------------------------------------------------------
(***************************************************************************)
(* Properties.                                                             *)
(***************************************************************************)

\* Connections whose peer still takes what the room writes.
Live == {c \in connMaps : stream[c] # "gone"}

\* Data messages run has taken on for c and has not written yet.
InHand(c) ==
    CASE at = "replay" /\ c \in to                       -> replay
      [] at = "cast" /\ c \in to /\ msg.event = "Data"   -> <<msg.n>>
      [] OTHER                                           -> <<>>

\* A connection between its Subscribe and the return of its UnSubscribe is in
\* connMaps and run has not returned: UnSubscribe, which has no case for done,
\* always has someone to receive it, whatever ticks and stops happen.
MembersKeepRoomAlive ==
    \A c \in Conns : call[c] \in {"in", "unsubscribe"} <=> c \in connMaps
                                                           /\ at # "end"

\* What a connection has been sent, together with what run still holds for it,
\* is the log from where it joined to its end: the replay of the ring and the
\* broadcasts after it leave no gap and repeat nothing.
NoGapNoRepeat ==
    \A c \in Live : got[c] \o InHand(c) = SubSeq(log, since[c], Len(log))

\* Between two cases of run's select every live peer has the room's ZMODEM
\* status and the room's users, whenever it joined.
PeersAgree ==
    at = "select" => \A c \in Live : shown[c] = [zmodem |-> zmodem, users |-> online]

\* The connections run is busy with are ones it knows: it writes to no other
\* connection and ends only with none.
RunShape ==
    /\ at \in {"select", "end"} <=> to = {}
    /\ to \subseteq connMaps
    /\ at = "end" => connMaps = {} /\ done
    /\ at = "replay" => \A c, d \in to : c = d

\* What a peer still has to be shown before PeersAgree holds of it.
PeersShown ==
    /\ \A c \in Conns : call[c] \in {"out", "subscribe"} =>
                           ~ shown[c].zmodem /\ got[c] = <<>>
    /\ \A c \in Live :
          IF c \notin to \/ at = "close"
          THEN shown[c].zmodem = zmodem /\ shown[c].users = online
          ELSE IF at = "replay"
          THEN shown[c].zmodem = zmodem
          ELSE /\ ZmodemAfter(shown[c].zmodem, msg) = zmodem
               /\ UsersAfter(shown[c].users, msg) = online

\* The ring holds the end of the log, and all of the log until it is full.
RecentIsSuffix ==
    /\ recent = SubSeq(log, Len(log) - Len(recent) + 1, Len(log))
    /\ Len(recent) \in {RingSize, Len(log)}
    /\ \A c \in Conns : since[c] <= Len(log) + 1

\* Once its UnSubscribe has returned nothing is written to a connection and it
\* is not closed by the room: its owner may close and reuse it.
NoWriteAfterLeave ==
    [][\A c \in Conns : call[c] = "left" =>
          /\ <<shown[c], got[c]>>' = <<shown[c], got[c]>>
          /\ stream'[c] \in {stream[c], "gone"}]_vars

\* The room implements the broadcast hub: one log, of which every live
\* connection is fed consecutive messages.
H == INSTANCE Hub WITH members <- Live, fed <- got
HubSpec == H!Spec

\* What any connection was ever sent, also one that left or whose peer is gone,
\* is a run of consecutive messages of the log from where it joined.
EverFedARun == H!FedIsARunOfLog
=============================================================================
