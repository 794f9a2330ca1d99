----------------------------- MODULE RedisRooms -----------------------------
(***************************************************************************)
(* Rooms shared over redis (pkg/exchange/redis.go, redis_conn.go,          *)
(* redis_proxy.go).  One session runs on the manager Owner; Get on another *)
(* manager asks for its room over the events channel, waits ten seconds    *)
(* for the answer on the results channel, and on JoinSuccess makes a room  *)
(* of its own that a proxyRoom feeds from redis.  On the owner's side one  *)
(* connection (proxyUserCon) serves the proxied rooms of all managers and  *)
(* counts them: +1 for a Join, -1 for a Leave; it ends at a tick that      *)
(* finds none.  When the session ends an Exit event tells the managers.    *)
(*                                                                         *)
(* A manager's run is a loop whose cases each are a step, up to where it   *)
(* waits in addSubscribeCount; taking a request is one step with the       *)
(* handover of its response channel: only its asker can be there.  ReqId   *)
(* holds the second: two requests that a manager makes in one second have  *)
(* the same.  Redis delivers in the order of publication to every          *)
(* subscriber, also what a PUBLISH that returned an error had published; a *)
(* message a subscriber has no use for (another manager's result, a Join   *)
(* where the session is not, an Exit where nobody asked for it) is left    *)
(* out of its queue.  What is typed and shown is left out: Receive         *)
(* and Broadcast return.  Rooms are abstracted further than in module      *)
(* Exchange: a stopped remote room is done.                                *)
(***************************************************************************)
EXTENDS Integers, Sequences

CONSTANTS
    Owner,      \* the manager of the session
    Managers,   \* the other managers
    Guests,     \* calls of Get
    Reach,      \* Reach[g]: the managers a guest may call
    Nobody,     \* no guest, or an empty response channel
    Error,      \* an answer with err set
    MaxFaults   \* bound: messages lost and commands or dials that fail

ASSUME ReachAssumption == Reach \in [Guests -> SUBSET Managers] /\ Owner \notin Managers
ASSUME ReplyAssumption == Nobody \notin Guests /\ Error \notin Guests /\ Error # Nobody
ASSUME FaultsAssumption == MaxFaults \in Nat

VARIABLES
    life,       \* the session's room: "none", "open", "stopped", "ended"
    session,    \* its owner: "new", "in", "exit" (in sendRequest), "over"
    known,      \* the room's id is in globalRoomsKey
    con,        \* proxyUserCon: "none", "subscribe", "run", "end"
    conDone,    \* done of its redisChannel is closed
    number,     \* its currentNumber
    adding,     \* addSubscribeCount the owner's loop waits in: <<n, ReqId>> or <<>>
    requests,   \* requests[id]: who waits for the answer (the managers' requestsMap)
    cache,      \* cache[m]: the room in remoteRoomCache, named by who asked for it
    queue,      \* queue[m]: messages for the loop of m (subscribeEventsMsgCh)
    ask,        \* ask[g]: "out", "asked" when the request waits for the loop, "wait",
                \* "in", "gone"
    reqId,      \* reqId[g]: its manager and, for the second, who first asked in it
    reply,      \* reply[g]: what its response channel holds, then the room it is in
    room,       \* room[g]: the room made for g's request: "none", "live", "done"
    proxy,      \* proxy[g]: its proxyRoom: "none", "run", "remove", "end"
    faults,
    uncounted   \* history, while the session lasts: a join was answered but not counted

ownerVars == <<life, session, known>>
conVars == <<con, conDone, number, adding, uncounted>>
remoteVars == <<requests, cache, room, proxy>>
guestVars == <<ask, reqId, reply>>
vars == <<ownerVars, conVars, remoteVars, guestVars, queue, faults>>

Loops == Managers \cup {Owner}
ReqIds == Managers \X Guests
\* The session's manager hears of joins and leaves, the others of what concerns them.
Messages ==
    [event : {"Join", "JoinSuccess"}, id : ReqIds] \cup [event : {"Leave", "Exit"}]

TypeOK ==
    /\ life \in {"none", "open", "stopped", "ended"}
    /\ session \in {"new", "in", "exit", "over"} /\ known \in BOOLEAN
    /\ con \in {"none", "subscribe", "run", "end"}
    /\ conDone \in BOOLEAN /\ number \in Int
    /\ adding \in {<<>>, <<-1, <<>>>>} \cup ({1} \X ReqIds)
    /\ requests \in [ReqIds -> Guests \cup {Nobody}]
    /\ cache \in [Managers -> Guests \cup {Nobody}]
    /\ \A m \in Loops : queue[m] \in Seq(Messages)
    /\ ask \in [Guests -> {"out", "asked", "wait", "in", "gone"}]
    /\ reqId \in [Guests -> ReqIds \cup {<<>>}]
    /\ reply \in [Guests -> Guests \cup {Nobody, Error}]
    /\ room \in [Guests -> {"none", "live", "done"}]
    /\ proxy \in [Guests -> {"none", "run", "remove", "end"}]
    /\ \A g \in Guests : room[g] = "none" <=> proxy[g] = "none"
    /\ \A m \in Managers : cache[m] # Nobody => reqId[cache[m]][1] = m
    /\ faults \in 0..MaxFaults
    /\ uncounted \in BOOLEAN

Init ==
    /\ life = "none" /\ session = "new" /\ known = FALSE
    /\ con = "none" /\ conDone = FALSE /\ number = 0 /\ adding = <<>> /\ uncounted = FALSE
    /\ requests = [i \in ReqIds |-> Nobody]
    /\ cache = [m \in Managers |-> Nobody] /\ queue = [m \in Loops |-> <<>>]
    /\ ask = [g \in Guests |-> "out"] /\ reqId = [g \in Guests |-> <<>>]
    /\ reply = [g \in Guests |-> Nobody]
    /\ room = [g \in Guests |-> "none"] /\ proxy = [g \in Guests |-> "none"]
    /\ faults = 0

\* A redis command, or a dial, that fails.
Fault == faults < MaxFaults /\ faults' = faults + 1

\* publishRequest, with what is left in the queues meanwhile: every subscriber in
\* "to" is sent the message.  An error says that redis was not asked, or that it did
\* publish and the reply did not come.
Sent(rest, to, message) ==
    [m \in Loops |-> IF m \in to THEN Append(rest[m], message) ELSE rest[m]]
Publish(rest, to, message) == queue' = Sent(rest, to, message) /\ UNCHANGED faults
PublishErr(rest, to, message) == Fault /\ queue' \in {rest, Sent(rest, to, message)}
Delivered(rest) == queue' = rest /\ UNCHANGED faults

\* The loop of m takes the next message, which is of this event.
Takes(m, event) == queue[m] # <<>> /\ Head(queue[m]).event = event
Rest(m) == [queue EXCEPT ![m] = Tail(@)]
-----------------------------------------------------------------------------
(***************************************************************************)
(* The session and its manager.                                            *)
(***************************************************************************)
Add ==
    /\ session = "new" /\ session' = "in" /\ life' = "open"
    /\ \/ known' = TRUE /\ UNCHANGED faults
       \/ Fault /\ UNCHANGED known
    /\ UNCHANGED <<conVars, remoteVars, guestVars, queue>>

\* Delete takes the room out of localRoomCache and stops it, takes its id out of
\* redis, and sends an Exit request to the loop.
Delete ==
    /\ session = "in" /\ session' = "exit" /\ life' = "stopped" /\ uncounted' = FALSE
    /\ \/ known' = FALSE /\ UNCHANGED faults
       \/ Fault /\ UNCHANGED known
    /\ UNCHANGED <<con, conDone, number, adding, remoteVars, guestVars, queue>>

RequestExit ==
    /\ session = "exit" /\ adding = <<>> /\ session' = "over"
    /\ LET exit == [event |-> "Exit"]
           to == {reqId[g][1] : g \in {g \in Guests : reqId[g] # <<>>}}
       IN  Publish(queue, to, exit) \/ PublishErr(queue, to, exit)
    /\ UNCHANGED <<life, known, conVars, remoteVars, guestVars>>

\* Fault: the answer is published, and the join not counted, for the connection that
\* is there already.
EventJoinUncounted ==
    /\ adding = <<>> /\ Takes(Owner, "Join")
    /\ LET join == Head(queue[Owner])
           Reply == Publish(Rest(Owner), {join.id[1]}, [event |-> "JoinSuccess", id |-> join.id])
       IN  IF con = "none" /\ life = "open"
           THEN Reply /\ con' = "subscribe" /\ number' = 1
           ELSE (IF con = "none" THEN Delivered(Rest(Owner)) ELSE Reply)
                /\ UNCHANGED <<con, number>>
    /\ UNCHANGED <<conDone, adding, uncounted, ownerVars, remoteVars, guestVars>>

\* A Join is answered, and then counted, by the connection that is there already;
\* it has ended, maybe, for redisUserCons keeps it.  Else one is made, if the room
\* is in localRoomCache and redis can be dialled.
EventJoin ==
    /\ adding = <<>> /\ Takes(Owner, "Join")
    /\ LET id == Head(queue[Owner]).id
           success == [event |-> "JoinSuccess", id |-> id]
           answered == Sent(Rest(Owner), {id[1]}, success)
       IN  \/ /\ con # "none" /\ queue' = answered /\ UNCHANGED faults
              /\ adding' = <<1, id>> /\ UNCHANGED <<con, number, uncounted>>
           \/ /\ con # "none" /\ queue' = answered /\ Fault
              /\ uncounted' = (uncounted \/ life = "open")
              /\ UNCHANGED <<con, number, adding>>
           \/ /\ con # "none" /\ queue' = Rest(Owner) /\ Fault
              /\ UNCHANGED <<con, number, adding, uncounted>>
           \/ /\ con = "none" /\ life = "open" /\ con' = "subscribe" /\ number' = 1
              /\ \/ Publish(Rest(Owner), {id[1]}, success)
                 \/ PublishErr(Rest(Owner), {id[1]}, success)
              /\ UNCHANGED <<adding, uncounted>>
           \/ /\ con = "none" /\ UNCHANGED <<con, number, adding, uncounted>>
              /\ IF life = "open" THEN Fault /\ queue' = Rest(Owner) ELSE Delivered(Rest(Owner))
    /\ UNCHANGED <<conDone, ownerVars, remoteVars, guestVars>>

EventLeave ==
    /\ adding = <<>> /\ Takes(Owner, "Leave") /\ Delivered(Rest(Owner))
    /\ adding' = IF con = "none" THEN adding ELSE <<-1, <<>>>>
    /\ UNCHANGED <<con, conDone, number, uncounted, ownerVars, remoteVars, guestVars>>

\* addSubscribeCount hands its number to proxyUserCon, or finds done closed.
CountTaken ==
    /\ adding # <<>> /\ con = "run"
    /\ number' = number + adding[1] /\ adding' = <<>>
    /\ UNCHANGED <<con, conDone, uncounted, ownerVars, remoteVars, guestVars, queue, faults>>

\* Fault: done is not looked at.
CountDoneNot == FALSE /\ UNCHANGED vars

CountDone ==
    /\ adding # <<>> /\ conDone /\ adding' = <<>>
    /\ uncounted' = (uncounted \/ (adding[1] = 1 /\ life = "open"))
    /\ UNCHANGED <<con, conDone, number, ownerVars, remoteVars, guestVars, queue, faults>>

\* proxyUserCon: Subscribe is taken while the room's run is there.
ConSubscribe ==
    /\ con = "subscribe" /\ life # "ended" /\ con' = "run"
    /\ UNCHANGED <<conDone, number, adding, uncounted, ownerVars, remoteVars, guestVars, queue,
                   faults>>

\* The connection leaves the room and is closed, ...
ConEnds ==
    /\ con = "run" /\ con' = "end" /\ conDone' = TRUE /\ number' = 0
    /\ UNCHANGED <<adding, uncounted, ownerVars, remoteVars, guestVars, queue, faults>>

\* ... at a tick without proxied rooms, or when it was closed under proxyUserCon.
ConTick == number <= 0 /\ ConEnds
ConClosed == conDone /\ ConEnds

\* A stopped room closes the connection it has, and ends when that has left.
RoomClosesCon ==
    /\ life = "stopped" /\ con = "run" /\ ~ conDone /\ conDone' = TRUE
    /\ UNCHANGED <<con, number, adding, uncounted, ownerVars, remoteVars, guestVars, queue,
                   faults>>

RoomEnds ==
    /\ life = "stopped" /\ con # "run" /\ life' = "ended"
    /\ UNCHANGED <<session, known, conVars, remoteVars, guestVars, queue, faults>>
-----------------------------------------------------------------------------
(***************************************************************************)
(* Get on another manager: the asker's side, then the loop's.              *)
(***************************************************************************)
\* localCache has no such room; SISMEMBER, which may fail, says whether to ask.
GetNothing(g) ==
    /\ ask[g] = "out" /\ ask' = [ask EXCEPT ![g] = "gone"]
    /\ IF known THEN Fault ELSE UNCHANGED faults
    /\ UNCHANGED <<ownerVars, conVars, remoteVars, reqId, reply, queue>>

\* The request's id is also that of another one its manager makes in the same second.
GetAsks(m, g) ==
    /\ ask[g] = "out" /\ known /\ ask' = [ask EXCEPT ![g] = "asked"]
    /\ LET others == {h \in Guests : ask[h] \in {"asked", "wait", "in"} /\ reqId[h][1] = m}
       IN  \E id \in {<<m, g>>} \cup {reqId[h] : h \in others} :
               reqId' = [reqId EXCEPT ![g] = id]
    /\ UNCHANGED <<ownerVars, conVars, remoteVars, reply, queue, faults>>

\* The loop takes the request: it answers with the room it has, or with the error of
\* publishing, or the request is pending under its id.
GetJoin(m, g) ==
    LET Answer(r) == reply' = [reply EXCEPT ![g] = r]
        join == [event |-> "Join", id |-> reqId[g]]
    IN  /\ ask[g] = "asked" /\ reqId[g][1] = m /\ ask' = [ask EXCEPT ![g] = "wait"]
        /\ \/ /\ cache[m] # Nobody /\ Answer(cache[m])
              /\ Delivered(queue) /\ UNCHANGED requests
           \/ /\ cache[m] = Nobody /\ Answer(Error)
              /\ PublishErr(queue, {Owner}, join) /\ UNCHANGED requests
           \/ /\ cache[m] = Nobody /\ requests' = [requests EXCEPT ![reqId[g]] = g]
              /\ Publish(queue, {Owner}, join) /\ UNCHANGED reply
        /\ UNCHANGED <<ownerVars, conVars, cache, room, proxy, reqId>>

TakeReply(g) ==
    /\ ask[g] = "wait" /\ reply[g] # Nobody
    /\ ask' = [ask EXCEPT ![g] = IF reply[g] = Error THEN "gone" ELSE "in"]
    /\ reply' = [reply EXCEPT ![g] = IF @ = Error THEN Nobody ELSE @]
    /\ UNCHANGED <<ownerVars, conVars, remoteVars, reqId, queue, faults>>

\* Fault: the request that timed out stays pending.
CancelKeep(g) ==
    /\ ask[g] = "wait" /\ ask' = [ask EXCEPT ![g] = "gone"]
    /\ UNCHANGED <<ownerVars, conVars, remoteVars, reqId, reply, queue, faults>>

\* The ten seconds are over, and the loop takes the cancelled request; if there is an
\* answer meanwhile, select picks either.
Cancel(g) ==
    /\ ask[g] = "wait" /\ ask' = [ask EXCEPT ![g] = "gone"]
    /\ requests' = [requests EXCEPT ![reqId[g]] = Nobody]
    /\ reply' = [reply EXCEPT ![g] = Nobody]
    /\ UNCHANGED <<ownerVars, conVars, cache, room, proxy, reqId, queue, faults>>

\* Fault: the room's proxy is not started.
MakeRoomOnly(m, g) ==
    /\ cache' = [cache EXCEPT ![m] = g]
    /\ room' = [room EXCEPT ![g] = "live"] /\ UNCHANGED proxy

\* The room takes the place of one that is in remoteRoomCache.
MakeRoom(m, g) ==
    /\ cache' = [cache EXCEPT ![m] = g]
    /\ room' = [room EXCEPT ![g] = "live"] /\ proxy' = [proxy EXCEPT ![g] = "run"]

\* A success that somebody waits for makes a room, if redis can be dialled.
ResultSuccess(m) ==
    LET id == Head(queue[m]).id
        g == requests[id]
    IN  /\ Takes(m, "JoinSuccess")
        /\ requests' = [requests EXCEPT ![id] = Nobody]
        /\ \/ g = Nobody /\ UNCHANGED <<reply, cache, room, proxy>> /\ Delivered(Rest(m))
           \/ /\ g # Nobody /\ reply' = [reply EXCEPT ![g] = Error]
              /\ UNCHANGED <<cache, room, proxy>> /\ Fault /\ queue' = Rest(m)
           \/ /\ g # Nobody /\ reply' = [reply EXCEPT ![g] = g] /\ Delivered(Rest(m))
              /\ MakeRoom(m, g)
        /\ UNCHANGED <<ownerVars, conVars, ask, reqId>>

Drop(m, g) ==
    /\ cache' = [cache EXCEPT ![m] = Nobody]
    /\ room' = [room EXCEPT ![g] = "done"]

\* Exit stops the room the manager has for the session.
EventExit(m) ==
    /\ Takes(m, "Exit") /\ Delivered(Rest(m))
    /\ IF cache[m] = Nobody THEN UNCHANGED <<cache, room>> ELSE Drop(m, cache[m])
    /\ UNCHANGED <<ownerVars, conVars, requests, proxy, guestVars>>

\* proxyRoom ends with its room, or when nothing was said for half an hour, ...
ProxyEnds(g, why) ==
    /\ proxy[g] = "run" /\ proxy' = [proxy EXCEPT ![g] = "remove"]
    /\ (why = "done") <=> (room[g] = "done")
    /\ UNCHANGED <<ownerVars, conVars, requests, cache, room, guestVars, queue, faults>>

\* Fault: the room is left to itself.
RemoveProxyRoomKeep(m, g) ==
    /\ proxy[g] = "remove" /\ reqId[g][1] = m /\ proxy' = [proxy EXCEPT ![g] = "end"]
    /\ cache' = [cache EXCEPT ![m] = Nobody] /\ UNCHANGED room
    /\ IF cache[m] = Nobody THEN Delivered(queue)
       ELSE Publish(queue, {Owner}, [event |-> "Leave"])
    /\ UNCHANGED <<ownerVars, conVars, requests, guestVars>>

\* ... and hands the room to the loop, which stops it and tells the owner, but only
\* if a room of the session, be it another one, is in remoteRoomCache.
RemoveProxyRoom(m, g) ==
    /\ proxy[g] = "remove" /\ reqId[g][1] = m /\ proxy' = [proxy EXCEPT ![g] = "end"]
    /\ IF cache[m] = Nobody
       THEN Delivered(queue) /\ UNCHANGED <<cache, room>>
       ELSE /\ Drop(m, g)
            /\ LET leave == [event |-> "Leave"]
               IN  Publish(queue, {Owner}, leave) \/ PublishErr(queue, {Owner}, leave)
    /\ UNCHANGED <<ownerVars, conVars, requests, guestVars>>

\* A room without connections ends at a tick, also when its asker, late, chose to
\* cancel although the answer was there.
In(g) == {h \in Guests : ask[h] = "in" /\ reply[h] = g}

ProxiedRoomEmpty(g) ==
    /\ room[g] = "live" /\ In(g) = {} /\ room' = [room EXCEPT ![g] = "done"]
    /\ UNCHANGED <<ownerVars, conVars, requests, cache, proxy, guestVars, queue, faults>>

\* External: a guest leaves, a subscriber misses a message while its connection to
\* redis is made anew.
GuestLeaves(g) ==
    /\ ask[g] = "in" /\ ask' = [ask EXCEPT ![g] = "gone"]
    /\ reply' = [reply EXCEPT ![g] = Nobody]
    /\ UNCHANGED <<ownerVars, conVars, remoteVars, reqId, queue, faults>>

Lose(m) ==
    /\ queue[m] # <<>> /\ Fault /\ queue' = Rest(m)
    /\ UNCHANGED <<ownerVars, conVars, remoteVars, guestVars>>
-----------------------------------------------------------------------------
Session == Add \/ Delete
OwnerLoop == RequestExit \/ EventJoin \/ EventLeave \/ CountTaken \/ CountDone
UserCon == ConSubscribe \/ ConTick \/ ConClosed
RemoteLoop(m) ==
    \/ ResultSuccess(m) \/ EventExit(m)
    \/ \E g \in Guests : GetJoin(m, g) \/ RemoveProxyRoom(m, g)

Next ==
    \/ Session \/ OwnerLoop \/ UserCon \/ RoomClosesCon \/ RoomEnds
    \/ \E m \in Managers : RemoteLoop(m)
    \/ \E m \in Loops : Lose(m)
    \/ \E g \in Guests : \/ GetNothing(g) \/ TakeReply(g) \/ Cancel(g) \/ GuestLeaves(g)
                         \/ \E m \in Reach[g] : GetAsks(m, g)
                         \/ ProxyEnds(g, "done") \/ ProxyEnds(g, "idle")
                         \/ ProxiedRoomEmpty(g)

Spec == Init /\ [][Next]_vars

(***************************************************************************)
(* Goroutines run, tickers tick and time passes.  Nothing here happens     *)
(* twice (guests ask once, every message is taken once), so no behaviour   *)
(* has infinitely many steps, and fairness of all the steps together is    *)
(* fairness of each.  That a proxy is idle in the end needs the guests of  *)
(* a session that is over to type nothing for half an hour.                *)
(***************************************************************************)
Fair ==
    \/ OwnerLoop \/ UserCon \/ RoomClosesCon \/ RoomEnds
    \/ \E m \in Managers : RemoteLoop(m)
    \/ \E g \in Guests : \/ TakeReply(g) \/ Cancel(g) \/ ProxyEnds(g, "done")
                         \/ session = "over" /\ ProxyEnds(g, "idle")

FairSpec == Spec /\ WF_vars(Fair)
-----------------------------------------------------------------------------
\* requestsMap and the askers agree: an entry's asker still waits for it, so that no
\* answer makes a room nobody asked for any more, and who waits has its entry, unless
\* another request of the same manager and second took its place under the same id.
RequestsMatchAskers ==
    \A g \in Guests :
        /\ \A id \in ReqIds : requests[id] = g =>
              ask[g] = "wait" /\ reply[g] = Nobody /\ reqId[g] = id
        /\ ask[g] = "wait" /\ reply[g] = Nobody =>
              requests[reqId[g]] = g \/ \E h \in Guests \ {g} : reqId[h] = reqId[g]

\* While the session lasts the owner's connection stays open for the rooms it serves,
\* whatever joins and leaves of how many managers are lost, late or fail: the count is
\* never too low.  It may be once a join was answered and not counted, by a connection
\* that had ended, or as the PUBLISH of the answer was executed but returned an error:
\* the Leave of that room then stands for one of the others.
CountedRoomsAreFed ==
    \A g \in Guests :
        ~ uncounted /\ room[g] = "live" /\ life = "open" /\ adding # <<1, reqId[g]>> =>
                con \in {"subscribe", "run"} /\ ~ conDone

\* Every Get returns, with a room or without, and so does the session's UnRegister,
\* unless the owner's loop waits for a connection whose Subscribe came after the room's
\* run had returned: nothing releases that loop.
LoopIsLost == adding # <<>> /\ con = "subscribe" /\ life = "ended"

Calling ==
    \/ \E g \in Guests : ask[g] \in {"asked", "wait"}
    \/ session = "exit" /\ ~ LoopIsLost

CallsReturn == Calling ~> ~ Calling

\* No room of a session that is over goes on for ever, told by Exit or not, unless its
\* manager made another one, which took its place in remoteRoomCache or its proxy's
\* turn to be found there: nobody stops it then.
LeftOn(g) ==
    room[g] = "live" /\ ~ (/\ proxy[g] = "end"
                          /\ \E h \in Guests \ {g} :
                                 room[h] # "none" /\ reqId[h][1] = reqId[g][1])

ProxiedRoomsEnd ==
    (session = "over" /\ \E g \in Guests : LeftOn(g)) ~> \A g \in Guests : ~ LeftOn(g)
=============================================================================
