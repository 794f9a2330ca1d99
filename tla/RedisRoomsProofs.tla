-------------------------- MODULE RedisRoomsProofs --------------------------
(* Theorems about RedisRooms, for any managers and guests and whatever is  *)
(* lost or fails.                                                          *)
EXTENDS RedisRooms, FiniteSetTheorems, TLAPS

-----------------------------------------------------------------------------
(* The invariant: RequestsMatchAskers, the types of what it speaks of, and     *)
(* that a guest has an id from its request on.                                 *)
AskTyped ==
    /\ requests \in [ReqIds -> Guests \cup {Nobody}]
    /\ cache \in [Managers -> Guests \cup {Nobody}]
    /\ queue \in [Loops -> Seq(Messages)]
    /\ ask \in [Guests -> {"out", "asked", "wait", "in", "gone"}]
    /\ reqId \in [Guests -> ReqIds \cup {<<>>}]
    /\ reply \in [Guests -> Guests \cup {Nobody, Error}]

AskersHaveIds ==
    \A g \in Guests : /\ ask[g] = "out" => reqId[g] = <<>>
                      /\ ask[g] \in {"asked", "wait", "in"} => reqId[g] \in ReqIds

UnaskedIsUnanswered == \A g \in Guests : ask[g] \in {"out", "asked"} => reply[g] = Nobody

\* The two halves of RequestsMatchAskers.
EntryHasAsker ==
    \A g \in Guests, id \in ReqIds : requests[id] = g =>
        ask[g] = "wait" /\ reply[g] = Nobody /\ reqId[g] = id

AskerHasEntry ==
    \A g \in Guests : ask[g] = "wait" /\ reply[g] = Nobody =>
        requests[reqId[g]] = g \/ \E h \in Guests \ {g} : reqId[h] = reqId[g]

AskInv ==
    AskTyped /\ AskersHaveIds /\ UnaskedIsUnanswered /\ EntryHasAsker /\ AskerHasEntry

\* The halves are RequestsMatchAskers.
LEMMA HalvesMatch == AskInv => RequestsMatchAskers
BY DEF AskInv, EntryHasAsker, AskerHasEntry, RequestsMatchAskers

\* Nobody asked yet.
LEMMA AskInit == Init => AskInv
<1> SUFFICES ASSUME Init PROVE AskInv
  OBVIOUS
<1>1. AskTyped
  BY DEF Init, AskTyped
<1>2. AskersHaveIds /\ UnaskedIsUnanswered /\ EntryHasAsker /\ AskerHasEntry
  BY ReplyAssumption DEF Init, AskersHaveIds, UnaskedIsUnanswered, EntryHasAsker, AskerHasEntry
<1> QED BY <1>1, <1>2 DEF AskInv

\* An id is a pair, unlike what stands for that of a guest without one.
LEMMA IdIsNotEmpty == <<>> \notin ReqIds
BY DEF ReqIds

-----------------------------------------------------------------------------
(* The queues.                                                             *)

\* The queue of a loop from which it takes a message, and the others with one
\* message more, hold messages.
LEMMA RestType ==
    ASSUME AskTyped, NEW m \in Loops, queue[m] # <<>>
    PROVE  Rest(m) \in [Loops -> Seq(Messages)] /\ Head(queue[m]) \in Messages
BY DEF AskTyped, Rest

\* Publishing, and a message that is only taken, leave queues of messages.
LEMMA PublishType ==
    ASSUME NEW rest \in [Loops -> Seq(Messages)], NEW to, NEW message \in Messages,
           queue' = Sent(rest, to, message)
    PROVE  queue' \in [Loops -> Seq(Messages)]
BY DEF Sent

\* The steps that leave requests, askers and rooms' names alone keep the invariant.
LEMMA OtherStep ==
    ASSUME AskInv, UNCHANGED <<requests, ask, reqId, reply>>,
           queue' \in [Loops -> Seq(Messages)], cache' \in [Managers -> Guests \cup {Nobody}]
    PROVE  AskInv'
<1>1. AskTyped'
  BY DEF AskInv, AskTyped
<1>2. AskersHaveIds' /\ UnaskedIsUnanswered' /\ EntryHasAsker' /\ AskerHasEntry'
  BY DEF AskInv, AskersHaveIds, UnaskedIsUnanswered, EntryHasAsker, AskerHasEntry
<1> QED BY <1>1, <1>2 DEF AskInv

-----------------------------------------------------------------------------
(* The steps of the owner.                                                 *)

\* The owner's connection, its loop and its room concern the queues only.
LEMMA OwnerStep ==
    ASSUME AskInv,
           Session \/ OwnerLoop \/ UserCon \/ RoomClosesCon \/ RoomEnds
    PROVE  AskInv'
<1>0. AskTyped /\ queue \in [Loops -> Seq(Messages)]
      /\ cache \in [Managers -> Guests \cup {Nobody}]
  BY DEF AskInv, AskTyped
<1>1. CASE Session
  <2>1. UNCHANGED <<requests, cache, ask, reqId, reply, queue>>
    BY <1>1 DEF Session, Add, Delete, remoteVars, guestVars
  <2> QED BY <1>0, <2>1, OtherStep
<1>2. CASE RequestExit
  <2>1. UNCHANGED <<requests, cache, ask, reqId, reply>>
    BY <1>2 DEF RequestExit, remoteVars, guestVars
  <2>2. [event |-> "Exit"] \in Messages
    BY DEF Messages
  <2>4. \E to : queue' = queue \/ queue' = Sent(queue, to, [event |-> "Exit"])
    BY <1>2 DEF RequestExit, Publish, PublishErr
  <2>3. queue' \in [Loops -> Seq(Messages)]
    BY <1>0, <2>2, <2>4, PublishType
  <2> QED BY <1>0, <2>1, <2>3, OtherStep
<1>3. CASE EventJoin
  <2> DEFINE id == Head(queue[Owner]).id
             success == [event |-> "JoinSuccess", id |-> id]
  <2>1. UNCHANGED <<requests, cache, ask, reqId, reply>>
    BY <1>3 DEF EventJoin, remoteVars, guestVars
  <2>2. Rest(Owner) \in [Loops -> Seq(Messages)] /\ Head(queue[Owner]) \in Messages
    BY <1>0, <1>3, RestType DEF EventJoin, Takes, Loops
  <2>3. Head(queue[Owner]).event = "Join"
    BY <1>3 DEF EventJoin, Takes
  <2>4. id \in ReqIds
    BY <2>2, <2>3 DEF Messages
  <2>5. success \in Messages
    BY <2>4 DEF Messages
  <2>6. queue' = Sent(Rest(Owner), {id[1]}, success) \/ queue' = Rest(Owner)
    BY <1>3 DEF EventJoin, Publish, PublishErr, Delivered
  <2>7. queue' \in [Loops -> Seq(Messages)]
    BY <2>2, <2>5, <2>6, PublishType
  <2> QED BY <1>0, <2>1, <2>7, OtherStep
<1>4. CASE EventLeave
  <2>1. UNCHANGED <<requests, cache, ask, reqId, reply>> /\ queue' = Rest(Owner)
    BY <1>4 DEF EventLeave, remoteVars, guestVars, Delivered
  <2>2. Rest(Owner) \in [Loops -> Seq(Messages)]
    BY <1>0, <1>4, RestType DEF EventLeave, Takes, Loops
  <2> QED BY <1>0, <2>1, <2>2, OtherStep
<1>5. CASE CountTaken \/ CountDone \/ UserCon \/ RoomClosesCon \/ RoomEnds
  <2>1. UNCHANGED <<requests, cache, ask, reqId, reply, queue>>
    BY <1>5 DEF CountTaken, CountDone, UserCon, ConSubscribe, ConTick, ConClosed, ConEnds,
                RoomClosesCon, RoomEnds, remoteVars, guestVars
  <2> QED BY <1>0, <2>1, OtherStep
<1> QED BY <1>1, <1>2, <1>3, <1>4, <1>5 DEF OwnerLoop

-----------------------------------------------------------------------------
(* The steps of the loops of the other managers.                           *)

\* A success takes its entry away, and the answer goes to the guest of that entry.
LEMMA SuccessStep ==
    ASSUME AskInv, NEW m \in Managers, ResultSuccess(m)
    PROVE  AskInv'
<1> DEFINE id == Head(queue[m]).id
           g == requests[id]
<1>0. AskTyped /\ m \in Loops
  BY DEF AskInv, Loops
<1>1. Rest(m) \in [Loops -> Seq(Messages)] /\ Head(queue[m]) \in Messages
  BY <1>0, RestType DEF ResultSuccess, Takes
<1>2. id \in ReqIds
  BY <1>1 DEF ResultSuccess, Takes, Messages
<1>3. /\ requests' = [requests EXCEPT ![id] = Nobody] /\ queue' = Rest(m)
      /\ UNCHANGED <<ask, reqId>>
      /\ \/ g = Nobody /\ UNCHANGED <<reply, cache>>
         \/ g # Nobody /\ reply' = [reply EXCEPT ![g] = Error] /\ UNCHANGED cache
         \/ g # Nobody /\ reply' = [reply EXCEPT ![g] = g] /\ cache' = [cache EXCEPT ![m] = g]
  BY DEF ResultSuccess, Delivered, MakeRoom
<1>4. g \in Guests \cup {Nobody}
  BY <1>0, <1>2 DEF AskTyped
<1> HIDE DEF id
<1>5. AskTyped'
  BY <1>0, <1>1, <1>3, <1>4 DEF AskTyped
<1>6. AskersHaveIds'
  BY <1>3 DEF AskInv, AskersHaveIds
<1>7. \A h \in Guests : h # g => reply'[h] = reply[h]
  BY <1>0, <1>3 DEF AskTyped
<1>8. g # Nobody => reply'[g] # Nobody /\ ask[g] = "wait" /\ reqId[g] = id
  BY <1>0, <1>2, <1>3, <1>4, ReplyAssumption DEF AskTyped, AskInv, EntryHasAsker
<1>9. EntryHasAsker'
  <2> SUFFICES ASSUME NEW h \in Guests, NEW i \in ReqIds, requests'[i] = h
               PROVE  ask'[h] = "wait" /\ reply'[h] = Nobody /\ reqId'[h] = i
    BY DEF EntryHasAsker
  <2>1. i # id /\ requests[i] = h
    BY <1>0, <1>2, <1>3, ReplyAssumption DEF AskTyped
  <2>2. ask[h] = "wait" /\ reply[h] = Nobody /\ reqId[h] = i
    BY <2>1 DEF AskInv, EntryHasAsker
  <2>3. h # g
    BY <1>8, <2>1, <2>2, ReplyAssumption
  <2> QED BY <1>3, <1>7, <2>2, <2>3
<1>10. AskerHasEntry'
  <2> SUFFICES ASSUME NEW h \in Guests, ask'[h] = "wait", reply'[h] = Nobody
               PROVE  requests'[reqId[h]] = h \/ \E k \in Guests \ {h} : reqId[k] = reqId[h]
    BY <1>3 DEF AskerHasEntry
  <2>1. h # g
    BY <1>8, ReplyAssumption
  <2>2. requests[reqId[h]] = h \/ \E k \in Guests \ {h} : reqId[k] = reqId[h]
    BY <1>3, <1>7, <2>1 DEF AskInv, AskerHasEntry
  <2>3. reqId[h] \in ReqIds
    BY <1>3 DEF AskInv, AskersHaveIds
  <2>4. CASE reqId[h] # id
    BY <1>0, <1>2, <1>3, <2>2, <2>3, <2>4 DEF AskTyped
  <2>5. CASE reqId[h] = id
    <3>1. requests[reqId[h]] # h
      BY <2>1, <2>5
    <3> QED BY <2>2, <3>1
  <2> QED BY <2>4, <2>5
<1>11. UnaskedIsUnanswered'
  BY <1>3, <1>7, <1>8, <1>4 DEF AskInv, UnaskedIsUnanswered
<1> QED BY <1>5, <1>6, <1>9, <1>10, <1>11 DEF AskInv

\* Taking a room out of the cache leaves those who ask alone.
LEMMA DropStep ==
    ASSUME AskInv, NEW m \in Managers,
           EventExit(m) \/ \E g \in Guests : RemoveProxyRoom(m, g)
    PROVE  AskInv'
<1>0. AskTyped /\ m \in Loops /\ queue \in [Loops -> Seq(Messages)]
      /\ cache \in [Managers -> Guests \cup {Nobody}]
  BY DEF AskInv, AskTyped, Loops
<1>1. CASE EventExit(m)
  <2>1. UNCHANGED <<requests, ask, reqId, reply>> /\ queue' = Rest(m)
        /\ (cache' = cache \/ cache' = [cache EXCEPT ![m] = Nobody])
    BY <1>1 DEF EventExit, guestVars, Delivered, Drop
  <2>2. Rest(m) \in [Loops -> Seq(Messages)]
    BY <1>0, <1>1, RestType DEF EventExit, Takes
  <2>3. cache' \in [Managers -> Guests \cup {Nobody}]
    BY <1>0, <2>1
  <2> QED BY <2>1, <2>2, <2>3, OtherStep
<1>2. ASSUME NEW g \in Guests, RemoveProxyRoom(m, g) PROVE AskInv'
  <2>1. UNCHANGED <<requests, ask, reqId, reply>>
        /\ (cache' = cache \/ cache' = [cache EXCEPT ![m] = Nobody])
        /\ (queue' = queue \/ queue' = Sent(queue, {Owner}, [event |-> "Leave"]))
    BY <1>2 DEF RemoveProxyRoom, guestVars, Delivered, Drop, Publish, PublishErr
  <2>2. [event |-> "Leave"] \in Messages
    BY DEF Messages
  <2>3. queue' \in [Loops -> Seq(Messages)]
    BY <1>0, <2>1, <2>2, PublishType
  <2>4. cache' \in [Managers -> Guests \cup {Nobody}]
    BY <1>0, <2>1
  <2> QED BY <2>1, <2>3, <2>4, OtherStep
<1> QED BY <1>1, <1>2

-----------------------------------------------------------------------------
(* The steps of the guests.                                                *)

\* A guest that stops waiting with no answer left, and nothing pending under its name,
\* is out of the matter.
LEMMA GuestStops ==
    ASSUME AskInv, NEW g \in Guests, UNCHANGED <<queue, cache, reqId>>,
           NEW a \in {"in", "gone"}, ask' = [ask EXCEPT ![g] = a], a = "in" => ask[g] = "wait",
           NEW r \in Guests \cup {Nobody, Error}, reply' = [reply EXCEPT ![g] = r],
           requests' \in {requests, [requests EXCEPT ![reqId[g]] = Nobody]},
           \A id \in ReqIds : requests'[id] # g
    PROVE  AskInv'
<1>0. AskTyped
  BY DEF AskInv
<1>1. AskTyped'
  BY <1>0 DEF AskTyped
<1>2. AskersHaveIds'
  <2> SUFFICES ASSUME NEW h \in Guests
               PROVE  /\ ask'[h] = "out" => reqId[h] = <<>>
                      /\ ask'[h] \in {"asked", "wait", "in"} => reqId[h] \in ReqIds
    BY DEF AskersHaveIds
  <2>1. CASE h # g
    BY <1>0, <2>1 DEF AskTyped, AskInv, AskersHaveIds
  <2>2. CASE h = g
    BY <1>0, <2>2 DEF AskTyped, AskInv, AskersHaveIds
  <2> QED BY <2>1, <2>2
<1>3. ASSUME NEW id \in ReqIds PROVE requests'[id] \in {requests[id], Nobody}
  BY <1>0, <1>3, ReplyAssumption DEF AskTyped
<1>4. EntryHasAsker'
  <2> SUFFICES ASSUME NEW h \in Guests, NEW id \in ReqIds, requests'[id] = h
               PROVE  ask'[h] = "wait" /\ reply'[h] = Nobody /\ reqId[h] = id
    BY DEF EntryHasAsker
  <2>1. h # g /\ requests[id] = h
    BY <1>3, ReplyAssumption
  <2> QED BY <1>0, <2>1 DEF AskTyped, AskInv, EntryHasAsker
<1>5. AskerHasEntry'
  <2> SUFFICES ASSUME NEW h \in Guests, ask'[h] = "wait", reply'[h] = Nobody
               PROVE  requests'[reqId[h]] = h \/ \E k \in Guests \ {h} : reqId[k] = reqId[h]
    BY DEF AskerHasEntry
  <2>1. h # g /\ ask[h] = "wait" /\ reply[h] = Nobody
    BY <1>0 DEF AskTyped
  <2>2. requests[reqId[h]] = h \/ \E k \in Guests \ {h} : reqId[k] = reqId[h]
    BY <2>1 DEF AskInv, AskerHasEntry
  <2>3. reqId[h] \in ReqIds
    BY <2>1 DEF AskInv, AskersHaveIds
  <2>4. CASE reqId[h] = reqId[g]
    BY <2>1, <2>4
  <2>5. CASE reqId[h] # reqId[g]
    BY <1>0, <2>2, <2>3, <2>5 DEF AskTyped
  <2> QED BY <2>4, <2>5
<1>6. UnaskedIsUnanswered'
  BY <1>0 DEF AskTyped, AskInv, UnaskedIsUnanswered
<1> QED BY <1>1, <1>2, <1>4, <1>5, <1>6 DEF AskInv

\* A guest asks, under an id that may have been another one's.
LEMMA GetAsksStep ==
    ASSUME AskInv, NEW g \in Guests, NEW m \in Reach[g], GetAsks(m, g)
    PROVE  AskInv'
<1> DEFINE others == {reqId[h] : h \in {i \in Guests : ask[i] \in {"asked", "wait", "in"}
                                                      /\ reqId[i][1] = m}}
<1>0. AskTyped /\ m \in Managers
  BY ReachAssumption DEF AskInv, AskTyped
<1>1. /\ ask[g] = "out" /\ ask' = [ask EXCEPT ![g] = "asked"]
      /\ UNCHANGED <<requests, cache, reply, queue>>
      /\ reqId[g] = <<>> /\ \A id \in ReqIds : requests[id] # g
  BY DEF GetAsks, remoteVars, AskInv, AskersHaveIds, EntryHasAsker
<1>2. <<m, g>> \in ReqIds /\ others \subseteq ReqIds
  <2>1. \A h \in Guests : ask[h] \in {"asked", "wait", "in"} => reqId[h] \in ReqIds
    BY DEF AskInv, AskersHaveIds
  <2> QED BY <1>0, <2>1 DEF ReqIds
<1>3. PICK id \in {<<m, g>>} \cup others : reqId' = [reqId EXCEPT ![g] = id]
  BY DEF GetAsks
<1>4. id \in ReqIds
  BY <1>2, <1>3
<1> HIDE DEF others
<1>5. AskTyped'
  BY <1>0, <1>1, <1>3, <1>4 DEF AskTyped
<1>6. \A h \in Guests \ {g} : ask'[h] = ask[h] /\ reqId'[h] = reqId[h]
  BY <1>0, <1>1, <1>3 DEF AskTyped
<1>7. ask'[g] = "asked" /\ reqId'[g] = id
  BY <1>0, <1>1, <1>3 DEF AskTyped
<1>8. AskersHaveIds' /\ UnaskedIsUnanswered'
  BY <1>1, <1>4, <1>6, <1>7 DEF AskInv, AskersHaveIds, UnaskedIsUnanswered
<1>9. EntryHasAsker'
  BY <1>1, <1>6 DEF AskInv, EntryHasAsker
<1>10. AskerHasEntry'
  <2> SUFFICES ASSUME NEW h \in Guests, ask'[h] = "wait", reply'[h] = Nobody
               PROVE  requests'[reqId'[h]] = h \/ \E k \in Guests \ {h} : reqId'[k] = reqId'[h]
    BY DEF AskerHasEntry
  <2>1. h # g
    BY <1>7
  <2>2. ask[h] = "wait" /\ reply[h] = Nobody /\ reqId'[h] = reqId[h] /\ reqId[h] \in ReqIds
    BY <1>1, <1>6, <2>1 DEF AskInv, AskersHaveIds
  <2>3. requests[reqId[h]] = h \/ \E k \in Guests \ {h} : reqId[k] = reqId[h]
    BY <2>2 DEF AskInv, AskerHasEntry
  <2>4. ASSUME NEW k \in Guests \ {h}, reqId[k] = reqId[h]
        PROVE  \E j \in Guests \ {h} : reqId'[j] = reqId'[h]
    <3>1. k # g
      BY <1>1, <2>2, <2>4, IdIsNotEmpty
    <3> QED BY <1>6, <2>2, <2>4, <3>1
  <2> QED BY <1>1, <2>2, <2>3, <2>4
<1> QED BY <1>5, <1>8, <1>9, <1>10 DEF AskInv

\* The loop takes its request: it is answered at once, or waits with the entry of its id.
LEMMA GetJoinStep ==
    ASSUME AskInv, NEW g \in Guests, NEW m \in Managers, GetJoin(m, g)
    PROVE  AskInv'
<1> DEFINE id == reqId[g]
<1>0. AskTyped /\ queue \in [Loops -> Seq(Messages)]
  BY DEF AskInv, AskTyped
<1>1. /\ ask[g] = "asked" /\ ask' = [ask EXCEPT ![g] = "wait"] /\ UNCHANGED <<cache, reqId>>
      /\ id \in ReqIds
  BY DEF GetJoin, AskInv, AskersHaveIds
<1>3. /\ \/ /\ \E r \in Guests \cup {Error} : reply' = [reply EXCEPT ![g] = r]
            /\ requests' = requests
         \/ requests' = [requests EXCEPT ![id] = g] /\ reply' = reply
      /\ \/ queue' = queue
         \/ queue' = Sent(queue, {Owner}, [event |-> "Join", id |-> id])
  <2>1. cache[m] \in Guests \cup {Nobody}
    BY <1>0 DEF AskTyped
  <2> QED BY <2>1 DEF GetJoin, Delivered, Publish, PublishErr
<1>2. \A i \in ReqIds : requests[i] # g
  BY <1>1 DEF AskInv, EntryHasAsker
<1>4. id \in ReqIds
  BY <1>1
<1> HIDE DEF id
<1>5. queue' \in [Loops -> Seq(Messages)]
  <2>1. [event |-> "Join", id |-> id] \in Messages
    BY <1>4 DEF Messages
  <2> QED BY <1>0, <1>3, <2>1, PublishType
<1>6. AskTyped'
  BY <1>0, <1>1, <1>3, <1>4, <1>5 DEF AskTyped
<1>7. \A h \in Guests \ {g} : ask'[h] = ask[h] /\ reqId'[h] = reqId[h] /\ reply'[h] = reply[h]
  BY <1>0, <1>1, <1>3 DEF AskTyped
<1>8. ask'[g] = "wait" /\ reqId'[g] = id
  BY <1>0, <1>1 DEF AskTyped, id
<1>9. AskersHaveIds'
  BY <1>4, <1>7, <1>8 DEF AskInv, AskersHaveIds
<1>10. EntryHasAsker'
  <2> SUFFICES ASSUME NEW h \in Guests, NEW i \in ReqIds, requests'[i] = h
               PROVE  ask'[h] = "wait" /\ reply'[h] = Nobody /\ reqId'[h] = i
    BY DEF EntryHasAsker
  <2>1. CASE h # g
    <3>1. requests[i] = h
      BY <1>0, <1>3, <1>4, <2>1 DEF AskTyped
    <3> QED BY <1>7, <2>1, <3>1 DEF AskInv, EntryHasAsker
  <2>2. CASE h = g
    <3>1. i = id /\ reply' = reply
      BY <1>0, <1>2, <1>3, <1>4, <2>2 DEF AskTyped
    <3>2. reply[g] = Nobody
      BY <1>1 DEF AskInv, UnaskedIsUnanswered
    <3> QED BY <1>8, <2>2, <3>1, <3>2
  <2> QED BY <2>1, <2>2
<1>11. AskerHasEntry'
  <2> SUFFICES ASSUME NEW h \in Guests, ask'[h] = "wait", reply'[h] = Nobody
               PROVE  requests'[reqId'[h]] = h \/ \E k \in Guests \ {h} : reqId'[k] = reqId'[h]
    BY DEF AskerHasEntry
  <2>1. CASE h # g
    <3>1. ask[h] = "wait" /\ reply[h] = Nobody /\ reqId'[h] = reqId[h] /\ reqId[h] \in ReqIds
      BY <1>7, <2>1 DEF AskInv, AskersHaveIds
    <3>2. requests[reqId[h]] = h \/ \E k \in Guests \ {h} : reqId[k] = reqId[h]
      BY <3>1 DEF AskInv, AskerHasEntry
    <3>3. CASE reqId[h] = id
      BY <1>8, <2>1, <3>1, <3>3
    <3>4. CASE reqId[h] # id /\ requests[reqId[h]] = h
      BY <1>0, <1>3, <1>4, <3>1, <3>4 DEF AskTyped
    <3>5. ASSUME NEW k \in Guests \ {h}, reqId[k] = reqId[h]
          PROVE  \E j \in Guests \ {h} : reqId'[j] = reqId'[h]
      BY <1>1, <3>5
    <3> QED BY <3>2, <3>3, <3>4, <3>5
  <2>2. CASE h = g
    <3>1. ASSUME NEW r \in Guests \cup {Error}, reply' = [reply EXCEPT ![g] = r]
          PROVE  FALSE
      BY <1>0, <2>2, <3>1, ReplyAssumption DEF AskTyped
    <3>2. requests' = [requests EXCEPT ![id] = g]
      BY <1>3, <3>1
    <3> QED BY <1>0, <1>4, <1>8, <2>2, <3>2 DEF AskTyped
  <2> QED BY <2>1, <2>2
<1>12. UnaskedIsUnanswered'
  BY <1>7, <1>8 DEF AskInv, UnaskedIsUnanswered
<1> QED BY <1>6, <1>9, <1>10, <1>11, <1>12 DEF AskInv

\* The other steps of a guest: it is told there is no room, takes its answer, gives up
\* after ten seconds or leaves its room; and those of its room and the room's proxy.
LEMMA GuestStep ==
    ASSUME AskInv, NEW g \in Guests,
           \/ GetNothing(g) \/ TakeReply(g) \/ Cancel(g) \/ GuestLeaves(g)
           \/ ProxyEnds(g, "done") \/ ProxyEnds(g, "idle") \/ ProxiedRoomEmpty(g)
    PROVE  AskInv'
<1>0. AskTyped /\ queue \in [Loops -> Seq(Messages)]
      /\ cache \in [Managers -> Guests \cup {Nobody}] /\ reply[g] \in Guests \cup {Nobody, Error}
  BY DEF AskInv, AskTyped
<1>1. \A id \in ReqIds : requests[id] # g \/ (ask[g] = "wait" /\ id = reqId[g])
  BY DEF AskInv, EntryHasAsker
<1>2. ask[g] # "wait" \/ reply[g] # Nobody => \A id \in ReqIds : requests[id] # g
  BY DEF AskInv, EntryHasAsker
<1>3. CASE GetNothing(g)
  <2>1. /\ ask[g] = "out" /\ ask' = [ask EXCEPT ![g] = "gone"]
        /\ UNCHANGED <<requests, cache, reqId, reply, queue>>
    BY <1>3 DEF GetNothing, remoteVars
  <2>2. reply' = [reply EXCEPT ![g] = reply[g]]
    BY <1>0, <2>1 DEF AskTyped
  <2>3. \A id \in ReqIds : requests'[id] # g
    BY <1>2, <2>1
  <2> QED BY <1>0, <2>1, <2>2, <2>3, GuestStops
<1>4. CASE TakeReply(g)
  <2>1. /\ ask[g] = "wait" /\ reply[g] # Nobody
        /\ UNCHANGED <<requests, cache, reqId, queue>>
    BY <1>4 DEF TakeReply, remoteVars
  <2>2. PICK a \in {"in", "gone"} : ask' = [ask EXCEPT ![g] = a]
    BY <1>4 DEF TakeReply
  <2>3. PICK r \in Guests \cup {Nobody, Error} : reply' = [reply EXCEPT ![g] = r]
    BY <1>0, <1>4 DEF TakeReply
  <2>4. \A id \in ReqIds : requests'[id] # g
    BY <1>2, <2>1
  <2> QED BY <2>1, <2>2, <2>3, <2>4, GuestStops
<1>5. CASE Cancel(g)
  <2>1. /\ ask[g] = "wait" /\ ask' = [ask EXCEPT ![g] = "gone"]
        /\ requests' = [requests EXCEPT ![reqId[g]] = Nobody]
        /\ reply' = [reply EXCEPT ![g] = Nobody] /\ UNCHANGED <<cache, reqId, queue>>
    BY <1>5 DEF Cancel
  <2>2. \A id \in ReqIds : requests'[id] # g
    BY <1>0, <1>1, <2>1, ReplyAssumption DEF AskTyped
  <2> QED BY <2>1, <2>2, GuestStops
<1>6. CASE GuestLeaves(g)
  <2>1. /\ ask[g] = "in" /\ ask' = [ask EXCEPT ![g] = "gone"]
        /\ reply' = [reply EXCEPT ![g] = Nobody] /\ UNCHANGED <<requests, cache, reqId, queue>>
    BY <1>6 DEF GuestLeaves, remoteVars
  <2>2. \A id \in ReqIds : requests'[id] # g
    BY <1>2, <2>1
  <2> QED BY <2>1, <2>2, GuestStops
<1>7. CASE ProxyEnds(g, "done") \/ ProxyEnds(g, "idle") \/ ProxiedRoomEmpty(g)
  <2>1. UNCHANGED <<requests, cache, ask, reqId, reply, queue>>
    BY <1>7 DEF ProxyEnds, ProxiedRoomEmpty, guestVars
  <2> QED BY <1>0, <2>1, OtherStep
<1> QED BY <1>3, <1>4, <1>5, <1>6, <1>7

\* A message that is lost is taken by nobody.
LEMMA LoseStep ==
    ASSUME AskInv, NEW m \in Loops, Lose(m)
    PROVE  AskInv'
<1>0. AskTyped /\ cache \in [Managers -> Guests \cup {Nobody}]
  BY DEF AskInv, AskTyped
<1>1. UNCHANGED <<requests, cache, ask, reqId, reply>> /\ queue' = Rest(m)
  BY DEF Lose, remoteVars, guestVars
<1>2. Rest(m) \in [Loops -> Seq(Messages)]
  BY <1>0, RestType DEF Lose
<1> QED BY <1>0, <1>1, <1>2, OtherStep

\* Every step keeps the invariant.
LEMMA AskStep == AskInv /\ [Next]_vars => AskInv'
<1> SUFFICES ASSUME AskInv, [Next]_vars PROVE AskInv'
  OBVIOUS
<1>1. CASE UNCHANGED vars
  <2>1. UNCHANGED <<requests, cache, ask, reqId, reply, queue>>
    BY <1>1 DEF vars, remoteVars, guestVars
  <2> QED BY <2>1, OtherStep DEF AskInv, AskTyped
<1>2. CASE \E m \in Managers : RemoteLoop(m)
  BY <1>2, SuccessStep, DropStep, GetJoinStep DEF RemoteLoop
<1> QED BY <1>1, <1>2, OwnerStep, LoseStep, GuestStep, GetAsksStep DEF Next

-----------------------------------------------------------------------------
\* Whatever ids coincide and whatever is lost, late or cancelled, an entry of requestsMap
\* (redis.go:341) has an asker that still waits for it, so that a JoinSuccess makes no
\* room nobody asked for any more; and who waits has its entry, unless a request of the
\* same manager and second took the id.
THEOREM AskersAreAnsweredOnce == Spec => []RequestsMatchAskers
<1>1. Spec => []AskInv
  BY AskInit, AskStep, PTL DEF Spec
<1> QED BY <1>1, HalvesMatch, PTL

-----------------------------------------------------------------------------
(* Claims on the count.  A claim is a room that has not said Leave, a      *)
(* success on its way that may still make one, or a Leave that is still to *)
(* be taken off.                                                           *)
IsClaim(message) == message.event \in {"JoinSuccess", "Leave"}

Claims(queues) ==
    {x \in Loops \X Nat : x[2] \in 1..Len(queues[x[1]]) /\ IsClaim(queues[x[1]][x[2]])}

RoomClaims == {g \in Guests : room[g] # "none" /\ ~ (room[g] = "done" /\ proxy[g] = "end")}

\* The message at the head of a queue goes, and its claim with it.
LEMMA ClaimTaken ==
    ASSUME NEW q \in [Loops -> Seq(Messages)], NEW m \in Loops, q[m] # <<>>,
           IsFiniteSet(Claims(q)), NEW r, r = [q EXCEPT ![m] = Tail(@)]
    PROVE  /\ IsFiniteSet(Claims(r)) /\ Cardinality(Claims(q)) \in Nat /\ Cardinality(Claims(r)) \in Nat
           /\ Cardinality(Claims(r)) <= Cardinality(Claims(q))
           /\ IsClaim(Head(q[m])) => Cardinality(Claims(r)) + 1 <= Cardinality(Claims(q))
<1> DEFINE first == <<m, 1>>
           rest == Claims(q) \ {first}
           f == [x \in Claims(r) |-> IF x[1] = m THEN <<m, x[2] + 1>> ELSE x]
<1>1. /\ Len(q[m]) \in Nat /\ Len(q[m]) > 0 /\ Len(r[m]) = Len(q[m]) - 1
      /\ \A i \in 1..Len(r[m]) : r[m][i] = q[m][i + 1]
      /\ Head(q[m]) = q[m][1]
  <2>1. q[m] \in Seq(Messages) /\ r[m] = Tail(q[m])
    OBVIOUS
  <2> QED BY <2>1
<1>2. \A k \in Loops \ {m} : r[k] = q[k]
  OBVIOUS
<1>3. ASSUME NEW x \in Claims(r)
      PROVE  f[x] \in rest
  <2>1. x \in Loops \X Nat /\ x[2] \in 1..Len(r[x[1]]) /\ IsClaim(r[x[1]][x[2]])
    BY DEF Claims
  <2>2. CASE x[1] = m
    <3>1. x[2] + 1 \in 1..Len(q[m]) /\ x[2] + 1 # 1 /\ q[m][x[2] + 1] = r[m][x[2]]
      BY <1>1, <2>1, <2>2
    <3>2. <<m, x[2] + 1>> \in Claims(q)
      BY <2>1, <2>2, <3>1 DEF Claims
    <3> QED BY <2>2, <3>1, <3>2
  <2>3. CASE x[1] # m
    <3>1. x[1] \in Loops \ {m}
      BY <2>1, <2>3
    <3>2. x \in Claims(q)
      BY <1>2, <2>1, <3>1 DEF Claims
    <3> QED BY <2>3, <3>2
  <2> QED BY <2>2, <2>3
<1>4. ASSUME NEW x \in Claims(r), NEW y \in Claims(r), f[x] = f[y]
      PROVE  x = y
  <2>1. x \in Loops \X Nat /\ y \in Loops \X Nat
    BY DEF Claims
  <2>2. f[x][1] = x[1] /\ f[y][1] = y[1]
    OBVIOUS
  <2>3. x[1] = y[1]
    BY <1>4, <2>2
  <2>4. x[2] = y[2]
    <3>1. CASE x[1] = m
      BY <1>4, <2>1, <2>3, <3>1
    <3>2. CASE x[1] # m
      BY <1>4, <2>1, <2>3, <3>2
    <3> QED BY <3>1, <3>2
  <2> QED BY <2>1, <2>3, <2>4
<1>5. f \in Injection(Claims(r), rest)
  <2> HIDE DEF rest
  <2> QED BY <1>3, <1>4 DEF Injection, IsInjective
<1>6. /\ IsFiniteSet(rest) /\ Cardinality(rest) \in Nat /\ Cardinality(Claims(q)) \in Nat
      /\ Cardinality(rest) = IF first \in Claims(q) THEN Cardinality(Claims(q)) - 1
                             ELSE Cardinality(Claims(q))
  BY FS_RemoveElement, FS_CardinalityType
<1>7. IsFiniteSet(Claims(r)) /\ Cardinality(Claims(r)) <= Cardinality(rest)
  <2> HIDE DEF rest, f
  <2> QED BY <1>5, <1>6, FS_Injection
<1>8. Cardinality(Claims(r)) \in Nat
  BY <1>7, FS_CardinalityType
<1>9. IsClaim(Head(q[m])) => first \in Claims(q)
  BY <1>1 DEF Claims
<1> QED BY <1>6, <1>7, <1>8, <1>9

\* A message that is published to one loop makes one claim more, ...
LEMMA ClaimPublished ==
    ASSUME NEW q \in [Loops -> Seq(Messages)], NEW k \in Loops, NEW message \in Messages,
           IsFiniteSet(Claims(q)), NEW r,
           r[k] = Append(q[k], message), \A m \in Loops \ {k} : r[m] = q[m]
    PROVE  /\ IsFiniteSet(Claims(r)) /\ Cardinality(Claims(r)) \in Nat /\ Cardinality(Claims(q)) \in Nat
           /\ Cardinality(Claims(r)) <= Cardinality(Claims(q)) + 1
<1>1. Len(q[k]) \in Nat /\ Len(r[k]) = Len(q[k]) + 1 /\ \A i \in 1..Len(q[k]) : r[k][i] = q[k][i]
  <2>1. q[k] \in Seq(Messages) /\ r[k] = Append(q[k], message)
    OBVIOUS
  <2> QED BY <2>1
<1> DEFINE last == <<k, Len(q[k]) + 1>>
           more == Claims(q) \cup {last}
<1>2. ASSUME NEW x \in Claims(r)
      PROVE  x \in more
  <2>1. x \in Loops \X Nat /\ x[2] \in 1..Len(r[x[1]]) /\ IsClaim(r[x[1]][x[2]])
    BY DEF Claims
  <2>2. CASE x[1] = k /\ x[2] \notin 1..Len(q[k])
    <3>1. x[2] = Len(q[k]) + 1
      BY <1>1, <2>1, <2>2
    <3> QED BY <2>1, <2>2, <3>1
  <2>3. CASE x[1] = k /\ x[2] \in 1..Len(q[k])
    BY <1>1, <2>1, <2>3 DEF Claims
  <2>4. CASE x[1] # k
    <3>1. r[x[1]] = q[x[1]]
      BY <2>1, <2>4
    <3> QED BY <2>1, <3>1 DEF Claims
  <2> QED BY <2>2, <2>3, <2>4
<1>3. /\ IsFiniteSet(more) /\ Cardinality(Claims(q)) \in Nat
      /\ Cardinality(more) \in {Cardinality(Claims(q)), Cardinality(Claims(q)) + 1}
  BY FS_AddElement, FS_CardinalityType
<1>4. IsFiniteSet(Claims(r)) /\ Cardinality(Claims(r)) <= Cardinality(more)
  <2> HIDE DEF more
  <2>1. Claims(r) \in SUBSET more
    BY <1>2
  <2> QED BY <1>3, <2>1, FS_Subset
<1>5. Cardinality(Claims(r)) \in Nat
  BY <1>4, FS_CardinalityType
<1> QED BY <1>3, <1>4, <1>5

\* ... and none if it is no claim.
LEMMA NothingClaimed ==
    ASSUME NEW q \in [Loops -> Seq(Messages)], NEW r, NEW message \in Messages, ~ IsClaim(message),
           \A m \in Loops : r[m] \in {q[m], Append(q[m], message)}
    PROVE  Claims(r) = Claims(q)
<1>1. ASSUME NEW m \in Loops
      PROVE  /\ Len(q[m]) \in Nat /\ Len(r[m]) \in {Len(q[m]), Len(q[m]) + 1}
             /\ \A i \in 1..Len(q[m]) : r[m][i] = q[m][i]
             /\ Len(r[m]) # Len(q[m]) => r[m][Len(q[m]) + 1] = message
  <2>1. q[m] \in Seq(Messages)
    OBVIOUS
  <2>2. CASE r[m] = Append(q[m], message)
    BY <2>1, <2>2
  <2>3. CASE r[m] = q[m]
    BY <2>1, <2>3
  <2> QED BY <2>2, <2>3
<1>2. ASSUME NEW x \in Claims(r)
      PROVE  x \in Claims(q)
  <2>1. x \in Loops \X Nat /\ x[2] \in 1..Len(r[x[1]]) /\ IsClaim(r[x[1]][x[2]])
    BY DEF Claims
  <2>2. x[2] \in 1..Len(q[x[1]])
    BY <1>1, <2>1
  <2> QED BY <1>1, <2>1, <2>2 DEF Claims
<1>3. Claims(q) \subseteq Claims(r)
  BY <1>1 DEF Claims
<1> QED BY <1>2, <1>3

-----------------------------------------------------------------------------
(* Successes on their way.                                                 *)
Successes(queues) ==
    {y \in Loops \X ReqIds : \E i \in 1..Len(queues[y[1]]) :
        queues[y[1]][i].event = "JoinSuccess" /\ queues[y[1]][i].id = y[2]}

\* The success that a loop takes was on its way, and none comes up when one is taken.
LEMMA SuccessTaken ==
    ASSUME NEW q \in [Loops -> Seq(Messages)], NEW m \in Loops, q[m] # <<>>,
           NEW r, r = [q EXCEPT ![m] = Tail(@)]
    PROVE  /\ Successes(r) \subseteq Successes(q)
           /\ Head(q[m]).event = "JoinSuccess" =>
                 Head(q[m]).id \in ReqIds /\ <<m, Head(q[m]).id>> \in Successes(q)
<1>1. /\ Len(q[m]) \in Nat /\ Len(q[m]) > 0 /\ Len(r[m]) = Len(q[m]) - 1
      /\ \A i \in 1..Len(r[m]) : r[m][i] = q[m][i + 1]
      /\ Head(q[m]) = q[m][1] /\ Head(q[m]) \in Messages
  <2>1. q[m] \in Seq(Messages) /\ r[m] = Tail(q[m])
    OBVIOUS
  <2> QED BY <2>1
<1>2. ASSUME NEW y \in Successes(r)
      PROVE  y \in Successes(q)
  <2>1. y \in Loops \X ReqIds
    BY DEF Successes
  <2>2. PICK i \in 1..Len(r[y[1]]) :
            r[y[1]][i].event = "JoinSuccess" /\ r[y[1]][i].id = y[2]
    BY DEF Successes
  <2>3. CASE y[1] = m
    <3>1. i + 1 \in 1..Len(q[m]) /\ q[m][i + 1] = r[m][i]
      BY <1>1, <2>2, <2>3
    <3> QED BY <2>1, <2>2, <2>3, <3>1 DEF Successes
  <2>4. CASE y[1] # m
    <3>1. r[y[1]] = q[y[1]]
      BY <2>1, <2>4
    <3> QED BY <2>1, <2>2, <3>1 DEF Successes
  <2> QED BY <2>3, <2>4
<1>3. ASSUME Head(q[m]).event = "JoinSuccess"
      PROVE  Head(q[m]).id \in ReqIds /\ <<m, Head(q[m]).id>> \in Successes(q)
  <2>1. Head(q[m]).id \in ReqIds
    BY <1>1, <1>3 DEF Messages
  <2>2. 1 \in 1..Len(q[m])
    BY <1>1
  <2> DEFINE y == <<m, Head(q[m]).id>>
  <2>3. y \in Loops \X ReqIds /\ y[1] = m /\ y[2] = q[m][1].id /\ q[m][1].event = "JoinSuccess"
    BY <1>1, <1>3, <2>1
  <2>4. y \in Successes(q)
    <3> HIDE DEF y
    <3> QED BY <2>2, <2>3 DEF Successes
  <2> QED BY <2>1, <2>4
<1> QED BY <1>2, <1>3

\* What is published is the only success that comes up.
LEMMA SuccessPublished ==
    ASSUME NEW q \in [Loops -> Seq(Messages)], NEW r, NEW message \in Messages,
           \A m \in Loops : r[m] \in {q[m], Append(q[m], message)},
           NEW y \in Successes(r), y \notin Successes(q)
    PROVE  message.event = "JoinSuccess" /\ y[2] = message.id /\ y[1] \in Loops /\ r[y[1]] # q[y[1]]
<1>1. y \in Loops \X ReqIds
  BY DEF Successes
<1>2. PICK i \in 1..Len(r[y[1]]) :
          r[y[1]][i].event = "JoinSuccess" /\ r[y[1]][i].id = y[2]
  BY DEF Successes
<1> DEFINE x == q[y[1]]
<1>3. x \in Seq(Messages) /\ Len(x) \in Nat /\ r[y[1]] \in {x, Append(x, message)}
  BY <1>1
<1>4. i \notin 1..Len(x) \/ r[y[1]][i] # x[i]
  BY <1>1, <1>2 DEF Successes
<1> HIDE DEF x
<1>5. r[y[1]] # x /\ r[y[1]] = Append(x, message)
  BY <1>2, <1>3, <1>4
<1>6. r[y[1]][i] = message
  <2>1. /\ Len(Append(x, message)) = Len(x) + 1 /\ Append(x, message)[Len(x) + 1] = message
        /\ \A j \in 1..Len(x) : Append(x, message)[j] = x[j]
    BY <1>3
  <2>2. i \in 1..Len(x) + 1 /\ i \notin 1..Len(x)
    BY <1>2, <1>3, <1>4, <1>5, <2>1
  <2>3. i = Len(x) + 1
    BY <1>3, <2>2
  <2> QED BY <1>3, <1>5, <2>1, <2>3
<1> QED BY <1>1, <1>2, <1>5, <1>6 DEF x

-----------------------------------------------------------------------------
(* The invariant of the rooms: what TypeOK says of them, who may have one, *)
(* and that a success is on its way to the manager that its id names.      *)
RoomsTyped ==
    /\ room \in [Guests -> {"none", "live", "done"}]
    /\ proxy \in [Guests -> {"none", "run", "remove", "end"}]
    /\ \A g \in Guests : room[g] = "none" <=> proxy[g] = "none"

RoomsWereAsked ==
    \A g \in Guests : room[g] # "none" =>
        ask[g] \notin {"out", "asked"} /\ (ask[g] = "wait" => reply[g] # Nobody)

CachedAreRooms ==
    \A m \in Managers : cache[m] # Nobody => room[cache[m]] # "none" /\ reqId[cache[m]][1] = m

SuccessesFindTheirWay == \A y \in Successes(queue) : y[2][1] = y[1]

RoomsInv == RoomsTyped /\ RoomsWereAsked /\ CachedAreRooms /\ SuccessesFindTheirWay

\* At first there are no rooms and no messages.
LEMMA RoomsInit == Init => RoomsInv
<1> SUFFICES ASSUME Init PROVE RoomsInv
  OBVIOUS
<1>1. \A m \in Loops : Len(queue[m]) = 0
  BY DEF Init
<1>2. Successes(queue) = {}
  BY <1>1 DEF Successes
<1> QED BY <1>2 DEF Init, RoomsInv, RoomsTyped, RoomsWereAsked, CachedAreRooms, SuccessesFindTheirWay

\* A step of the owner or of a guest that makes and ends no room.
LEMMA RoomsKept ==
    ASSUME AskInv, RoomsInv, UNCHANGED <<room, proxy, cache>>, SuccessesFindTheirWay',
           \A g \in Guests : room[g] # "none" =>
               /\ reqId'[g] = reqId[g] /\ ask'[g] \notin {"out", "asked"}
               /\ ask'[g] = "wait" => ask[g] = "wait" /\ reply'[g] = reply[g]
    PROVE  RoomsInv'
<1>1. cache \in [Managers -> Guests \cup {Nobody}]
  BY DEF AskInv, AskTyped
<1>2. RoomsTyped' /\ RoomsWereAsked'
  BY DEF RoomsInv, RoomsTyped, RoomsWereAsked
<1>3. CachedAreRooms'
  BY <1>1 DEF RoomsInv, CachedAreRooms
<1> QED BY <1>2, <1>3 DEF RoomsInv

\* A step that ends a room or its proxy, and takes it out of the cache.
LEMMA RoomsEnd ==
    ASSUME AskInv, RoomsInv, UNCHANGED <<ask, reqId, reply>>, SuccessesFindTheirWay',
           NEW g \in Guests, room[g] # "none",
           \/ room' = room
           \/ room' = [room EXCEPT ![g] = "done"],
           NEW p \in {"run", "remove", "end"}, proxy' = proxy \/ proxy' = [proxy EXCEPT ![g] = p],
           \/ cache' = cache
           \/ \E m \in Managers : cache' = [cache EXCEPT ![m] = Nobody]
    PROVE  RoomsInv'
<1>1. cache \in [Managers -> Guests \cup {Nobody}]
  BY DEF AskInv, AskTyped
<1>2. proxy[g] # "none"
  BY DEF RoomsInv, RoomsTyped
<1>3. \A h \in Guests : /\ room'[h] = "none" <=> room[h] = "none"
                        /\ proxy'[h] = "none" <=> proxy[h] = "none"
  BY <1>2 DEF RoomsInv, RoomsTyped
<1>4. RoomsTyped'
  BY <1>3 DEF RoomsInv, RoomsTyped
<1>5. RoomsWereAsked'
  BY <1>3 DEF RoomsInv, RoomsWereAsked
<1>6. CachedAreRooms'
  BY <1>1, <1>3 DEF RoomsInv, CachedAreRooms
<1> QED BY <1>4, <1>5, <1>6 DEF RoomsInv

\* A success makes the room of the guest that waits for it, which has none yet.
LEMMA SuccessMakesRoom ==
    ASSUME AskInv, RoomsInv, NEW m \in Managers, ResultSuccess(m)
    PROVE  /\ RoomsInv'
           /\ LET id == Head(queue[m]).id
              IN  \/ UNCHANGED <<room, proxy>>
                  \/ \E g \in Guests : /\ room[g] = "none" /\ reqId[g] = id
                                       /\ room' = [room EXCEPT ![g] = "live"]
                                       /\ proxy' = [proxy EXCEPT ![g] = "run"]
<1> DEFINE id == Head(queue[m]).id
           g == requests[id]
<1>0. AskTyped /\ m \in Loops /\ queue \in [Loops -> Seq(Messages)]
  BY DEF AskInv, AskTyped, Loops
<1>1. queue[m] # <<>> /\ Head(queue[m]).event = "JoinSuccess"
  BY DEF ResultSuccess, Takes
<1>2. queue' = Rest(m)
  BY DEF ResultSuccess, Delivered
<1>3. /\ Successes(queue') \subseteq Successes(queue)
      /\ id \in ReqIds /\ <<m, id>> \in Successes(queue)
  BY <1>0, <1>1, <1>2, SuccessTaken DEF Rest
<1>4. SuccessesFindTheirWay'
  BY <1>3 DEF RoomsInv, SuccessesFindTheirWay
<1>5. id[1] = m
  BY <1>3 DEF RoomsInv, SuccessesFindTheirWay
<1>6. /\ UNCHANGED <<ask, reqId>>
      /\ \/ g = Nobody /\ UNCHANGED <<reply, cache, room, proxy>>
         \/ /\ g # Nobody /\ reply' = [reply EXCEPT ![g] = Error] /\ UNCHANGED <<cache, room, proxy>>
         \/ /\ g # Nobody /\ reply' = [reply EXCEPT ![g] = g]
            /\ cache' = [cache EXCEPT ![m] = g]
            /\ room' = [room EXCEPT ![g] = "live"] /\ proxy' = [proxy EXCEPT ![g] = "run"]
  BY DEF ResultSuccess, MakeRoom
<1>7. g \in Guests \cup {Nobody}
  BY <1>0, <1>3 DEF AskTyped
<1> HIDE DEF id
<1>8. g # Nobody => g \in Guests /\ ask[g] = "wait" /\ reply[g] = Nobody /\ reqId[g] = id
  BY <1>3, <1>7 DEF AskInv, EntryHasAsker
<1>9. g # Nobody => room[g] = "none"
  BY <1>8 DEF RoomsInv, RoomsWereAsked
<1> HIDE DEF g
<1>10. CASE g = Nobody
  BY <1>4, <1>6, <1>10, RoomsKept DEF RoomsInv, RoomsWereAsked
<1>11. CASE g # Nobody /\ UNCHANGED <<cache, room, proxy>>
  <2>1. \A h \in Guests : room[h] # "none" => reply'[h] = reply[h]
    <3>1. \A h \in Guests \ {g} : reply'[h] = reply[h]
      BY <1>0, <1>6, <1>8, <1>11 DEF AskTyped
    <3> QED BY <1>9, <1>11, <3>1
  <2> QED BY <1>4, <1>6, <1>11, <2>1, RoomsKept DEF RoomsInv, RoomsWereAsked
<1>12. CASE /\ g # Nobody /\ reply' = [reply EXCEPT ![g] = g] /\ cache' = [cache EXCEPT ![m] = g]
            /\ room' = [room EXCEPT ![g] = "live"] /\ proxy' = [proxy EXCEPT ![g] = "run"]
  <2>1. RoomsTyped'
    BY <1>8, <1>12 DEF RoomsInv, RoomsTyped
  <2>2. \A h \in Guests \ {g} : room'[h] = room[h] /\ reply'[h] = reply[h]
    BY <1>0, <1>12 DEF RoomsInv, RoomsTyped, AskTyped
  <2>3. room'[g] = "live" /\ reply'[g] = g /\ g # Nobody /\ ask'[g] = "wait"
    BY <1>0, <1>6, <1>8, <1>12 DEF RoomsInv, RoomsTyped, AskTyped
  <2>4. RoomsWereAsked'
    BY <1>6, <2>2, <2>3 DEF RoomsInv, RoomsWereAsked
  <2>5. cache'[m] = g /\ \A k \in Managers \ {m} : cache'[k] = cache[k]
    BY <1>0, <1>12 DEF AskTyped
  <2>6. CachedAreRooms'
    <3> SUFFICES ASSUME NEW k \in Managers, cache'[k] # Nobody
                 PROVE  room'[cache'[k]] # "none" /\ reqId'[cache'[k]][1] = k
      BY DEF CachedAreRooms
    <3>1. CASE k = m
      BY <1>5, <1>6, <1>8, <1>12, <2>3, <2>5, <3>1
    <3>2. CASE k # m
      <4>1. cache'[k] = cache[k] /\ cache[k] \in Guests
        BY <1>0, <2>5, <3>2 DEF AskTyped
      <4>2. room[cache[k]] # "none" /\ reqId[cache[k]][1] = k
        BY <4>1 DEF RoomsInv, CachedAreRooms
      <4> QED BY <1>6, <1>9, <1>12, <2>2, <4>1, <4>2
    <3> QED BY <3>1, <3>2
  <2>7. RoomsInv'
    BY <1>4, <2>1, <2>4, <2>6 DEF RoomsInv
  <2> QED BY <1>8, <1>9, <1>12, <2>7 DEF id
<1> QED BY <1>6, <1>10, <1>11, <1>12 DEF id

-----------------------------------------------------------------------------
(* The invariant of the count: there are never more claims than it says,   *)
(* with what waits in addSubscribeCount, unless a join was answered and    *)
(* left out.  A claim whose join is not in it is of the join that waits    *)
(* there.                                                                  *)
ConTyped ==
    /\ life \in {"none", "open", "stopped", "ended"}
    /\ session \in {"new", "in", "exit", "over"} /\ known \in BOOLEAN
    /\ con \in {"none", "subscribe", "run", "end"}
    /\ conDone \in BOOLEAN /\ number \in Int
    /\ adding \in {<<>>, <<-1, <<>>>>} \cup ({1} \X ReqIds)
    /\ uncounted \in BOOLEAN

ConFits ==
    /\ life = "none" <=> session = "new"
    /\ life = "none" => con = "none"
    /\ life \in {"none", "open"} => (conDone <=> con = "end")
    /\ con = "none" => adding = <<>>

\* What is about to be added.
Due == IF adding = <<>> THEN 0 ELSE adding[1]

Finite == IsFiniteSet(Claims(queue)) /\ IsFiniteSet(RoomClaims)
Load == Cardinality(Claims(queue)) + Cardinality(RoomClaims)

NotCounted(id) == adding = <<1, id>>

NoneCounted ==
    /\ \A g \in RoomClaims : NotCounted(reqId[g])
    /\ \A y \in Successes(queue) : NotCounted(y[2])

\* The session lasts, and no answered join was left out.
CountMatters == life = "open" /\ ~ uncounted

CountInv ==
    /\ Finite
    /\ con = "none" => Load = 0
    /\ CountMatters /\ con \in {"subscribe", "run"} => Load <= number + Due
    /\ CountMatters /\ con \in {"subscribe", "run"} /\ Due = 1 /\ number <= 0 => NoneCounted
    /\ CountMatters /\ con = "end" => NoneCounted

\* Facts about numbers of claims.
LEMMA LoadType ==
    ASSUME Finite
    PROVE  Cardinality(Claims(queue)) \in Nat /\ Cardinality(RoomClaims) \in Nat /\ Load \in Nat
BY FS_CardinalityType DEF Finite, Load

\* Without claims there is neither a room nor a success on its way.
LEMMA NoLoad ==
    ASSUME Finite, Load <= 0, queue \in [Loops -> Seq(Messages)]
    PROVE  RoomClaims = {} /\ Claims(queue) = {} /\ Successes(queue) = {} /\ NoneCounted
<1>1. Cardinality(Claims(queue)) = 0 /\ Cardinality(RoomClaims) = 0
  BY LoadType DEF Load
<1>2. RoomClaims = {} /\ Claims(queue) = {}
  BY <1>1, FS_EmptySet DEF Finite
<1>3. ASSUME NEW y \in Successes(queue)
      PROVE  FALSE
  <2>1. y \in Loops \X ReqIds
    BY <1>3 DEF Successes
  <2>2. PICK i \in 1..Len(queue[y[1]]) : queue[y[1]][i].event = "JoinSuccess"
    BY <1>3 DEF Successes
  <2>3. i \in Nat
    BY <2>1, <2>2
  <2> DEFINE x == <<y[1], i>>
  <2>4. x \in Loops \X Nat /\ x[1] = y[1] /\ x[2] = i
    BY <2>1, <2>3
  <2>5. x \in Claims(queue)
    <3> HIDE DEF x
    <3> QED BY <2>2, <2>4 DEF Claims, IsClaim
  <2> QED BY <1>2, <2>5
<1>4. Successes(queue) = {}
  BY <1>3
<1> QED BY <1>2, <1>4 DEF NoneCounted

\* What waits in addSubscribeCount is one or minus one.
LEMMA DueType ==
    ASSUME ConTyped
    PROVE  Due \in {-1, 0, 1} /\ (Due = 1 <=> \E id \in ReqIds : adding = <<1, id>>)
<1>1. CASE adding = <<>>
  BY <1>1 DEF Due
<1>2. CASE adding = <<-1, <<>>>>
  BY <1>2 DEF Due
<1>3. CASE adding \in {1} \X ReqIds
  <2>1. PICK id \in ReqIds : adding = <<1, id>>
    BY <1>3
  <2> QED BY <2>1 DEF Due
<1> QED BY <1>1, <1>2, <1>3 DEF ConTyped

\* A step that makes no claim more and no claim counted keeps the count right.
LEMMA CountKept ==
    ASSUME ConTyped, CountInv, con' = con, Finite', Load' <= Load,
           \/ UNCHANGED <<life, number, adding, uncounted>> /\ (NoneCounted => NoneCounted')
           \/ life' # "open"
           \/ con = "none"
    PROVE  CountInv'
<1>1. Load \in Nat /\ Load' \in Nat /\ number \in Int /\ Due \in Int
  <2>1. Load' \in Nat
    BY FS_CardinalityType DEF Finite, Load
  <2> QED BY <2>1, LoadType, DueType DEF CountInv, ConTyped
<1>2. con' = "none" => Load' = 0
  BY <1>1 DEF CountInv
<1>3. CASE UNCHANGED <<life, number, adding, uncounted>> /\ (NoneCounted => NoneCounted')
  <2>1. Due' = Due
    BY <1>3 DEF Due
  <2> QED BY <1>1, <1>2, <1>3, <2>1 DEF CountInv, CountMatters
<1>4. CASE life' # "open" \/ con = "none"
  BY <1>2, <1>4 DEF CountInv, CountMatters
<1> QED BY <1>3, <1>4

\* What a queue is after a step with neither a new success nor a new claim.
QueueQuiet ==
    /\ Successes(queue') \subseteq Successes(queue)
    /\ IsFiniteSet(Claims(queue')) /\ Cardinality(Claims(queue')) <= Cardinality(Claims(queue))

\* A step whose queues are quiet, and that makes no room.
LEMMA CountQuiet ==
    ASSUME ConTyped, CountInv, con' = con, QueueQuiet, RoomClaims' \subseteq RoomClaims,
           \A g \in RoomClaims : reqId'[g] = reqId[g],
           \/ UNCHANGED <<life, number, adding, uncounted>>
           \/ life' # "open"
           \/ con = "none"
    PROVE  CountInv'
<1>1. /\ IsFiniteSet(RoomClaims') /\ Cardinality(RoomClaims') <= Cardinality(RoomClaims)
      /\ IsFiniteSet(Claims(queue'))
  BY FS_Subset DEF CountInv, Finite, QueueQuiet
<1>2. Finite' /\ Load' <= Load
  <2>1. Finite'
    BY <1>1 DEF Finite
  <2>2. /\ Cardinality(RoomClaims') \in Nat /\ Cardinality(Claims(queue')) \in Nat
        /\ Cardinality(RoomClaims) \in Nat /\ Cardinality(Claims(queue)) \in Nat
    BY <1>1, LoadType, FS_CardinalityType DEF CountInv
  <2>3. Load' = Cardinality(Claims(queue')) + Cardinality(RoomClaims')
    BY DEF Load
  <2> QED BY <1>1, <2>1, <2>2, <2>3 DEF Load, QueueQuiet
<1>3. UNCHANGED <<adding, uncounted>> => (NoneCounted => NoneCounted')
  BY DEF NoneCounted, NotCounted, QueueQuiet
<1> QED BY <1>2, <1>3, CountKept

-----------------------------------------------------------------------------
(* What the steps do to the queues.                                        *)

\* Queues that stay as they are are quiet, ...
LEMMA QueueSame ==
    ASSUME AskInv, CountInv, queue' = queue
    PROVE  QueueQuiet
<1>1. IsFiniteSet(Claims(queue)) /\ Cardinality(Claims(queue)) \in Nat
  BY LoadType DEF CountInv, Finite
<1> QED BY <1>1 DEF QueueQuiet

\* ... and so are queues from which a message is taken, ...
LEMMA QueueTaken ==
    ASSUME AskInv, CountInv, NEW m \in Loops, queue[m] # <<>>, queue' = Rest(m)
    PROVE  QueueQuiet
<1>1. queue \in [Loops -> Seq(Messages)] /\ IsFiniteSet(Claims(queue))
  BY DEF AskInv, AskTyped, CountInv, Finite
<1>2. /\ IsFiniteSet(Claims(queue')) /\ Cardinality(Claims(queue')) <= Cardinality(Claims(queue))
  BY <1>1, ClaimTaken DEF Rest
<1>3. Successes(queue') \subseteq Successes(queue)
  BY <1>1, SuccessTaken DEF Rest
<1> QED BY <1>2, <1>3 DEF QueueQuiet

\* ... or to which a request is sent that claims nothing.
LEMMA QueueAsked ==
    ASSUME AskInv, CountInv, NEW to, NEW message \in Messages,
           message.event \notin {"JoinSuccess", "Leave"}, queue' = Sent(queue, to, message)
    PROVE  QueueQuiet
<1>1. queue \in [Loops -> Seq(Messages)] /\ IsFiniteSet(Claims(queue))
  BY DEF AskInv, AskTyped, CountInv, Finite
<1>2. \A m \in Loops : queue'[m] \in {queue[m], Append(queue[m], message)}
  BY DEF Sent
<1>3. Claims(queue') = Claims(queue)
  BY <1>1, <1>2, NothingClaimed DEF IsClaim
<1>4. Successes(queue') \subseteq Successes(queue)
  BY <1>1, <1>2, SuccessPublished
<1>5. Cardinality(Claims(queue)) \in Nat
  BY LoadType DEF CountInv
<1> QED BY <1>1, <1>3, <1>4, <1>5 DEF QueueQuiet

\* A message that goes to one loop brings no success but itself.
LEMMA OneSuccess ==
    ASSUME NEW rest \in [Loops -> Seq(Messages)], NEW k \in Loops, NEW message \in Messages,
           NEW r, \A m \in Loops : r[m] \in {rest[m], Append(rest[m], message)},
           \A m \in Loops \ {k} : r[m] = rest[m]
    PROVE  /\ Successes(r) \subseteq Successes(rest) \cup {<<k, message.id>>}
           /\ message.event # "JoinSuccess" => Successes(r) \subseteq Successes(rest)
<1>1. ASSUME NEW y \in Successes(r), y \notin Successes(rest)
      PROVE  y = <<k, message.id>> /\ message.event = "JoinSuccess"
  <2>1. message.event = "JoinSuccess" /\ y[2] = message.id /\ y[1] \in Loops /\ r[y[1]] # rest[y[1]]
    BY <1>1, SuccessPublished, SMTT(30)
  <2>2. y \in Loops \X ReqIds
    BY DEF Successes
  <2> QED BY <2>1, <2>2
<1> QED BY <1>1

\* A message that is sent to one loop makes one claim more, and brings no success
\* but itself.
LEMMA OneSent ==
    ASSUME NEW rest \in [Loops -> Seq(Messages)], IsFiniteSet(Claims(rest)), NEW k \in Loops,
           NEW message \in Messages, queue' = Sent(rest, {k}, message)
    PROVE  /\ IsFiniteSet(Claims(queue')) /\ Cardinality(Claims(queue')) \in Nat
           /\ Cardinality(Claims(rest)) \in Nat
           /\ Cardinality(Claims(queue')) <= Cardinality(Claims(rest)) + 1
           /\ message.event # "JoinSuccess" => Successes(queue') \subseteq Successes(rest)
           /\ \A y \in Successes(queue') :
                 y \in Successes(rest) \/ (y[1] = k /\ y[2] = message.id)
<1>1. queue'[k] = Append(rest[k], message) /\ \A m \in Loops \ {k} : queue'[m] = rest[m]
  BY DEF Sent
<1>2. \A m \in Loops : queue'[m] \in {rest[m], Append(rest[m], message)}
  BY DEF Sent
<1>3. /\ IsFiniteSet(Claims(queue')) /\ Cardinality(Claims(queue')) \in Nat
      /\ Cardinality(Claims(rest)) \in Nat
      /\ Cardinality(Claims(queue')) <= Cardinality(Claims(rest)) + 1
  <2> DEFINE r == queue'
  <2>1. r[k] = Append(rest[k], message) /\ \A m \in Loops \ {k} : r[m] = rest[m]
    BY <1>1
  <2> HIDE DEF r
  <2>2. /\ IsFiniteSet(Claims(r)) /\ Cardinality(Claims(r)) \in Nat
        /\ Cardinality(Claims(rest)) \in Nat
        /\ Cardinality(Claims(r)) <= Cardinality(Claims(rest)) + 1
    BY <2>1, ClaimPublished, SMTT(30)
  <2> QED BY <2>2 DEF r
<1>4. /\ Successes(queue') \subseteq Successes(rest) \cup {<<k, message.id>>}
      /\ message.event # "JoinSuccess" => Successes(queue') \subseteq Successes(rest)
  <2> DEFINE r == queue'
  <2>1. r[k] = Append(rest[k], message) /\ \A m \in Loops \ {k} : r[m] = rest[m]
    BY <1>1
  <2>2. \A m \in Loops : r[m] \in {rest[m], Append(rest[m], message)}
    BY <1>2
  <2> HIDE DEF r
  <2>3. /\ Successes(r) \subseteq Successes(rest) \cup {<<k, message.id>>}
        /\ message.event # "JoinSuccess" => Successes(r) \subseteq Successes(rest)
    BY <2>1, <2>2, OneSuccess
  <2> QED BY <2>3 DEF r
<1>5. ASSUME NEW y \in Successes(queue')
      PROVE  y \in Successes(rest) \/ (y[1] = k /\ y[2] = message.id)
  <2>1. y \in Successes(rest) \/ y = <<k, message.id>>
    BY <1>4, Zenon
  <2> QED BY <2>1
<1> QED BY <1>3, <1>4, <1>5

-----------------------------------------------------------------------------
(* The whole invariant.                                                    *)
FedInv == AskInv /\ RoomsInv /\ ConTyped /\ ConFits /\ CountInv

\* A quiet step of a manager or a guest: it makes no room, and leaves the connection
\* of the owner alone.
LEMMA QuietStep ==
    ASSUME FedInv, UNCHANGED <<ownerVars, conVars>>, QueueQuiet,
           RoomClaims' \subseteq RoomClaims, \A g \in RoomClaims : reqId'[g] = reqId[g]
    PROVE  ConTyped' /\ ConFits' /\ CountInv'
<1>1. UNCHANGED <<life, session, known, con, conDone, number, adding, uncounted>>
  BY DEF ownerVars, conVars
<1>2. ConTyped' /\ ConFits'
  BY <1>1 DEF FedInv, ConTyped, ConFits
<1>3. CountInv'
  BY <1>1, CountQuiet DEF FedInv
<1> QED BY <1>2, <1>3

\* A quiet queue brings no success that is not on its way already.
LEMMA QuietFindsWay == RoomsInv /\ QueueQuiet => SuccessesFindTheirWay'
BY DEF RoomsInv, SuccessesFindTheirWay, QueueQuiet

\* Before anything happened, all of it holds.
LEMMA FedInit == Init => FedInv
<1> SUFFICES ASSUME Init PROVE FedInv
  OBVIOUS
<1>1. ConTyped /\ ConFits
  <2>1. ConFits
    BY DEF Init, ConFits
  <2>3. adding \in {<<>>, <<-1, <<>>>>} \cup ({1} \X ReqIds)
    BY DEF Init
  <2>4. life = "none" /\ session = "new" /\ known = FALSE /\ con = "none" /\ conDone = FALSE /\ number = 0
        /\ uncounted = FALSE
    BY DEF Init
  <2>5. conDone \in BOOLEAN /\ known \in BOOLEAN /\ uncounted \in BOOLEAN
    BY <2>4, Zenon
  <2>7. number \in Int
    BY <2>4
  <2>6. ConTyped
    BY <2>3, <2>4, <2>5, <2>7, Zenon DEF ConTyped
  <2> QED BY <2>1, <2>6
<1>2. \A m \in Loops : Len(queue[m]) = 0
  BY DEF Init
<1>3. Claims(queue) = {} /\ RoomClaims = {}
  BY <1>2 DEF Init, Claims, RoomClaims
<1>4. Finite /\ Load = 0
  BY <1>3, FS_EmptySet DEF Finite, Load
<1>5. CountInv
  BY <1>4 DEF Init, CountInv, CountMatters
<1> QED BY <1>1, <1>5, AskInit, RoomsInit DEF FedInv

-----------------------------------------------------------------------------
(* The steps of the managers and guests.                                   *)

\* A success takes its claim with it when it makes a room, which is a claim, and whose
\* join is as little or as much counted as the success was.
LEMMA SuccessFed ==
    ASSUME FedInv, NEW m \in Managers, ResultSuccess(m)
    PROVE  RoomsInv' /\ ConTyped' /\ ConFits' /\ CountInv'
<1> DEFINE id == Head(queue[m]).id
<1>0. /\ AskInv /\ RoomsInv /\ ConTyped /\ ConFits /\ CountInv /\ Finite
      /\ queue \in [Loops -> Seq(Messages)] /\ m \in Loops /\ IsFiniteSet(Claims(queue))
      /\ RoomsTyped
  BY DEF FedInv, AskInv, AskTyped, CountInv, Finite, Loops, RoomsInv
<1>1. queue[m] # <<>> /\ Head(queue[m]).event = "JoinSuccess" /\ queue' = Rest(m)
      /\ UNCHANGED <<ownerVars, conVars, reqId>>
  BY DEF ResultSuccess, Takes, Delivered
<1>2. /\ IsFiniteSet(Claims(queue')) /\ Cardinality(Claims(queue')) \in Nat
      /\ Cardinality(Claims(queue)) \in Nat
      /\ Cardinality(Claims(queue')) + 1 <= Cardinality(Claims(queue))
  BY <1>0, <1>1, ClaimTaken DEF Rest, IsClaim
<1>3. Successes(queue') \subseteq Successes(queue) /\ <<m, id>> \in Successes(queue)
  BY <1>0, <1>1, SuccessTaken DEF Rest
<1>4. /\ RoomsInv'
      /\ \/ UNCHANGED <<room, proxy>>
         \/ \E g \in Guests : /\ room[g] = "none" /\ reqId[g] = id
                              /\ room' = [room EXCEPT ![g] = "live"]
                              /\ proxy' = [proxy EXCEPT ![g] = "run"]
  BY <1>0, SuccessMakesRoom
<1> HIDE DEF id
<1>5. \/ RoomClaims' = RoomClaims
      \/ \E g \in Guests : reqId[g] = id /\ RoomClaims' = RoomClaims \cup {g}
  <2>1. CASE UNCHANGED <<room, proxy>>
    BY <2>1 DEF RoomClaims
  <2>2. ASSUME NEW g \in Guests, room[g] = "none", reqId[g] = id,
               room' = [room EXCEPT ![g] = "live"], proxy' = [proxy EXCEPT ![g] = "run"]
        PROVE  RoomClaims' = RoomClaims \cup {g}
    <3>1. \A h \in Guests \ {g} : room'[h] = room[h] /\ proxy'[h] = proxy[h]
      BY <1>0, <2>2 DEF RoomsTyped
    <3>2. room'[g] = "live"
      BY <1>0, <2>2 DEF RoomsTyped
    <3> QED BY <3>1, <3>2 DEF RoomClaims
  <2> QED BY <1>4, <2>1, <2>2
<1>6. /\ IsFiniteSet(RoomClaims') /\ Cardinality(RoomClaims') \in Nat
      /\ Cardinality(RoomClaims) \in Nat
      /\ Cardinality(RoomClaims') <= Cardinality(RoomClaims) + 1
  <2>1. IsFiniteSet(RoomClaims) /\ Cardinality(RoomClaims) \in Nat
    BY <1>0, FS_CardinalityType DEF Finite
  <2>2. ASSUME NEW g \in Guests, RoomClaims' = RoomClaims \cup {g}
        PROVE  /\ IsFiniteSet(RoomClaims')
               /\ Cardinality(RoomClaims') \in {Cardinality(RoomClaims), Cardinality(RoomClaims) + 1}
    BY <2>1, <2>2, FS_AddElement
  <2> QED BY <1>5, <2>1, <2>2
<1>7. Finite' /\ Load' <= Load
  <2>1. Load' = Cardinality(Claims(queue')) + Cardinality(RoomClaims')
    BY DEF Load
  <2> QED BY <1>2, <1>6, <2>1 DEF Finite, Load
<1>8. NoneCounted => NoneCounted'
  BY <1>1, <1>3, <1>5 DEF NoneCounted, NotCounted, conVars
<1>9. ConTyped' /\ ConFits'
  BY <1>0, <1>1 DEF ConTyped, ConFits, ownerVars, conVars
<1>10. CountInv'
  BY <1>0, <1>1, <1>7, <1>8, CountKept DEF ownerVars, conVars
<1> QED BY <1>4, <1>9, <1>10

\* Exit ends a room, but its claim lasts until the loop has taken its proxy's request.
LEMMA ExitFed ==
    ASSUME FedInv, NEW m \in Managers, EventExit(m)
    PROVE  RoomsInv' /\ ConTyped' /\ ConFits' /\ CountInv'
<1>0. AskInv /\ RoomsInv /\ CountInv /\ RoomsTyped /\ CachedAreRooms /\ m \in Loops
      /\ cache \in [Managers -> Guests \cup {Nobody}]
  BY DEF FedInv, AskInv, AskTyped, RoomsInv, Loops
<1>1. queue[m] # <<>> /\ queue' = Rest(m)
      /\ UNCHANGED <<ownerVars, conVars, ask, reqId, reply, proxy>>
  BY DEF EventExit, Takes, Delivered, guestVars
<1>2. QueueQuiet
  BY <1>0, <1>1, QueueTaken
<1>3. SuccessesFindTheirWay'
  BY <1>0, <1>2, QuietFindsWay
<1>4. CASE cache[m] = Nobody
  <2>1. UNCHANGED <<cache, room>>
    BY <1>4 DEF EventExit
  <2>2. RoomsInv'
    BY <1>0, <1>1, <1>3, <2>1, RoomsKept DEF RoomsInv, RoomsWereAsked
  <2>3. RoomClaims' = RoomClaims
    BY <1>1, <2>1 DEF RoomClaims
  <2> QED BY <1>1, <1>2, <2>2, <2>3, QuietStep
<1>5. CASE cache[m] # Nobody
  <2> DEFINE g == cache[m]
  <2>1. cache' = [cache EXCEPT ![m] = Nobody] /\ room' = [room EXCEPT ![g] = "done"]
    BY <1>5 DEF EventExit, Drop
  <2>2. g \in Guests /\ room[g] # "none"
    BY <1>0, <1>5 DEF CachedAreRooms
  <2> HIDE DEF g
  <2>3. RoomsInv'
    BY <1>0, <1>1, <1>3, <2>1, <2>2, RoomsEnd
  <2>4. RoomClaims' \subseteq RoomClaims
    BY <1>0, <1>1, <2>1, <2>2 DEF RoomClaims, RoomsTyped
  <2> QED BY <1>1, <1>2, <2>3, <2>4, QuietStep
<1> QED BY <1>4, <1>5

\* The loop ends a room for its proxy, whose claim goes to the Leave that is sent.
LEMMA RemoveFed ==
    ASSUME FedInv, NEW m \in Managers, NEW g \in Guests, RemoveProxyRoom(m, g)
    PROVE  RoomsInv' /\ ConTyped' /\ ConFits' /\ CountInv'
<1>0. /\ AskInv /\ RoomsInv /\ ConTyped /\ ConFits /\ CountInv /\ Finite /\ RoomsTyped
      /\ queue \in [Loops -> Seq(Messages)] /\ IsFiniteSet(Claims(queue)) /\ Owner \in Loops
  BY DEF FedInv, AskInv, AskTyped, RoomsInv, CountInv, Finite, Loops
<1>1. /\ proxy[g] = "remove" /\ proxy' = [proxy EXCEPT ![g] = "end"]
      /\ UNCHANGED <<ownerVars, conVars, ask, reqId, reply>>
  BY DEF RemoveProxyRoom, guestVars
<1>2. room[g] # "none" /\ g \in RoomClaims
  BY <1>0, <1>1 DEF RoomsTyped, RoomClaims
<1>3. CASE UNCHANGED <<queue, cache, room>>
  <2>1. QueueQuiet
    BY <1>0, <1>3, QueueSame
  <2>2. RoomsInv'
    BY <1>0, <1>1, <1>2, <1>3, <2>1, QuietFindsWay, RoomsEnd
  <2>3. RoomClaims' \subseteq RoomClaims
    BY <1>0, <1>1, <1>3 DEF RoomsTyped, RoomClaims
  <2> QED BY <1>1, <2>1, <2>2, <2>3, QuietStep
<1>4. CASE Drop(m, g)
  <2>1. cache' = [cache EXCEPT ![m] = Nobody] /\ room' = [room EXCEPT ![g] = "done"]
    BY <1>4 DEF Drop
  <2>2. RoomClaims' = RoomClaims \ {g}
    <3>1. room'[g] = "done" /\ proxy'[g] = "end"
      BY <1>0, <1>1, <2>1 DEF RoomsTyped
    <3>2. \A h \in Guests \ {g} : room'[h] = room[h] /\ proxy'[h] = proxy[h]
      BY <1>0, <1>1, <2>1 DEF RoomsTyped
    <3> QED BY <3>1, <3>2 DEF RoomClaims
  <2>3. /\ IsFiniteSet(RoomClaims') /\ Cardinality(RoomClaims') \in Nat
        /\ Cardinality(RoomClaims) \in Nat
        /\ Cardinality(RoomClaims') = Cardinality(RoomClaims) - 1
    BY <1>0, <1>2, <2>2, FS_RemoveElement, FS_CardinalityType DEF Finite
  <2>4. CASE queue' = queue
    <3>1. QueueQuiet
      BY <1>0, <2>4, QueueSame
    <3>2. RoomsInv'
      BY <1>0, <1>1, <1>2, <2>1, <3>1, QuietFindsWay, RoomsEnd
    <3> QED BY <1>1, <2>2, <3>1, <3>2, QuietStep
  <2>5. CASE queue' = Sent(queue, {Owner}, [event |-> "Leave"])
    <3> DEFINE leave == [event |-> "Leave"]
    <3>1. leave \in Messages /\ leave.event = "Leave"
      BY DEF Messages
    <3> HIDE DEF leave
    <3>2. queue' = Sent(queue, {Owner}, leave)
      BY <2>5 DEF leave
    <3>3. /\ IsFiniteSet(Claims(queue')) /\ Cardinality(Claims(queue')) \in Nat
          /\ Cardinality(Claims(queue)) \in Nat
          /\ Cardinality(Claims(queue')) <= Cardinality(Claims(queue)) + 1
          /\ Successes(queue') \subseteq Successes(queue)
      BY <1>0, <3>1, <3>2, OneSent
    <3>5. RoomsInv'
      <4>1. SuccessesFindTheirWay'
        BY <1>0, <3>3 DEF RoomsInv, SuccessesFindTheirWay
      <4> QED BY <1>0, <1>1, <1>2, <2>1, <4>1, RoomsEnd
    <3>6. Finite' /\ Load' <= Load
      <4>1. Load' = Cardinality(Claims(queue')) + Cardinality(RoomClaims')
        BY DEF Load
      <4> QED BY <2>3, <3>3, <4>1 DEF Finite, Load
    <3>7. NoneCounted => NoneCounted'
      BY <1>1, <2>2, <3>3 DEF NoneCounted, NotCounted, conVars
    <3>8. ConTyped' /\ ConFits'
      BY <1>0, <1>1 DEF ConTyped, ConFits, ownerVars, conVars
    <3>9. CountInv'
      BY <1>0, <1>1, <3>6, <3>7, CountKept DEF ownerVars, conVars
    <3> QED BY <3>5, <3>8, <3>9
  <2> QED BY <1>4, <2>4, <2>5 DEF RemoveProxyRoom, Drop, Delivered, Publish, PublishErr
<1>5. \/ UNCHANGED <<queue, cache, room>>
      \/ Drop(m, g)
  BY DEF RemoveProxyRoom, Delivered
<1> QED BY <1>3, <1>4, <1>5

\* A guest that asks, or whose request is taken, has no room yet.
LEMMA GetFed ==
    ASSUME FedInv, NEW g \in Guests, ask[g] \in {"out", "asked"}, QueueQuiet,
           NEW a \in {"asked", "wait"}, ask' = [ask EXCEPT ![g] = a],
           reply' = reply \/ \E r : reply' = [reply EXCEPT ![g] = r],
           reqId' = reqId \/ \E id : reqId' = [reqId EXCEPT ![g] = id],
           UNCHANGED <<ownerVars, conVars, cache, room, proxy>>
    PROVE  RoomsInv' /\ ConTyped' /\ ConFits' /\ CountInv'
<1>0. /\ AskInv /\ RoomsInv /\ CountInv /\ RoomsTyped /\ RoomsWereAsked
      /\ ask \in [Guests -> {"out", "asked", "wait", "in", "gone"}]
      /\ reqId \in [Guests -> ReqIds \cup {<<>>}]
      /\ reply \in [Guests -> Guests \cup {Nobody, Error}]
  BY DEF FedInv, AskInv, AskTyped, RoomsInv
<1>2. room[g] = "none" /\ RoomClaims' = RoomClaims /\ g \notin RoomClaims
  BY <1>0 DEF RoomsWereAsked, RoomClaims
<1>5. \A h \in Guests \ {g} : ask'[h] = ask[h] /\ reply'[h] = reply[h] /\ reqId'[h] = reqId[h]
  BY <1>0
<1>7. RoomsInv'
  <2>1. \A h \in Guests : room[h] # "none" =>
            /\ reqId'[h] = reqId[h] /\ ask'[h] \notin {"out", "asked"}
            /\ ask'[h] = "wait" => ask[h] = "wait" /\ reply'[h] = reply[h]
    BY <1>0, <1>2, <1>5 DEF RoomsWereAsked
  <2>2. SuccessesFindTheirWay'
    BY <1>0, QuietFindsWay
  <2> QED BY <1>0, <2>1, <2>2, RoomsKept
<1>8. \A h \in RoomClaims : reqId'[h] = reqId[h]
  BY <1>2, <1>5 DEF RoomClaims
<1> QED BY <1>2, <1>7, <1>8, QuietStep

\* Its request says which id it has, ...
LEMMA GetAsksFed ==
    ASSUME FedInv, NEW g \in Guests, NEW m, GetAsks(m, g)
    PROVE  RoomsInv' /\ ConTyped' /\ ConFits' /\ CountInv'
<1>1. /\ ask[g] = "out" /\ ask' = [ask EXCEPT ![g] = "asked"] /\ reply' = reply
      /\ \E id : reqId' = [reqId EXCEPT ![g] = id]
      /\ UNCHANGED <<ownerVars, conVars, cache, room, proxy, queue>>
  BY DEF GetAsks, remoteVars
<1>2. QueueQuiet
  BY <1>1, QueueSame DEF FedInv
<1> QED BY <1>1, <1>2, GetFed

\* ... and the loop's Join claims nothing.
LEMMA GetJoinFed ==
    ASSUME FedInv, NEW g \in Guests, NEW m \in Managers, GetJoin(m, g)
    PROVE  RoomsInv' /\ ConTyped' /\ ConFits' /\ CountInv'
<1>0. AskInv /\ CountInv /\ (ask[g] = "asked" => reqId[g] \in ReqIds)
  BY DEF FedInv, AskInv, AskersHaveIds
<1>1. /\ ask[g] = "asked" /\ ask' = [ask EXCEPT ![g] = "wait"] /\ reqId' = reqId
      /\ UNCHANGED <<ownerVars, conVars, cache, room, proxy>>
  BY DEF GetJoin
<1>3. reply' = reply \/ \E r : reply' = [reply EXCEPT ![g] = r]
  BY DEF GetJoin
<1> DEFINE join == [event |-> "Join", id |-> reqId[g]]
<1>4. queue' = queue \/ queue' = Sent(queue, {Owner}, join)
  BY DEF GetJoin, Delivered, Publish, PublishErr
<1>5. join \in Messages /\ join.event = "Join"
  BY <1>0, <1>1 DEF Messages
<1> HIDE DEF join
<1>6. QueueQuiet
  BY <1>0, <1>4, <1>5, QueueSame, QueueAsked
<1> QED BY <1>1, <1>3, <1>6, GetFed

\* The guest's other steps, and those of its room and of the room's proxy.
LEMMA GuestFed ==
    ASSUME FedInv, NEW g \in Guests,
           \/ GetNothing(g) \/ TakeReply(g) \/ Cancel(g) \/ GuestLeaves(g)
           \/ ProxyEnds(g, "done") \/ ProxyEnds(g, "idle") \/ ProxiedRoomEmpty(g)
    PROVE  RoomsInv' /\ ConTyped' /\ ConFits' /\ CountInv'
<1>0. /\ AskInv /\ RoomsInv /\ CountInv /\ RoomsTyped /\ RoomsWereAsked
      /\ ask \in [Guests -> {"out", "asked", "wait", "in", "gone"}]
  BY DEF FedInv, AskInv, AskTyped, RoomsInv
<1>1. UNCHANGED <<ownerVars, conVars, reqId, queue, cache>>
  BY DEF GetNothing, TakeReply, Cancel, GuestLeaves, ProxyEnds, ProxiedRoomEmpty, remoteVars,
         guestVars
<1>2. QueueQuiet /\ SuccessesFindTheirWay'
  BY <1>0, <1>1, QueueSame, QuietFindsWay
<1>3. CASE GetNothing(g) \/ TakeReply(g) \/ Cancel(g) \/ GuestLeaves(g)
  <2>1. UNCHANGED <<room, proxy>> /\ \E a \in {"in", "gone"} : ask' = [ask EXCEPT ![g] = a]
    BY <1>3 DEF GetNothing, TakeReply, Cancel, GuestLeaves, remoteVars
  <2>2. reply' = reply \/ \E r : reply' = [reply EXCEPT ![g] = r]
    BY <1>3 DEF GetNothing, TakeReply, Cancel, GuestLeaves
  <2>3. \A h \in Guests : room[h] # "none" =>
            /\ reqId'[h] = reqId[h] /\ ask'[h] \notin {"out", "asked"}
            /\ ask'[h] = "wait" => ask[h] = "wait" /\ reply'[h] = reply[h]
    <3>1. reply \in [Guests -> Guests \cup {Nobody, Error}]
      BY <1>0 DEF AskInv, AskTyped
    <3>2. \A h \in Guests \ {g} : ask'[h] = ask[h] /\ reply'[h] = reply[h]
      BY <1>0, <2>1, <2>2, <3>1
    <3>3. ask'[g] \in {"in", "gone"}
      BY <1>0, <2>1
    <3> QED BY <1>0, <1>1, <3>2, <3>3 DEF RoomsWereAsked
  <2>4. RoomsInv'
    BY <1>0, <1>1, <1>2, <2>1, <2>3, RoomsKept
  <2>5. RoomClaims' = RoomClaims
    BY <2>1 DEF RoomClaims
  <2> QED BY <1>1, <1>2, <2>4, <2>5, QuietStep
<1>4. CASE ProxyEnds(g, "done") \/ ProxyEnds(g, "idle")
  <2>1. /\ proxy[g] = "run" /\ proxy' = [proxy EXCEPT ![g] = "remove"]
        /\ UNCHANGED <<room, ask, reply>>
    BY <1>4 DEF ProxyEnds, guestVars
  <2>2. room[g] # "none"
    BY <1>0, <2>1 DEF RoomsTyped
  <2>3. RoomsInv'
    BY <1>0, <1>1, <1>2, <2>1, <2>2, RoomsEnd
  <2>4. RoomClaims' \subseteq RoomClaims
    BY <1>0, <2>1 DEF RoomClaims, RoomsTyped
  <2> QED BY <1>1, <1>2, <2>3, <2>4, QuietStep
<1>5. CASE ProxiedRoomEmpty(g)
  <2>1. /\ room[g] = "live" /\ room' = [room EXCEPT ![g] = "done"]
        /\ UNCHANGED <<proxy, ask, reply>>
    BY <1>5 DEF ProxiedRoomEmpty, guestVars
  <2>2. RoomsInv'
    BY <1>0, <1>1, <1>2, <2>1, RoomsEnd
  <2>3. RoomClaims' \subseteq RoomClaims
    BY <1>0, <2>1 DEF RoomClaims, RoomsTyped
  <2> QED BY <1>1, <1>2, <2>2, <2>3, QuietStep
<1> QED BY <1>3, <1>4, <1>5

\* A message that is lost has no claim any more.
LEMMA LoseFed ==
    ASSUME FedInv, NEW m \in Loops, Lose(m)
    PROVE  RoomsInv' /\ ConTyped' /\ ConFits' /\ CountInv'
<1>0. AskInv /\ RoomsInv /\ CountInv /\ RoomsWereAsked
  BY DEF FedInv, RoomsInv
<1>1. /\ queue[m] # <<>> /\ queue' = Rest(m)
      /\ UNCHANGED <<ownerVars, conVars, cache, room, proxy, ask, reqId, reply>>
  BY DEF Lose, remoteVars, guestVars
<1>2. QueueQuiet /\ SuccessesFindTheirWay'
  BY <1>0, <1>1, QueueTaken, QuietFindsWay
<1>3. RoomsInv'
  BY <1>0, <1>1, <1>2, RoomsKept DEF RoomsWereAsked
<1>4. RoomClaims' = RoomClaims
  BY <1>1 DEF RoomClaims
<1> QED BY <1>1, <1>2, <1>3, <1>4, QuietStep

-----------------------------------------------------------------------------
(* The steps of the owner, its loop and its connection.                    *)

\* They make no room and ask nothing.
LEMMA OwnerRooms ==
    ASSUME FedInv, UNCHANGED <<remoteVars, guestVars>>, SuccessesFindTheirWay'
    PROVE  RoomsInv' /\ RoomClaims' = RoomClaims /\ \A g \in Guests : reqId'[g] = reqId[g]
<1>1. UNCHANGED <<cache, room, proxy, ask, reqId, reply>>
  BY DEF remoteVars, guestVars
<1>2. AskInv /\ RoomsInv /\ RoomsWereAsked
  BY DEF FedInv, RoomsInv
<1>3. RoomsInv'
  BY <1>1, <1>2, RoomsKept DEF RoomsWereAsked
<1>4. RoomClaims' = RoomClaims
  BY <1>1 DEF RoomClaims
<1> QED BY <1>1, <1>3, <1>4

\* While the queues stay, too, so do the claims.
LEMMA OwnerStill ==
    ASSUME FedInv, UNCHANGED <<remoteVars, guestVars, queue>>
    PROVE  /\ RoomsInv' /\ RoomClaims' = RoomClaims /\ \A g \in Guests : reqId'[g] = reqId[g]
           /\ QueueQuiet /\ Successes(queue') = Successes(queue)
           /\ Finite' /\ Load' = Load /\ Load \in Nat
<1>0. AskInv /\ RoomsInv /\ CountInv /\ Finite
  BY DEF FedInv, CountInv
<1>1. QueueQuiet /\ SuccessesFindTheirWay' /\ Successes(queue') = Successes(queue)
  BY <1>0, QueueSame, QuietFindsWay
<1>2. RoomsInv' /\ RoomClaims' = RoomClaims /\ \A g \in Guests : reqId'[g] = reqId[g]
  BY <1>1, OwnerRooms
<1>3. Finite' /\ Load' = Load /\ Load \in Nat
  <2>1. queue' = queue
    OBVIOUS
  <2> QED BY <1>0, <1>2, <2>1, LoadType DEF Finite, Load
<1> QED BY <1>1, <1>2, <1>3

\* Before the room is there, and after it is stopped, nobody counts.
LEMMA SessionFed ==
    ASSUME FedInv, Session \/ RoomClosesCon \/ RoomEnds
    PROVE  RoomsInv' /\ ConTyped' /\ ConFits' /\ CountInv'
<1>0. AskInv /\ RoomsInv /\ ConTyped /\ ConFits /\ CountInv
  BY DEF FedInv
<1>1. UNCHANGED <<remoteVars, guestVars, queue>> /\ con' = con
  BY DEF Session, Add, Delete, RoomClosesCon, RoomEnds, conVars
<1>2. /\ RoomsInv' /\ RoomClaims' = RoomClaims /\ \A g \in Guests : reqId'[g] = reqId[g]
      /\ QueueQuiet
  BY <1>1, OwnerStill
<1>3. CASE Add
  <2>1. /\ session = "new" /\ session' = "in" /\ life' = "open" /\ known' \in {TRUE, known}
        /\ UNCHANGED <<con, conDone, number, adding, uncounted>>
    BY <1>3 DEF Add, conVars
  <2>2. con = "none" /\ adding = <<>> /\ conDone = FALSE
    BY <1>0, <2>1 DEF ConTyped, ConFits
  <2>3. ConTyped'
    BY <1>0, <2>1 DEF ConTyped
  <2>4. ConFits'
    BY <1>0, <2>1, <2>2 DEF ConFits
  <2>5. CountInv'
    BY <1>0, <1>2, <2>1, <2>2, CountQuiet DEF RoomClaims
  <2> QED BY <1>2, <2>3, <2>4, <2>5
<1>4. CASE Delete
  <2>1. /\ session' = "exit" /\ life' = "stopped" /\ known' \in {FALSE, known} /\ uncounted' = FALSE
        /\ UNCHANGED <<con, conDone, number, adding>>
    BY <1>4 DEF Delete
  <2>2. ConTyped' /\ ConFits'
    BY <1>0, <2>1 DEF ConTyped, ConFits
  <2>3. CountInv'
    BY <1>0, <1>2, <2>1, CountQuiet DEF RoomClaims
  <2> QED BY <1>2, <2>2, <2>3
<1>5. CASE RoomClosesCon
  <2>1. /\ life = "stopped" /\ con = "run" /\ conDone' = TRUE
        /\ UNCHANGED <<life, session, known, con, number, adding, uncounted>>
    BY <1>5 DEF RoomClosesCon, ownerVars
  <2>2. ConTyped' /\ ConFits'
    BY <1>0, <2>1 DEF ConTyped, ConFits
  <2>3. CountInv'
    BY <1>0, <1>2, <2>1, CountQuiet DEF RoomClaims
  <2> QED BY <1>2, <2>2, <2>3
<1>6. CASE RoomEnds
  <2>1. /\ life = "stopped" /\ life' = "ended"
        /\ UNCHANGED <<session, known, con, conDone, number, adding, uncounted>>
    BY <1>6 DEF RoomEnds, conVars
  <2>2. ConTyped' /\ ConFits'
    BY <1>0, <2>1 DEF ConTyped, ConFits
  <2>3. CountInv'
    BY <1>0, <1>2, <2>1, CountQuiet DEF RoomClaims
  <2> QED BY <1>2, <2>2, <2>3
<1> QED BY <1>3, <1>4, <1>5, <1>6 DEF Session

\* Exit, which is published when the session is over, claims nothing.
LEMMA RequestExitFed ==
    ASSUME FedInv, RequestExit
    PROVE  RoomsInv' /\ ConTyped' /\ ConFits' /\ CountInv'
<1>0. AskInv /\ RoomsInv /\ ConTyped /\ ConFits /\ CountInv
  BY DEF FedInv
<1>1. /\ session = "exit" /\ session' = "over"
      /\ UNCHANGED <<life, known, con, conDone, number, adding, uncounted, remoteVars, guestVars>>
  BY DEF RequestExit, conVars
<1>2. QueueQuiet
  <2> DEFINE exit == [event |-> "Exit"]
  <2>1. exit \in Messages /\ exit.event = "Exit"
    BY DEF Messages
  <2>2. CASE queue' = queue
    BY <1>0, <2>2, QueueSame
  <2>3. ASSUME NEW to, queue' = Sent(queue, to, exit)
        PROVE  QueueQuiet
    <3> HIDE DEF exit
    <3> QED BY <1>0, <2>1, <2>3, QueueAsked
  <2> QED BY <2>2, <2>3 DEF RequestExit, Publish, PublishErr
<1>3. SuccessesFindTheirWay'
  BY <1>0, <1>2, QuietFindsWay
<1>4. RoomsInv' /\ RoomClaims' = RoomClaims /\ \A g \in Guests : reqId'[g] = reqId[g]
  BY <1>1, <1>3, OwnerRooms
<1>5. ConTyped' /\ ConFits'
  BY <1>0, <1>1 DEF ConTyped, ConFits
<1>6. CountInv'
  BY <1>0, <1>1, <1>2, <1>4, CountQuiet DEF RoomClaims
<1> QED BY <1>4, <1>5, <1>6

\* The connection is subscribed, counts what waits in addSubscribeCount, or ends; the
\* join that finds it ended goes to those that are not counted.
LEMMA ConFed ==
    ASSUME FedInv, CountTaken \/ CountDone \/ UserCon
    PROVE  RoomsInv' /\ ConTyped' /\ ConFits' /\ CountInv'
<1>0. /\ AskInv /\ RoomsInv /\ ConTyped /\ ConFits /\ CountInv
      /\ number \in Int /\ adding \in {<<>>, <<-1, <<>>>>} \cup ({1} \X ReqIds)
      /\ queue \in [Loops -> Seq(Messages)] /\ Finite
  BY DEF FedInv, AskInv, AskTyped, ConTyped, CountInv
<1>1. UNCHANGED <<remoteVars, guestVars, queue>> /\ UNCHANGED <<life, session, known>>
  BY DEF CountTaken, CountDone, UserCon, ConSubscribe, ConTick, ConClosed, ConEnds, ownerVars
<1>2. /\ RoomsInv' /\ RoomClaims' = RoomClaims /\ \A g \in Guests : reqId'[g] = reqId[g]
      /\ Successes(queue') = Successes(queue) /\ Finite' /\ Load' = Load /\ Load \in Nat
  BY <1>1, OwnerStill
<1>3. Due \in {-1, 0, 1} /\ (Due = 1 <=> \E id \in ReqIds : adding = <<1, id>>)
  BY <1>0, DueType
<1>4. RoomClaims \subseteq Guests
  BY DEF RoomClaims
<1>5. CASE CountTaken
  <2>1. /\ adding # <<>> /\ con = "run" /\ number' = number + adding[1] /\ adding' = <<>>
        /\ UNCHANGED <<con, conDone, uncounted>>
    BY <1>5 DEF CountTaken
  <2>2. number' = number + Due /\ Due' = 0
    BY <2>1 DEF Due
  <2>3. number' \in Int
    BY <1>0, <1>3, <2>2
  <2>4. ConTyped'
    BY <1>0, <1>1, <2>1, <2>3 DEF ConTyped
  <2>5. ConFits'
    BY <1>0, <1>1, <2>1 DEF ConFits
  <2>6. CountMatters => Load <= number'
    BY <1>0, <2>1, <2>2 DEF CountInv
  <2>7. CountInv'
    BY <1>0, <1>1, <1>2, <2>1, <2>2, <2>3, <2>6 DEF CountInv, CountMatters
  <2> QED BY <1>2, <2>4, <2>5, <2>7
<1>6. CASE CountDone
  <2>1. /\ adding # <<>> /\ conDone /\ adding' = <<>>
        /\ uncounted' = (uncounted \/ (adding[1] = 1 /\ life = "open"))
        /\ UNCHANGED <<con, conDone, number>>
    BY <1>6 DEF CountDone
  <2>3. ConTyped'
    BY <1>0, <1>1, <2>1 DEF ConTyped
  <2>4. ConFits'
    BY <1>0, <1>1, <2>1 DEF ConFits
  <2>5. life = "open" => con = "end"
    BY <1>0, <2>1 DEF ConFits
  <2>6. con # "none"
    BY <1>0, <2>1 DEF ConFits
  <2>7. CountMatters' => NoneCounted'
    <3> SUFFICES ASSUME life = "open", ~ uncounted, adding[1] # 1 PROVE NoneCounted'
      BY <1>1, <2>1 DEF CountMatters
    <3>1. NoneCounted
      BY <1>0, <2>5 DEF CountInv, CountMatters
    <3>2. \A id : ~ NotCounted(id)
      BY DEF NotCounted
    <3>3. RoomClaims' = {} /\ Successes(queue') = {}
      BY <1>2, <3>1, <3>2 DEF NoneCounted
    <3> QED BY <3>3 DEF NoneCounted
  <2>8. CountInv'
    BY <1>1, <1>2, <2>1, <2>5, <2>6, <2>7 DEF CountInv, CountMatters
  <2> QED BY <1>2, <2>3, <2>4, <2>8
<1>7. CASE ConSubscribe
  <2>1. con = "subscribe" /\ con' = "run" /\ UNCHANGED <<conDone, number, adding, uncounted>>
    BY <1>7 DEF ConSubscribe
  <2>2. ConTyped' /\ ConFits'
    BY <1>0, <1>1, <2>1 DEF ConTyped, ConFits
  <2>3. Due' = Due
    BY <2>1 DEF Due
  <2>4. NoneCounted => NoneCounted'
    BY <1>2, <1>4, <2>1 DEF NoneCounted, NotCounted
  <2>5. CountInv'
    BY <1>0, <1>1, <1>2, <2>1, <2>3, <2>4 DEF CountInv, CountMatters
  <2> QED BY <1>2, <2>2, <2>5
<1>8. CASE ConTick \/ ConClosed
  <2>1. /\ con = "run" /\ con' = "end" /\ conDone' = TRUE /\ number' = 0
        /\ UNCHANGED <<adding, uncounted>>
    BY <1>8 DEF ConTick, ConClosed, ConEnds
  <2>2. ConTyped' /\ ConFits'
    BY <1>0, <1>1, <2>1 DEF ConTyped, ConFits
  <2>3. life = "open" => number <= 0
    BY <1>0, <1>8, <2>1 DEF ConTick, ConClosed, ConFits
  <2>4. CountMatters => NoneCounted
    <3> SUFFICES ASSUME life = "open", CountMatters PROVE NoneCounted
      BY DEF CountMatters
    <3>1. CASE Due = 1
      BY <1>0, <2>1, <2>3, <3>1 DEF CountInv
    <3>2. CASE Due # 1
      <4>1. Load <= number + Due
        BY <1>0, <2>1 DEF CountInv
      <4>2. Load <= 0
        BY <1>0, <1>2, <1>3, <2>3, <3>2, <4>1
      <4> QED BY <1>0, <4>2, NoLoad
    <3> QED BY <3>1, <3>2
  <2>5. CountMatters => NoneCounted'
    BY <1>2, <1>4, <2>1, <2>4 DEF NoneCounted, NotCounted
  <2>6. CountInv'
    BY <1>1, <1>2, <2>1, <2>5 DEF CountInv, CountMatters
  <2> QED BY <1>2, <2>2, <2>6
<1> QED BY <1>5, <1>6, <1>7, <1>8 DEF UserCon

\* A Leave that is taken is a claim less, and what is to be taken off the count.
LEMMA LeaveFed ==
    ASSUME FedInv, EventLeave
    PROVE  RoomsInv' /\ ConTyped' /\ ConFits' /\ CountInv'
<1>0. /\ AskInv /\ RoomsInv /\ ConTyped /\ ConFits /\ CountInv /\ Finite /\ Owner \in Loops
      /\ queue \in [Loops -> Seq(Messages)] /\ IsFiniteSet(Claims(queue)) /\ number \in Int
  BY DEF FedInv, AskInv, AskTyped, ConTyped, CountInv, Finite, Loops
<1>1. /\ adding = <<>> /\ adding' = IF con = "none" THEN adding ELSE <<-1, <<>>>>
      /\ queue[Owner] # <<>> /\ Head(queue[Owner]).event = "Leave" /\ queue' = Rest(Owner)
      /\ UNCHANGED <<life, session, known, con, conDone, number, uncounted>>
      /\ UNCHANGED <<remoteVars, guestVars>>
  BY DEF EventLeave, Takes, Delivered, ownerVars
<1>2. QueueQuiet
  BY <1>0, <1>1, QueueTaken
<1>3. RoomsInv' /\ RoomClaims' = RoomClaims /\ \A g \in Guests : reqId'[g] = reqId[g]
  BY <1>0, <1>1, <1>2, QuietFindsWay, OwnerRooms
<1>4. /\ IsFiniteSet(Claims(queue')) /\ Cardinality(Claims(queue')) \in Nat
      /\ Cardinality(Claims(queue)) \in Nat
      /\ Cardinality(Claims(queue')) + 1 <= Cardinality(Claims(queue))
  BY <1>0, <1>1, ClaimTaken DEF Rest, IsClaim
<1>5. Load \in Nat /\ Load' \in Nat /\ Load' < Load /\ Finite'
  <2>1. Load' = Cardinality(Claims(queue')) + Cardinality(RoomClaims)
    BY <1>3 DEF Load
  <2>2. Finite'
    BY <1>0, <1>3, <1>4 DEF Finite
  <2>3. Cardinality(RoomClaims) \in Nat
    BY <1>0, LoadType
  <2> QED BY <1>4, <2>1, <2>2, <2>3 DEF Load
<1>6. con # "none"
  <2>1. con = "none" => Load = 0
    BY <1>0 DEF CountInv
  <2> QED BY <1>5, <2>1
<1>7. Due = 0 /\ Due' = -1 /\ adding' = <<-1, <<>>>>
  BY <1>1, <1>6 DEF Due
<1>8. ConTyped' /\ ConFits'
  BY <1>0, <1>1, <1>6, <1>7 DEF ConTyped, ConFits
<1>9. NoneCounted => NoneCounted'
  <2>1. \A id : NotCounted(id) => NotCounted(id)'
    BY <1>1 DEF NotCounted
  <2>2. RoomClaims \subseteq Guests
    BY DEF RoomClaims
  <2> QED BY <1>1, <1>2, <1>3, <2>2 DEF NoneCounted, NotCounted, QueueQuiet
<1>10. CountInv'
  <2>1. CountMatters /\ con \in {"subscribe", "run"} => Load' <= number + Due'
    <3>1. CountMatters /\ con \in {"subscribe", "run"} => Load <= number
      BY <1>0, <1>7 DEF CountInv
    <3> QED BY <1>0, <1>5, <1>7, <3>1
  <2>2. CountMatters /\ con = "end" => NoneCounted
    BY <1>0 DEF CountInv
  <2>3. CountMatters' = CountMatters
    BY <1>1 DEF CountMatters
  <2> QED BY <1>1, <1>5, <1>6, <1>7, <1>9, <2>1, <2>2, <2>3 DEF CountInv
<1> QED BY <1>3, <1>8, <1>10

\* A Join is answered: a claim more, for the connection that is made, or that it is to
\* be added to when it waits in addSubscribeCount.
LEMMA JoinFed ==
    ASSUME FedInv, EventJoin
    PROVE  RoomsInv' /\ ConTyped' /\ ConFits' /\ CountInv'
<1> DEFINE join == Head(queue[Owner])
           success == [event |-> "JoinSuccess", id |-> join.id]
           rest == Rest(Owner)
<1>0. /\ AskInv /\ RoomsInv /\ ConTyped /\ ConFits /\ CountInv /\ Finite /\ Owner \in Loops
      /\ queue \in [Loops -> Seq(Messages)] /\ IsFiniteSet(Claims(queue)) /\ number \in Int
      /\ AskTyped /\ SuccessesFindTheirWay
  BY DEF FedInv, AskInv, AskTyped, ConTyped, CountInv, Finite, Loops, RoomsInv
<1>1. /\ adding = <<>> /\ queue[Owner] # <<>> /\ join.event = "Join"
      /\ UNCHANGED <<life, session, known, conDone>>
      /\ UNCHANGED <<remoteVars, guestVars>>
  BY DEF EventJoin, Takes, ownerVars
<1>2. /\ rest \in [Loops -> Seq(Messages)] /\ join \in Messages
  BY <1>0, <1>1, RestType
<1>3. join.id \in ReqIds /\ join.id[1] \in Loops
  BY <1>1, <1>2 DEF Messages, ReqIds, Loops
<1>4. /\ IsFiniteSet(Claims(rest)) /\ Cardinality(Claims(rest)) \in Nat
      /\ Cardinality(Claims(queue)) \in Nat
      /\ Cardinality(Claims(rest)) <= Cardinality(Claims(queue))
      /\ Successes(rest) \subseteq Successes(queue)
  BY <1>0, <1>1, ClaimTaken, SuccessTaken DEF Rest
<1>5. success \in Messages /\ success.event = "JoinSuccess" /\ success.id = join.id
  BY <1>3 DEF Messages
<1>6. \/ /\ con # "none" /\ UNCHANGED <<con, number, uncounted>>
         /\ queue' = Sent(rest, {join.id[1]}, success) /\ adding' = <<1, join.id>>
      \/ /\ con # "none" /\ UNCHANGED <<con, number, adding>>
         /\ queue' = Sent(rest, {join.id[1]}, success)
         /\ uncounted' = (uncounted \/ life = "open")
      \/ /\ UNCHANGED <<con, number, adding, uncounted>> /\ queue' = rest
      \/ /\ con = "none" /\ life = "open" /\ con' = "subscribe" /\ number' = 1
         /\ UNCHANGED <<adding, uncounted>>
         /\ queue' = Sent(rest, {join.id[1]}, success) \/ queue' = rest
  BY DEF EventJoin, Publish, PublishErr, Delivered
<1> HIDE DEF success
<1> DEFINE to == join.id[1]
           id == join.id
<1>7. /\ queue' = Sent(rest, {to}, success) =>
            /\ IsFiniteSet(Claims(queue')) /\ Cardinality(Claims(queue')) \in Nat
            /\ Cardinality(Claims(queue')) <= Cardinality(Claims(rest)) + 1
            /\ \A y \in Successes(queue') : y \in Successes(rest) \/ (y[1] = to /\ y[2] = id)
      /\ to = id[1] /\ id \in ReqIds
  <2>1. to \in Loops
    BY <1>3
  <2>2. to = id[1] /\ id \in ReqIds /\ success.id = id
    BY <1>3, <1>5
  <2> HIDE DEF to, id, rest
  <2>3. ASSUME queue' = Sent(rest, {to}, success)
        PROVE  /\ IsFiniteSet(Claims(queue')) /\ Cardinality(Claims(queue')) \in Nat
               /\ Cardinality(Claims(queue')) <= Cardinality(Claims(rest)) + 1
               /\ \A y \in Successes(queue') : y \in Successes(rest) \/ (y[1] = to /\ y[2] = id)
    <3>1. /\ IsFiniteSet(Claims(queue')) /\ Cardinality(Claims(queue')) \in Nat
          /\ Cardinality(Claims(rest)) \in Nat
          /\ Cardinality(Claims(queue')) <= Cardinality(Claims(rest)) + 1
      BY <1>2, <1>4, <1>5, <2>1, <2>3, OneSent
    <3>2. \A y \in Successes(queue') : y \in Successes(rest) \/ (y[1] = to /\ y[2] = success.id)
      <4> DEFINE k == to
      <4>1. k \in Loops /\ queue' = Sent(rest, {k}, success)
        BY <2>1, <2>3
      <4> HIDE DEF k
      <4>2. \A y \in Successes(queue') : y \in Successes(rest) \/ (y[1] = k /\ y[2] = success.id)
        <5> DEFINE r == queue'
        <5>1. /\ \A m \in Loops : r[m] \in {rest[m], Append(rest[m], success)}
              /\ \A m \in Loops \ {k} : r[m] = rest[m]
          BY <4>1 DEF Sent
        <5> HIDE DEF r
        <5>2. Successes(r) \subseteq Successes(rest) \cup {<<k, success.id>>}
          BY <1>2, <1>5, <4>1, <5>1, OneSuccess
        <5> QED BY <5>2 DEF r
      <4> QED BY <4>2 DEF k
    <3> QED BY <2>2, <3>1, <3>2
  <2> QED BY <2>2, <2>3
<1> HIDE DEF join, rest, to, id
<1>8. queue' = rest => QueueQuiet
  BY <1>0, <1>1, QueueTaken DEF rest
<1>9. SuccessesFindTheirWay'
  <2>1. CASE queue' = rest
    BY <1>0, <1>8, <2>1, QuietFindsWay
  <2>2. CASE queue' = Sent(rest, {to}, success)
    BY <1>0, <1>4, <1>7, <2>2 DEF SuccessesFindTheirWay
  <2> QED BY <1>6, <2>1, <2>2 DEF to
<1>10. /\ RoomsInv' /\ RoomClaims' = RoomClaims /\ \A g \in Guests : reqId'[g] = reqId[g]
       /\ RoomClaims \subseteq Guests /\ Cardinality(RoomClaims) \in Nat /\ IsFiniteSet(RoomClaims)
       /\ Load \in Nat
  BY <1>0, <1>1, <1>9, OwnerRooms, LoadType DEF RoomClaims, Finite
<1>11. /\ queue' = Sent(rest, {to}, success) \/ queue' = rest
       /\ Finite' /\ Load' <= Load + 1 /\ Load' \in Nat
  <2>1. queue' = Sent(rest, {to}, success) \/ queue' = rest
    BY <1>6 DEF to
  <2>2. /\ IsFiniteSet(Claims(queue')) /\ Cardinality(Claims(queue')) \in Nat
        /\ Cardinality(Claims(queue')) <= Cardinality(Claims(queue)) + 1
    BY <1>4, <1>7, <2>1
  <2>3. Load' = Cardinality(Claims(queue')) + Cardinality(RoomClaims)
    BY <1>10 DEF Load
  <2> QED BY <1>4, <1>10, <2>1, <2>2, <2>3 DEF Load, Finite
<1>12. CASE UNCHANGED <<con, number, adding, uncounted>> /\ queue' = rest
  <2>1. ConTyped' /\ ConFits'
    BY <1>0, <1>1, <1>12 DEF ConTyped, ConFits
  <2>2. CountInv'
    BY <1>0, <1>1, <1>8, <1>10, <1>12, CountQuiet
  <2> QED BY <1>10, <2>1, <2>2
<1>13. CASE /\ con = "none" /\ life = "open" /\ con' = "subscribe" /\ number' = 1
            /\ UNCHANGED <<adding, uncounted>>
  <2>1. Load = 0
    BY <1>0, <1>13 DEF CountInv
  <2>2. Due' = 0
    BY <1>1, <1>13 DEF Due
  <2>3. ConTyped'
    BY <1>0, <1>1, <1>13 DEF ConTyped
  <2>4. ConFits'
    BY <1>0, <1>1, <1>13 DEF ConFits
  <2>5. CountInv'
    BY <1>1, <1>11, <1>13, <2>1, <2>2 DEF CountInv, CountMatters
  <2> QED BY <1>10, <2>3, <2>4, <2>5
<1>15. CASE /\ con # "none" /\ UNCHANGED <<con, number, adding>>
            /\ uncounted' = (uncounted \/ life = "open")
  <2>1. ConTyped' /\ ConFits'
    BY <1>0, <1>1, <1>15 DEF ConTyped, ConFits
  <2>2. ~ CountMatters'
    BY <1>1, <1>15 DEF CountMatters
  <2>3. CountInv'
    BY <1>11, <1>15, <2>2 DEF CountInv
  <2> QED BY <1>10, <2>1, <2>3
<1>14. CASE /\ con # "none" /\ UNCHANGED <<con, number, uncounted>>
            /\ queue' = Sent(rest, {to}, success) /\ adding' = <<1, id>>
  <2>1. ConTyped'
    <3>1. adding' \in {<<>>, <<-1, <<>>>>} \cup ({1} \X ReqIds)
      BY <1>7, <1>14
    <3> QED BY <1>0, <1>1, <1>14, <3>1 DEF ConTyped
  <2>2. ConFits'
    BY <1>0, <1>1, <1>14 DEF ConFits
  <2>3. Due = 0 /\ Due' = 1
    BY <1>1, <1>14 DEF Due
  <2>4. NoneCounted => NoneCounted'
    <3> SUFFICES ASSUME NoneCounted PROVE NoneCounted'
      OBVIOUS
    <3>1. RoomClaims = {} /\ Successes(queue) = {}
      BY <1>1 DEF NoneCounted, NotCounted
    <3>2. \A y \in Successes(queue') : y[2] = id
      BY <1>4, <1>7, <1>14, <3>1
    <3> QED BY <1>10, <1>14, <3>1, <3>2 DEF NoneCounted, NotCounted
  <2>5. ASSUME CountMatters, con \in {"subscribe", "run"}, number <= 0
        PROVE  NoneCounted
    <3>1. Load <= number
      BY <1>0, <2>3, <2>5 DEF CountInv
    <3>2. Load <= 0
      BY <1>0, <1>10, <2>5, <3>1
    <3> QED BY <1>0, <3>2, NoLoad
  <2>6. CountMatters /\ con \in {"subscribe", "run"} => Load' <= number' + Due'
    <3> SUFFICES ASSUME CountMatters, con \in {"subscribe", "run"} PROVE Load' <= number' + Due'
      OBVIOUS
    <3>1. Load <= number
      BY <1>0, <2>3 DEF CountInv
    <3> QED BY <1>0, <1>10, <1>11, <1>14, <2>3, <3>1
  <2>7. CountMatters /\ con = "end" => NoneCounted
    BY <1>0 DEF CountInv
  <2>9. CountMatters' = CountMatters
    BY <1>1, <1>14 DEF CountMatters
  <2>8. CountInv'
    BY <1>1, <1>11, <1>14, <2>4, <2>5, <2>6, <2>7, <2>9 DEF CountInv
  <2> QED BY <1>10, <2>1, <2>2, <2>8
<1> QED BY <1>6, <1>12, <1>13, <1>14, <1>15 DEF to, id

-----------------------------------------------------------------------------
\* No more faults happen than the bound allows.
FaultsFit == faults \in 0..MaxFaults

\* Every step keeps to them.
LEMMA FaultsStep == FaultsFit /\ [Next]_vars => FaultsFit'
<1> SUFFICES ASSUME FaultsFit, [Next]_vars PROVE FaultsFit'
  OBVIOUS
<1>1. CASE UNCHANGED faults \/ Fault
  BY <1>1, FaultsAssumption DEF FaultsFit, Fault
<1>2. CASE UNCHANGED vars
  BY <1>1, <1>2 DEF vars
<1>3. CASE Session \/ UserCon \/ RoomClosesCon \/ RoomEnds
  <2>1. Session => UNCHANGED faults \/ Fault
    BY DEF Session, Add, Delete
  <2>2. UserCon \/ RoomClosesCon \/ RoomEnds => UNCHANGED faults
    BY DEF UserCon, ConSubscribe, ConTick, ConClosed, ConEnds, RoomClosesCon, RoomEnds
  <2> QED BY <1>1, <1>3, <2>1, <2>2
<1>4. CASE OwnerLoop
  <2>1. RequestExit => UNCHANGED faults \/ Fault
    BY DEF RequestExit, Publish, PublishErr
  <2>2. EventJoin => UNCHANGED faults \/ Fault
    BY DEF EventJoin, Publish, PublishErr, Delivered
  <2>3. EventLeave \/ CountTaken \/ CountDone => UNCHANGED faults
    BY DEF EventLeave, Delivered, CountTaken, CountDone
  <2> QED BY <1>1, <1>4, <2>1, <2>2, <2>3 DEF OwnerLoop
<1>5. ASSUME NEW m \in Managers, RemoteLoop(m) PROVE FaultsFit'
  <2>1. ResultSuccess(m) => UNCHANGED faults \/ Fault
    BY DEF ResultSuccess, Delivered
  <2>2. EventExit(m) => UNCHANGED faults
    BY DEF EventExit, Delivered
  <2>3. \A g \in Guests : RemoveProxyRoom(m, g) => UNCHANGED faults \/ Fault
    BY DEF RemoveProxyRoom, Delivered, Publish, PublishErr
  <2>4. \A g \in Guests : GetJoin(m, g) => UNCHANGED faults \/ Fault
    BY DEF GetJoin, Delivered, Publish, PublishErr
  <2> QED BY <1>1, <1>5, <2>1, <2>2, <2>3, <2>4 DEF RemoteLoop
<1>6. ASSUME NEW m \in Loops, Lose(m) PROVE FaultsFit'
  BY <1>1, <1>6 DEF Lose
<1>7. ASSUME NEW g \in Guests,
             \/ GetNothing(g) \/ TakeReply(g) \/ Cancel(g) \/ GuestLeaves(g)
             \/ ProxyEnds(g, "done") \/ ProxyEnds(g, "idle") \/ ProxiedRoomEmpty(g)
      PROVE  FaultsFit'
  <2>1. GetNothing(g) => UNCHANGED faults \/ Fault
    BY DEF GetNothing
  <2>2. TakeReply(g) \/ Cancel(g) \/ GuestLeaves(g) => UNCHANGED faults
    BY DEF TakeReply, Cancel, GuestLeaves
  <2>3. ProxyEnds(g, "done") \/ ProxyEnds(g, "idle") \/ ProxiedRoomEmpty(g) => UNCHANGED faults
    BY DEF ProxyEnds, ProxiedRoomEmpty
  <2> QED BY <1>1, <1>7, <2>1, <2>2, <2>3
<1>8. ASSUME NEW g \in Guests, NEW m \in Reach[g], GetAsks(m, g) PROVE FaultsFit'
  BY <1>1, <1>8 DEF GetAsks
<1> QED BY <1>2, <1>3, <1>4, <1>5, <1>6, <1>7, <1>8 DEF Next

\* Every step keeps the whole invariant.
LEMMA FedStep == FedInv /\ [Next]_vars => FedInv'
<1> SUFFICES ASSUME FedInv, [Next]_vars PROVE FedInv'
  OBVIOUS
<1>1. AskInv'
  BY AskStep DEF FedInv
<1> DEFINE Others == RoomsInv' /\ ConTyped' /\ ConFits' /\ CountInv'
<1>2. CASE UNCHANGED vars
  <2>1. UNCHANGED <<remoteVars, guestVars, queue>> /\ UNCHANGED <<ownerVars, conVars>>
    BY <1>2 DEF vars
  <2>2. RoomsInv' /\ RoomClaims' = RoomClaims /\ QueueQuiet /\ \A g \in Guests : reqId'[g] = reqId[g]
    BY <2>1, OwnerStill
  <2>3. Others
    BY <2>1, <2>2, QuietStep DEF RoomClaims
  <2> QED BY <1>1, <2>3 DEF FedInv
<1>3. CASE Session \/ RoomClosesCon \/ RoomEnds
  BY <1>1, <1>3, SessionFed DEF FedInv
<1>4. CASE RequestExit
  BY <1>1, <1>4, RequestExitFed DEF FedInv
<1>5. CASE EventJoin
  BY <1>1, <1>5, JoinFed DEF FedInv
<1>6. CASE EventLeave
  BY <1>1, <1>6, LeaveFed DEF FedInv
<1>7. CASE CountTaken \/ CountDone \/ UserCon
  BY <1>1, <1>7, ConFed DEF FedInv
<1>8. ASSUME NEW m \in Managers, RemoteLoop(m) PROVE FedInv'
  <2>1. Others
    BY <1>8, SuccessFed, ExitFed, RemoveFed, GetJoinFed DEF RemoteLoop
  <2> QED BY <1>1, <2>1 DEF FedInv
<1>9. ASSUME NEW m \in Loops, Lose(m) PROVE FedInv'
  BY <1>1, <1>9, LoseFed DEF FedInv
<1>10. ASSUME NEW g \in Guests,
              \/ GetNothing(g) \/ TakeReply(g) \/ Cancel(g) \/ GuestLeaves(g)
              \/ ProxyEnds(g, "done") \/ ProxyEnds(g, "idle") \/ ProxiedRoomEmpty(g)
       PROVE  FedInv'
  BY <1>1, <1>10, GuestFed DEF FedInv
<1>11. ASSUME NEW g \in Guests, NEW m \in Reach[g], GetAsks(m, g) PROVE FedInv'
  BY <1>1, <1>11, GetAsksFed DEF FedInv
<1> QED BY <1>2, <1>3, <1>4, <1>5, <1>6, <1>7, <1>8, <1>9, <1>10, <1>11 DEF Next, OwnerLoop

\* The invariant has the types, ...
LEMMA FedTyped == FedInv /\ FaultsFit => TypeOK
<1> SUFFICES ASSUME FedInv, FaultsFit PROVE TypeOK
  OBVIOUS
<1>1. AskTyped /\ RoomsTyped /\ CachedAreRooms /\ ConTyped
  BY DEF FedInv, AskInv, RoomsInv
<1>2. \A m \in Managers : cache[m] # Nobody => reqId[cache[m]][1] = m
  BY <1>1 DEF CachedAreRooms
<1>3. \A m \in Loops : queue[m] \in Seq(Messages)
  BY <1>1 DEF AskTyped
<1> QED BY <1>1, <1>2, <1>3 DEF AskTyped, RoomsTyped, ConTyped, FaultsFit, TypeOK

\* ... and a connection for every room that is served and counted: with a room there is
\* one (else there would be no claim), and one that ended counts none.
LEMMA FedFeeds == FedInv => CountedRoomsAreFed
<1> SUFFICES ASSUME FedInv, NEW g \in Guests, room[g] = "live", life = "open",
                    ~ uncounted, adding # <<1, reqId[g]>>
             PROVE  con \in {"subscribe", "run"} /\ ~ conDone
  BY DEF CountedRoomsAreFed
<1>1. ConTyped /\ ConFits /\ CountInv /\ Finite /\ queue \in [Loops -> Seq(Messages)]
  BY DEF FedInv, AskInv, AskTyped, CountInv
<1>2. g \in RoomClaims /\ ~ NotCounted(reqId[g])
  BY DEF RoomClaims, NotCounted
<1>3. con # "none"
  <2>1. con = "none" => Load = 0
    BY <1>1 DEF CountInv
  <2>2. Load = 0 => RoomClaims = {}
    BY <1>1, NoLoad
  <2> QED BY <1>2, <2>1, <2>2
<1>4. con # "end"
  BY <1>1, <1>2 DEF CountInv, CountMatters, NoneCounted
<1> QED BY <1>1, <1>3, <1>4 DEF ConTyped, ConFits

\* The managers, the connection of the owner and the proxied rooms have the types that
\* redis.go and redis_proxy.go give them: the rooms in remoteRoomCache are of the manager
\* that has them, and a room has a proxyRoom.
THEOREM RedisTypeCorrect == Spec => []TypeOK
<1>1. Init => FaultsFit
  BY FaultsAssumption DEF Init, FaultsFit
<1> QED BY <1>1, FedInit, FedStep, FaultsStep, FedTyped, PTL DEF Spec

\* For any number of managers and guests, whatever is lost, fails or comes late, and
\* whether redis had executed a PUBLISH that returned an error or not: as long as every
\* join that was answered was also counted (redis.go:444-450 leaves one out whose PUBLISH
\* was executed but returned an error, or that a connection which has ended is to count),
\* the count of proxyUserCon (redis_conn.go) is never lower than the rooms it serves, and
\* none of them is left without its connection while the session lasts.
THEOREM CountedRoomsStayFed == Spec => []CountedRoomsAreFed
BY FedInit, FedStep, FedFeeds, PTL DEF Spec
=============================================================================
