--------------------------- MODULE ExchangeProofs ---------------------------
(* Theorems about Exchange, for any sessions and guests.                   *)
EXTENDS Exchange, FiniteSetTheorems, TLAPS

-----------------------------------------------------------------------------
(* Types, and that who is about to join a room, or is in it, knows which.  *)
Joining == {"check", "result", "subscribe", "in", "unsubscribe"}

RoomsAreKnown ==
    \A g \in Guests : pc[g] \in Joining => target[g] \in Sessions

ExchangeTyped == TypeOK /\ RoomsAreKnown

\* In the beginning nobody knows a room.
LEMMA TypeInit == Init => ExchangeTyped
<1> SUFFICES ASSUME Init PROVE ExchangeTyped
  OBVIOUS
<1>1. TypeOK
  BY UsersAssumption DEF Init, TypeOK
<1>2. RoomsAreKnown
  BY DEF Init, RoomsAreKnown, Joining, Users
<1> QED BY <1>1, <1>2 DEF ExchangeTyped

\* A user who joins or leaves does so at a room of the sessions'.
LEMMA RoomType ==
    ASSUME ExchangeTyped, NEW u \in Users, pc[u] \in {"subscribe", "in", "unsubscribe"}
    PROVE  RoomOf(u) \in Sessions
BY DEF ExchangeTyped, RoomsAreKnown, Joining, RoomOf, Users

\* Every step of the registry, the rooms and their users keeps the types.
LEMMA TypeStep == ExchangeTyped /\ [Next]_vars => ExchangeTyped'
<1> SUFFICES ASSUME ExchangeTyped, [Next]_vars PROVE ExchangeTyped'
  OBVIOUS
<1>0. TypeOK /\ RoomsAreKnown
  BY DEF ExchangeTyped
<1> USE DEF ExchangeTyped
<1>1. CASE StopReturn \/ StopClose
  <2>1. UNCHANGED <<pc, target>>
    BY <1>1 DEF StopReturn, StopClose
  <2>2. CASE StopReturn
    BY <1>0, <2>1, <2>2 DEF StopReturn, TypeOK, RoomsAreKnown, roomVars
  <2>3. CASE StopClose
    <3>1. done' \in [Sessions -> BOOLEAN]
      BY <1>0, <2>3 DEF StopClose, TypeOK
    <3> QED BY <1>0, <2>1, <2>3, <3>1 DEF StopClose, TypeOK, RoomsAreKnown
  <2> QED BY <1>1, <2>2, <2>3
<1>2. ASSUME NEW s \in Sessions, ServeAdd(s) \/ ServeDelete(s) PROVE ExchangeTyped'
  <2>1. s \in Users /\ s # Nobody /\ s \notin Guests
    BY UsersAssumption DEF Users
  <2>2. TypeOK'
    BY <1>0, <1>2, <2>1 DEF ServeAdd, ServeDelete, TypeOK, Go, roomVars
  <2>3. RoomsAreKnown'
    BY <1>0, <1>2, <2>1 DEF ServeAdd, ServeDelete, TypeOK, RoomsAreKnown, Go, Users
  <2> QED BY <2>2, <2>3
<1>3. ASSUME NEW s \in Sessions, Register(s) PROVE ExchangeTyped'
  <2>1. s \in Users /\ s \notin Guests
    BY UsersAssumption DEF Users
  <2>2. TypeOK'
    BY <1>0, <1>3, <2>1 DEF Register, TypeOK, Go, roomVars, loopVars
  <2>3. RoomsAreKnown'
    BY <1>0, <1>3, <2>1 DEF Register, TypeOK, RoomsAreKnown, Go, Users
  <2> QED BY <2>2, <2>3
<1>4. ASSUME NEW s \in Sessions, TickExit(s) \/ TickReap(s) \/ AcceptExit(s) \/ Busy(s) \/ BusyEnd(s)
      PROVE  ExchangeTyped'
  <2>1. members[s] \subseteq Users
    BY <1>0 DEF TypeOK
  <2>2. TypeOK'
    <3>1. CASE TickExit(s)
      BY <1>0, <3>1 DEF TickExit, TypeOK, loopVars
    <3>2. CASE TickReap(s)
      BY <1>0, <2>1, <3>2 DEF TickReap, TypeOK, loopVars
    <3>3. CASE AcceptExit(s)
      BY <1>0, <2>1, <3>3 DEF AcceptExit, TypeOK
    <3>4. CASE Busy(s) \/ BusyEnd(s)
      BY <1>0, <3>4 DEF Busy, BusyEnd, TypeOK, loopVars
    <3> QED BY <1>4, <3>1, <3>2, <3>3, <3>4
  <2>3. UNCHANGED <<pc, target>>
    BY <1>4 DEF TickExit, TickReap, AcceptExit, Busy, BusyEnd
  <2> QED BY <1>0, <2>2, <2>3 DEF RoomsAreKnown
<1>5. ASSUME NEW g \in Guests, ServeCheck(g) PROVE ExchangeTyped'
  <2>1. g \in Users /\ target[g] \in Sessions /\ target[g] # Nobody
    BY <1>0, <1>5, UsersAssumption DEF ServeCheck, Go, RoomsAreKnown, Joining, Users
  <2>2. TypeOK'
    BY <1>0, <1>5, <2>1 DEF ServeCheck, TypeOK, Go, roomVars
  <2>3. RoomsAreKnown'
    BY <1>0, <1>5, <2>1 DEF ServeCheck, TypeOK, RoomsAreKnown, Go, Users
  <2> QED BY <2>2, <2>3
<1>6. ASSUME NEW g \in Guests, GetRoom(g) PROVE ExchangeTyped'
  <2>1. g \in Users
    BY DEF Users
  <2>2. TypeOK'
    BY <1>0, <1>6, <2>1 DEF GetRoom, TypeOK, Go, roomVars, loopVars
  <2>3. RoomsAreKnown'
    BY <1>0, <1>6, <2>1 DEF GetRoom, TypeOK, RoomsAreKnown, Go, Users
  <2> QED BY <2>2, <2>3
<1>7. ASSUME NEW g \in Guests, Result(g) PROVE ExchangeTyped'
  <2>1. g \in Users
    BY DEF Users
  <2>2. TypeOK'
    BY <1>0, <1>7, <2>1 DEF Result, TypeOK, Go, roomVars
  <2>3. RoomsAreKnown'
    BY <1>0, <1>7, <2>1 DEF Result, TypeOK, RoomsAreKnown, Joining, Go, Users
  <2> QED BY <2>2, <2>3
<1>8. ASSUME NEW u \in Users, AcceptSubscribe(u) PROVE ExchangeTyped'
  <2>1. RoomOf(u) \in Sessions
    BY <1>8, RoomType DEF AcceptSubscribe
  <2> DEFINE r == RoomOf(u)
  <2>2. /\ members' = [members EXCEPT ![r] = @ \cup {u}] /\ room' = [room EXCEPT ![r] = "busy"]
        /\ pc' = [pc EXCEPT ![u] = "in"] /\ pc[u] = "subscribe"
        /\ UNCHANGED <<loopVars, done, closed, target>>
    BY <1>8 DEF AcceptSubscribe, Go
  <2> HIDE DEF r
  <2>3. TypeOK'
    BY <1>0, <2>1, <2>2 DEF TypeOK, loopVars, r
  <2>4. RoomsAreKnown'
    BY <1>0, <2>2 DEF TypeOK, RoomsAreKnown, Joining
  <2> QED BY <2>3, <2>4
<1>9. ASSUME NEW u \in Users, AcceptUnSubscribe(u) PROVE ExchangeTyped'
  <2>1. RoomOf(u) \in Sessions
    BY <1>9, RoomType DEF AcceptUnSubscribe
  <2> DEFINE r == RoomOf(u)
  <2>2. /\ members' = [members EXCEPT ![r] = @ \ {u}] /\ pc[u] = "unsubscribe"
        /\ \E p \in {"unregister", "finished"} : pc' = [pc EXCEPT ![u] = p]
        /\ UNCHANGED <<loopVars, room, done, closed, target>>
    BY <1>9 DEF AcceptUnSubscribe, Go
  <2> HIDE DEF r
  <2>3. TypeOK'
    BY <1>0, <2>1, <2>2 DEF TypeOK, loopVars, r
  <2>4. RoomsAreKnown'
    BY <1>0, <2>2 DEF TypeOK, RoomsAreKnown, Joining
  <2> QED BY <2>3, <2>4
<1>10. ASSUME NEW u \in Users, Leave(u) PROVE ExchangeTyped'
  <2>1. TypeOK'
    BY <1>0, <1>10 DEF Leave, TypeOK, Go, roomVars, loopVars
  <2>2. RoomsAreKnown'
    BY <1>0, <1>10 DEF Leave, TypeOK, RoomsAreKnown, Joining, Go
  <2> QED BY <2>1, <2>2
<1>11. CASE UNCHANGED vars
  BY <1>0, <1>11 DEF vars, TypeOK, RoomsAreKnown
<1> QED
  BY <1>1, <1>2, <1>3, <1>4, <1>5, <1>6, <1>7, <1>8, <1>9, <1>10, <1>11 DEF Next

\* Every variable of the registry, the rooms and their users keeps its type, for any
\* sessions and guests.
THEOREM ExchangeTypeCorrect == Spec => []TypeOK
<1>1. Spec => []ExchangeTyped
  BY TypeInit, TypeStep, PTL DEF Spec
<1>2. ExchangeTyped => TypeOK
  BY DEF ExchangeTyped
<1> QED BY <1>1, <1>2, PTL

-----------------------------------------------------------------------------
(* Rooms outlive their members.                                            *)

MembersInv == ExchangeTyped /\ RoomOutlivesMembers

\* In the beginning no room has members.
LEMMA MembersInit == Init => MembersInv
BY TypeInit DEF Init, MembersInv, RoomOutlivesMembers

\* Every step keeps who is in a room in it, and the room.
LEMMA MembersStep == MembersInv /\ [Next]_vars => MembersInv'
<1> SUFFICES ASSUME MembersInv, [Next]_vars PROVE MembersInv'
  OBVIOUS
<1>0. ExchangeTyped /\ ExchangeTyped' /\ TypeOK /\ RoomOutlivesMembers
  BY TypeStep DEF MembersInv, ExchangeTyped
<1> SUFFICES ASSUME NEW u \in Users, pc'[u] \in {"in", "unsubscribe"}
             PROVE  u \in members'[RoomOf(u)'] /\ room'[RoomOf(u)'] \in {"select", "busy"}
  BY <1>0 DEF MembersInv, RoomOutlivesMembers
<1> DEFINE kept == u \in members'[RoomOf(u)'] /\ room'[RoomOf(u)'] \in {"select", "busy"}
<1>1. ASSUME pc[u] \in {"in", "unsubscribe"}, UNCHANGED <<target, members, room>> PROVE kept
  BY <1>0, <1>1 DEF RoomOutlivesMembers, RoomOf
<1>2. CASE StopReturn \/ StopClose \/ UNCHANGED vars
  BY <1>1, <1>2 DEF StopReturn, StopClose, roomVars, vars
<1>3. ASSUME NEW s \in Sessions, ServeAdd(s) PROVE kept
  <2>1. pc[u] \in {"in", "unsubscribe"} /\ RoomOf(u) \in Sessions
    BY <1>0, <1>3, RoomType DEF ServeAdd, Go, TypeOK
  <2>2. UNCHANGED <<target, members>> /\ room' = [room EXCEPT ![s] = "select"]
    BY <1>3 DEF ServeAdd
  <2> QED BY <1>0, <2>1, <2>2 DEF RoomOutlivesMembers, RoomOf, TypeOK
<1>4. ASSUME NEW s \in Sessions, ServeDelete(s) \/ Register(s) PROVE kept
  BY <1>0, <1>1, <1>4 DEF ServeDelete, Register, Go, TypeOK, roomVars
<1>5. ASSUME NEW s \in Sessions, TickExit(s) \/ TickReap(s) \/ Busy(s) \/ BusyEnd(s) PROVE kept
  <2>1. UNCHANGED <<pc, target, members>>
    BY <1>5 DEF TickExit, TickReap, Busy, BusyEnd
  <2>2. u \in members[RoomOf(u)] /\ room[RoomOf(u)] \in {"select", "busy"} /\ RoomOf(u)' = RoomOf(u)
    BY <1>0, <2>1 DEF RoomOutlivesMembers, RoomOf
  <2>3. RoomOf(u) \in Sessions
    BY <1>0, <2>1, RoomType
  <2>4. room'[RoomOf(u)] \in {"select", "busy"}
    <3>1. CASE TickExit(s)
      <4>1. s # RoomOf(u) /\ room' = [room EXCEPT ![s] = "end"]
        BY <2>2, <3>1 DEF TickExit
      <4> QED BY <1>0, <2>2, <2>3, <4>1 DEF TypeOK
    <3>2. CASE TickReap(s) \/ Busy(s) \/ BusyEnd(s)
      <4>1. \E r \in {"select", "busy"} : room' = [room EXCEPT ![s] = r]
        BY <3>2 DEF TickReap, Busy, BusyEnd
      <4> QED BY <1>0, <2>2, <2>3, <4>1 DEF TypeOK
    <3> QED BY <1>5, <3>1, <3>2
  <2> QED BY <2>1, <2>2, <2>4
<1>6. ASSUME NEW s \in Sessions, AcceptExit(s) PROVE kept
  BY <1>1, <1>6 DEF AcceptExit
<1>7. ASSUME NEW g \in Guests, ServeCheck(g) \/ GetRoom(g) \/ Result(g) PROVE kept
  <2>1. g \in Users /\ u # g /\ pc[u] \in {"in", "unsubscribe"}
    BY <1>0, <1>7 DEF ServeCheck, GetRoom, Result, Go, TypeOK, Users
  <2>2. UNCHANGED <<members, room>>
    BY <1>7 DEF ServeCheck, GetRoom, Result, roomVars
  <2>3. RoomOf(u)' = RoomOf(u)
    BY <1>0, <1>7, <2>1 DEF ServeCheck, GetRoom, Result, RoomOf, TypeOK, Users
  <2> QED BY <1>0, <2>1, <2>2, <2>3 DEF RoomOutlivesMembers
<1>8. ASSUME NEW v \in Users, AcceptSubscribe(v) PROVE kept
  <2>1. RoomOf(v) \in Sessions
    BY <1>0, <1>8, RoomType DEF AcceptSubscribe
  <2> DEFINE r == RoomOf(v)
             ru == RoomOf(u)
  <2>2. /\ members' = [members EXCEPT ![r] = @ \cup {v}] /\ room' = [room EXCEPT ![r] = "busy"]
        /\ pc' = [pc EXCEPT ![v] = "in"] /\ target' = target /\ RoomOf(u)' = ru
    BY <1>8 DEF AcceptSubscribe, Go, RoomOf
  <2>3. CASE u = v
    BY <1>0, <2>1, <2>2, <2>3 DEF TypeOK
  <2>4. CASE u # v
    <3>1. pc[u] \in {"in", "unsubscribe"}
      BY <1>0, <2>2, <2>4 DEF TypeOK
    <3>2. u \in members[ru] /\ room[ru] \in {"select", "busy"} /\ ru \in Sessions
      BY <1>0, <3>1, RoomType DEF RoomOutlivesMembers
    <3> HIDE DEF r, ru
    <3>3. u \in members'[ru] /\ room'[ru] \in {"select", "busy"}
      BY <1>0, <2>1, <2>2, <3>2 DEF TypeOK, r
    <3> QED BY <2>2, <3>3
  <2> QED BY <2>3, <2>4
<1>9. ASSUME NEW v \in Users, AcceptUnSubscribe(v) PROVE kept
  <2>1. RoomOf(v) \in Sessions
    BY <1>0, <1>9, RoomType DEF AcceptUnSubscribe
  <2> DEFINE r == RoomOf(v)
             ru == RoomOf(u)
  <2>2. /\ members' = [members EXCEPT ![r] = @ \ {v}] /\ room' = room
        /\ \E p \in {"unregister", "finished"} : pc' = [pc EXCEPT ![v] = p]
        /\ target' = target /\ RoomOf(u)' = ru
    BY <1>9 DEF AcceptUnSubscribe, Go, RoomOf
  <2>3. u # v /\ pc[u] \in {"in", "unsubscribe"}
    BY <1>0, <2>2 DEF TypeOK
  <2>4. u \in members[ru] /\ room[ru] \in {"select", "busy"} /\ ru \in Sessions
    BY <1>0, <2>3, RoomType DEF RoomOutlivesMembers
  <2> HIDE DEF r, ru
  <2>5. u \in members'[ru]
    BY <1>0, <2>1, <2>2, <2>3, <2>4 DEF TypeOK, r
  <2> QED BY <2>2, <2>4, <2>5
<1>10. ASSUME NEW v \in Users, Leave(v) PROVE kept
  <2>1. pc[u] \in {"in", "unsubscribe"}
    BY <1>0, <1>10 DEF Leave, Go, TypeOK
  <2> QED BY <1>1, <1>10, <2>1 DEF Leave, roomVars
<1> QED
  BY <1>2, <1>3, <1>4, <1>5, <1>6, <1>7, <1>8, <1>9, <1>10 DEF Next

\* Whatever the owner of a room, its guests and the registry do, a user that subscribed
\* to a room finds the room's run there when it unsubscribes (room_message.go:195, which
\* has no case for done), and the room knows it.
THEOREM RoomsOutliveMembers == Spec => []RoomOutlivesMembers
<1>1. Spec => []MembersInv
  BY MembersInit, MembersStep, PTL DEF Spec
<1>2. MembersInv => RoomOutlivesMembers
  BY DEF MembersInv
<1> QED BY <1>1, <1>2, PTL

-----------------------------------------------------------------------------
(* Answers and finished sessions.                                          *)

\* Who waits for a result is the one the loop answers.
AskersInv ==
    /\ \A g \in Guests : pc[g] = "result" =>
          loop = "answer" /\ arg = target[g] /\ found \in {arg, Nobody}
    /\ \A g, h \in Guests : pc[g] = "result" /\ pc[h] = "result" => g = h

\* A finished session's room is out of the registry, and done unless the loop is at it.
FinishedInv ==
    \A s \in Sessions : pc[s] = "finished" =>
        s \notin caches /\ (done[s] \/ (loop = "stop" /\ arg = s))

RegistryInv == ExchangeTyped /\ AskersInv /\ FinishedInv

\* In the beginning nobody waits and nobody is finished.
LEMMA RegistryInit == Init => RegistryInv
BY TypeInit DEF Init, RegistryInv, AskersInv, FinishedInv, Users

\* The registry's loop takes the next call only when nobody waits for a result.
LEMMA SelectHasNoAsker ==
    ASSUME AskersInv, NEW g \in Guests, loop # "answer"
    PROVE  pc[g] # "result"
BY DEF AskersInv

\* Every step keeps who is answered and what has become of finished sessions.
LEMMA RegistryStep == RegistryInv /\ [Next]_vars => RegistryInv'
<1> SUFFICES ASSUME RegistryInv, [Next]_vars PROVE RegistryInv'
  OBVIOUS
<1>0. TypeOK /\ AskersInv /\ FinishedInv /\ ExchangeTyped /\ ExchangeTyped'
  BY TypeStep DEF RegistryInv, ExchangeTyped
<1> SUFFICES AskersInv' /\ FinishedInv'
  BY <1>0 DEF RegistryInv
<1>1. CASE StopReturn
  BY <1>0, <1>1 DEF StopReturn, AskersInv, FinishedInv, roomVars
<1>2. CASE StopClose
  <2>1. AskersInv'
    BY <1>0, <1>2 DEF StopClose, AskersInv
  <2>2. \A s \in Sessions : done'[s] = (done[s] \/ s = arg)
    BY <1>0, <1>2 DEF StopClose, TypeOK
  <2> QED BY <1>0, <1>2, <2>1, <2>2 DEF StopClose, FinishedInv
<1>3. ASSUME NEW s \in Sessions, ServeAdd(s) \/ ServeDelete(s) \/ Register(s)
      PROVE  AskersInv' /\ FinishedInv'
  <2>1. s \in Users /\ s \notin Guests
    BY UsersAssumption DEF Users
  <2>2. \A u \in Users \ {s} : pc'[u] = pc[u]
    BY <1>0, <1>3 DEF ServeAdd, ServeDelete, Register, Go, TypeOK
  <2>3. \A g \in Guests : pc'[g] = pc[g]
    BY <2>1, <2>2 DEF Users
  <2>4. AskersInv'
    BY <1>0, <1>3, <2>3 DEF ServeAdd, ServeDelete, Register, AskersInv, loopVars
  <2>5. CASE ServeAdd(s)
    <3>1. pc'[s] = "subscribe"
      BY <1>0, <2>1, <2>5 DEF ServeAdd, Go, TypeOK
    <3> QED BY <1>0, <2>2, <2>4, <2>5, <3>1 DEF ServeAdd, FinishedInv, Users
  <2>6. CASE ServeDelete(s)
    BY <1>0, <2>2, <2>4, <2>6 DEF ServeDelete, FinishedInv, Users, roomVars
  <2>7. CASE Register(s)
    <3>1. pc'[s] = "register"
      BY <1>0, <2>1, <2>7 DEF Register, Go, TypeOK
    <3> QED BY <1>0, <2>2, <2>4, <2>7, <3>1 DEF Register, FinishedInv, Users, roomVars, loopVars
  <2> QED BY <1>3, <2>5, <2>6, <2>7
<1>4. ASSUME NEW s \in Sessions, TickExit(s) \/ TickReap(s) \/ AcceptExit(s) \/ Busy(s) \/ BusyEnd(s)
      PROVE  AskersInv' /\ FinishedInv'
  <2>1. UNCHANGED <<pc, target, caches, loop, arg, found>>
    BY <1>4 DEF TickExit, TickReap, AcceptExit, Busy, BusyEnd, loopVars
  <2>2. \A t \in Sessions : done[t] => done'[t]
    BY <1>0, <1>4 DEF TickExit, TickReap, AcceptExit, Busy, BusyEnd, TypeOK
  <2> QED BY <1>0, <2>1, <2>2 DEF AskersInv, FinishedInv
<1>5. ASSUME NEW g \in Guests, ServeCheck(g) \/ GetRoom(g) \/ Result(g)
      PROVE  AskersInv' /\ FinishedInv'
  <2>1. g \in Users /\ g \notin Sessions
    BY UsersAssumption DEF Users
  <2>2. \A u \in Users \ {g} : pc'[u] = pc[u]
    BY <1>0, <1>5 DEF ServeCheck, GetRoom, Result, Go, TypeOK
  <2>3. FinishedInv'
    <3>1. \A s \in Sessions : pc'[s] = pc[s]
      BY <2>1, <2>2 DEF Users
    <3>2. UNCHANGED <<caches, done>>
      BY <1>5 DEF ServeCheck, GetRoom, Result, loopVars, roomVars
    <3>3. loop # "stop" \/ UNCHANGED <<loop, arg>>
      BY <1>5 DEF ServeCheck, GetRoom, Result, loopVars
    <3> QED BY <1>0, <3>1, <3>2, <3>3 DEF FinishedInv
  <2>4. CASE ServeCheck(g)
    <3>1. \A h \in Guests \ {g} : pc'[h] # "result"
      BY <1>0, <2>2, <2>4, SelectHasNoAsker DEF ServeCheck, Users
    <3> QED BY <2>3, <2>4, <3>1 DEF ServeCheck, AskersInv
  <2>5. CASE GetRoom(g)
    <3>1. pc'[g] # "result" /\ \A h \in Guests \ {g} : pc'[h] = pc[h] /\ target'[h] = target[h]
      BY <1>0, <2>1, <2>2, <2>5 DEF GetRoom, Go, TypeOK, Users
    <3> QED BY <1>0, <2>3, <2>5, <3>1 DEF GetRoom, AskersInv, loopVars
  <2>6. CASE Result(g)
    <3>1. pc[g] = "result" /\ pc'[g] # "result"
      BY <1>0, <2>1, <2>6 DEF Result, Go, TypeOK
    <3>2. \A h \in Guests : pc'[h] # "result"
      BY <1>0, <2>2, <3>1 DEF AskersInv, Users
    <3> QED BY <2>3, <3>2 DEF AskersInv
  <2> QED BY <1>5, <2>4, <2>5, <2>6
<1>6. ASSUME NEW u \in Users, AcceptSubscribe(u) \/ AcceptUnSubscribe(u) \/ Leave(u)
      PROVE  AskersInv' /\ FinishedInv'
  <2>1. UNCHANGED <<target, caches, loop, arg, found, done>>
    BY <1>6 DEF AcceptSubscribe, AcceptUnSubscribe, Leave, loopVars, roomVars
  <2>2. /\ \A v \in Users \ {u} : pc'[v] = pc[v]
        /\ pc'[u] # "result" /\ (pc'[u] = "finished" => u \notin Sessions)
    BY <1>0, <1>6 DEF AcceptSubscribe, AcceptUnSubscribe, Leave, Go, TypeOK
  <2>3. AskersInv'
    BY <1>0, <2>1, <2>2 DEF AskersInv, Users
  <2>4. FinishedInv'
    BY <1>0, <2>1, <2>2 DEF FinishedInv, Users
  <2> QED BY <2>3, <2>4
<1>7. CASE UNCHANGED vars
  BY <1>0, <1>7 DEF vars, AskersInv, FinishedInv
<1> QED BY <1>1, <1>2, <1>3, <1>4, <1>5, <1>6, <1>7 DEF Next

\* The invariant holds from the beginning on.
LEMMA RegistryAlways == Spec => []RegistryInv
BY RegistryInit, RegistryStep, PTL DEF Spec

\* Get hands its question and its answer over in two steps (local.go:60), and between
\* them no other guest's question comes: the answer is to its own, for any number of
\* guests that ask at once.
THEOREM AnswersGoToAskers == Spec => []AnswerGoesToAsker
<1>1. RegistryInv => AnswerGoesToAsker
  <2> SUFFICES ASSUME RegistryInv PROVE AnswerGoesToAsker
    OBVIOUS
  <2> DEFINE asking == {g \in Guests : pc[g] = "result"}
  <2>1. asking = {} \/ \E g \in Guests : asking = {g}
    BY DEF RegistryInv, AskersInv
  <2>2. Cardinality(asking) \in {0, 1}
    BY <2>1, FS_EmptySet, FS_Singleton
  <2>3. Cardinality(asking) <= 1
    BY <2>2
  <2> QED BY <2>3 DEF RegistryInv, AskersInv, AnswerGoesToAsker
<1> QED BY <1>1, RegistryAlways, PTL

\* After UnRegister of a session, and the registry's stop of its room, no Get finds the
\* room any more and its Broadcasts return.
THEOREM FinishedAreStopped == Spec => []FinishedIsStopped
<1>1. RegistryInv => FinishedIsStopped
  BY DEF RegistryInv, FinishedInv, FinishedIsStopped
<1> QED BY <1>1, RegistryAlways, PTL
=============================================================================
