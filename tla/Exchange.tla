------------------------------ MODULE Exchange ------------------------------
(***************************************************************************)
(* The room registry (pkg/exchange/local.go, initial.go) together with the *)
(* rooms it starts and stops and the goroutines that use them: a session   *)
(* registers its room, subscribes, unsubscribes and unregisters            *)
(* (SwitchSession.Bridge); a guest looks a room up with GetRoom and joins. *)
(* A session's id names its room.                                          *)
(*                                                                         *)
(* One goroutine, localCache.run, serves all calls, and calls stop on a    *)
(* deleted room itself: while that room is busy writing to its connections *)
(* no Add, Delete or Get of any other session is served.                   *)
(*                                                                         *)
(* Of a room only its life is kept: run waits in its select, is busy with  *)
(* connections, or has returned.  Module Room has the rest.                *)
(***************************************************************************)
EXTENDS Naturals, FiniteSets

CONSTANTS
    Sessions,   \* sessions, each with a room of its own
    Guests,     \* goroutines that look rooms up and join them
    Nobody      \* no session

ASSUME UsersAssumption == Nobody \notin Sessions /\ Sessions \cap Guests = {}

Users == Sessions \cup Guests

VARIABLES
    caches,     \* ids in localCache.caches
    loop,       \* localCache.run: "select", "answer" (sending on resultChan)
                \* or "stop" (in stop of a deleted room)
    arg,        \* the id the loop answers for or the room it stops
    found,      \* the room the loop is about to send on resultChan
    stopped,    \* the exit signal was taken; stop has to close done
    room,       \* room[s]: "none", "select", "busy", "end"
    done,       \* done[s]: the channel done of the room is closed
    members,    \* members[s]: who is in connMaps of the room
    closed,     \* users whose connection a room closed
    pc,         \* where each session and guest is
    target      \* target[g]: room the guest asked for

vars == <<caches, loop, arg, found, stopped, room, done, members, closed, pc, target>>
loopVars == <<caches, loop, arg, found, stopped>>
roomVars == <<room, done, members, closed>>

TypeOK ==
    /\ caches \subseteq Sessions
    /\ loop \in {"select", "answer", "stop"}
    /\ arg \in Sessions \cup {Nobody} /\ found \in Sessions \cup {Nobody}
    /\ loop = "select" <=> arg = Nobody
    /\ stopped \in BOOLEAN /\ (stopped => loop = "stop")
    /\ room \in [Sessions -> {"none", "select", "busy", "end"}]
    /\ done \in [Sessions -> BOOLEAN]
    /\ members \in [Sessions -> SUBSET Users]
    /\ closed \subseteq Users
    /\ pc \in [Users -> {"out", "register", "check", "result", "subscribe", "in",
                         "unsubscribe", "unregister", "finished"}]
    /\ target \in [Guests -> Sessions \cup {Nobody}]

Init ==
    /\ caches = {} /\ loop = "select" /\ arg = Nobody /\ found = Nobody
    /\ stopped = FALSE
    /\ room = [s \in Sessions |-> "none"] /\ done = [s \in Sessions |-> FALSE]
    /\ members = [s \in Sessions |-> {}] /\ closed = {}
    /\ pc = [u \in Users |-> "out"]
    /\ target = [g \in Guests |-> Nobody]

Go(u, from, to) == pc[u] = from /\ pc' = [pc EXCEPT ![u] = to]

\* The room a user joins.
RoomOf(u) == IF u \in Sessions THEN u ELSE target[u]
-----------------------------------------------------------------------------
(***************************************************************************)
(* localCache.run.                                                         *)
(***************************************************************************)
ServeAdd(s) ==
    /\ loop = "select"
    /\ Go(s, "register", "subscribe")
    /\ caches' = caches \cup {s}
    /\ room' = [room EXCEPT ![s] = "select"]
    /\ UNCHANGED <<loop, arg, found, stopped, done, members, closed, target>>

\* Fault: the entry of a deleted room stays.
ServeDeleteKeep(s) ==
    /\ loop = "select"
    /\ Go(s, "unregister", "finished")
    /\ loop' = "stop" /\ arg' = s
    /\ UNCHANGED <<caches, found, stopped, roomVars, target>>

ServeDelete(s) ==
    /\ loop = "select"
    /\ Go(s, "unregister", "finished")
    /\ caches' = caches \ {s}
    /\ loop' = "stop" /\ arg' = s
    /\ UNCHANGED <<found, stopped, roomVars, target>>

\* Fault: the answer is sent by a goroutine of its own.
ServeCheckAside(g) ==
    /\ loop = "select"
    /\ Go(g, "check", "result")
    /\ arg' = target[g]
    /\ found' = IF target[g] \in caches THEN target[g] ELSE Nobody
    /\ UNCHANGED <<caches, loop, stopped, roomVars, target>>

ServeCheck(g) ==
    /\ loop = "select"
    /\ Go(g, "check", "result")
    /\ loop' = "answer" /\ arg' = target[g]
    /\ found' = IF target[g] \in caches THEN target[g] ELSE Nobody
    /\ UNCHANGED <<caches, stopped, roomVars, target>>

\* Faults: stop does not watch done; the loop forgets that it is past the signal.
StopReturnNever == FALSE

StopCloseForget ==
    /\ loop = "stop" /\ stopped
    /\ loop' = "select" /\ arg' = Nobody
    /\ done' = [done EXCEPT ![arg] = TRUE]
    /\ UNCHANGED <<caches, found, stopped, room, members, closed, pc, target>>

\* stop of a room that is done returns; its exit signal is otherwise taken by
\* the room's run, and done is closed after that.
StopReturn ==
    /\ loop = "stop" /\ ~ stopped /\ done[arg]
    /\ loop' = "select" /\ arg' = Nobody
    /\ UNCHANGED <<caches, found, stopped, roomVars, pc, target>>

StopClose ==
    /\ loop = "stop" /\ stopped
    /\ loop' = "select" /\ arg' = Nobody /\ stopped' = FALSE
    /\ done' = [done EXCEPT ![arg] = TRUE]
    /\ UNCHANGED <<caches, found, room, members, closed, pc, target>>
-----------------------------------------------------------------------------
(***************************************************************************)
(* Room.run.                                                               *)
(***************************************************************************)
\* Faults: a tick ends a stopped room that has members, or never reaps one.
TickExitWhenDone(s) ==
    /\ room[s] = "select" /\ (members[s] = {} \/ done[s])
    /\ room' = [room EXCEPT ![s] = "end"]
    /\ done' = [done EXCEPT ![s] = TRUE]
    /\ UNCHANGED <<loopVars, members, closed, pc, target>>

NoTickReap(s) == FALSE

TickExit(s) ==
    /\ room[s] = "select" /\ members[s] = {}
    /\ room' = [room EXCEPT ![s] = "end"]
    /\ done' = [done EXCEPT ![s] = TRUE]
    /\ UNCHANGED <<loopVars, members, closed, pc, target>>

TickReap(s) ==
    /\ room[s] = "select" /\ done[s] /\ members[s] # {}
    /\ room' = [room EXCEPT ![s] = "busy"]
    /\ closed' = closed \cup members[s]
    /\ UNCHANGED <<loopVars, done, members, pc, target>>

AcceptExit(s) ==
    /\ room[s] = "select" /\ loop = "stop" /\ arg = s /\ ~ stopped
    /\ stopped' = TRUE
    /\ closed' = closed \cup members[s]
    /\ UNCHANGED <<caches, loop, arg, found, room, done, members, pc, target>>

AcceptSubscribe(u) ==
    /\ pc[u] = "subscribe" /\ room[RoomOf(u)] = "select"
    /\ Go(u, "subscribe", "in")
    /\ members' = [members EXCEPT ![RoomOf(u)] = @ \cup {u}]
    /\ room' = [room EXCEPT ![RoomOf(u)] = "busy"]
    /\ UNCHANGED <<loopVars, done, closed, target>>

AcceptUnSubscribe(u) ==
    /\ pc[u] = "unsubscribe" /\ room[RoomOf(u)] = "select"
    /\ Go(u, "unsubscribe", IF u \in Sessions THEN "unregister" ELSE "finished")
    /\ members' = [members EXCEPT ![RoomOf(u)] = @ \ {u}]
    /\ UNCHANGED <<loopVars, room, done, closed, target>>

\* A broadcast makes run busy with its connections, until all have been written.
Busy(s) ==
    /\ room[s] = "select" /\ members[s] # {}
    /\ room' = [room EXCEPT ![s] = "busy"]
    /\ UNCHANGED <<loopVars, done, members, closed, pc, target>>

BusyEnd(s) ==
    /\ room[s] = "busy"
    /\ room' = [room EXCEPT ![s] = "select"]
    /\ UNCHANGED <<loopVars, done, members, closed, pc, target>>
-----------------------------------------------------------------------------
(***************************************************************************)
(* The users.                                                              *)
(***************************************************************************)
Register(s) ==
    /\ Go(s, "out", "register")
    /\ UNCHANGED <<loopVars, roomVars, target>>

GetRoom(g) ==
    /\ Go(g, "out", "check")
    /\ \E s \in Sessions : target' = [target EXCEPT ![g] = s]
    /\ UNCHANGED <<loopVars, roomVars>>

\* The second half of Get: the answer arrives; nil ends the attempt.
Result(g) ==
    /\ loop = "answer"
    /\ Go(g, "result", IF found = Nobody THEN "finished" ELSE "subscribe")
    /\ loop' = "select" /\ arg' = Nobody /\ found' = Nobody
    /\ target' = [target EXCEPT ![g] = found]
    /\ UNCHANGED <<caches, stopped, roomVars>>

Leave(u) ==
    /\ Go(u, "in", "unsubscribe")
    /\ UNCHANGED <<loopVars, roomVars, target>>
-----------------------------------------------------------------------------
Next ==
    \/ StopReturn \/ StopClose
    \/ \E s \in Sessions :
          \/ ServeAdd(s) \/ ServeDelete(s) \/ Register(s)
          \/ TickExit(s) \/ TickReap(s) \/ AcceptExit(s) \/ Busy(s) \/ BusyEnd(s)
    \/ \E g \in Guests : ServeCheck(g) \/ GetRoom(g) \/ Result(g)
    \/ \E u \in Users : AcceptSubscribe(u) \/ AcceptUnSubscribe(u) \/ Leave(u)

Spec == Init /\ [][Next]_vars

(***************************************************************************)
(* The registry's loop serves whoever calls, a room's writes return and a  *)
(* user whose connection was closed leaves (WF).  A case of a room's       *)
(* select that is ready again and again is taken in the end, as the choice *)
(* is random (SF).  Calls of one kind are taken together: there are as     *)
(* many as there are users, so none can be passed over for ever.           *)
(***************************************************************************)
Fairness ==
    /\ WF_vars(\/ StopReturn \/ StopClose
               \/ \E x \in Sessions : ServeAdd(x) \/ ServeDelete(x)
               \/ \E g \in Guests : ServeCheck(g) \/ Result(g))
    /\ \A x \in Sessions : WF_vars(BusyEnd(x) \/ TickExit(x)) /\ SF_vars(TickReap(x))
    /\ SF_vars(\E x \in Sessions : AcceptExit(x))
    /\ SF_vars(\E u \in Users : AcceptUnSubscribe(u))
    /\ WF_vars(\E u \in closed : Leave(u))

FairSpec == Spec /\ Fairness
-----------------------------------------------------------------------------
\* Get is two handovers, checkChan and resultChan; the answer still goes to the
\* guest who asked, and it is the answer to its question: when one waits for a
\* result it is the only one, and the loop is about to answer for its room.
AnswerGoesToAsker ==
    /\ \A g \in Guests : pc[g] = "result" =>
          loop = "answer" /\ arg = target[g] /\ found \in {arg, Nobody}
    /\ Cardinality({g \in Guests : pc[g] = "result"}) <= 1

\* A subscribed user finds its room's run there when it unsubscribes, whatever
\* the owner of the room, its guests and the registry do meanwhile.
RoomOutlivesMembers ==
    \A u \in Users : pc[u] \in {"in", "unsubscribe"} =>
                       u \in members[RoomOf(u)] /\ room[RoomOf(u)] \in {"select", "busy"}

\* When a session's UnRegister has returned and the registry is past its stop,
\* the room is out of the registry and done: no later Get finds it.
FinishedIsStopped ==
    \A s \in Sessions : pc[s] = "finished" /\ arg # s => s \notin caches /\ done[s]

\* A finished session leaves no room goroutine behind, guests or not: they are
\* closed by the exit signal, or by a tick when they came after it.
FinishedRoomEnds == \A s \in Sessions : (pc[s] = "finished") ~> (room[s] = "end")

\* Every Add, Delete and Get is answered, also while another room is stopped.
RegistryAnswers ==
    /\ \A s \in Sessions : /\ (pc[s] = "register") ~> (pc[s] # "register")
                           /\ (pc[s] = "unregister") ~> (pc[s] = "finished")
    /\ \A g \in Guests : (pc[g] \in {"check", "result"}) ~> (pc[g] \notin {"check", "result"})
=============================================================================
