------------------------------ MODULE SessionLoop ------------------------------
(***************************************************************************)
(* The session of a logged-in user (pkg/handler): WrapperSession, whose    *)
(* readLoop copies the SSH channel into a pipe that Close breaks and       *)
(* renews; Dispatch, which reads lines from the pipe and works on them;    *)
(* the userReaders of the sessions it proxies, which read the same pipe;   *)
(* and checkMaxIdleTime, which Dispatch tells on checkChan whether it      *)
(* waits for the user.                                                     *)
(*                                                                         *)
(* mux is a sync.RWMutex: readLoop holds it while it writes, a reader      *)
(* while it reads, and once Close waits for it nobody new gets it.  What   *)
(* the user types is a sequence of numbered chunks, each read whole.       *)
(***************************************************************************)
EXTENDS Naturals, Sequences, SequencesExt

CONSTANTS
    Proxied,   \* sessions that Dispatch proxies, one after the other
    MaxTyped   \* bound: chunks the user types

ASSUME SessionAssumption == "menu" \notin Proxied /\ MaxTyped \in Nat

Readers == {"menu"} \cup Proxied

VARIABLES
    link,      \* the SSH channel: "up", "closed", "gone" (with its connection)
    readLoop,  \* "read", "lock", "write", after the break "break" and "close"; "end" when
               \* the channel closed is closed
    err,       \* its last read had an error other than io.EOF
    pipe,      \* "open", "broken"
    at,        \* at[r]: the reader is "away", wants the "lock", sits in the "pipe",
               \* "has" a chunk (userReader), or "end"
    dispatch,  \* "report" (that it waits), "read", "line" (reports that it works),
               \* "work", "proxy", in Close "broken" and "renew", "end"
    checker,   \* checkMaxIdleTime: "select", "cut", "end"
    checkStatus,
    due,       \* a tick waits in the ticker's channel
    typed,     \* chunks typed so far; the last one is in readLoop's buffer
    got,       \* chunks that were read, in order
    lost       \* chunks written to a broken pipe

inputVars == <<readLoop, err, pipe, at, typed, got, lost>>
idleVars == <<checker, checkStatus, due>>
vars == <<link, dispatch, inputVars, idleVars>>

\* The pipe is broken only inside Close or when readLoop has broken off, and Dispatch
\* reads only at its prompt.
TypeOK ==
    /\ link \in {"up", "closed", "gone"} /\ err \in BOOLEAN
    /\ readLoop \in {"read", "lock", "write", "break", "close", "end"}
    /\ (readLoop = "read" => ~ err) /\ (readLoop \in {"break", "close", "end"} => err)
    /\ pipe \in {"open", "broken"} /\ (dispatch \in {"broken", "renew"} => pipe = "broken")
    /\ pipe = "broken" => dispatch \in {"broken", "renew"} \/ readLoop \in {"close", "end"}
    /\ at \in [Readers -> {"away", "lock", "pipe", "has", "end"}]
    /\ at["menu"] \in IF dispatch = "read" THEN {"lock", "pipe"} ELSE {"away"}
    /\ dispatch \in {"report", "read", "line", "work", "proxy", "broken", "renew", "end"}
    /\ checker \in {"select", "cut", "end"} /\ {checkStatus, due} \subseteq BOOLEAN
    /\ typed \in 0..MaxTyped /\ got \in Seq(1..MaxTyped) /\ lost \subseteq 1..MaxTyped

Init ==
    /\ link = "up" /\ readLoop = "read" /\ err = FALSE /\ pipe = "open"
    /\ at = [r \in Readers |-> "away"] /\ dispatch = "report"
    /\ checker = "select" /\ checkStatus = TRUE /\ due = FALSE
    /\ typed = 0 /\ got = <<>> /\ lost = {}

\* Read of reader r looks whether readLoop has ended before it wants the lock.
Reading(r, whenEnded) == at' = [at EXCEPT ![r] = IF readLoop = "end" THEN whenEnded ELSE "lock"]

Goto(from, to) == dispatch = from /\ dispatch' = to
-----------------------------------------------------------------------------
(***************************************************************************)
(* readLoop.  The end of the channel is an io.EOF, at which it reads again *)
(* for ever: that is no step.                                              *)
(***************************************************************************)
LoopRead ==
    /\ readLoop = "read" /\ link = "up" /\ typed < MaxTyped
    /\ readLoop' = "lock" /\ typed' = typed + 1
    /\ UNCHANGED <<link, dispatch, err, pipe, at, got, lost, idleVars>>

\* The connection is gone: a chunk that waits in the channel is still read, but to tell
\* the client that its window is free again fails.
LoopReadFails ==
    /\ readLoop = "read" /\ link = "gone" /\ typed < MaxTyped
    /\ readLoop' = "lock" /\ typed' = typed + 1 /\ err' = TRUE
    /\ UNCHANGED <<link, dispatch, pipe, at, got, lost, idleVars>>

LoopLock ==
    /\ readLoop = "lock" /\ dispatch # "renew" /\ readLoop' = "write"
    /\ UNCHANGED <<link, dispatch, err, pipe, at, typed, got, lost, idleVars>>

LoopOn == readLoop' = IF err THEN "break" ELSE "read"

\* The error of the write is ignored.
LoopWriteFails ==
    /\ readLoop = "write" /\ pipe = "broken"
    /\ LoopOn /\ lost' = lost \cup {typed}
    /\ UNCHANGED <<link, dispatch, err, pipe, at, typed, got, idleVars>>

\* After the break: under the read lock the ends of the pipe are closed, and then the
\* channel closed is.
LoopBreak ==
    /\ readLoop = "break" /\ dispatch # "renew"
    /\ readLoop' = "close" /\ pipe' = "broken"
    /\ UNCHANGED <<link, dispatch, err, at, typed, got, lost, idleVars>>

LoopClose ==
    /\ readLoop = "close" /\ readLoop' = "end"
    /\ UNCHANGED <<link, dispatch, err, pipe, at, typed, got, lost, idleVars>>
-----------------------------------------------------------------------------
(***************************************************************************)
(* WrapperSession.Read, of Dispatch and of userReaders.                    *)
(***************************************************************************)
ReadLock(r) ==
    /\ at[r] = "lock" /\ dispatch # "renew" /\ at' = [at EXCEPT ![r] = "pipe"]
    /\ UNCHANGED <<link, dispatch, readLoop, err, pipe, typed, got, lost, idleVars>>

\* Fault: readLoop writes its buffer again.
HandOverTwice ==
    /\ readLoop = "write" /\ pipe = "open" /\ got' = Append(got, typed)
    /\ UNCHANGED <<link, err, pipe, typed, lost, idleVars, readLoop>>

\* A write and a read of the pipe meet.
HandOver ==
    /\ readLoop = "write" /\ pipe = "open" /\ got' = Append(got, typed)
    /\ LoopOn
    /\ UNCHANGED <<link, err, pipe, typed, lost, idleVars>>

\* ReadLine needs more, has a line, or meets a control-D.
MenuReads ==
    /\ at["menu"] = "pipe" /\ HandOver
    /\ \/ at' = [at EXCEPT !["menu"] = "lock"] /\ UNCHANGED dispatch
       \/ at' = [at EXCEPT !["menu"] = "away"] /\ dispatch' \in {"line", "end"}

\* ReadLine fails, and Dispatch ends.
MenuReadErr ==
    /\ at["menu"] = "pipe" /\ pipe = "broken" /\ Goto("read", "end")
    /\ at' = [at EXCEPT !["menu"] = "away"]
    /\ UNCHANGED <<link, readLoop, err, pipe, typed, got, lost, idleVars>>

UserReads(s) ==
    /\ at[s] = "pipe" /\ HandOver /\ at' = [at EXCEPT ![s] = "has"]
    /\ UNCHANGED dispatch

\* Receive returns, also when the session's room is done.
UserReadsOn(s) ==
    /\ at[s] = "has" /\ Reading(s, "end")
    /\ UNCHANGED <<link, dispatch, readLoop, err, pipe, typed, got, lost, idleVars>>

UserReadErr(s) ==
    /\ at[s] = "pipe" /\ pipe = "broken" /\ at' = [at EXCEPT ![s] = "end"]
    /\ UNCHANGED <<link, dispatch, readLoop, err, pipe, typed, got, lost, idleVars>>
-----------------------------------------------------------------------------
(***************************************************************************)
(* WrapperSession.Close, called by Bridge, in Dispatch's goroutine; it     *)
(* does nothing when readLoop has ended.                                   *)
(***************************************************************************)
\* Fault: the lock is taken before the ends of the pipe are closed.
CloseEndsLocked == Goto("proxy", "renew") /\ UNCHANGED <<link, inputVars, idleVars>>

CloseNot ==
    /\ readLoop = "end" /\ Goto("proxy", "work") /\ UNCHANGED <<link, inputVars, idleVars>>

CloseEnds ==
    /\ readLoop # "end" /\ Goto("proxy", "broken") /\ pipe' = "broken"
    /\ UNCHANGED <<link, readLoop, err, at, typed, got, lost, idleVars>>

CloseLock == Goto("broken", "renew") /\ UNCHANGED <<link, inputVars, idleVars>>

\* Fault: Close does not renew the pipe.
RenewNot ==
    /\ Goto("renew", "work") /\ readLoop # "write" /\ \A r \in Readers : at[r] # "pipe"
    /\ UNCHANGED <<link, inputVars, idleVars>>

Renew ==
    /\ Goto("renew", "work") /\ readLoop # "write" /\ \A r \in Readers : at[r] # "pipe"
    /\ pipe' = "open"
    /\ UNCHANGED <<link, readLoop, err, at, typed, got, lost, idleVars>>
-----------------------------------------------------------------------------
(***************************************************************************)
(* Dispatch.  checkChan is unbuffered: checkMaxIdleTime has to be in its   *)
(* select to take a report.                                                *)
(***************************************************************************)
Report(status) ==
    checker = "select" /\ checkStatus' = status /\ UNCHANGED <<checker, due>>

\* Fault: only the first wait is reported.
ReportWaitOnce ==
    /\ Goto("report", "read") /\ Report(checkStatus) /\ at' = [at EXCEPT !["menu"] = "lock"]
    /\ UNCHANGED <<link, readLoop, err, pipe, typed, got, lost>>

ReportWait ==
    /\ Goto("report", IF readLoop = "end" THEN "end" ELSE "read") /\ Report(TRUE)
    /\ Reading("menu", "away")
    /\ UNCHANGED <<link, readLoop, err, pipe, typed, got, lost>>

\* Fault: Dispatch works on the line without a report.
ReportWorkNot == Goto("line", "work") /\ UNCHANGED <<link, inputVars, idleVars>>

ReportWork == Goto("line", "work") /\ Report(FALSE) /\ UNCHANGED <<link, inputVars>>

\* A line is worked on, or its work over: back to the prompt, or q, r and exit.
WorkEnds ==
    /\ dispatch = "work" /\ dispatch' \in {"report", "end"}
    /\ UNCHANGED <<link, inputVars, idleVars>>

StartProxy(s) ==
    /\ Goto("work", "proxy") /\ at[s] = "away" /\ Reading(s, "end")
    /\ UNCHANGED <<link, readLoop, err, pipe, typed, got, lost, idleVars>>
-----------------------------------------------------------------------------
(***************************************************************************)
(* checkMaxIdleTime.                                                       *)
(***************************************************************************)
\* The ticker fires; it keeps one tick at most.
Tick ==
    /\ checker # "end" /\ ~ due /\ due' = TRUE
    /\ UNCHANGED <<link, dispatch, inputVars, checker, checkStatus>>

TakeTick ==
    /\ checker = "select" /\ due /\ due' = FALSE
    /\ checker' = IF checkStatus THEN "cut" ELSE "select"
    /\ UNCHANGED <<link, dispatch, inputVars, checkStatus>>

\* sess.Close closes the channel, not its connection.
Cut ==
    /\ checker = "cut" /\ checker' = "select"
    /\ link' = IF link = "up" THEN "closed" ELSE link
    /\ UNCHANGED <<dispatch, inputVars, checkStatus, due>>

CheckerEnds ==
    /\ checker = "select" /\ link = "gone" /\ checker' = "end"
    /\ UNCHANGED <<link, dispatch, inputVars, checkStatus, due>>
-----------------------------------------------------------------------------
\* The client closes the channel, or its connection ends.
ClientEnds ==
    /\ \/ link = "up" /\ link' = "closed"
       \/ link # "gone" /\ link' = "gone"
    /\ UNCHANGED <<dispatch, inputVars, idleVars>>

Next ==
    \/ LoopRead \/ LoopReadFails \/ LoopLock \/ LoopWriteFails \/ LoopBreak \/ LoopClose
    \/ MenuReads \/ MenuReadErr
    \/ \E r \in Readers : ReadLock(r)
    \/ \E s \in Proxied : UserReads(s) \/ UserReadsOn(s) \/ UserReadErr(s) \/ StartProxy(s)
    \/ CloseEnds \/ CloseNot \/ CloseLock \/ Renew \/ ReportWait \/ ReportWork \/ WorkEnds
    \/ Tick \/ TakeTick \/ Cut \/ CheckerEnds \/ ClientEnds

Spec == Init /\ [][Next]_vars

(***************************************************************************)
(* Goroutines run, mutexes are handed over, tickers tick (WF); a report    *)
(* that meets the checker's select again and again is taken in the end     *)
(* (SF).  Work on a line returns, and Bridge ends with its user's          *)
(* connection.  The user need not type, nor end anything.                  *)
(***************************************************************************)
Fairness ==
    /\ WF_vars(LoopLock) /\ WF_vars(LoopWriteFails)
    /\ WF_vars(LoopBreak) /\ WF_vars(LoopClose)
    /\ WF_vars(MenuReads \/ MenuReadErr) /\ WF_vars(ReadLock("menu"))
    /\ \A s \in Proxied : /\ WF_vars(UserReadErr(s)) /\ WF_vars(ReadLock(s))
                          /\ WF_vars(UserReads(s)) /\ WF_vars(UserReadsOn(s))
    /\ WF_vars(CloseLock) /\ WF_vars(Renew) /\ WF_vars(link = "gone" /\ (CloseEnds \/ CloseNot))
    /\ SF_vars(ReportWait) /\ SF_vars(ReportWork) /\ WF_vars(WorkEnds)
    /\ WF_vars(Tick) /\ WF_vars(TakeTick) /\ WF_vars(Cut) /\ WF_vars(CheckerEnds)

FairSpec == Spec /\ Fairness
-----------------------------------------------------------------------------
\* While Dispatch works or a session is proxied the checker does not cut the user
\* off as idle: its decision and Dispatch's report cannot pass each other.
NoCutAtWork == dispatch \in {"work", "proxy", "broken", "renew"} => checker # "cut"

\* Every chunk is read once, by one reader, in the order typed, or it was lost in
\* the Close of a proxied session, or readLoop still has it.
InputOnceInOrder ==
    LET inLoop == IF readLoop \in {"lock", "write"} THEN {typed} ELSE {}
    IN /\ \A i, j \in DOMAIN got : i < j => got[i] < got[j]
       /\ ToSet(got) \cup lost \cup inLoop = 1..typed
       /\ ToSet(got) \cap (lost \cup inLoop) = {} /\ lost \cap inLoop = {}
       /\ (\A s \in Proxied : at[s] = "away") => lost = {}

\* Close gets its lock although readLoop and userReaders hold it while they block:
\* with the ends of the pipe closed they all let go.
CloseReturns == dispatch \in {"broken", "renew"} ~> dispatch \notin {"broken", "renew"}

\* A user who stays at the prompt is cut off in the end.
IdleIsCut == dispatch = "read" ~> (dispatch # "read" \/ link # "up")

\* "User %s close connect" (interactive_handler.go:140): Dispatch ends when the
\* user's connection has.
GoneUserIsLetGo == link = "gone" ~> dispatch = "end"
=============================================================================
