------------------------------ MODULE Container ------------------------------
(***************************************************************************)
(* ContainerConnection (pkg/kubernetes/conn/conn_container.go): the pipes  *)
(* and the queue of window sizes between Bridge and the exec stream of a   *)
(* container.  A Write of an io.Pipe returns when it was read or the pipe  *)
(* was closed.  Of client-go's exec there is what the connection meets: a  *)
(* goroutine that copies stdin to the container until a copy fails, and    *)
(* goes on reading when the stream is over; one that copies the shell's    *)
(* output, which the stream waits for; and one that asks for sizes.        *)
(*                                                                         *)
(* Input is a sequence of numbered pieces; Exit is what Close writes.  Of  *)
(* the output only the number of pieces is kept.                           *)
(***************************************************************************)
EXTENDS Naturals, Sequences, SequencesExt

CONSTANTS
    WinCap,       \* capacity of winSizeChan, 10 in the code
    MaxTyped,     \* bound: pieces Bridge writes
    MaxPrinted,   \* bound: pieces the shell prints
    MaxSizes,     \* bound: window sizes Bridge sets
    ExecMayFail   \* whether the exec stream may fail before it runs

ASSUME ContainerAssumption ==
    /\ WinCap \in Nat \ {0} /\ MaxTyped \in Nat /\ MaxSizes \in Nat
    /\ MaxPrinted \in Nat /\ ExecMayFail \in BOOLEAN

Actors == {"bridge", "exec"}   \* who calls Close: Bridge, and the goroutine of exec
Exit == 0

VARIABLES
    stream,    \* exec stream: "dial", "run", "ended" when its shell is, "over"
    copier,    \* client-go's copy of stdin: "none", "read", "write", "end"
    carry,     \* what the copier has read
    printer,   \* client-go's copy of stdout: "none", "read", "write", "end"
    resizer,   \* client-go's loop of sizes: "none", "next", "end"
    pc,        \* of each actor: "idle", "write", "size", "once", "exit",
               \* "closing", "closed"
    once,      \* "free", "busy", "done"
    done,      \* both pipes and the channel done are closed
    reader,    \* srvReader in Read: "read", "end"
    sizes,     \* sizes in winSizeChan
    typed,     \* pieces written so far
    set,       \* sizes set so far
    got,       \* what the container has received
    printed,   \* pieces of output the shell has printed so far
    taken      \* pieces the srvReader has read so far

outVars == <<printer, reader, printed, taken>>
inVars == <<typed, set, got>>
vars == <<stream, copier, carry, resizer, pc, once, done, sizes, inVars, outVars>>

TypeOK ==
    /\ stream \in {"dial", "run", "ended", "over"} /\ copier \in {"none", "read", "write", "end"}
    /\ carry \in 0..MaxTyped /\ printer \in {"none", "read", "write", "end"}
    /\ resizer \in {"none", "next", "end"}
    /\ pc \in [Actors -> {"idle", "write", "size", "once", "exit", "closing", "closed"}]
    /\ once \in {"free", "busy", "done"} /\ done \in BOOLEAN /\ reader \in {"read", "end"}
    /\ sizes \in 0..WinCap /\ typed \in 0..MaxTyped /\ set \in 0..MaxSizes
    /\ got \in Seq(0..MaxTyped) /\ printed \in 0..MaxPrinted /\ taken \in 0..printed

\* The first size is in the channel before the goroutine of exec starts.
Init ==
    /\ stream = "dial" /\ copier = "none" /\ carry = Exit /\ resizer = "none"
    /\ pc = [a \in Actors |-> "idle"] /\ once = "free" /\ done = FALSE
    /\ reader = "read" /\ sizes = 1 /\ typed = 0 /\ set = 0 /\ got = <<>>
    /\ printer = "none" /\ printed = 0 /\ taken = 0

Step(a, from, to) == pc[a] = from /\ pc' = [pc EXCEPT ![a] = to]
-----------------------------------------------------------------------------
(***************************************************************************)
(* The exec stream.                                                        *)
(***************************************************************************)
ExecRuns ==
    /\ stream = "dial" /\ stream' = "run"
    /\ copier' = "read" /\ printer' = "read" /\ resizer' = "next"
    /\ UNCHANGED <<carry, pc, once, done, reader, sizes, inVars, printed, taken>>

ExecFails ==
    /\ ExecMayFail /\ stream = "dial" /\ stream' = "over"
    /\ UNCHANGED <<copier, carry, resizer, pc, once, done, sizes, inVars, outVars>>

\* The shell ends, after exit or at any time.
ShellEnds ==
    /\ stream = "run" /\ stream' = "ended"
    /\ UNCHANGED <<copier, carry, resizer, pc, once, done, sizes, inVars, outVars>>

\* The stream of a shell that has ended is over when its output is copied.
ExecOver ==
    /\ stream = "ended" /\ printer = "end" /\ stream' = "over"
    /\ UNCHANGED <<copier, carry, resizer, pc, once, done, sizes, inVars, outVars>>

\* The copier reads what an actor is writing, whose Write then returns.
CopierReads(a) ==
    /\ copier = "read" /\ ~ done
    /\ \/ Step(a, "write", "idle") /\ carry' = typed
       \/ Step(a, "exit", "closing") /\ carry' = Exit
    /\ copier' = "write"
    /\ UNCHANGED <<stream, resizer, once, done, sizes, inVars, outVars>>

CopierWrites ==
    /\ copier = "write"
    /\ \/ stream = "run" /\ copier' = "read" /\ got' = Append(got, carry)
       \/ stream = "ended" /\ copier' = "read" /\ UNCHANGED got
       \/ stream # "run" /\ copier' = "end" /\ UNCHANGED got
    /\ UNCHANGED <<stream, carry, resizer, pc, once, done, sizes, typed, set, outVars>>

CopierEnds ==
    /\ copier = "read" /\ done /\ copier' = "end"
    /\ UNCHANGED <<stream, carry, resizer, pc, once, done, sizes, inVars, outVars>>

\* The shell prints; the printer takes a piece, and its Write waits for a Read.
ShellPrints ==
    /\ stream = "run" /\ printed < MaxPrinted /\ printed' = printed + 1
    /\ UNCHANGED <<stream, copier, carry, resizer, pc, once, done, sizes, inVars, printer,
                   reader, taken>>

PrinterReads ==
    /\ printer = "read"
    /\ \/ taken < printed /\ printer' = "write"
       \/ taken = printed /\ stream = "ended" /\ printer' = "end"
    /\ UNCHANGED <<stream, copier, carry, resizer, pc, once, done, sizes, inVars, reader,
                   printed, taken>>

PrinterFails ==
    /\ printer = "write" /\ done /\ printer' = "end"
    /\ UNCHANGED <<stream, copier, carry, resizer, pc, once, done, sizes, inVars, reader,
                   printed, taken>>

\* slaveStream.Next
ResizerNext ==
    /\ resizer = "next"
    /\ \/ sizes > 0 /\ sizes' = sizes - 1 /\ UNCHANGED resizer
       \/ done /\ resizer' = "end" /\ UNCHANGED sizes
    /\ UNCHANGED <<stream, copier, carry, pc, once, done, inVars, outVars>>
-----------------------------------------------------------------------------
(***************************************************************************)
(* Bridge.                                                                 *)
(***************************************************************************)
Write ==
    /\ Step("bridge", "idle", "write") /\ typed < MaxTyped /\ typed' = typed + 1
    /\ UNCHANGED <<stream, copier, carry, resizer, once, done, sizes, set, got, outVars>>

\* A Write fails on a closed pipe.
WriteFails ==
    /\ done /\ Step("bridge", "write", "idle")
    /\ UNCHANGED <<stream, copier, carry, resizer, once, done, sizes, inVars, outVars>>

SetWinSize ==
    /\ Step("bridge", "idle", "size") /\ set < MaxSizes /\ set' = set + 1
    /\ UNCHANGED <<stream, copier, carry, resizer, once, done, sizes, typed, got, outVars>>

\* Fault: winSizeChan grows.
SizeSentOver ==
    /\ Step("bridge", "size", "idle") /\ sizes' = sizes + 1
    /\ UNCHANGED <<stream, copier, carry, resizer, once, done, inVars, outVars>>

SizeSent ==
    /\ Step("bridge", "size", "idle")
    /\ \/ sizes < WinCap /\ sizes' = sizes + 1
       \/ done /\ UNCHANGED sizes
    /\ UNCHANGED <<stream, copier, carry, resizer, once, done, inVars, outVars>>

\* srvReader's Read, which takes what the printer is writing or fails.
Read ==
    /\ reader = "read" /\ ~ done /\ printer = "write"
    /\ printer' = "read" /\ taken' = taken + 1
    /\ UNCHANGED <<stream, copier, carry, resizer, pc, once, done, sizes, inVars, reader,
                   printed>>

ReadEnds ==
    /\ reader = "read" /\ done /\ reader' = "end"
    /\ UNCHANGED <<stream, copier, carry, resizer, pc, once, done, sizes, inVars, printer,
                   printed, taken>>
-----------------------------------------------------------------------------
(***************************************************************************)
(* Close, under sync.Once: whoever comes second waits for the first.       *)
(***************************************************************************)
\* Fault: the goroutine of exec leaves the closing to Bridge.
CloseCallBridge(a) ==
    /\ a = "bridge" /\ Step(a, "idle", "once")
    /\ UNCHANGED <<stream, copier, carry, resizer, once, done, sizes, inVars, outVars>>

\* Fault: the goroutine of exec closes as soon as the stream runs.
CloseCallEarly(a) ==
    /\ a = "exec" => stream # "dial"
    /\ Step(a, "idle", "once")
    /\ UNCHANGED <<stream, copier, carry, resizer, once, done, sizes, inVars, outVars>>

CloseCall(a) ==
    /\ a = "exec" => stream = "over"
    /\ Step(a, "idle", "once")
    /\ UNCHANGED <<stream, copier, carry, resizer, once, done, sizes, inVars, outVars>>

CloseOnce(a) ==
    /\ \/ once = "free" /\ once' = "busy" /\ Step(a, "once", "exit")
       \/ once = "done" /\ UNCHANGED once /\ Step(a, "once", "closed")
    /\ UNCHANGED <<stream, copier, carry, resizer, done, sizes, inVars, outVars>>

\* Fault: the pipes and done are left open.
CloseEndsOpen(a) ==
    /\ Step(a, "closing", "closed") /\ once' = "done"
    /\ UNCHANGED <<stream, copier, carry, resizer, done, sizes, inVars, outVars>>

\* Fault: once is held until the process ends.
CloseEndsHeld(a) ==
    /\ Step(a, "closing", "closed") /\ done' = TRUE
    /\ UNCHANGED <<stream, copier, carry, resizer, once, sizes, inVars, outVars>>

CloseEnds(a) ==
    /\ Step(a, "closing", "closed") /\ done' = TRUE /\ once' = "done"
    /\ UNCHANGED <<stream, copier, carry, resizer, sizes, inVars, outVars>>
-----------------------------------------------------------------------------
Next ==
    \/ ExecRuns \/ ExecFails \/ ExecOver \/ CopierWrites \/ CopierEnds \/ ResizerNext
    \/ ShellEnds \/ ShellPrints \/ PrinterReads \/ PrinterFails \/ Read
    \/ Write \/ WriteFails \/ SetWinSize \/ SizeSent \/ ReadEnds
    \/ \E a \in Actors : CopierReads(a) \/ CloseCall(a) \/ CloseOnce(a) \/ CloseEnds(a)

Spec == Init /\ [][Next]_vars

(***************************************************************************)
(* Goroutines run: the copier, the loop of sizes, readers and writers that *)
(* can return, and Close.  Neither the shell nor Bridge has to end.        *)
(***************************************************************************)
Fairness ==
    /\ WF_vars(ExecRuns \/ ExecFails)
    /\ WF_vars(CopierWrites \/ CopierEnds \/ \E a \in Actors : CopierReads(a))
    /\ WF_vars(ExecOver) /\ WF_vars(PrinterReads \/ PrinterFails)
    /\ WF_vars(ResizerNext) /\ WF_vars(WriteFails \/ SizeSent) /\ WF_vars(ReadEnds)
    /\ WF_vars(CloseCall("exec"))
    /\ \A a \in Actors : WF_vars(CloseOnce(a) \/ CloseEnds(a))

FairSpec == Spec /\ Fairness
-----------------------------------------------------------------------------
\* The container gets what was written in order, and exit after all of it, once:
\* the close of exec's goroutine does not cut off what Bridge is writing, nor
\* does Bridge's close.
InputThenExit ==
    /\ IsPrefix(got, [i \in 1..typed |-> i] \o <<Exit>>)
    /\ Exit \in {got[i] : i \in DOMAIN got} => pc["bridge"] # "write"

\* What the shell printed before it ended is read before the end is: the srvReader's Read
\* fails with output left only when Bridge itself has closed the connection.
OutputThenEnd == reader = "end" /\ taken < printed => pc["bridge"] = "closed"

\* A stream that is over closes the connection, unless nobody reads the stdin pipe any
\* more, in which its Close then waits for ever: the copy of stdin was lost with a key
\* that came when the shell had ended, or never started as exec had failed.
EndIsNoticed ==
    stream = "over" ~> \/ done
                       \/ copier = "end" /\ carry # Exit
                       \/ copier = "none"

\* Once the connection is closed nobody waits for it: Read, Write, SetWinSize
\* and the other Close return.
WaitersWake ==
    /\ done ~> reader = "end" /\ printer # "write"
    /\ (done /\ pc["bridge"] \in {"write", "size"}) ~> pc["bridge"] = "idle"
    /\ \A a \in Actors : (done /\ pc[a] = "once") ~> pc[a] = "closed"
=============================================================================
