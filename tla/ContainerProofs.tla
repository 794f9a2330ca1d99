---------------------------- MODULE ContainerProofs ----------------------------
(* Theorems about Container, for any capacity of winSizeChan and any       *)
(* numbers of pieces and sizes.                                            *)
EXTENDS Container, SequenceTheorems, TLAPS

-----------------------------------------------------------------------------
(* The invariant.  Exit is read once, from the actor that holds once; what *)
(* the container has got and what the copier carries are all that Bridge's *)
(* Writes have returned for, as long as something can still be read.       *)
Upto(n) == [i \in 1..n |-> i]

\* Whoever is in Close.
ClosingFits ==
    /\ pc["exec"] \in {"idle", "once", "exit", "closing", "closed"}
    /\ pc["exec"] # "idle" => stream = "over"
    /\ \A a \in Actors : /\ pc[a] \in {"exit", "closing"} => once = "busy"
                         /\ pc[a] = "closed" => once = "done"
    /\ ~ (pc["bridge"] \in {"exit", "closing"} /\ pc["exec"] \in {"exit", "closing"})
    /\ done <=> once = "done"
    /\ stream = "dial" => copier = "none"
    /\ pc["exec"] = "closing" => copier \in {"write", "end"} /\ (copier = "write" => carry = Exit)

\* Pieces that were read.
Taken == IF pc["bridge"] = "write" THEN typed - 1 ELSE typed

\* The copier may still read a piece for the shell.
MayRead == stream \in {"dial", "run"} /\ copier \in {"none", "read"} /\ ~ done
           /\ pc["bridge"] # "closing"

GotInv ==
    /\ pc["bridge"] = "write" => typed > 0
    /\ MayRead => got = Upto(Taken)
    /\ copier = "write" /\ carry # Exit => carry = Taken /\ ~ done /\ pc["bridge"] # "closing"
    /\ copier = "write" /\ carry # Exit /\ stream = "run" => got = Upto(Taken - 1)
    /\ copier = "write" /\ carry = Exit /\ stream = "run" => got = Upto(typed)
                                            /\ pc["bridge"] \in {"closing", "closed"}
    /\ \/ \E n \in 0..typed : got = Upto(n)
       \/ /\ got = Upto(typed) \o <<Exit>> /\ pc["bridge"] \in {"closing", "closed"}
          /\ copier # "write"

\* The output: what closes the connection for a stream that is over finds all of it read.
OutputFits ==
    /\ reader = "end" => done
    /\ done => stream = "over" \/ pc["bridge"] = "closed"
    /\ printer = "none" => stream \in {"dial", "over"} /\ printed = 0
    /\ stream = "dial" => printer = "none"
    /\ printer = "write" => taken < printed
    /\ printer = "end" => (taken = printed /\ stream \in {"ended", "over"})
                         \/ pc["bridge"] = "closed"
    /\ stream = "over" => printer \in {"none", "end"}

ContainerInv == TypeOK /\ ClosingFits /\ GotInv /\ OutputFits

-----------------------------------------------------------------------------
(* Types.                                                                  *)

\* An actor that takes a step leaves the other where it is.
LEMMA StepMoves ==
    ASSUME TypeOK, NEW a \in Actors, NEW from, NEW to, Step(a, from, to)
    PROVE  pc[a] = from /\ pc'[a] = to /\ \A c \in Actors \ {a} : pc'[c] = pc[c]
BY DEF TypeOK, Step

\* Every action keeps the types.
LEMMA TypeStep ==
    ASSUME TypeOK, OutputFits, [Next]_vars
    PROVE  TypeOK'
<1> USE ContainerAssumption DEF TypeOK, Step, Actors, Exit, inVars, outVars
<1>1. CASE ExecRuns \/ ExecFails \/ ShellEnds \/ ExecOver
  <2>1. CASE ExecRuns
    BY <2>1 DEF ExecRuns
  <2>2. CASE ExecFails
    BY <2>2 DEF ExecFails
  <2>3. CASE ShellEnds \/ ExecOver
    BY <2>3 DEF ShellEnds, ExecOver
  <2> QED BY <1>1, <2>1, <2>2, <2>3
<1>2. CASE CopierWrites
  <2>1. got' \in {got, Append(got, carry)} /\ copier' \in {"read", "end"}
        /\ UNCHANGED <<stream, carry, resizer, pc, once, done, sizes, typed, set, outVars>>
    BY <1>2 DEF CopierWrites
  <2>2. got \in Seq(0..MaxTyped) /\ Append(got, carry) \in Seq(0..MaxTyped)
    OBVIOUS
  <2> QED BY <2>1, <2>2
<1>3. CASE CopierEnds \/ ReadEnds
  BY <1>3 DEF CopierEnds, ReadEnds
<1>4. CASE ResizerNext
  BY <1>4 DEF ResizerNext
<1>5. CASE Write
  BY <1>5 DEF Write
<1>6. CASE WriteFails
  BY <1>6 DEF WriteFails
<1>7. CASE SetWinSize
  BY <1>7 DEF SetWinSize
<1>8. CASE SizeSent
  BY <1>8 DEF SizeSent
<1>9. ASSUME NEW a \in Actors, CopierReads(a)
      PROVE  TypeOK'
  BY <1>9 DEF CopierReads
<1>10. ASSUME NEW a \in Actors, CloseCall(a) \/ CloseOnce(a) \/ CloseEnds(a)
       PROVE  TypeOK'
  <2>1. CASE CloseCall(a)
    BY <2>1 DEF CloseCall
  <2>2. CASE CloseOnce(a)
    BY <2>2 DEF CloseOnce
  <2>3. CASE CloseEnds(a)
    BY <2>3 DEF CloseEnds
  <2> QED BY <1>10, <2>1, <2>2, <2>3
<1>11. CASE ShellPrints
  BY <1>11 DEF ShellPrints
<1>12. CASE PrinterReads \/ PrinterFails
  BY <1>12 DEF PrinterReads, PrinterFails
<1>13. CASE Read
  <2>1. taken < printed
    BY <1>13 DEF Read, OutputFits
  <2>2. taken' \in 0..printed'
    BY <1>13, <2>1 DEF Read
  <2> QED BY <1>13, <2>2 DEF Read
<1>14. CASE UNCHANGED vars
  BY <1>14 DEF vars
<1> QED BY <1>1, <1>2, <1>3, <1>4, <1>5, <1>6, <1>7, <1>8, <1>9, <1>10, <1>11, <1>12, <1>13, <1>14
         DEF Next

-----------------------------------------------------------------------------
(* Close.                                                                  *)

\* Whoever closes holds once, and what is closed stays closed.
LEMMA ClosingStep ==
    ASSUME TypeOK, ClosingFits, [Next]_vars
    PROVE  ClosingFits'
<1> USE DEF ClosingFits
<1>1. CASE ExecRuns \/ ExecFails \/ ShellEnds \/ ExecOver
  BY <1>1 DEF ExecRuns, ExecFails, ShellEnds, ExecOver, Actors
<1>2. CASE CopierWrites \/ CopierEnds \/ ReadEnds \/ ResizerNext
  BY <1>2 DEF CopierWrites, CopierEnds, ReadEnds, ResizerNext
<1>3. CASE Write \/ WriteFails \/ SetWinSize \/ SizeSent
  <2>1. PICK from, to \in {"idle", "write", "size"} : Step("bridge", from, to)
    BY <1>3 DEF Write, WriteFails, SetWinSize, SizeSent
  <2>2. pc'["exec"] = pc["exec"] /\ pc'["bridge"] \in {"idle", "write", "size"}
    BY <2>1, StepMoves DEF Actors
  <2>3. UNCHANGED <<stream, copier, carry, once, done>>
    BY <1>3 DEF Write, WriteFails, SetWinSize, SizeSent
  <2> QED BY <2>2, <2>3 DEF Actors
<1>4. ASSUME NEW a \in Actors, CopierReads(a)
      PROVE  ClosingFits'
  <2>1. CASE a = "bridge"
    BY <1>4, <2>1, StepMoves DEF CopierReads, Actors
  <2>2. CASE a = "exec"
    BY <1>4, <2>2, StepMoves DEF CopierReads, Actors
  <2> QED BY <2>1, <2>2 DEF Actors
<1>5. ASSUME NEW a \in Actors, CloseCall(a)
      PROVE  ClosingFits'
  BY <1>5, StepMoves DEF CloseCall, Actors
<1>6. ASSUME NEW a \in Actors, CloseOnce(a)
      PROVE  ClosingFits'
  BY <1>6, StepMoves DEF CloseOnce, Actors
<1>7. ASSUME NEW a \in Actors, CloseEnds(a)
      PROVE  ClosingFits'
  BY <1>7, StepMoves DEF CloseEnds, Actors
<1>8. CASE ShellPrints \/ PrinterReads \/ PrinterFails \/ Read \/ UNCHANGED vars
  BY <1>8 DEF ShellPrints, PrinterReads, PrinterFails, Read, vars
<1> QED BY <1>1, <1>2, <1>3, <1>4, <1>5, <1>6, <1>7, <1>8 DEF Next

-----------------------------------------------------------------------------
(* What the container gets.                                                *)

\* Upto(n) is the sequence of the numbers up to n.
LEMMA UptoType ==
    ASSUME NEW n \in Nat
    PROVE  Upto(n) \in Seq(Nat) /\ Len(Upto(n)) = n /\ \A i \in 1..n : Upto(n)[i] = i
BY DEF Upto

\* The next piece comes behind the others.
LEMMA NextPiece ==
    ASSUME NEW n \in Nat
    PROVE  Append(Upto(n), n + 1) = Upto(n + 1)
BY DEF Upto

\* Exit comes behind all of them.
LEMMA ExitLast ==
    ASSUME NEW n \in Nat
    PROVE  Append(Upto(n), Exit) = Upto(n) \o <<Exit>>
BY UptoType, AppendIsConcat DEF Exit

\* A step that leaves the copier, what it carries and what was got alone, and takes
\* Bridge neither into nor out of a Write or its Close.
LEMMA GotKept ==
    ASSUME GotInv, UNCHANGED <<carry, typed, got>>,
           copier' = copier \/ (copier = "none" /\ copier' = "read") \/ copier' = "end",
           pc["bridge"] = "write" <=> pc'["bridge"] = "write",
           pc["bridge"] \in {"closing", "closed"} => pc'["bridge"] \in {"closing", "closed"},
           pc'["bridge"] = "closing" => pc["bridge"] = "closing",
           pc["bridge"] = "closing" => pc'["bridge"] = "closing" \/ done',
           done => done', done' # done => copier # "write" \/ carry = Exit,
           stream' = "run" => stream = "run" \/ copier # "write",
           stream' \in {"dial", "run"} => stream \in {"dial", "run"}
    PROVE  GotInv'
<1> USE DEF GotInv, Taken, MayRead
<1>1. Taken' = Taken
  OBVIOUS
<1>2. MayRead' => MayRead
  OBVIOUS
<1>3. copier' = "write" => copier = "write"
  OBVIOUS
<1>4. pc'["bridge"] = "write" => typed' > 0
  OBVIOUS
<1>5. copier' = "write" /\ carry' # Exit =>
          /\ carry' = Taken' /\ ~ done' /\ pc'["bridge"] # "closing"
          /\ stream' = "run" => got' = Upto(Taken' - 1)
  BY <1>1, <1>3
<1> QED BY <1>1, <1>2, <1>3, <1>4, <1>5

\* The copier writes what it carries.
LEMMA CopierWritesNext ==
    ASSUME TypeOK, ClosingFits, GotInv, CopierWrites
    PROVE  GotInv'
<1> USE DEF GotInv
<1>1. /\ copier = "write" /\ UNCHANGED <<stream, carry, pc, once, done, typed>>
      /\ typed \in Nat /\ Taken' = Taken
  BY ContainerAssumption DEF CopierWrites, TypeOK, Taken
<1>2. CASE stream # "run"
  <2>1. copier' \in {"read", "end"} /\ got' = got
    BY <1>2 DEF CopierWrites
  <2> QED BY <1>1, <1>2, <2>1 DEF MayRead, ClosingFits
<1>3. CASE stream = "run" /\ carry # Exit
  <2>1. copier' = "read" /\ got' = Append(got, carry)
    BY <1>3 DEF CopierWrites
  <2>2. carry = Taken /\ got = Upto(Taken - 1) /\ carry \in Nat /\ carry > 0 /\ Taken <= typed
    BY <1>1, <1>3, ContainerAssumption DEF TypeOK, Taken, Exit
  <2>3. got' = Upto(Taken)
    <3>1. Taken - 1 \in Nat /\ (Taken - 1) + 1 = Taken
      BY <2>2
    <3> QED BY <2>1, <2>2, <3>1, NextPiece
  <2>4. Taken \in 0..typed
    BY <1>1, <2>2
  <2> QED BY <1>1, <2>1, <2>3, <2>4
<1>4. CASE stream = "run" /\ carry = Exit
  <2>1. /\ copier' = "read" /\ got' = Append(got, Exit) /\ got = Upto(typed)
        /\ pc["bridge"] \in {"closing", "closed"}
    BY <1>1, <1>4 DEF CopierWrites
  <2>2. got' = Upto(typed) \o <<Exit>>
    BY <1>1, <2>1, ExitLast
  <2>3. ~ MayRead'
    BY <1>1, <2>1 DEF MayRead, ClosingFits, Actors
  <2> QED BY <1>1, <2>1, <2>2, <2>3
<1> QED BY <1>2, <1>3, <1>4

\* The copier reads what an actor writes.
LEMMA CopierReadsNext ==
    ASSUME TypeOK, ClosingFits, GotInv, NEW a \in Actors, CopierReads(a)
    PROVE  GotInv'
<1> USE DEF GotInv
<1>1. /\ copier = "read" /\ ~ done /\ copier' = "write" /\ UNCHANGED <<stream, once, done, typed, got>>
      /\ typed \in Nat
  BY ContainerAssumption DEF CopierReads, TypeOK, inVars
<1>2. CASE Step(a, "write", "idle") /\ carry' = typed
  <2>1. a = "bridge"
    BY <1>2, StepMoves DEF ClosingFits, Actors
  <2>2. pc["bridge"] = "write" /\ pc'["bridge"] = "idle"
    BY <1>2, <2>1, StepMoves
  <2>3. Taken = typed - 1 /\ Taken' = typed /\ typed > 0 /\ carry' # Exit /\ typed - 1 \in 0..typed
    BY <1>1, <1>2, <2>2 DEF Taken, Exit
  <2>4. stream = "run" => got = Upto(typed - 1)
    BY <1>1, <2>2, <2>3 DEF MayRead
  <2> QED BY <1>1, <1>2, <2>2, <2>3, <2>4 DEF MayRead
<1>3. CASE Step(a, "exit", "closing") /\ carry' = Exit
  <2>1. pc["bridge"] \notin {"closing", "closed"}
    BY <1>1, <1>3, StepMoves DEF ClosingFits, Actors
  <2>2. (stream = "run" => got = Upto(Taken)) /\ Taken \in 0..typed
    BY <1>1, <2>1 DEF MayRead, Taken
  <2>3. CASE a = "bridge"
    <3>1. pc["bridge"] = "exit" /\ pc'["bridge"] = "closing"
      BY <1>3, <2>3, StepMoves
    <3>2. stream = "run" => got = Upto(typed)
      BY <2>2, <3>1 DEF Taken
    <3> QED BY <1>1, <1>3, <2>2, <3>1, <3>2 DEF MayRead
  <2>4. CASE a = "exec"
    <3>1. pc["exec"] = "exit" /\ pc'["bridge"] = pc["bridge"]
      BY <1>3, <2>4, StepMoves DEF Actors
    <3>2. stream' # "run"
      BY <1>1, <3>1 DEF ClosingFits
    <3> QED BY <1>1, <1>3, <2>1, <2>2, <3>1, <3>2 DEF MayRead
  <2> QED BY <2>3, <2>4 DEF Actors
<1> QED BY <1>2, <1>3 DEF CopierReads

\* Every action keeps what the container got and the copier carries in order.
LEMMA GotStep ==
    ASSUME TypeOK, ClosingFits, GotInv, [Next]_vars
    PROVE  GotInv'
<1> USE DEF inVars
<1>1. CASE ExecRuns \/ ExecFails \/ ShellEnds \/ ExecOver
  BY <1>1, GotKept DEF ExecRuns, ExecFails, ShellEnds, ExecOver, ClosingFits
<1>2. CASE CopierWrites
  BY <1>2, CopierWritesNext
<1>3. CASE CopierEnds \/ ReadEnds \/ ResizerNext
  BY <1>3, GotKept DEF CopierEnds, ReadEnds, ResizerNext
<1>4. CASE Write
  <2>1. pc["bridge"] = "idle" /\ pc'["bridge"] = "write"
    BY <1>4, StepMoves DEF Write, Actors
  <2>2. typed \in Nat /\ typed' = typed + 1 /\ UNCHANGED <<stream, copier, carry, once, done, got>>
    BY <1>4, ContainerAssumption DEF Write, TypeOK
  <2>3. Taken = typed /\ Taken' = typed
    BY <2>1, <2>2 DEF Taken
  <2>4. \A n \in 0..typed : n \in 0..typed'
    BY <2>2
  <2> QED BY <2>1, <2>2, <2>3, <2>4 DEF GotInv, MayRead
<1>5. CASE WriteFails
  <2>1. pc["bridge"] = "write" /\ pc'["bridge"] = "idle"
    BY <1>5, StepMoves DEF WriteFails, Actors
  <2>2. done /\ UNCHANGED <<stream, copier, carry, once, done, typed, got>>
    BY <1>5 DEF WriteFails
  <2> QED BY <2>1, <2>2 DEF GotInv, MayRead
<1>6. CASE SetWinSize \/ SizeSent
  <2>1. /\ pc["bridge"] \in {"idle", "size"} /\ pc'["bridge"] \in {"idle", "size"}
        /\ UNCHANGED <<stream, copier, carry, done, typed, got>>
    BY <1>6, StepMoves DEF SetWinSize, SizeSent, Actors
  <2> QED BY <2>1, GotKept
<1>7. ASSUME NEW a \in Actors, CopierReads(a)
      PROVE  GotInv'
  BY <1>7, CopierReadsNext
<1>8. ASSUME NEW a \in Actors, CloseCall(a) \/ CloseOnce(a)
      PROVE  GotInv'
  <2>1. /\ pc["bridge"] # "write" \/ a # "bridge"
        /\ pc'["bridge"] = pc["bridge"]
           \/ (pc["bridge"] \in {"idle", "once"} /\ pc'["bridge"] \in {"once", "exit", "closed"})
        /\ UNCHANGED <<stream, copier, carry, done, typed, got>>
    BY <1>8, StepMoves DEF CloseCall, CloseOnce, Actors
  <2> QED BY <2>1, GotKept
<1>9. ASSUME NEW a \in Actors, CloseEnds(a)
      PROVE  GotInv'
  <2>1. /\ pc[a] = "closing" /\ pc'[a] = "closed" /\ \A c \in Actors \ {a} : pc'[c] = pc[c]
        /\ done' = TRUE /\ UNCHANGED <<stream, copier, carry, typed, got>>
    BY <1>9, StepMoves DEF CloseEnds
  <2>2. copier # "write" \/ carry = Exit
    BY <2>1 DEF ClosingFits, GotInv, Actors
  <2> QED BY <2>1, <2>2, GotKept DEF Actors
<1>10. CASE ShellPrints \/ PrinterReads \/ PrinterFails \/ Read \/ UNCHANGED vars
  BY <1>10, GotKept DEF ShellPrints, PrinterReads, PrinterFails, Read, vars
<1> QED BY <1>1, <1>2, <1>3, <1>4, <1>5, <1>6, <1>7, <1>8, <1>9, <1>10 DEF Next

-----------------------------------------------------------------------------
(* What srvReader gets.                                                    *)

\* Every action keeps what is read of the output and who closed the connection.
LEMMA OutputStep ==
    ASSUME TypeOK, ClosingFits, OutputFits, [Next]_vars
    PROVE  OutputFits'
<1> USE DEF OutputFits, outVars
<1>1. CASE ExecRuns \/ ExecFails \/ ShellEnds \/ ExecOver
  BY <1>1 DEF ExecRuns, ExecFails, ShellEnds, ExecOver
<1>2. CASE CopierWrites \/ CopierEnds \/ ResizerNext
  BY <1>2 DEF CopierWrites, CopierEnds, ResizerNext
<1>3. CASE ShellPrints
  BY <1>3 DEF ShellPrints, TypeOK
<1>4. CASE PrinterReads \/ PrinterFails
  BY <1>4 DEF PrinterReads, PrinterFails, TypeOK
<1>5. CASE Read \/ ReadEnds
  BY <1>5 DEF Read, ReadEnds
<1>6. ASSUME UNCHANGED <<stream, done, outVars>>, pc["bridge"] # "closed" \/ pc'["bridge"] = "closed"
      PROVE  OutputFits'
  BY <1>6
<1>7. CASE Write \/ WriteFails \/ SetWinSize \/ SizeSent
  <2>1. pc["bridge"] \in {"idle", "write", "size"} /\ UNCHANGED <<stream, done, outVars>>
    BY <1>7 DEF Write, WriteFails, SetWinSize, SizeSent, Step
  <2> QED BY <1>6, <2>1
<1>8. ASSUME NEW a \in Actors, CopierReads(a) \/ CloseCall(a) \/ CloseOnce(a)
      PROVE  OutputFits'
  <2>1. pc[a] # "closed" /\ \A c \in Actors \ {a} : pc'[c] = pc[c]
    BY <1>8, StepMoves DEF CopierReads, CloseCall, CloseOnce
  <2>2. UNCHANGED <<stream, done, outVars>>
    BY <1>8 DEF CopierReads, CloseCall, CloseOnce
  <2> QED BY <1>6, <2>1, <2>2 DEF Actors
<1>9. ASSUME NEW a \in Actors, CloseEnds(a)
      PROVE  OutputFits'
  <2>1. /\ pc[a] = "closing" /\ pc'[a] = "closed" /\ \A c \in Actors \ {a} : pc'[c] = pc[c]
        /\ done' = TRUE /\ UNCHANGED <<stream, outVars>>
    BY <1>9, StepMoves DEF CloseEnds
  <2>2. stream = "over" \/ a = "bridge"
    BY <2>1 DEF ClosingFits, Actors
  <2> QED BY <2>1, <2>2 DEF Actors
<1>10. CASE UNCHANGED vars
  BY <1>6, <1>10 DEF vars
<1> QED BY <1>1, <1>2, <1>3, <1>4, <1>5, <1>7, <1>8, <1>9, <1>10 DEF Next

-----------------------------------------------------------------------------
(* The theorems.                                                           *)

\* At first nobody writes or closes.
LEMMA InitInv == Init => ContainerInv
<1> SUFFICES ASSUME Init
             PROVE  ContainerInv
  OBVIOUS
<1>1. TypeOK
  <2>1. /\ 1 \in 0..WinCap /\ 0 \in 0..MaxTyped /\ 0 \in 0..MaxSizes /\ 0 \in 0..MaxPrinted
        /\ 0 \in 0..0
        /\ <<>> \in Seq(0..MaxTyped)
    BY ContainerAssumption
  <2>2. pc \in [Actors -> {"idle", "write", "size", "once", "exit", "closing", "closed"}]
    BY DEF Init
  <2> QED BY <2>1, <2>2 DEF Init, TypeOK, Exit
<1>2. ClosingFits
  BY DEF Init, ClosingFits, Actors
<1>3. GotInv
  <2>1. Upto(0) = <<>>
    BY DEF Upto
  <2> QED BY <2>1 DEF Init, GotInv, Taken, MayRead, Actors
<1>4. OutputFits
  BY DEF Init, OutputFits
<1> QED BY <1>1, <1>2, <1>3, <1>4 DEF ContainerInv

\* The invariant holds throughout.
LEMMA ContainerCorrect == Spec => []ContainerInv
<1>1. ContainerInv /\ [Next]_vars => ContainerInv'
  BY TypeStep, ClosingStep, GotStep, OutputStep DEF ContainerInv
<1> QED BY InitInv, <1>1, PTL DEF Spec

\* The connection's variables have their types: winSizeChan never holds more than its
\* capacity.
THEOREM ContainerTypeCorrect == Spec => []TypeOK
<1>1. ContainerInv => TypeOK
  BY DEF ContainerInv
<1> QED BY <1>1, ContainerCorrect, PTL

\* What the container gets, between any closes of Bridge and of exec's goroutine.
LEMMA GotIsInputThenExit ==
    ASSUME TypeOK, GotInv
    PROVE  InputThenExit
<1>1. typed \in Nat /\ Exit = 0
  BY ContainerAssumption DEF TypeOK, Exit
<1> DEFINE all == Upto(typed) \o <<Exit>>
<1>2. all \in Seq(Nat) /\ Len(all) = typed + 1 /\ \A i \in 1..typed : all[i] = i
  <2>1. Upto(typed) \in Seq(Nat) /\ Len(Upto(typed)) = typed /\ \A i \in 1..typed : Upto(typed)[i] = i
    BY <1>1, UptoType
  <2>2. <<Exit>> \in Seq(Nat) /\ Len(<<Exit>>) = 1
    BY <1>1
  <2>3. /\ all \in Seq(Nat) /\ Len(all) = Len(Upto(typed)) + Len(<<Exit>>)
        /\ \A i \in 1..Len(Upto(typed)) + Len(<<Exit>>) :
              all[i] = IF i <= Len(Upto(typed)) THEN Upto(typed)[i]
                       ELSE <<Exit>>[i - Len(Upto(typed))]
    BY <2>1, <2>2, ConcatProperties
  <2> QED BY <1>1, <2>1, <2>2, <2>3
<1>3. CASE \E n \in 0..typed : got = Upto(n)
  <2>1. PICK n \in 0..typed : got = Upto(n)
    BY <1>3
  <2>2. n \in Nat /\ n <= typed /\ got \in Seq(Nat) /\ Len(got) = n /\ \A i \in 1..n : got[i] = i
    BY <1>1, <2>1, UptoType
  <2>3. IsPrefix(got, all)
    <3> HIDE DEF all
    <3>1. SubSeq(all, 1, Len(got)) = got
      BY <1>1, <1>2, <2>2
    <3> QED BY <1>1, <1>2, <2>2, <3>1 DEF IsPrefix
  <2>4. Exit \notin {got[i] : i \in DOMAIN got}
    BY <1>1, <2>2
  <2> QED BY <2>3, <2>4 DEF InputThenExit, Upto
<1>4. CASE got = all /\ pc["bridge"] \in {"closing", "closed"}
  <2>1. IsPrefix(all, all)
    <3> HIDE DEF all
    <3> QED BY <1>1, <1>2 DEF IsPrefix
  <2> QED BY <1>4, <2>1 DEF InputThenExit, Upto
<1> QED BY <1>3, <1>4 DEF GotInv

\* For any number of pieces, whoever closes first and whenever the stream ends: the
\* container gets what was written in order, and exit only behind all of it.
THEOREM InputComesBeforeExit == Spec => []InputThenExit
<1>1. ContainerInv => InputThenExit
  BY GotIsInputThenExit DEF ContainerInv
<1> QED BY <1>1, ContainerCorrect, PTL

\* For any number of pieces: output that the shell printed before it ended is only lost to
\* a close of Bridge's own, never to that of exec's goroutine.
THEOREM OutputComesBeforeEnd == Spec => []OutputThenEnd
<1>1. ContainerInv => OutputThenEnd
  BY DEF ContainerInv, OutputFits, OutputThenEnd, TypeOK
<1> QED BY <1>1, ContainerCorrect, PTL
=============================================================================
