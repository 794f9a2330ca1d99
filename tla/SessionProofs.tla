--------------------------- MODULE SessionProofs ---------------------------
(* Theorems about SessionLoop, for any number of proxied sessions and of   *)
(* chunks typed.                                                           *)
EXTENDS SessionLoop, TLAPS

-----------------------------------------------------------------------------
(* Types, part by part, and that readLoop has a chunk while it writes.     *)
StatesTyped ==
    /\ link \in {"up", "closed", "gone"} /\ err \in BOOLEAN
    /\ readLoop \in {"read", "lock", "write", "break", "close", "end"}
    /\ readLoop = "read" => ~ err
    /\ readLoop \in {"break", "close", "end"} => err
    /\ dispatch \in {"report", "read", "line", "work", "proxy", "broken", "renew", "end"}
    /\ checker \in {"select", "cut", "end"}

FlagsTyped == checkStatus \in BOOLEAN /\ due \in BOOLEAN

ReadersTyped ==
    /\ pipe \in {"open", "broken"}
    /\ dispatch \in {"broken", "renew"} => pipe = "broken"
    /\ pipe = "broken" => dispatch \in {"broken", "renew"} \/ readLoop \in {"close", "end"}
    /\ at \in [Readers -> {"away", "lock", "pipe", "has", "end"}]
    /\ at["menu"] \in IF dispatch = "read" THEN {"lock", "pipe"} ELSE {"away"}

ChunksTyped ==
    /\ typed \in 0..MaxTyped /\ got \in Seq(1..MaxTyped) /\ lost \subseteq 1..MaxTyped
    /\ readLoop \in {"lock", "write"} => typed # 0

TypeInv == StatesTyped /\ FlagsTyped /\ ReadersTyped /\ ChunksTyped

\* The parts make TypeOK.
LEMMA PartsAreTypeOK == TypeInv => TypeOK
<1>1. FlagsTyped => {checkStatus, due} \subseteq BOOLEAN
  BY DEF FlagsTyped
<1> QED BY <1>1 DEF TypeInv, StatesTyped, ReadersTyped, ChunksTyped, TypeOK

\* Dispatch starts with a report, and nobody reads.
LEMMA TypeInit == Init => TypeInv
<1> SUFFICES ASSUME Init PROVE TypeInv
  OBVIOUS
<1>1. StatesTyped /\ FlagsTyped
  BY DEF Init, StatesTyped, FlagsTyped
<1>2. ReadersTyped
  BY DEF Init, ReadersTyped, Readers
<1>3. ChunksTyped
  BY SessionAssumption DEF Init, ChunksTyped
<1> QED BY <1>1, <1>2, <1>3 DEF TypeInv

\* A chunk is handed over to whom reads the pipe.
LEMMA HandOverType ==
    ASSUME TypeInv, HandOver
    PROVE  /\ typed \in 1..MaxTyped /\ ChunksTyped'
           /\ pipe = "open" /\ readLoop = "write"
           /\ readLoop' = (IF err THEN "break" ELSE "read")
           /\ UNCHANGED <<link, err, pipe, typed, lost, idleVars>>
BY SessionAssumption DEF TypeInv, ChunksTyped, HandOver, LoopOn

\* Every step keeps the types.
LEMMA TypeStep == TypeInv /\ [Next]_vars => TypeInv'
<1> SUFFICES ASSUME TypeInv, [Next]_vars PROVE TypeInv'
  OBVIOUS
<1>0. StatesTyped /\ FlagsTyped /\ ReadersTyped /\ ChunksTyped
  BY DEF TypeInv
<1>1. CASE LoopRead \/ LoopReadFails \/ LoopLock \/ LoopWriteFails \/ LoopBreak \/ LoopClose
  <2>1. UNCHANGED <<dispatch, checker, checkStatus, due, at, link>>
    BY <1>1 DEF LoopRead, LoopReadFails, LoopLock, LoopWriteFails, LoopBreak, LoopClose, idleVars
  <2>2. StatesTyped' /\ FlagsTyped'
    <3>1. CASE LoopRead \/ LoopReadFails
      BY <1>0, <2>1, <3>1 DEF LoopRead, LoopReadFails, StatesTyped, FlagsTyped
    <3>2. CASE LoopLock \/ LoopBreak \/ LoopClose
      BY <1>0, <2>1, <3>2 DEF LoopLock, LoopBreak, LoopClose, StatesTyped, FlagsTyped
    <3>3. CASE LoopWriteFails
      BY <1>0, <2>1, <3>3 DEF LoopWriteFails, LoopOn, StatesTyped, FlagsTyped
    <3> QED BY <1>1, <3>1, <3>2, <3>3
  <2>3. ReadersTyped'
    BY <1>0, <1>1, <2>1 DEF LoopRead, LoopReadFails, LoopLock, LoopWriteFails, LoopBreak,
                            LoopClose, LoopOn, ReadersTyped
  <2>4. ChunksTyped'
    <3>1. CASE LoopRead \/ LoopReadFails
      <4>1. typed \in Nat /\ typed < MaxTyped /\ typed' = typed + 1 /\ UNCHANGED <<got, lost>>
        BY <1>0, <3>1, SessionAssumption DEF LoopRead, LoopReadFails, ChunksTyped
      <4>2. typed' \in 0..MaxTyped /\ typed' # 0
        BY <4>1, SessionAssumption
      <4> QED BY <1>0, <4>1, <4>2 DEF ChunksTyped
    <3>2. CASE LoopLock \/ LoopBreak \/ LoopClose
      BY <1>0, <3>2 DEF LoopLock, LoopBreak, LoopClose, ChunksTyped
    <3>3. CASE LoopWriteFails
      <4>1. typed \in 1..MaxTyped
        BY <1>0, <3>3, SessionAssumption DEF LoopWriteFails, ChunksTyped
      <4> QED BY <1>0, <3>3, <4>1 DEF LoopWriteFails, LoopOn, ChunksTyped
    <3> QED BY <1>1, <3>1, <3>2, <3>3
  <2> QED BY <2>2, <2>3, <2>4 DEF TypeInv
<1>2. CASE MenuReads
  <2>1. /\ ChunksTyped' /\ pipe = "open" /\ readLoop' = (IF err THEN "break" ELSE "read")
        /\ UNCHANGED <<link, err, pipe, checker, checkStatus, due>>
    BY <1>2, HandOverType DEF MenuReads, idleVars
  <2>2. dispatch = "read"
    BY <1>0, <1>2 DEF MenuReads, ReadersTyped
  <2>3. StatesTyped' /\ FlagsTyped'
    BY <1>0, <1>2, <2>1, <2>2 DEF MenuReads, StatesTyped, FlagsTyped
  <2>4. ReadersTyped'
    <3>1. "menu" \in Readers
      BY DEF Readers
    <3> QED BY <1>0, <1>2, <2>1, <2>2, <3>1 DEF MenuReads, ReadersTyped
  <2> QED BY <2>1, <2>3, <2>4 DEF TypeInv
<1>3. ASSUME NEW r \in Readers, ReadLock(r) PROVE TypeInv'
  <2>1. UNCHANGED <<link, dispatch, readLoop, err, pipe, typed, got, lost, checker, checkStatus,
                    due>>
        /\ at[r] = "lock" /\ at' = [at EXCEPT ![r] = "pipe"]
    BY <1>3 DEF ReadLock, idleVars
  <2>2. ReadersTyped'
    BY <1>0, <2>1 DEF ReadersTyped, Readers
  <2> QED BY <1>0, <2>1, <2>2 DEF TypeInv, StatesTyped, FlagsTyped, ChunksTyped
<1>4. ASSUME NEW s \in Proxied, NEW a \in {"lock", "has", "end"}, at' = [at EXCEPT ![s] = a],
             StatesTyped', FlagsTyped', ChunksTyped', pipe' = pipe,
             readLoop' = readLoop \/ pipe = "open",
             dispatch' = dispatch \/ (dispatch = "work" /\ dispatch' = "proxy")
      PROVE  TypeInv'
  <2>1. s \in Readers /\ s # "menu" /\ "menu" \in Readers
    BY SessionAssumption DEF Readers
  <2>2. ReadersTyped'
    BY <1>0, <1>4, <2>1 DEF ReadersTyped
  <2> QED BY <1>4, <2>2 DEF TypeInv
<1>5. ASSUME NEW s \in Proxied, UserReads(s) PROVE TypeInv'
  <2>1. /\ ChunksTyped' /\ pipe = "open" /\ readLoop' = (IF err THEN "break" ELSE "read")
        /\ UNCHANGED <<link, err, dispatch, pipe, checker, checkStatus, due>>
        /\ \E a \in {"lock", "has", "end"} : at' = [at EXCEPT ![s] = a]
    BY <1>5, HandOverType DEF UserReads, idleVars
  <2>2. StatesTyped' /\ FlagsTyped'
    BY <1>0, <2>1 DEF StatesTyped, FlagsTyped
  <2> QED BY <1>4, <2>1, <2>2
<1>6. ASSUME NEW s \in Proxied, UserReadsOn(s) \/ UserReadErr(s) \/ StartProxy(s) PROVE TypeInv'
  <2>1. UNCHANGED <<link, readLoop, err, pipe, typed, got, lost, checker, checkStatus, due>>
    BY <1>6 DEF UserReadsOn, UserReadErr, StartProxy, idleVars
  <2>2. dispatch' = dispatch \/ (dispatch = "work" /\ dispatch' = "proxy")
    BY <1>6 DEF UserReadsOn, UserReadErr, StartProxy, Goto, idleVars
  <2>3. \E a \in {"lock", "has", "end"} : at' = [at EXCEPT ![s] = a]
    BY <1>6 DEF UserReadsOn, UserReadErr, StartProxy, Reading
  <2>4. StatesTyped' /\ FlagsTyped' /\ ChunksTyped'
    BY <1>0, <2>1, <2>2 DEF StatesTyped, FlagsTyped, ChunksTyped
  <2> QED BY <1>4, <2>1, <2>2, <2>3, <2>4
<1>7. CASE CloseEnds \/ CloseNot \/ CloseLock \/ Renew \/ WorkEnds
  <2>1. UNCHANGED <<link, readLoop, err, at, typed, got, lost, checker, checkStatus, due>>
    BY <1>7 DEF CloseEnds, CloseNot, CloseLock, Renew, WorkEnds, idleVars, inputVars
  <2>2. StatesTyped' /\ FlagsTyped' /\ ChunksTyped'
    BY <1>0, <1>7, <2>1 DEF CloseEnds, CloseNot, CloseLock, Renew, WorkEnds, Goto, StatesTyped,
                            FlagsTyped, ChunksTyped
  <2>3. ReadersTyped'
    BY <1>0, <1>7, <2>1 DEF CloseEnds, CloseNot, CloseLock, Renew, WorkEnds, Goto, inputVars,
                            ReadersTyped
  <2> QED BY <2>2, <2>3 DEF TypeInv
<1>8. CASE ReportWait \/ ReportWork
  <2>1. UNCHANGED <<link, readLoop, err, pipe, typed, got, lost, checker, due>>
    BY <1>8 DEF ReportWait, ReportWork, Report, inputVars
  <2>2. checkStatus' \in BOOLEAN
    BY <1>8 DEF ReportWait, ReportWork, Report
  <2>3. StatesTyped' /\ FlagsTyped' /\ ChunksTyped'
    BY <1>0, <1>8, <2>1, <2>2 DEF ReportWait, ReportWork, Goto, StatesTyped, FlagsTyped,
                                  ChunksTyped
  <2>4. ReadersTyped'
    <3>1. "menu" \in Readers
      BY DEF Readers
    <3>2. CASE ReportWait
      BY <1>0, <2>1, <3>1, <3>2 DEF ReportWait, Goto, Reading, ReadersTyped
    <3>3. CASE ReportWork
      BY <1>0, <2>1, <3>3 DEF ReportWork, Goto, inputVars, ReadersTyped
    <3> QED BY <1>8, <3>2, <3>3
  <2> QED BY <2>3, <2>4 DEF TypeInv
<1>9. CASE Tick \/ TakeTick \/ Cut \/ CheckerEnds \/ ClientEnds
  <2>1. UNCHANGED <<dispatch, readLoop, err, pipe, at, typed, got, lost, checkStatus>>
    BY <1>9 DEF Tick, TakeTick, Cut, CheckerEnds, ClientEnds, inputVars, idleVars
  <2>2. due' \in BOOLEAN
    BY <1>0, <1>9 DEF Tick, TakeTick, Cut, CheckerEnds, ClientEnds, idleVars, FlagsTyped
  <2>3. link' \in {"up", "closed", "gone"} /\ checker' \in {"select", "cut", "end"}
    BY <1>0, <1>9 DEF Tick, TakeTick, Cut, CheckerEnds, ClientEnds, idleVars, StatesTyped
  <2> QED BY <1>0, <2>1, <2>2, <2>3 DEF TypeInv, StatesTyped, FlagsTyped, ReadersTyped,
                                        ChunksTyped
<1>10. CASE UNCHANGED vars
  BY <1>0, <1>10 DEF vars, inputVars, idleVars, TypeInv, StatesTyped, FlagsTyped,
                     ReadersTyped, ChunksTyped
<1>11. CASE MenuReadErr
  <2>1. /\ dispatch = "read" /\ dispatch' = "end" /\ at' = [at EXCEPT !["menu"] = "away"]
        /\ UNCHANGED <<link, readLoop, err, pipe, typed, got, lost, checker, checkStatus, due>>
    BY <1>11 DEF MenuReadErr, Goto, idleVars
  <2>2. StatesTyped' /\ FlagsTyped' /\ ChunksTyped'
    BY <1>0, <2>1 DEF StatesTyped, FlagsTyped, ChunksTyped
  <2>3. ReadersTyped'
    <3>1. "menu" \in Readers
      BY DEF Readers
    <3> QED BY <1>0, <2>1, <3>1 DEF ReadersTyped
  <2> QED BY <2>2, <2>3 DEF TypeInv
<1> QED
  BY <1>1, <1>2, <1>3, <1>5, <1>6, <1>7, <1>8, <1>9, <1>10, <1>11 DEF Next

-----------------------------------------------------------------------------
(* The checker and Dispatch's reports.                                     *)

WorkInv ==
    dispatch \in {"work", "proxy", "broken", "renew"} => ~ checkStatus /\ checker # "cut"

\* While Dispatch works, the checker has its report that it does, which it took in its
\* select, so that it has not decided to cut off the user, and ticks decide nothing.
THEOREM WorkIsNotCut == Spec => []NoCutAtWork
<1>1. Init => WorkInv
  BY DEF Init, WorkInv
<1>2. WorkInv /\ [Next]_vars => WorkInv'
  <2> SUFFICES ASSUME WorkInv, [Next]_vars PROVE WorkInv'
    OBVIOUS
  <2>1. CASE ReportWait \/ ReportWork
    BY <2>1 DEF WorkInv, ReportWait, ReportWork, Report, Goto
  <2>2. CASE Tick \/ TakeTick \/ Cut \/ CheckerEnds \/ ClientEnds
    BY <2>2 DEF WorkInv, Tick, TakeTick, Cut, CheckerEnds, ClientEnds, idleVars
  <2>3. CASE CloseEnds \/ CloseNot \/ CloseLock \/ Renew \/ WorkEnds
    BY <2>3 DEF WorkInv, CloseEnds, CloseNot, CloseLock, Renew, WorkEnds, Goto, idleVars
  <2>4. CASE \/ LoopRead \/ LoopReadFails \/ LoopLock \/ LoopWriteFails \/ LoopBreak \/ LoopClose
             \/ MenuReads \/ MenuReadErr
    BY <2>4 DEF WorkInv, LoopRead, LoopReadFails, LoopLock, LoopWriteFails, LoopBreak, LoopClose,
                MenuReads, MenuReadErr, HandOver, Goto, idleVars
  <2>5. CASE \E r \in Readers : ReadLock(r)
    BY <2>5 DEF WorkInv, ReadLock, idleVars
  <2>6. CASE \E s \in Proxied : UserReads(s) \/ UserReadsOn(s) \/ UserReadErr(s) \/ StartProxy(s)
    BY <2>6 DEF WorkInv, UserReads, UserReadsOn, UserReadErr, StartProxy, HandOver, Goto,
                idleVars
  <2>7. CASE UNCHANGED vars
    BY <2>7 DEF WorkInv, vars, idleVars
  <2> QED BY <2>1, <2>2, <2>3, <2>4, <2>5, <2>6, <2>7 DEF Next
<1>3. WorkInv => NoCutAtWork
  BY DEF WorkInv, NoCutAtWork
<1> QED BY <1>1, <1>2, <1>3, PTL DEF Spec

-----------------------------------------------------------------------------
(* What becomes of each chunk.                                             *)

\* A chunk is in readLoop's hands from its read of the channel to the handover or the
\* write that fails.
InHand == IF readLoop \in {"lock", "write"} THEN {typed} ELSE {}

Increasing == \A i, j \in DOMAIN got : i < j => got[i] < got[j]

Shared ==
    /\ ToSet(got) \cup lost \cup InHand = 1..typed
    /\ ToSet(got) \cap (lost \cup InHand) = {} /\ lost \cap InHand = {}

\* A session was proxied if Bridge runs or a chunk was lost in its Close.
LossNeedsSession ==
    dispatch \in {"proxy", "broken", "renew"} \/ lost # {} => \E s \in Proxied : at[s] # "away"

InputInv == TypeInv /\ Increasing /\ Shared /\ LossNeedsSession

\* The parts make InputOnceInOrder.
LEMMA PartsAreInputInOrder == InputInv => InputOnceInOrder
BY DEF InputInv, Increasing, Shared, LossNeedsSession, InHand, InputOnceInOrder

\* Nothing was typed yet.
LEMMA InputInit == Init => InputInv
<1> SUFFICES ASSUME Init PROVE InputInv
  OBVIOUS
<1>1. Increasing /\ LossNeedsSession
  BY DEF Init, Increasing, LossNeedsSession
<1>2. ToSet(got) = {} /\ 1..typed = {} /\ InHand = {} /\ lost = {}
  BY DEF Init, ToSet, InHand
<1> QED BY <1>1, <1>2, TypeInit DEF InputInv, Shared

\* The chunk that is handed over is behind all that were, and leaves readLoop.
LEMMA HandOverStep ==
    ASSUME InputInv, HandOver
    PROVE  Increasing' /\ Shared' /\ lost' = lost
<1>0. /\ got \in Seq(1..MaxTyped) /\ Len(got) \in Nat /\ typed \in 1..MaxTyped /\ MaxTyped \in Nat
      /\ got' = Append(got, typed) /\ readLoop = "write" /\ readLoop' \in {"read", "break"}
      /\ UNCHANGED <<typed, lost>>
  BY HandOverType, SessionAssumption DEF InputInv, TypeInv, ChunksTyped, HandOver
<1>1. /\ Len(got') = Len(got) + 1 /\ DOMAIN got' = 1..Len(got) + 1 /\ DOMAIN got = 1..Len(got)
      /\ got'[Len(got) + 1] = typed /\ \A i \in 1..Len(got) : got'[i] = got[i]
  BY <1>0
<1>2. ToSet(got') = ToSet(got) \cup {typed}
  <2>1. \A x : x \in ToSet(got') <=> \E i \in 1..Len(got) + 1 : got'[i] = x
    BY <1>1 DEF ToSet
  <2>2. \A x : x \in ToSet(got) <=> \E i \in 1..Len(got) : got[i] = x
    BY <1>1 DEF ToSet
  <2>3. \A i : i \in 1..Len(got) + 1 <=> i \in 1..Len(got) \/ i = Len(got) + 1
    BY <1>0
  <2> QED BY <1>1, <2>1, <2>2, <2>3
<1>3. InHand = {typed} /\ InHand' = {}
  BY <1>0 DEF InHand
<1>4. Shared'
  BY <1>0, <1>2, <1>3 DEF InputInv, Shared
<1>5. \A i \in 1..Len(got) : got[i] < typed
  <2> TAKE i \in 1..Len(got)
  <2>1. got[i] \in ToSet(got)
    BY <1>1 DEF ToSet
  <2>2. got[i] \in 1..typed /\ got[i] # typed
    BY <1>3, <2>1 DEF InputInv, Shared
  <2> QED BY <1>0, <2>2
<1>6. Increasing'
  <2> SUFFICES ASSUME NEW i \in 1..Len(got) + 1, NEW j \in 1..Len(got) + 1, i < j
               PROVE  got'[i] < got'[j]
    BY <1>1 DEF Increasing
  <2>1. i \in 1..Len(got) /\ got'[i] = got[i]
    <3>1. Len(got) \in Nat
      BY <1>0
    <3>2. i \in 1..Len(got)
      BY <3>1
    <3> QED BY <1>1, <3>2
  <2>2. CASE j = Len(got) + 1
    BY <1>1, <1>5, <2>1, <2>2
  <2>3. CASE j \in 1..Len(got)
    BY <1>1, <2>1, <2>3 DEF InputInv, Increasing
  <2>4. j = Len(got) + 1 \/ j \in 1..Len(got)
    <3>1. Len(got) \in Nat
      BY <1>0
    <3> QED BY <3>1
  <2> QED BY <2>2, <2>3, <2>4
<1> QED BY <1>0, <1>4, <1>6

\* Steps without a chunk, in which no session is forgotten.
LEMMA NoInputStep ==
    ASSUME InputInv, TypeInv', UNCHANGED <<readLoop, typed, got, lost>>,
           \A s \in Proxied : at[s] # "away" => at'[s] # "away",
           dispatch' \in {"proxy", "broken", "renew"} =>
               \/ dispatch \in {"proxy", "broken", "renew"}
               \/ \E s \in Proxied : at'[s] # "away"
    PROVE  InputInv'
<1>1. Increasing' /\ Shared'
  BY DEF InputInv, Increasing, Shared, InHand
<1>2. LossNeedsSession'
  BY DEF InputInv, LossNeedsSession
<1> QED BY <1>1, <1>2 DEF InputInv

\* Every step keeps what became of the chunks.
LEMMA InputStep == InputInv /\ [Next]_vars => InputInv'
<1> SUFFICES ASSUME InputInv, [Next]_vars PROVE InputInv'
  OBVIOUS
<1>0. TypeInv /\ TypeInv' /\ Increasing /\ Shared /\ LossNeedsSession
  BY TypeStep DEF InputInv
<1>1. \A s \in Proxied : s \in Readers /\ s # "menu"
  BY SessionAssumption DEF Readers
<1>2. at \in [Readers -> {"away", "lock", "pipe", "has", "end"}]
  BY <1>0 DEF TypeInv, ReadersTyped
<1>3. CASE LoopRead \/ LoopReadFails
  <2>1. typed \in Nat /\ typed' = typed + 1 /\ InHand = {} /\ InHand' = {typed + 1}
    BY <1>0, <1>3, SessionAssumption DEF LoopRead, LoopReadFails, InHand, TypeInv, ChunksTyped
  <2>2. 1..typed + 1 = 1..typed \cup {typed + 1} /\ typed + 1 \notin 1..typed
    BY <2>1
  <2>3. UNCHANGED <<got, lost, at, dispatch>>
    BY <1>3 DEF LoopRead, LoopReadFails
  <2>4. ToSet(got) \cup lost = 1..typed /\ ToSet(got) \cap lost = {}
    BY <1>0, <2>1 DEF Shared
  <2>5. Shared'
    BY <2>1, <2>2, <2>3, <2>4 DEF Shared
  <2> QED BY <1>0, <2>3, <2>5 DEF InputInv, Increasing, LossNeedsSession
<1>4. CASE LoopLock \/ LoopBreak \/ LoopClose
  <2>1. InHand' = InHand /\ UNCHANGED <<got, lost, typed, at, dispatch>>
    BY <1>4 DEF LoopLock, LoopBreak, LoopClose, InHand
  <2> QED BY <1>0, <2>1 DEF InputInv, Increasing, Shared, LossNeedsSession
<1>5. CASE LoopWriteFails
  <2>1. InHand = {typed} /\ InHand' = {} /\ lost' = lost \cup {typed}
        /\ UNCHANGED <<got, typed, at, dispatch>>
    BY <1>5 DEF LoopWriteFails, LoopOn, InHand
  <2>2. Increasing' /\ Shared'
    BY <1>0, <2>1 DEF Increasing, Shared
  <2>3. dispatch \in {"broken", "renew"}
    BY <1>0, <1>5 DEF LoopWriteFails, TypeInv, ReadersTyped
  <2>4. LossNeedsSession'
    BY <1>0, <2>1, <2>3 DEF LossNeedsSession
  <2> QED BY <1>0, <2>2, <2>4 DEF InputInv
<1>6. CASE MenuReads
  <2>1. Increasing' /\ Shared' /\ lost' = lost
    BY <1>6, HandOverStep DEF MenuReads
  <2>2. \A s \in Proxied : at'[s] = at[s]
    BY <1>1, <1>2, <1>6 DEF MenuReads
  <2>3. dispatch' = dispatch \/ dispatch' \in {"line", "end"}
    BY <1>6 DEF MenuReads
  <2> QED BY <1>0, <2>1, <2>2, <2>3 DEF InputInv, LossNeedsSession
<1>7. ASSUME NEW r \in Readers, ReadLock(r) PROVE InputInv'
  <2>1. \A s \in Proxied : at'[s] \in {at[s], "pipe"}
    BY <1>1, <1>2, <1>7 DEF ReadLock
  <2>2. UNCHANGED <<readLoop, typed, got, lost, dispatch>>
    BY <1>7 DEF ReadLock
  <2> QED BY <1>0, <2>1, <2>2, NoInputStep
<1>8. ASSUME NEW s \in Proxied, UserReads(s) PROVE InputInv'
  <2>1. Increasing' /\ Shared' /\ lost' = lost
    BY <1>8, HandOverStep DEF UserReads
  <2>2. at'[s] = "has"
    BY <1>1, <1>2, <1>8 DEF UserReads
  <2> QED BY <1>0, <2>1, <2>2 DEF InputInv, LossNeedsSession
<1>9. ASSUME NEW s \in Proxied, UserReadsOn(s) \/ UserReadErr(s) \/ StartProxy(s) PROVE InputInv'
  <2>1. UNCHANGED <<readLoop, typed, got, lost>>
    BY <1>9 DEF UserReadsOn, UserReadErr, StartProxy
  <2>2. \E a \in {"lock", "end"} : at' = [at EXCEPT ![s] = a]
    BY <1>9 DEF UserReadsOn, UserReadErr, StartProxy, Reading
  <2>3. at'[s] # "away" /\ \A t \in Proxied : at[t] # "away" => at'[t] # "away"
    BY <1>1, <1>2, <2>2
  <2> QED BY <1>0, <2>1, <2>3, NoInputStep
<1>10. CASE CloseEnds \/ CloseNot \/ CloseLock \/ Renew \/ WorkEnds
  <2>1. UNCHANGED <<readLoop, typed, got, lost, at>>
    BY <1>10 DEF CloseEnds, CloseNot, CloseLock, Renew, WorkEnds, inputVars
  <2>2. dispatch' \in {"proxy", "broken", "renew"} => dispatch \in {"proxy", "broken", "renew"}
    BY <1>10 DEF CloseEnds, CloseNot, CloseLock, Renew, WorkEnds, Goto
  <2> QED BY <1>0, <2>1, <2>2, NoInputStep
<1>11. CASE ReportWait \/ ReportWork \/ MenuReadErr
  <2>1. /\ UNCHANGED <<readLoop, typed, got, lost>>
        /\ dispatch' \in {"read", "work", "end"}
    BY <1>11 DEF ReportWait, ReportWork, MenuReadErr, Goto, inputVars
  <2>2. \A s \in Proxied : at'[s] = at[s]
    BY <1>1, <1>2, <1>11 DEF ReportWait, ReportWork, MenuReadErr, Reading, inputVars
  <2> QED BY <1>0, <2>1, <2>2, NoInputStep
<1>12. CASE Tick \/ TakeTick \/ Cut \/ CheckerEnds \/ ClientEnds \/ UNCHANGED vars
  <2>1. UNCHANGED <<dispatch, readLoop, at, typed, got, lost>>
    BY <1>12 DEF Tick, TakeTick, Cut, CheckerEnds, ClientEnds, vars, inputVars
  <2> QED BY <1>0, <2>1, NoInputStep
<1> QED
  BY <1>3, <1>4, <1>5, <1>6, <1>7, <1>8, <1>9, <1>10, <1>11, <1>12 DEF Next

\* Whoever reads the pipe meanwhile, the menu or sessions that ended, and however often
\* Close breaks and renews it, every chunk is read once, in the order typed, unless it
\* was lost in a Close: readLoop writes one chunk at a time and no reader gives it back.
THEOREM InputIsReadOnceInOrder == Spec => []InputOnceInOrder
<1>1. Spec => []InputInv
  BY InputInit, InputStep, PTL DEF Spec
<1> QED BY <1>1, PartsAreInputInOrder, PTL

\* Every variable keeps its type; the pipe is broken only inside Close or when readLoop
\* has broken off, and Dispatch reads only at its prompt.
THEOREM SessionTypeCorrect == Spec => []TypeOK
<1>1. Spec => []TypeInv
  BY TypeInit, TypeStep, PTL DEF Spec
<1> QED BY <1>1, PartsAreTypeOK, PTL
=============================================================================
