----------------------------- MODULE MenuProofs -----------------------------
(* Theorems about the menu and the LineEditor it reads its lines with, for  *)
(* every prompt, all characters, windows, sizes of the history, and sets of *)
(* pods in any clusters.                                                    *)
EXTENDS Menu, LineEditor, FiniteSetTheorems, NaturalsInduction, TLAPS

-----------------------------------------------------------------------------
(* Where words start: the least and the greatest of a set of places.       *)

\* A nonempty set of naturals has a least one.
LEMMA LeastNatural ==
    ASSUME NEW S \in SUBSET Nat, S # {}
    PROVE  \E i \in S : \A j \in S : i <= j
<1> DEFINE R == OpToRel(<, Nat)
<1>1. IsWellFoundedOn(R, Nat)
  BY NatLessThanWellFounded
<1>2. PICK i \in S : \A j \in S : ~ (<<j, i>> \in R)
  BY <1>1, WFMin
<1>3. \A j \in S : ~ (j < i)
  BY <1>2 DEF OpToRel
<1> QED BY <1>3

\* MinOf chooses a member of a nonempty set.
LEMMA MinOfIsIn ==
    ASSUME NEW S \in SUBSET Nat, S # {}
    PROVE  MinOf(S) \in S
BY LeastNatural DEF MinOf

\* MaxOf chooses a member of a bounded set: its greatest leaves the least to the bound.
LEMMA MaxOfIsIn ==
    ASSUME NEW n \in Nat, NEW S \in SUBSET (0..n), S # {}
    PROVE  MaxOf(S) \in S
<1> DEFINE T == {n - i : i \in S}
<1>1. T \in SUBSET Nat /\ T # {}
  <2>1. \A i \in S : i \in 0..n
    OBVIOUS
  <2>2. \A i \in S : n - i \in Nat
    BY <2>1
  <2> QED BY <2>2
<1>2. PICK k \in T : \A j \in T : k <= j
  BY <1>1, LeastNatural
<1>3. PICK i \in S : k = n - i
  BY <1>2
<1>4. \A j \in S : j <= i
  <2> TAKE j \in S
  <2>1. k <= n - j
    BY <1>2
  <2> QED BY <2>1, <1>3
<1> QED BY <1>4 DEF MaxOf

\* A word to the left starts in the line, before the cursor, and one to the right
\* behind it.
LEMMA WordsAreInLine ==
    ASSUME NEW m \in Nat, Len(line) = m, pos \in 0..m
    PROVE  CountToLeftWord \in 0..pos /\ CountToRightWord \in 0..m - pos
<1>1. CountToLeftWord \in 0..pos
  <2> DEFINE S == {i \in 1..pos - 1 : line[i + 1] # Blank} \cup {0}
             last == MaxOf(S)
             T == {i \in 2..last : line[i] = Blank} \cup {0}
  <2>1. last \in 0..pos
    <3>1. \A i \in S : i \in 0..pos
      OBVIOUS
    <3>2. S \in SUBSET (0..pos) /\ S # {} /\ pos \in Nat
      BY <3>1
    <3>3. last \in S
      BY <3>2, MaxOfIsIn
    <3> QED BY <3>1, <3>3
  <2> HIDE DEF last
  <2>2. \A i \in T : i \in 0..pos
    BY <2>1
  <2>3. T \in SUBSET (0..pos) /\ T # {} /\ pos \in Nat
    BY <2>2
  <2>4. MaxOf(T) \in T
    BY <2>3, MaxOfIsIn
  <2>5. MaxOf(T) \in 0..pos
    BY <2>2, <2>4
  <2>6. CountToLeftWord = pos - MaxOf(T)
    BY DEF CountToLeftWord, last
  <2> HIDE DEF T
  <2> QED BY <2>5, <2>6
<1>2. CountToRightWord \in 0..m - pos
  <2> DEFINE S == {i \in pos..m - 1 : line[i + 1] = Blank} \cup {m}
             space == MinOf(S)
             T == {i \in space..m - 1 : line[i + 1] # Blank} \cup {m}
  <2>1. space \in pos..m
    <3>1. \A i \in S : i \in pos..m
      OBVIOUS
    <3>2. S \in SUBSET Nat /\ S # {}
      BY <3>1
    <3>3. space \in S
      BY <3>2, MinOfIsIn
    <3> QED BY <3>1, <3>3
  <2> HIDE DEF space
  <2>2. \A i \in T : i \in pos..m
    BY <2>1
  <2>3. T \in SUBSET Nat /\ T # {}
    BY <2>2
  <2>4. MinOf(T) \in T
    BY <2>3, MinOfIsIn
  <2>5. MinOf(T) \in pos..m
    BY <2>2, <2>4
  <2>6. CountToRightWord = MinOf(T) - pos
    BY DEF CountToRightWord, space
  <2> HIDE DEF T
  <2> QED BY <2>5, <2>6
<1> QED BY <1>1, <1>2

-----------------------------------------------------------------------------
(* The ring.                                                               *)

\* Add moves the head to the next place of the ring, or from its last to its first.
LEMMA HeadMoves ==
    ASSUME NEW h \in 0..HistorySize - 1
    PROVE  (h + 1) % HistorySize = IF h + 1 = HistorySize THEN 0 ELSE h + 1
<1>1. HistorySize \in Nat /\ HistorySize > 0 /\ h + 1 \in Nat
  BY EditorAssumption
<1>2. CASE h + 1 = HistorySize
  BY <1>1, <1>2
<1>3. CASE h + 1 < HistorySize
  BY <1>1, <1>3
<1> QED BY <1>1, <1>2, <1>3

\* The n-th entry before the last is in the ring.
LEMMA EntryIsIn ==
    ASSUME NEW H \in Nat, H > 0, NEW h \in 0..H - 1, NEW n \in 0..H - 1
    PROVE  (IF h - n < 0 THEN h - n + H ELSE h - n) \in 0..H - 1
OBVIOUS

-----------------------------------------------------------------------------
(* The invariant: LinesAreAsEntered, the types it rests on, and that a line is   *)
(* pasted data already while it is taken to be pasted.                           *)
HistoryTyped ==
    /\ line \in Seq(Chars) /\ pos \in 0..Len(line)
    /\ pasteActive \in BOOLEAN /\ lineIsPasted \in BOOLEAN
    /\ history \in [entries : [0..HistorySize - 1 -> Seq(Chars)],
                    head : 0..HistorySize - 1, size : 0..HistorySize]
    /\ historyIndex \in -1..history.size - 1 /\ historyPending \in Seq(Chars)
    /\ read \in Seq([line : Seq(Chars), pasted : BOOLEAN])

PastedSoFar ==
    /\ reading = "out" => line = <<>>
    /\ reading = "in" /\ lineIsPasted => line \in Seq(Pasted)

HistoryInv == HistoryTyped /\ PastedSoFar /\ LinesAreAsEntered

\* The ring has a place.
LEMMA SizeIsNat == HistorySize \in Nat /\ HistorySize > 0
BY EditorAssumption

\* NthPreviousEntry of an entry the ring holds is a line of characters.
LEMMA EntryType ==
    ASSUME HistoryTyped, NEW n \in 0..history.size - 1
    PROVE  NthPreviousEntry(n) \in Seq(Chars)
<1>1. history.head \in 0..HistorySize - 1 /\ n \in 0..HistorySize - 1
  BY SizeIsNat DEF HistoryTyped
<1>2. history.entries \in [0..HistorySize - 1 -> Seq(Chars)]
  BY DEF HistoryTyped
<1>3. (IF history.head - n < 0 THEN history.head - n + HistorySize ELSE history.head - n)
          \in 0..HistorySize - 1
  BY <1>1, SizeIsNat, EntryIsIn
<1> QED BY <1>2, <1>3 DEF NthPreviousEntry

\* Characters of a set come into a line of them, at the cursor, and others leave it.
LEMMA LineGrows ==
    ASSUME NEW S, line \in Seq(S), pos \in 0..Len(line), NEW ch \in S, AddKeyToLine(ch)
    PROVE  line' \in Seq(S) /\ pos' \in 0..Len(line')
<1>1. Before(pos) \in Seq(S) /\ Len(Before(pos)) = pos
  BY DEF Before
<1>2. Behind(pos) \in Seq(S) /\ Len(Behind(pos)) = Len(line) - pos
  BY DEF Behind
<1> QED BY <1>1, <1>2 DEF AddKeyToLine

\* Characters that leave the line leave a line, and the cursor in it.
LEMMA LineShrinks ==
    ASSUME line \in Seq(Chars), pos \in 0..Len(line), NEW p \in 0..Len(line), NEW n \in Nat,
           EraseNPreviousChars(p, n)
    PROVE  line' \in Seq(Chars) /\ pos' \in 0..Len(line')
<1> DEFINE m == IF p < n THEN p ELSE n
<1>1. CASE m = 0
  BY <1>1 DEF EraseNPreviousChars, lineVars
<1>2. CASE m # 0
  <2>1. m \in 1..p
    BY <1>2
  <2>2. line' = Before(p - m) \o Behind(p) /\ pos' = p - m
    BY <1>2 DEF EraseNPreviousChars
  <2> HIDE DEF m
  <2>3. Before(p - m) \in Seq(Chars) /\ Len(Before(p - m)) = p - m
    BY <2>1 DEF Before
  <2>4. Behind(p) \in Seq(Chars) /\ Len(Behind(p)) = Len(line) - p
    BY DEF Behind
  <2> QED BY <2>1, <2>2, <2>3, <2>4
<1> QED BY <1>1, <1>2

\* A key that leaves the history alone keeps the invariant if it keeps the line's type
\* and what is said of a pasted one.
LEMMA LineStep ==
    ASSUME HistoryInv, UNCHANGED <<histVars, read>>,
           line' \in Seq(Chars), pos' \in 0..Len(line'),
           pasteActive' \in BOOLEAN, lineIsPasted' \in BOOLEAN, PastedSoFar'
    PROVE  HistoryInv'
BY DEF HistoryInv, HistoryTyped, LinesAreAsEntered, NthPreviousEntry, histVars

\* A typed key's line is not pasted, whatever it does to it.
LEMMA TypedKeyStep ==
    ASSUME HistoryInv, TypedKey
    PROVE  /\ pasteActive' \in BOOLEAN /\ lineIsPasted' \in BOOLEAN /\ PastedSoFar'
           /\ line \in Seq(Chars) /\ pos \in 0..Len(line) /\ Len(line) \in Nat
<1>1. line \in Seq(Chars) /\ pos \in 0..Len(line) /\ Len(line) \in Nat /\ pasteActive \in BOOLEAN
  BY DEF HistoryInv, HistoryTyped
<1>2. reading' = "in" /\ pasteActive' = pasteActive /\ lineIsPasted' = FALSE
  BY DEF TypedKey
<1>3. PastedSoFar'
  BY <1>2 DEF PastedSoFar
<1> QED BY <1>1, <1>2, <1>3

\* A line that is handed to the caller is the newest of the ring, and the others are one
\* entry older there; the oldest of a full ring goes.
LEMMA ReturnStep ==
    ASSUME HistoryInv, NEW result \in Seq(Chars), NEW asPasted \in BOOLEAN,
           asPasted => result \in Seq(Pasted), lineIsPasted' \in BOOLEAN,
           Return(result, asPasted)
    PROVE  HistoryInv'
<1> DEFINE H == HistorySize
           h == history.head
           k == (h + 1) % H
           entry == [line |-> result, pasted |-> asPasted]
           returned == Append(read, entry)
<1>1. H \in Nat /\ H > 0 /\ h \in 0..H - 1 /\ Len(read) = history.size /\ Len(read) \in 0..H
  BY SizeIsNat DEF HistoryInv, HistoryTyped, LinesAreAsEntered
<1>2. k \in 0..H - 1 /\ k = IF h + 1 = H THEN 0 ELSE h + 1
  BY <1>1, HeadMoves
<1>3. /\ history.entries \in [0..H - 1 -> Seq(Chars)]
      /\ read \in Seq([line : Seq(Chars), pasted : BOOLEAN])
  BY DEF HistoryInv, HistoryTyped
<1>4. /\ history' = [entries |-> [history.entries EXCEPT ![k] = result], head |-> k,
                    size |-> IF Len(read) < H THEN Len(read) + 1 ELSE Len(read)]
      /\ read' = IF Len(returned) > H THEN Tail(returned) ELSE returned
      /\ line' = <<>> /\ pos' = 0 /\ reading' = "out" /\ historyIndex' = -1
      /\ UNCHANGED <<historyPending, pasteActive>>
  BY <1>1 DEF Return, Add
<1>5. entry \in [line : Seq(Chars), pasted : BOOLEAN]
  OBVIOUS
<1> HIDE DEF k, entry
<1>6. /\ returned \in Seq([line : Seq(Chars), pasted : BOOLEAN])
      /\ Len(returned) = Len(read) + 1 /\ returned[Len(read) + 1] = entry
      /\ \A i \in 1..Len(read) : returned[i] = read[i]
  BY <1>3, <1>5
<1> HIDE DEF returned
<1> DEFINE d == IF Len(read) < H THEN 0 ELSE 1
<1>7. /\ read' \in Seq([line : Seq(Chars), pasted : BOOLEAN])
      /\ Len(read') = Len(read) + 1 - d
      /\ \A i \in 1..Len(read') : read'[i] = returned[i + d]
  <2>1. CASE Len(read) < H
    BY <1>1, <1>4, <1>6, <2>1
  <2>2. CASE ~ (Len(read) < H)
    <3>1. returned # <<>> /\ read' = Tail(returned)
      BY <1>1, <1>4, <1>6, <2>2
    <3> QED BY <1>1, <1>6, <2>2, <3>1
  <2> QED BY <2>1, <2>2
<1>8. Len(read') \in 1..H /\ history'.size = Len(read')
  <2>1. d \in {0, 1} /\ Len(read) + 1 - d = IF Len(read) < H THEN Len(read) + 1 ELSE Len(read)
    BY <1>1
  <2>2. Len(read) + 1 - d \in 1..H
    BY <1>1
  <2>3. history'.size = IF Len(read) < H THEN Len(read) + 1 ELSE Len(read)
    BY <1>4
  <2> HIDE DEF d
  <2> QED BY <1>7, <2>1, <2>2, <2>3
<1>9. HistoryTyped'
  <2>1. history' \in [entries : [0..H - 1 -> Seq(Chars)], head : 0..H - 1, size : 0..H]
    <3>1. [history.entries EXCEPT ![k] = result] \in [0..H - 1 -> Seq(Chars)]
      BY <1>2, <1>3
    <3>2. (IF Len(read) < H THEN Len(read) + 1 ELSE Len(read)) \in 0..H
      BY <1>1
    <3> QED BY <1>2, <1>4, <3>1, <3>2
  <2>2. line' \in Seq(Chars) /\ pos' \in 0..Len(line')
    BY <1>4
  <2>3. pasteActive' \in BOOLEAN /\ historyPending' \in Seq(Chars)
    BY <1>4 DEF HistoryInv, HistoryTyped
  <2>4. historyIndex' \in -1..history'.size - 1
    BY <1>4, <1>8
  <2> QED BY <1>7, <2>1, <2>2, <2>3, <2>4 DEF HistoryTyped
<1>10. PastedSoFar'
  BY <1>4 DEF PastedSoFar
<1>11. ASSUME NEW n \in 0..Len(read') - 1
       PROVE  NthPreviousEntry(n)' = read'[Len(read') - n].line
  <2> DEFINE at(g, j) == IF g - j < 0 THEN g - j + H ELSE g - j
  <2>1. NthPreviousEntry(n)' = [history.entries EXCEPT ![k] = result][at(k, n)]
    BY <1>4 DEF NthPreviousEntry
  <2>2. read'[Len(read') - n] = returned[Len(read) + 1 - n]
    <3>1. Len(read') - n \in 1..Len(read')
      BY <1>8
    <3>2. read'[Len(read') - n] = returned[Len(read') - n + d]
      BY <1>7, <3>1
    <3>3. d \in Nat /\ Len(read) \in Nat /\ Len(read') \in Nat /\ n \in Nat
      BY <1>1, <1>8
    <3> HIDE DEF d
    <3>4. Len(read') - n + d = Len(read) + 1 - n
      BY <1>7, <3>3
    <3> QED BY <3>2, <3>4
  <2>3. CASE n = 0
    <3>1. at(k, n) = k
      BY <1>2, <2>3
    <3>2. NthPreviousEntry(n)' = result
      BY <1>2, <1>3, <2>1, <3>1
    <3>3. read'[Len(read') - n] = entry
      BY <1>1, <1>6, <2>2, <2>3
    <3> QED BY <3>2, <3>3 DEF entry
  <2>4. CASE n # 0
    <3>1. n \in 1..H - 1 /\ n - 1 \in 0..Len(read) - 1
      <4> DEFINE a == Len(read)
                 b == Len(read')
      <4>1. a \in Nat /\ b \in 1..H /\ b <= a + 1 /\ H \in Nat
        BY <1>1, <1>7, <1>8
      <4>2. n \in 0..b - 1 /\ n # 0
        BY <2>4
      <4> HIDE DEF a, b, H
      <4>3. n \in 1..H - 1 /\ n - 1 \in 0..a - 1
        BY <4>1, <4>2
      <4> QED BY <4>3 DEF a
    <3>2. at(k, n) = at(h, n - 1) /\ at(k, n) # k /\ at(k, n) \in 0..H - 1
      <4> HIDE DEF h, H
      <4>1. at(k, n) = at(h, n - 1) /\ at(k, n) # k
        BY <1>1, <1>2, <3>1
      <4>2. at(k, n) \in 0..H - 1
        BY <1>1, <1>2, <3>1
      <4> QED BY <4>1, <4>2
    <3>3. NthPreviousEntry(n)' = NthPreviousEntry(n - 1)
      BY <1>3, <2>1, <3>2 DEF NthPreviousEntry
    <3>4. NthPreviousEntry(n - 1) = read[Len(read) - (n - 1)].line
      BY <3>1 DEF HistoryInv, LinesAreAsEntered
    <3>5. returned[Len(read) + 1 - n] = read[Len(read) - (n - 1)]
      <4>1. Len(read) - (n - 1) = Len(read) + 1 - n /\ Len(read) + 1 - n \in 1..Len(read)
        BY <1>1, <3>1
      <4> QED BY <1>6, <4>1
    <3> QED BY <2>2, <3>3, <3>4, <3>5
  <2> QED BY <2>3, <2>4
<1>12. ASSUME NEW i \in DOMAIN read', read'[i].pasted
       PROVE  read'[i].line \in Seq(Pasted)
  <2>1. i \in 1..Len(read') /\ read'[i] = returned[i + d] /\ i + d \in 1..Len(read) + 1
    <3>1. i \in 1..Len(read')
      BY <1>7, <1>12
    <3>2. d \in {0, 1} /\ Len(read) \in Nat /\ Len(read') = Len(read) + 1 - d
      BY <1>1, <1>7
    <3> HIDE DEF d
    <3> QED BY <1>7, <3>1, <3>2
  <2>2. CASE i + d = Len(read) + 1
    <3>1. read'[i] = entry
      BY <1>6, <2>1, <2>2
    <3> QED BY <1>12, <3>1 DEF entry
  <2>3. CASE i + d \in 1..Len(read)
    <3>1. read'[i] = read[i + d]
      BY <1>6, <2>1, <2>3
    <3>2. i + d \in DOMAIN read
      BY <1>3, <2>3
    <3> QED BY <1>12, <3>1, <3>2 DEF HistoryInv, LinesAreAsEntered
  <2> QED BY <1>1, <2>1, <2>2, <2>3
<1> QED BY <1>8, <1>9, <1>10, <1>11, <1>12 DEF HistoryInv, LinesAreAsEntered
-----------------------------------------------------------------------------
\* A new terminal has read nothing and its ring is empty.
LEMMA HistoryInit == Init => HistoryInv
<1> SUFFICES ASSUME Init PROVE HistoryInv
  OBVIOUS
<1>1. <<>> \in Seq(Chars) /\ Len(<<>>) = 0
  OBVIOUS
<1>2. history \in [entries : [0..HistorySize - 1 -> Seq(Chars)],
                  head : 0..HistorySize - 1, size : 0..HistorySize]
  BY SizeIsNat, <1>1 DEF Init
<1>3. history.size = 0 /\ read = <<>> /\ Len(read) = 0
  BY DEF Init
<1>4. HistoryTyped
  <2>1. line \in Seq(Chars) /\ pos \in 0..Len(line) /\ historyPending \in Seq(Chars)
    BY <1>1 DEF Init
  <2>2. pasteActive \in BOOLEAN /\ lineIsPasted \in BOOLEAN
    BY DEF Init
  <2>3. historyIndex \in -1..history.size - 1
    <3>1. historyIndex = -1
      BY DEF Init
    <3>2. -1 \in -1..0 - 1
      OBVIOUS
    <3> QED BY <1>3, <3>1, <3>2
  <2>4. read \in Seq([line : Seq(Chars), pasted : BOOLEAN])
    BY <1>3
  <2> QED BY <1>2, <2>1, <2>2, <2>3, <2>4 DEF HistoryTyped
<1>5. PastedSoFar
  BY DEF Init, PastedSoFar
<1>6. LinesAreAsEntered
  BY <1>3 DEF LinesAreAsEntered
<1> QED BY <1>4, <1>5, <1>6 DEF HistoryInv

\* Every step of the editor keeps the invariant.
LEMMA HistoryStep == HistoryInv /\ [Next]_vars => HistoryInv'
<1> SUFFICES ASSUME HistoryInv, [Next]_vars PROVE HistoryInv'
  OBVIOUS
<1>0. /\ line \in Seq(Chars) /\ Len(line) \in Nat /\ pos \in 0..Len(line)
      /\ pasteActive \in BOOLEAN /\ lineIsPasted \in BOOLEAN
  BY DEF HistoryInv, HistoryTyped
<1>1. CASE ReadLine
  <2>1. line' = <<>> /\ reading' = "in" /\ pos' = pos /\ UNCHANGED <<histVars, read>>
    BY <1>1 DEF ReadLine, HistoryInv, PastedSoFar
  <2>2. line' = line /\ pasteActive' \in BOOLEAN /\ lineIsPasted' \in BOOLEAN
    BY <1>0, <1>1 DEF ReadLine
  <2>3. PastedSoFar'
    BY <2>1 DEF PastedSoFar
  <2> QED BY <1>0, <2>1, <2>2, <2>3, LineStep
<1>2. ASSUME EditKey, line' \in Seq(Chars), pos' \in 0..Len(line') PROVE HistoryInv'
  BY <1>2, TypedKeyStep, LineStep DEF EditKey
<1>3. ASSUME NEW p \in 0..Len(line), MoveTo(p) PROVE line' \in Seq(Chars) /\ pos' \in 0..Len(line')
  BY <1>0, <1>3 DEF MoveTo
<1>4. CASE KeyBackspace
  BY <1>0, <1>2, <1>4, LineShrinks DEF KeyBackspace
<1>5. CASE KeyAltLeft \/ KeyAltRight
  <2>1. CountToLeftWord \in 0..pos /\ CountToRightWord \in 0..Len(line) - pos
    BY <1>0, WordsAreInLine
  <2>2. pos - CountToLeftWord \in 0..Len(line) /\ pos + CountToRightWord \in 0..Len(line)
    BY <1>0, <2>1
  <2> QED BY <1>2, <1>3, <1>5, <2>2 DEF KeyAltLeft, KeyAltRight
<1>6. CASE KeyLeft \/ KeyRight \/ KeyHome \/ KeyEnd
  <2>1. /\ (IF pos = 0 THEN 0 ELSE pos - 1) \in 0..Len(line)
        /\ (IF pos = Len(line) THEN pos ELSE pos + 1) \in 0..Len(line)
        /\ 0 \in 0..Len(line) /\ Len(line) \in 0..Len(line)
    BY <1>0
  <2> QED BY <1>2, <1>3, <1>6, <2>1 DEF KeyLeft, KeyRight, KeyHome, KeyEnd
<1>7. CASE KeyUp
  <2>1. TypedKey /\ UNCHANGED <<history, read>>
    BY <1>7 DEF KeyUp
  <2>2. CASE historyIndex + 1 >= history.size
    <3>1. UNCHANGED <<line, pos, histVars, read>>
      BY <1>7, <2>1, <2>2 DEF KeyUp, lineVars, histVars
    <3> QED BY <1>0, <2>1, <3>1, TypedKeyStep, LineStep
  <2>3. CASE ~ (historyIndex + 1 >= history.size)
    <3> DEFINE entry == NthPreviousEntry(historyIndex + 1)
    <3>1. historyIndex + 1 \in 0..history.size - 1
      BY <2>3 DEF HistoryInv, HistoryTyped
    <3>2. entry \in Seq(Chars)
      BY <3>1, EntryType DEF HistoryInv
    <3>3. /\ line' = entry /\ pos' = Len(entry) /\ historyIndex' = historyIndex + 1
          /\ historyPending' = IF historyIndex = -1 THEN line ELSE historyPending
      BY <1>7, <2>3 DEF KeyUp, SetLine
    <3>4. historyPending' \in Seq(Chars)
      BY <1>0, <3>3 DEF HistoryInv, HistoryTyped
    <3> HIDE DEF entry
    <3>5. line' \in Seq(Chars) /\ pos' \in 0..Len(line')
      BY <3>2, <3>3
    <3>6. historyIndex' \in -1..history'.size - 1
      BY <2>1, <3>1, <3>3
    <3> QED BY <2>1, <3>4, <3>5, <3>6, TypedKeyStep
            DEF HistoryInv, HistoryTyped, LinesAreAsEntered, NthPreviousEntry
  <2> QED BY <2>2, <2>3
<1>8. CASE KeyDown
  <2>1. TypedKey /\ UNCHANGED <<history, historyPending, read>>
    BY <1>8 DEF KeyDown
  <2>2. CASE historyIndex = -1
    <3>1. UNCHANGED <<line, pos, histVars, read>>
      BY <1>8, <2>1, <2>2 DEF KeyDown, lineVars, histVars
    <3> QED BY <1>0, <2>1, <3>1, TypedKeyStep, LineStep
  <2>3. CASE historyIndex # -1
    <3> DEFINE entry == IF historyIndex = 0 THEN historyPending
                        ELSE NthPreviousEntry(historyIndex - 1)
    <3>1. historyIndex \in 0..history.size - 1 /\ history.size \in Nat
      BY <2>3 DEF HistoryInv, HistoryTyped
    <3>2. entry \in Seq(Chars)
      <4>1. CASE historyIndex = 0
        BY <4>1 DEF HistoryInv, HistoryTyped
      <4>2. CASE historyIndex # 0
        <5>1. historyIndex - 1 \in 0..history.size - 1
          BY <3>1, <4>2
        <5> QED BY <4>2, <5>1, EntryType DEF HistoryInv
      <4> QED BY <4>1, <4>2
    <3>3. line' = entry /\ pos' = Len(entry) /\ historyIndex' = historyIndex - 1
      BY <1>8, <2>3 DEF KeyDown, SetLine
    <3> HIDE DEF entry
    <3>4. line' \in Seq(Chars) /\ pos' \in 0..Len(line')
      BY <3>2, <3>3
    <3>5. historyIndex' \in -1..history'.size - 1
      BY <2>1, <3>1, <3>3
    <3> QED BY <2>1, <3>4, <3>5, TypedKeyStep
            DEF HistoryInv, HistoryTyped, LinesAreAsEntered, NthPreviousEntry
  <2> QED BY <2>2, <2>3
<1>9. CASE KeyCtrlC
  <2>1. <<>> \in Seq(Chars) /\ <<>> \in Seq(Pasted)
    OBVIOUS
  <2>2. lineIsPasted' = FALSE /\ Return(<<>>, FALSE)
    BY <1>9 DEF KeyCtrlC
  <2> QED BY <2>1, <2>2, ReturnStep
<1>10. CASE KeyEnter
  <2>1. /\ reading = "in" /\ lineIsPasted' = (lineIsPasted /\ pasteActive)
        /\ Return(line, lineIsPasted')
    BY <1>10 DEF KeyEnter
  <2>2. lineIsPasted' \in BOOLEAN /\ (lineIsPasted' => lineIsPasted)
    BY <1>0, <2>1
  <2>3. lineIsPasted' => line \in Seq(Pasted)
    BY <2>1, <2>2 DEF HistoryInv, PastedSoFar
  <2> QED BY <1>0, <2>1, <2>2, <2>3, ReturnStep
<1>11. CASE KeyDeleteWord \/ KeyCtrlU
  <2>1. CountToLeftWord \in Nat /\ pos \in Nat
    BY <1>0, WordsAreInLine
  <2> QED BY <1>0, <1>2, <1>11, <2>1, LineShrinks DEF KeyDeleteWord, KeyCtrlU
<1>12. CASE KeyDeleteLine
  <2>1. EditKey /\ line' = Before(pos) /\ pos' = pos
    BY <1>12 DEF KeyDeleteLine
  <2>2. Before(pos) \in Seq(Chars) /\ Len(Before(pos)) = pos
    BY <1>0 DEF Before
  <2> QED BY <1>0, <1>2, <2>1, <2>2
<1>13. CASE KeyCtrlD
  <2>1. CASE EditKey /\ pos < Len(line) /\ EraseNPreviousChars(pos + 1, 1)
    <3>1. pos + 1 \in 0..Len(line)
      BY <1>0, <2>1
    <3> QED BY <1>0, <1>2, <2>1, <3>1, LineShrinks
  <2>2. CASE EditKey /\ UNCHANGED lineVars
    BY <1>0, <1>2, <2>2 DEF lineVars
  <2>3. CASE reading' = "eof" /\ UNCHANGED <<lineVars, pasteVars, histVars, read>>
    <3>1. PastedSoFar'
      BY <2>3 DEF PastedSoFar
    <3> QED BY <1>0, <2>3, <3>1, LineStep DEF lineVars, pasteVars
  <2> QED BY <1>13, <2>1, <2>2, <2>3 DEF KeyCtrlD
<1>14. CASE KeyClearScreen
  BY <1>0, <1>2, <1>14 DEF KeyClearScreen
<1>15. CASE PasteStart
  <2>1. /\ reading' = reading /\ pasteActive' = TRUE /\ UNCHANGED <<line, pos, histVars, read>>
        /\ lineIsPasted' = (lineIsPasted \/ line = <<>>)
    BY <1>15 DEF PasteStart, lineVars
  <2>2. lineIsPasted' \in BOOLEAN
    BY <1>0, <2>1
  <2>3. <<>> \in Seq(Pasted)
    OBVIOUS
  <2>4. PastedSoFar'
    BY <2>1, <2>3 DEF PastedSoFar, HistoryInv
  <2> QED BY <1>0, <2>1, <2>2, <2>4, LineStep
<1>16. CASE PasteEnd
  <2>1. /\ UNCHANGED <<reading, line, pos, lineIsPasted, histVars, read>> /\ pasteActive' = FALSE
    BY <1>16 DEF PasteEnd, lineVars
  <2>2. PastedSoFar'
    BY <2>1 DEF PastedSoFar, HistoryInv
  <2> QED BY <1>0, <2>1, <2>2, LineStep
<1>17. ASSUME NEW ch \in Typed, KeyChar(ch) PROVE HistoryInv'
  <2>1. TypedKey /\ UNCHANGED <<histVars, read>>
    BY <1>17 DEF KeyChar
  <2>2. CASE UNCHANGED lineVars
    BY <1>0, <2>1, <2>2, TypedKeyStep, LineStep DEF lineVars
  <2>3. CASE AddKeyToLine(ch)
    <3>1. line' \in Seq(Chars) /\ pos' \in 0..Len(line')
      BY <1>0, <2>3, LineGrows DEF Chars
    <3> QED BY <2>1, <3>1, TypedKeyStep, LineStep
  <2> QED BY <1>17, <2>2, <2>3 DEF KeyChar
<1>18. ASSUME NEW ch \in Pasted, PasteChar(ch) PROVE HistoryInv'
  <2>1. AddKeyToLine(ch) /\ reading = "in" /\ UNCHANGED <<reading, pasteVars, histVars, read>>
    BY <1>18 DEF PasteChar
  <2>2. line' \in Seq(Chars) /\ pos' \in 0..Len(line')
    BY <1>0, <2>1, LineGrows DEF Chars
  <2>3. lineIsPasted => line' \in Seq(Pasted)
    BY <1>0, <2>1, LineGrows DEF HistoryInv, PastedSoFar
  <2>4. PastedSoFar' /\ pasteActive' \in BOOLEAN /\ lineIsPasted' \in BOOLEAN
    BY <1>0, <2>1, <2>3 DEF PastedSoFar, pasteVars
  <2> QED BY <2>1, <2>2, <2>4, LineStep
<1>19. ASSUME UNCHANGED <<reading, line, pos, pasteVars, histVars, read>> PROVE HistoryInv'
  <2>1. PastedSoFar'
    BY <1>19 DEF PastedSoFar, HistoryInv, pasteVars
  <2> QED BY <1>0, <1>19, <2>1, LineStep DEF pasteVars
<1>20. ASSUME NEW n \in 1..Rows, NEW ends \in BOOLEAN, Write(n, ends) PROVE HistoryInv'
  BY <1>19, <1>20 DEF Write
<1>23. CASE DisplayList
  BY <1>19, <1>23 DEF DisplayList
<1>21. ASSUME NEW w \in Widths, SetSize(w) PROVE HistoryInv'
  BY <1>19, <1>21 DEF SetSize
<1>22. CASE UNCHANGED vars
  BY <1>19, <1>22 DEF vars, lineVars
<1> QED BY <1>1, <1>4, <1>5, <1>6, <1>7, <1>8, <1>9, <1>10, <1>11, <1>12, <1>13, <1>14,
           <1>15, <1>16, <1>17, <1>18, <1>20, <1>21, <1>22, <1>23 DEF Next

\* The history keeps the lines that ReadLine returned, the last one first, for any
\* size of the ring, and no line is returned as pasted (treminal.go:964) that holds a
\* character which was typed.
THEOREM HistoryIsWhatWasRead == Spec => []LinesAreAsEntered
<1>1. Spec => []HistoryInv
  BY HistoryInit, HistoryStep, PTL DEF Spec
<1>2. HistoryInv => LinesAreAsEntered
  BY DEF HistoryInv
<1> QED BY <1>1, <1>2, PTL
-----------------------------------------------------------------------------
(* Rows and columns: place p is in row p \div w, at column p % w.          *)
LEMMA DivMod ==
    ASSUME NEW w \in Int, w > 0, NEW p \in Nat
    PROVE  /\ p \div w \in Nat /\ p % w \in 0..w - 1
           /\ p = (p \div w) * w + (p % w)
<1>1. p \div w \in Nat /\ p % w \in 0..w - 1
  OBVIOUS
<1>2. p = (p \div w) * w + (p % w)
  BY SMTT(20)
<1> QED BY <1>1, <1>2

\* Row and column say which place it is.
LEMMA DivUnique ==
    ASSUME NEW w \in Int, w > 0, NEW q \in Int, NEW r \in 0..w - 1, NEW p \in Int, p = q * w + r
    PROVE  p \div w = q /\ p % w = r
<1>1. q = p \div w
  BY SMTT(20)
<1>2. r = p % w
  BY SMTT(20)
<1> QED BY <1>1, <1>2

\* n places on from p.
LEMMA DivAdd ==
    ASSUME NEW w \in Int, w > 0, NEW p \in Nat, NEW n \in Nat
    PROVE  /\ (p + n) \div w = (p \div w) + ((p % w) + n) \div w
           /\ (p + n) % w = ((p % w) + n) % w
<1> DEFINE d == p \div w
           m == p % w
           x == m + n
           e == x \div w
           k == x % w
<1>1. d \in Nat /\ m \in 0..w - 1 /\ p = d * w + m
  BY DivMod
<1>2. x \in Nat
  BY <1>1
<1>3. e \in Nat /\ k \in 0..w - 1 /\ x = e * w + k
  <2> HIDE DEF x
  <2> QED BY <1>2, DivMod
<1> HIDE DEF d, m, e, k
<1>4. p + n = (d + e) * w + k
  BY <1>1, <1>3
<1>5. d + e \in Int /\ p + n \in Int
  BY <1>1, <1>3
<1>6. (p + n) \div w = d + e /\ (p + n) % w = k
  <2> DEFINE s == d + e
             y == p + n
  <2>1. s \in Int /\ y \in Int /\ y = s * w + k
    BY <1>4, <1>5
  <2> HIDE DEF s, y
  <2>2. y \div w = s /\ y % w = k
    BY <1>3, <2>1, DivUnique
  <2> QED BY <2>2 DEF s, y
<1> QED BY <1>6 DEF d, e, k, x, m

\* The place before p is in its row, unless p starts the next one.
LEMMA DivLast ==
    ASSUME NEW w \in Int, w > 0, NEW p \in Nat, p > 0
    PROVE  IF p % w = 0 THEN (p - 1) \div w + 1 = p \div w
           ELSE (p - 1) \div w = p \div w /\ ((p - 1) % w) + 1 = p % w
<1> DEFINE d == (p - 1) \div w
           m == (p - 1) % w
<1>1. d \in Nat /\ m \in 0..w - 1 /\ p - 1 = d * w + m
  <2> DEFINE y == p - 1
  <2>1. y \in Nat
    OBVIOUS
  <2> HIDE DEF y
  <2>2. y \div w \in Nat /\ y % w \in 0..w - 1 /\ y = (y \div w) * w + (y % w)
    BY <2>1, DivMod
  <2> QED BY <2>2 DEF y
<1> HIDE DEF d, m
<1>2. CASE m = w - 1
  <2> DEFINE s == d + 1
  <2>1. p = s * w + 0 /\ s \in Int /\ 0 \in 0..w - 1
    BY <1>1, <1>2
  <2> HIDE DEF s
  <2>2. p \div w = s /\ p % w = 0
    BY <2>1, DivUnique
  <2> QED BY <1>1, <2>2 DEF d, s
<1>3. CASE m # w - 1
  <2> DEFINE s == m + 1
  <2>1. p = d * w + s /\ s \in 0..w - 1 /\ s # 0
    BY <1>1, <1>3
  <2> HIDE DEF s
  <2>2. p \div w = d /\ p % w = s
    BY <1>1, <2>1, DivUnique
  <2> QED BY <2>1, <2>2 DEF d, m, s
<1> QED BY <1>2, <1>3

\* A multiple of the width is as big as its factor.
LEMMA TimesGrows ==
    ASSUME NEW w \in Int, w > 0, NEW a \in Int, NEW b \in Int, a < b
    PROVE  a * w + w <= b * w
<1>1. b - a - 1 >= 0
  OBVIOUS
<1>2. (b - a - 1) * w >= 0
  BY <1>1
<1> QED BY <1>2

\* Rows follow each other.
LEMMA DivMono ==
    ASSUME NEW w \in Int, w > 0, NEW p \in Nat, NEW q \in Nat, p <= q
    PROVE  p \div w <= q \div w
<1> DEFINE d == p \div w
           m == p % w
           e == q \div w
           k == q % w
<1>1. d \in Nat /\ m \in 0..w - 1 /\ p = d * w + m
  BY DivMod
<1>2. e \in Nat /\ k \in 0..w - 1 /\ q = e * w + k
  BY DivMod
<1> HIDE DEF d, m, e, k
<1>3. e < d => e * w + w <= d * w
  BY <1>1, <1>2, TimesGrows
<1>4. d * w \in Int /\ e * w \in Int
  BY <1>1, <1>2
<1>5. ~ (e < d)
  BY <1>1, <1>2, <1>3, <1>4
<1> QED BY <1>1, <1>2, <1>5 DEF d, e

-----------------------------------------------------------------------------
(* The terminal and what the editor tracks of it.                          *)
Letters == Chars \cup {Prompt[i] : i \in DOMAIN Prompt}

Terminals ==
    [cells : SUBSET (Int \X Letters), row : Int, col : Int, known : BOOLEAN, width : Nat \ {0},
     cursorX : Int, cursorY : Int, maxLine : Nat]

\* The cursor is tracked at place p, and is there as long as the screen is known.
At(t, p) ==
    /\ t \in Terminals /\ p \in Nat
    /\ t.cursorY = p \div t.width /\ t.cursorX = p % t.width
    /\ t.known => t.row = t.cursorY /\ t.col = t.cursorX
    /\ ~ t.known => t.row = 0 /\ t.col = 0 /\ t.cells = {}

\* Places from n on that show s, whatever they showed before.
Over(cells, n, s) ==
    {cell \in cells : cell[1] \notin n..n + Len(s) - 1}
        \cup {<<n + i - 1, s[i]>> : i \in {j \in DOMAIN s : s[j] # Blank}}

\* A terminal that is as wide, and whose last row is at least as far down.
Below(t, u) == u.width = t.width /\ u.maxLine >= t.maxLine

\* What is shown over cells are cells.
LEMMA OverType ==
    ASSUME NEW cells \in SUBSET (Int \X Letters), NEW n \in Nat, NEW s \in Seq(Letters)
    PROVE  Over(cells, n, s) \in SUBSET (Int \X Letters)
BY DEF Over

\* The types of a terminal, and its cursor's row and column.
LEMMA AtType ==
    ASSUME NEW t, NEW p, At(t, p)
    PROVE  /\ t \in Terminals /\ p \in Nat /\ t.width \in Nat /\ t.width > 0
           /\ t.row \in Nat /\ t.col \in 0..t.width - 1 /\ t.known \in BOOLEAN
           /\ t.cursorY \in Nat /\ t.cursorX \in 0..t.width - 1 /\ t.maxLine \in Nat
           /\ t.cursorY = p \div t.width /\ t.cursorX = p % t.width
           /\ t.known => t.row = t.cursorY /\ t.col = t.cursorX
           /\ ~ t.known => t.row = 0 /\ t.col = 0 /\ t.cells = {}
           /\ t.cells \in SUBSET (Int \X Letters)
<1> DEFINE w == t.width
           x == t.cursorX
           y == t.cursorY
<1>1. /\ t \in Terminals /\ p \in Nat /\ w \in Int /\ w > 0 /\ w \in Nat
      /\ y = p \div w /\ x = p % w /\ t.known \in BOOLEAN
      /\ t.known => t.row = y /\ t.col = x
      /\ ~ t.known => t.row = 0 /\ t.col = 0 /\ t.cells = {}
      /\ t.maxLine \in Nat /\ t.cells \in SUBSET (Int \X Letters)
  BY DEF At, Terminals
<1> HIDE DEF w, x, y
<1>2. y \in Nat /\ x \in 0..w - 1
  BY <1>1, DivMod
<1>3. t.row \in Nat /\ t.col \in 0..w - 1
  <2>1. 0 \in 0..w - 1
    BY <1>1
  <2> QED BY <1>1, <1>2, <2>1
<1> QED BY <1>1, <1>2, <1>3 DEF w, x, y

\* The place behind n characters, for the one who wrote and for the one who counts.
LEMMA PlaceBehind ==
    ASSUME NEW w \in Int, w > 0, NEW p \in Nat, NEW n \in Nat
    PROVE  /\ (p \div w) * w + (p % w) = p /\ (p % w) + n \in Nat
           /\ (p \div w) + (((p % w) + n) \div w) \in Nat /\ ((p % w) + n) % w \in 0..w - 1
           /\ (p + n) \div w = (p \div w) + (((p % w) + n) \div w)
           /\ (p + n) % w = ((p % w) + n) % w
           /\ n > 0 => /\ (p + n - 1) \div w \in Int /\ (p + n - 1) % w \in Int
                       /\ (p + n) % w = 0 => ((p + n - 1) \div w) + 1 = (p + n) \div w
                       /\ (p + n) % w # 0 => /\ (p + n - 1) \div w = (p + n) \div w
                                             /\ ((p + n - 1) % w) + 1 = (p + n) % w
<1> DEFINE d == p \div w
           m == p % w
           e == p + n
<1>1. d \in Nat /\ m \in 0..w - 1 /\ p = d * w + m
  BY DivMod
<1>2. e \div w = d + ((m + n) \div w) /\ e % w = (m + n) % w
  BY DivAdd
<1>3. e \in Nat /\ m + n \in Nat
  BY <1>1
<1> HIDE DEF e, d, m
<1>4. e \div w \in Nat /\ e % w \in 0..w - 1
  BY <1>3, DivMod
<1>5. ASSUME n > 0
      PROVE  /\ (e - 1) \div w \in Int /\ (e - 1) % w \in Int
             /\ e % w = 0 => ((e - 1) \div w) + 1 = e \div w
             /\ e % w # 0 => (e - 1) \div w = e \div w /\ ((e - 1) % w) + 1 = e % w
  <2> DEFINE to == e - 1
  <2>1. to \in Nat /\ e > 0
    BY <1>5 DEF e
  <2>2. IF e % w = 0 THEN (e - 1) \div w + 1 = e \div w
        ELSE (e - 1) \div w = e \div w /\ ((e - 1) % w) + 1 = e % w
    BY <1>3, <2>1, DivLast
  <2> HIDE DEF to
  <2>3. to \div w \in Nat /\ to % w \in 0..w - 1
    BY <2>1, DivMod
  <2> QED BY <2>2, <2>3 DEF to
<1> QED BY <1>1, <1>2, <1>3, <1>4, <1>5 DEF e, d, m

\* Characters that wrap at the end of each row take the cursor to the place behind them.
LEMMA WriteLineAt ==
    ASSUME NEW t, NEW p, At(t, p), NEW s \in Seq(Letters)
    PROVE  /\ At(WriteLine(t, s), p + Len(s)) /\ Below(t, WriteLine(t, s))
           /\ WriteLine(t, s).known => t.known /\ WriteLine(t, s).cells = Over(t.cells, p, s)
           /\ (p + Len(s)) \div t.width <= WriteLine(t, s).maxLine
<1> DEFINE w == t.width
           n == Len(s)
           to == p + n - 1
           x == t.cursorX + n
           y == t.cursorY + (x \div w)
           m == IF y > t.maxLine THEN y ELSE t.maxLine
           c == Over(t.cells, p, s)
           u == Queue(t, s)
           v == WriteLine(t, s)
<1>0. /\ t \in Terminals /\ p \in Nat /\ w \in Int /\ w > 0 /\ n \in Nat
      /\ t.cursorY = p \div w /\ t.cursorX = p % w /\ t.known \in BOOLEAN
      /\ t.known => t.row = t.cursorY /\ t.col = t.cursorX
      /\ ~ t.known => t.row = 0 /\ t.col = 0 /\ t.cells = {}
      /\ t.row \in Int /\ t.col \in Int
      /\ t.maxLine \in Nat /\ t.cells \in SUBSET (Int \X Letters)
  BY AtType
<1>1. /\ t.cursorY * w + t.cursorX = p /\ x \in Nat /\ y \in Nat /\ x % w \in 0..w - 1
      /\ (p + n) \div w = y /\ (p + n) % w = x % w
      /\ n > 0 => /\ to \div w \in Int /\ to % w \in Int
                  /\ x % w = 0 => (to \div w) + 1 = y
                  /\ x % w # 0 => to \div w = y /\ (to % w) + 1 = x % w
  <2> DEFINE d == p \div w
             k == p % w
  <2> HIDE DEF w, n
  <2>0. w \in Int /\ w > 0 /\ p \in Nat /\ n \in Nat
    BY <1>0
  <2>1. /\ d * w + k = p /\ k + n \in Nat /\ d + ((k + n) \div w) \in Nat
        /\ (k + n) % w \in 0..w - 1
        /\ (p + n) \div w = d + ((k + n) \div w) /\ (p + n) % w = (k + n) % w
    BY <2>0, PlaceBehind, SMTT(30)
  <2>2. n > 0 => /\ to \div w \in Int /\ to % w \in Int
                 /\ (p + n) % w = 0 => (to \div w) + 1 = (p + n) \div w
                 /\ (p + n) % w # 0 => to \div w = (p + n) \div w /\ (to % w) + 1 = (p + n) % w
    BY <2>0, PlaceBehind, SMTT(30)
  <2>3. t.cursorY = d /\ t.cursorX = k /\ x = k + n /\ y = d + ((k + n) \div w)
    BY <1>0
  <2> HIDE DEF d, k, to, x, y
  <2>4. (p + n) \div w = y /\ (p + n) % w = x % w
    BY <2>1, <2>3
  <2>5. n > 0 => /\ to \div w \in Int /\ to % w \in Int
                 /\ x % w = 0 => (to \div w) + 1 = y
                 /\ x % w # 0 => to \div w = y /\ (to % w) + 1 = x % w
    BY <2>2, <2>4
  <2>6. t.cursorY * w + t.cursorX = p /\ x \in Nat /\ y \in Nat /\ x % w \in 0..w - 1
    BY <2>1, <2>3
  <2> QED BY <2>4, <2>5, <2>6
<1>2. p + n \in Nat
  BY <1>0
<1>3. c \in SUBSET (Int \X Letters)
  BY <1>0, OverType
<1> HIDE DEF w, n, to, x, y, c
<1>4. m \in Nat /\ m >= t.maxLine /\ y <= m
  <2> DEFINE a == t.maxLine
  <2>1. a \in Nat /\ y \in Nat
    BY <1>0, <1>1
  <2> HIDE DEF a
  <2>2. (IF y > a THEN y ELSE a) \in Nat /\ (IF y > a THEN y ELSE a) >= a
        /\ y <= (IF y > a THEN y ELSE a)
    BY <2>1
  <2> QED BY <2>2 DEF a
<1> HIDE DEF m
<1>5. CASE s = <<>>
  <2>1. n = 0
    BY <1>5 DEF n
  <2>2. x = t.cursorX /\ u = t
    BY <1>0, <1>5, <2>1 DEF x, Queue
  <2>3. v = [t EXCEPT !.cursorX = x % w, !.cursorY = y, !.maxLine = m]
    BY <2>1, <2>2 DEF WriteLine, AdvanceCursor, n, x, y, m, w
  <2>4. c = t.cells
    BY <1>0, <1>5, <2>1 DEF Over, c, n
  <2>5. t.cursorY = y /\ t.cursorX = x % w
    <3>1. p + n = p
      BY <1>0, <2>1
    <3> QED BY <1>0, <1>1, <3>1
  <2>6. /\ v \in Terminals /\ v.cells = t.cells /\ v.row = t.row /\ v.col = t.col
        /\ v.width = t.width /\ v.cursorX = x % w /\ v.cursorY = y /\ v.maxLine = m
        /\ v.known = t.known
    <3>1. x % w \in Int /\ y \in Int
      BY <1>0, <1>1
    <3> HIDE DEF v
    <3> QED BY <1>0, <1>4, <2>3, <3>1 DEF Terminals
  <2> HIDE DEF v
  <2> QED BY <1>0, <1>1, <1>2, <1>4, <2>4, <2>5, <2>6 DEF At, Below, w, c, n, v
\* The screen is not known, or no longer: only what is tracked moves.
<1>7. CASE s # <<>> /\ ~ (t.known /\ \A i \in DOMAIN s : s[i] \notin Control)
  <2>1. n > 0
    BY <1>7 DEF n
  <2>2. /\ u \in Terminals /\ u.known = FALSE /\ u.cells = {} /\ u.row = 0 /\ u.col = 0
        /\ u.width = w /\ u.cursorX = t.cursorX /\ u.cursorY = t.cursorY /\ u.maxLine = t.maxLine
    <3>1. CASE ~ t.known
      <4>1. u = t
        BY <3>1 DEF Queue
      <4> HIDE DEF u
      <4> QED BY <1>0, <3>1, <4>1 DEF w
    <3>2. CASE t.known
      <4>1. u = [t EXCEPT !.cells = {}, !.row = 0, !.col = 0, !.known = FALSE]
        BY <1>7, <3>2 DEF Queue, Lost
      <4>2. {} \in SUBSET (Int \X Letters) /\ 0 \in Int
        OBVIOUS
      <4> HIDE DEF u
      <4> QED BY <1>0, <4>1, <4>2 DEF Terminals, w
    <3> QED BY <3>1, <3>2
  <2> DEFINE k == [u EXCEPT !.cursorX = x % w, !.cursorY = y, !.maxLine = m]
  <2> HIDE DEF u
  <2>4. /\ k \in Terminals /\ k.cells = {} /\ k.row = 0 /\ k.col = 0 /\ k.known = FALSE
        /\ k.width = w /\ k.cursorX = x % w /\ k.cursorY = y /\ k.maxLine = m
    <3>1. x % w \in Int /\ y \in Int
      BY <1>0, <1>1
    <3> QED BY <1>4, <2>2, <3>1 DEF Terminals
  <2>5. v = k
    <3>1. AdvanceCursor(u, n) = IF n > 0 /\ k.cursorX = 0 THEN CrLf(k) ELSE k
      BY <2>2 DEF AdvanceCursor, x, y, m, k
    <3> HIDE DEF k
    <3>2. CrLf(k) = k
      BY <2>4 DEF CrLf
    <3> QED BY <2>1, <3>1, <3>2 DEF WriteLine, n, u
  <2> HIDE DEF v, k
  <2> QED BY <1>1, <1>2, <1>4, <2>4, <2>5 DEF At, Below, w, n, v
<1>6. CASE s # <<>> /\ t.known /\ \A i \in DOMAIN s : s[i] \notin Control
  <2>1. n > 0
    BY <1>6 DEF n
  <2>2. u = [t EXCEPT !.cells = c, !.row = to \div w, !.col = (to % w) + 1]
    <3>1. t.row * t.width + t.col = p
      BY <1>0, <1>1, <1>6 DEF w
    <3> QED BY <1>6, <3>1 DEF Queue, Over, c, to, n, w
  <2> DEFINE k == [u EXCEPT !.cursorX = x % w, !.cursorY = y, !.maxLine = m]
  <2>3. u.width = w /\ u.cursorX = t.cursorX /\ u.cursorY = t.cursorY /\ u.maxLine = t.maxLine
    BY <1>0, <2>2 DEF Terminals, w
  <2>4. /\ k \in Terminals /\ k.cells = c /\ k.row = to \div w /\ k.col = (to % w) + 1
        /\ k.width = w /\ k.cursorX = x % w /\ k.cursorY = y /\ k.maxLine = m /\ k.known = TRUE
    <3>1. x % w \in Int /\ y \in Int /\ to \div w \in Int /\ (to % w) + 1 \in Int
      BY <1>0, <1>1, <2>1
    <3> DEFINE row == to \div w
               col == (to % w) + 1
               a == x % w
    <3>2. k = [[t EXCEPT !.cells = c, !.row = row, !.col = col]
                  EXCEPT !.cursorX = a, !.cursorY = y, !.maxLine = m]
      BY <2>2
    <3>3. row \in Int /\ col \in Int /\ a \in Int /\ y \in Int
      BY <3>1
    <3> HIDE DEF k, row, col, a, u
    <3>4. /\ k \in Terminals /\ k.cells = c /\ k.row = row /\ k.col = col
          /\ k.width = t.width /\ k.cursorX = a /\ k.cursorY = y /\ k.maxLine = m /\ k.known = TRUE
      BY <1>0, <1>6, <1>3, <1>4, <3>2, <3>3 DEF Terminals
    <3> QED BY <3>4 DEF row, col, a, w
  <2>5. v = IF x % w = 0 THEN CrLf(k) ELSE k
    <3> HIDE DEF k
    <3>1. AdvanceCursor(u, n) = IF n > 0 /\ k.cursorX = 0 THEN CrLf(k) ELSE k
      BY <2>3 DEF AdvanceCursor, x, y, m, k
    <3> QED BY <2>1, <2>4, <3>1 DEF WriteLine, n
  <2> HIDE DEF u, v, k
  <2>6. /\ v \in Terminals /\ v.cells = c /\ v.row = y /\ v.col = x % w
        /\ v.width = w /\ v.cursorX = x % w /\ v.cursorY = y /\ v.maxLine = m /\ v.known = TRUE
    <3>1. CASE x % w = 0
      <4>1. v = [k EXCEPT !.row = y, !.col = 0]
        BY <1>1, <2>1, <2>4, <2>5, <3>1 DEF CrLf
      <4> QED BY <1>1, <2>4, <3>1, <4>1 DEF Terminals
    <3>2. CASE x % w # 0
      BY <1>1, <2>1, <2>4, <2>5, <3>2
    <3> QED BY <3>1, <3>2
  <2> QED BY <1>1, <1>2, <1>4, <1>6, <2>6 DEF At, Below, w, c, n, v
<1> QED BY <1>0, <1>5, <1>6, <1>7

\* The escapes of move take the cursor to a place of the line.
LEMMA MovedAt ==
    ASSUME NEW t, NEW p, At(t, p), NEW q \in Nat, Len(Prompt) \in Nat
    PROVE  /\ At(MoveCursorToPos(t, q), Len(Prompt) + q)
           /\ MoveCursorToPos(t, q).cells = t.cells /\ MoveCursorToPos(t, q).known = t.known
           /\ MoveCursorToPos(t, q).width = t.width /\ MoveCursorToPos(t, q).maxLine = t.maxLine
<1> DEFINE w == t.width
           e == Len(Prompt) + q
           x == e % w
           y == e \div w
           v == MoveCursorToPos(t, q)
<1>0. /\ t \in Terminals /\ p \in Nat /\ w \in Int /\ w > 0 /\ e \in Nat
      /\ t.known => t.cursorY = t.row /\ t.cursorX = t.col
      /\ ~ t.known => t.row = 0 /\ t.col = 0 /\ t.cells = {}
      /\ t.known \in BOOLEAN /\ t.row \in Int /\ t.col \in 0..w - 1
      /\ t.maxLine \in Nat /\ t.cells \in SUBSET (Int \X Letters)
  BY AtType
<1> HIDE DEF w, e
<1>1. x \in 0..w - 1 /\ y \in Nat
  BY <1>0, DivMod
<1> HIDE DEF x, y
<1> DEFINE row == IF t.known THEN y ELSE 0
           left == IF t.known THEN x ELSE 0
<1>2. Move(t, y - t.cursorY, x - t.cursorX) = [t EXCEPT !.row = row, !.col = left]
  <2>0. CASE ~ t.known
    <3>1. Move(t, y - t.cursorY, x - t.cursorX) = t
      BY <2>0 DEF Move
    <3>2. [t EXCEPT !.row = 0, !.col = 0] = t
      BY <1>0, <2>0 DEF Terminals
    <3> QED BY <2>0, <3>1, <3>2
  <2> SUFFICES ASSUME t.known PROVE Move(t, y - t.cursorY, x - t.cursorX) = [t EXCEPT !.row = y, !.col = x]
    BY <2>0
  <2> DEFINE r == t.row
             k == t.col
             col == (IF k = w THEN k - 1 ELSE k) + (x - k)
  <2>1. r \in Int /\ k \in 0..w - 1 /\ t.cursorY = r /\ t.cursorX = k
    BY <1>0
  <2> HIDE DEF r, k
  <2>2. r + (y - r) = y /\ col = x /\ ~ (col < 0) /\ col < w
    BY <1>0, <1>1, <2>1
  <2> HIDE DEF col
  <2>3. Move(t, y - r, x - k)
            = [t EXCEPT !.row = r + (y - r), !.col = IF col < 0 THEN 0 ELSE IF col < w THEN col ELSE w - 1]
    BY DEF Move, r, k, w, col
  <2> QED BY <2>1, <2>2, <2>3
<1>3. v = [[t EXCEPT !.row = row, !.col = left] EXCEPT !.cursorX = x, !.cursorY = y]
  BY <1>2 DEF MoveCursorToPos, e, w, x, y
<1> DEFINE u == [t EXCEPT !.row = row, !.col = left]
<1>0a. row \in Int /\ left \in Int /\ (t.known => row = y /\ left = x)
       /\ (~ t.known => row = 0 /\ left = 0)
  BY <1>0, <1>1
<1> HIDE DEF row, left
<1>4. /\ u \in Terminals /\ u.cells = t.cells /\ u.width = w /\ u.maxLine = t.maxLine
      /\ u.row = row /\ u.col = left /\ u.known = t.known
  <2>1. row \in Int /\ left \in Int
    BY <1>0a
  <2> QED BY <1>0, <2>1 DEF Terminals, w
<1>5. v = [u EXCEPT !.cursorX = x, !.cursorY = y]
  BY <1>3
<1> HIDE DEF u, v
<1>6. /\ v \in Terminals /\ v.cells = t.cells /\ v.width = w /\ v.maxLine = t.maxLine
      /\ v.row = row /\ v.col = left /\ v.cursorX = x /\ v.cursorY = y /\ v.known = t.known
  <2>1. x \in Int /\ y \in Int
    BY <1>0, <1>1
  <2> QED BY <1>4, <1>5, <2>1 DEF Terminals
<1> QED BY <1>0, <1>0a, <1>6 DEF At, x, y, e, w, v
-----------------------------------------------------------------------------
(* What is to be seen, place by place.                                     *)
Paint(f) == {<<k, f[k]>> : k \in {j \in Nat : f[j] # Blank}}

Put(f, n, s) == [k \in Nat |-> IF k \in n..n + Len(s) - 1 THEN s[k - n + 1] ELSE f[k]]

\* Prompt and line, and nothing behind them.
Page(l) ==
    [k \in Nat |-> IF k < Len(Prompt) THEN Prompt[k + 1]
                   ELSE IF k < Len(Prompt) + Len(l) THEN l[k - Len(Prompt) + 1] ELSE Blank]

\* The prompt is not empty, and its characters and those of a line can be shown.
LEMMA PromptType ==
    /\ Len(Prompt) \in Nat /\ Len(Prompt) > 0 /\ Prompt \in Seq(Letters)
    /\ Blank \in Letters /\ Chars \subseteq Letters
<1>1. /\ Prompt \in Seq({Prompt[i] : i \in DOMAIN Prompt}) /\ Len(Prompt) > 0
      /\ {Prompt[i] : i \in DOMAIN Prompt} \subseteq Letters
  BY EditorAssumption DEF Letters
<1> DEFINE S == {Prompt[i] : i \in DOMAIN Prompt}
<1>2. Prompt \in Seq(Letters) /\ Len(Prompt) \in Nat
  <2>1. Prompt \in Seq(S) /\ S \subseteq Letters
    BY <1>1
  <2> HIDE DEF S
  <2> QED BY <2>1
<1>3. Blank \in Letters /\ Chars \subseteq Letters
  BY EditorAssumption DEF Letters, Chars
<1> QED BY <1>1, <1>2, <1>3

\* What is painted are cells.
LEMMA PaintType ==
    ASSUME NEW f \in [Nat -> Letters]
    PROVE  Paint(f) \in SUBSET (Int \X Letters) /\ \A cell \in Paint(f) : cell[1] \in Nat /\ cell[2] # Blank
BY DEF Paint

\* A line's page has a letter for every place.
LEMMA PageType ==
    ASSUME NEW l \in Seq(Chars)
    PROVE  Page(l) \in [Nat -> Letters]
<1> DEFINE L == Len(Prompt)
<1>1. ASSUME NEW k \in Nat
      PROVE  (IF k < L THEN Prompt[k + 1] ELSE IF k < L + Len(l) THEN l[k - L + 1] ELSE Blank) \in Letters
  <2>1. L \in Nat /\ Prompt \in Seq(Letters) /\ Blank \in Letters /\ Chars \subseteq Letters /\ Len(l) \in Nat
    BY PromptType
  <2>2. CASE k < L
    <3>1. k + 1 \in 1..Len(Prompt)
      BY <2>1, <2>2
    <3>2. Prompt[k + 1] \in Letters
      BY <2>1, <3>1
    <3> QED BY <2>2, <3>2
  <2>3. CASE ~ (k < L) /\ k < L + Len(l)
    <3>1. k - L + 1 \in 1..Len(l)
      BY <2>1, <2>3
    <3>2. l[k - L + 1] \in Letters
      BY <2>1, <3>1
    <3> QED BY <2>3, <3>2
  <2> QED BY <2>1, <2>2, <2>3
<1> QED BY <1>1 DEF Page

\* What is written over a painting is painted there.
LEMMA PaintOver ==
    ASSUME NEW f \in [Nat -> Letters], NEW n \in Nat, NEW s \in Seq(Letters)
    PROVE  Put(f, n, s) \in [Nat -> Letters] /\ Over(Paint(f), n, s) = Paint(Put(f, n, s))
<1> DEFINE g == Put(f, n, s)
           R == n..n + Len(s) - 1
<1>1. ASSUME NEW k \in Nat, k \in R
      PROVE  k - n + 1 \in DOMAIN s /\ n + (k - n + 1) - 1 = k /\ s[k - n + 1] \in Letters
  BY <1>1
<1>2. /\ g \in [Nat -> Letters]
      /\ \A k \in Nat : g[k] = IF k \in R THEN s[k - n + 1] ELSE f[k]
  BY <1>1 DEF Put
<1> HIDE DEF g
<1>3. ASSUME NEW cell \in Over(Paint(f), n, s)
      PROVE  cell \in Paint(g)
  <2>1. CASE cell \in Paint(f) /\ cell[1] \notin R
    <3>1. PICK k \in Nat : f[k] # Blank /\ cell = <<k, f[k]>>
      BY <2>1 DEF Paint
    <3>2. g[k] = f[k]
      BY <1>2, <2>1, <3>1
    <3> QED BY <3>1, <3>2 DEF Paint
  <2>2. CASE cell \in {<<n + i - 1, s[i]>> : i \in {j \in DOMAIN s : s[j] # Blank}}
    <3>1. PICK i \in DOMAIN s : s[i] # Blank /\ cell = <<n + i - 1, s[i]>>
      BY <2>2
    <3>2. i \in 1..Len(s) /\ n + i - 1 \in Nat /\ n + i - 1 \in R /\ (n + i - 1) - n + 1 = i
      BY <3>1
    <3>3. g[n + i - 1] = s[i]
      BY <1>2, <3>2
    <3> QED BY <3>1, <3>2, <3>3 DEF Paint
  <2> QED BY <1>3, <2>1, <2>2 DEF Over
<1>4. ASSUME NEW cell \in Paint(g)
      PROVE  cell \in Over(Paint(f), n, s)
  <2>1. PICK k \in Nat : g[k] # Blank /\ cell = <<k, g[k]>>
    BY <1>4 DEF Paint
  <2>2. CASE k \in R
    <3>1. g[k] = s[k - n + 1] /\ k - n + 1 \in DOMAIN s /\ n + (k - n + 1) - 1 = k
      BY <1>1, <1>2, <2>2
    <3> QED BY <2>1, <3>1 DEF Over
  <2>3. CASE k \notin R
    <3>1. cell \in Paint(f) /\ cell[1] = k
      BY <1>2, <2>1, <2>3 DEF Paint
    <3> QED BY <2>3, <3>1 DEF Over
  <2> QED BY <2>2, <2>3
<1> QED BY <1>2, <1>3, <1>4 DEF g

\* One write behind the other is one write.
LEMMA PutBehind ==
    ASSUME NEW f, NEW n \in Nat, NEW s \in Seq(Letters), NEW u \in Seq(Letters)
    PROVE  Put(Put(f, n, s), n + Len(s), u) = Put(f, n, s \o u)
<1>1. ASSUME NEW k \in Nat
      PROVE  Put(Put(f, n, s), n + Len(s), u)[k] = Put(f, n, s \o u)[k]
  <2>1. Len(s \o u) = Len(s) + Len(u) /\ Len(s) \in Nat /\ Len(u) \in Nat
    OBVIOUS
  <2>2. CASE k \in n..n + Len(s) - 1
    <3>1. k - n + 1 \in 1..Len(s) /\ k \notin n + Len(s)..n + Len(s) + Len(u) - 1
          /\ k \in n..n + Len(s \o u) - 1
      BY <2>1, <2>2
    <3>2. (s \o u)[k - n + 1] = s[k - n + 1]
      BY <3>1
    <3> QED BY <2>2, <3>1, <3>2 DEF Put
  <2>3. CASE k \in n + Len(s)..n + Len(s) + Len(u) - 1
    <3> DEFINE j == k - (n + Len(s)) + 1
    <3>1. k \in n..n + Len(s \o u) - 1 /\ j \in 1..Len(u) /\ k - n + 1 = Len(s) + j
      BY <2>1, <2>3
    <3>2. Put(Put(f, n, s), n + Len(s), u)[k] = u[j]
      BY <2>3 DEF Put
    <3> HIDE DEF j
    <3>3. (s \o u)[Len(s) + j] = u[j]
      BY <3>1
    <3> QED BY <3>1, <3>2, <3>3 DEF Put
  <2>4. CASE k \notin n..n + Len(s) + Len(u) - 1
    <3>1. k \notin n + Len(s)..n + Len(s) + Len(u) - 1 /\ k \notin n..n + Len(s) - 1
          /\ k \notin n..n + Len(s \o u) - 1
      BY <2>1, <2>4
    <3> QED BY <3>1 DEF Put
  <2> QED BY <2>1, <2>2, <2>3, <2>4
<1> QED BY <1>1 DEF Put

\* What is left of the old line behind place a must be written over.
LEMMA TailIsPut ==
    ASSUME NEW l \in Seq(Chars), NEW m \in Seq(Chars), NEW a \in Nat, NEW s \in Seq(Letters),
           a <= Len(l), a <= Len(m), Len(l) <= a + Len(s), Len(m) <= a + Len(s),
           \A i \in 1..a : m[i] = l[i],
           \A i \in 1..Len(s) : s[i] = IF a + i <= Len(m) THEN m[a + i] ELSE Blank
    PROVE  Put(Page(l), Len(Prompt) + a, s) = Page(m)
<1> DEFINE L == Len(Prompt)
<1>0. L \in Nat /\ Len(l) \in Nat /\ Len(m) \in Nat /\ Len(s) \in Nat
  BY PromptType
<1>1. ASSUME NEW k \in Nat
      PROVE  Put(Page(l), L + a, s)[k] = Page(m)[k]
  <2> HIDE DEF L
  <2>1. CASE k < L
    <3>1. k \notin L + a..L + a + Len(s) - 1
      BY <1>0, <2>1
    <3>2. Put(Page(l), L + a, s)[k] = Page(l)[k]
      BY <3>1 DEF Put
    <3> QED BY <2>1, <3>2 DEF Page, L
  <2>2. CASE ~ (k < L) /\ k < L + a
    <3>1. k \notin L + a..L + a + Len(s) - 1 /\ k < L + Len(l) /\ k < L + Len(m) /\ k - L + 1 \in 1..a
      BY <1>0, <2>2
    <3>2. Put(Page(l), L + a, s)[k] = Page(l)[k]
      BY <3>1 DEF Put
    <3>3. m[k - L + 1] = l[k - L + 1]
      BY <3>1
    <3> QED BY <2>2, <3>1, <3>2, <3>3 DEF Page, L
  <2>3. CASE ~ (k < L + a) /\ k < L + a + Len(s)
    <3> DEFINE i == k - (L + a) + 1
    <3>1. k \in L + a..L + a + Len(s) - 1 /\ i \in 1..Len(s) /\ a + i = k - L + 1 /\ ~ (k < L)
          /\ (a + i <= Len(m) <=> k < L + Len(m))
      <4> DEFINE n == Len(s)
                 c == Len(m)
      <4>1. n \in Nat /\ c \in Nat
        BY <1>0
      <4>4. L \in Nat /\ ~ (k < L + a) /\ k < L + a + n
        BY <1>0, <2>3
      <4> HIDE DEF n, c
      <4>2. k \in L + a..L + a + n - 1 /\ i \in 1..n /\ a + i = k - L + 1 /\ ~ (k < L)
        BY <4>1, <4>4
      <4>3. a + i <= c <=> k < L + c
        BY <4>1, <4>4
      <4> QED BY <4>2, <4>3 DEF n, c
    <3>2. Put(Page(l), L + a, s)[k] = s[i]
      BY <3>1 DEF Put
    <3>3. s[i] = IF a + i <= Len(m) THEN m[a + i] ELSE Blank
      BY <3>1
    <3> HIDE DEF i
    <3> QED BY <3>1, <3>2, <3>3 DEF Page, L
  <2>4. CASE ~ (k < L + a + Len(s))
    <3>1. /\ k \notin L + a..L + a + Len(s) - 1
          /\ ~ (k < L) /\ ~ (k < L + Len(l)) /\ ~ (k < L + Len(m))
      BY <1>0, <2>4
    <3>2. Put(Page(l), L + a, s)[k] = Page(l)[k]
      BY <3>1 DEF Put
    <3> QED BY <3>1, <3>2 DEF Page, L
  <2> QED BY <1>0, <2>1, <2>2, <2>3, <2>4
<1> QED BY <1>1 DEF Put, Page

\* Prompt and line are all there is if they are written over everything that was.
LEMMA Repainted ==
    ASSUME NEW l \in Seq(Chars), NEW c \in SUBSET (Int \X Letters),
           \A cell \in c : cell[1] \in 0..Len(Prompt) + Len(l) - 1
    PROVE  Over(Over(c, 0, Prompt), Len(Prompt), l) = Paint(Page(l))
<1> DEFINE L == Len(Prompt)
           o == Over(c, 0, Prompt)
<1>0. L \in Nat /\ Len(l) \in Nat /\ DOMAIN Prompt = 1..L /\ DOMAIN l = 1..Len(l)
  BY PromptType
<1>1. ASSUME NEW cell \in Over(o, L, l)
      PROVE  cell \in Paint(Page(l))
  <2>1. CASE cell \in c /\ cell[1] \notin 0..0 + L - 1 /\ cell[1] \notin L..L + Len(l) - 1
    <3>1. cell[1] \in 0..L + Len(l) - 1
      BY <2>1
    <3> HIDE DEF L
    <3> QED BY <1>0, <2>1, <3>1
  <2>2. CASE cell \in {<<0 + i - 1, Prompt[i]>> : i \in {j \in DOMAIN Prompt : Prompt[j] # Blank}}
    <3>1. PICK i \in DOMAIN Prompt : Prompt[i] # Blank /\ cell = <<0 + i - 1, Prompt[i]>>
      BY <2>2
    <3>2. i - 1 \in Nat /\ i - 1 < L /\ (i - 1) + 1 = i /\ 0 + i - 1 = i - 1
      BY <1>0
    <3>3. Page(l)[i - 1] = Prompt[i]
      BY <3>2 DEF Page
    <3> QED BY <3>1, <3>2, <3>3 DEF Paint
  <2>3. CASE cell \in {<<L + i - 1, l[i]>> : i \in {j \in DOMAIN l : l[j] # Blank}}
    <3>1. PICK i \in DOMAIN l : l[i] # Blank /\ cell = <<L + i - 1, l[i]>>
      BY <2>3
    <3>2. L + i - 1 \in Nat /\ ~ (L + i - 1 < L) /\ L + i - 1 < L + Len(l) /\ (L + i - 1) - L + 1 = i
      <4> HIDE DEF L
      <4> QED BY <1>0
    <3>3. Page(l)[L + i - 1] = l[i]
      BY <3>2 DEF Page
    <3> QED BY <3>1, <3>2, <3>3 DEF Paint
  <2> QED BY <1>1, <2>1, <2>2, <2>3 DEF Over
<1>2. ASSUME NEW cell \in Paint(Page(l))
      PROVE  cell \in Over(o, L, l)
  <2>1. PICK k \in Nat : Page(l)[k] # Blank /\ cell = <<k, Page(l)[k]>>
    BY <1>2 DEF Paint
  <2>2. CASE k < L
    <3>1. Page(l)[k] = Prompt[k + 1]
      BY <2>2 DEF Page
    <3>2. k + 1 \in DOMAIN Prompt /\ 0 + (k + 1) - 1 = k /\ k \notin L..L + Len(l) - 1
      <4> HIDE DEF L
      <4> QED BY <1>0, <2>2
    <3>3. cell = <<0 + (k + 1) - 1, Prompt[k + 1]>> /\ Prompt[k + 1] # Blank
      BY <2>1, <3>1, <3>2
    <3>4. cell \in o /\ cell[1] = k
      BY <2>1, <3>2, <3>3 DEF Over
    <3> HIDE DEF o
    <3> QED BY <3>2, <3>4 DEF Over
  <2>3. CASE ~ (k < L)
    <3>1. k < L + Len(l) /\ Page(l)[k] = l[k - L + 1]
      BY <2>1, <2>3 DEF Page
    <3>2. k - L + 1 \in DOMAIN l /\ L + (k - L + 1) - 1 = k
      <4> HIDE DEF L
      <4> QED BY <1>0, <2>3, <3>1
    <3>3. cell = <<L + (k - L + 1) - 1, l[k - L + 1]>> /\ l[k - L + 1] # Blank
      BY <2>1, <3>1, <3>2
    <3> HIDE DEF o, L
    <3> QED BY <3>2, <3>3 DEF Over
  <2> QED BY <2>2, <2>3
<1> QED BY <1>1, <1>2

\* The prompt alone, on a screen that is empty.
LEMMA PromptPainted == Over({}, 0, Prompt) = Paint(Page(<<>>))
<1>1. <<>> \in Seq(Chars) /\ {} \in SUBSET (Int \X Letters)
  OBVIOUS
<1>2. Over(Over({}, 0, Prompt), Len(Prompt), <<>>) = Paint(Page(<<>>))
  BY <1>1, Repainted
<1>3. ASSUME NEW cell \in Over({}, 0, Prompt)
      PROVE  cell[1] \notin Len(Prompt)..Len(Prompt) + 0 - 1
  BY PromptType
<1>4. Over(Over({}, 0, Prompt), Len(Prompt), <<>>) = Over({}, 0, Prompt)
  <2> DEFINE o == Over({}, 0, Prompt)
  <2>1. Len(<<>>) = 0 /\ DOMAIN <<>> = {}
    OBVIOUS
  <2>2. \A cell \in o : cell[1] \notin Len(Prompt)..Len(Prompt) + 0 - 1
    BY <1>3
  <2> HIDE DEF o
  <2> QED BY <2>1, <2>2 DEF Over
<1> QED BY <1>2, <1>4

\* That page is what ScreenShowsLine asks to be seen.
LEMMA TextIsPage ==
    ASSUME line \in Seq(Chars)
    PROVE  /\ Paint(Page(line)) = {<<i - 1, Text[i]>> : i \in {j \in DOMAIN Text : Text[j] # Blank}}
           /\ Len(Text) = Len(Prompt) + Len(line)
<1> DEFINE L == Len(Prompt)
<1>0. L \in Nat /\ Prompt \in Seq(Letters) /\ Len(line) \in Nat /\ line \in Seq(Letters)
  BY PromptType
<1>1. /\ Text \in Seq(Letters) /\ Len(Text) = L + Len(line) /\ DOMAIN Text = 1..L + Len(line)
      /\ \A i \in 1..L + Len(line) : Text[i] = IF i <= L THEN Prompt[i] ELSE line[i - L]
  BY <1>0 DEF Text
<1> HIDE DEF L
<1>2. \A k \in Nat : k < L + Len(line) => Page(line)[k] = Text[k + 1] /\ k + 1 \in DOMAIN Text
  <2> TAKE k \in Nat
  <2>1. k < L + Len(line) => k + 1 \in 1..L + Len(line) /\ (k < L <=> k + 1 <= L) /\ k - L + 1 = (k + 1) - L
    BY <1>0
  <2> QED BY <1>1, <2>1 DEF Page, L
<1>3. \A k \in Nat : ~ (k < L + Len(line)) => Page(line)[k] = Blank
  BY <1>0 DEF Page, L
<1>4. \A i \in DOMAIN Text : i - 1 \in Nat /\ i - 1 < L + Len(line) /\ (i - 1) + 1 = i
  BY <1>0, <1>1
<1>5. ASSUME NEW cell \in Paint(Page(line))
      PROVE  cell \in {<<i - 1, Text[i]>> : i \in {j \in DOMAIN Text : Text[j] # Blank}}
  <2>1. PICK k \in Nat : Page(line)[k] # Blank /\ cell = <<k, Page(line)[k]>>
    BY <1>5 DEF Paint
  <2>2. k + 1 \in DOMAIN Text /\ Page(line)[k] = Text[k + 1] /\ (k + 1) - 1 = k
    BY <1>2, <1>3, <2>1
  <2>3. cell = <<(k + 1) - 1, Text[k + 1]>> /\ Text[k + 1] # Blank
    BY <2>1, <2>2
  <2> QED BY <2>2, <2>3
<1>6. ASSUME NEW cell \in {<<i - 1, Text[i]>> : i \in {j \in DOMAIN Text : Text[j] # Blank}}
      PROVE  cell \in Paint(Page(line))
  <2>1. PICK i \in DOMAIN Text : Text[i] # Blank /\ cell = <<i - 1, Text[i]>>
    BY <1>6
  <2>2. i - 1 \in Nat /\ Page(line)[i - 1] = Text[i]
    BY <1>2, <1>4
  <2> QED BY <2>1, <2>2 DEF Paint
<1> QED BY <1>1, <1>5, <1>6 DEF L
-----------------------------------------------------------------------------
(* A terminal that shows line l with the cursor at its place q, and one on *)
(* which s was written over the page of l, from its place a on: both as    *)
(* long as its screen is known.                                            *)
Shows(t, l, q) ==
    /\ At(t, Len(Prompt) + q) /\ (t.known => t.cells = Paint(Page(l))) /\ t.width \in Widths
    /\ (Len(Prompt) + Len(l)) \div t.width <= t.maxLine

Wrote(t, l, a, s) ==
    /\ At(t, Len(Prompt) + a + Len(s))
    /\ t.known => t.cells = Paint(Put(Page(l), Len(Prompt) + a, s))
    /\ t.width \in Widths /\ (Len(Prompt) + a + Len(s)) \div t.width <= t.maxLine

\* What is written where the cursor is.
LEMMA WriteOnce ==
    ASSUME NEW t, NEW l \in Seq(Chars), NEW a \in Nat, NEW s \in Seq(Letters),
           At(t, Len(Prompt) + a), t.known => t.cells = Paint(Page(l)), t.width \in Widths
    PROVE  Wrote(WriteLine(t, s), l, a, s)
<1> DEFINE n == Len(Prompt) + a
           f == Page(l)
           v == WriteLine(t, s)
<1>1. n \in Nat /\ f \in [Nat -> Letters] /\ At(t, n)
  BY PromptType, PageType
<1>2. /\ At(v, n + Len(s)) /\ Below(t, v) /\ (n + Len(s)) \div t.width <= v.maxLine
      /\ v.known => t.known /\ v.cells = Over(t.cells, n, s)
  <2> HIDE DEF n, f
  <2> QED BY <1>1, WriteLineAt
<1>3. Over(Paint(f), n, s) = Paint(Put(f, n, s))
  <2> HIDE DEF n, f
  <2> QED BY <1>1, PaintOver
<1> HIDE DEF v, f
<1> QED BY <1>2, <1>3 DEF Wrote, Below, f, v

\* And what is written behind it.
LEMMA WriteMore ==
    ASSUME NEW t, NEW l \in Seq(Chars), NEW a \in Nat, NEW s \in Seq(Letters), NEW u \in Seq(Letters),
           Wrote(t, l, a, s)
    PROVE  Wrote(WriteLine(t, u), l, a, s \o u)
<1> DEFINE n == Len(Prompt) + a
           k == n + Len(s)
           f == Page(l)
           g == Put(f, n, s)
           v == WriteLine(t, u)
<1>1. n \in Nat /\ f \in [Nat -> Letters] /\ k \in Nat
  BY PromptType, PageType
<1>2. g \in [Nat -> Letters]
  <2> HIDE DEF n, f
  <2> QED BY <1>1, PaintOver
<1>3. At(t, k) /\ (t.known => t.cells = Paint(g)) /\ t.width \in Widths
  BY DEF Wrote
<1> HIDE DEF g, f, n
<1>4. /\ At(v, k + Len(u)) /\ Below(t, v) /\ (k + Len(u)) \div t.width <= v.maxLine
      /\ v.known => t.known /\ v.cells = Over(t.cells, k, u)
  <2> HIDE DEF k
  <2> QED BY <1>1, <1>3, WriteLineAt
<1>5. Over(Paint(g), k, u) = Paint(Put(g, k, u))
  <2> HIDE DEF k
  <2> QED BY <1>1, <1>2, PaintOver
<1>6. Put(g, k, u) = Put(f, n, s \o u)
  BY <1>1, PutBehind DEF g
<1>7. k + Len(u) = n + Len(s \o u)
  <2>1. Len(s \o u) = Len(s) + Len(u) /\ Len(s) \in Nat /\ Len(u) \in Nat
    OBVIOUS
  <2> QED BY <1>1, <2>1
<1> HIDE DEF v, k
<1> QED BY <1>3, <1>4, <1>5, <1>6, <1>7 DEF Wrote, Below, f, v, n

\* Once all that differs is written over, the other line is shown.
LEMMA WroteShows ==
    ASSUME NEW t, NEW l \in Seq(Chars), NEW m \in Seq(Chars), NEW a \in Nat, NEW s \in Seq(Letters),
           Wrote(t, l, a, s), NEW q \in 0..Len(m),
           a <= Len(l), a <= Len(m), Len(l) <= a + Len(s), Len(m) <= a + Len(s),
           \A i \in 1..a : m[i] = l[i],
           \A i \in 1..Len(s) : s[i] = IF a + i <= Len(m) THEN m[a + i] ELSE Blank
    PROVE  Shows(MoveCursorToPos(t, q), m, q)
<1> DEFINE k == Len(Prompt) + a + Len(s)
           e == Len(Prompt) + Len(m)
           w == t.width
           v == MoveCursorToPos(t, q)
<1>1. Put(Page(l), Len(Prompt) + a, s) = Page(m)
  BY TailIsPut
<1>2. At(t, k) /\ (t.known => t.cells = Paint(Page(m))) /\ w \in Widths /\ k \div w <= t.maxLine
  BY <1>1 DEF Wrote
<1>3. k \in Nat /\ e \in Nat /\ e <= k /\ w \in Int /\ w > 0 /\ q \in Nat /\ Len(Prompt) \in Nat
  <2>1. /\ Len(Prompt) \in Nat /\ Len(s) \in Nat /\ Len(m) \in Nat /\ a \in Nat /\ q \in Nat
        /\ Len(m) <= a + Len(s)
    BY PromptType
  <2>2. k \in Nat /\ e \in Nat /\ e <= k
    BY <2>1
  <2>3. w \in Int /\ w > 0
    <3> HIDE DEF k, e
    <3> QED BY <1>2, AtType
  <2> QED BY <2>1, <2>2, <2>3
<1> HIDE DEF k, e
<1>4. /\ At(v, Len(Prompt) + q) /\ v.cells = t.cells /\ v.width = w /\ v.maxLine = t.maxLine
      /\ v.known = t.known
  BY <1>2, <1>3, MovedAt
<1>5. e \div w <= t.maxLine
  <2>1. e \div w <= k \div w /\ e \div w \in Nat /\ k \div w \in Nat
    <3> HIDE DEF w
    <3> QED BY <1>3, DivMono, DivMod
  <2>2. t.maxLine \in Nat
    BY <1>2, AtType
  <2> HIDE DEF w
  <2> QED BY <1>2, <2>1, <2>2
<1> HIDE DEF v
<1> QED BY <1>2, <1>4, <1>5 DEF Shows, e, v, w

\* Prompt and line again, from the first place on, over no more than they cover.
LEMMA Repaint ==
    ASSUME NEW t, At(t, 0), t.width \in Widths, NEW l \in Seq(Chars), NEW q \in 0..Len(l),
           \A cell \in t.cells : cell[1] \in 0..Len(Prompt) + Len(l) - 1
    PROVE  /\ Shows(MoveCursorToPos(WriteLine(WriteLine(t, Prompt), l), q), l, q)
           /\ Shows(MoveCursorToPos(WriteLine(MoveCursorToPos(WriteLine(t, Prompt), 0), l), q), l, q)
<1> DEFINE L == Len(Prompt)
           e == L + Len(l)
           c == Over(t.cells, 0, Prompt)
<1>1. /\ L \in Nat /\ Len(l) \in Nat /\ e \in Nat /\ q \in Nat /\ l \in Seq(Letters) /\ 0 \in Nat
      /\ Prompt \in Seq(Letters) /\ 0 + L = L
  BY PromptType
<1>2. t.cells \in SUBSET (Int \X Letters)
  BY AtType
<1>3. Over(c, L, l) = Paint(Page(l))
  BY <1>2, Repainted
<1> HIDE DEF c, L
<1>4. ASSUME NEW u, At(u, L), u.known => u.cells = c, u.width \in Widths
      PROVE  Shows(MoveCursorToPos(WriteLine(u, l), q), l, q)
  <2> DEFINE v == WriteLine(u, l)
             x == MoveCursorToPos(v, q)
  <2>1. /\ At(v, L + Len(l)) /\ Below(u, v) /\ (L + Len(l)) \div u.width <= v.maxLine
        /\ v.known => u.known /\ v.cells = Over(u.cells, L, l)
    BY <1>1, <1>4, WriteLineAt
  <2> HIDE DEF v
  <2>2. /\ At(x, L + q) /\ x.cells = v.cells /\ x.width = v.width /\ x.maxLine = v.maxLine
        /\ x.known = v.known
    BY <1>1, <2>1, MovedAt DEF L
  <2> HIDE DEF x
  <2>3. Shows(x, l, q)
    BY <1>3, <1>4, <2>1, <2>2 DEF Shows, Below, L
  <2> QED BY <2>3 DEF x, v
<1> DEFINE u == WriteLine(t, Prompt)
           m == MoveCursorToPos(u, 0)
<1>5. At(u, L) /\ (u.known => u.cells = c) /\ u.width \in Widths
  <2>1. /\ At(u, 0 + Len(Prompt)) /\ Below(t, u)
        /\ u.known => u.cells = Over(t.cells, 0, Prompt)
    BY <1>1, WriteLineAt
  <2> HIDE DEF u
  <2> QED BY <1>1, <2>1 DEF c, L, Below
<1> HIDE DEF u
<1>6. At(m, L) /\ (m.known => m.cells = c) /\ m.width \in Widths
  <2>1. At(m, L + 0) /\ m.cells = u.cells /\ m.width = u.width /\ m.known = u.known
    BY <1>1, <1>5, MovedAt DEF L
  <2>2. L + 0 = L
    BY <1>1
  <2> HIDE DEF m
  <2> QED BY <1>5, <2>1, <2>2
<1> HIDE DEF m
<1>7. /\ Shows(MoveCursorToPos(WriteLine(u, l), q), l, q)
      /\ Shows(MoveCursorToPos(WriteLine(m, l), q), l, q)
  BY <1>4, <1>5, <1>6
<1> QED BY <1>7 DEF u, m

\* The types that a terminal which shows a line has, and where its cursor is tracked.
LEMMA ShowsType ==
    ASSUME NEW t, NEW l \in Seq(Chars), NEW q \in 0..Len(l), Shows(t, l, q)
    PROVE  /\ t \in Terminals /\ t.width \in Widths /\ t.width \in Nat /\ t.width > 0 /\ t.maxLine \in Nat
           /\ t.cursorY \in 0..t.maxLine /\ t.cursorX \in 0..t.width - 1 /\ t.col \in 0..t.width - 1
           /\ t.known => t.row = t.cursorY /\ t.col = t.cursorX
           /\ ~ t.known => t.row = 0 /\ t.col = 0 /\ t.cells = {}
           /\ t.known \in BOOLEAN /\ t.row \in Nat
           /\ t.cursorY = (Len(Prompt) + q) \div t.width /\ t.cursorX = (Len(Prompt) + q) % t.width
           /\ ~ (t.cursorX = 0 /\ t.cursorY = 0)
           /\ \A cell \in t.cells : /\ cell[1] \in 0..Len(Prompt) + Len(l) - 1 /\ cell[2] # Blank
                                    /\ cell[1] \div t.width \in 0..t.maxLine
           /\ t.cells \in SUBSET (Int \X Letters)
<1> DEFINE L == Len(Prompt)
           p == L + q
           e == L + Len(l)
           w == t.width
           M == t.maxLine
<1>1. L \in Nat /\ L > 0 /\ Len(l) \in Nat /\ p \in Nat /\ p > 0 /\ e \in Nat /\ p <= e
  BY PromptType
<1>2. At(t, p) /\ (t.known => t.cells = Paint(Page(l))) /\ w \in Widths /\ e \div w <= M
  BY DEF Shows
<1> HIDE DEF p, L, e
<1>3. /\ t \in Terminals /\ w \in Int /\ w \in Nat /\ w > 0 /\ M \in Nat /\ t.cursorY \in Nat
      /\ t.cursorX \in 0..w - 1 /\ t.col \in 0..w - 1 /\ t.known \in BOOLEAN /\ t.row \in Nat
      /\ t.known => t.row = t.cursorY /\ t.col = t.cursorX
      /\ ~ t.known => t.row = 0 /\ t.col = 0 /\ t.cells = {}
      /\ t.cursorY = p \div w /\ t.cursorX = p % w /\ t.cells \in SUBSET (Int \X Letters)
  BY <1>2, AtType
<1> HIDE DEF w, M
<1>4. ASSUME NEW k \in Nat, k <= e
      PROVE  k \div w \in 0..M
  <2>1. k \div w \in Nat /\ e \div w \in Nat /\ k \div w <= e \div w
    BY <1>1, <1>3, <1>4, DivMod, DivMono
  <2> QED BY <1>2, <1>3, <2>1
<1>5. t.cursorY \in 0..M
  BY <1>1, <1>3, <1>4
<1>6. ~ (t.cursorX = 0 /\ t.cursorY = 0)
  <2>1. p = (p \div w) * w + (p % w)
    BY <1>1, <1>3, DivMod
  <2>2. SUFFICES ASSUME p \div w = 0, p % w = 0 PROVE FALSE
    BY <1>3
  <2>3. p = 0 * w + 0
    BY <2>1, <2>2
  <2> QED BY <1>1, <1>3, <2>3
<1>7. ASSUME NEW cell \in t.cells
      PROVE  cell[1] \in 0..e - 1 /\ cell[2] # Blank /\ cell[1] \div w \in 0..M
  <2>1. PICK k \in Nat : Page(l)[k] # Blank /\ cell = <<k, Page(l)[k]>>
    BY <1>2, <1>3, <1>7 DEF Paint
  <2>2. k < e
    BY <2>1, <1>1 DEF Page, e, L
  <2>3. k \div w \in 0..M
    BY <1>1, <1>4, <2>2
  <2> QED BY <1>1, <2>1, <2>2, <2>3
<1> QED BY <1>2, <1>3, <1>5, <1>6, <1>7 DEF p, L, e, w, M
-----------------------------------------------------------------------------
(* What each of the editor's operations shows.                             *)

\* What is joined, place by place.
LEMMA JoinAt ==
    ASSUME NEW S, NEW u \in Seq(S), NEW v \in Seq(S)
    PROVE  /\ u \o v \in Seq(S) /\ Len(u \o v) = Len(u) + Len(v)
           /\ \A i \in 1..Len(u \o v) : (u \o v)[i] = IF i <= Len(u) THEN u[i] ELSE v[i - Len(u)]
OBVIOUS

\* The line with a key more.
LEMMA AddShows ==
    ASSUME line \in Seq(Chars), pos \in 0..Len(line), Shows(term, line, pos),
           NEW ch \in Chars, AddKeyToLine(ch)
    PROVE  Shows(term', line', pos')
<1> DEFINE s == <<ch>> \o Behind(pos)
           m == Before(pos) \o <<ch>> \o Behind(pos)
           t == WriteLine(term, s)
           n == Len(line)
<1>1. line' = m /\ pos' = pos + 1 /\ term' = MoveCursorToPos(t, pos + 1)
  BY DEF AddKeyToLine
<1>2. /\ Behind(pos) \in Seq(Chars) /\ Len(Behind(pos)) = n - pos
      /\ \A i \in 1..n - pos : Behind(pos)[i] = line[pos + i]
  BY DEF Behind
<1>3. /\ Before(pos) \in Seq(Chars) /\ Len(Before(pos)) = pos
      /\ \A i \in 1..pos : Before(pos)[i] = line[i]
  BY DEF Before
<1>4. /\ s \in Seq(Chars) /\ Len(s) = 1 + (n - pos)
      /\ \A i \in 1..Len(s) : s[i] = IF i = 1 THEN ch ELSE Behind(pos)[i - 1]
  BY <1>2
<1>5. /\ m \in Seq(Chars) /\ Len(m) = n + 1
      /\ \A i \in 1..n + 1 : m[i] = IF i <= pos THEN Before(pos)[i]
                                    ELSE IF i = pos + 1 THEN ch ELSE Behind(pos)[i - pos - 1]
  <2> DEFINE y == Before(pos) \o <<ch>>
             z == Behind(pos)
  <2>1. y \in Seq(Chars) /\ Len(y) = pos + 1 /\ \A i \in 1..pos + 1 : y[i] = IF i <= pos THEN Before(pos)[i] ELSE ch
    BY <1>3
  <2>2. z \in Seq(Chars) /\ Len(z) = n - pos /\ pos \in Nat /\ n \in Nat /\ pos <= n
    BY <1>2
  <2>3. m = y \o z
    OBVIOUS
  <2> HIDE DEF y, z, m, n
  <2>4. /\ m \in Seq(Chars) /\ Len(m) = Len(y) + Len(z)
        /\ \A i \in 1..Len(m) : m[i] = IF i <= Len(y) THEN y[i] ELSE z[i - Len(y)]
    BY <2>1, <2>2, <2>3, JoinAt
  <2>5. Len(m) = n + 1
    BY <2>1, <2>2, <2>4
  <2>6. ASSUME NEW i \in 1..n + 1
        PROVE  m[i] = IF i <= pos THEN Before(pos)[i] ELSE IF i = pos + 1 THEN ch ELSE z[i - pos - 1]
    <3>1. CASE i <= pos + 1
      BY <2>1, <2>2, <2>4, <2>5, <3>1
    <3>2. CASE ~ (i <= pos + 1)
      <4>1. i - (pos + 1) = i - pos - 1 /\ ~ (i <= pos) /\ i # pos + 1
        BY <2>2, <3>2
      <4> QED BY <2>1, <2>4, <2>5, <3>2, <4>1
    <3> QED BY <3>1, <3>2
  <2> QED BY <2>4, <2>5, <2>6 DEF z
<1>6. n \in Nat /\ pos \in Nat /\ pos <= n
  OBVIOUS
<1> HIDE DEF s, m, n
<1>7. \A i \in 1..pos : m[i] = line[i]
  BY <1>3, <1>5, <1>6
<1>8. \A i \in 1..Len(s) : s[i] = IF pos + i <= Len(m) THEN m[pos + i] ELSE Blank
  <2> TAKE i \in 1..Len(s)
  <2>1. pos + i \in 1..n + 1 /\ ~ (pos + i <= pos) /\ (pos + i = pos + 1 <=> i = 1) /\ (pos + i) - pos - 1 = i - 1
    BY <1>4, <1>6
  <2> QED BY <1>4, <1>5, <2>1
<1>9. s \in Seq(Letters)
  BY <1>4, PromptType
<1>10. /\ At(term, Len(Prompt) + pos) /\ (term.known => term.cells = Paint(Page(line)))
       /\ term.width \in Widths
  BY DEF Shows
<1>11. Wrote(t, line, pos, s)
  BY <1>6, <1>9, <1>10, WriteOnce
<1> HIDE DEF t
<1>12. /\ pos + 1 \in 0..Len(m) /\ pos <= Len(line) /\ pos <= Len(m) /\ Len(line) <= pos + Len(s)
       /\ Len(m) <= pos + Len(s)
  BY <1>4, <1>5, <1>6 DEF n
<1>13. Shows(MoveCursorToPos(t, pos + 1), m, pos + 1)
  BY <1>5, <1>6, <1>7, <1>8, <1>9, <1>11, <1>12, WroteShows
<1> QED BY <1>1, <1>13

\* The line without the characters before a place.
LEMMA EraseShows ==
    ASSUME line \in Seq(Chars), pos \in 0..Len(line), Shows(term, line, pos),
           NEW p \in 0..Len(line), NEW n \in Nat, EraseNPreviousChars(p, n)
    PROVE  Shows(term', line', pos')
<1> DEFINE k == IF p < n THEN p ELSE n
           a == p - k
           b == Behind(p)
           m == Before(a) \o b
           u == MoveCursorToPos(term, a)
           t == WriteLine(u, b)
           v == WriteLine(t, Spaces(k))
           N == Len(line)
<1>1. CASE k = 0
  BY <1>1 DEF EraseNPreviousChars, lineVars
<1>2. CASE k # 0
  <2>1. k \in 1..p /\ p \in 0..N /\ a \in Nat /\ N \in Nat /\ p = a + k
    BY <1>2
  <2>2. Spaces(k) \in Seq({Blank}) /\ Len(Spaces(k)) = k /\ \A i \in 1..k : Spaces(k)[i] = Blank
    <3> HIDE DEF k
    <3> QED BY <2>1 DEF Spaces
  <2>3. pos' = a /\ line' = m /\ term' = MoveCursorToPos(v, a)
    <3>1. /\ pos' = p - k /\ line' = Before(p - k) \o Behind(p)
          /\ term' = MoveCursorToPos(
                 AdvanceCursor(Queue(WriteLine(MoveCursorToPos(term, p - k), Behind(p)), Spaces(k)), k), p - k)
      BY <1>2 DEF EraseNPreviousChars
    <3> HIDE DEF k
    <3> QED BY <2>2, <3>1 DEF WriteLine
  <2> HIDE DEF k, a, N
  <2>4. /\ b \in Seq(Chars) /\ Len(b) = N - p /\ \A i \in 1..N - p : b[i] = line[p + i]
    BY <2>1 DEF Behind, N
  <2>5. /\ Before(a) \in Seq(Chars) /\ Len(Before(a)) = a /\ \A i \in 1..a : Before(a)[i] = line[i]
    BY <2>1 DEF Before, N
  <2> HIDE DEF b
  <2>6. /\ m \in Seq(Chars) /\ Len(m) = a + (N - p)
        /\ \A i \in 1..Len(m) : m[i] = IF i <= a THEN Before(a)[i] ELSE b[i - a]
    <3> DEFINE y == Before(a)
    <3>1. y \in Seq(Chars) /\ Len(y) = a /\ Len(b) = N - p /\ m = y \o b
      BY <2>4, <2>5
    <3> HIDE DEF y, m
    <3>2. /\ m \in Seq(Chars) /\ Len(m) = Len(y) + Len(b)
          /\ \A i \in 1..Len(m) : m[i] = IF i <= Len(y) THEN y[i] ELSE b[i - Len(y)]
      BY <2>4, <3>1, JoinAt
    <3> QED BY <3>1, <3>2 DEF y
  <2> DEFINE s == b \o Spaces(k)
  <2>7. b \in Seq(Letters) /\ Spaces(k) \in Seq(Letters)
    <3>1. {Blank} \subseteq Letters /\ Chars \subseteq Letters
      BY PromptType
    <3> QED BY <2>2, <2>4, <3>1
  <2>8. /\ s \in Seq(Letters) /\ Len(s) = (N - p) + k
        /\ \A i \in 1..Len(s) : s[i] = IF i <= N - p THEN b[i] ELSE Spaces(k)[i - (N - p)]
    <3> DEFINE z == Spaces(k)
    <3>1. z \in Seq(Letters) /\ Len(z) = k /\ Len(b) = N - p
      BY <2>2, <2>4, <2>7
    <3>2. s = b \o z
      OBVIOUS
    <3> HIDE DEF z, s
    <3>3. /\ s \in Seq(Letters) /\ Len(s) = Len(b) + Len(z)
          /\ \A i \in 1..Len(s) : s[i] = IF i <= Len(b) THEN b[i] ELSE z[i - Len(b)]
      BY <2>7, <3>1, <3>2, JoinAt
    <3> QED BY <3>1, <3>3 DEF z
  <2>9. /\ At(term, Len(Prompt) + pos) /\ (term.known => term.cells = Paint(Page(line)))
        /\ term.width \in Widths
    BY DEF Shows
  <2>10. At(u, Len(Prompt) + a) /\ u.cells = term.cells /\ u.width = term.width /\ u.known = term.known
    BY <2>1, <2>9, PromptType, MovedAt
  <2> HIDE DEF u
  <2>11. Wrote(t, line, a, b)
    BY <2>1, <2>7, <2>9, <2>10, WriteOnce
  <2> HIDE DEF t
  <2>12. Wrote(v, line, a, s)
    BY <2>1, <2>7, <2>11, WriteMore
  <2> HIDE DEF v, s, m
  <2>13. \A i \in 1..a : m[i] = line[i]
    BY <2>1, <2>5, <2>6
  <2>14. \A i \in 1..Len(s) : s[i] = IF a + i <= Len(m) THEN m[a + i] ELSE Blank
    <3> TAKE i \in 1..Len(s)
    <3>1. CASE i <= N - p
      <4>1. a + i \in 1..Len(m) /\ ~ (a + i <= a) /\ (a + i) - a = i
        BY <2>1, <2>6, <2>8, <3>1
      <4> QED BY <2>6, <2>8, <3>1, <4>1
    <3>2. CASE ~ (i <= N - p)
      <4>1. ~ (a + i <= Len(m)) /\ i - (N - p) \in 1..k
        BY <2>1, <2>6, <2>8, <3>2
      <4> QED BY <2>2, <2>8, <3>2, <4>1
    <3> QED BY <3>1, <3>2
  <2>15. /\ a \in 0..Len(m) /\ a <= Len(line) /\ a <= Len(m) /\ Len(line) <= a + Len(s)
         /\ Len(m) <= a + Len(s)
    <3>1. Len(m) = a + (N - p) /\ Len(s) = (N - p) + k /\ Len(line) = N
      BY <2>6, <2>8 DEF N
    <3> QED BY <2>1, <3>1
  <2>16. Shows(MoveCursorToPos(v, a), m, a)
    BY <2>1, <2>6, <2>8, <2>12, <2>13, <2>14, <2>15, WroteShows
  <2> QED BY <2>3, <2>16
<1> QED BY <1>1, <1>2

\* Another line in its place.
LEMMA SetLineShows ==
    ASSUME line \in Seq(Chars), pos \in 0..Len(line), Shows(term, line, pos),
           NEW m \in Seq(Chars), SetLine(m, Len(m))
    PROVE  Shows(term', line', pos')
<1> DEFINE k == IF Len(line) > Len(m) THEN Len(line) - Len(m) ELSE 0
           s == m \o Spaces(k)
           u == MoveCursorToPos(term, 0)
           t == WriteLine(u, s)
<1>1. line' = m /\ pos' = Len(m) /\ term' = MoveCursorToPos(t, Len(m))
  BY DEF SetLine
<1>2. k \in Nat /\ Len(m) \in Nat /\ Len(line) \in Nat /\ Len(line) <= Len(m) + k
  OBVIOUS
<1> HIDE DEF k
<1>3. Spaces(k) \in Seq({Blank}) /\ Len(Spaces(k)) = k /\ \A i \in 1..k : Spaces(k)[i] = Blank
  BY <1>2 DEF Spaces
<1>4. m \in Seq(Letters) /\ Spaces(k) \in Seq(Letters)
  <2>1. {Blank} \subseteq Letters /\ Chars \subseteq Letters
    BY PromptType
  <2> QED BY <1>3, <2>1
<1>5. /\ s \in Seq(Letters) /\ Len(s) = Len(m) + k
      /\ \A i \in 1..Len(s) : s[i] = IF i <= Len(m) THEN m[i] ELSE Spaces(k)[i - Len(m)]
  BY <1>2, <1>3, <1>4
<1> HIDE DEF s
<1>6. \A i \in 1..Len(s) : s[i] = IF 0 + i <= Len(m) THEN m[0 + i] ELSE Blank
  <2> TAKE i \in 1..Len(s)
  <2>1. 0 + i = i /\ (~ (i <= Len(m)) => i - Len(m) \in 1..k)
    BY <1>2, <1>5
  <2> QED BY <1>3, <1>5, <2>1
<1>7. /\ At(term, Len(Prompt) + pos) /\ (term.known => term.cells = Paint(Page(line)))
      /\ term.width \in Widths
  BY DEF Shows
<1>8. 0 \in Nat /\ pos \in Nat
  OBVIOUS
<1>9. At(u, Len(Prompt) + 0) /\ u.cells = term.cells /\ u.width = term.width /\ u.known = term.known
  BY <1>7, <1>8, PromptType, MovedAt
<1> HIDE DEF u
<1>10. Wrote(t, line, 0, s)
  BY <1>5, <1>7, <1>8, <1>9, WriteOnce
<1> HIDE DEF t
<1>11. /\ Len(m) \in 0..Len(m) /\ 0 <= Len(line) /\ 0 <= Len(m) /\ Len(line) <= 0 + Len(s)
       /\ Len(m) <= 0 + Len(s) /\ \A i \in 1..0 : m[i] = line[i]
  BY <1>2, <1>5
<1>12. Shows(MoveCursorToPos(t, Len(m)), m, Len(m))
  BY <1>5, <1>6, <1>8, <1>10, <1>11, WroteShows
<1> QED BY <1>1, <1>12

\* The line up to the cursor.
LEMMA DeleteLineShows ==
    ASSUME line \in Seq(Chars), pos \in 0..Len(line), Shows(term, line, pos), KeyDeleteLine
    PROVE  Shows(term', line', pos')
<1> DEFINE k == Len(line) - pos
           m == Before(pos)
           t == WriteLine(term, Spaces(k))
<1>1. line' = m /\ pos' = pos /\ term' = MoveCursorToPos(t, pos)
  BY DEF KeyDeleteLine
<1>2. k \in Nat /\ pos \in Nat /\ pos <= Len(line) /\ Len(line) <= pos + k
  OBVIOUS
<1>3. m \in Seq(Chars) /\ Len(m) = pos /\ \A i \in 1..pos : m[i] = line[i]
  BY DEF Before
<1> HIDE DEF k, m
<1>4. Spaces(k) \in Seq({Blank}) /\ Len(Spaces(k)) = k /\ \A i \in 1..k : Spaces(k)[i] = Blank
  BY <1>2 DEF Spaces
<1>5. Spaces(k) \in Seq(Letters)
  <2>1. {Blank} \subseteq Letters
    BY PromptType
  <2> QED BY <1>4, <2>1
<1>6. /\ At(term, Len(Prompt) + pos) /\ (term.known => term.cells = Paint(Page(line)))
      /\ term.width \in Widths
  BY DEF Shows
<1>7. Wrote(t, line, pos, Spaces(k))
  BY <1>2, <1>5, <1>6, WriteOnce
<1> HIDE DEF t
<1>8. \A i \in 1..Len(Spaces(k)) : Spaces(k)[i] = IF pos + i <= Len(m) THEN m[pos + i] ELSE Blank
  <2> TAKE i \in 1..Len(Spaces(k))
  <2>1. i \in 1..k /\ ~ (pos + i <= Len(m))
    BY <1>2, <1>3, <1>4
  <2> QED BY <1>4, <2>1
<1>9. /\ pos \in 0..Len(m) /\ pos <= Len(line) /\ pos <= Len(m) /\ Len(line) <= pos + Len(Spaces(k))
      /\ Len(m) <= pos + Len(Spaces(k))
  BY <1>2, <1>3, <1>4
<1>10. Shows(MoveCursorToPos(t, pos), m, pos)
  BY <1>2, <1>3, <1>5, <1>7, <1>8, <1>9, WroteShows
<1> QED BY <1>1, <1>10

\* The same line, with the cursor at another place.
LEMMA MoveToShows ==
    ASSUME line \in Seq(Chars), pos \in 0..Len(line), Shows(term, line, pos),
           NEW p \in 0..Len(line), MoveTo(p)
    PROVE  Shows(term', line', pos')
<1>1. p \in Nat /\ Len(Prompt) \in Nat
  BY PromptType
<1> DEFINE v == MoveCursorToPos(term, p)
<1>2. /\ At(v, Len(Prompt) + p) /\ v.cells = term.cells /\ v.width = term.width
      /\ v.maxLine = term.maxLine /\ v.known = term.known
  BY <1>1, MovedAt DEF Shows
<1>3. Shows(v, line, p)
  <2> HIDE DEF v
  <2> QED BY <1>2 DEF Shows
<1> HIDE DEF v
<1>4. pos' = p /\ line' = line /\ term' = IF p = pos THEN term ELSE v
  BY DEF MoveTo, v
<1> QED BY <1>3, <1>4
-----------------------------------------------------------------------------
(* Rows that are cleared, scrolled away or cut.                            *)

\* The first place is in the first row, at its start.
LEMMA FirstPlace ==
    ASSUME NEW w \in Int, w > 0
    PROVE  0 \div w = 0 /\ 0 % w = 0
<1>1. 0 \in 0..w - 1 /\ 0 = 0 * w + 0
  OBVIOUS
<1> QED BY <1>1, DivUnique

\* Escapes that bring the cursor to the start of a row: of row d below it, or of the
\* first one, where the cursor is taken to be if the screen is not known.
LEMMA MoveHome ==
    ASSUME NEW t \in Terminals, NEW d \in Int, NEW r \in Int, t.col \in 0..t.width - 1,
           t.known => t.col + r = 0, ~ t.known => t.row = 0 /\ t.col = 0 /\ t.cells = {}
    PROVE  /\ Move(t, d, r) \in Terminals /\ Move(t, d, r).col = 0
           /\ Move(t, d, r).row = IF t.known THEN t.row + d ELSE 0
           /\ Move(t, d, r).cells = t.cells /\ Move(t, d, r).width = t.width
           /\ Move(t, d, r).maxLine = t.maxLine /\ Move(t, d, r).known = t.known
<1>0. CASE ~ t.known
  <2>1. Move(t, d, r) = t
    BY <1>0 DEF Move
  <2> QED BY <1>0, <2>1
<1> SUFFICES ASSUME t.known
             PROVE  /\ Move(t, d, r) \in Terminals /\ Move(t, d, r).col = 0
                    /\ Move(t, d, r).row = t.row + d
                    /\ Move(t, d, r).cells = t.cells /\ Move(t, d, r).width = t.width
                    /\ Move(t, d, r).maxLine = t.maxLine /\ Move(t, d, r).known = t.known
  BY <1>0
<1> DEFINE k == t.col
           w == t.width
           y == t.row + d
           v == Move(t, d, r)
           col == (IF k = w THEN k - 1 ELSE k) + r
           z == IF col < 0 THEN 0 ELSE IF col < w THEN col ELSE w - 1
<1>1. w \in Nat /\ w > 0 /\ k \in 0..w - 1 /\ y \in Int /\ k + r = 0
  BY DEF Terminals
<1>2. v = [t EXCEPT !.row = y, !.col = z]
  BY DEF Move
<1> HIDE DEF k, w, y, v
<1>3. z = 0
  <2>1. col = 0
    BY <1>1
  <2> HIDE DEF col
  <2> QED BY <1>1, <2>1
<1> HIDE DEF z
<1>4. v = [t EXCEPT !.row = y, !.col = 0]
  BY <1>2, <1>3
<1>5. /\ v \in Terminals /\ v.row = y /\ v.col = 0 /\ v.cells = t.cells
      /\ v.width = t.width /\ v.maxLine = t.maxLine /\ v.known = t.known
  <2>1. y \in Int /\ 0 \in Int /\ t \in Terminals
    BY <1>1
  <2>2. v \in Terminals
    BY <1>4, <2>1 DEF Terminals
  <2>3. /\ v.row = y /\ v.col = 0 /\ v.cells = t.cells /\ v.width = t.width
        /\ v.maxLine = t.maxLine
    BY <1>4, <2>1 DEF Terminals
  <2>4. v.known = t.known
    BY <1>4, <2>1 DEF Terminals
  <2> QED BY <2>2, <2>3, <2>4
<1> QED BY <1>5 DEF v, y

\* A row the cursor is at the start of becomes the first one.
LEMMA RebaseAt ==
    ASSUME NEW t \in Terminals, t.col = 0, ~ t.known => t.cells = {}
    PROVE  /\ At(Rebase(t), 0) /\ Rebase(t).width = t.width /\ Rebase(t).maxLine = t.maxLine
           /\ Rebase(t).known = t.known
           /\ \A cell \in Rebase(t).cells :
                 cell[1] >= 0 /\ \E c \in t.cells : cell[1] = c[1] - t.row * t.width
<1> DEFINE first == t.row * t.width
           c == {<<cell[1] - first, cell[2]>> : cell \in {d \in t.cells : d[1] >= first}}
           v == Rebase(t)
<1>1. v = [t EXCEPT !.cells = c, !.row = 0, !.cursorX = 0, !.cursorY = 0]
  BY DEF Rebase
<1>2. t.cells \in SUBSET (Int \X Letters) /\ first \in Int /\ t.width \in Int /\ t.width > 0
  BY DEF Terminals
<1> HIDE DEF first
<1>3. c \in SUBSET (Int \X Letters) /\ (t.cells = {} => c = {})
  BY <1>2
<1>4. \A cell \in c : cell[1] >= 0 /\ \E d \in t.cells : cell[1] = d[1] - first
  BY <1>2
<1> HIDE DEF c, v
<1>5. /\ v \in Terminals /\ v.cells = c /\ v.row = 0 /\ v.col = 0 /\ v.cursorX = 0 /\ v.cursorY = 0
      /\ v.width = t.width /\ v.maxLine = t.maxLine
  BY <1>1, <1>3 DEF Terminals
<1>6. 0 \div t.width = 0 /\ 0 % t.width = 0
  BY <1>2, FirstPlace
<1>7. v.known = t.known
  BY <1>1 DEF Terminals
<1>8. At(v, 0)
  BY <1>3, <1>5, <1>6, <1>7 DEF At
<1> QED BY <1>4, <1>5, <1>7, <1>8 DEF v, first

\* A factor that is not negative makes no product negative.
LEMMA TimesIsNat ==
    ASSUME NEW w \in Int, w > 0, NEW a \in Int, a >= 0
    PROVE  a * w \in Int /\ a * w >= 0
<1>1. CASE a = 0
  BY <1>1
<1>2. CASE 0 < a
  <2>1. 0 * w + w <= a * w
    BY <1>2, TimesGrows
  <2> QED BY <2>1
<1> QED BY <1>1, <1>2

\* A screen whose cells are all in the rows that are cleared shows just what is repainted.
LEMMA ClearAndRepaintShows ==
    ASSUME line \in Seq(Chars), pos \in 0..Len(line),
           NEW t \in Terminals, t.width \in Widths, t.col \in 0..t.width - 1,
           t.known => t.cursorX = t.col, ~ t.known => t.row = 0 /\ t.col = 0 /\ t.cells = {},
           NEW n \in Nat,
           \A c \in t.cells : c[1] - (t.row + (- t.cursorY)) * t.width \in 0..(n + 1) * t.width - 1
    PROVE  Shows(ClearAndRepaintLinePlusNPrevious(t, n), line, pos)
<1> DEFINE h == Move(t, - t.cursorY, - t.cursorX)
           top == Rebase(h)
           v == ClearRows(top, n)
           y == IF t.known THEN t.row + (- t.cursorY) ELSE 0
           w == t.width
           last == (n + 1) * w - 1
<1>1. - t.cursorY \in Int /\ - t.cursorX \in Int /\ (t.known => t.col + (- t.cursorX) = 0)
  BY DEF Terminals
<1>2. /\ h \in Terminals /\ h.row = y /\ h.col = 0 /\ h.cells = t.cells /\ h.width = w
      /\ h.known = t.known
  BY <1>1, MoveHome
<1> HIDE DEF h
<1>3. /\ At(top, 0) /\ top.width = w /\ top.known = t.known
      /\ \A cell \in top.cells : cell[1] >= 0 /\ \E c \in h.cells : cell[1] = c[1] - h.row * h.width
  BY <1>2, RebaseAt
<1> HIDE DEF top
<1>4. /\ top \in Terminals /\ top.row = 0 /\ top.col = 0 /\ top.cursorX = 0 /\ top.cursorY = 0
      /\ w \in Int /\ w > 0 /\ top.cells \in SUBSET (Int \X Letters)
      /\ top.cursorY = 0 \div w /\ top.cursorX = 0 % w /\ top.known \in BOOLEAN
  <2>1. /\ top \in Terminals /\ top.width \in Nat /\ top.width > 0
        /\ top.cursorY = 0 \div top.width /\ top.cursorX = 0 % top.width
        /\ top.known \in BOOLEAN
        /\ top.known => top.row = top.cursorY /\ top.col = top.cursorX
        /\ ~ top.known => top.row = 0 /\ top.col = 0
        /\ top.cells \in SUBSET (Int \X Letters)
    BY <1>3, AtType
  <2>2. 0 \div top.width = 0 /\ 0 % top.width = 0
    BY <2>1, FirstPlace
  <2>3. top.row = 0 /\ top.col = 0 /\ top.cursorX = 0 /\ top.cursorY = 0
    BY <2>1, <2>2
  <2> QED BY <1>3, <2>1, <2>2, <2>3
<1>5. ASSUME NEW cell \in top.cells
      PROVE  cell[1] \in 0..last
  <2>1. PICK c \in t.cells : cell[1] = c[1] - y * w
    BY <1>2, <1>3
  <2>2. c[1] - y * w \in 0..last
    <3>1. t.known
      BY <2>1
    <3> QED BY <3>1
  <2> QED BY <2>1, <2>2
<1> HIDE DEF y
<1>6. v = [top EXCEPT !.cells = {}]
  <2>1. v = [top EXCEPT !.cells =
                {cell \in top.cells : cell[1] \notin 0 * w + 0..0 * w + (n + 1) * w - 1}]
    BY <1>3, <1>4 DEF ClearRows
  <2>2. 0 * w + 0 = 0 /\ 0 * w + (n + 1) * w - 1 = last
    BY <1>4
  <2> HIDE DEF last
  <2>3. {cell \in top.cells : cell[1] \notin 0 * w + 0..0 * w + (n + 1) * w - 1} = {}
    BY <1>5, <2>2
  <2> QED BY <2>1, <2>3
<1> HIDE DEF v
<1>7. v \in Terminals /\ v.cells = {} /\ v.width = w /\ v.row = 0 /\ v.col = 0 /\ v.cursorX = 0 /\ v.cursorY = 0
  BY <1>3, <1>4, <1>6 DEF Terminals
<1>8. At(v, 0)
  BY <1>4, <1>7 DEF At
<1>9. Shows(MoveCursorToPos(WriteLine(WriteLine(v, Prompt), line), pos), line, pos)
  BY <1>7, <1>8, Repaint
<1> QED BY <1>9 DEF ClearAndRepaintLinePlusNPrevious, v, top, h

\* Output that does not end its row leaves the tracked cursor where it was.
LEMMA LostAt ==
    ASSUME NEW t, NEW p, At(t, p)
    PROVE  At(Lost(t), p) /\ Lost(t).width = t.width /\ Lost(t).maxLine = t.maxLine /\ ~ Lost(t).known
<1> DEFINE v == Lost(t)
<1>1. v = [t EXCEPT !.cells = {}, !.row = 0, !.col = 0, !.known = FALSE]
  BY DEF Lost
<1>2. t \in Terminals /\ {} \in SUBSET (Int \X Letters) /\ 0 \in Int
  BY DEF At
<1> HIDE DEF v
<1>3. /\ v \in Terminals /\ v.cells = {} /\ v.row = 0 /\ v.col = 0 /\ v.width = t.width
      /\ v.cursorX = t.cursorX /\ v.cursorY = t.cursorY /\ v.maxLine = t.maxLine
  BY <1>1, <1>2 DEF Terminals
<1>4. v.known = FALSE
  BY <1>1, <1>2 DEF Terminals
<1> QED BY <1>3, <1>4 DEF At, v

\* ... and nothing is asked of what is shown then.
LEMMA LostShows ==
    ASSUME NEW t, NEW l \in Seq(Chars), NEW q \in 0..Len(l), Shows(t, l, q)
    PROVE  Shows(Lost(t), l, q)
<1>1. At(t, Len(Prompt) + q) /\ t.width \in Widths /\ (Len(Prompt) + Len(l)) \div t.width <= t.maxLine
  BY DEF Shows
<1> DEFINE v == Lost(t)
           p == Len(Prompt) + q
<1>2. At(t, p)
  BY <1>1
<1> HIDE DEF p
<1>3. At(v, p) /\ v.width = t.width /\ v.maxLine = t.maxLine /\ ~ v.known
  BY <1>2, LostAt
<1> HIDE DEF v
<1>4. Shows(v, l, q)
  BY <1>1, <1>3 DEF Shows, p
<1> QED BY <1>4 DEF v

\* A message takes the place of prompt and line, which follow in the rows below it.
LEMMA MessageShows ==
    ASSUME line \in Seq(Chars), pos \in 0..Len(line), NEW o, Shows(o, line, pos), NEW n \in Nat
    PROVE  LET top == ClearRows(Move(o, - o.cursorY, - o.cursorX), o.cursorY)
           IN  Shows(MoveCursorToPos(WriteLine(WriteLine(
                         Rebase([top EXCEPT !.row = @ + n]), Prompt), line), pos), line, pos)
<1> DEFINE top == Move(o, - o.cursorY, - o.cursorX)
           u == ClearRows(top, o.cursorY)
           t == [u EXCEPT !.row = @ + n]
           v == Rebase(t)
           e == Len(Prompt) + Len(line)
<1>1. /\ o \in Terminals /\ o.width \in Widths /\ o.width \in Nat /\ o.width > 0
      /\ o.cursorY \in Nat /\ o.cursorX \in 0..o.width - 1 /\ o.col \in 0..o.width - 1
      /\ o.known => o.row = o.cursorY /\ o.col = o.cursorX
      /\ ~ o.known => o.row = 0 /\ o.col = 0 /\ o.cells = {}
      /\ \A cell \in o.cells : cell[1] \in 0..e - 1
      /\ e \in Nat
  BY ShowsType, PromptType
<1> HIDE DEF e
<1>2. /\ top \in Terminals /\ top.row = 0 /\ top.col = 0 /\ top.cells = o.cells /\ top.width = o.width
      /\ top.known = o.known
  <2>1. - o.cursorY \in Int /\ - o.cursorX \in Int /\ (o.known => o.col + (- o.cursorX) = 0)
        /\ (o.known => o.row + (- o.cursorY) = 0)
    BY <1>1
  <2> DEFINE d == - o.cursorY
             r == - o.cursorX
  <2>2. d \in Int /\ r \in Int /\ (o.known => o.col + r = 0) /\ (o.known => o.row + d = 0)
    BY <2>1
  <2> HIDE DEF d, r
  <2>3. /\ Move(o, d, r) \in Terminals /\ Move(o, d, r).col = 0
        /\ Move(o, d, r).row = IF o.known THEN o.row + d ELSE 0
        /\ Move(o, d, r).cells = o.cells /\ Move(o, d, r).width = o.width
        /\ Move(o, d, r).known = o.known
    BY <1>1, <2>2, MoveHome
  <2> QED BY <2>2, <2>3 DEF d, r
<1> HIDE DEF top
<1>3. /\ u \in Terminals /\ u.cells \in SUBSET o.cells /\ u.width = o.width /\ u.row = 0 /\ u.col = 0
      /\ u.known = o.known
  <2> DEFINE R == top.row * top.width + top.col..top.row * top.width + (o.cursorY + 1) * top.width - 1
             c == {cell \in top.cells : cell[1] \notin R}
  <2>1. u = [top EXCEPT !.cells = c]
    BY DEF ClearRows
  <2>2. c \in SUBSET top.cells
    OBVIOUS
  <2> HIDE DEF c, u
  <2>3. u \in Terminals /\ u.cells \in SUBSET o.cells /\ u.width = o.width /\ u.row = 0 /\ u.col = 0
    BY <1>2, <2>1, <2>2 DEF Terminals
  <2>4. u.known = o.known
    BY <1>2, <2>1 DEF Terminals
  <2> QED BY <2>3, <2>4
<1> HIDE DEF u
<1>4. /\ t \in Terminals /\ t.cells = u.cells /\ t.width = o.width /\ t.row = n /\ t.col = 0
      /\ t.known = o.known
  <2>1. t \in Terminals /\ t.cells = u.cells /\ t.width = o.width /\ t.row = n /\ t.col = 0
    BY <1>3 DEF Terminals
  <2>2. t.known = o.known
    BY <1>3 DEF Terminals
  <2> QED BY <2>1, <2>2
<1> HIDE DEF t
<1>5. /\ At(v, 0) /\ v.width = t.width
      /\ \A cell \in v.cells : cell[1] >= 0 /\ \E c \in t.cells : cell[1] = c[1] - t.row * t.width
  <2>1. ~ t.known => t.cells = {}
    BY <1>1, <1>3, <1>4
  <2> QED BY <1>4, <2>1, RebaseAt
<1> HIDE DEF v
<1>6. ASSUME NEW cell \in v.cells
      PROVE  cell[1] \in 0..e - 1
  <2> DEFINE d == n * o.width
  <2>1. d \in Int /\ d >= 0
    BY <1>1, TimesIsNat
  <2>2. PICK c \in t.cells : cell[1] = c[1] - d
    BY <1>4, <1>5
  <2> HIDE DEF d
  <2>3. c[1] \in 0..e - 1
    BY <1>1, <1>3, <1>4, <2>2
  <2>4. cell[1] >= 0
    BY <1>5
  <2> QED BY <1>1, <2>1, <2>2, <2>3, <2>4
<1>7. Shows(MoveCursorToPos(WriteLine(WriteLine(v, Prompt), line), pos), line, pos)
  BY <1>1, <1>4, <1>5, <1>6, Repaint DEF e
<1> QED BY <1>7 DEF v, t, u, top

\* A message leaves the line on the screen as it is tracked, where the screen is known.
LEMMA WriteShows ==
    ASSUME line \in Seq(Chars), pos \in 0..Len(line), Shows(term, line, pos),
           NEW n \in Nat, NEW ends \in BOOLEAN, Write(n, ends)
    PROVE  Shows(term', line', pos')
<1> DEFINE o == IF ends THEN term ELSE Lost(term)
<1>1. Shows(o, line, pos)
  BY LostShows
<1> HIDE DEF o
<1>2. ~ (o.cursorX = 0 /\ o.cursorY = 0)
  BY <1>1, ShowsType
<1>3. LET top == ClearRows(Move(o, - o.cursorY, - o.cursorX), o.cursorY)
      IN  /\ term' = MoveCursorToPos(WriteLine(WriteLine(
                         Rebase([top EXCEPT !.row = @ + n]), Prompt), line), pos)
          /\ line' = line /\ pos' = pos
  BY <1>2 DEF Write, o
<1> QED BY <1>1, <1>3, MessageShows

\* A screen that is cleared.
LEMMA ClearScreenShows ==
    ASSUME line \in Seq(Chars), pos \in 0..Len(line), Shows(term, line, pos), KeyClearScreen
    PROVE  Shows(term', line', pos')
<1> DEFINE t == [term EXCEPT !.cells = {}, !.row = 0, !.col = 0, !.known = TRUE]
           v == Rebase(t)
<1>1. term \in Terminals /\ term.width \in Widths
  BY ShowsType
<1>2. t \in Terminals /\ t.cells = {} /\ t.col = 0 /\ t.width = term.width
  <2>1. {} \in SUBSET (Int \X Letters) /\ 0 \in Int
    OBVIOUS
  <2> QED BY <1>1, <2>1 DEF Terminals
<1> HIDE DEF t
<1>3. At(v, 0) /\ v.width = t.width /\ \A cell \in v.cells : \E c \in t.cells : cell[1] = c[1] - t.row * t.width
  BY <1>2, RebaseAt
<1> HIDE DEF v
<1>4. \A cell \in v.cells : cell[1] \in 0..Len(Prompt) + Len(line) - 1
  BY <1>2, <1>3
<1>5. Shows(MoveCursorToPos(WriteLine(MoveCursorToPos(WriteLine(v, Prompt), 0), line), pos), line, pos)
  BY <1>1, <1>2, <1>3, <1>4, Repaint
<1> QED BY <1>5 DEF KeyClearScreen, v, t

\* A window that is resized while a line is read.
LEMMA ResizeShows ==
    ASSUME line \in Seq(Chars), pos \in 0..Len(line), Shows(term, line, pos), NEW w \in Widths, SetSize(w)
    PROVE  Shows(term', line', pos')
<1> DEFINE o == term.width
           M == term.maxLine
           R == term.cursorY
           C == term.col
           t == Resized(term, w)
           k == IF C < w THEN C ELSE w - 1
           c == {<<(cell[1] \div o) * w + (cell[1] % o), cell[2]>> :
                     cell \in {d \in term.cells : d[1] % o < w}}
<1>1. /\ term \in Terminals /\ o \in Int /\ o > 0 /\ M \in Nat /\ R \in 0..M /\ C \in 0..o - 1
      /\ term.cursorX \in 0..o - 1 /\ term.row \in Int
      /\ term.known => term.row = R /\ term.cursorX = C
      /\ ~ term.known => term.row = 0 /\ C = 0 /\ term.cells = {}
      /\ ~ (term.cursorX = 0 /\ term.cursorY = 0)
      /\ \A cell \in term.cells : cell[1] \in 0..Len(Prompt) + Len(line) - 1 /\ cell[1] \div o \in 0..M
      /\ term.cells \in SUBSET (Int \X Letters)
  BY ShowsType
<1>2. w \in Int /\ w \in Nat \ {0} /\ w > 0 /\ w # o
  BY EditorAssumption DEF SetSize
<1> HIDE DEF o, M, R, C
<1>3. k \in 0..w - 1 /\ (w > o => k = C) /\ (C = 0 => k = 0) /\ (term.cells = {} => c = {})
  <2>1. k \in 0..w - 1 /\ (w > o => k = C) /\ (C = 0 => k = 0)
    BY <1>1, <1>2
  <2>2. term.cells = {} => c = {}
    OBVIOUS
  <2> QED BY <2>1, <2>2
\* Where the cells are now.
<1>4. ASSUME NEW d \in c
      PROVE  /\ d \in Int \X Letters
             /\ \E q \in 0..M, m \in 0..w - 1 : d[1] = q * w + m
  <2>1. PICK cell \in term.cells : /\ cell[1] % o < w
                                   /\ d = <<(cell[1] \div o) * w + (cell[1] % o), cell[2]>>
    BY <1>4
  <2>2. cell[1] \in Nat /\ cell[1] \div o \in 0..M /\ cell[2] \in Letters
    BY <1>1
  <2>3. cell[1] % o \in 0..o - 1
    BY <1>1, <2>2, DivMod
  <2> DEFINE q == cell[1] \div o
             m == cell[1] % o
  <2>4. q \in 0..M /\ m \in 0..w - 1 /\ d = <<q * w + m, cell[2]>>
    BY <1>2, <2>1, <2>2, <2>3
  <2> HIDE DEF q, m
  <2>5. q * w + m \in Int
    BY <1>2, <2>4
  <2> QED BY <2>2, <2>4, <2>5
<1>5. c \in SUBSET (Int \X Letters)
  BY <1>4
<1> DEFINE x == [term EXCEPT !.cells = c, !.width = w, !.col = k]
<1>6. t = x
  <2>1. t = [term EXCEPT !.cells = c, !.width = w, !.col = IF C < w THEN C ELSE w - 1]
    BY DEF Resized, o, C
  <2> QED BY <2>1
<1> HIDE DEF c, k, t
<1>7. /\ t \in Terminals /\ t.cells = c /\ t.width = w /\ t.col = k /\ t.row = term.row
      /\ t.cursorX = term.cursorX /\ t.cursorY = R /\ t.maxLine = M /\ t.known = term.known
  <2>1. k \in Int
    BY <1>2, <1>3
  <2>2. t = [term EXCEPT !.cells = c, !.width = w, !.col = k]
    BY <1>6
  <2>3. /\ t \in Terminals /\ t.cells = c /\ t.width = w /\ t.col = k /\ t.row = term.row
        /\ t.cursorX = term.cursorX /\ t.cursorY = term.cursorY /\ t.maxLine = term.maxLine
        /\ t.known = term.known
    BY <1>1, <1>2, <1>5, <2>1, <2>2 DEF Terminals
  <2> QED BY <1>1, <2>3 DEF R, M
\* A cell of row q is in the rows that are cleared if q is not below the last of them.
<1>8. ASSUME NEW q \in Nat, NEW n \in Nat, q <= n, NEW m \in 0..w - 1
      PROVE  q * w + m \in 0..(n + 1) * w - 1
  <2>1. q * w \in Int /\ q * w >= 0
    BY <1>2, TimesIsNat
  <2>2. q * w + w <= (n + 1) * w
    <3> DEFINE b == n + 1
    <3>1. b \in Int /\ q \in Int /\ q < b
      BY <1>8
    <3> HIDE DEF b
    <3>2. q * w + w <= b * w
      BY <1>2, <3>1, TimesGrows
    <3> QED BY <3>2 DEF b
  <2>3. (n + 1) * w \in Int
    BY <1>2
  <2> QED BY <1>2, <2>1, <2>2, <2>3
<1>9. ~ (line = <<>> /\ term.cursorX = 0 /\ term.cursorY = 0)
  BY <1>1
<1>10. CASE w < o
  <2> DEFINE u == [t EXCEPT !.cursorX = IF @ < w THEN @ ELSE w - 1, !.cursorY = 2 * @]
             x2 == IF term.cursorX < w THEN term.cursorX ELSE w - 1
  <2>1. term' = ClearAndRepaintLinePlusNPrevious(u, 2 * M)
    BY <1>7, <1>9, <1>10 DEF SetSize, t, o
  <2>2. /\ u \in Terminals /\ u.cells = c /\ u.width = w /\ u.col = k /\ u.row = term.row
        /\ u.cursorX = x2 /\ u.cursorY = 2 * R /\ u.known = term.known
    <3>1. x2 \in Int /\ 2 * R \in Int /\ R \in Int
      BY <1>1, <1>2, <1>3
    <3>2. u = [t EXCEPT !.cursorX = x2, !.cursorY = 2 * R]
      BY <1>7
    <3> HIDE DEF u, x2
    <3> QED BY <1>7, <3>1, <3>2 DEF Terminals
  <2>6. term.known => x2 = k
    BY <1>1 DEF k
  <2> HIDE DEF u, x2
  <2>3. ASSUME NEW d \in u.cells
        PROVE  d[1] - (u.row + (- u.cursorY)) * u.width \in 0..(2 * M + 1) * u.width - 1
    <3>1. PICK q \in 0..M, m \in 0..w - 1 : d[1] = q * w + m
      BY <1>4, <2>2
    <3>5. u.row = R
      BY <1>1, <1>3, <2>2
    <3>2. q + R \in Nat /\ 2 * M \in Nat /\ q + R <= 2 * M /\ R + (- (2 * R)) = - R
      BY <1>1, <3>1
    <3>3. (q + R) * w + m \in 0..(2 * M + 1) * w - 1
      BY <1>8, <3>2
    <3>4. d[1] - (- R) * w = (q + R) * w + m
      <4>1. q \in Int /\ R \in Int /\ m \in Int
        BY <1>1, <3>1
      <4> QED BY <1>2, <3>1, <4>1
    <3> QED BY <2>2, <3>2, <3>3, <3>4, <3>5
  <2>4. 2 * M \in Nat
    BY <1>1
  <2>5. Shows(ClearAndRepaintLinePlusNPrevious(u, 2 * M), line, pos)
    <3>1. u.known => u.cursorX = u.col
      BY <2>2, <2>6
    <3>2. ~ u.known => u.row = 0 /\ u.col = 0 /\ u.cells = {}
      BY <1>1, <1>3, <2>2
    <3> QED BY <1>3, <2>2, <2>3, <2>4, <3>1, <3>2, ClearAndRepaintShows
  <2> QED BY <2>1, <2>5 DEF SetSize
<1>11. CASE w > o
  <2>1. term' = ClearAndRepaintLinePlusNPrevious(t, M)
    <3>1. ~ (w < o)
      BY <1>1, <1>2, <1>11
    <3> QED BY <1>7, <1>9, <3>1 DEF SetSize, t, o
  <2>2. ASSUME NEW d \in t.cells
        PROVE  d[1] - (t.row + (- t.cursorY)) * t.width \in 0..(M + 1) * t.width - 1
    <3>1. PICK q \in 0..M, m \in 0..w - 1 : d[1] = q * w + m
      BY <1>4, <1>7
    <3>5. t.row = R
      BY <1>1, <1>3, <1>7
    <3>2. q \in Nat /\ q <= M /\ R + (- R) = 0
      BY <1>1, <3>1
    <3>3. q * w + m \in 0..(M + 1) * w - 1
      BY <1>1, <1>8, <3>2
    <3>4. d[1] - 0 * w = q * w + m
      BY <1>2, <3>1, <3>2
    <3> QED BY <1>7, <3>2, <3>3, <3>4, <3>5
  <2>3. k = C
    BY <1>3, <1>11
  <2>4. Shows(ClearAndRepaintLinePlusNPrevious(t, M), line, pos)
    <3>1. t.known => t.cursorX = t.col
      BY <1>1, <1>7, <2>3
    <3>2. ~ t.known => t.row = 0 /\ t.col = 0 /\ t.cells = {}
      BY <1>1, <1>3, <1>7
    <3> QED BY <1>1, <1>3, <1>7, <2>2, <3>1, <3>2, ClearAndRepaintShows
  <2> QED BY <2>1, <2>4 DEF SetSize
<1> QED BY <1>1, <1>2, <1>10, <1>11

-----------------------------------------------------------------------------
(* Between two lines nothing is shown.                                     *)
Fresh(t) == At(t, 0) /\ t.cells = {} /\ t.width \in Widths

\* A prompt before an empty line.
LEMMA ReadLineShows ==
    ASSUME Fresh(term), line = <<>>, pos = 0, ReadLine
    PROVE  Shows(term', line', pos')
<1> DEFINE w == term.width
           v == WriteLine(term, Prompt)
           L == Len(Prompt)
<1>1. /\ w \in Int /\ w > 0 /\ term.cursorX = 0 % w /\ term.cursorY = 0 \div w /\ At(term, 0)
      /\ term.cells = {} /\ w \in Widths
  BY AtType DEF Fresh
<1>2. term.cursorX = 0 /\ term.cursorY = 0
  BY <1>1, FirstPlace
<1>3. term' = v /\ line' = <<>> /\ pos' = 0
  BY <1>2 DEF ReadLine
<1>4. 0 \in Nat /\ Prompt \in Seq(Letters) /\ L \in Nat /\ 0 + L = L /\ L + 0 = L
  BY PromptType
<1> HIDE DEF w, L
<1>5. /\ At(v, 0 + L) /\ Below(term, v) /\ (0 + L) \div w <= v.maxLine
      /\ v.known => v.cells = Over(term.cells, 0, Prompt)
  BY <1>1, <1>4, WriteLineAt DEF L, w
<1> HIDE DEF v
<1>6. (v.known => v.cells = Paint(Page(<<>>))) /\ v.width = w /\ Len(<<>>) = 0
  BY <1>1, <1>5, PromptPainted DEF Below, w
<1> QED BY <1>1, <1>3, <1>4, <1>5, <1>6 DEF Shows, L

\* The row below a line that is returned is empty.
LEMMA ReturnIsFresh ==
    ASSUME line \in Seq(Chars), pos \in 0..Len(line), Shows(term, line, pos),
           NEW result, NEW asPasted, Return(result, asPasted)
    PROVE  Fresh(term') /\ line' = <<>> /\ pos' = 0
<1> DEFINE u == MoveCursorToPos(term, Len(line))
           t == CrLf(u)
           v == Rebase(t)
           e == Len(Prompt) + Len(line)
           w == term.width
           d == e \div w
           first == (d + 1) * w
<1>1. /\ w \in Int /\ w > 0 /\ w \in Widths /\ e \in Nat /\ Len(line) \in Nat
      /\ \A cell \in term.cells : cell[1] \in 0..e - 1
  BY ShowsType, PromptType
<1>2. At(u, e) /\ u.cells = term.cells /\ u.width = w /\ u.known = term.known
  BY <1>1, PromptType, MovedAt DEF Shows
<1> HIDE DEF u
<1>3. /\ u \in Terminals /\ (u.known => u.row = d) /\ d \in Nat /\ e < first /\ first \in Int
      /\ ~ u.known => u.row = 0 /\ u.col = 0 /\ u.cells = {}
  <2>1. /\ u \in Terminals /\ (u.known => u.row = e \div u.width)
        /\ ~ u.known => u.row = 0 /\ u.col = 0 /\ u.cells = {}
    BY <1>2, AtType
  <2> HIDE DEF e, w
  <2>2. d \in Nat /\ e % w \in 0..w - 1 /\ e = d * w + (e % w)
    BY <1>1, DivMod
  <2> HIDE DEF d
  <2> DEFINE b == d + 1
  <2>3. b \in Int /\ d \in Int /\ d < b
    BY <2>2
  <2> HIDE DEF b
  <2>4. d * w + w <= b * w /\ d * w \in Int /\ b * w \in Int
    BY <1>1, <2>3, TimesGrows
  <2>5. e < b * w
    BY <1>1, <2>2, <2>4
  <2> QED BY <1>2, <2>1, <2>2, <2>4, <2>5 DEF b, d
<1> HIDE DEF e, w, d
<1>4. /\ t \in Terminals /\ (t.known => t.row = d + 1) /\ t.col = 0 /\ t.cells = u.cells
      /\ t.width = w /\ t.known = u.known
  <2>0. CASE ~ u.known
    <3>1. t = u
      BY <2>0 DEF CrLf
    <3> HIDE DEF t
    <3> QED BY <1>2, <1>3, <2>0, <3>1
  <2> SUFFICES ASSUME u.known
               PROVE  /\ t \in Terminals /\ t.row = d + 1 /\ t.col = 0 /\ t.cells = u.cells
                      /\ t.width = w /\ t.known = u.known
    BY <2>0
  <2>1. t = [u EXCEPT !.row = d + 1, !.col = 0]
    BY <1>3 DEF CrLf
  <2>2. d + 1 \in Int /\ 0 \in Int
    BY <1>3
  <2> HIDE DEF t
  <2> QED BY <1>2, <1>3, <2>1, <2>2 DEF Terminals
<1> HIDE DEF t
<1>5. /\ At(v, 0) /\ v.width = w
      /\ \A cell \in v.cells : cell[1] >= 0 /\ \E c \in t.cells : cell[1] = c[1] - t.row * t.width
  <2>1. ~ t.known => t.cells = {}
    BY <1>3, <1>4
  <2> QED BY <1>4, <2>1, RebaseAt
<1> HIDE DEF v
<1>6. v.cells = {}
  <2> SUFFICES ASSUME NEW cell \in v.cells PROVE FALSE
    OBVIOUS
  <2>0. t.known
    BY <1>3, <1>4, <1>5
  <2>1. PICK c \in t.cells : cell[1] = c[1] - first
    BY <1>4, <1>5, <2>0
  <2>2. c[1] \in 0..e - 1
    BY <1>1, <1>2, <1>4, <2>1
  <2>3. cell[1] >= 0
    BY <1>5
  <2> HIDE DEF first
  <2> QED BY <1>1, <1>3, <2>1, <2>2, <2>3
<1>7. term' = [v EXCEPT !.maxLine = 0] /\ line' = <<>> /\ pos' = 0
  BY DEF Return, v, t, u
<1>8. /\ term' \in Terminals /\ term'.cells = {} /\ term'.width = w /\ term'.row = v.row
      /\ term'.col = v.col /\ term'.cursorX = v.cursorX /\ term'.cursorY = v.cursorY
      /\ term'.known = v.known
  BY <1>5, <1>6, <1>7 DEF At, Terminals
<1> QED BY <1>1, <1>5, <1>7, <1>8 DEF Fresh, At

\* A window that is resized between two lines.
LEMMA ResizeIsFresh ==
    ASSUME Fresh(term), line = <<>>, NEW w \in Widths, SetSize(w)
    PROVE  Fresh(term')
<1>1. /\ term \in Terminals /\ term.width \in Int /\ term.width > 0
      /\ term.cursorY = 0 \div term.width /\ term.cursorX = 0 % term.width
      /\ term.known => term.row = term.cursorY /\ term.col = term.cursorX
      /\ ~ term.known => term.row = 0 /\ term.col = 0
      /\ term.cells = {} /\ term.known \in BOOLEAN
  BY AtType DEF Fresh
<1>2. term.row = 0 /\ term.col = 0 /\ term.cursorX = 0 /\ term.cursorY = 0
  BY <1>1, FirstPlace
<1>3. w \in Int /\ w \in Nat \ {0} /\ w > 0 /\ 0 \div w = 0 /\ 0 % w = 0
  <2>1. w \in Int /\ w \in Nat \ {0} /\ w > 0
    BY EditorAssumption
  <2> QED BY <2>1, FirstPlace
<1>4. term' = Resized(term, w)
  BY <1>2 DEF SetSize
<1>5. Resized(term, w) = [term EXCEPT !.cells = {}, !.width = w, !.col = 0]
  <2> DEFINE c == {<<(cell[1] \div term.width) * w + (cell[1] % term.width), cell[2]>> :
                       cell \in {d \in term.cells : d[1] % term.width < w}}
  <2>1. Resized(term, w) = [term EXCEPT !.cells = c, !.width = w,
                                        !.col = IF term.col < w THEN term.col ELSE w - 1]
    BY DEF Resized
  <2>2. c = {} /\ (IF term.col < w THEN term.col ELSE w - 1) = 0
    BY <1>1, <1>2, <1>3
  <2> HIDE DEF c
  <2> QED BY <2>1, <2>2
<1>6. /\ term' \in Terminals /\ term'.cells = {} /\ term'.width = w /\ term'.row = 0
      /\ term'.col = 0 /\ term'.cursorX = 0 /\ term'.cursorY = 0
  <2>1. {} \in SUBSET (Int \X Letters) /\ 0 \in Int
    OBVIOUS
  <2> QED BY <1>1, <1>2, <1>3, <1>4, <1>5, <2>1 DEF Terminals
<1> QED BY <1>3, <1>6 DEF Fresh, At

\* What is tracked of a fresh terminal, and of its cursor.
LEMMA FreshType ==
    ASSUME Fresh(term)
    PROVE  /\ term \in Terminals /\ term.width \in Widths /\ term.width \in Int /\ term.width > 0
           /\ term.row = 0 /\ term.col = 0 /\ term.cursorX = 0 /\ term.cursorY = 0 /\ term.cells = {}
           /\ 0 \div term.width = 0 /\ 0 % term.width = 0
<1>1. /\ term \in Terminals /\ term.width \in Int /\ term.width > 0
      /\ term.cursorY = 0 \div term.width /\ term.cursorX = 0 % term.width
      /\ term.known => term.row = term.cursorY /\ term.col = term.cursorX
      /\ ~ term.known => term.row = 0 /\ term.col = 0
      /\ term.cells = {} /\ term.known \in BOOLEAN /\ term.width \in Widths
  BY AtType DEF Fresh
<1>2. 0 \div term.width = 0 /\ 0 % term.width = 0
  BY <1>1, FirstPlace
<1> QED BY <1>1, <1>2

\* A message between two lines leaves the rows below it empty, ...
LEMMA WriteIsFresh ==
    ASSUME Fresh(term), NEW n \in Nat, NEW ends \in BOOLEAN, Write(n, ends)
    PROVE  Fresh(term')
<1> DEFINE o == IF ends THEN term ELSE Lost(term)
           t == [o EXCEPT !.row = @ + n]
           v == Rebase(t)
<1>1. /\ o \in Terminals /\ o.width \in Widths /\ o.row = 0 /\ o.col = 0 /\ o.cursorX = 0
      /\ o.cursorY = 0 /\ o.cells = {}
  <2>1. CASE ends
    BY <2>1, FreshType
  <2>2. CASE ~ ends
    <3>1. o = [term EXCEPT !.cells = {}, !.row = 0, !.col = 0, !.known = FALSE]
      BY <2>2 DEF Lost
    <3>2. {} \in SUBSET (Int \X Letters) /\ 0 \in Int
      OBVIOUS
    <3> HIDE DEF o
    <3> QED BY <3>1, <3>2, FreshType DEF Terminals
  <2> QED BY <2>1, <2>2
<1>2. term' = v
  BY <1>1 DEF Write
<1> HIDE DEF o
<1>3. t \in Terminals /\ t.cells = {} /\ t.width \in Widths /\ t.col = 0
  <2>1. n + 0 \in Int /\ o.row + n \in Int
    BY <1>1
  <2> QED BY <1>1, <2>1 DEF Terminals
<1> HIDE DEF t
<1>4. /\ At(v, 0) /\ v.width = t.width
      /\ \A cell \in v.cells : \E c \in t.cells : cell[1] = c[1] - t.row * t.width
  BY <1>3, RebaseAt
<1> HIDE DEF v
<1>5. v.cells = {}
  BY <1>3, <1>4
<1> QED BY <1>2, <1>3, <1>4, <1>5 DEF Fresh

\* ... and a list is displayed on a screen that is cleared, where none of it is.
LEMMA ListIsFresh ==
    ASSUME Fresh(term), DisplayList
    PROVE  Fresh(term')
<1>1. term' = [term EXCEPT !.cells = {}, !.row = 0, !.col = 0, !.known = TRUE]
  BY DEF DisplayList
<1>2. {} \in SUBSET (Int \X Letters) /\ 0 \in Int /\ 0 \in Nat
  OBVIOUS
<1>3. /\ term' \in Terminals /\ term'.cells = {} /\ term'.row = 0 /\ term'.col = 0
      /\ term'.width = term.width /\ term'.cursorX = 0 /\ term'.cursorY = 0
  BY <1>1, <1>2, FreshType DEF Terminals
<1>4. term'.known = TRUE
  BY <1>1, FreshType DEF Terminals
<1> QED BY <1>2, <1>3, <1>4, FreshType DEF Fresh, At

-----------------------------------------------------------------------------
(* The second invariant: while a line is read it is shown, and between two *)
(* lines the rows from the cursor on are empty, both if the screen is known. *)
ScreenInv ==
    /\ reading \in {"out", "in", "eof"}
    /\ reading = "out" => Fresh(term) /\ line = <<>> /\ pos = 0
    /\ reading # "out" => Shows(term, line, pos)

\* No line is longer than what was typed and pasted.
LengthsFit ==
    /\ keys \in 0..MaxKeys /\ Len(line) <= keys /\ Len(historyPending) <= keys
    /\ \A i \in 0..HistorySize - 1 : Len(history.entries[i]) <= keys

EditorInv == HistoryInv /\ ScreenInv /\ LengthsFit

\* A new terminal is empty, whatever its width.
LEMMA EditorInit == Init => EditorInv
<1> SUFFICES ASSUME Init PROVE EditorInv
  OBVIOUS
<1>1. HistoryInv
  BY HistoryInit
<1>2. ScreenInv
  <2>1. PICK w \in Widths : term = [cells |-> {}, row |-> 0, col |-> 0, known |-> TRUE, width |-> w,
                                    cursorX |-> 0, cursorY |-> 0, maxLine |-> 0]
    BY DEF Init
  <2>2. w \in Nat \ {0} /\ w \in Int /\ w > 0
    BY EditorAssumption
  <2>3. 0 \div w = 0 /\ 0 % w = 0
    BY <2>2, FirstPlace
  <2>4. {} \in SUBSET (Int \X Letters) /\ 0 \in Int /\ 0 \in Nat
    OBVIOUS
  <2>5. Fresh(term)
    BY <2>1, <2>2, <2>3, <2>4 DEF Fresh, At, Terminals
  <2> QED BY <2>5 DEF ScreenInv, Init
<1>3. LengthsFit
  <2>1. keys = 0 /\ line = <<>> /\ historyPending = <<>> /\ Len(<<>>) = 0 /\ 0 \in 0..MaxKeys
    BY EditorAssumption DEF Init
  <2>2. \A i \in 0..HistorySize - 1 : history.entries[i] = <<>>
    BY DEF Init
  <2> QED BY <2>1, <2>2 DEF LengthsFit
<1> QED BY <1>1, <1>2, <1>3 DEF EditorInv

\* Every step shows the line it leaves, or an empty screen.
LEMMA ScreenStep ==
    ASSUME HistoryInv, ScreenInv, [Next]_vars
    PROVE  ScreenInv'
<1>0. line \in Seq(Chars) /\ Len(line) \in Nat /\ pos \in 0..Len(line)
  BY DEF HistoryInv, HistoryTyped
<1>1. CASE ReadLine
  <2>1. Fresh(term) /\ line = <<>> /\ pos = 0 /\ reading' = "in"
    BY <1>1 DEF ReadLine, ScreenInv
  <2> QED BY <1>1, <2>1, ReadLineShows DEF ScreenInv
<1>2. ASSUME reading = "in", reading' = reading, Shows(term, line, pos) => Shows(term', line', pos')
      PROVE  ScreenInv'
  BY <1>2 DEF ScreenInv
<1>3. ASSUME EditKey, Shows(term, line, pos) => Shows(term', line', pos')
      PROVE  ScreenInv'
  BY <1>2, <1>3 DEF EditKey, TypedKey
<1>4. CASE KeyBackspace
  <2>1. pos \in 0..Len(line) /\ 1 \in Nat
    BY <1>0
  <2> QED BY <1>0, <1>3, <1>4, <2>1, EraseShows DEF KeyBackspace
<1>5. CASE KeyAltLeft \/ KeyAltRight
  <2>1. CountToLeftWord \in 0..pos /\ CountToRightWord \in 0..Len(line) - pos
    BY <1>0, WordsAreInLine
  <2>2. pos - CountToLeftWord \in 0..Len(line) /\ pos + CountToRightWord \in 0..Len(line)
    BY <1>0, <2>1
  <2> QED BY <1>0, <1>3, <1>5, <2>2, MoveToShows DEF KeyAltLeft, KeyAltRight
<1>6. CASE KeyLeft \/ KeyRight \/ KeyHome \/ KeyEnd
  <2>1. /\ (IF pos = 0 THEN 0 ELSE pos - 1) \in 0..Len(line)
        /\ (IF pos = Len(line) THEN pos ELSE pos + 1) \in 0..Len(line)
        /\ 0 \in 0..Len(line) /\ Len(line) \in 0..Len(line)
    BY <1>0
  <2> QED BY <1>0, <1>3, <1>6, <2>1, MoveToShows DEF KeyLeft, KeyRight, KeyHome, KeyEnd
<1>7. CASE KeyUp
  <2>1. reading = "in" /\ reading' = reading
    BY <1>7 DEF KeyUp, TypedKey
  <2>2. CASE historyIndex + 1 >= history.size
    BY <1>2, <1>7, <2>1, <2>2 DEF KeyUp, lineVars
  <2>3. CASE ~ (historyIndex + 1 >= history.size)
    <3> DEFINE entry == NthPreviousEntry(historyIndex + 1)
    <3>1. historyIndex + 1 \in 0..history.size - 1
      BY <2>3 DEF HistoryInv, HistoryTyped
    <3>2. entry \in Seq(Chars)
      BY <3>1, EntryType DEF HistoryInv
    <3>3. SetLine(entry, Len(entry))
      BY <1>7, <2>3 DEF KeyUp
    <3> HIDE DEF entry
    <3> QED BY <1>0, <1>2, <2>1, <3>2, <3>3, SetLineShows
  <2> QED BY <2>2, <2>3
<1>8. CASE KeyDown
  <2>1. reading = "in" /\ reading' = reading
    BY <1>8 DEF KeyDown, TypedKey
  <2>2. CASE historyIndex = -1
    BY <1>2, <1>8, <2>1, <2>2 DEF KeyDown, lineVars
  <2>3. CASE historyIndex # -1
    <3> DEFINE entry == IF historyIndex = 0 THEN historyPending
                        ELSE NthPreviousEntry(historyIndex - 1)
    <3>1. historyIndex \in 0..history.size - 1 /\ history.size \in Nat
      BY <2>3 DEF HistoryInv, HistoryTyped
    <3>2. entry \in Seq(Chars)
      <4>1. CASE historyIndex = 0
        BY <4>1 DEF HistoryInv, HistoryTyped
      <4>2. CASE historyIndex # 0
        <5>1. historyIndex - 1 \in 0..history.size - 1
          BY <3>1, <4>2
        <5> QED BY <4>2, <5>1, EntryType DEF HistoryInv
      <4> QED BY <4>1, <4>2
    <3>3. SetLine(entry, Len(entry))
      BY <1>8, <2>3 DEF KeyDown
    <3> HIDE DEF entry
    <3> QED BY <1>0, <1>2, <2>1, <3>2, <3>3, SetLineShows
  <2> QED BY <2>2, <2>3
<1>9. ASSUME NEW result, NEW asPasted, reading = "in", Return(result, asPasted) PROVE ScreenInv'
  <2>1. Shows(term, line, pos) /\ reading' = "out"
    BY <1>9 DEF ScreenInv, Return
  <2>2. Fresh(term') /\ line' = <<>> /\ pos' = 0
    BY <1>0, <1>9, <2>1, ReturnIsFresh
  <2> QED BY <2>1, <2>2 DEF ScreenInv, Fresh, At
<1>10. CASE KeyCtrlC \/ KeyEnter
  <2>1. CASE KeyCtrlC
    BY <1>9, <2>1 DEF KeyCtrlC
  <2>2. CASE KeyEnter
    BY <1>9, <2>2 DEF KeyEnter
  <2> QED BY <1>10, <2>1, <2>2
<1>11. CASE KeyDeleteWord \/ KeyCtrlU
  <2>1. CountToLeftWord \in Nat /\ pos \in Nat
    BY <1>0, WordsAreInLine
  <2> QED BY <1>0, <1>3, <1>11, <2>1, EraseShows DEF KeyDeleteWord, KeyCtrlU
<1>12. CASE KeyDeleteLine
  BY <1>0, <1>3, <1>12, DeleteLineShows DEF KeyDeleteLine
<1>13. CASE KeyCtrlD
  <2>1. CASE EditKey /\ pos < Len(line) /\ EraseNPreviousChars(pos + 1, 1)
    <3>1. pos + 1 \in 0..Len(line) /\ 1 \in Nat
      BY <1>0, <2>1
    <3> QED BY <1>0, <1>3, <2>1, <3>1, EraseShows
  <2>2. CASE EditKey /\ UNCHANGED lineVars
    BY <1>3, <2>2 DEF lineVars
  <2>3. CASE reading = "in" /\ reading' = "eof" /\ UNCHANGED lineVars
    BY <2>3 DEF ScreenInv, lineVars
  <2> QED BY <1>13, <2>1, <2>2, <2>3 DEF KeyCtrlD
<1>14. CASE KeyClearScreen
  BY <1>0, <1>3, <1>14, ClearScreenShows DEF KeyClearScreen
<1>15. ASSUME UNCHANGED <<reading, lineVars>> PROVE ScreenInv'
  BY <1>15 DEF ScreenInv, lineVars
<1>16. CASE PasteStart \/ PasteEnd \/ UNCHANGED vars
  BY <1>15, <1>16 DEF PasteStart, PasteEnd, vars
<1>17. ASSUME NEW ch \in Typed, KeyChar(ch) PROVE ScreenInv'
  <2>1. reading = "in" /\ reading' = reading /\ ch \in Chars
    BY <1>17 DEF KeyChar, TypedKey, Chars
  <2>2. CASE UNCHANGED lineVars
    BY <1>15, <2>1, <2>2
  <2>3. CASE AddKeyToLine(ch)
    BY <1>0, <1>2, <2>1, <2>3, AddShows
  <2> QED BY <1>17, <2>2, <2>3 DEF KeyChar
<1>18. ASSUME NEW ch \in Pasted, PasteChar(ch) PROVE ScreenInv'
  <2>1. reading = "in" /\ reading' = reading /\ ch \in Chars /\ AddKeyToLine(ch)
    BY <1>18 DEF PasteChar, Chars
  <2> QED BY <1>0, <1>2, <2>1, AddShows
<1>19. ASSUME NEW n \in 1..Rows, NEW ends \in BOOLEAN, Write(n, ends) PROVE ScreenInv'
  <2>1. n \in Nat /\ reading \in {"out", "in"} /\ reading' = reading /\ line' = line /\ pos' = pos
    BY <1>19 DEF Write, ScreenInv
  <2>2. CASE reading = "out"
    <3>1. Fresh(term) /\ line = <<>> /\ pos = 0
      BY <2>2 DEF ScreenInv
    <3>2. Fresh(term')
      BY <1>19, <2>1, <3>1, WriteIsFresh
    <3> QED BY <2>1, <2>2, <3>1, <3>2 DEF ScreenInv
  <2>3. CASE reading = "in"
    BY <1>0, <1>2, <1>19, <2>1, <2>3, WriteShows
  <2> QED BY <2>1, <2>2, <2>3
<1>21. CASE DisplayList
  <2>1. Fresh(term) /\ line' = <<>> /\ pos' = 0 /\ reading = "out" /\ reading' = "out"
    BY <1>21 DEF DisplayList, ScreenInv
  <2> QED BY <1>21, <2>1, ListIsFresh DEF ScreenInv
<1>20. ASSUME NEW w \in Widths, SetSize(w) PROVE ScreenInv'
  <2>1. reading' = reading /\ line' = line /\ pos' = pos
    BY <1>20 DEF SetSize
  <2>2. CASE reading = "out"
    <3>1. Fresh(term) /\ line = <<>> /\ pos = 0
      BY <2>2 DEF ScreenInv
    <3>2. Fresh(term')
      BY <1>20, <3>1, ResizeIsFresh
    <3> QED BY <2>1, <2>2, <3>1, <3>2 DEF ScreenInv, Fresh, At
  <2>3. CASE reading # "out"
    BY <1>0, <1>20, <2>1, <2>3, ResizeShows DEF ScreenInv
  <2> QED BY <2>2, <2>3
<1> QED BY <1>1, <1>4, <1>5, <1>6, <1>7, <1>8, <1>10, <1>11, <1>12, <1>13, <1>14, <1>16,
           <1>17, <1>18, <1>19, <1>20, <1>21 DEF Next

\* A key makes the line longer by one, and nothing else makes it longer than it was.
LEMMA LengthStep ==
    ASSUME HistoryInv, LengthsFit, [Next]_vars
    PROVE  LengthsFit'
<1>0. /\ line \in Seq(Chars) /\ Len(line) \in Nat /\ pos \in 0..Len(line)
      /\ keys \in 0..MaxKeys /\ keys \in Nat /\ Len(line) <= keys /\ MaxKeys \in Nat
      /\ historyPending \in Seq(Chars) /\ Len(historyPending) \in Nat
  <2>1. line \in Seq(Chars) /\ pos \in 0..Len(line) /\ historyPending \in Seq(Chars)
    BY DEF HistoryInv, HistoryTyped
  <2>2. keys \in 0..MaxKeys /\ Len(line) <= keys /\ MaxKeys \in Nat
    BY EditorAssumption DEF LengthsFit
  <2> QED BY <2>1, <2>2
<1>1. ASSUME UNCHANGED <<histVars, keys>>, Len(line') <= Len(line), Len(line') \in Nat PROVE LengthsFit'
  <2>1. Len(line') <= keys'
    BY <1>0, <1>1
  <2> QED BY <1>1, <2>1 DEF LengthsFit, histVars
<1>2. ASSUME NEW p \in 0..Len(line), NEW n \in Nat, EraseNPreviousChars(p, n)
      PROVE  Len(line') <= Len(line) /\ Len(line') \in Nat
  <2> DEFINE k == IF p < n THEN p ELSE n
  <2>1. CASE k = 0
    BY <1>0, <1>2, <2>1 DEF EraseNPreviousChars, lineVars
  <2>2. CASE k # 0
    <3>1. line' = Before(p - k) \o Behind(p) /\ k \in 1..p
      BY <1>2, <2>2 DEF EraseNPreviousChars
    <3> HIDE DEF k
    <3>2. Before(p - k) \in Seq(Chars) /\ Len(Before(p - k)) = p - k
      BY <1>0, <3>1 DEF Before
    <3>3. Behind(p) \in Seq(Chars) /\ Len(Behind(p)) = Len(line) - p
      BY <1>0 DEF Behind
    <3>4. Len(line') = (p - k) + (Len(line) - p)
      <4> DEFINE y == Before(p - k)
                 z == Behind(p)
      <4>1. y \in Seq(Chars) /\ z \in Seq(Chars) /\ Len(y) = p - k /\ Len(z) = Len(line) - p /\ line' = y \o z
        BY <3>1, <3>2, <3>3
      <4> HIDE DEF y, z
      <4>2. Len(line') = Len(y) + Len(z)
        BY <4>1
      <4> QED BY <4>1, <4>2
    <3> QED BY <1>0, <3>1, <3>4
  <2> QED BY <2>1, <2>2
<1>3. ASSUME NEW ch \in Chars, AddKeyToLine(ch), UNCHANGED histVars PROVE LengthsFit'
  <2>1. Before(pos) \in Seq(Chars) /\ Len(Before(pos)) = pos
    BY <1>0 DEF Before
  <2>2. Behind(pos) \in Seq(Chars) /\ Len(Behind(pos)) = Len(line) - pos
    BY <1>0 DEF Behind
  <2>3. /\ line' = Before(pos) \o <<ch>> \o Behind(pos) /\ keys' = keys + 1 /\ keys < MaxKeys
        /\ history' = history /\ historyPending' = historyPending
    BY <1>3 DEF AddKeyToLine, histVars
  <2>4. Len(line') = Len(line) + 1
    BY <1>0, <2>1, <2>2, <2>3
  <2>5. keys' \in 0..MaxKeys /\ Len(line') <= keys' /\ Len(historyPending') <= keys'
    BY <1>0, <2>3, <2>4 DEF LengthsFit
  <2>6. ASSUME NEW i \in 0..HistorySize - 1 PROVE Len(history'.entries[i]) <= keys'
    <3>1. history.entries[i] \in Seq(Chars) /\ Len(history.entries[i]) <= keys
      BY DEF HistoryInv, HistoryTyped, LengthsFit
    <3>2. Len(history.entries[i]) \in Nat
      BY <3>1
    <3> QED BY <1>0, <2>3, <3>1, <3>2
  <2> QED BY <2>5, <2>6 DEF LengthsFit
<1>4. ASSUME NEW n \in 0..history.size - 1 PROVE Len(NthPreviousEntry(n)) <= keys
  <2>1. history.head \in 0..HistorySize - 1 /\ n \in 0..HistorySize - 1
    BY SizeIsNat DEF HistoryInv, HistoryTyped
  <2>2. (IF history.head - n < 0 THEN history.head - n + HistorySize ELSE history.head - n)
            \in 0..HistorySize - 1
    BY <2>1, SizeIsNat, EntryIsIn
  <2> QED BY <2>2 DEF NthPreviousEntry, LengthsFit
<1>5. ASSUME NEW entry, Len(entry) <= keys, line' = entry, UNCHANGED <<history, keys>>,
             historyPending' \in {historyPending, line}
      PROVE  LengthsFit'
  BY <1>5 DEF LengthsFit
<1>6. ASSUME NEW result \in Seq(Chars), Len(result) <= keys, NEW asPasted, Return(result, asPasted)
      PROVE  LengthsFit'
  <2> DEFINE k == (history.head + 1) % HistorySize
  <2>1. /\ line' = <<>> /\ Len(<<>>) = 0 /\ keys' = keys /\ historyPending' = historyPending
        /\ history'.entries = [history.entries EXCEPT ![k] = result]
        /\ history.entries \in [0..HistorySize - 1 -> Seq(Chars)]
    BY <1>6 DEF Return, Add, HistoryInv, HistoryTyped
  <2> HIDE DEF k
  <2>2. \A i \in 0..HistorySize - 1 : Len(history'.entries[i]) <= keys
    BY <1>6, <2>1 DEF LengthsFit
  <2> QED BY <1>0, <2>1, <2>2 DEF LengthsFit
<1>7. ASSUME UNCHANGED <<histVars, keys>>, line' = line PROVE LengthsFit'
  BY <1>0, <1>1, <1>7
<1>8. CASE ReadLine
  BY <1>7, <1>8 DEF ReadLine
<1>9. CASE KeyAltLeft \/ KeyAltRight \/ KeyLeft \/ KeyRight \/ KeyHome \/ KeyEnd
  BY <1>7, <1>9 DEF KeyAltLeft, KeyAltRight, KeyLeft, KeyRight, KeyHome, KeyEnd, EditKey, MoveTo
<1>10. CASE KeyBackspace \/ KeyDeleteWord \/ KeyCtrlU
  <2>1. UNCHANGED <<histVars, keys>> /\ CountToLeftWord \in Nat /\ pos \in Nat /\ 1 \in Nat
    BY <1>0, <1>10, WordsAreInLine DEF KeyBackspace, KeyDeleteWord, KeyCtrlU, EditKey
  <2>2. \E n \in Nat : EraseNPreviousChars(pos, n)
    BY <1>10, <2>1 DEF KeyBackspace, KeyDeleteWord, KeyCtrlU
  <2> QED BY <1>0, <1>1, <1>2, <2>1, <2>2
<1>11. CASE KeyDeleteLine
  <2>1. line' = Before(pos) /\ UNCHANGED <<histVars, keys>>
    BY <1>11 DEF KeyDeleteLine, EditKey
  <2>2. Len(Before(pos)) = pos
    BY <1>0 DEF Before
  <2>3. Len(line') <= Len(line) /\ Len(line') \in Nat
    BY <1>0, <2>1, <2>2
  <2> QED BY <1>1, <2>1, <2>3
<1>12. CASE KeyCtrlD
  <2>1. CASE EditKey /\ pos < Len(line) /\ EraseNPreviousChars(pos + 1, 1)
    <3>1. pos + 1 \in 0..Len(line) /\ 1 \in Nat
      BY <1>0, <2>1
    <3> QED BY <1>1, <1>2, <2>1, <3>1 DEF EditKey
  <2>2. CASE UNCHANGED <<lineVars, histVars, keys>>
    BY <1>7, <2>2 DEF lineVars
  <2> QED BY <1>12, <2>1, <2>2 DEF KeyCtrlD, EditKey
<1>13. CASE KeyClearScreen \/ PasteStart \/ PasteEnd
  BY <1>7, <1>13 DEF KeyClearScreen, PasteStart, PasteEnd, EditKey, lineVars
<1>14. CASE KeyUp
  <2>1. UNCHANGED <<history, keys>>
    BY <1>14 DEF KeyUp
  <2>2. CASE historyIndex + 1 >= history.size
    BY <1>7, <1>14, <2>1, <2>2 DEF KeyUp, lineVars, histVars
  <2>3. CASE ~ (historyIndex + 1 >= history.size)
    <3>1. historyIndex + 1 \in 0..history.size - 1
      BY <2>3 DEF HistoryInv, HistoryTyped
    <3>2. /\ line' = NthPreviousEntry(historyIndex + 1)
          /\ historyPending' \in {historyPending, line}
      BY <1>14, <2>3 DEF KeyUp, SetLine
    <3> QED BY <1>4, <1>5, <2>1, <3>1, <3>2
  <2> QED BY <2>2, <2>3
<1>15. CASE KeyDown
  <2>1. UNCHANGED <<history, historyPending, keys>>
    BY <1>15 DEF KeyDown
  <2>2. CASE historyIndex = -1
    BY <1>7, <1>15, <2>1, <2>2 DEF KeyDown, lineVars, histVars
  <2>3. CASE historyIndex = 0
    <3>1. line' = historyPending
      BY <1>15, <2>3 DEF KeyDown, SetLine
    <3> QED BY <1>5, <2>1, <3>1 DEF LengthsFit
  <2>4. CASE historyIndex \notin {-1, 0}
    <3>1. historyIndex - 1 \in 0..history.size - 1
      BY <2>4 DEF HistoryInv, HistoryTyped
    <3>2. line' = NthPreviousEntry(historyIndex - 1)
      BY <1>15, <2>4 DEF KeyDown, SetLine
    <3> QED BY <1>4, <1>5, <2>1, <3>1, <3>2
  <2> QED BY <2>2, <2>3, <2>4
<1>16. CASE KeyCtrlC \/ KeyEnter
  <2>1. CASE KeyCtrlC
    <3>1. Return(<<>>, FALSE)
      BY <2>1 DEF KeyCtrlC
    <3>2. <<>> \in Seq(Chars) /\ Len(<<>>) = 0
      OBVIOUS
    <3>3. Len(<<>>) <= keys
      BY <1>0, <3>2
    <3> QED BY <1>6, <3>1, <3>2, <3>3
  <2>2. CASE KeyEnter
    BY <1>0, <1>6, <2>2 DEF KeyEnter
  <2> QED BY <1>16, <2>1, <2>2
<1>17. ASSUME NEW ch \in Typed, KeyChar(ch) PROVE LengthsFit'
  <2>1. CASE AddKeyToLine(ch)
    BY <1>3, <1>17, <2>1 DEF KeyChar, Chars
  <2>2. CASE UNCHANGED <<lineVars, keys>>
    BY <1>7, <1>17, <2>2 DEF KeyChar, lineVars
  <2> QED BY <1>17, <2>1, <2>2 DEF KeyChar
<1>18. ASSUME NEW ch \in Pasted, PasteChar(ch) PROVE LengthsFit'
  BY <1>3, <1>18 DEF PasteChar, Chars
<1>19. ASSUME NEW n \in 1..Rows, NEW ends \in BOOLEAN, Write(n, ends) PROVE LengthsFit'
  BY <1>7, <1>19 DEF Write
<1>20. ASSUME NEW w \in Widths, SetSize(w) PROVE LengthsFit'
  BY <1>7, <1>20 DEF SetSize
<1>22. CASE DisplayList
  BY <1>7, <1>22 DEF DisplayList
<1>21. CASE UNCHANGED vars
  BY <1>7, <1>21 DEF vars, lineVars
<1> QED BY <1>8, <1>9, <1>10, <1>11, <1>12, <1>13, <1>14, <1>15, <1>16, <1>17, <1>18, <1>19,
           <1>20, <1>21, <1>22 DEF Next

\* Every step of the editor keeps all three.
LEMMA EditorStep == EditorInv /\ [Next]_vars => EditorInv'
BY HistoryStep, ScreenStep, LengthStep DEF EditorInv

\* What the invariant says of the types.
LEMMA EditorInvType == EditorInv => TypeOK
<1> SUFFICES ASSUME EditorInv PROVE TypeOK
  OBVIOUS
<1>1. /\ line \in Seq(Chars) /\ Len(line) \in Nat /\ pos \in 0..Len(line)
      /\ pasteActive \in BOOLEAN /\ lineIsPasted \in BOOLEAN
      /\ DOMAIN history.entries = 0..HistorySize - 1 /\ history.size \in 0..HistorySize
      /\ historyIndex \in -1..history.size - 1 /\ historyPending \in Seq(Chars)
  BY DEF EditorInv, HistoryInv, HistoryTyped
<1>2. Len(read) <= HistorySize
  BY <1>1, SizeIsNat DEF EditorInv, HistoryInv, LinesAreAsEntered
<1>3. keys \in 0..MaxKeys /\ Len(line) <= MaxKeys
  BY <1>1, EditorAssumption DEF EditorInv, LengthsFit
<1>4. /\ reading \in {"out", "in", "eof"}
      /\ reading = "out" => Fresh(term)
      /\ reading # "out" => Shows(term, line, pos)
  BY DEF EditorInv, ScreenInv
<1>5. /\ term.width \in Widths
      /\ \A cell \in term.cells : cell[1] \in Nat /\ cell[2] # Blank
      /\ term.row \in Nat /\ term.col \in 0..term.width - 1 /\ term.known \in BOOLEAN
      /\ ~ term.known => term.cells = {} /\ term.row = 0 /\ term.col = 0
      /\ term.cursorX \in 0..term.width - 1 /\ term.cursorY \in 0..term.maxLine
  <2>1. CASE reading = "out"
    <3> DEFINE w == term.width
    <3>1. /\ w \in Int /\ w > 0 /\ w \in Widths /\ term.cells = {} /\ term.maxLine \in Nat
          /\ term.row = 0 /\ term.col = 0 /\ term.cursorY = 0 /\ term.cursorX = 0
          /\ term.known \in BOOLEAN
      BY <1>4, <2>1, AtType, FreshType DEF Fresh
    <3> HIDE DEF w
    <3>2. 0 \in 0..w - 1 /\ 0 \in 0..term.maxLine
      BY <3>1
    <3> QED BY <3>1, <3>2 DEF w
  <2>2. CASE reading # "out"
    <3>1. /\ term.width \in Widths /\ term.maxLine \in Nat
          /\ term.row \in Nat /\ term.col \in 0..term.width - 1 /\ term.known \in BOOLEAN
          /\ ~ term.known => term.row = 0 /\ term.col = 0 /\ term.cells = {}
          /\ term.cursorY \in 0..term.maxLine /\ term.cursorX \in 0..term.width - 1
          /\ \A cell \in term.cells : cell[1] \in 0..Len(Prompt) + Len(line) - 1 /\ cell[2] # Blank
      BY <1>1, <1>4, <2>2, ShowsType
    <3>2. \A cell \in term.cells : cell[1] \in Nat
      BY <3>1, <1>1, PromptType
    <3> QED BY <3>1, <3>2
  <2> QED BY <2>1, <2>2
<1> QED BY <1>1, <1>2, <1>3, <1>4, <1>5 DEF TypeOK

\* The cursor that is tracked stays in the window and in the rows that were written, no
\* line is longer than what was typed, and the ring keeps its size.
THEOREM EditorTypeCorrect == Spec => []TypeOK
<1>1. Spec => []EditorInv
  BY EditorInit, EditorStep, PTL DEF Spec
<1> QED BY <1>1, EditorInvType, PTL

\* While ReadLine runs the tracked cursor is at its place in the line, after any editing,
\* for every prompt, line and window, and whatever is written or resized in between and
\* before; and the user sees prompt and line, and that cursor, unless output that did not
\* end its row, or a control character that was pasted, came since the screen was cleared.
THEOREM ScreenKeepsUp == Spec => []ScreenShowsLine
<1>1. Spec => []EditorInv
  BY EditorInit, EditorStep, PTL DEF Spec
<1>2. EditorInv => ScreenShowsLine
  <2> SUFFICES ASSUME EditorInv, reading = "in"
               PROVE  LET w == term.width
                          cursor == Len(Prompt) + pos
                      IN  /\ <<term.cursorY, term.cursorX>> = <<cursor \div w, cursor % w>>
                          /\ term.known =>
                              /\ term.cells = {<<i - 1, Text[i]>> : i \in {j \in DOMAIN Text : Text[j] # Blank}}
                              /\ <<term.row, term.col>> = <<cursor \div w, cursor % w>>
    BY DEF ScreenShowsLine
  <2>1. Shows(term, line, pos) /\ line \in Seq(Chars)
    BY DEF EditorInv, ScreenInv, HistoryInv, HistoryTyped
  <2>2. Paint(Page(line)) = {<<i - 1, Text[i]>> : i \in {j \in DOMAIN Text : Text[j] # Blank}}
    BY <2>1, TextIsPage
  <2> QED BY <2>1, <2>2 DEF Shows, At
<1> QED BY <1>1, <1>2, PTL

-----------------------------------------------------------------------------
(* The menu.  Lists of pods.                                               *)

\* Pods are finitely many.
LEMMA PodsAreFinite ==
    ASSUME NEW S, S \subseteq Pods
    PROVE  /\ IsFiniteSet(S) /\ Cardinality(S) \in 0..Cardinality(Pods)
           /\ Cardinality(S) \in Nat /\ Cardinality(Pods) \in Nat
<1>1. IsFiniteSet(Pods) /\ S \in SUBSET Pods
  BY MenuAssumption
<1>2. IsFiniteSet(S) /\ Cardinality(S) <= Cardinality(Pods)
  BY <1>1, FS_Subset
<1>3. Cardinality(S) \in Nat /\ Cardinality(Pods) \in Nat
  BY <1>1, <1>2, FS_CardinalityType
<1> QED BY <1>2, <1>3

\* A list without repetition is as long as the set of its pods is big.
LEMMA ListIsArranged ==
    ASSUME NEW n \in Nat, NEW S, NEW list \in [1..n -> S], IsInjective(list)
    PROVE  list \in Arranged(Range(list)) /\ Cardinality(Range(list)) = n
<1> DEFINE R == Range(list)
<1>1. list \in [1..n -> R] /\ R = {list[i] : i \in 1..n}
  BY DEF Range
<1>2. IsFiniteSet(1..n) /\ Cardinality(1..n) = n
  <2>1. 1 \in Int /\ n \in Int
    OBVIOUS
  <2>2. IsFiniteSet(1..n) /\ Cardinality(1..n) = IF 1 > n THEN 0 ELSE n - 1 + 1
    BY <2>1, FS_Interval
  <2> QED BY <2>2
<1> HIDE DEF R
<1>3. list \in Surjection(1..n, R) /\ list \in Injection(1..n, R)
  BY <1>1 DEF Surjection, Injection
<1>4. Cardinality(R) = n
  BY <1>2, <1>3, FS_Surjection
<1> QED BY <1>1, <1>4 DEF Arranged, R

\* An arrangement has all the pods.
LEMMA ArrangedHasAll ==
    ASSUME NEW S, IsFiniteSet(S), NEW list \in Arranged(S)
    PROVE  /\ Range(list) = S /\ IsInjective(list) /\ list \in Seq(S)
           /\ Len(list) = Cardinality(S)
<1> DEFINE n == Cardinality(S)
<1>1. n \in Nat
  BY FS_CardinalityType
<1>2. list \in [1..n -> S] /\ IsInjective(list)
  BY DEF Arranged
<1> HIDE DEF n
<1>3. Cardinality(Range(list)) = n
  BY <1>1, <1>2, ListIsArranged
<1>4. Range(list) \in SUBSET S
  BY <1>2 DEF Range
<1>5. Range(list) = S
  BY <1>3, <1>4, FS_Subset DEF n
<1>6. list \in Seq(S) /\ Len(list) = n
  BY <1>1, <1>2
<1> QED BY <1>2, <1>5, <1>6 DEF n

\* How many of c rows a page has from an offset on.
PageLen(start, c) == IF Limit < c - start THEN Limit ELSE c - start

\* The limit of a page is a positive number of rows.
LEMMA LimitIsNat ==
    ASSUME size \in Sizes
    PROVE  Limit \in Nat /\ Limit \in Int /\ Limit > 0 /\ size \in Nat /\ (size # 0 => Limit = size)
BY MenuAssumption DEF Limit

\* The answer of a query from an offset within what it finds.
LEMMA RowsOfAre ==
    ASSUME NEW S, S \subseteq Pods, NEW start \in 0..Cardinality(S), size \in Sizes,
           NEW list \in RowsOf(S, start)
    PROVE  /\ list \in Seq(Pods) /\ list \in Results /\ Len(list) = PageLen(start, Cardinality(S))
           /\ PageLen(start, Cardinality(S)) \in 0..Cardinality(S) - start
           /\ Range(list) \subseteq S /\ Nil \notin Range(list) /\ IsInjective(list)
           /\ list \in Arranged(Range(list)) /\ InPlace(list, start, S)
<1> DEFINE c == Cardinality(S)
           m == RowsLeft(start, S)
           w == Limit
<1>1. c \in Nat /\ w \in Nat /\ start \in 0..c
  BY PodsAreFinite, LimitIsNat
<1>2. m = IF start + w <= c THEN w ELSE IF start <= c THEN c - start ELSE 0
  BY DEF RowsLeft
<1>3. list \in [1..m -> S] /\ IsInjective(list) /\ InPlace(list, start, S)
  BY DEF RowsOf
<1>4. m = PageLen(start, c) /\ m \in 0..c - start /\ m \in Nat
  <2>1. PageLen(start, c) = IF w < c - start THEN w ELSE c - start
    BY DEF PageLen
  <2> HIDE DEF c, w, m
  <2> QED BY <1>1, <1>2, <2>1
<1> HIDE DEF m, c, w
<1>5. list \in Arranged(Range(list))
  BY <1>3, <1>4, ListIsArranged
<1>6. list \in Seq(S) /\ Len(list) = m
  BY <1>3, <1>4
<1>7. list \in Seq(Pods) /\ list \in Seq(Pods \cup {Nil})
  <2>1. list \in [1..m -> Pods] /\ list \in [1..m -> Pods \cup {Nil}]
    BY <1>3
  <2> QED BY <1>4, <2>1
<1>8. Range(list) \subseteq S /\ Nil \notin Range(list)
  <2>1. Range(list) \subseteq S
    BY <1>3 DEF Range
  <2> QED BY <2>1, MenuAssumption
<1> QED BY <1>3, <1>4, <1>5, <1>6, <1>7, <1>8 DEF Results, c

-----------------------------------------------------------------------------
(* The menu.  Page numbers and flags.                                      *)

\* n rows fill all their pages but the last, and that one in part or in full.
LEMMA PageNoBounds ==
    ASSUME NEW w \in Int, w > 0, NEW n \in Nat
    PROVE  /\ PageNo(n, w) \in Nat /\ PageNo(n, w) * w \in Int
           /\ n <= PageNo(n, w) * w /\ PageNo(n, w) * w < n + w
<1> DEFINE x == n + w - 1
           q == x \div w
           r == x % w
<1>1. x \in Nat
  OBVIOUS
<1>2. PageNo(n, w) = q
  BY DEF PageNo
<1> HIDE DEF x
<1>3. q \in Nat /\ r \in 0..w - 1 /\ x = q * w + r
  BY <1>1, DivMod
<1> HIDE DEF q, r
<1>4. q * w \in Int
  BY <1>3, TimesIsNat
<1>5. n <= q * w /\ q * w < n + w
  BY <1>3, <1>4 DEF x
<1> QED BY <1>2, <1>3, <1>4, <1>5

\* An offset is a number of whole pages away from the start or from the end of c rows.
Aligned(n, c, w) == \E m \in Nat : n = m * w \/ c - n = m * w

\* Such an offset before the end is on an earlier page than the end.
LEMMA PagesBefore ==
    ASSUME NEW w \in Int, w > 0, NEW c \in Nat, NEW a \in Nat, a < c, Aligned(a, c, w)
    PROVE  PageNo(a, w) < PageNo(c, w)
<1> DEFINE p == PageNo(a, w)
           q == PageNo(c, w)
<1>1. PICK m \in Nat : a = m * w \/ c - a = m * w
  BY DEF Aligned
<1>2. p \in Nat /\ p * w \in Int /\ p * w < a + w /\ q \in Nat /\ q * w \in Int /\ c <= q * w
  BY PageNoBounds
<1> HIDE DEF p, q
<1>3. m * w \in Int
  BY TimesIsNat
<1>4. ASSUME q <= p
      PROVE  q * w <= p * w
  <2>1. CASE q = p
    BY <1>2, <2>1
  <2>2. CASE q < p
    <3>1. q * w + w <= p * w
      BY <1>2, <2>2, TimesGrows
    <3> QED BY <1>2, <3>1
  <2> QED BY <1>2, <1>4, <2>1, <2>2
<1>5. CASE a = m * w
  <2>1. ~ (m < p)
    <3>1. m < p => m * w + w <= p * w
      BY <1>2, TimesGrows
    <3> QED BY <1>2, <1>3, <1>5, <3>1
  <2>2. p * w <= m * w
    <3>1. CASE p = m
      BY <1>3, <3>1
    <3>2. CASE p < m
      <4>1. p * w + w <= m * w
        BY <1>2, <3>2, TimesGrows
      <4> QED BY <1>2, <1>3, <4>1
    <3> QED BY <1>2, <2>1, <3>1, <3>2
  <2> QED BY <1>2, <1>3, <1>4, <1>5, <2>2 DEF p, q
<1>6. CASE c - a = m * w
  <2>1. m > 0
    <3>1. m = 0 => m * w = 0
      OBVIOUS
    <3> QED BY <1>6, <3>1
  <2>2. w <= m * w
    <3>1. 0 * w + w <= m * w
      BY <2>1, TimesGrows
    <3> QED BY <1>3, <3>1
  <2>3. ~ (q <= p)
    BY <1>2, <1>3, <1>4, <1>6, <2>2
  <2> QED BY <1>2, <2>3 DEF p, q
<1> QED BY <1>1, <1>5, <1>6

\* Rows that end on the first page are no more than a page.
LEMMA OnePage ==
    ASSUME NEW w \in Int, w > 0, NEW n \in Nat, ~ (PageNo(n, w) > 1)
    PROVE  n <= w
<1> DEFINE q == PageNo(n, w)
<1>1. q \in Nat /\ q * w \in Int /\ n <= q * w /\ ~ (q > 1)
  BY PageNoBounds
<1> HIDE DEF q
<1>2. q = 0 \/ q = 1
  BY <1>1
<1>3. 0 * w = 0 /\ 1 * w = w
  OBVIOUS
<1> QED BY <1>1, <1>2, <1>3

-----------------------------------------------------------------------------
(* The menu.  Pages as retrieved and as displayed.                         *)

MenuPages == [rows : Results, start : -1..Cardinality(Pods), offset : 0..Cardinality(Pods),
              hasPre : BOOLEAN, hasNext : BOOLEAN]

\* The rows in hand, unless the loader put nil assets there, are as many pods of the
\* search as lie between the page's offsets, and belong there while the store is old;
\* a page of no search has no rows to choose.
PageIsPiece(p, S, old) ==
    /\ p \in MenuPages /\ p.start <= p.offset /\ p.offset <= Cardinality(S)
    /\ p.start = -1 =>
          /\ p.offset = 0 /\ ~ p.hasNext /\ ~ p.hasPre
          /\ p.rows = <<>> \/ Nil \in Range(p.rows)
    /\ p.start >= 0 /\ Nil \notin Range(p.rows) =>
          /\ IsInjective(p.rows) /\ Range(p.rows) \subseteq S
          /\ Len(p.rows) = p.offset - p.start
          /\ old => \E list \in Arranged(Range(p.rows)) : InPlace(list, p.start, S)

\* A page retrieved from an offset of what is found.
LEMMA RetrieveIs ==
    ASSUME NEW S, S \subseteq Pods, NEW start \in 0..Cardinality(S), size \in Sizes,
           NEW list \in RowsOf(S, start), NEW total, NEW old, NEW p, p = PageOf(list, start, total)
    PROVE  /\ p.start = start /\ p.offset = start + PageLen(start, Cardinality(S)) /\ p.rows = list
           /\ p.offset \in start..Cardinality(S) /\ PageIsPiece(p, S, old)
           /\ p.hasPre = (PageNo(p.offset, IF size = 0 THEN PageLen(start, Cardinality(S)) ELSE size) > 1)
           /\ p.hasNext = (PageNo(p.offset, IF size = 0 THEN PageLen(start, Cardinality(S)) ELSE size)
                              < PageNo(total, IF size = 0 THEN PageLen(start, Cardinality(S)) ELSE size))
<1> DEFINE c == Cardinality(S)
           m == PageLen(start, c)
           o == start + m
           per == IF size = 0 THEN m ELSE size
<1>1. c \in 0..Cardinality(Pods) /\ Cardinality(Pods) \in Nat /\ start \in 0..c
  BY PodsAreFinite
<1>2. /\ list \in Results /\ Len(list) = m /\ m \in 0..c - start /\ Range(list) \subseteq S
      /\ IsInjective(list) /\ list \in Arranged(Range(list)) /\ InPlace(list, start, S)
  BY RowsOfAre
<1>3. p = [rows |-> list, start |-> start, offset |-> o, hasPre |-> PageNo(o, per) > 1,
           hasNext |-> PageNo(o, per) < PageNo(total, per)]
  BY <1>2 DEF PageOf
<1> HIDE DEF c, m, per
<1>4. o \in start..c /\ start \in -1..Cardinality(Pods) /\ o \in 0..Cardinality(Pods)
  BY <1>1, <1>2
<1>5. o - start = m /\ start # -1 /\ start <= o /\ o <= c
  BY <1>1, <1>2
<1> HIDE DEF o
<1>6. /\ p.start = start /\ p.offset = o /\ p.rows = list
      /\ p.hasPre = (PageNo(o, per) > 1) /\ p.hasNext = (PageNo(o, per) < PageNo(total, per))
  BY <1>3
<1>7. p \in MenuPages
  <2>1. (PageNo(o, per) > 1) \in BOOLEAN /\ (PageNo(o, per) < PageNo(total, per)) \in BOOLEAN
    OBVIOUS
  <2> QED BY <1>2, <1>3, <1>4, <2>1 DEF MenuPages
<1>8. \E l \in Arranged(Range(list)) : InPlace(l, start, S)
  BY <1>2
<1>9. PageIsPiece(p, S, old)
  BY <1>2, <1>5, <1>6, <1>7, <1>8 DEF PageIsPiece, c
<1> QED BY <1>4, <1>6, <1>9 DEF o, m, per, c

\* What the flags of a page say of the c rows of the search, in a window that keeps its size.
FlagsAreRight(p, c, w, all) ==
    p.start >= 0 =>
        /\ p.hasNext <=> p.offset # c
        /\ Aligned(p.offset, c, w)
        /\ ~ all /\ ~ p.hasPre => p.start = 0

\* They say it of a page retrieved from an aligned offset.
LEMMA RetrieveFlags ==
    ASSUME NEW S, S \subseteq Pods, NEW start \in 0..Cardinality(S), size \in Sizes,
           NEW list \in RowsOf(S, start),
           Aligned(start, Cardinality(S), Limit), size # 0 /\ start # 0 => start < Cardinality(S),
           NEW p, p = PageOf(list, start, Cardinality(S))
    PROVE  FlagsAreRight(p, Cardinality(S), Limit, size = 0)
<1> DEFINE c == Cardinality(S)
           m == PageLen(start, c)
           o == p.offset
           w == Limit
           per == IF size = 0 THEN m ELSE size
<1>1. w \in Nat /\ w \in Int /\ w > 0 /\ (size # 0 => w = size)
  BY LimitIsNat
<1>2. c \in Nat /\ start \in Nat /\ start <= c
  BY PodsAreFinite
<1>3. m = IF w < c - start THEN w ELSE c - start
  BY DEF PageLen
<1>4. /\ p.start = start /\ o = start + m /\ o \in start..c
      /\ p.hasPre = (PageNo(o, per) > 1) /\ p.hasNext = (PageNo(o, per) < PageNo(c, per))
  BY RetrieveIs
<1>5. PICK j \in Nat : start = j * w \/ c - start = j * w
  BY DEF Aligned
<1>6. size # 0 /\ start # 0 => start < c
  OBVIOUS
<1>7. Aligned(o, c, w) = \E i \in Nat : o = i * w \/ c - o = i * w
  BY DEF Aligned
<1> HIDE DEF m, c, o, w
<1>8. j * w \in Int /\ j * w >= 0
  BY <1>1, TimesIsNat
<1>9. CASE o = c
  <2>1. ~ p.hasNext
    <3>1. PageNo(o, per) = PageNo(c, per)
      BY <1>9
    <3>2. ~ (PageNo(o, per) < PageNo(c, per))
      <4>1. PageNo(c, per) \in Int
        <5>1. per \in Nat /\ per \in Int
          BY <1>1, <1>2, <1>3
        <5>2. CASE per = 0
          BY <5>2 DEF PageNo
        <5>3. CASE per > 0
          <6>1. PageNo(c, per) \in Nat
            BY <1>2, <5>1, <5>3, PageNoBounds
          <6> QED BY <6>1
        <5> QED BY <5>1, <5>2, <5>3
      <4> QED BY <3>1, <4>1
    <3> QED BY <1>4, <3>2
  <2>2. Aligned(o, c, w)
    <3>1. c - o = 0 * w
      BY <1>1, <1>2, <1>9
    <3> QED BY <1>7, <3>1
  <2>3. ASSUME size # 0, ~ p.hasPre, start # 0
        PROVE  FALSE
    <3>1. per = w
      BY <1>1, <2>3
    <3>2. ~ (PageNo(o, w) > 1) /\ o \in Nat
      BY <1>2, <1>4, <1>9, <2>3, <3>1
    <3>3. o <= w
      BY <1>1, <3>2, OnePage
    <3>4. start < c /\ start > 0 /\ c <= w
      BY <1>2, <1>6, <1>9, <2>3, <3>3
    <3>5. j > 0
      <4>1. j = 0 => j * w = 0
        BY <1>1
      <4> QED BY <1>2, <1>5, <3>4, <4>1
    <3>6. w <= j * w
      <4>1. 0 * w + w <= j * w
        BY <1>1, <3>5, TimesGrows
      <4> QED BY <1>1, <1>8, <4>1
    <3> QED BY <1>1, <1>2, <1>5, <1>8, <3>4, <3>6
  <2> QED BY <1>4, <1>9, <2>1, <2>2, <2>3 DEF FlagsAreRight, c, o, w
<1>10. CASE o < c
  <2>1. m = w /\ o = start + w /\ start < c
    BY <1>1, <1>2, <1>3, <1>4, <1>10
  <2>2. per = w
    BY <1>1, <2>1
  <2>3. Aligned(o, c, w)
    <3>1. CASE start = j * w
      <4>1. o = (j + 1) * w
        <5>1. (j + 1) * w = j * w + w
          BY <1>1, <1>8
        <5> QED BY <2>1, <3>1, <5>1
      <4> QED BY <1>7, <4>1
    <3>2. CASE c - start = j * w
      <4>1. j - 1 \in Nat
        <5>1. j = 0 => j * w = 0
          BY <1>1
        <5> QED BY <1>2, <2>1, <3>2, <5>1
      <4>2. c - o = (j - 1) * w
        <5>1. (j - 1) * w = j * w - w
          BY <1>1, <1>8
        <5> QED BY <1>1, <1>2, <2>1, <3>2, <5>1
      <4> QED BY <1>7, <4>1, <4>2
    <3> QED BY <1>5, <3>1, <3>2
  <2>4. p.hasNext
    <3>1. o \in Nat
      BY <1>2, <1>4
    <3>2. PageNo(o, w) < PageNo(c, w)
      BY <1>1, <1>2, <1>10, <2>3, <3>1, PagesBefore
    <3> QED BY <1>4, <2>2, <3>2
  <2>5. ASSUME size # 0, ~ p.hasPre
        PROVE  start = 0
    <3>1. ~ (PageNo(o, w) > 1) /\ o \in Nat
      <4>1. ~ (PageNo(o, per) > 1)
        BY <1>4, <2>5
      <4> HIDE DEF per
      <4> QED BY <1>2, <1>4, <2>2, <4>1
    <3>2. o <= w
      BY <1>1, <3>1, OnePage
    <3> QED BY <1>1, <1>2, <2>1, <3>2
  <2>6. o # c
    BY <1>2, <1>4, <1>10
  <2> QED BY <1>4, <2>3, <2>4, <2>5, <2>6 DEF FlagsAreRight, c, o, w
<1> QED BY <1>2, <1>4, <1>9, <1>10

-----------------------------------------------------------------------------
(* The menu.  The invariant and its steps.                                 *)

MenuInv ==
    /\ MenuTypeOK /\ AtFirst \subseteq stored
    /\ PageIsPiece(page, Matching(key), stored = AtFirst)
    /\ ~ resized /\ stored = AtFirst =>
          FlagsAreRight(page, Cardinality(Matching(key)), Limit, size = 0)

\* What a search finds is among the pods, and finitely many.
LEMMA MatchingType ==
    ASSUME NEW k \in Keys, stored \subseteq Pods
    PROVE  /\ Matching(k) \subseteq Pods /\ Cardinality(Matching(k)) \in 0..Cardinality(Pods)
           /\ Cardinality(Matching(k)) \in Nat /\ Cardinality(Pods) \in Nat
<1>1. Matching(k) \subseteq Pods
  BY DEF Matching
<1> QED BY <1>1, PodsAreFinite

\* A step that leaves page, store and window alone keeps the invariant, if it keeps the
\* types of the rest.
LEMMA PageStays ==
    ASSUME MenuInv, UNCHANGED <<size, stored, page, key, resized>>,
           mode' \in Live \cup {"quit", "refresh", "panic"}, loader' \in {"run", "end"},
           initialed' \in BOOLEAN, found' \in Results, shown' \in Seq(Pods)
    PROVE  MenuInv'
<1>1. MenuTypeOK'
  BY DEF MenuInv, MenuTypeOK, Live
<1>2. Limit' = Limit /\ (size = 0)' = (size = 0) /\ Matching(key)' = Matching(key)
  BY DEF Limit, Matching
<1> QED BY <1>1, <1>2 DEF MenuInv

\* So does one that gives the page other rows of the same pods.
LEMMA RowsStep ==
    ASSUME MenuInv, UNCHANGED <<size, stored, key, resized>>, NEW list \in Results,
           page' = [page EXCEPT !.rows = list],
           Nil \in Range(list) \/ (list = <<>> /\ page.rows = <<>>)
             \/ (Nil \notin Range(page.rows) /\ page.rows # <<>> /\ list \in Arranged(Range(page.rows)))
             \/ (list = <<>> /\ stored = {}),
           mode' \in Live \cup {"quit", "refresh", "panic"}, loader' \in {"run", "end"},
           initialed' \in BOOLEAN, found' \in Results, shown' \in Seq(Pods)
    PROVE  MenuInv'
<1> DEFINE S == Matching(key)
           p == page'
           old == stored = AtFirst
<1>1. /\ page \in MenuPages /\ PageIsPiece(page, S, old) /\ key \in Keys /\ stored \subseteq Pods
      /\ AtFirst \subseteq stored
  BY DEF MenuInv, MenuTypeOK, PageIsPiece
<1>2. /\ p \in MenuPages /\ p.rows = list /\ p.start = page.start /\ p.offset = page.offset
      /\ p.hasPre = page.hasPre /\ p.hasNext = page.hasNext
  BY <1>1 DEF MenuPages
<1>3. Limit' = Limit /\ (size = 0)' = (size = 0) /\ Matching(key)' = S /\ (stored = AtFirst)' = old
  BY DEF Limit, Matching
<1>4. MenuTypeOK'
  BY <1>2 DEF MenuInv, MenuTypeOK, MenuPages, Live
<1>5. ~ resized' /\ (stored = AtFirst)' => FlagsAreRight(p, Cardinality(S), Limit, size = 0)
  BY <1>2 DEF MenuInv, FlagsAreRight
<1>6. PageIsPiece(p, S, old)
  <2>1. CASE Nil \in Range(list)
    <3> HIDE DEF S, p, old
    <3> QED BY <1>1, <1>2, <2>1 DEF PageIsPiece
  <2>2. CASE list = <<>> /\ page.rows = <<>>
    <3> HIDE DEF S, p, old
    <3>1. p.rows = page.rows
      BY <1>2, <2>2
    <3> QED BY <1>1, <1>2, <3>1 DEF PageIsPiece
  <2>3. CASE Nil \notin Range(page.rows) /\ page.rows # <<>> /\ list \in Arranged(Range(page.rows))
    <3>1. page.start >= 0 /\ page.start # -1
      <4>1. page.start # -1
        BY <1>1, <2>3 DEF PageIsPiece
      <4>2. page.start \in -1..Cardinality(Pods) /\ Cardinality(Pods) \in Nat
        BY <1>1, PodsAreFinite DEF MenuPages
      <4> QED BY <4>1, <4>2
    <3> DEFINE rows == page.rows
               R == Range(rows)
    <3>2. /\ IsInjective(rows) /\ R \subseteq S /\ Len(rows) = page.offset - page.start
          /\ old => \E l \in Arranged(R) : InPlace(l, page.start, S)
      BY <1>1, <2>3, <3>1 DEF PageIsPiece
    <3>3. R \subseteq Pods /\ IsFiniteSet(R)
      <4>1. S \subseteq Pods
        BY <1>1, MatchingType
      <4>2. R \subseteq Pods
        BY <3>2, <4>1
      <4> QED BY <4>2, PodsAreFinite
    <3>4. Len(rows) = Cardinality(R)
      <4>1. rows \in Seq(Pods \cup {Nil})
        BY <1>1 DEF MenuPages, Results
      <4>2. Len(rows) \in Nat /\ rows \in [1..Len(rows) -> Pods \cup {Nil}]
        BY <4>1
      <4> HIDE DEF rows
      <4> QED BY <3>2, <4>2, ListIsArranged DEF R
    <3>5. Range(list) = R /\ IsInjective(list) /\ Len(list) = Cardinality(R)
      <4>1. list \in Arranged(R)
        BY <2>3
      <4> HIDE DEF R
      <4> QED BY <3>3, <4>1, ArrangedHasAll
    <3> HIDE DEF S, p, old, R, rows
    <3> QED BY <1>1, <1>2, <3>1, <3>2, <3>4, <3>5 DEF PageIsPiece
  <2>4. CASE list = <<>> /\ stored = {}
    <3>1. S = {} /\ Cardinality(S) = 0
      BY <2>4, FS_EmptySet DEF Matching
    <3> HIDE DEF S, p, old
    <3>2. p.start \in -1..Cardinality(Pods) /\ p.offset \in 0..Cardinality(Pods) /\ p.offset <= 0
          /\ Cardinality(Pods) \in Nat /\ p.start <= p.offset
      BY <1>1, <1>2, <3>1, PodsAreFinite DEF PageIsPiece, MenuPages
    <3>3. p.start >= 0 => p.offset - p.start = 0
      BY <3>2
    <3> DEFINE e == <<>>
    <3>4. Range(e) = {} /\ IsInjective(e) /\ Len(e) = 0
      BY DEF Range, IsInjective
    <3>5. e \in Arranged({}) /\ InPlace(e, p.start, S)
      <4>1. Cardinality({}) = 0
        BY FS_EmptySet
      <4>2. e \in [1..0 -> {}]
        OBVIOUS
      <4>3. InPlace(e, p.start, S)
        BY DEF InPlace
      <4> HIDE DEF e
      <4> QED BY <3>4, <4>1, <4>2, <4>3 DEF Arranged
    <3>6. p.rows = e
      BY <1>2, <2>4
    <3> HIDE DEF e
    <3>7. p.rows = <<>>
      BY <1>2, <2>4
    <3> QED BY <1>1, <1>2, <3>1, <3>3, <3>4, <3>5, <3>6, <3>7 DEF PageIsPiece
  <2> QED BY <2>1, <2>2, <2>3, <2>4
<1> QED BY <1>1, <1>3, <1>4, <1>5, <1>6 DEF MenuInv

\* A step that retrieves a page.
LEMMA RetrieveStep ==
    ASSUME MenuInv, NEW k \in Keys, NEW start \in 0..Cardinality(Matching(k)), NEW next \in Live,
           Retrieve(start, k, next), key' = k,
           ~ resized /\ stored = AtFirst =>
               /\ Aligned(start, Cardinality(Matching(k)), Limit)
               /\ size # 0 /\ start # 0 => start < Cardinality(Matching(k)),
           found' = found \/ found' = page'.rows, shown' = shown,
           loader' \in {"run", "end"}, initialed' \in BOOLEAN, size' = size, resized' = resized
    PROVE  MenuInv'
<1>1. /\ size \in Sizes /\ stored \subseteq Pods /\ resized \in BOOLEAN /\ found \in Results
      /\ shown \in Seq(Pods) /\ AtFirst \subseteq stored
  BY DEF MenuInv, MenuTypeOK
<1>2. PICK new \in SUBSET (Pods \ stored) :
          /\ stored' = stored \cup new /\ mode' = next
          /\ \E list \in RowsOf(Finds[k] \cap stored', start) :
                page' = PageOf(list, start, Cardinality(Matching(k)))
  BY DEF Retrieve
<1> DEFINE T == Finds[k] \cap stored'
           c == Cardinality(Matching(k))
<1>3. PICK list \in RowsOf(T, start) : page' = PageOf(list, start, c)
  BY <1>2
<1>4. stored' \subseteq Pods /\ T \subseteq Pods /\ Matching(k) \subseteq T /\ AtFirst \subseteq stored'
  BY <1>1, <1>2 DEF Matching
<1>5. c \in Nat /\ Cardinality(T) \in Nat /\ c <= Cardinality(T)
  <2>1. IsFiniteSet(T) /\ Cardinality(T) \in Nat
    BY <1>4, PodsAreFinite
  <2>2. c \in Nat
    BY <1>1, MatchingType
  <2>3. c <= Cardinality(T)
    BY <1>4, <2>1, FS_Subset
  <2> QED BY <2>1, <2>2, <2>3
<1>6. start \in 0..Cardinality(T)
  BY <1>5
<1>7. stored' = AtFirst => stored = AtFirst /\ T = Matching(k)
  BY <1>1, <1>2 DEF Matching
<1>8. Matching(key)' = T /\ Limit' = Limit /\ (size = 0)' = (size = 0)
  BY DEF Matching, Limit
<1>9. key' \in Keys /\ mode' \in Live
  BY <1>2
<1> HIDE DEF T
<1> DEFINE old == stored' = AtFirst
           p == page'
<1>10. PageIsPiece(p, T, old)
  <2>1. p = PageOf(list, start, c)
    BY <1>3
  <2> HIDE DEF p, old, c
  <2> QED BY <1>1, <1>4, <1>6, <2>1, RetrieveIs
<1>11. ASSUME ~ resized, stored' = AtFirst
       PROVE  FlagsAreRight(p, Cardinality(T), Limit, size = 0)
  <2>1. T = Matching(k) /\ stored = AtFirst
    BY <1>7, <1>11
  <2>2. p = PageOf(list, start, Cardinality(T))
    BY <1>3, <2>1
  <2>3. Aligned(start, Cardinality(T), Limit) /\ (size # 0 /\ start # 0 => start < Cardinality(T))
    BY <1>11, <2>1
  <2> HIDE DEF p
  <2> QED BY <1>1, <1>4, <1>6, <2>2, <2>3, RetrieveFlags
<1>12. p \in MenuPages
  BY <1>10 DEF PageIsPiece
<1>13. MenuTypeOK'
  <2>1. p.rows \in Results
    BY <1>12 DEF MenuPages
  <2> QED BY <1>1, <1>4, <1>9, <1>12, <2>1 DEF MenuTypeOK, MenuPages, MenuInv
<1> QED BY <1>4, <1>8, <1>10, <1>11, <1>13 DEF MenuInv

\* A line leaves these alone.
Rest == loader' = loader /\ initialed' \in BOOLEAN /\ size' = size /\ shown' = shown /\ resized' = resized

\* A query that fails leaves the page alone.
LEMMA FailStep ==
    ASSUME MenuInv, RetrieveFails, Rest
    PROVE  MenuInv'
<1>1. loader \in {"run", "end"} /\ found \in Results /\ shown \in Seq(Pods)
  BY DEF MenuInv, MenuTypeOK
<1>2. /\ mode' = "panic" /\ UNCHANGED <<size, stored, page, key, resized>> /\ found' = found
      /\ loader' = loader /\ initialed' \in BOOLEAN /\ shown' = shown
  BY DEF RetrieveFails, Rest
<1> QED BY <1>1, <1>2, PageStays

\* Turning the page to an offset of the search.
LEMMA TurnStep ==
    ASSUME MenuInv, NEW there \in BOOLEAN, NEW start, Turn(there, start), Rest,
           there => start \in 0..Cardinality(Matching(key)),
           there /\ ~ resized /\ stored = AtFirst =>
               /\ Aligned(start, Cardinality(Matching(key)), Limit)
               /\ size # 0 /\ start # 0 => start < Cardinality(Matching(key))
    PROVE  MenuInv'
<1>1. /\ key \in Keys /\ loader \in {"run", "end"} /\ found \in Results /\ shown \in Seq(Pods)
      /\ "display" \in Live
  BY DEF MenuInv, MenuTypeOK, Live
<1>2. /\ loader' = loader /\ initialed' \in BOOLEAN /\ size' = size /\ shown' = shown
      /\ resized' = resized
  BY DEF Rest
<1>3. CASE there /\ Retrieve(start, key, "display") /\ UNCHANGED <<key, found>>
  BY <1>1, <1>2, <1>3, RetrieveStep
<1>4. CASE RetrieveFails
  BY <1>4, FailStep
<1>5. CASE mode' = "display" /\ UNCHANGED <<stored, page, found, key>>
  BY <1>1, <1>2, <1>5, PageStays
<1> QED BY <1>3, <1>4, <1>5 DEF Turn

\* Turning it forward goes on at the offset.
LEMMA MoveNextStep ==
    ASSUME MenuInv, MoveNextPage, Rest
    PROVE  MenuInv'
<1> DEFINE c == Cardinality(Matching(key))
<1>1. key \in Keys /\ stored \subseteq Pods /\ page \in MenuPages
      /\ PageIsPiece(page, Matching(key), stored = AtFirst)
  BY DEF MenuInv, MenuTypeOK, PageIsPiece
<1>2. c \in Nat /\ Cardinality(Pods) \in Nat
  BY <1>1, MatchingType
<1>3. page.hasNext \in BOOLEAN /\ page.start \in -1..Cardinality(Pods) /\ page.offset <= c
      /\ page.offset \in 0..Cardinality(Pods)
  BY <1>1 DEF PageIsPiece, MenuPages
<1>4. page.offset \in 0..c
  BY <1>2, <1>3
<1>5. ASSUME page.hasNext, ~ resized, stored = AtFirst
      PROVE  Aligned(page.offset, c, Limit) /\ page.offset < c
  <2>1. page.start >= 0
    BY <1>1, <1>2, <1>3, <1>5 DEF PageIsPiece
  <2>2. FlagsAreRight(page, c, Limit, size = 0)
    BY <1>5 DEF MenuInv
  <2>3. Aligned(page.offset, c, Limit) /\ page.offset # c
    BY <1>5, <2>1, <2>2 DEF FlagsAreRight
  <2> QED BY <1>2, <1>4, <2>3
<1>6. Turn(page.hasNext, page.offset)
  BY DEF MoveNextPage
<1> QED BY <1>3, <1>4, <1>5, <1>6, TurnStep

\* Turning it back goes to two pages before the offset, or to the first page.
LEMMA MovePreStep ==
    ASSUME MenuInv, MovePrePage, Rest
    PROVE  MenuInv'
<1> DEFINE start == PageBefore
           w == Limit
           c == Cardinality(Matching(key))
           o == page.offset
<1>1. key \in Keys /\ size \in Sizes /\ stored \subseteq Pods /\ page \in MenuPages
      /\ PageIsPiece(page, Matching(key), stored = AtFirst)
  BY DEF MenuInv, MenuTypeOK, PageIsPiece
<1>2. c \in Nat /\ Cardinality(Pods) \in Nat
  BY <1>1, MatchingType
<1>3. page.hasPre \in BOOLEAN /\ page.start \in -1..Cardinality(Pods) /\ o <= c
      /\ o \in 0..Cardinality(Pods)
  BY <1>1 DEF PageIsPiece, MenuPages
<1>4. w \in Nat /\ w \in Int /\ w > 0 /\ size \in Nat /\ (size # 0 => w = size)
  BY <1>1, LimitIsNat
<1>5. start = IF o - 2 * size < 0 THEN 0 ELSE o - 2 * size
  BY DEF PageBefore
<1>6. start \in 0..c /\ (size # 0 /\ start # 0 => start < c)
  <2> HIDE DEF start, w, c, o
  <2> QED BY <1>2, <1>3, <1>4, <1>5
<1>7. ASSUME page.hasPre, ~ resized, stored = AtFirst
      PROVE  Aligned(start, c, w)
  <2>1. page.start >= 0
    BY <1>1, <1>2, <1>3, <1>7 DEF PageIsPiece
  <2>2. FlagsAreRight(page, c, w, size = 0)
    BY <1>7 DEF MenuInv
  <2>3. Aligned(o, c, w)
    BY <2>1, <2>2 DEF FlagsAreRight
  <2>4. PICK m \in Nat : o = m * w \/ c - o = m * w
    BY <2>3 DEF Aligned
  <2>5. Aligned(start, c, w) = \E i \in Nat : start = i * w \/ c - start = i * w
    BY DEF Aligned
  <2>6. o \in Nat
    BY <1>2, <1>3
  <2> HIDE DEF c, w, o, start
  <2>7. m * w \in Int /\ m * w >= 0
    BY <1>4, TimesIsNat
  <2>8. CASE size = 0
    <3>1. start = o
      BY <1>4, <1>5, <2>6, <2>8
    <3> QED BY <2>4, <2>5, <3>1
  <2>9. CASE size # 0 /\ o - 2 * size < 0
    <3>1. start = 0 /\ start = 0 * w
      BY <1>4, <1>5, <2>6, <2>9
    <3> QED BY <2>5, <3>1
  <2>10. CASE size # 0 /\ ~ (o - 2 * size < 0)
    <3>1. start = o - 2 * w
      BY <1>4, <1>5, <2>6, <2>10
    <3>2. (m - 2) * w = m * w - 2 * w /\ (m + 2) * w = m * w + 2 * w
      BY <1>4, <2>7
    <3>3. o - 2 * w >= 0
      BY <1>4, <2>6, <2>10
    <3>4. CASE o = m * w
      <4>1. m - 2 \in Nat
        <5>1. m - 2 < 0 => (m - 2) * w + w <= 0 * w
          BY <1>4, TimesGrows
        <5>2. m - 2 \in Int
          OBVIOUS
        <5> QED BY <1>4, <2>7, <3>2, <3>3, <3>4, <5>1, <5>2
      <4>2. start = (m - 2) * w
        BY <3>1, <3>2, <3>4
      <4> QED BY <2>5, <4>1, <4>2
    <3>5. CASE c - o = m * w
      <4>1. c - start = (m + 2) * w
        BY <1>2, <1>4, <2>6, <2>7, <3>1, <3>2, <3>5
      <4> QED BY <2>5, <4>1
    <3> QED BY <2>4, <3>4, <3>5
  <2> QED BY <2>8, <2>9, <2>10
<1>8. Turn(page.hasPre, start)
  BY DEF MovePrePage
<1> HIDE DEF start
<1> QED BY <1>3, <1>6, <1>7, <1>8, TurnStep DEF w, c

\* A search starts at the first page.
LEMMA FirstIsAligned ==
    ASSUME NEW k \in Keys, size \in Sizes, stored \subseteq Pods
    PROVE  0 \in 0..Cardinality(Matching(k)) /\ Aligned(0, Cardinality(Matching(k)), Limit)
<1> DEFINE w == Limit
           c == Cardinality(Matching(k))
<1>1. w \in Int /\ w > 0
  BY LimitIsNat
<1>2. c \in Nat
  BY MatchingType
<1> HIDE DEF w, c
<1>3. 0 = 0 * w
  BY <1>1
<1>4. 0 \in 0..c /\ Aligned(0, c, w)
  BY <1>2, <1>3 DEF Aligned
<1> QED BY <1>4 DEF w, c

\* The first page of a search comes in.
LEMMA FirstStep ==
    ASSUME MenuInv, NEW k \in Keys, NEW next \in Live, Retrieve(0, k, next), key' = k,
           found' = found \/ found' = page'.rows, Rest
    PROVE  MenuInv'
<1>1. size \in Sizes /\ stored \subseteq Pods /\ loader \in {"run", "end"}
  BY DEF MenuInv, MenuTypeOK
<1>2. 0 \in 0..Cardinality(Matching(k)) /\ Aligned(0, Cardinality(Matching(k)), Limit)
  BY <1>1, FirstIsAligned
<1>3. /\ loader' \in {"run", "end"} /\ initialed' \in BOOLEAN /\ size' = size /\ shown' = shown
      /\ resized' = resized
  BY <1>1 DEF Rest
<1>4. ~ resized /\ stored = AtFirst =>
          /\ Aligned(0, Cardinality(Matching(k)), Limit)
          /\ size # 0 /\ 0 # 0 => 0 < Cardinality(Matching(k))
  BY <1>2
<1> QED BY <1>2, <1>3, <1>4, RetrieveStep

\* A search is that, or fails.
LEMMA NewSearchStep ==
    ASSUME MenuInv, NEW k \in Keys, Search(k), Rest
    PROVE  MenuInv'
<1>1. CASE Retrieve(0, k, "display") /\ key' = k /\ UNCHANGED found
  <2>1. "display" \in Live
    BY DEF Live
  <2> QED BY <1>1, <2>1, FirstStep
<1>2. CASE RetrieveFails
  BY <1>2, FailStep
<1> QED BY <1>1, <1>2 DEF Search

\* So is a name.
LEMMA NameStep ==
    ASSUME MenuInv, Name
    PROVE  MenuInv'
<1>1. Rest
  BY DEF Name, Line, Rest
<1>2. CASE RetrieveFails
  BY <1>1, <1>2, FailStep
<1>3. ASSUME NEW k \in Keys, Retrieve(0, k, "choose"), key' = k, found' = page'.rows
      PROVE  MenuInv'
  <2>1. "choose" \in Live
    BY DEF Live
  <2> QED BY <1>1, <1>3, <2>1, FirstStep
<1>4. CASE \E k \in Keys \ {NoKey} : Retrieve(0, k, "choose") /\ key' = k /\ found' = page'.rows
  <2>1. PICK k \in Keys : Retrieve(0, k, "choose") /\ key' = k /\ found' = page'.rows
    BY <1>4
  <2> QED BY <1>3, <2>1
<1> QED BY <1>2, <1>4 DEF Name

\* The loader's nil assets stand for no pod of the search.
LEMMA LoadStep ==
    ASSUME MenuInv, Load
    PROVE  MenuInv'
<1>1. /\ loader' = "end" /\ UNCHANGED <<mode, initialed, size, stored, found, key, shown, resized>>
  BY DEF Load
<1>2. /\ size \in Sizes /\ stored \subseteq Pods /\ mode \in Live \cup {"quit", "refresh", "panic"}
      /\ initialed \in BOOLEAN /\ found \in Results /\ shown \in Seq(Pods)
  BY DEF MenuInv, MenuTypeOK
<1>3. CASE page' = page
  BY <1>1, <1>2, <1>3, PageStays
<1> DEFINE c == Cardinality(stored)
           w == Limit
           n == IF w < c THEN w ELSE c
           t == [i \in 1..n |-> Nil]
<1>4. CASE page' = [page EXCEPT !.rows = t]
  <2>1. c \in Nat /\ w \in Nat /\ w > 0
    BY <1>2, PodsAreFinite, LimitIsNat
  <2>2. n \in Nat /\ (n = 0 => c = 0)
    <3> HIDE DEF c, w
    <3> QED BY <2>1
  <2>3. n = 0 => stored = {}
    <3>1. IsFiniteSet(stored)
      BY <1>2, PodsAreFinite
    <3> QED BY <2>2, <3>1, FS_EmptySet
  <2> HIDE DEF n
  <2>4. t \in Seq(Pods \cup {Nil}) /\ t \in Results
    BY <2>2 DEF Results
  <2>5. n = 0 => t = <<>>
    BY <2>2
  <2>6. n # 0 => Nil \in Range(t)
    <3> HAVE n # 0
    <3>1. 1 \in 1..n
      BY <2>2
    <3>2. 1 \in DOMAIN t /\ t[1] = Nil
      BY <3>1
    <3> HIDE DEF t
    <3> QED BY <3>2 DEF Range
  <2> HIDE DEF t
  <2>7. Nil \in Range(t) \/ (t = <<>> /\ stored = {})
    BY <2>3, <2>5, <2>6
  <2>8. loader' \in {"run", "end"}
    BY <1>1
  <2> QED BY <1>1, <1>2, <1>4, <2>4, <2>7, <2>8, RowsStep
<1> QED BY <1>3, <1>4 DEF Load

\* Displaying the page sorts its rows.
LEMMA DisplayStep ==
    ASSUME MenuInv, Display
    PROVE  MenuInv'
<1>1. UNCHANGED <<loader, initialed, size, stored, found, key, resized>>
  BY DEF Display
<1>2. /\ loader \in {"run", "end"} /\ initialed \in BOOLEAN /\ found \in Results /\ shown \in Seq(Pods)
      /\ page \in MenuPages /\ key \in Keys /\ stored \subseteq Pods
  BY DEF MenuInv, MenuTypeOK, PageIsPiece
<1>3. "panic" \in Live \cup {"panic"} /\ "menu" \in Live
  BY DEF Live
<1>4. CASE mode' \in {"panic", "menu"} /\ UNCHANGED <<page, shown>>
  BY <1>1, <1>2, <1>3, <1>4, PageStays
<1>5. ASSUME Nil \notin Range(page.rows), page.rows # <<>>, mode' = "menu",
             NEW list \in Arranged(Range(page.rows)),
             page' = [page EXCEPT !.rows = list], shown' = list
      PROVE  MenuInv'
  <2> DEFINE R == Range(page.rows)
  <2>1. R \subseteq Pods /\ IsFiniteSet(R)
    <3>1. page.rows \in Seq(Pods \cup {Nil})
      BY <1>2 DEF MenuPages, Results
    <3>2. R \subseteq Pods \cup {Nil}
      <4> DEFINE s == page.rows
      <4>1. s \in Seq(Pods \cup {Nil})
        BY <3>1
      <4> HIDE DEF s
      <4>2. Range(s) \subseteq Pods \cup {Nil}
        BY <4>1 DEF Range
      <4> QED BY <4>2 DEF s
    <3>3. R \subseteq Pods
      BY <1>5, <3>2
    <3> QED BY <3>3, PodsAreFinite
  <2>2. list \in Seq(R)
    <3>1. list \in Arranged(R)
      BY <1>5
    <3> HIDE DEF R
    <3> QED BY <2>1, <3>1, ArrangedHasAll
  <2>3. list \in Seq(Pods) /\ list \in Results
    <3> HIDE DEF R
    <3>1. list \in [1..Len(list) -> R] /\ Len(list) \in Nat
      BY <2>2
    <3>2. list \in [1..Len(list) -> Pods] /\ list \in [1..Len(list) -> Pods \cup {Nil}]
      BY <2>1, <3>1
    <3>3. list \in Seq(Pods) /\ list \in Seq(Pods \cup {Nil})
      BY <3>1, <3>2
    <3> QED BY <3>3 DEF Results
  <2>4. mode' \in Live \cup {"quit", "refresh", "panic"} /\ shown' \in Seq(Pods)
    BY <1>3, <1>5, <2>3
  <2> HIDE DEF R
  <2> QED BY <1>1, <1>2, <1>5, <2>3, <2>4, RowsStep
<1> QED BY <1>4, <1>5 DEF Display

\* A row more in the store leaves the page as it is.
LEMMA SyncStep ==
    ASSUME MenuInv, Sync
    PROVE  MenuInv'
<1>1. UNCHANGED <<mode, loader, initialed, size, page, found, key, shown, resized>>
  BY DEF Sync
<1>2. PICK pod \in Pods \ stored : stored' = stored \cup {pod}
  BY DEF Sync
<1>3. /\ MenuTypeOK /\ key \in Keys /\ stored \subseteq Pods /\ AtFirst \subseteq stored
      /\ PageIsPiece(page, Matching(key), stored = AtFirst)
  BY DEF MenuInv, MenuTypeOK
<1>4. stored' \subseteq Pods /\ AtFirst \subseteq stored' /\ stored' # AtFirst
  BY <1>2, <1>3
<1>5. MenuTypeOK'
  BY <1>1, <1>3, <1>4 DEF MenuTypeOK
<1> DEFINE S == Matching(key)
           T == Finds[key] \cap stored'
<1>6. Matching(key)' = T
  BY <1>1 DEF Matching
<1>7. S \subseteq T /\ Cardinality(S) <= Cardinality(T) /\ Cardinality(S) \in Nat /\ Cardinality(T) \in Nat
  <2>1. S \subseteq T /\ T \subseteq Pods
    BY <1>2, <1>4 DEF Matching
  <2>2. IsFiniteSet(T) /\ Cardinality(T) \in Nat
    BY <2>1, PodsAreFinite
  <2>3. Cardinality(S) \in Nat
    BY <1>3, MatchingType
  <2>4. Cardinality(S) <= Cardinality(T)
    BY <2>1, <2>2, FS_Subset
  <2> QED BY <2>1, <2>2, <2>3, <2>4
<1> HIDE DEF S, T
<1>8. PageIsPiece(page, T, FALSE)
  <2>1. PageIsPiece(page, S, stored = AtFirst)
    BY <1>3 DEF S
  <2>2. page.offset <= Cardinality(S) /\ page.offset \in 0..Cardinality(Pods)
    BY <2>1 DEF PageIsPiece, MenuPages
  <2>3. page.offset <= Cardinality(T)
    <3>1. Cardinality(Pods) \in Nat /\ page.offset \in Int
      BY <2>2, PodsAreFinite
    <3> QED BY <1>7, <2>2, <3>1
  <2> QED BY <1>7, <2>1, <2>3 DEF PageIsPiece
<1> QED BY <1>1, <1>4, <1>5, <1>6, <1>8 DEF MenuInv

\* The menu starts without a page.
LEMMA MenuInitInv == MenuInit => MenuInv
<1> SUFFICES ASSUME MenuInit PROVE MenuInv
  OBVIOUS
<1>1. page = NoPage /\ key = NoKey /\ shown = <<>> /\ ~ resized /\ stored = AtFirst /\ found = <<>>
  BY DEF MenuInit
<1>2. /\ page.rows = <<>> /\ page.start = -1 /\ page.offset = 0
      /\ page.hasPre = FALSE /\ page.hasNext = FALSE
  BY <1>1 DEF NoPage
<1>3. Cardinality(Pods) \in Nat /\ AtFirst \subseteq Pods /\ NoKey \in Keys
  BY PodsAreFinite, MenuAssumption
<1>4. <<>> \in Results /\ -1 \in -1..Cardinality(Pods) /\ 0 \in 0..Cardinality(Pods) /\ <<>> \in Seq(Pods)
  BY <1>3 DEF Results
<1>5. page \in MenuPages
  BY <1>1, <1>4 DEF NoPage, MenuPages
<1>6. Cardinality(Matching(key)) \in Nat
  BY <1>1, <1>3, MatchingType
<1>7. MenuTypeOK
  BY <1>1, <1>3, <1>4, <1>5 DEF MenuInit, MenuTypeOK, MenuPages, Live
<1>8. PageIsPiece(page, Matching(key), stored = AtFirst)
  <2>1. -1 <= 0 /\ 0 <= Cardinality(Matching(key)) /\ ~ (-1 >= 0)
    BY <1>6
  <2> QED BY <1>2, <1>5, <2>1 DEF PageIsPiece
<1>9. FlagsAreRight(page, Cardinality(Matching(key)), Limit, size = 0)
  BY <1>2 DEF FlagsAreRight
<1> QED BY <1>1, <1>7, <1>8, <1>9 DEF MenuInv

\* Every step keeps the invariant.
LEMMA MenuStep == MenuInv /\ [MenuNext]_menuVars => MenuInv'
<1> SUFFICES ASSUME MenuInv, [MenuNext]_menuVars PROVE MenuInv'
  OBVIOUS
<1>0. /\ mode \in Live \cup {"quit", "refresh", "panic"} /\ loader \in {"run", "end"}
      /\ initialed \in BOOLEAN /\ size \in Sizes /\ shown \in Seq(Pods) /\ key \in Keys
      /\ found \in Results /\ <<>> \in Seq(Pods) /\ <<>> \in Results
      /\ {"menu", "display", "proxy", "quit", "refresh", "panic"} \subseteq Live \cup {"quit", "refresh", "panic"}
  BY DEF MenuInv, MenuTypeOK, Live, Results
<1>1. ASSUME Line
      PROVE  Rest
  BY <1>1 DEF Line, Rest
<1>2. CASE Enter
  <2>1. CASE initialed
    BY <1>1, <1>2, <2>1, MoveNextStep DEF Enter
  <2>2. CASE ~ initialed
    BY <1>1, <1>2, <2>2, NewSearchStep, MenuAssumption DEF Enter
  <2> QED BY <2>1, <2>2
<1>3. CASE PageDown
  BY <1>1, <1>3, MoveNextStep DEF PageDown
<1>4. CASE PageUp
  BY <1>1, <1>4, MovePreStep DEF PageUp
<1>5. CASE Slash
  BY <1>1, <1>5, NewSearchStep DEF Slash
<1>6. CASE Help
  BY <1>0, <1>6, PageStays DEF Help
<1>7. CASE Quit
  BY <1>0, <1>7, PageStays DEF Quit
<1>8. CASE Refresh
  BY <1>0, <1>8, PageStays DEF Refresh
<1>9. CASE Number
  <2>1. mode' \in {"menu", "proxy", "panic"}
    BY <1>9 DEF Number, Proxy
  <2>2. Rest /\ UNCHANGED <<stored, page, found, key>>
    BY <1>1, <1>9 DEF Number
  <2> QED BY <1>0, <2>1, <2>2, PageStays DEF Rest
<1>10. CASE Name
  BY <1>10, NameStep
<1>11. CASE Choose
  <2>1. mode' \in {"menu", "display", "proxy", "panic"}
    BY <1>11 DEF Choose, Proxy
  <2>2. /\ UNCHANGED <<loader, initialed, size, stored, page, key, shown, resized>> /\ found' = <<>>
    BY <1>11 DEF Choose
  <2> QED BY <1>0, <2>1, <2>2, PageStays
<1>12. CASE Display
  BY <1>12, DisplayStep
<1>13. CASE ProxyEnds
  <2>1. shown' \in Seq(Pods) /\ mode' = "menu"
        /\ UNCHANGED <<loader, initialed, size, stored, page, found, key, resized>>
    BY <1>0, <1>13 DEF ProxyEnds
  <2> QED BY <1>0, <2>1, PageStays
<1>14. CASE Load
  BY <1>14, LoadStep
<1>15. CASE Resize
  <2>1. MenuTypeOK' /\ AtFirst \subseteq stored'
    BY <1>15 DEF Resize, MenuInv, MenuTypeOK
  <2>2. Matching(key)' = Matching(key) /\ resized' = TRUE /\ page' = page /\ stored' = stored
    BY <1>15 DEF Resize, Matching
  <2> QED BY <2>1, <2>2 DEF MenuInv
<1>16. CASE Sync
  BY <1>16, SyncStep
<1>17. CASE UNCHANGED menuVars
  BY <1>0, <1>17, PageStays DEF menuVars
<1> QED BY <1>2, <1>3, <1>4, <1>5, <1>6, <1>7, <1>8, <1>9, <1>10, <1>11, <1>12, <1>13, <1>14,
           <1>15, <1>16, <1>17 DEF MenuNext

\* The invariant holds in every session.
LEMMA MenuInvHolds == MenuSpec => []MenuInv
<1> QED BY MenuInitInv, MenuStep, PTL DEF MenuSpec

\* The menu's state keeps its type: Dispatch, the pageInfo and the loader keep an offset
\* within the pods there are, whatever the user does and the store takes in.
THEOREM MenuTypeCorrect == MenuSpec => []MenuTypeOK
<1>1. MenuInv => MenuTypeOK
  BY DEF MenuInv
<1> QED BY <1>1, MenuInvHolds, PTL

\* The rows in hand are distinct pods that the search in force finds, as many as lie between
\* the page's offsets, and of the clusters that belong there while the store gets no new
\* ones: for every set of pods in any clusters, every page size, every order the database
\* gives the pods of a cluster and every way the user searches and pages.
THEOREM PagesFollowTheSearch == MenuSpec => []PageIsOfSearch
<1>1. MenuInv => PageIsOfSearch
  BY DEF MenuInv, PageIsPiece, PageIsOfSearch
<1> QED BY <1>1, MenuInvHolds, PTL

\* In a window that keeps its size, over a store that gets no new pods, no pod is left where
\* pageInfo says there is no next page, and none comes before where it says there is no page
\* before.
THEOREM FlagsTellWhereTheListEnds == MenuSpec => []FlagsTellTheEnds
<1>1. MenuInv => FlagsTellTheEnds
  BY DEF MenuInv, FlagsAreRight, FlagsTellTheEnds
<1> QED BY <1>1, MenuInvHolds, PTL

\* The list on the screen is that of the page's rows.
Agree == \A i \in DOMAIN shown : i \in DOMAIN page.rows /\ page.rows[i] = shown[i]

\* Where the user reads the list it is, but for the cases NumbersMeanRows names.
ListInv ==
    mode \in {"menu", "proxy"} =>
        Agree \/ Nil \in Range(page.rows) \/ page.rows = <<>> \/ Len(page.rows) = 1

\* What NumbersMeanRows says of a step.
NumbersKept ==
    NumbersAreOfScreen =>
        \/ NumbersAreOfScreen'
        \/ Nil \in Range(page'.rows)
        \/ page'.rows = <<>>
        \/ mode \in {"choose", "proxy"} /\ Len(page'.rows) = 1

\* Every step keeps to it.
LEMMA ListStep ==
    ASSUME MenuInv, ListInv, [MenuNext]_menuVars
    PROVE  ListInv' /\ NumbersKept
<1> DEFINE Kept == ListInv' /\ NumbersKept
<1>0. page \in MenuPages
  BY DEF MenuInv, PageIsPiece
<1>1. ASSUME mode' \notin {"menu", "proxy"}
      PROVE  Kept
  BY <1>1 DEF ListInv, NumbersKept, NumbersAreOfScreen
<1>2. ASSUME Agree'
      PROVE  Kept
  BY <1>2 DEF ListInv, NumbersKept, NumbersAreOfScreen, Agree
<1>3. ASSUME page' = page, shown' = shown, mode = "menu", mode' \in {"menu", "proxy", "panic"}
      PROVE  Kept
  BY <1>3 DEF ListInv, NumbersKept, NumbersAreOfScreen, Agree
<1>4. ASSUME RetrieveFails
      PROVE  Kept
  BY <1>1, <1>4 DEF RetrieveFails
<1>5. ASSUME NEW start, NEW k, NEW next \in {"choose", "display"}, Retrieve(start, k, next)
      PROVE  Kept
  BY <1>1, <1>5 DEF Retrieve
<1>6. ASSUME NEW there, NEW start, Turn(there, start)
      PROVE  Kept
  BY <1>1, <1>4, <1>5, <1>6 DEF Turn
<1>7. ASSUME NEW k, Search(k)
      PROVE  Kept
  BY <1>4, <1>5, <1>7 DEF Search
<1>8. CASE Enter
  BY <1>6, <1>7, <1>8 DEF Enter, MoveNextPage
<1>9. CASE PageDown
  BY <1>6, <1>9 DEF PageDown, MoveNextPage
<1>10. CASE PageUp
  BY <1>6, <1>10 DEF PageUp, MovePrePage
<1>11. CASE Slash
  BY <1>7, <1>11 DEF Slash
<1>12. CASE Help
  <2>1. Agree'
    BY <1>12 DEF Help, Agree
  <2> QED BY <1>2, <2>1
<1>13. CASE Quit
  BY <1>1, <1>13 DEF Quit
<1>14. CASE Refresh
  BY <1>1, <1>14 DEF Refresh
<1>15. CASE Number
  <2>1. page' = page /\ shown' = shown /\ mode = "menu" /\ mode' \in {"menu", "proxy", "panic"}
    BY <1>15 DEF Number, Proxy, Line
  <2> QED BY <1>3, <2>1
<1>16. CASE Name
  BY <1>4, <1>5, <1>16 DEF Name
<1>17. CASE Choose
  <2>1. page' = page /\ mode = "choose"
    BY <1>17 DEF Choose
  <2>2. CASE Len(page.rows) = 1
    <3>1. Kept
      BY <2>1, <2>2 DEF ListInv, NumbersKept
    <3> QED BY <3>1
  <2>3. CASE mode' \in {"display", "panic"}
    BY <1>1, <2>3
  <2> QED BY <1>17, <2>2, <2>3 DEF Choose
<1>18. CASE Display
  <2>1. CASE Nil \in Range(page.rows) /\ mode' = "panic" /\ UNCHANGED <<page, shown>>
    BY <1>1, <2>1
  <2>2. CASE page.rows = <<>> /\ mode' = "menu" /\ UNCHANGED <<page, shown>>
    BY <2>2 DEF ListInv, NumbersKept
  <2>3. ASSUME NEW list, page' = [page EXCEPT !.rows = list], shown' = list
        PROVE  Kept
    <3>1. page'.rows = list
      BY <1>0, <2>3 DEF MenuPages
    <3>2. Agree'
      BY <2>3, <3>1 DEF Agree
    <3> QED BY <1>2, <3>2
  <2> QED BY <1>18, <2>1, <2>2, <2>3 DEF Display
<1>19. CASE ProxyEnds
  <2>1. page' = page /\ mode = "proxy" /\ shown' \in {shown, <<>>}
    BY <1>19 DEF ProxyEnds
  <2>2. CASE shown' = <<>>
    <3>1. Agree'
      BY <2>2 DEF Agree
    <3> QED BY <1>2, <3>1
  <2>3. CASE shown' = shown
    <3>1. CASE Agree
      <4>1. Agree'
        BY <2>1, <2>3, <3>1 DEF Agree
      <4> QED BY <1>2, <4>1
    <3>2. CASE ~ Agree
      <4>1. Nil \in Range(page.rows) \/ page.rows = <<>> \/ Len(page.rows) = 1
        BY <2>1, <3>2 DEF ListInv, NumbersKept
      <4> QED BY <2>1, <4>1 DEF ListInv, NumbersKept
    <3> QED BY <3>1, <3>2
  <2> QED BY <2>1, <2>2, <2>3
<1>20. CASE Load
  <2>1. mode' = mode /\ shown' = shown
    BY <1>20 DEF Load
  <2>2. CASE page' = page
    BY <2>1, <2>2 DEF ListInv, NumbersKept, NumbersAreOfScreen, Agree
  <2> DEFINE n == IF Limit < Cardinality(stored) THEN Limit ELSE Cardinality(stored)
             t == [i \in 1..n |-> Nil]
  <2>3. CASE page' = [page EXCEPT !.rows = t]
    <3>1. n \in Nat
      <4>1. size \in Sizes /\ stored \subseteq Pods
        BY DEF MenuInv, MenuTypeOK
      <4>2. Limit \in Nat /\ Cardinality(stored) \in Nat
        BY <4>1, PodsAreFinite, LimitIsNat
      <4> QED BY <4>2
    <3> HIDE DEF n
    <3>2. CASE n = 0
      <4>1. t = <<>>
        BY <3>2
      <4> HIDE DEF t
      <4>2. page'.rows = <<>>
        BY <1>0, <2>3, <4>1 DEF MenuPages
      <4> QED BY <4>2 DEF ListInv, NumbersKept
    <3>3. CASE n # 0
      <4>1. 1 \in 1..n
        BY <3>1, <3>3
      <4>2. 1 \in DOMAIN t /\ t[1] = Nil
        BY <4>1
      <4> HIDE DEF t
      <4>3. Nil \in Range(t)
        BY <4>2 DEF Range
      <4>4. page'.rows = t
        BY <1>0, <2>3 DEF MenuPages
      <4>5. Nil \in Range(page'.rows)
        BY <4>3, <4>4
      <4> QED BY <4>5 DEF ListInv, NumbersKept
    <3> QED BY <3>2, <3>3
  <2> QED BY <1>20, <2>2, <2>3 DEF Load
<1>21. CASE Resize
  BY <1>21 DEF Resize, ListInv, NumbersKept, NumbersAreOfScreen, Agree
<1>22. CASE Sync
  BY <1>22 DEF Sync, ListInv, NumbersKept, NumbersAreOfScreen, Agree
<1>23. CASE UNCHANGED menuVars
  BY <1>23 DEF menuVars, ListInv, NumbersKept, NumbersAreOfScreen, Agree
<1> QED BY <1>8, <1>9, <1>10, <1>11, <1>12, <1>13, <1>14, <1>15, <1>16, <1>17, <1>18, <1>19,
           <1>20, <1>21, <1>22, <1>23 DEF MenuNext

\* The numbers on the screen come to mean other pods only by the first load, by a search
\* that finds nothing, or by a name whose page is a single pod.
THEOREM NumbersKeepTheirPods == MenuSpec => NumbersMeanRows
<1>1. MenuInit => ListInv
  <2>1. NoPage.rows = <<>>
    BY DEF NoPage
  <2> QED BY <2>1 DEF MenuInit, ListInv
<1>2. MenuInv /\ ListInv /\ [MenuNext]_menuVars => ListInv'
  BY ListStep
<1>3. MenuInv /\ ListInv /\ [MenuNext]_menuVars => [NumbersKept]_menuVars
  BY ListStep
<1>4. MenuSpec => []ListInv
  BY <1>1, <1>2, MenuInvHolds, PTL DEF MenuSpec
<1>5. MenuSpec => [][NumbersKept]_menuVars
  BY <1>3, <1>4, MenuInvHolds, PTL DEF MenuSpec
<1> QED BY <1>5 DEF NumbersMeanRows, NumbersKept
=============================================================================
