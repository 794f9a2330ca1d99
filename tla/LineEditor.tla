----------------------------- MODULE LineEditor -----------------------------
(***************************************************************************)
(* The terminal that reads the menu's lines (pkg/terminal/treminal.go).    *)
(* ReadLine shows a prompt and edits a line key by key; it tracks where    *)
(* the cursor of the user's terminal must be by now (cursorX, cursorY,     *)
(* from the first row of the prompt) and writes only what has to change on *)
(* the screen.  SetSize, and Write of a message, come between two keys,    *)
(* from other goroutines: both find the line half edited and repaint it.   *)
(*                                                                         *)
(* A key is a step: the lock is held while it is handled.  Its output is   *)
(* taken to be on the screen at the end of the step.  The screen is that   *)
(* of an xterm: a character in the last column leaves the cursor there     *)
(* until the next one wraps, and a width that shrinks cuts the rows.  It   *)
(* is as high as the line needs, and rows above the prompt are left out.   *)
(*                                                                         *)
(* What is tracked can be wrong.  Output that does not end its row, as a   *)
(* message of the menu's does not (select_handler.go:451) and the last     *)
(* output of a proxied shell need not, leaves the cursor behind it while   *)
(* ReadLine takes it to be at the start of a row; and a control character  *)
(* in what is pasted moves it on its own.  From there on term.known is     *)
(* FALSE and the screen is left out, what is tracked is not; it is known   *)
(* again when the screen is cleared, for a list or with the key for it.    *)
(*                                                                         *)
(* echo is always on and AutoCompleteCallback never set, as in the menu.   *)
(***************************************************************************)
EXTENDS Integers, Sequences

CONSTANTS
    Prompt,         \* what is shown before the line, a nonempty sequence
    Typed, Pasted,  \* the characters that are typed, and those that are pasted
    Control,        \* of the latter, those that are not printable
    Widths,         \* of the user's window
    MaxLineLength,  \* maxLineLength
    HistorySize,    \* defaultNumEntries
    Rows,           \* bound: rows of a message
    MaxKeys         \* bound: characters typed or pasted

Blank == " "

ASSUME EditorAssumption ==
    /\ Len(Prompt) > 0 /\ Blank \in Typed /\ Typed \cap Pasted = {} /\ Control \subseteq Pasted
    /\ Prompt \in Seq({Prompt[i] : i \in DOMAIN Prompt}) /\ Widths \subseteq Nat \ {0}
    /\ \A i \in DOMAIN Prompt : Prompt[i] \notin Control
    /\ HistorySize \in Nat \ {0} /\ MaxKeys \in Nat

VARIABLES
    reading,        \* "out" of ReadLine, "in" it, or "eof" returned
    line, pos,      \* the line and the cursor's place in it
    term,           \* the screen and what the editor knows of it, see TypeOK
    pasteActive,    \* between a paste's start and its end
    lineIsPasted,   \* local to readLine
    history,        \* the ring: [entries, head, size]
    historyIndex,   \* the entry shown, -1 when none
    historyPending, \* the line that was left for the history
    read,           \* history variable: the last lines returned, and as pasted or not
    keys

lineVars == <<line, pos, term>>
pasteVars == <<pasteActive, lineIsPasted>>
histVars == <<history, historyIndex, historyPending>>
vars == <<reading, lineVars, pasteVars, histVars, read, keys>>

Chars == Typed \cup Pasted
Text == Prompt \o line

TypeOK ==
    /\ reading \in {"out", "in", "eof"}
    /\ line \in Seq(Chars) /\ Len(line) <= MaxKeys /\ pos \in 0..Len(line)
    /\ term.width \in Widths
    \* The cells that are not blank, counted row by row, and where the cursor really is ...
    /\ \A cell \in term.cells : cell[1] \in Nat /\ cell[2] # Blank
    /\ term.row \in Nat /\ term.col \in 0..term.width - 1 /\ term.known \in BOOLEAN
    /\ ~ term.known => term.cells = {} /\ term.row = 0 /\ term.col = 0
    \* ... and what is tracked of it.
    /\ term.cursorX \in 0..term.width - 1 /\ term.cursorY \in 0..term.maxLine
    /\ pasteActive \in BOOLEAN /\ lineIsPasted \in BOOLEAN
    /\ DOMAIN history.entries = 0..HistorySize - 1 /\ history.size \in 0..HistorySize
    /\ historyIndex \in -1..history.size - 1 /\ historyPending \in Seq(Chars)
    /\ Len(read) <= HistorySize /\ keys \in 0..MaxKeys

Init ==
    /\ reading = "out" /\ line = <<>> /\ pos = 0
    /\ \E w \in Widths : term = [cells |-> {}, row |-> 0, col |-> 0, known |-> TRUE, width |-> w,
                                 cursorX |-> 0, cursorY |-> 0, maxLine |-> 0]
    /\ pasteActive = FALSE /\ lineIsPasted = FALSE
    /\ history = [entries |-> [i \in 0..HistorySize - 1 |-> <<>>], head |-> 0, size |-> 0]
    /\ historyIndex = -1 /\ historyPending = <<>> /\ read = <<>> /\ keys = 0
-----------------------------------------------------------------------------
(***************************************************************************)
(* The user's terminal: what it does with what it is sent.                 *)
(***************************************************************************)
\* From here on it is not known what is on the screen.
Lost(t) == [t EXCEPT !.cells = {}, !.row = 0, !.col = 0, !.known = FALSE]

\* Characters one after the other, from the cursor on, wrapping.
Queue(t, s) ==
    LET w == t.width
        from == t.row * w + t.col
        to == from + Len(s) - 1
        kept == {cell \in t.cells : cell[1] \notin from..to}
        new == {<<from + i - 1, s[i]>> : i \in {j \in DOMAIN s : s[j] # Blank}}
    IN  IF s = <<>> \/ ~ t.known THEN t
        ELSE IF \E i \in DOMAIN s : s[i] \in Control THEN Lost(t)
        ELSE [t EXCEPT !.cells = kept \cup new, !.row = to \div w, !.col = (to % w) + 1]

Spaces(n) == [i \in 1..n |-> Blank]
CrLf(t) == IF t.known THEN [t EXCEPT !.row = @ + 1, !.col = 0] ELSE t

\* The escapes of move: up, down, left and right by so much, within the row.
Move(t, down, right) ==
    LET col == (IF t.col = t.width THEN t.col - 1 ELSE t.col) + right
    IN  IF ~ t.known THEN t
        ELSE [t EXCEPT !.row = @ + down,
                       !.col = IF col < 0 THEN 0 ELSE IF col < t.width THEN col ELSE t.width - 1]

\* clearLineToRight, here and in the n rows below.
ClearRows(t, n) ==
    LET first == t.row * t.width
    IN  [t EXCEPT !.cells =
            {cell \in @ : cell[1] \notin first + t.col..first + (n + 1) * t.width - 1}]

\* Rows count from the one the cursor is in.
Rebase(t) ==
    LET first == t.row * t.width
    IN  [t EXCEPT !.cells = {<<cell[1] - first, cell[2]>> : cell \in {c \in @ : c[1] >= first}},
                  !.row = 0, !.cursorX = 0, !.cursorY = 0]

\* A narrower window cuts its rows.
Resized(t, w) ==
    [t EXCEPT !.cells = {<<(cell[1] \div t.width) * w + (cell[1] % t.width), cell[2]>> :
                            cell \in {c \in @ : c[1] % t.width < w}},
              !.width = w, !.col = IF @ < w THEN @ ELSE w - 1]
-----------------------------------------------------------------------------
(***************************************************************************)
(* What the editor sends, and keeps track of.                              *)
(***************************************************************************)
\* Fault: the cursor is not brought over the end of a full row.
AdvanceCursorOnly(t, places) ==
    LET x == t.cursorX + places
        y == t.cursorY + x \div t.width
    IN  [t EXCEPT !.cursorX = x % t.width, !.cursorY = y,
                  !.maxLine = IF y > @ THEN y ELSE @]

AdvanceCursor(t, places) ==
    LET x == t.cursorX + places
        y == t.cursorY + x \div t.width
        moved == [t EXCEPT !.cursorX = x % t.width, !.cursorY = y,
                           !.maxLine = IF y > @ THEN y ELSE @]
    IN  IF places > 0 /\ moved.cursorX = 0 THEN CrLf(moved) ELSE moved

MoveCursorToPos(t, p) ==
    LET x == (Len(Prompt) + p) % t.width
        y == (Len(Prompt) + p) \div t.width
    IN  [Move(t, y - t.cursorY, x - t.cursorX) EXCEPT !.cursorX = x, !.cursorY = y]

\* writeLine cuts s into rows, which are those the terminal wraps it into as long as
\* the tracked cursor is the real one.
WriteLine(t, s) == AdvanceCursor(Queue(t, s), Len(s))

SetLine(newLine, newPos) ==
    /\ line' = newLine /\ pos' = newPos
    /\ LET blanks == Spaces(IF Len(line) > Len(newLine) THEN Len(line) - Len(newLine) ELSE 0)
       IN  term' = MoveCursorToPos(WriteLine(MoveCursorToPos(term, 0), newLine \o blanks), newPos)

Before(p) == SubSeq(line, 1, p)
Behind(p) == SubSeq(line, p + 1, Len(line))

\* From place p the n characters before it are taken out of the line.
EraseNPreviousChars(p, n) ==
    LET m == IF p < n THEN p ELSE n
        written == WriteLine(MoveCursorToPos(term, p - m), Behind(p))
        blanked == AdvanceCursor(Queue(written, Spaces(m)), m)
    IN  IF m = 0 THEN UNCHANGED lineVars
        ELSE /\ pos' = p - m /\ line' = Before(p - m) \o Behind(p)
             /\ term' = MoveCursorToPos(blanked, p - m)

\* Places where a word starts; the character behind place i is line[i + 1].
MaxOf(S) == CHOOSE i \in S : \A j \in S : j <= i
MinOf(S) == CHOOSE i \in S : \A j \in S : i <= j

CountToLeftWord ==
    LET last == MaxOf({i \in 1..pos - 1 : line[i + 1] # Blank} \cup {0})
    IN  pos - MaxOf({i \in 2..last : line[i] = Blank} \cup {0})

CountToRightWord ==
    LET space == MinOf({i \in pos..Len(line) - 1 : line[i + 1] = Blank} \cup {Len(line)})
    IN  MinOf({i \in space..Len(line) - 1 : line[i + 1] # Blank} \cup {Len(line)}) - pos

AddKeyToLine(key) ==
    /\ keys < MaxKeys /\ keys' = keys + 1
    /\ line' = Before(pos) \o <<key>> \o Behind(pos) /\ pos' = pos + 1
    /\ term' = MoveCursorToPos(WriteLine(term, <<key>> \o Behind(pos)), pos + 1)

MoveTo(p) ==
    /\ pos' = p /\ UNCHANGED line
    /\ term' = IF p = pos THEN term ELSE MoveCursorToPos(term, p)
-----------------------------------------------------------------------------
(***************************************************************************)
(* ReadLine, and the keys it hands to handleKey.                           *)
(***************************************************************************)
ReadLine ==
    /\ reading = "out" /\ reading' = "in" /\ lineIsPasted' = pasteActive
    /\ term' = IF term.cursorX = 0 /\ term.cursorY = 0 THEN WriteLine(term, Prompt) ELSE term
    /\ UNCHANGED <<line, pos, pasteActive, histVars, read, keys>>

\* A key that is not part of a paste.
TypedKey == reading = "in" /\ ~ pasteActive /\ lineIsPasted' = FALSE /\ UNCHANGED <<reading, pasteActive>>

\* Of those, one that moves in the line or changes it.
EditKey == TypedKey /\ UNCHANGED <<histVars, read, keys>>

KeyBackspace == EditKey /\ EraseNPreviousChars(pos, 1)
KeyAltLeft == EditKey /\ MoveTo(pos - CountToLeftWord)
KeyAltRight == EditKey /\ MoveTo(pos + CountToRightWord)
KeyLeft == EditKey /\ MoveTo(IF pos = 0 THEN 0 ELSE pos - 1)
KeyRight == EditKey /\ MoveTo(IF pos = Len(line) THEN pos ELSE pos + 1)
KeyHome == EditKey /\ MoveTo(0)
KeyEnd == EditKey /\ MoveTo(Len(line))
KeyDeleteWord == EditKey /\ EraseNPreviousChars(pos, CountToLeftWord)
KeyCtrlU == EditKey /\ EraseNPreviousChars(pos, pos)

KeyDeleteLine ==
    /\ EditKey /\ line' = Before(pos) /\ UNCHANGED pos
    /\ term' = MoveCursorToPos(WriteLine(term, Spaces(Len(line) - pos)), pos)

\* On an empty line it is the end of the input.
KeyCtrlD ==
    \/ /\ line # <<>> /\ EditKey
       /\ IF pos < Len(line) THEN EraseNPreviousChars(pos + 1, 1) ELSE UNCHANGED lineVars
    \/ /\ line = <<>> /\ reading = "in" /\ ~ pasteActive /\ reading' = "eof"
       /\ UNCHANGED <<lineVars, pasteVars, histVars, read, keys>>

KeyClearScreen ==
    /\ EditKey /\ UNCHANGED <<line, pos>>
    /\ LET home == Rebase([term EXCEPT !.cells = {}, !.row = 0, !.col = 0, !.known = TRUE])
       IN  term' = MoveCursorToPos(
                       WriteLine(MoveCursorToPos(WriteLine(home, Prompt), 0), line), pos)

KeyChar(ch) ==
    /\ TypedKey /\ UNCHANGED <<histVars, read>>
    /\ IF Len(line) = MaxLineLength THEN UNCHANGED <<lineVars, keys>> ELSE AddKeyToLine(ch)

\* The history is a ring; its n-th entry before the last is n places behind the head.
NthPreviousEntry(n) ==
    history.entries[IF history.head - n < 0 THEN history.head - n + HistorySize
                    ELSE history.head - n]

KeyUp ==
    /\ TypedKey /\ UNCHANGED <<history, read, keys>>
    /\ IF historyIndex + 1 >= history.size THEN UNCHANGED <<lineVars, historyIndex, historyPending>>
       ELSE LET entry == NthPreviousEntry(historyIndex + 1)
            IN  /\ SetLine(entry, Len(entry)) /\ historyIndex' = historyIndex + 1
                /\ historyPending' = IF historyIndex = -1 THEN line ELSE historyPending

KeyDown ==
    /\ TypedKey /\ UNCHANGED <<history, historyPending, read, keys>>
    /\ IF historyIndex = -1 THEN UNCHANGED <<lineVars, historyIndex>>
       ELSE LET entry == IF historyIndex = 0 THEN historyPending
                         ELSE NthPreviousEntry(historyIndex - 1)
            IN  SetLine(entry, Len(entry)) /\ historyIndex' = historyIndex - 1

\* Fault: the ring is filled from its first place, where the last entry then is not.
AddAhead(a) ==
    history' = [entries |-> [history.entries EXCEPT ![history.head] = a],
                head |-> (history.head + 1) % HistorySize,
                size |-> IF history.size < HistorySize THEN history.size + 1 ELSE history.size]

Add(a) ==
    LET head == (history.head + 1) % HistorySize
    IN  history' = [entries |-> [history.entries EXCEPT ![head] = a], head |-> head,
                    size |-> IF history.size < HistorySize THEN history.size + 1
                             ELSE history.size]

\* readLine returns with this line: the next prompt starts in the row below.
Return(result, asPasted) ==
    LET returned == Append(read, [line |-> result, pasted |-> asPasted])
    IN  /\ reading' = "out" /\ line' = <<>> /\ pos' = 0
        /\ term' = [Rebase(CrLf(MoveCursorToPos(term, Len(line)))) EXCEPT !.maxLine = 0]
        /\ historyIndex' = -1 /\ Add(result) /\ UNCHANGED <<historyPending, pasteActive, keys>>
        /\ read' = IF Len(returned) > HistorySize THEN Tail(returned) ELSE returned

KeyCtrlC == reading = "in" /\ ~ pasteActive /\ lineIsPasted' = FALSE /\ Return(<<>>, FALSE)

KeyEnter ==
    /\ reading = "in" /\ lineIsPasted' = (lineIsPasted /\ pasteActive)
    /\ Return(line, lineIsPasted')

\* A paste: its start, what is pasted, and its end.
\* Fault: a paste makes the line one that is pasted.
PasteStartAny ==
    /\ reading = "in" /\ ~ pasteActive /\ pasteActive' = TRUE /\ lineIsPasted' = TRUE
    /\ UNCHANGED <<reading, lineVars, histVars, read, keys>>

PasteStart ==
    /\ reading = "in" /\ ~ pasteActive /\ pasteActive' = TRUE
    /\ lineIsPasted' = (lineIsPasted \/ line = <<>>)
    /\ UNCHANGED <<reading, lineVars, histVars, read, keys>>

PasteChar(ch) ==
    /\ reading = "in" /\ pasteActive /\ AddKeyToLine(ch)
    /\ UNCHANGED <<reading, pasteVars, histVars, read>>

PasteEnd ==
    /\ reading = "in" /\ pasteActive /\ pasteActive' = FALSE
    /\ UNCHANGED <<reading, lineVars, lineIsPasted, histVars, read, keys>>
-----------------------------------------------------------------------------
(***************************************************************************)
(* From other goroutines, between two keys.                                *)
(***************************************************************************)
\* A message of n rows, the last of them at its end or not: between two lines it is
\* written where the cursor is, and else it takes the place of prompt and line, which
\* follow behind it.
Write(n, ends) ==
    LET t == IF ends THEN term ELSE Lost(term)
        top == ClearRows(Move(t, - t.cursorY, - t.cursorX), t.cursorY)
        Below(u) == Rebase([u EXCEPT !.row = @ + n])
    IN  /\ reading # "eof"
        /\ term' = IF t.cursorX = 0 /\ t.cursorY = 0 THEN Below(t)
                   ELSE MoveCursorToPos(WriteLine(WriteLine(Below(top), Prompt), line), pos)
        /\ UNCHANGED <<reading, line, pos, pasteVars, histVars, read, keys>>

\* A list is written between two lines, on a screen that is cleared for it.
DisplayList ==
    /\ reading = "out"
    /\ term' = [term EXCEPT !.cells = {}, !.row = 0, !.col = 0, !.known = TRUE]
    /\ UNCHANGED <<reading, line, pos, pasteVars, histVars, read, keys>>

ClearAndRepaintLinePlusNPrevious(t, n) ==
    LET top == Rebase(Move(t, - t.cursorY, - t.cursorX))
    IN  MoveCursorToPos(WriteLine(WriteLine(ClearRows(top, n), Prompt), line), pos)

\* Fault: a narrower window is repainted as if its rows were as many as before.
SetSizeOnce(w) ==
    /\ reading # "eof" /\ w # term.width
    /\ term' = IF term.cursorX = 0 /\ term.cursorY = 0 /\ line = <<>> THEN Resized(term, w)
               ELSE ClearAndRepaintLinePlusNPrevious(
                        [Resized(term, w) EXCEPT !.cursorX = IF @ < w THEN @ ELSE w - 1,
                                                 !.cursorY = 2 * @],
                        term.cursorY)
    /\ UNCHANGED <<reading, line, pos, pasteVars, histVars, read, keys>>

\* It takes every row for two if the window narrows: a terminal that wraps made them so.
SetSize(w) ==
    LET t == Resized(term, w)
    IN  /\ reading # "eof" /\ w # term.width
        /\ term' = IF line = <<>> /\ term.cursorX = 0 /\ term.cursorY = 0 THEN t
                   ELSE IF w < term.width
                        THEN ClearAndRepaintLinePlusNPrevious(
                                 [t EXCEPT !.cursorX = IF @ < w THEN @ ELSE w - 1,
                                           !.cursorY = 2 * @], 2 * t.maxLine)
                        ELSE ClearAndRepaintLinePlusNPrevious(t, t.maxLine)
        /\ UNCHANGED <<reading, line, pos, pasteVars, histVars, read, keys>>

Next ==
    \/ ReadLine \/ KeyBackspace \/ KeyAltLeft \/ KeyAltRight \/ KeyLeft \/ KeyRight
    \/ KeyHome \/ KeyEnd \/ KeyUp \/ KeyDown \/ KeyCtrlC \/ KeyEnter \/ KeyDeleteWord
    \/ KeyDeleteLine \/ KeyCtrlD \/ KeyCtrlU \/ KeyClearScreen \/ PasteStart \/ PasteEnd
    \/ \E ch \in Typed : KeyChar(ch)
    \/ \E ch \in Pasted : PasteChar(ch)
    \/ \E n \in 1..Rows, ends \in BOOLEAN : Write(n, ends)
    \/ DisplayList
    \/ \E w \in Widths : SetSize(w)

Spec == Init /\ [][Next]_vars
-----------------------------------------------------------------------------
\* The editor knows where in the prompt's and the line's rows its cursor is, and what
\* the user sees from the prompt's first row on is the prompt and the line, row by row in
\* the window's width, and nothing else, with the cursor at its place in the line,
\* whatever was typed, erased, recalled, written or resized on the way: unless output
\* that did not end its row, or a control character that was pasted, moved the user's
\* cursor since the screen was last cleared.
ScreenShowsLine ==
    reading = "in" =>
        LET w == term.width
            cursor == Len(Prompt) + pos
        IN  /\ <<term.cursorY, term.cursorX>> = <<cursor \div w, cursor % w>>
            /\ term.known =>
                /\ term.cells = {<<i - 1, Text[i]>> : i \in {j \in DOMAIN Text : Text[j] # Blank}}
                /\ <<term.row, term.col>> = <<cursor \div w, cursor % w>>

\* The history keeps the lines ReadLine returned, the last one first, be the ring
\* about to wrap or not; and ErrPasteIndicator comes only with a line that "consists
\* only of pasted data" (treminal.go:964).
LinesAreAsEntered ==
    /\ history.size = Len(read)
    /\ \A n \in 0..Len(read) - 1 : NthPreviousEntry(n) = read[Len(read) - n].line
    /\ \A i \in DOMAIN read : read[i].pasted => read[i].line \in Seq(Pasted)
=============================================================================
