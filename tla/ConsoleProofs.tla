---------------------------- MODULE ConsoleProofs ----------------------------
(***************************************************************************)
(* Proofs about Console, for any ring, set of characters and commands,     *)
(* length of a line and depth of the history: the types of the editor, the *)
(* ring under interrupts, and the refinement of ConsoleSession.            *)
(***************************************************************************)
EXTENDS Console, FiniteSetTheorems, SequenceTheorems, TLAPS, WellFoundedInduction

USE ConsoleAssumption

-----------------------------------------------------------------------------
(* The parts of TypeOK. *)

(* A buffer that holds a line of n characters and then zeros only. *)
Holds(b, n) ==
    /\ b \in [0 .. MaxLine - 1 -> Chars \cup {Nul}]
    /\ n \in 0 .. MaxLine - 1
    /\ \A j \in 0 .. MaxLine - 1 : b[j] = Nul <=> j >= n

EditorOK ==
    /\ Holds(buffer, length) /\ cursor \in 0 .. length
    /\ browsed \in -1 .. Depth - 1 /\ insertMode \in BOOLEAN

HistoryOK ==
    /\ history \in [0 .. Depth - 1 -> Lines \cup {NoLine}]
    /\ historyCount \in 0 .. Depth - 1
    /\ \A n \in 0 .. historyCount - 1 : history[n] # NoLine

PlaceOK ==
    pc \in {"boot", "clear", "write", "read", "input", "take", "execute", "done"}

(* They are all of it. *)
LEMMA TypeParts == TypeOK <=> PlaceOK /\ EditorOK /\ command \in Lines /\ HistoryOK
  BY DEF TypeOK, PlaceOK, EditorOK, HistoryOK, Holds

(* And so they are in the next state. *)
LEMMA TypePartsNext ==
    TypeOK' <=> PlaceOK' /\ EditorOK' /\ command' \in Lines /\ HistoryOK'
  BY DEF TypeOK, PlaceOK, EditorOK, HistoryOK, Holds

-----------------------------------------------------------------------------
(* Lines, buffers and the history.                                         *)

(* What a line is. *)
LEMMA LineDef ==
    ASSUME NEW text
    PROVE  text \in Lines <=>
              text \in Seq(Chars) /\ Len(text) \in 0 .. MaxLine - 1
<1>1. ASSUME text \in Lines PROVE text \in Seq(Chars) /\ Len(text) \in 0 .. MaxLine - 1
  <2>1. PICK n \in 0 .. MaxLine - 1 : text \in [1 .. n -> Chars]
    BY <1>1 DEF Lines
  <2> QED BY <2>1
<1>2. ASSUME text \in Seq(Chars), Len(text) \in 0 .. MaxLine - 1 PROVE text \in Lines
  <2>1. text \in [1 .. Len(text) -> Chars]
    BY <1>2
  <2> QED BY <1>2, <2>1 DEF Lines
<1> QED BY <1>1, <1>2

(* The empty line is one, and no line is an empty entry of the history. *)
LEMMA SpecialLines == NoCommand \in Lines /\ NoLine \notin Lines
<1>1. <<>> \in Lines
  <2>1. <<>> \in Seq(Chars) /\ Len(<<>>) = 0 /\ 0 \in 0 .. MaxLine - 1
    OBVIOUS
  <2> QED BY <2>1, LineDef
<1>2. ASSUME NoLine \in Seq(Chars) PROVE FALSE
  <2>1. Len(NoLine) = 1 /\ NoLine[1] = "NUL"
    BY DEF NoLine, Nul
  <2>2. NoLine[1] \in Chars
    BY ONLY <1>2, <2>1
  <2> QED BY <2>1, <2>2
<1> QED BY <1>1, <1>2, LineDef DEF NoCommand

(* The name of a command is a line. *)
LEMMA NamesAreLines == ASSUME NEW name \in Names PROVE name \in Lines
  BY LineDef

(* strncpy() of a line leaves a buffer that holds it. *)
LEMMA FilledHolds ==
    ASSUME EditorOK, NEW text \in Lines
    PROVE  Holds(Filled(text), Len(text))
<1>1. text \in Seq(Chars) /\ Len(text) \in 0 .. MaxLine - 1
  BY LineDef
<1>2. DOMAIN buffer = 0 .. MaxLine - 1
  BY DEF EditorOK, Holds
<1>3. ASSUME NEW j \in 0 .. MaxLine - 1
      PROVE  /\ j < Len(text) => Filled(text)[j] \in Chars
             /\ j >= Len(text) => Filled(text)[j] = Nul
  BY <1>1, <1>2 DEF Filled
<1>4. Filled(text) = [j \in 0 .. MaxLine - 1 |-> Filled(text)[j]]
  BY <1>2 DEF Filled
<1>5. Filled(text) \in [0 .. MaxLine - 1 -> Chars \cup {Nul}]
  BY <1>1, <1>3, <1>4
<1> QED BY <1>1, <1>3, <1>5 DEF Holds, Nul

(* The characters before the end of the line are a line. *)
LEMMA TextIsLine ==
    ASSUME NEW b, NEW n \in 0 .. MaxLine - 1,
           \A j \in 0 .. n - 1 : b[j] \in Chars
    PROVE  Text(b, n) \in Lines
<1>1. \A j \in 1 .. n : j - 1 \in 0 .. n - 1
  OBVIOUS
<1>2. Text(b, n) \in [1 .. n -> Chars]
  BY <1>1 DEF Text
<1> QED BY <1>2 DEF Lines

(* So is the whole line of the editor. *)
LEMMA EditorText ==
    ASSUME EditorOK
    PROVE  Text(buffer, length) \in Lines
<1>1. length \in 0 .. MaxLine - 1 /\ \A j \in 0 .. length - 1 : buffer[j] \in Chars
  BY DEF EditorOK, Holds
<1> QED BY <1>1, TextIsLine

(* An edit that leaves a buffer that holds its line, and the cursor in it. *)
LEMMA EditStep ==
    ASSUME TypeOK, NEW b, NEW n, NEW c, Edit(b, n, c), Holds(b, n), c \in 0 .. n,
           browsed' \in -1 .. Depth - 1, insertMode' \in BOOLEAN
    PROVE  TypeOK'
<1>1. PlaceOK' /\ EditorOK'
  BY DEF Edit, PlaceOK, EditorOK
<1>2. (command \in Lines /\ HistoryOK)'
  BY TypeParts DEF Edit, HistoryOK, historyVars
<1> QED BY <1>1, <1>2, TypePartsNext

(* The keys that move the cursor, browse the history or erase.             *)

(* A key that shows an entry of the history, or leaves the line as it is. *)
LEMMA ShowStep ==
    ASSUME TypeOK, NEW n \in 0 .. Depth - 1, Show(n),
           browsed' \in -1 .. Depth - 1, insertMode' \in BOOLEAN
    PROVE  TypeOK'
<1>1. EditorOK /\ Holds(buffer, length) /\ cursor \in 0 .. length
  BY TypeParts DEF EditorOK
<1>2. CASE history[n] # NoLine
  <2>1. history[n] \in Lines
    BY <1>2, TypeParts DEF HistoryOK
  <2>2. Holds(Filled(history[n]), Len(history[n])) /\ Len(history[n]) \in 0 .. Len(history[n])
    BY <1>1, <2>1, FilledHolds, LineDef
  <2>3. Edit(Filled(history[n]), Len(history[n]), Len(history[n]))
    BY <1>2 DEF Show
  <2> QED BY <2>2, <2>3, EditStep
<1>3. CASE history[n] = NoLine
  <2>1. Edit(buffer, length, cursor)
    BY <1>3 DEF Show
  <2> QED BY <1>1, <2>1, EditStep
<1> QED BY <1>2, <1>3

(* The arrows and the key that switches insert mode. *)
LEMMA MoveSteps ==
    ASSUME TypeOK, KeyInsertMode \/ KeyUp \/ KeyDown \/ KeyLeft \/ KeyRight
    PROVE  TypeOK'
<1>1. /\ Holds(buffer, length) /\ length \in 0 .. MaxLine - 1 /\ cursor \in 0 .. length
      /\ browsed \in -1 .. Depth - 1 /\ insertMode \in BOOLEAN
  BY TypeParts DEF EditorOK, Holds
<1>2. CASE KeyInsertMode
  <2>1. Edit(buffer, length, cursor) /\ browsed' = browsed /\ insertMode' = ~insertMode
    BY <1>2 DEF KeyInsertMode
  <2>2. insertMode' \in BOOLEAN
    BY <2>1
  <2> QED BY <1>1, <2>1, <2>2, EditStep
<1>3. CASE KeyUp
  <2>1. browsed' = (IF browsed < Depth - 1 THEN browsed + 1 ELSE browsed) /\ Show(browsed')
        /\ insertMode' = insertMode
    BY <1>3 DEF KeyUp
  <2>2. browsed' \in 0 .. Depth - 1
    BY <1>1, <2>1
  <2>3. browsed' \in -1 .. Depth - 1
    BY <2>2
  <2> QED BY <1>1, <2>1, <2>2, <2>3, ShowStep
<1>4. CASE KeyDown
  <2>1. browsed' = (IF browsed > 0 THEN browsed - 1 ELSE 0) /\ Show(browsed')
        /\ insertMode' = insertMode
    BY <1>4 DEF KeyDown
  <2>2. browsed' \in 0 .. Depth - 1
    BY <1>1, <2>1
  <2>3. browsed' \in -1 .. Depth - 1
    BY <2>2
  <2> QED BY <1>1, <2>1, <2>2, <2>3, ShowStep
<1>5. CASE KeyLeft
  <2> DEFINE c == IF cursor > 0 THEN cursor - 1 ELSE cursor
  <2>1. Edit(buffer, length, c) /\ browsed' = browsed /\ insertMode' = insertMode
    BY <1>5 DEF KeyLeft
  <2>2. c \in 0 .. length
    BY <1>1
  <2> QED BY <1>1, <2>1, <2>2, EditStep
<1>6. CASE KeyRight
  <2> DEFINE c == IF cursor < length THEN cursor + 1 ELSE cursor
  <2>1. Edit(buffer, length, c) /\ browsed' = browsed /\ insertMode' = insertMode
    BY <1>6 DEF KeyRight
  <2>2. c \in 0 .. length
    BY <1>1
  <2> QED BY <1>1, <2>1, <2>2, EditStep
<1> QED BY <1>2, <1>3, <1>4, <1>5, <1>6

(* A backspace moves the zero at the end down with the text. *)
LEMMA KeyBackspaceStep ==
    ASSUME TypeOK, KeyBackspace
    PROVE  TypeOK'
<1>1. /\ Holds(buffer, length) /\ length \in 0 .. MaxLine - 1 /\ cursor \in 0 .. length
      /\ browsed \in -1 .. Depth - 1 /\ insertMode \in BOOLEAN
  BY TypeParts DEF EditorOK, Holds
<1>2. browsed' \in -1 .. Depth - 1 /\ insertMode' \in BOOLEAN
  BY <1>1 DEF KeyBackspace
<1>3. CASE cursor > 0
  <2>1. Edit(Erased, length - 1, cursor - 1)
    BY <1>3 DEF KeyBackspace
  <2>2. DOMAIN buffer = 0 .. MaxLine - 1
        /\ length - 1 \in 0 .. MaxLine - 1 /\ cursor - 1 \in 0 .. length - 1
    BY <1>1, <1>3 DEF Holds
  <2>3. ASSUME NEW j \in 0 .. MaxLine - 1
        PROVE  Erased[j] \in Chars \cup {Nul} /\ (Erased[j] = Nul <=> j >= length - 1)
    <3>1. CASE j >= length
      BY <1>1, <1>3, <2>2, <3>1 DEF Erased, Holds
    <3>2. CASE j \in cursor - 1 .. length - 1
      <4>1. j + 1 \in 0 .. MaxLine - 1 \/ (j = length - 1 /\ length = MaxLine)
        BY <1>1, <2>2, <3>2
      <4>2. j + 1 \in 0 .. MaxLine - 1
        BY <1>1, <4>1
      <4>3. Erased[j] = buffer[j + 1]
        BY <1>1, <2>2, <3>2 DEF Erased
      <4> QED BY <1>1, <3>2, <4>2, <4>3 DEF Holds
    <3>3. CASE j < cursor - 1
      BY <1>1, <1>3, <2>2, <3>3 DEF Erased, Holds
    <3> QED BY <1>1, <2>2, <3>1, <3>2, <3>3
  <2>4. Erased = [j \in 0 .. MaxLine - 1 |-> Erased[j]]
    BY <2>2 DEF Erased
  <2>5. Erased \in [0 .. MaxLine - 1 -> Chars \cup {Nul}]
    BY <2>3, <2>4
  <2>6. Holds(Erased, length - 1)
    BY <2>2, <2>3, <2>5 DEF Holds
  <2> QED BY <1>2, <2>1, <2>2, <2>6, EditStep
<1>4. CASE ~(cursor > 0)
  BY <1>1, <1>2, <1>4, EditStep DEF KeyBackspace
<1> QED BY <1>3, <1>4

(* A completed command fits in the buffer. *)
LEMMA KeyTabStep ==
    ASSUME TypeOK, KeyTab
    PROVE  TypeOK'
<1>1. /\ EditorOK /\ Holds(buffer, length) /\ length \in 0 .. MaxLine - 1
      /\ cursor \in 0 .. length
      /\ browsed \in -1 .. Depth - 1 /\ insertMode \in BOOLEAN
  BY TypeParts DEF EditorOK, Holds
<1>2. browsed' \in -1 .. Depth - 1 /\ insertMode' \in BOOLEAN
  BY <1>1 DEF KeyTab
<1> DEFINE found == Matches(Text(buffer, length))
<1>3. \A name \in found : name \in Names
  BY DEF Matches
<1>4. \/ \E name \in found : Edit(Filled(name), Len(name), Len(name))
      \/ Edit(buffer, length, length)
      \/ Edit(buffer, length, cursor)
  BY DEF KeyTab
<1>5. ASSUME NEW name \in found, Edit(Filled(name), Len(name), Len(name))
      PROVE  TypeOK'
  <2>1. name \in Lines /\ Len(name) \in 0 .. Len(name)
    BY <1>3, NamesAreLines, LineDef
  <2> QED BY <1>1, <1>2, <1>5, <2>1, FilledHolds, EditStep
<1>6. length \in 0 .. length
  BY <1>1
<1> QED BY <1>1, <1>2, <1>4, <1>5, <1>6, EditStep

-----------------------------------------------------------------------------
(* The end of a line.                                                      *)

(* The buffer is empty again. *)
LEMMA EmptyHolds == Holds(EmptyBuffer, 0)
<1>1. 0 \in 0 .. MaxLine - 1
  OBVIOUS
<1>2. EmptyBuffer \in [0 .. MaxLine - 1 -> Chars \cup {Nul}]
  BY DEF EmptyBuffer
<1>3. \A j \in 0 .. MaxLine - 1 : EmptyBuffer[j] = Nul /\ j >= 0
  BY DEF EmptyBuffer
<1> QED BY <1>1, <1>2, <1>3 DEF Holds

(* "!n" recalls a command, whatever the number. *)
LEMMA RecalledIsLine ==
    ASSUME TypeOK, NEW text \in Lines
    PROVE  Recalled(text) \in Lines
<1>1. CASE Head(text) # Bang
  BY <1>1 DEF Recalled
<1>2. CASE Head(text) = Bang
  <2> DEFINE n == Number(Tail(text))
  <2>1. CASE n \in 0 .. historyCount - 1
    <3>1. n \in 0 .. Depth - 1 /\ history[n] # NoLine
      BY <2>1, TypeParts DEF HistoryOK
    <3>2. history[n] \in Lines
      BY <3>1, TypeParts DEF HistoryOK
    <3> QED BY <1>2, <2>1, <3>2 DEF Recalled
  <2>2. CASE n \notin 0 .. historyCount - 1
    BY <1>2, <2>2, SpecialLines DEF Recalled
  <2> QED BY <2>1, <2>2
<1> QED BY <1>1, <1>2

(* The history is as long as the program says, and empty after a "quit". *)
LEMMA NoHistoryOK ==
    /\ NoHistory \in [0 .. Depth - 1 -> Lines \cup {NoLine}]
    /\ 0 \in 0 .. Depth - 1 /\ \A n \in 0 .. 0 - 1 : NoHistory[n] # NoLine
  BY DEF NoHistory

(* A line entered. *)
LEMMA SubmitStep ==
    ASSUME TypeOK, NEW text \in Lines, Submit(text)
    PROVE  TypeOK'
<1>1. /\ buffer' = EmptyBuffer /\ length' = 0 /\ cursor' = 0 /\ browsed' = -1
      /\ insertMode' = insertMode
  BY DEF Submit
<1>2. 0 \in 0 .. 0 /\ -1 \in -1 .. Depth - 1 /\ insertMode \in BOOLEAN
  BY TypeParts DEF EditorOK
<1>3. EditorOK'
  BY <1>1, <1>2, EmptyHolds DEF EditorOK
<1> DEFINE line == IF text = <<>> THEN NoCommand ELSE Recalled(text)
<1>4. line \in Lines
  BY RecalledIsLine, SpecialLines
<1>5. \/ pc' = "done" /\ history' = NoHistory /\ historyCount' = 0 /\ command' = command
      \/ pc' = "execute" /\ command' = line /\ UNCHANGED historyVars
      \/ pc' = "input" /\ UNCHANGED <<command, historyVars>>
  BY DEF Submit
<1>6. PlaceOK' /\ command' \in Lines
  BY <1>4, <1>5, TypeParts DEF PlaceOK
<1>7. HistoryOK'
  BY <1>5, NoHistoryOK, TypeParts DEF HistoryOK, historyVars
<1> QED BY <1>3, <1>6, <1>7, TypePartsNext

(* A character typed, which may fill the line. *)
LEMMA KeyCharStep ==
    ASSUME TypeOK, NEW c \in Chars, KeyChar(c)
    PROVE  TypeOK'
<1>1. /\ Holds(buffer, length) /\ length \in 0 .. MaxLine - 1 /\ cursor \in 0 .. length
      /\ browsed \in -1 .. Depth - 1 /\ insertMode \in BOOLEAN
      /\ DOMAIN buffer = 0 .. MaxLine - 1
  BY TypeParts DEF EditorOK, Holds
<1> DEFINE inserts == insertMode /\ cursor # length
           b == IF inserts THEN Inserted(c) ELSE Overwritten(c)
           n == IF inserts \/ cursor = length THEN length + 1 ELSE length
<1>2. n \in 1 .. MaxLine /\ cursor + 1 \in 0 .. n
  BY <1>1
<1>3. ASSUME NEW j \in 0 .. MaxLine - 1
      PROVE  b[j] \in Chars \cup {Nul} /\ (b[j] = Nul <=> j >= n)
  <2>1. CASE inserts
    <3>1. b[j] = IF j = cursor THEN c
                 ELSE IF j \in cursor + 1 .. length + 1 THEN buffer[j - 1] ELSE buffer[j]
      BY <1>1, <2>1 DEF Inserted
    <3>2. CASE j \in cursor + 1 .. length + 1
      <4>1. j - 1 \in 0 .. MaxLine - 1 /\ b[j] = buffer[j - 1]
        BY <1>1, <3>1, <3>2
      <4> QED BY <1>1, <2>1, <3>2, <4>1 DEF Holds
    <3>3. CASE j \notin cursor .. length + 1
      BY <1>1, <2>1, <3>1, <3>3 DEF Holds
    <3>4. CASE j = cursor
      BY <1>1, <2>1, <3>1, <3>4 DEF Nul
    <3> QED BY <1>1, <3>2, <3>3, <3>4
  <2>2. CASE ~inserts
    <3>1. b[j] = IF j = cursor THEN c ELSE buffer[j]
      BY <1>1, <2>2 DEF Overwritten
    <3>2. CASE j = cursor
      BY <1>1, <2>2, <3>1, <3>2 DEF Nul
    <3>3. CASE j # cursor
      BY <1>1, <2>2, <3>1, <3>3 DEF Holds
    <3> QED BY <3>2, <3>3
  <2> QED BY <2>1, <2>2
<1>4. CASE n = MaxLine
  <2>1. Submit(Text(b, MaxLine - 1))
    BY <1>4 DEF KeyChar
  <2>2. MaxLine - 1 \in 0 .. MaxLine - 1
        /\ \A j \in 0 .. MaxLine - 1 - 1 : j \in 0 .. MaxLine - 1 /\ ~(j >= n)
    BY <1>4
  <2>3. \A j \in 0 .. MaxLine - 1 - 1 : b[j] \in Chars
    BY <1>3, <2>2
  <2>4. Text(b, MaxLine - 1) \in Lines
    BY <2>2, <2>3, TextIsLine
  <2> QED BY <2>1, <2>4, SubmitStep
<1>5. CASE n # MaxLine
  <2>1. Edit(b, n, cursor + 1) /\ browsed' = browsed /\ insertMode' = insertMode
    BY <1>5 DEF KeyChar
  <2>2. b = [j \in 0 .. MaxLine - 1 |-> b[j]]
    BY <1>1 DEF Inserted, Overwritten
  <2>3. b \in [0 .. MaxLine - 1 -> Chars \cup {Nul}]
    BY <1>3, <2>2
  <2>4. n \in 0 .. MaxLine - 1
    BY <1>2, <1>5
  <2>5. Holds(b, n)
    BY <1>3, <2>3, <2>4 DEF Holds
  <2> QED BY <1>1, <1>2, <2>1, <2>5, EditStep
<1> QED BY <1>4, <1>5

-----------------------------------------------------------------------------
(* The history.                                                            *)

(* A set of places has a first one. *)
LEMMA FirstPlace ==
    ASSUME NEW T, T \subseteq Nat, T # {}
    PROVE  \E n \in T : \A m \in T : n <= m
<1>1. PICK n \in T : \A m \in T : ~(<<m, n>> \in OpToRel(<, Nat))
  BY NatLessThanWellFounded, WFMin, Zenon
<1>2. ASSUME NEW m \in T PROVE n <= m
  <2>1. m \in Nat /\ n \in Nat /\ ~(m < n)
    BY <1>1 DEF OpToRel
  <2> QED BY <2>1
<1> QED BY <1>2

(* Where a command goes in the history: every entry before is another      *)
(* command.                                                                *)
LEMMA PlaceProperties ==
    ASSUME NEW text, DOMAIN history = 0 .. Depth - 1
    PROVE  /\ Place(text) \in 0 .. Depth - 1
           /\ history[Place(text)] \in {text, NoLine} \/ Place(text) = Depth - 1
           /\ \A m \in 0 .. Place(text) - 1 : history[m] \notin {text, NoLine}
<1> DEFINE T == {n \in 0 .. Depth - 1 : history[n] \in {text, NoLine} \/ n = Depth - 1}
<1>1. Depth - 1 \in T /\ T \subseteq Nat
  OBVIOUS
<1>2. PICK n \in T : \A m \in T : n <= m
  BY <1>1, FirstPlace
<1>3. /\ n \in DOMAIN history
      /\ history[n] \in {text, NoLine} \/ n = Depth - 1
      /\ \A m \in 0 .. n - 1 : history[m] \notin {text, NoLine}
  <2>1. ASSUME NEW m \in 0 .. n - 1 PROVE m \in 0 .. Depth - 1 /\ m \notin T
    BY <1>2
  <2> QED BY <1>2, <2>1
<1>4. /\ Place(text) \in DOMAIN history
      /\ history[Place(text)] \in {text, NoLine} \/ Place(text) = Depth - 1
      /\ \A m \in 0 .. Place(text) - 1 : history[m] \notin {text, NoLine}
  BY <1>3 DEF Place
<1> QED BY <1>4

(* A command executed is the first of the history, and the entries that    *)
(* are counted have one.                                                   *)
LEMMA ExecuteStep ==
    ASSUME TypeOK, Execute
    PROVE  TypeOK'
<1> DEFINE p == Place(command)
<1>1. /\ command \in Lines /\ command # NoLine /\ HistoryOK /\ EditorOK
      /\ DOMAIN history = 0 .. Depth - 1
  BY TypeParts, SpecialLines DEF HistoryOK
<1>2. p \in 0 .. Depth - 1 /\ \A m \in 0 .. p - 1 : history[m] # NoLine
  BY <1>1, PlaceProperties
<1>3. /\ pc' = "input" /\ command' = NoCommand /\ UNCHANGED editorVars
      /\ history' = MovedToFront(p, command)
      /\ historyCount' = IF history[p] = NoLine /\ historyCount < Depth - 1
                         THEN historyCount + 1 ELSE historyCount
  BY DEF Execute
<1>4. ASSUME NEW m \in 0 .. Depth - 1
      PROVE  history'[m] = IF m = 0 THEN command
                           ELSE IF m <= p THEN history[m - 1] ELSE history[m]
  BY <1>1, <1>3 DEF MovedToFront
<1>5. history' \in [0 .. Depth - 1 -> Lines \cup {NoLine}]
  <2>1. history' = [m \in 0 .. Depth - 1 |-> history'[m]]
    BY <1>1, <1>3 DEF MovedToFront
  <2>2. ASSUME NEW m \in 0 .. Depth - 1 PROVE history'[m] \in Lines \cup {NoLine}
    <3>1. CASE m = 0
      BY <1>1, <1>4, <3>1
    <3>2. CASE m # 0 /\ m <= p
      <4>1. m - 1 \in 0 .. Depth - 1
        BY <3>2
      <4> QED BY <1>1, <1>4, <3>2, <4>1 DEF HistoryOK
    <3>3. CASE m # 0 /\ ~(m <= p)
      BY <1>1, <1>4, <3>3 DEF HistoryOK
    <3> QED BY <3>1, <3>2, <3>3
  <2> QED BY <2>1, <2>2
<1>6. historyCount' \in 0 .. Depth - 1
  BY <1>1, <1>3 DEF HistoryOK
<1>7. ASSUME NEW m \in 0 .. historyCount' - 1 PROVE history'[m] # NoLine
  <2>1. m \in 0 .. Depth - 1 /\ historyCount \in 0 .. Depth - 1
    BY <1>1, <1>6 DEF HistoryOK
  <2>2. CASE m = 0
    BY <1>1, <1>4, <2>1, <2>2
  <2>3. CASE m # 0 /\ m <= p
    BY <1>2, <1>4, <2>1, <2>3
  <2>4. CASE m # 0 /\ ~(m <= p)
    <3>1. m \in 0 .. historyCount - 1
      <4>1. CASE history[p] = NoLine
        <5>1. ~(p \in 0 .. historyCount - 1)
          BY <1>1, <4>1 DEF HistoryOK
        <5>2. m <= historyCount
          BY <1>3, <1>6, <2>1
        <5> QED BY <1>2, <2>1, <2>4, <5>1, <5>2
      <4>2. CASE history[p] # NoLine
        BY <1>3, <2>1, <4>2
      <4> QED BY <4>1, <4>2
    <3> QED BY <1>1, <1>4, <2>1, <2>4, <3>1 DEF HistoryOK
  <2> QED BY <2>2, <2>3, <2>4
<1>8. HistoryOK'
  BY <1>5, <1>6, <1>7 DEF HistoryOK
<1>9. PlaceOK' /\ EditorOK' /\ command' \in Lines
  BY <1>1, <1>3, SpecialLines DEF PlaceOK, EditorOK, Holds, editorVars
<1> QED BY <1>8, <1>9, TypePartsNext

-----------------------------------------------------------------------------
(* The steps that leave the editor and the history alone. *)
LEMMA OtherSteps ==
    ASSUME TypeOK, Typed \/ Run \/ RunWrite \/ RunRead \/ Poll \/ TakeNul \/ UNCHANGED vars
    PROVE  TypeOK'
<1>1. /\ pc' \in {pc, "write", "read", "input", "take"}
      /\ UNCHANGED <<editorVars, command, historyVars>>
  BY DEF Typed, Run, RunWrite, RunRead, Poll, TakeNul, Go, vars
<1> QED BY <1>1 DEF TypeOK, editorVars, historyVars

(* The buffer never holds more than a line, is zero from the end of the    *)
(* line on, and the indexes of the history never leave it: whatever keys   *)
(* arrive, in whatever order.                                              *)
THEOREM TypeCorrect == Spec => []TypeOK
<1>1. Init => TypeOK
  <2> SUFFICES ASSUME Init PROVE TypeOK
    OBVIOUS
  <2>1. EditorOK
    BY EmptyHolds DEF Init, EditorOK
  <2>2. HistoryOK
    BY NoHistoryOK DEF Init, HistoryOK
  <2>3. PlaceOK /\ command \in Lines
    BY SpecialLines DEF Init, PlaceOK
  <2> QED BY <2>1, <2>2, <2>3, TypeParts
<1>2. TypeOK /\ [Next]_vars => TypeOK'
  <2> SUFFICES ASSUME TypeOK, [Next]_vars PROVE TypeOK'
    OBVIOUS
  <2>1. CASE Typed \/ Run \/ RunWrite \/ RunRead \/ Poll \/ TakeNul \/ UNCHANGED vars
    BY <2>1, OtherSteps
  <2>2. CASE KeyInsertMode \/ KeyUp \/ KeyDown \/ KeyLeft \/ KeyRight
    BY <2>2, MoveSteps
  <2>3. CASE KeyBackspace
    BY <2>3, KeyBackspaceStep
  <2>4. CASE KeyTab
    BY <2>4, KeyTabStep
  <2>5. CASE KeyEnter
    <3>1. Text(buffer, length) \in Lines
      BY EditorText, TypeParts
    <3> QED BY <2>5, <3>1, SubmitStep DEF KeyEnter
  <2>6. ASSUME NEW c \in Chars, KeyChar(c) PROVE TypeOK'
    BY <2>6, KeyCharStep
  <2>7. CASE Execute
    BY <2>7, ExecuteStep
  <2> QED BY <2>1, <2>2, <2>3, <2>4, <2>5, <2>6, <2>7 DEF Next
<1> QED BY <1>1, <1>2, PTL DEF Spec
-----------------------------------------------------------------------------
(* Sequences.                                                              *)

(* What RemoveAt() and InsertAt() of the community modules are. *)
Removed(s, p) == SubSeq(s, 1, p - 1) \o SubSeq(s, p + 1, Len(s))
Enlarged(s, p, e) == SubSeq(s, 1, p - 1) \o <<e>> \o SubSeq(s, p, Len(s))

(* A sequence without one of its elements. *)
LEMMA RemovedElement ==
    ASSUME NEW S, NEW s \in Seq(S), NEW p \in 1 .. Len(s)
    PROVE  /\ Removed(s, p) \in Seq(S) /\ Len(Removed(s, p)) = Len(s) - 1
           /\ \A i \in 1 .. Len(s) - 1 :
                Removed(s, p)[i] = IF i < p THEN s[i] ELSE s[i + 1]
<1> DEFINE u == SubSeq(s, 1, p - 1)
           v == SubSeq(s, p + 1, Len(s))
           r == Removed(s, p)
<1>1. Len(s) \in Nat /\ \A i \in 1 .. Len(s) : s[i] \in S
  OBVIOUS
<1>2. u \in Seq(S) /\ Len(u) = p - 1 /\ \A i \in 1 .. p - 1 : u[i] = s[i]
  BY <1>1, SubSeqProperties
<1>3. v \in Seq(S) /\ Len(v) = Len(s) - p /\ \A i \in 1 .. Len(s) - p : v[i] = s[p + i]
  <2>1. /\ v \in Seq(S)
        /\ Len(v) = IF p + 1 <= Len(s) THEN Len(s) - (p + 1) + 1 ELSE 0
        /\ \A i \in 1 .. Len(s) - (p + 1) + 1 : v[i] = s[p + 1 + i - 1]
    BY <1>1, SubSeqProperties
  <2> QED BY <1>1, <2>1
<1>4. r = u \o v
  BY DEF Removed
<1> HIDE DEF u, v, r
<1>5. /\ r \in Seq(S) /\ Len(r) = Len(u) + Len(v)
      /\ \A i \in 1 .. Len(u) + Len(v) : r[i] = IF i <= Len(u) THEN u[i] ELSE v[i - Len(u)]
  <2>1. u \in Seq(S) /\ v \in Seq(S)
    BY <1>2, <1>3
  <2>2. /\ u \o v \in Seq(S) /\ Len(u \o v) = Len(u) + Len(v)
        /\ \A i \in 1 .. Len(u) + Len(v) :
              (u \o v)[i] = IF i <= Len(u) THEN u[i] ELSE v[i - Len(u)]
    BY ONLY <2>1, ConcatProperties
  <2> QED BY <1>4, <2>2, Zenon
<1>6. ASSUME NEW i \in 1 .. Len(s) - 1 PROVE r[i] = IF i < p THEN s[i] ELSE s[i + 1]
  <2>1. r[i] = IF i <= Len(u) THEN u[i] ELSE v[i - Len(u)]
    BY <1>1, <1>2, <1>3, <1>5
  <2>2. CASE i < p
    BY <1>2, <2>1, <2>2
  <2>3. CASE ~(i < p)
    <3>1. /\ i - Len(u) \in 1 .. Len(s) - p /\ p + (i - Len(u)) = i + 1
          /\ ~(i <= Len(u))
      BY <1>1, <1>2, <2>3
    <3>2. r[i] = s[p + (i - Len(u))]
      BY <1>3, <2>1, <3>1
    <3> QED BY <2>3, <3>1, <3>2
  <2> QED BY <2>2, <2>3
<1>7. r \in Seq(S) /\ Len(r) = Len(s) - 1
  BY <1>1, <1>2, <1>3, <1>5
<1> QED BY <1>6, <1>7 DEF r

(* A line with one more character. *)
LEMMA EnlargedElement ==
    ASSUME NEW s \in Seq(Chars), NEW p \in 1 .. Len(s) + 1, NEW e \in Chars
    PROVE  /\ Enlarged(s, p, e) \in Seq(Chars) /\ Len(Enlarged(s, p, e)) = Len(s) + 1
           /\ \A i \in 1 .. Len(s) + 1 :
                Enlarged(s, p, e)[i] =
                    IF i < p THEN s[i] ELSE IF i = p THEN e ELSE s[i - 1]
<1> DEFINE u == SubSeq(s, 1, p - 1)
           v == SubSeq(s, p, Len(s))
           w == u \o <<e>>
           r == Enlarged(s, p, e)
<1>1. Len(s) \in Nat /\ \A i \in 1 .. Len(s) : s[i] \in Chars
  OBVIOUS
<1>2. u \in Seq(Chars) /\ Len(u) = p - 1 /\ \A i \in 1 .. p - 1 : u[i] = s[i]
  BY <1>1, SubSeqProperties
<1>3. /\ v \in Seq(Chars) /\ Len(v) = Len(s) - p + 1
      /\ \A i \in 1 .. Len(s) - p + 1 : v[i] = s[p + i - 1]
  <2>1. /\ v \in Seq(Chars) /\ Len(v) = IF p <= Len(s) THEN Len(s) - p + 1 ELSE 0
        /\ \A i \in 1 .. Len(s) - p + 1 : v[i] = s[p + i - 1]
    BY <1>1, SubSeqProperties
  <2> QED BY <1>1, <2>1
<1>4. r = w \o v
  BY DEF Enlarged
<1> HIDE DEF u, v, r
<1>5. <<e>> \in Seq(Chars) /\ Len(<<e>>) = 1 /\ <<e>>[1] = e
  OBVIOUS
<1>6. w \in Seq(Chars) /\ Len(w) = p /\ \A i \in 1 .. p : w[i] = IF i < p THEN s[i] ELSE e
  <2>1. /\ w \in Seq(Chars) /\ Len(w) = Len(u) + 1
        /\ \A i \in 1 .. Len(u) + 1 : w[i] = IF i <= Len(u) THEN u[i] ELSE <<e>>[i - Len(u)]
    BY <1>2, <1>5, ConcatProperties
  <2> QED BY <1>2, <1>5, <2>1
<1> HIDE DEF w
<1>7. /\ r \in Seq(Chars) /\ Len(r) = Len(w) + Len(v)
      /\ \A i \in 1 .. Len(w) + Len(v) : r[i] = IF i <= Len(w) THEN w[i] ELSE v[i - Len(w)]
  BY <1>3, <1>4, <1>6, ConcatProperties
<1>8. ASSUME NEW i \in 1 .. Len(s) + 1
      PROVE  r[i] = IF i < p THEN s[i] ELSE IF i = p THEN e ELSE s[i - 1]
  <2>1. r[i] = IF i <= Len(w) THEN w[i] ELSE v[i - Len(w)]
    BY <1>1, <1>3, <1>6, <1>7
  <2>2. CASE i <= p
    BY <1>6, <2>1, <2>2
  <2>3. CASE ~(i <= p)
    <3>1. /\ i - Len(w) \in 1 .. Len(s) - p + 1 /\ p + (i - Len(w)) - 1 = i - 1
          /\ ~(i <= Len(w))
      BY <1>1, <1>6, <2>3
    <3>2. r[i] = s[p + (i - Len(w)) - 1]
      BY <1>3, <2>1, <3>1
    <3> QED BY <2>3, <3>1, <3>2
  <2> QED BY <2>2, <2>3
<1>9. r \in Seq(Chars) /\ Len(r) = Len(s) + 1
  BY <1>1, <1>3, <1>6, <1>7
<1> QED BY <1>8, <1>9 DEF r

-----------------------------------------------------------------------------
(* The ring of characters: what an interrupt and a read do to the unread   *)
(* characters.                                                             *)

(* The slot s has a character older than that of the slot t. *)
Before(s, t) == \E m, n \in DOMAIN order : m < n /\ order[m] = s /\ order[n] = t

(* The indexes wrap at the end of the ring. *)
LEMMA AfterValue ==
    ASSUME NEW s \in Slots
    PROVE  After(s) = (IF s = Size - 1 THEN 0 ELSE s + 1) /\ After(s) \in Slots
<1>1. Size \in Nat /\ Size > 0 /\ s \in Nat /\ s < Size
  BY SizeAssumption DEF Slots
<1>2. CASE s = Size - 1
  <2>1. Size % Size = 0
    BY <1>1
  <2> QED BY <1>1, <1>2, <2>1 DEF After, Slots
<1>3. CASE s # Size - 1
  <2>1. s + 1 \in 0 .. Size - 1
    BY <1>1, <1>3
  <2>2. (s + 1) % Size = s + 1
    BY <1>1, <2>1
  <2> QED BY <1>1, <1>3, <2>1, <2>2 DEF After, Slots
<1> QED BY <1>2, <1>3

(* No slot has two unread characters, so that their order is one. *)
LEMMA BeforeIsStrict ==
    ASSUME RingTypeOK, NEW s, NEW t, Before(s, t)
    PROVE  Unread(s) /\ Unread(t) /\ s # t /\ ~Before(t, s)
BY DEF Before, Unread, RingTypeOK

(* Where an unread character is. *)
LEMMA PositionOfUnread ==
    ASSUME NEW slot, Unread(slot)
    PROVE  Position(slot) \in DOMAIN order /\ order[Position(slot)] = slot
BY DEF Unread, Position

(* Without the character of a slot, the others stay in their order. *)
LEMMA WithoutSlot ==
    ASSUME RingTypeOK, NEW slot \in Slots
    PROVE  /\ Without(slot) \in Seq(Slots \ (blank \cup {slot}))
           /\ \A n \in DOMAIN order : order[n] # slot =>
                  \E m \in DOMAIN Without(slot) : Without(slot)[m] = order[n]
           /\ \A m \in DOMAIN Without(slot) : Unread(Without(slot)[m])
           /\ \A m, n \in DOMAIN Without(slot) :
                  m < n => Before(Without(slot)[m], Without(slot)[n])
           /\ \A s, t : Before(s, t) /\ s # slot /\ t # slot =>
                  \E m, n \in DOMAIN Without(slot) :
                      m < n /\ Without(slot)[m] = s /\ Without(slot)[n] = t
<1> DEFINE S == Slots \ blank
           T == Slots \ (blank \cup {slot})
           p == Position(slot)
           W == Without(slot)
<1>1. order \in Seq(S) /\ \A m, n \in DOMAIN order : order[m] = order[n] => m = n
  BY DEF RingTypeOK
<1>2. CASE ~Unread(slot)
  <2>1. W = order /\ \A n \in DOMAIN order : order[n] # slot
    BY <1>2 DEF Without, Unread
  <2>2. W \in Seq(T)
    BY <1>1, <2>1
  <2> QED BY <2>1, <2>2 DEF Before, Unread
<1>3. CASE Unread(slot)
  <2>1. p \in 1 .. Len(order) /\ order[p] = slot /\ Len(order) \in Nat
    BY <1>1, <1>3, PositionOfUnread
  <2>2. \A n \in 1 .. Len(order) : n # p => order[n] \in T
    BY <1>1, <2>1
  <2>3. /\ W \in Seq(S) /\ Len(W) = Len(order) - 1
        /\ \A i \in 1 .. Len(order) - 1 : W[i] = IF i < p THEN order[i] ELSE order[i + 1]
    <3>1. W = Removed(order, p)
      BY <1>3 DEF Without, Removed
    <3> HIDE DEF W, p, S
    <3> QED BY <1>1, <2>1, <3>1, RemovedElement
  <2>4. \A i \in 1 .. Len(order) - 1 : W[i] \in T
    BY <2>1, <2>2, <2>3
  <2>5. W \in Seq(T)
    BY <2>3, <2>4
  <2> HIDE DEF W, p, T
  <2>6. DOMAIN W = 1 .. Len(order) - 1 /\ DOMAIN order = 1 .. Len(order)
    BY <1>1, <2>3
  <2> DEFINE e(i) == IF i < p THEN i ELSE i + 1   \* where W[i] is in order
             d(n) == IF n < p THEN n ELSE n - 1   \* where order[n] is in W
  <2>7. \A i \in DOMAIN W : e(i) \in DOMAIN order /\ W[i] = order[e(i)]
    BY <2>1, <2>3, <2>6
  <2>8. \A n \in DOMAIN order : n # p => d(n) \in DOMAIN W /\ W[d(n)] = order[n]
    BY <2>1, <2>3, <2>6
  <2>9. \A n \in DOMAIN order : order[n] # slot => n # p
    BY <2>1
  <2>10. \A m, n \in DOMAIN W : m < n => e(m) < e(n)
    BY <2>6, <2>1
  <2>11. \A m, n \in DOMAIN order : m # p /\ n # p /\ m < n => d(m) < d(n)
    BY <2>6, <2>1
  <2> HIDE DEF e, d
  <2>12. W \in Seq(T)
    BY <2>5
  <2>13. \A n \in DOMAIN order : order[n] # slot => \E m \in DOMAIN W : W[m] = order[n]
    BY <2>8, <2>9
  <2>14. \A m \in DOMAIN W : Unread(W[m])
    BY <2>7 DEF Unread
  <2>15. \A m, n \in DOMAIN W : m < n => Before(W[m], W[n])
    BY <2>7, <2>10 DEF Before
  <2>16. ASSUME NEW s, NEW t, Before(s, t), s # slot, t # slot
         PROVE  \E m, n \in DOMAIN W : m < n /\ W[m] = s /\ W[n] = t
    <3>1. PICK m \in DOMAIN order, n \in DOMAIN order : m < n /\ order[m] = s /\ order[n] = t
      BY <2>16 DEF Before
    <3>2. m # p /\ n # p
      BY <2>9, <2>16, <3>1
    <3> QED BY <2>8, <2>11, <3>1, <3>2
  <2> QED BY <2>12, <2>13, <2>14, <2>15, <2>16 DEF T, W
<1> QED BY <1>2, <1>3

(* The interrupt makes the character of the armed slot the newest. *)
LEMMA RxCpltEffect ==
    ASSUME RingTypeOK, RxCplt
    PROVE  /\ RingTypeOK'
           /\ \A s : Unread(s)' <=> Unread(s) \/ s = armed
           /\ \A s, t : Before(s, t) /\ s # armed /\ t # armed => Before(s, t)'
           /\ \A s, t : Unread(s) /\ s # armed /\ t = armed => Before(s, t)'
<1> DEFINE W == Without(armed)
           T == Slots \ (blank \cup {armed})
<1>1. /\ order' = Append(W, armed) /\ blank' = blank \ {armed} /\ readIdx' = readIdx
      /\ writeIdx' = After(writeIdx) /\ armed' = After(writeIdx) /\ lost' \in BOOLEAN
      /\ armed \in Slots /\ writeIdx \in Slots /\ readIdx \in Slots /\ blank \subseteq Slots
  BY DEF RxCplt, RingTypeOK
<1>2. /\ W \in Seq(T)
      /\ \A n \in DOMAIN order : order[n] # armed => \E m \in DOMAIN W : W[m] = order[n]
      /\ \A m \in DOMAIN W : Unread(W[m])
      /\ \A m, n \in DOMAIN W : m < n => Before(W[m], W[n])
      /\ \A s, t : Before(s, t) /\ s # armed /\ t # armed =>
             \E m, n \in DOMAIN W : m < n /\ W[m] = s /\ W[n] = t
  BY <1>1, WithoutSlot
<1> HIDE DEF W, T
<1>3. /\ order' \in Seq(T \cup {armed}) /\ Len(order') = Len(W) + 1
      /\ DOMAIN W = 1 .. Len(W) /\ DOMAIN order' = 1 .. Len(W) + 1 /\ Len(W) \in Nat
      /\ \A i \in 1 .. Len(W) : order'[i] = W[i] /\ W[i] \in T
      /\ order'[Len(W) + 1] = armed
  BY <1>1, <1>2
<1>4. armed \notin T /\ T \cup {armed} \subseteq Slots \ blank'
  BY <1>1 DEF T
<1>5. \A m, n \in DOMAIN order' : order'[m] = order'[n] => m = n
  <2> SUFFICES ASSUME NEW m \in DOMAIN order', NEW n \in DOMAIN order', m < n
               PROVE  order'[m] # order'[n]
    BY <1>3
  <2>1. CASE n = Len(W) + 1
    BY <1>3, <1>4, <2>1
  <2>2. CASE n # Len(W) + 1
    <3>1. m \in DOMAIN W /\ n \in DOMAIN W /\ order'[m] = W[m] /\ order'[n] = W[n]
      BY <1>3, <2>2
    <3> QED BY <1>2, <3>1, BeforeIsStrict
  <2> QED BY <2>1, <2>2
<1>6. order' \in Seq(Slots \ blank')
  BY <1>3, <1>4
<1>7. RingTypeOK'
  BY <1>1, <1>5, <1>6, AfterValue DEF RingTypeOK
<1>8. ASSUME NEW s PROVE Unread(s)' <=> Unread(s) \/ s = armed
  <2>1. Unread(s)' => Unread(s) \/ s = armed
    BY <1>2, <1>3 DEF Unread
  <2>2. Unread(s) /\ s # armed => Unread(s)'
    BY <1>2, <1>3 DEF Unread
  <2>3. s = armed => Unread(s)'
    BY <1>3 DEF Unread
  <2> QED BY <2>1, <2>2, <2>3
<1>9. ASSUME NEW s, NEW t, Before(s, t), s # armed, t # armed PROVE Before(s, t)'
  <2>1. PICK m \in DOMAIN W, n \in DOMAIN W : m < n /\ W[m] = s /\ W[n] = t
    BY <1>2, <1>9
  <2> QED BY <1>3, <2>1 DEF Before
<1>10. ASSUME NEW s, NEW t, Unread(s), s # armed, t = armed PROVE Before(s, t)'
  <2>1. PICK m \in DOMAIN W : W[m] = s
    BY <1>2, <1>10 DEF Unread
  <2>2. /\ m \in DOMAIN order' /\ order'[m] = s /\ m < Len(W) + 1
        /\ Len(W) + 1 \in DOMAIN order' /\ order'[Len(W) + 1] = armed
    BY <1>3, <2>1
  <2> QED BY <1>10, <2>2 DEF Before
<1> QED BY <1>7, <1>8, <1>9, <1>10

(* A read leaves the characters newer than the one it has read; all, if    *)
(* the slot had none.                                                      *)
LEMMA ReadSlotEffect ==
    ASSUME RingTypeOK, ReadSlot
    PROVE  /\ RingTypeOK'
           /\ IF Unread(readIdx)
              THEN /\ \A s : Unread(s)' <=> Before(readIdx, s)
                   /\ \A s, t : Before(readIdx, s) /\ Before(s, t) => Before(s, t)'
              ELSE order' = order
<1> DEFINE p == Position(readIdx)
<1>1. /\ order \in Seq(Slots \ blank) /\ blank' = blank /\ writeIdx' = writeIdx /\ armed' = armed
      /\ readIdx' = After(readIdx) /\ lost' \in BOOLEAN /\ readIdx \in Slots
      /\ \A m, n \in DOMAIN order : order[m] = order[n] => m = n
  BY DEF ReadSlot, RingTypeOK
<1>2. CASE ~Unread(readIdx)
  <2>1. order' = order
    BY <1>2 DEF ReadSlot
  <2>2. RingTypeOK'
    BY <1>1, <2>1, AfterValue DEF RingTypeOK
  <2> QED BY <1>2, <2>1, <2>2
<1>3. CASE Unread(readIdx)
  <2>1. p \in 1 .. Len(order) /\ order[p] = readIdx /\ Len(order) \in Nat
    BY <1>1, <1>3, PositionOfUnread
  <2>2. order' = SubSeq(order, p + 1, Len(order))
    BY <1>3 DEF ReadSlot
  <2>3. /\ order' \in Seq(Slots \ blank) /\ Len(order') = Len(order) - p
        /\ \A i \in 1 .. Len(order) - p : order'[i] = order[p + i]
    <3>1. /\ order' \in Seq(Slots \ blank)
          /\ Len(order') = IF p + 1 <= Len(order) THEN Len(order) - (p + 1) + 1 ELSE 0
          /\ \A i \in 1 .. Len(order) - (p + 1) + 1 : order'[i] = order[p + 1 + i - 1]
      BY <1>1, <2>1, <2>2, SubSeqProperties
    <3>2. Len(order') = Len(order) - p
      BY <2>1, <3>1
    <3>3. \A i \in 1 .. Len(order) - p : i \in 1 .. Len(order) - (p + 1) + 1 /\ p + 1 + i - 1 = p + i
      BY <2>1
    <3> QED BY <3>1, <3>2, <3>3
  <2> HIDE DEF p
  <2>4. DOMAIN order' = 1 .. Len(order) - p /\ DOMAIN order = 1 .. Len(order)
    BY <1>1, <2>3
  <2>5. \A m, n \in DOMAIN order' : order'[m] = order'[n] => m = n
    <3>1. \A m \in DOMAIN order' : p + m \in DOMAIN order /\ order'[m] = order[p + m]
      BY <2>1, <2>3, <2>4
    <3>2. \A m, n \in DOMAIN order' : p + m = p + n => m = n
      BY <2>1, <2>4
    <3> QED BY <1>1, <3>1, <3>2
  <2>6. RingTypeOK'
    BY <1>1, <2>3, <2>5, AfterValue DEF RingTypeOK
  <2>7. \A m \in DOMAIN order : order[m] = readIdx => m = p
    BY <1>1, <2>1, <2>4
  <2>8. ASSUME NEW s PROVE Unread(s)' <=> Before(readIdx, s)
    <3>1. ASSUME Unread(s)' PROVE Before(readIdx, s)
      <4>1. PICK n \in DOMAIN order' : order'[n] = s
        BY <3>1 DEF Unread
      <4>2. p < p + n /\ p + n \in DOMAIN order /\ p \in DOMAIN order /\ order[p + n] = s
        BY <2>1, <2>3, <2>4, <4>1
      <4> QED BY <2>1, <4>2 DEF Before
    <3>2. ASSUME Before(readIdx, s) PROVE Unread(s)'
      <4>1. PICK n \in DOMAIN order : p < n /\ order[n] = s
        BY <2>7, <3>2 DEF Before
      <4>2. n - p \in DOMAIN order' /\ order'[n - p] = s
        BY <2>1, <2>3, <2>4, <4>1
      <4> QED BY <4>2 DEF Unread
    <3> QED BY <3>1, <3>2
  <2>9. ASSUME NEW s, NEW t, Before(readIdx, s), Before(s, t) PROVE Before(s, t)'
    <3>1. PICK m \in DOMAIN order, n \in DOMAIN order : m < n /\ order[m] = s /\ order[n] = t
      BY <2>9 DEF Before
    <3>2. PICK i \in DOMAIN order : p < i /\ order[i] = s
      BY <2>7, <2>9 DEF Before
    <3>3. i = m
      BY <1>1, <3>1, <3>2
    <3>4. m - p \in 1 .. Len(order) - p /\ n - p \in 1 .. Len(order) - p /\ m - p < n - p
      BY <2>1, <2>4, <3>1, <3>2, <3>3
    <3>5. order'[m - p] = s /\ order'[n - p] = t
      BY <2>1, <2>3, <2>4, <3>1, <3>4
    <3> QED BY <2>4, <3>4, <3>5 DEF Before
  <2> QED BY <1>3, <2>6, <2>8, <2>9
<1> QED BY <1>2, <1>3

-----------------------------------------------------------------------------
(* The slots the reader is about to read.                                  *)

(* How far a slot is from the one that is read next. *)
Distance(slot) == IF slot >= readIdx THEN slot - readIdx ELSE slot - readIdx + Size

(* How far the reader can go; between Poll and the read that follows it,   *)
(* equal indexes are a full ring and not an empty one.                     *)
Reach == IF pc = "take" /\ writeIdx = readIdx THEN Size ELSE Distance(writeIdx)

Ahead(slot) == Distance(slot) < Reach

(* Nothing has been read from the slot since Clear. *)
Kept(slot) == slot \in blank \/ Unread(slot)

Started == pc \notin {"boot", "write"}

(* Until the console reads, the reader is at the first slot.  When the     *)
(* write index is reset there, the ring is empty or has been lapped.       *)
StartOK ==
    /\ pc \in {"boot", "write", "read"} => readIdx = 0
    /\ ~Started => armed = writeIdx
    /\ pc = "write" =>
          /\ \A s \in Slots : Kept(s)
          /\ writeIdx = 0 /\ ~lost => order = <<>>

(* The HAL has another slot than the next one only until a character comes. *)
ArmedOK ==
    Started /\ armed # writeIdx =>
        /\ pc # "take" /\ writeIdx = 0 /\ readIdx = 0
        /\ \A s \in Slots : Kept(s)

(* The slots ahead have unread characters, in order; the first may have    *)
(* none, when its character went to the slot armed before.                 *)
AheadOK ==
    Started => \A s \in Slots : Ahead(s) => Unread(s) \/ (s \in blank /\ s = readIdx)

SortedOK ==
    Started =>
        \A s, t \in Slots :
            Ahead(s) /\ Ahead(t) /\ Unread(s) /\ Unread(t) /\ Distance(s) < Distance(t) =>
                Before(s, t)

(* Unless characters are lost, these are the unread ones. *)
ExactOK == Started /\ ~lost /\ armed = writeIdx => \A s \in Slots : Unread(s) <=> Ahead(s)

LapOK == pc = "take" /\ writeIdx = readIdx => lost

RingInv ==
    /\ RingTypeOK
    /\ StartOK /\ ArmedOK /\ AheadOK /\ SortedOK /\ ExactOK /\ LapOK

(* Slots are less than a lap apart, and different ones not equally far. *)
LEMMA DistanceProperties ==
    ASSUME NEW s \in Slots, readIdx \in Slots
    PROVE  /\ Distance(s) \in 0 .. Size - 1
           /\ Distance(s) = 0 <=> s = readIdx
           /\ \A t \in Slots : Distance(t) = Distance(s) => t = s
BY SizeAssumption DEF Slots, Distance

(* The next slot is one further, unless it is the one that is read next. *)
LEMMA DistanceAfter ==
    ASSUME NEW s \in Slots, readIdx \in Slots
    PROVE  /\ After(s) = readIdx <=> Distance(s) = Size - 1
           /\ After(s) # readIdx => Distance(After(s)) = Distance(s) + 1
<1>1. Size \in Nat \ {0} /\ s \in 0 .. Size - 1 /\ readIdx \in 0 .. Size - 1
  BY SizeAssumption DEF Slots
<1>2. After(s) = IF s = Size - 1 THEN 0 ELSE s + 1
  BY AfterValue
<1> QED BY <1>1, <1>2 DEF Distance

(* An interrupt. *)
LEMMA TypedKeepsRing ==
    ASSUME RingInv, Typed
    PROVE  RingInv'
<1> USE DEF RingInv
<1>1. /\ RxCplt /\ RingTypeOK' /\ pc' = pc /\ readIdx' = readIdx /\ blank' = blank \ {armed}
      /\ writeIdx' = After(writeIdx) /\ armed' = After(writeIdx)
      /\ lost' = (lost \/ armed # writeIdx \/ After(writeIdx) = readIdx)
  BY RxCpltEffect DEF Typed, RxCplt
<1>2. /\ writeIdx \in Slots /\ readIdx \in Slots /\ armed \in Slots /\ lost \in BOOLEAN
      /\ After(writeIdx) \in Slots /\ Size \in Nat \ {0}
  BY SizeAssumption, AfterValue DEF RingTypeOK
<1>3. /\ \A s : Unread(s)' <=> Unread(s) \/ s = armed
      /\ \A s, t : Before(s, t) /\ s # armed /\ t # armed => Before(s, t)'
      /\ \A s, t : Unread(s) /\ s # armed /\ t = armed => Before(s, t)'
  BY <1>1, RxCpltEffect
<1>4. \A s \in Slots : Kept(s) => Kept(s)'
  BY <1>1, <1>3 DEF Kept
<1>5. StartOK'
  <2>1. pc = "write" /\ writeIdx' = 0 => lost'
    BY <1>1 DEF StartOK
  <2> QED BY <1>1, <1>4, <2>1 DEF StartOK, Started
<1>6. LapOK' /\ ArmedOK'
  BY <1>1, <1>2 DEF LapOK, ArmedOK
<1>7. \A s \in Slots : Distance(s)' = Distance(s)
  BY <1>1 DEF Distance
<1>8. CASE ~Started
  BY <1>1, <1>5, <1>6, <1>8 DEF Started, AheadOK, SortedOK, ExactOK
<1>9. CASE Started /\ armed # writeIdx
  <2>1. pc # "take" /\ writeIdx = 0 /\ readIdx = 0 /\ lost' /\ \A s \in Slots : Kept(s)
    BY <1>1, <1>9 DEF ArmedOK
  <2>2. Reach' \in 0 .. 1
    <3>1. Reach' = Distance(After(writeIdx))
      BY <1>1, <2>1 DEF Reach, Distance
    <3>2. Distance(writeIdx) = 0
      BY <1>2, <2>1, DistanceProperties
    <3> QED BY <1>2, <3>1, <3>2, DistanceAfter, DistanceProperties
  <2>3. \A s \in Slots : Ahead(s)' => s = readIdx
    <3> SUFFICES ASSUME NEW s \in Slots, Distance(s)' < Reach' PROVE s = readIdx
      BY DEF Ahead
    <3>1. Distance(s) \in 0 .. Size - 1 /\ Distance(s) < Reach'
      BY <1>2, <1>7, DistanceProperties
    <3>2. Distance(s) = 0
      BY <1>2, <2>2, <3>1
    <3> QED BY <1>2, <3>2, DistanceProperties
  <2>4. AheadOK'
    BY <1>1, <1>4, <2>1, <2>3 DEF AheadOK, Kept
  <2>5. SortedOK' /\ ExactOK'
    BY <1>2, <1>7, <2>1, <2>3, DistanceProperties DEF SortedOK, ExactOK
  <2> QED BY <1>1, <1>5, <1>6, <2>4, <2>5
<1>10. CASE Started /\ armed = writeIdx
  <2>1. Started'
    BY <1>1, <1>10 DEF Started
  <2>2. ASSUME NEW s \in Slots, Ahead(s)'
        PROVE  s = armed \/ (Ahead(s) /\ Distance(s) < Distance(armed))
    <3>1. Distance(s) \in 0 .. Size - 1 /\ Distance(armed) \in 0 .. Size - 1
          /\ (Distance(s) = Distance(armed) => s = armed)
      BY <1>2, DistanceProperties
    <3>2. Distance(s) <= Distance(armed)
      <4>1. Distance(s) < Reach'
        BY <1>7, <2>2 DEF Ahead
      <4>2. CASE After(writeIdx) = readIdx
        BY <1>2, <1>10, <3>1, <4>2, DistanceAfter
      <4>3. CASE After(writeIdx) # readIdx
        <5>1. Reach' = Distance(After(writeIdx))
          BY <1>1, <4>3 DEF Reach, Distance
        <5>2. Distance(After(writeIdx)) = Distance(armed) + 1
          BY <1>2, <1>10, <4>3, DistanceAfter
        <5> QED BY <1>2, <3>1, <4>1, <5>1, <5>2, DistanceProperties
      <4> QED BY <4>2, <4>3
    <3>3. Distance(s) < Distance(armed) => Ahead(s)
      BY <1>2, <1>10, <3>1 DEF Ahead, Reach
    <3> QED BY <1>2, <3>1, <3>2, <3>3
  <2>3. AheadOK'
    <3> SUFFICES ASSUME NEW s \in Slots, Ahead(s)'
                 PROVE  Unread(s)' \/ (s \in blank' /\ s = readIdx)
      BY <1>1 DEF AheadOK
    <3>1. s # armed => Unread(s) \/ (s \in blank /\ s = readIdx)
      BY <1>10, <2>2 DEF AheadOK
    <3> QED BY <1>1, <1>3, <3>1
  <2>4. SortedOK'
    <3> SUFFICES ASSUME NEW s \in Slots, NEW t \in Slots,
                        Ahead(s)', Ahead(t)', Unread(s)', Distance(s)' < Distance(t)'
                 PROVE  Before(s, t)'
      BY <2>1 DEF SortedOK
    <3>1. /\ Distance(s) < Distance(t) /\ Distance(s) \in Int /\ Distance(t) \in Int
          /\ Distance(armed) \in Int
      BY <1>2, <1>7, DistanceProperties
    <3>2. s # armed /\ Ahead(s) /\ Unread(s)
      BY <1>3, <2>2, <3>1
    <3>3. CASE t = armed
      BY <1>3, <3>2, <3>3
    <3>4. CASE t # armed
      <4>1. Ahead(t)
        BY <2>2, <3>4
      <4>2. Unread(t)
        BY <1>2, <1>10, <3>1, <3>2, <4>1, DistanceProperties DEF AheadOK
      <4> QED BY <1>3, <1>10, <3>1, <3>2, <3>4, <4>1, <4>2 DEF SortedOK
    <3> QED BY <3>3, <3>4
  <2>5. ExactOK'
    <3> SUFFICES ASSUME ~lost', NEW s \in Slots PROVE Unread(s)' <=> Ahead(s)'
      BY DEF ExactOK
    <3>1. ~lost /\ After(writeIdx) # readIdx
      BY <1>1, <1>2
    <3>2. writeIdx # readIdx \/ pc # "take"
      BY <3>1 DEF LapOK
    <3>3. Reach = Distance(armed) /\ Reach' = Distance(armed) + 1
      <4>1. Reach' = Distance(After(writeIdx))
        BY <1>1, <3>1 DEF Reach, Distance
      <4> QED BY <1>2, <1>10, <3>1, <3>2, <4>1, DistanceAfter DEF Reach
    <3>4. Unread(s) <=> Ahead(s)
      BY <1>10, <3>1 DEF ExactOK
    <3>5. /\ Distance(s) \in Int /\ Distance(armed) \in Int
          /\ (Distance(s) = Distance(armed) => s = armed)
      BY <1>2, DistanceProperties
    <3>6. Ahead(s)' <=> s = armed \/ Ahead(s)
      BY <1>7, <3>3, <3>5 DEF Ahead
    <3> QED BY <1>3, <3>4, <3>6
  <2> QED BY <1>1, <1>5, <1>6, <2>3, <2>4, <2>5
<1> QED BY <1>8, <1>9, <1>10

(* A read. *)
LEMMA ReadKeepsRing ==
    ASSUME RingInv, pc = "take", pc' \notin {"take", "boot", "write", "read"}, ReadSlot
    PROVE  RingInv'
<1> USE DEF RingInv
<1>1. /\ RingTypeOK' /\ readIdx' = After(readIdx) /\ blank' = blank
      /\ UNCHANGED <<writeIdx, armed>> /\ lost' = (lost /\ order' # <<>>)
  BY ReadSlotEffect DEF ReadSlot
<1>2. /\ writeIdx \in Slots /\ readIdx \in Slots /\ readIdx' \in Slots
      /\ order' \in Seq(Slots \ blank') /\ Size \in Nat \ {0}
      /\ lost \in BOOLEAN
  BY <1>1, SizeAssumption DEF RingTypeOK
<1>3. Started /\ Started' /\ armed = writeIdx
  BY DEF Started, ArmedOK
<1>4. Reach \in 1 .. Size /\ Reach = IF writeIdx = readIdx THEN Size ELSE Distance(writeIdx)
  BY <1>2, DistanceProperties DEF Reach
<1>5. ASSUME NEW s \in Slots
      PROVE  Distance(s)' = IF s = readIdx THEN Size - 1 ELSE Distance(s) - 1
  <2>1. After(readIdx) = IF readIdx = Size - 1 THEN 0 ELSE readIdx + 1
    BY <1>2, AfterValue
  <2>2. Distance(s)' = IF s >= After(readIdx) THEN s - After(readIdx)
                       ELSE s - After(readIdx) + Size
    BY <1>1 DEF Distance
  <2>3. s \in 0 .. Size - 1 /\ readIdx \in 0 .. Size - 1
    BY <1>2 DEF Slots
  <2>4. CASE readIdx = Size - 1
    <3>1. Distance(s)' = s
      BY <2>1, <2>2, <2>3, <2>4
    <3>2. Distance(s) = IF s = readIdx THEN 0 ELSE s + 1
      BY <1>2, <2>3, <2>4 DEF Distance
    <3> QED BY <1>2, <2>3, <2>4, <3>1, <3>2
  <2>5. CASE readIdx # Size - 1
    <3>1. Distance(s)' = IF s >= readIdx + 1 THEN s - (readIdx + 1) ELSE s - (readIdx + 1) + Size
      BY <2>1, <2>2, <2>5
    <3>2. Distance(s) = IF s >= readIdx THEN s - readIdx ELSE s - readIdx + Size
      BY DEF Distance
    <3> QED BY <1>2, <2>3, <3>1, <3>2
  <2> QED BY <2>4, <2>5
<1>6. Reach' = Reach - 1
  BY <1>1, <1>2, <1>4, <1>5 DEF Reach, Distance
<1>7. ASSUME NEW s \in Slots PROVE Ahead(s)' <=> Ahead(s) /\ s # readIdx
  <2>1. Distance(s) \in 0 .. Size - 1
    BY <1>2, DistanceProperties
  <2> QED BY <1>2, <1>4, <1>5, <1>6, <2>1 DEF Ahead
<1>8. Ahead(readIdx) /\ Distance(readIdx) = 0
  BY <1>2, <1>4, DistanceProperties DEF Ahead
<1>9. ASSUME NEW s \in Slots, Ahead(s), s # readIdx
      PROVE  Unread(s) /\ Unread(s)'
  <2>1. Unread(s)
    BY <1>3, <1>9 DEF AheadOK
  <2>2. Distance(s) > 0
    BY <1>2, <1>9, DistanceProperties
  <2>3. CASE Unread(readIdx)
    <3>1. Before(readIdx, s)
      BY <1>2, <1>3, <1>8, <1>9, <2>1, <2>2, <2>3 DEF SortedOK
    <3> QED BY <2>1, <2>3, <3>1, ReadSlotEffect
  <2>4. CASE ~Unread(readIdx)
    <3>1. order' = order
      BY <2>4, ReadSlotEffect
    <3> QED BY <2>1, <3>1 DEF Unread
  <2> QED BY <2>3, <2>4
<1>10. AheadOK'
  BY <1>7, <1>9 DEF AheadOK
<1>11. SortedOK'
  <2> SUFFICES ASSUME NEW s \in Slots, NEW t \in Slots,
                      Ahead(s)', Ahead(t)', Distance(s)' < Distance(t)'
               PROVE  Before(s, t)'
    BY DEF SortedOK
  <2>1. Ahead(s) /\ Ahead(t) /\ s # readIdx /\ t # readIdx /\ Unread(s) /\ Unread(t)
    BY <1>7, <1>9
  <2>2. Distance(s) < Distance(t) /\ Distance(readIdx) < Distance(s)
    BY <1>2, <1>5, <1>8, <2>1, DistanceProperties
  <2>3. Before(s, t) /\ (Unread(readIdx) => Before(readIdx, s))
    BY <1>2, <1>3, <1>8, <2>1, <2>2 DEF SortedOK
  <2>4. CASE Unread(readIdx)
    BY <2>3, <2>4, ReadSlotEffect
  <2>5. CASE ~Unread(readIdx)
    <3>1. order' = order
      BY <2>5, ReadSlotEffect
    <3> QED BY <2>3, <3>1 DEF Before
  <2> QED BY <2>4, <2>5
<1>12. ExactOK'
  <2> SUFFICES ASSUME ~lost', NEW s \in Slots PROVE Unread(s)' <=> Ahead(s)'
    BY DEF ExactOK
  <2>1. ASSUME Ahead(s)' PROVE Unread(s)'
    BY <1>7, <1>9, <2>1
  <2>2. ASSUME Unread(s)' PROVE Ahead(s)'
    <3>1. order' # <<>>
      BY <2>2 DEF Unread
    <3>2. ~lost
      BY <1>1, <3>1
    <3>3. \A t \in Slots : Unread(t) <=> Ahead(t)
      BY <1>3, <3>2 DEF ExactOK
    <3>4. Before(readIdx, s)
      BY <1>2, <1>8, <2>2, <3>3, ReadSlotEffect
    <3>5. Unread(s) /\ s # readIdx
      BY <3>4, BeforeIsStrict
    <3> QED BY <1>7, <3>3, <3>5
  <2> QED BY <2>1, <2>2
<1>13. StartOK' /\ ArmedOK' /\ LapOK'
  BY <1>1, <1>3 DEF StartOK, ArmedOK, LapOK
<1> QED BY <1>1, <1>10, <1>11, <1>12, <1>13

-----------------------------------------------------------------------------
(* The steps of the console that read nothing. *)

(* The ring is cleared, and its write index reset, before the first read. *)
LEMMA ResetKeepsRing ==
    ASSUME RingInv, Run \/ RunWrite
    PROVE  RingInv'
<1> USE DEF RingInv
<1>1. CASE Run
  <2>1. /\ pc = "boot" /\ pc' = "write" /\ blank' = Slots /\ order' = <<>> /\ lost' = FALSE
        /\ UNCHANGED <<writeIdx, readIdx, armed>>
    BY <1>1 DEF Run, Go, Clear
  <2>2. RingTypeOK'
    <3>1. order' \in Seq(Slots \ blank') /\ DOMAIN order' = {}
      BY <2>1
    <3>2. lost' \in BOOLEAN
      BY <2>1
    <3> QED BY <2>1, <3>1, <3>2 DEF RingTypeOK
  <2>3. StartOK'
    BY <2>1 DEF StartOK, Started, Kept
  <2> QED BY <2>1, <2>2, <2>3 DEF ArmedOK, AheadOK, SortedOK, ExactOK, LapOK, Started
<1>2. CASE RunWrite
  <2>1. /\ pc = "write" /\ pc' = "read" /\ writeIdx' = 0
        /\ UNCHANGED <<readIdx, armed, blank, order, lost>>
    BY <1>2 DEF RunWrite, Go, ResetWriteIdx
  <2>2. /\ readIdx = 0 /\ armed = writeIdx /\ \A s \in Slots : Kept(s)
        /\ writeIdx = 0 /\ ~lost => order = <<>>
    BY <2>1 DEF StartOK, Started
  <2>3. RingTypeOK'
    BY <2>1, SizeAssumption DEF RingTypeOK, Slots
  <2>4. StartOK' /\ ArmedOK' /\ LapOK'
    BY <2>1, <2>2 DEF StartOK, ArmedOK, LapOK, Started, Kept, Unread
  <2>5. \A s \in Slots : ~Ahead(s)'
    <3>1. Reach' = 0
      BY <2>1, <2>2 DEF Reach, Distance
    <3>2. \A s \in Slots : Distance(s)' \in 0 .. Size - 1
      BY <2>1, DistanceProperties DEF RingTypeOK, Distance
    <3> QED BY <3>1, <3>2 DEF Ahead
  <2>6. AheadOK' /\ SortedOK' /\ ExactOK'
    BY <2>1, <2>2, <2>5 DEF AheadOK, SortedOK, ExactOK, Unread
  <2> QED BY <2>3, <2>4, <2>6
<1> QED BY <1>1, <1>2

(* Nothing happens to the ring. *)
LEMMA SameRing ==
    ASSUME RingInv, UNCHANGED ringVars,
           \/ pc' = pc
           \/ pc \notin {"boot", "write", "take"} /\ pc' \notin {"boot", "write", "read", "take"}
           \/ pc = "input" /\ pc' = "take" /\ HasChar
    PROVE  RingInv'
<1> USE DEF RingInv, ringVars
<1>1. RingTypeOK' /\ LapOK'
  BY DEF RingTypeOK, LapOK, HasChar
<1>2. Started' = Started /\ Reach' = Reach
  BY DEF Started, Reach, HasChar, Distance
<1>3. /\ \A s : Unread(s)' <=> Unread(s)
      /\ \A s : Distance(s)' = Distance(s)
      /\ \A s, t : Before(s, t)' <=> Before(s, t)
  BY DEF Unread, Distance, Before
<1>4. \A s : (Ahead(s)' <=> Ahead(s)) /\ (Kept(s)' <=> Kept(s))
  BY <1>2, <1>3 DEF Ahead, Kept
<1>5. StartOK'
  BY <1>2, <1>4 DEF StartOK, Started
<1>6. ArmedOK'
  BY <1>2, <1>4 DEF ArmedOK, Started, HasChar
<1>7. AheadOK' /\ SortedOK' /\ ExactOK'
  BY <1>2, <1>3, <1>4 DEF AheadOK, SortedOK, ExactOK
<1> QED BY <1>1, <1>5, <1>6, <1>7

(* A key is one read, and the console then polls, executes or has ended. *)
LEMMA KeyReads ==
    ASSUME TakeNul \/ KeyInsertMode \/ KeyUp \/ KeyDown \/ KeyLeft \/ KeyRight
           \/ KeyBackspace \/ KeyTab \/ KeyEnter \/ (\E c \in Chars : KeyChar(c))
    PROVE  pc = "take" /\ ReadSlot /\ pc' \in {"input", "execute", "done"}
<1>1. CASE TakeNul
  BY <1>1 DEF TakeNul, Go
<1>2. \A b, n, c : Edit(b, n, c) => pc' = "input"
  BY DEF Edit
<1>3. \A n : Show(n) => pc' = "input"
  BY <1>2 DEF Show
<1>4. \A text : Submit(text) => pc' \in {"input", "execute", "done"}
  BY DEF Submit
<1>5. CASE KeyInsertMode \/ KeyUp \/ KeyDown \/ KeyLeft \/ KeyRight \/ KeyBackspace
  BY <1>2, <1>3, <1>5
     DEF Key, KeyInsertMode, KeyUp, KeyDown, KeyLeft, KeyRight, KeyBackspace
<1>6. CASE KeyTab
  BY <1>2, <1>6 DEF Key, KeyTab
<1>7. CASE KeyEnter
  BY <1>4, <1>7 DEF Key, KeyEnter
<1>8. CASE \E c \in Chars : KeyChar(c)
  BY <1>2, <1>4, <1>8 DEF Key, KeyChar
<1> QED BY <1>1, <1>5, <1>6, <1>7, <1>8

(* Every step of the system keeps the ring. *)
LEMMA StepKeepsRing ==
    ASSUME RingInv, [Next]_vars
    PROVE  RingInv'
<1>1. CASE Typed
  BY <1>1, TypedKeepsRing
<1>2. CASE Run \/ RunWrite
  BY <1>2, ResetKeepsRing
<1>3. CASE RunRead
  <2>1. pc = "read" /\ pc' = "input" /\ readIdx' = 0 /\ UNCHANGED <<writeIdx, armed, blank, order, lost>>
    BY <1>3 DEF RunRead, Go, ResetReadIdx
  <2>2. UNCHANGED ringVars
    BY <2>1 DEF RingInv, StartOK, ringVars
  <2> QED BY <2>1, <2>2, SameRing
<1>4. CASE Poll
  BY <1>4, SameRing DEF Poll, Go
<1>5. CASE Execute
  BY <1>5, SameRing DEF Execute
<1>6. CASE UNCHANGED vars
  BY <1>6, SameRing DEF vars
<1>7. CASE TakeNul \/ KeyInsertMode \/ KeyUp \/ KeyDown \/ KeyLeft \/ KeyRight
           \/ KeyBackspace \/ KeyTab \/ KeyEnter \/ (\E c \in Chars : KeyChar(c))
  <2>1. pc = "take" /\ ReadSlot /\ pc' \in {"input", "execute", "done"}
    BY <1>7, KeyReads
  <2> QED BY <2>1, ReadKeepsRing
<1> QED BY <1>1, <1>2, <1>3, <1>4, <1>5, <1>6, <1>7 DEF Next

(* What is read next, when the console has seen that there is a character. *)
LEMMA ReadIsInOrder ==
    ASSUME RingInv
    PROVE  ReadsInOrder
<1> SUFFICES ASSUME pc = "take" PROVE NextInOrder
  BY DEF ReadsInOrder
<1> USE DEF RingInv
<1>1. /\ writeIdx \in Slots /\ readIdx \in Slots /\ Size \in Nat \ {0}
      /\ order \in Seq(Slots \ blank)
  BY SizeAssumption DEF RingTypeOK
<1>2. Started /\ armed = writeIdx
  BY DEF Started, ArmedOK
<1>3. Ahead(readIdx) /\ Distance(readIdx) = 0
  <2>1. Distance(readIdx) = 0 /\ Distance(writeIdx) \in 0 .. Size - 1
        /\ (Distance(writeIdx) = 0 <=> writeIdx = readIdx)
    BY <1>1, DistanceProperties
  <2> QED BY <1>1, <2>1 DEF Ahead, Reach
<1>4. Unread(readIdx) \/ readIdx \in blank
  BY <1>1, <1>2, <1>3 DEF AheadOK
<1>5. CASE lost
  BY <1>4, <1>5 DEF NextInOrder
<1>6. CASE ~lost
  <2>1. \A s \in Slots : Unread(s) <=> Ahead(s)
    BY <1>2, <1>6 DEF ExactOK
  <2>2. Unread(readIdx)
    BY <1>1, <1>3, <2>1
  <2>3. order # <<>> /\ 1 \in DOMAIN order /\ Head(order) = order[1] /\ order[1] \in Slots
    BY <1>1, <2>2 DEF Unread
  <2>4. order[1] = readIdx
    <3> SUFFICES ASSUME order[1] # readIdx PROVE FALSE
      OBVIOUS
    <3>1. Unread(order[1]) /\ Ahead(order[1])
      BY <2>1, <2>3 DEF Unread
    <3>2. Distance(order[1]) > 0
      BY <1>1, <2>3, DistanceProperties
    <3>3. Before(readIdx, order[1])
      BY <1>1, <1>2, <1>3, <2>2, <2>3, <3>1, <3>2 DEF SortedOK
    <3>4. PICK m \in DOMAIN order, n \in DOMAIN order : m < n /\ order[n] = order[1]
      BY <3>3 DEF Before
    <3>5. n = 1
      BY <2>3, <3>4 DEF RingTypeOK
    <3> QED BY <1>1, <3>4, <3>5
  <2> QED BY <2>3, <2>4 DEF NextInOrder
<1> QED BY <1>5, <1>6

(* Whenever interrupts come between the steps of the console, the ring is  *)
(* as the reader needs it.                                                 *)
THEOREM RingCorrect == Spec => []RingInv
<1>1. Init => RingInv
  <2> SUFFICES ASSUME Init PROVE RingInv
    OBVIOUS
  <2>1. /\ writeIdx = 0 /\ readIdx = 0 /\ armed = 0 /\ blank = Slots /\ order = <<>>
        /\ lost = FALSE /\ pc = "boot"
    BY DEF Init, RingInit
  <2>2. RingTypeOK
    <3>1. order \in Seq(Slots \ blank) /\ DOMAIN order = {}
      BY <2>1
    <3>2. lost \in BOOLEAN
      BY <2>1
    <3>3. 0 \in Slots
      BY SizeAssumption DEF Slots
    <3> QED BY <2>1, <3>1, <3>2, <3>3 DEF RingTypeOK
  <2> QED BY <2>1, <2>2
          DEF RingInv, StartOK, ArmedOK, AheadOK, SortedOK, ExactOK, LapOK, Started
<1>2. RingInv /\ [Next]_vars => RingInv'
  BY StepKeepsRing
<1> QED BY <1>1, <1>2, PTL DEF Spec

(* The indexes stay in the ring, and no slot is unread twice. *)
THEOREM RingTypeCorrect == Spec => []RingTypeOK
<1>1. RingInv => RingTypeOK
  BY DEF RingInv
<1> QED BY <1>1, RingCorrect, PTL

(* Characters are read in the order typed, and none twice: unless some are *)
(* lost, the slot read next has the oldest unread one.                     *)
THEOREM ReadsAreInOrder == Spec => []ReadsInOrder
<1>1. RingInv => ReadsInOrder
  BY ReadIsInOrder
<1> QED BY <1>1, RingCorrect, PTL

-----------------------------------------------------------------------------
(* What the person who types sees: the refinement of ConsoleSession.       *)

(* The first n places of the history have commands, each another one. *)
Holding(n) ==
    /\ n \in 0 .. Depth
    /\ \A m \in 0 .. Depth - 1 : history[m] # NoLine <=> m < n

DistinctOK ==
    /\ \E n \in 0 .. Depth : Holding(n)
    /\ \A m, n \in 0 .. Depth - 1 : history[m] = history[n] /\ history[m] # NoLine => m = n

(* A command is there only while it waits for its execution. *)
CommandOK ==
    IF pc = "execute" THEN command # NoCommand /\ length = 0 ELSE command = NoCommand

SessionInv == TypeOK /\ DistinctOK /\ CommandOK

(* How many commands are remembered. *)
LEMMA RememberedIs ==
    ASSUME NEW n, Holding(n)
    PROVE  Remembered = n
<1>1. \A k \in 0 .. Depth :
        (\A m \in 0 .. Depth - 1 : history[m] # NoLine <=> m < k) => k = n
  <2> SUFFICES ASSUME NEW k \in 0 .. Depth, k # n,
                      \A m \in 0 .. Depth - 1 : history[m] # NoLine <=> m < k
               PROVE  FALSE
    OBVIOUS
  <2>1. CASE k < n
    BY <2>1 DEF Holding
  <2>2. CASE n < k
    BY <2>2 DEF Holding
  <2> QED BY <2>1, <2>2 DEF Holding
<1> QED BY <1>1 DEF Remembered, Holding

LEMMA RememberedIsNext ==
    ASSUME NEW n \in 0 .. Depth, \A m \in 0 .. Depth - 1 : history'[m] # NoLine <=> m < n
    PROVE  Remembered' = n
<1>1. \A k \in 0 .. Depth :
        (\A m \in 0 .. Depth - 1 : history'[m] # NoLine <=> m < k) => k = n
  <2> SUFFICES ASSUME NEW k \in 0 .. Depth, k # n,
                      \A m \in 0 .. Depth - 1 : history'[m] # NoLine <=> m < k
               PROVE  FALSE
    OBVIOUS
  <2>1. CASE k < n
    BY <2>1
  <2>2. CASE n < k
    BY <2>2
  <2> QED BY <2>1, <2>2
<1> QED BY <1>1 DEF Remembered

(* The line of the editor. *)
LEMMA LineProperties ==
    ASSUME EditorOK
    PROVE  /\ Text(buffer, length) \in Lines /\ Text(buffer, length) \in Seq(Chars)
           /\ length \in 0 .. MaxLine - 1 /\ Len(Text(buffer, length)) = length
           /\ \A j \in 1 .. length : Text(buffer, length)[j] = buffer[j - 1]
<1>1. length \in 0 .. MaxLine - 1 /\ \A j \in 0 .. length - 1 : buffer[j] \in Chars
  BY DEF EditorOK, Holds
<1>2. length \in Nat /\ \A j \in 1 .. length : j - 1 \in 0 .. length - 1
  BY <1>1
<1>3. Text(buffer, length) \in [1 .. length -> Chars]
  BY <1>1, <1>2 DEF Text
<1>4. Text(buffer, length) \in Seq(Chars) /\ Len(Text(buffer, length)) = length
  BY <1>2, <1>3
<1>5. \A j \in 1 .. length : Text(buffer, length)[j] = buffer[j - 1]
  BY DEF Text
<1> QED BY <1>1, <1>4, <1>5, EditorText

(* The commands remembered. *)
LEMMA RecentProperties ==
    ASSUME HistoryOK, NEW n, Holding(n)
    PROVE  /\ Text(history, Remembered) = Text(history, n)
           /\ Text(history, n) \in Seq(Lines) /\ Len(Text(history, n)) = n
           /\ \A j \in 1 .. n : Text(history, n)[j] = history[j - 1]
           /\ \A m \in 0 .. n - 1 : history[m] \in Session!ToSet(Text(history, n))
           /\ \A text \in Session!ToSet(Text(history, n)) :
                \E m \in 0 .. n - 1 : text = history[m]
<1>1. n \in 0 .. Depth /\ n \in Nat /\ Remembered = n
  <2>1. n \in 0 .. Depth
    BY DEF Holding
  <2>2. Remembered = n
    BY RememberedIs
  <2> QED BY <2>1, <2>2
<1>2. \A j \in 0 .. n - 1 : history[j] \in Lines
  BY DEF HistoryOK, Holding
<1>3. /\ Text(history, n) \in Seq(Lines) /\ Len(Text(history, n)) = n
      /\ DOMAIN Text(history, n) = 1 .. n
      /\ \A j \in 1 .. n : Text(history, n)[j] = history[j - 1]
  <2>1. \A j \in 1 .. n : j - 1 \in 0 .. n - 1
    BY <1>1
  <2>2. Text(history, n) \in [1 .. n -> Lines]
    BY <1>2, <2>1 DEF Text
  <2>3. \A j \in 1 .. n : Text(history, n)[j] = history[j - 1]
    BY DEF Text
  <2> QED BY <1>1, <2>2, <2>3
<1>4. ASSUME NEW m \in 0 .. n - 1 PROVE history[m] \in Session!ToSet(Text(history, n))
  <2>1. m + 1 \in 1 .. n /\ m + 1 - 1 = m
    BY <1>1
  <2> QED BY <1>3, <2>1 DEF Session!ToSet
<1>5. ASSUME NEW text \in Session!ToSet(Text(history, n))
      PROVE  \E m \in 0 .. n - 1 : text = history[m]
  <2>1. PICK j \in 1 .. n : text = history[j - 1]
    BY <1>3 DEF Session!ToSet
  <2> QED BY <1>1, <2>1
<1> QED BY <1>1, <1>3, <1>4, <1>5

(* While the history stays as it is, so do the commands remembered. *)
LEMMA SameRecent ==
    ASSUME UNCHANGED historyVars
    PROVE  Text(history, Remembered)' = Text(history, Remembered)
<1>1. history' = history
  BY DEF historyVars
<1>2. Remembered' = Remembered
  BY <1>1 DEF Remembered
<1> QED BY <1>1, <1>2 DEF Text

(* An edit shows another line, or the cursor at another place. *)
LEMMA EditShows ==
    ASSUME NEW b, NEW n, NEW c, Edit(b, n, c)
    PROVE  Session!Show(Text(b, n), c)
<1>1. buffer' = b /\ length' = n /\ cursor' = c /\ command' = command
      /\ UNCHANGED historyVars
  BY DEF Edit
<1>2. Text(buffer, length)' = Text(b, n)
  BY <1>1 DEF Text
<1> QED BY <1>1, <1>2, SameRecent DEF Session!Show

(* One that leaves both as they are is no step. *)
LEMMA EditStutters ==
    ASSUME Edit(buffer, length, cursor)
    PROVE  UNCHANGED Session!vars
<1>1. Session!Show(Text(buffer, length), cursor)
  BY EditShows
<1> QED BY <1>1 DEF Session!Show, Session!vars

(* strncpy() shows the text it copies. *)
LEMMA FilledText ==
    ASSUME EditorOK, NEW text \in Lines
    PROVE  Text(Filled(text), Len(text)) = text
<1>1. text \in Seq(Chars) /\ Len(text) \in 0 .. MaxLine - 1
  BY LineDef
<1>2. DOMAIN buffer = 0 .. MaxLine - 1
  BY DEF EditorOK, Holds
<1>3. ASSUME NEW j \in 1 .. Len(text) PROVE Filled(text)[j - 1] = text[j]
  <2>1. j - 1 \in 0 .. MaxLine - 1 /\ j - 1 < Len(text) /\ j - 1 + 1 = j
    BY <1>1
  <2> QED BY <1>2, <2>1 DEF Filled
<1>4. text = [j \in 1 .. Len(text) |-> text[j]]
  BY <1>1
<1> QED BY <1>3, <1>4 DEF Text

(* The arrow keys. *)
LEMMA ArrowKeysRefine ==
    ASSUME SessionInv, KeyInsertMode \/ KeyUp \/ KeyDown \/ KeyLeft \/ KeyRight
    PROVE  Session!Move \/ Session!Recall \/ UNCHANGED Session!vars
<1>1. EditorOK /\ HistoryOK /\ browsed \in -1 .. Depth - 1 /\ cursor \in 0 .. length
  BY TypeParts DEF SessionInv, EditorOK
<1>2. Len(Text(buffer, length)) = length /\ length \in 0 .. MaxLine - 1
  BY <1>1, LineProperties
<1>3. CASE KeyInsertMode
  BY <1>3, EditStutters DEF KeyInsertMode
<1>4. ASSUME NEW n \in 0 .. Depth - 1, Show(n)
      PROVE  Session!Recall \/ UNCHANGED Session!vars
  <2>1. CASE history[n] = NoLine
    BY <1>4, <2>1, EditStutters DEF Show
  <2>2. CASE history[n] # NoLine
    <3>1. history[n] \in Lines
      BY <1>1, <2>2 DEF HistoryOK
    <3>2. Session!Show(history[n], Len(history[n]))
      BY <1>1, <1>4, <2>2, <3>1, EditShows, FilledText DEF Show
    <3>3. history[n] \in Session!ToSet(Text(history, Remembered))
      <4>1. PICK k \in 0 .. Depth : Holding(k)
        BY DEF SessionInv, DistinctOK
      <4>2. n \in 0 .. k - 1
        BY <2>2, <4>1 DEF Holding
      <4> QED BY <1>1, <4>1, <4>2, RecentProperties
    <3> QED BY <3>2, <3>3 DEF Session!Recall
  <2> QED BY <2>1, <2>2
<1>5. CASE KeyUp
  <2>1. Show(browsed') /\ browsed' \in 0 .. Depth - 1
    BY <1>1, <1>5 DEF KeyUp
  <2> QED BY <1>4, <2>1
<1>6. CASE KeyDown
  <2>1. Show(browsed') /\ browsed' = IF browsed > 0 THEN browsed - 1 ELSE 0
    BY <1>6 DEF KeyDown
  <2>2. browsed' \in 0 .. Depth - 1
    BY <1>1, <2>1
  <2> QED BY <1>4, <2>1, <2>2
<1>7. ASSUME NEW c \in {cursor - 1, cursor + 1} \cap 0 .. length, Edit(buffer, length, c)
      PROVE  Session!Move
  BY <1>2, <1>7, EditShows DEF Session!Move
<1>8. CASE KeyLeft
  <2>1. CASE cursor > 0
    <3>1. Edit(buffer, length, cursor - 1) /\ cursor - 1 \in 0 .. length
      BY <1>1, <1>2, <1>8, <2>1 DEF KeyLeft
    <3> QED BY <1>7, <3>1
  <2>2. CASE ~(cursor > 0)
    BY <1>8, <2>2, EditStutters DEF KeyLeft
  <2> QED BY <2>1, <2>2
<1>9. CASE KeyRight
  <2>1. CASE cursor < length
    <3>1. Edit(buffer, length, cursor + 1) /\ cursor + 1 \in 0 .. length
      BY <1>1, <1>2, <1>9, <2>1 DEF KeyRight
    <3> QED BY <1>7, <3>1
  <2>2. CASE ~(cursor < length)
    BY <1>9, <2>2, EditStutters DEF KeyRight
  <2> QED BY <2>1, <2>2
<1> QED BY <1>3, <1>5, <1>6, <1>8, <1>9

(* A backspace takes the character left of the cursor out of the line. *)
LEMMA BackspaceRefines ==
    ASSUME SessionInv, KeyBackspace
    PROVE  Session!Erase \/ UNCHANGED Session!vars
<1>1. EditorOK /\ cursor \in 0 .. length /\ DOMAIN buffer = 0 .. MaxLine - 1
  BY TypeParts DEF SessionInv, EditorOK, Holds
<1> DEFINE line == Text(buffer, length)
<1>2. /\ line \in Seq(Chars) /\ Len(line) = length /\ length \in 0 .. MaxLine - 1
      /\ \A j \in 1 .. length : line[j] = buffer[j - 1]
  BY <1>1, LineProperties
<1>3. CASE ~(cursor > 0)
  BY <1>3, EditStutters DEF KeyBackspace
<1>4. CASE cursor > 0
  <2>1. Session!Show(Text(Erased, length - 1), cursor - 1)
    BY <1>4, EditShows DEF KeyBackspace
  <2>2. cursor \in 1 .. Len(line)
    BY <1>1, <1>2, <1>4
  <2> HIDE DEF line
  <2>3. /\ Removed(line, cursor) \in Seq(Chars) /\ Len(Removed(line, cursor)) = length - 1
        /\ \A j \in 1 .. length - 1 :
              Removed(line, cursor)[j] = IF j < cursor THEN line[j] ELSE line[j + 1]
    BY <1>2, <2>2, RemovedElement
  <2>4. ASSUME NEW j \in 1 .. length - 1
        PROVE  Erased[j - 1] = Removed(line, cursor)[j]
    <3>1. /\ j - 1 \in 0 .. MaxLine - 1 /\ j - 1 # length /\ j \in 1 .. length /\ j + 1 \in 1 .. length
          /\ j - 1 + 1 = j /\ j + 1 - 1 = j
          /\ (j - 1 \in cursor - 1 .. length - 1 <=> ~(j < cursor))
      BY <1>1, <1>2
    <3>2. Erased[j - 1] = IF j < cursor THEN buffer[j - 1] ELSE buffer[j]
      BY <1>1, <3>1 DEF Erased
    <3> QED BY <1>2, <2>3, <3>1, <3>2
  <2>5. Text(Erased, length - 1) = Removed(line, cursor)
    <3>1. Removed(line, cursor) = [j \in 1 .. length - 1 |-> Removed(line, cursor)[j]]
      BY <2>3
    <3> QED BY <2>4, <3>1 DEF Text
  <2>6. Removed(line, cursor) = Session!RemoveAt(line, cursor)
    BY DEF Removed, Session!RemoveAt
  <2> QED BY <1>4, <2>1, <2>5, <2>6 DEF Session!Erase, line
<1> QED BY <1>3, <1>4

(* Two lines of which the code says that one is a prefix of the other. *)
LEMMA PrefixIsPrefix ==
    ASSUME NEW text, NEW name, IsPrefixOf(text, name), text \in Seq(Chars)
    PROVE  Session!IsPrefix(text, name)
<1>1. SubSeq(text, 1, Len(text)) = text
  BY SubSeqFull
<1> QED BY <1>1 DEF IsPrefixOf, Session!IsPrefix

(* A tabulator completes the line, or moves the cursor to its end. *)
LEMMA TabRefines ==
    ASSUME SessionInv, KeyTab
    PROVE  Session!Complete \/ UNCHANGED Session!vars
<1>1. EditorOK
  BY TypeParts DEF SessionInv
<1> DEFINE line == Text(buffer, length)
           found == Matches(line)
<1>2. line \in Seq(Chars) /\ Len(line) = length
  BY <1>1, LineProperties
<1>3. ASSUME NEW name \in found
      PROVE  name \in Lines /\ name \in Seq(Chars) /\ Session!IsPrefix(line, name)
  <2>1. name \in Names /\ (name = line \/ IsPrefixOf(line, name))
    BY DEF Matches
  <2>2. name \in Lines /\ name \in Seq(Chars)
    BY <2>1, NamesAreLines, LineDef
  <2>3. name = line => Session!IsPrefix(line, name)
    BY <1>2 DEF Session!IsPrefix
  <2> QED BY <1>2, <2>1, <2>2, <2>3, PrefixIsPrefix
<1>4. ASSUME NEW name \in Seq(Chars), Session!IsPrefix(line, name),
             Session!Show(name, Len(name))
      PROVE  Session!Complete
  BY <1>4 DEF Session!Complete, Session!Show
<1>5. \/ \E name \in found : Edit(Filled(name), Len(name), Len(name))
      \/ Edit(buffer, length, length)
      \/ Edit(buffer, length, cursor)
  BY DEF KeyTab
<1>6. ASSUME NEW name \in found, Edit(Filled(name), Len(name), Len(name))
      PROVE  Session!Complete
  <2>1. name \in Lines /\ name \in Seq(Chars) /\ Session!IsPrefix(line, name)
    BY <1>3
  <2>2. Session!Show(name, Len(name))
    BY <1>1, <1>6, <2>1, EditShows, FilledText
  <2> QED BY <1>4, <2>1, <2>2
<1>7. ASSUME Edit(buffer, length, length) PROVE Session!Complete
  <2>1. Session!Show(line, Len(line))
    BY <1>2, <1>7, EditShows
  <2>2. Session!IsPrefix(line, line)
    BY <1>2 DEF Session!IsPrefix
  <2> QED BY <1>2, <1>4, <2>1, <2>2
<1> QED BY <1>5, <1>6, <1>7, EditStutters

(* "!n" recalls a command remembered, or nothing. *)
LEMMA RecalledIsRecent ==
    ASSUME SessionInv, NEW text
    PROVE  Recalled(text) \in {text, NoCommand} \cup Session!ToSet(Text(history, Remembered))
<1>1. HistoryOK
  BY TypeParts DEF SessionInv
<1>2. PICK k \in 0 .. Depth : Holding(k)
  BY DEF SessionInv, DistinctOK
<1>3. ASSUME NEW n \in 0 .. historyCount - 1
      PROVE  history[n] \in Session!ToSet(Text(history, Remembered))
  <2>1. n \in 0 .. Depth - 1 /\ history[n] # NoLine
    BY <1>1 DEF HistoryOK
  <2>2. n \in 0 .. k - 1
    BY <1>2, <2>1 DEF Holding
  <2> QED BY <1>1, <1>2, <2>2, RecentProperties
<1> QED BY <1>3 DEF Recalled

(* Nothing is executed for an empty line. *)
LEMMA NothingMatches ==
    ASSUME NEW text, Cardinality(Matches(text)) = 1
    PROVE  text # NoCommand
BY FS_EmptySet DEF Matches, NoCommand

(* A line entered is executed, recalls a command, is dropped, or ends the  *)
(* session.                                                                *)
LEMMA SubmitRefines ==
    ASSUME SessionInv, pc # "execute", NEW text \in Lines, Submit(text)
    PROVE  (Session!Submit(text) \/ Session!Quit) /\ DistinctOK' /\ CommandOK'
<1> DEFINE line == IF text = <<>> THEN NoCommand ELSE Recalled(text)
<1>1. buffer' = EmptyBuffer /\ length' = 0 /\ cursor' = 0
  BY DEF Submit
<1>2. Text(buffer, length)' = <<>>
  BY <1>1 DEF Text
<1>3. line \in {text, <<>>} \cup Session!ToSet(Text(history, Remembered))
  BY RecalledIsRecent DEF NoCommand
<1>4. command = NoCommand
  BY DEF SessionInv, CommandOK
<1>5. \/ pc' = "done" /\ history' = NoHistory /\ UNCHANGED command
      \/ /\ pc' = "execute" /\ command' = line /\ UNCHANGED historyVars
         /\ Cardinality(Matches(line)) = 1
      \/ pc' = "input" /\ UNCHANGED <<command, historyVars>>
  BY DEF Submit
<1> HIDE DEF line
<1>6. CASE UNCHANGED historyVars /\ (command' = line \/ command' = command)
  <2>1. Text(history, Remembered)' = Text(history, Remembered)
    BY <1>6, SameRecent
  <2>2. Session!Submit(text)
    BY <1>1, <1>2, <1>3, <1>4, <1>6, <2>1 DEF Session!Submit, NoCommand
  <2>3. DistinctOK'
    BY <1>6 DEF SessionInv, DistinctOK, Holding, historyVars
  <2> QED BY <2>2, <2>3, <1>1, <1>4, <1>5, <1>6, NothingMatches DEF CommandOK
<1>7. CASE pc' = "done" /\ history' = NoHistory /\ UNCHANGED command
  <2>1. \A m \in 0 .. Depth - 1 : history'[m] = NoLine
    BY <1>7 DEF NoHistory
  <2>2. 0 \in 0 .. Depth /\ \A m \in 0 .. Depth - 1 : history'[m] # NoLine <=> m < 0
    BY <2>1
  <2>3. Remembered' = 0
    BY <2>2, RememberedIsNext
  <2>4. Text(history, Remembered)' = <<>>
    BY <2>3 DEF Text
  <2>5. Session!Quit
    BY <1>1, <1>2, <1>7, <2>4 DEF Session!Quit
  <2>6. DistinctOK'
    BY <2>1, <2>2 DEF DistinctOK, Holding
  <2> QED BY <1>4, <1>7, <2>5, <2>6 DEF CommandOK
<1> QED BY <1>5, <1>6, <1>7

(* A character moves the text right of the cursor, or replaces one. *)
LEMMA CharMakes ==
    ASSUME SessionInv, NEW c \in Chars, NEW inserts, inserts = (insertMode /\ cursor # length),
           NEW b, b = IF inserts THEN Inserted(c) ELSE Overwritten(c)
    PROVE  IF inserts \/ cursor = length
           THEN Text(b, length + 1) = Session!InsertAt(Text(buffer, length), cursor + 1, c)
           ELSE Text(b, length) = [Text(buffer, length) EXCEPT ![cursor + 1] = c]
<1>1. EditorOK /\ cursor \in 0 .. length /\ DOMAIN buffer = 0 .. MaxLine - 1
  BY TypeParts DEF SessionInv, EditorOK, Holds
<1> DEFINE line == Text(buffer, length)
           place == cursor + 1
           new == Enlarged(line, place, c)
<1>2. /\ line \in Seq(Chars) /\ Len(line) = length /\ length \in 0 .. MaxLine - 1
      /\ \A j \in 1 .. length : line[j] = buffer[j - 1]
  BY <1>1, LineProperties
<1>3. CASE inserts \/ cursor = length
  <2> HIDE DEF line
  <2>1. place \in 1 .. Len(line) + 1
    BY <1>1, <1>2
  <2>2. /\ new \in Seq(Chars) /\ Len(new) = length + 1
        /\ \A j \in 1 .. length + 1 :
              new[j] = IF j < cursor + 1 THEN line[j]
                       ELSE IF j = cursor + 1 THEN c ELSE line[j - 1]
    <3> HIDE DEF place
    <3>1. /\ new \in Seq(Chars) /\ Len(new) = Len(line) + 1
          /\ \A j \in 1 .. Len(line) + 1 :
                new[j] = IF j < place THEN line[j] ELSE IF j = place THEN c ELSE line[j - 1]
      <4>1. line \in Seq(Chars)
        BY <1>2
      <4>2. PICK l \in Seq(Chars) : l = line
        BY <4>1
      <4>3. PICK p \in 1 .. Len(l) + 1 : p = place
        BY <2>1, <4>2
      <4>4. /\ Enlarged(l, p, c) \in Seq(Chars) /\ Len(Enlarged(l, p, c)) = Len(l) + 1
            /\ \A j \in 1 .. Len(l) + 1 :
                  Enlarged(l, p, c)[j] =
                      IF j < p THEN l[j] ELSE IF j = p THEN c ELSE l[j - 1]
        BY ONLY c \in Chars, EnlargedElement
      <4>5. new = Enlarged(l, p, c)
        BY <4>2, <4>3
      <4> HIDE DEF new
      <4> QED BY ONLY <4>2, <4>3, <4>4, <4>5
    <3> USE DEF place
    <3> QED BY <1>2, <3>1
  <2> HIDE DEF new
  <2>3. ASSUME NEW j \in 1 .. length + 1 PROVE b[j - 1] = new[j]
    <3>1. j - 1 \in 0 .. MaxLine - 1 /\ j - 1 <= length
      BY <1>1, <1>2
    <3>2. CASE j < cursor + 1
      <4>1. j \in 1 .. length /\ j - 1 # cursor /\ ~(j - 1 \in cursor + 1 .. length + 1)
        BY <1>1, <1>2, <3>2
      <4>2. b[j - 1] = buffer[j - 1]
        BY <1>1, <3>1, <4>1 DEF Inserted, Overwritten
      <4> QED BY <1>2, <2>2, <3>2, <4>1, <4>2
    <3>3. CASE j = cursor + 1
      <4>1. j - 1 = cursor
        BY <1>1, <1>2, <3>3
      <4>2. b[j - 1] = c
        BY <1>1, <3>1, <4>1 DEF Inserted, Overwritten
      <4> QED BY <1>1, <1>2, <2>2, <3>3, <4>2
    <3>4. CASE j > cursor + 1
      <4>1. inserts
        BY <1>1, <1>2, <1>3, <3>4
      <4>2. /\ j - 1 # cursor /\ j - 1 \in cursor + 1 .. length + 1 /\ j - 1 \in 1 .. length
            /\ j - 1 - 1 = j - 2
        BY <1>1, <1>2, <3>4
      <4>3. b[j - 1] = buffer[j - 1 - 1]
        BY <1>1, <3>1, <4>1, <4>2 DEF Inserted
      <4>4. line[j - 1] = buffer[j - 1 - 1]
        BY <1>2, <4>2
      <4>5. new[j] = line[j - 1]
        BY <1>1, <1>2, <2>2, <3>4
      <4> QED BY <4>3, <4>4, <4>5
    <3> QED BY <1>1, <1>2, <3>2, <3>3, <3>4
  <2>4. Text(b, length + 1) = new
    <3>1. new = [j \in 1 .. length + 1 |-> new[j]]
      BY <1>2, <2>2
    <3> QED BY <2>3, <3>1 DEF Text
  <2>5. new = Session!InsertAt(line, cursor + 1, c)
    BY DEF new, Enlarged, Session!InsertAt
  <2> QED BY <1>3, <2>4, <2>5 DEF line
<1>4. CASE ~(inserts \/ cursor = length)
  <2>1. b = [buffer EXCEPT ![cursor] = c]
    BY <1>4 DEF Overwritten
  <2>2. ASSUME NEW j \in 1 .. length
        PROVE  b[j - 1] = IF j = cursor + 1 THEN c ELSE line[j]
    <3>1. j - 1 \in 0 .. MaxLine - 1 /\ (j - 1 = cursor <=> j = cursor + 1)
      BY <1>1, <1>2
    <3> QED BY <1>1, <1>2, <2>1, <3>1
  <2>3. [line EXCEPT ![cursor + 1] = c]
          = [j \in 1 .. length |-> IF j = cursor + 1 THEN c ELSE line[j]]
    <3>1. DOMAIN line = 1 .. length
      BY <1>2
    <3> QED BY <3>1
  <2> QED BY <1>4, <2>2, <2>3 DEF Text
<1> QED BY <1>3, <1>4

(* An edit leaves the history alone, and nothing to execute. *)
LEMMA EditKeeps ==
    ASSUME SessionInv, pc = "take", NEW b, NEW n, NEW c, Edit(b, n, c)
    PROVE  DistinctOK' /\ CommandOK'
<1>1. history' = history /\ command' = NoCommand /\ pc' = "input"
  BY DEF SessionInv, CommandOK, Edit, historyVars
<1> QED BY <1>1 DEF SessionInv, DistinctOK, Holding, CommandOK

(* A character typed; the one that fills the buffer ends the line. *)
LEMMA CharRefines ==
    ASSUME SessionInv, NEW c \in Chars, KeyChar(c)
    PROVE  /\ Session!Type(c) \/ Session!Quit
           /\ DistinctOK' /\ CommandOK'
<1> DEFINE line == Text(buffer, length)
           inserts == insertMode /\ cursor # length
           b == IF inserts THEN Inserted(c) ELSE Overwritten(c)
           longer == Session!InsertAt(line, cursor + 1, c)
           other == [line EXCEPT ![cursor + 1] = c]
<1>1. EditorOK /\ cursor \in 0 .. length /\ pc = "take"
  BY TypeParts DEF SessionInv, EditorOK, KeyChar, Key
<1>2. /\ line \in Seq(Chars) /\ Len(line) = length /\ length \in 0 .. MaxLine - 1
      /\ cursor + 1 \in 1 .. length + 1
  BY <1>1, LineProperties
<1>3. IF inserts \/ cursor = length THEN Text(b, length + 1) = longer ELSE Text(b, length) = other
  BY CharMakes
<1>4. longer \in Seq(Chars) /\ Len(longer) = length + 1
  <2>1. longer = Enlarged(line, cursor + 1, c)
    BY DEF Enlarged, Session!InsertAt
  <2> HIDE DEF longer, line
  <2> QED BY <1>2, <2>1, EnlargedElement
<1>5. ASSUME cursor < length PROVE other \in Seq(Chars) /\ Len(other) = length
  <2>1. cursor + 1 \in 1 .. Len(line)
    BY <1>1, <1>2, <1>5
  <2> HIDE DEF line
  <2> QED BY <1>2, <2>1, ExceptSeq
<1>6. CASE inserts \/ cursor = length
  <2>1. CASE length + 1 = MaxLine
    <3>1. Submit(Text(b, MaxLine - 1))
      BY <1>6, <2>1 DEF KeyChar
    <3>2. Text(b, MaxLine - 1) = SubSeq(longer, 1, MaxLine - 1)
      <4>1. Text(b, MaxLine) = longer
        BY <1>3, <1>6, <2>1
      <4>2. \A j \in 1 .. MaxLine - 1 : longer[j] = b[j - 1]
        BY <4>1 DEF Text
      <4> HIDE DEF longer, b
      <4>3. /\ SubSeq(longer, 1, MaxLine - 1) \in Seq(Chars)
            /\ Len(SubSeq(longer, 1, MaxLine - 1)) = MaxLine - 1
            /\ \A j \in 1 .. MaxLine - 1 : SubSeq(longer, 1, MaxLine - 1)[j] = longer[j]
        BY <1>2, <1>4, <2>1, SubSeqProperties
      <4>4. SubSeq(longer, 1, MaxLine - 1)
              = [j \in 1 .. MaxLine - 1 |-> SubSeq(longer, 1, MaxLine - 1)[j]]
        BY <4>3
      <4> QED BY <4>2, <4>3, <4>4 DEF Text
    <3>3. SubSeq(longer, 1, MaxLine - 1) \in Lines
      <4>1. /\ SubSeq(longer, 1, MaxLine - 1) \in Seq(Chars)
            /\ Len(SubSeq(longer, 1, MaxLine - 1)) = MaxLine - 1
        <5> HIDE DEF longer
        <5> QED BY <1>2, <1>4, <2>1, SubSeqProperties
      <4> DEFINE shorter == SubSeq(longer, 1, MaxLine - 1)
      <4>2. shorter \in Seq(Chars) /\ Len(shorter) \in 0 .. MaxLine - 1
        BY <1>2, <4>1
      <4> HIDE DEF shorter
      <4>3. shorter \in Lines
        BY <4>2, LineDef
      <4> QED BY <4>3 DEF shorter
    <3> HIDE DEF longer, b
    <3>4. (Session!Submit(Text(b, MaxLine - 1)) \/ Session!Quit) /\ DistinctOK' /\ CommandOK'
      BY <1>1, <3>1, <3>2, <3>3, SubmitRefines
    <3>5. Session!Submit(Text(b, MaxLine - 1)) => Session!Put(longer)
      <4>1. ~(Len(longer) <= MaxLine - 1)
        BY <1>2, <1>4, <2>1
      <4> QED BY <3>2, <4>1 DEF Session!Put
    <3> QED BY <3>4, <3>5 DEF Session!Type, longer
  <2>2. CASE length + 1 # MaxLine
    <3>1. Edit(b, length + 1, cursor + 1)
      BY <1>6, <2>2 DEF KeyChar
    <3>2. Session!Show(longer, cursor + 1)
      BY <1>3, <1>6, <3>1, EditShows
    <3>3. Session!Put(longer)
      BY <1>2, <1>4, <2>2, <3>2 DEF Session!Put
    <3> QED BY <1>1, <3>1, <3>3, EditKeeps DEF Session!Type
  <2> QED BY <2>1, <2>2
<1>7. CASE ~(inserts \/ cursor = length)
  <2>1. Edit(b, length, cursor + 1)
    BY <1>2, <1>7 DEF KeyChar
  <2>2. Session!Show(other, cursor + 1)
    BY <1>3, <1>7, <2>1, EditShows
  <2>3. cursor < Len(line) /\ Session!Put(other)
    BY <1>1, <1>2, <1>5, <1>7, <2>2 DEF Session!Put
  <2> QED BY <1>1, <2>1, <2>3, EditKeeps DEF Session!Type
<1> QED BY <1>6, <1>7

(* Where the command goes: to its own place, to the first empty one, or to *)
(* the last.  The places up to there hold the commands before it.          *)
LEMMA PlaceOfCommand ==
    ASSUME SessionInv, NEW k, Holding(k)
    PROVE  LET p == Place(command)
           IN  /\ p \in 0 .. Depth - 1 /\ p <= k
               /\ \A m \in 0 .. p - 1 : history[m] # command
               /\ \/ p < k /\ history[p] = command
                  \/ p = k /\ \A m \in 0 .. k - 1 : history[m] # command
                  \/ p = Depth - 1 /\ k = Depth /\ \A m \in 0 .. k - 1 : history[m] # command
<1> DEFINE p == Place(command)
<1>1. DOMAIN history = 0 .. Depth - 1
  BY TypeParts DEF SessionInv, HistoryOK
<1>2. /\ p \in 0 .. Depth - 1
      /\ history[p] \in {command, NoLine} \/ p = Depth - 1
      /\ \A m \in 0 .. p - 1 : history[m] \notin {command, NoLine}
  BY <1>1, PlaceProperties
<1> HIDE DEF p
<1>3. k \in 0 .. Depth /\ \A m \in 0 .. Depth - 1 : history[m] # NoLine <=> m < k
  BY DEF Holding
<1>4. p <= k
  <2> SUFFICES ASSUME k < p PROVE FALSE
    BY <1>2, <1>3
  <2>1. k \in 0 .. p - 1 /\ k \in 0 .. Depth - 1
    BY <1>2, <1>3
  <2> QED BY <1>2, <1>3, <2>1
<1>5. \/ p < k /\ history[p] = command
      \/ p = k /\ \A m \in 0 .. k - 1 : history[m] # command
      \/ p = Depth - 1 /\ k = Depth /\ \A m \in 0 .. k - 1 : history[m] # command
  <2>1. CASE p = k
    BY <1>2, <2>1
  <2>2. CASE p < k /\ history[p] # command
    <3>1. p = Depth - 1 /\ k = Depth
      BY <1>2, <1>3, <2>2
    <3>2. \A m \in 0 .. k - 1 : m \in 0 .. p - 1 \/ m = p
      BY <1>2, <3>1
    <3> QED BY <1>2, <2>2, <3>1, <3>2
  <2> QED BY <1>2, <1>3, <1>4, <2>1, <2>2
<1> QED BY <1>2, <1>4, <1>5 DEF p

(* The command moves to the front, and those before its place move back. *)
LEMMA HistoryAfter ==
    ASSUME SessionInv, Execute, NEW k, Holding(k)
    PROVE  LET p == Place(command)
               n == IF p = k THEN k + 1 ELSE k
           IN  /\ n \in 1 .. Depth /\ p < n
               /\ \A m \in 0 .. Depth - 1 :
                    history'[m] = IF m = 0 THEN command
                                  ELSE IF m <= p THEN history[m - 1] ELSE history[m]
               /\ \A m \in 0 .. Depth - 1 : history'[m] # NoLine <=> m < n
<1> DEFINE p == Place(command)
           n == IF p = k THEN k + 1 ELSE k
<1>1. /\ p \in 0 .. Depth - 1 /\ p <= k
      /\ p < k \/ p = k \/ (p = Depth - 1 /\ k = Depth)
  BY PlaceOfCommand
<1>2. k \in 0 .. Depth /\ \A m \in 0 .. Depth - 1 : history[m] # NoLine <=> m < k
  BY DEF Holding
<1>3. DOMAIN history = 0 .. Depth - 1 /\ command # NoLine
  BY TypeParts, SpecialLines DEF SessionInv, HistoryOK
<1>4. \A m \in 0 .. Depth - 1 :
        history'[m] = IF m = 0 THEN command
                      ELSE IF m <= p THEN history[m - 1] ELSE history[m]
  BY <1>3 DEF Execute, MovedToFront
<1> HIDE DEF p
<1>5. n \in 1 .. Depth /\ p < n
  BY <1>1, <1>2
<1>6. ASSUME NEW m \in 0 .. Depth - 1 PROVE history'[m] # NoLine <=> m < n
  <2>1. CASE m = 0
    BY <1>3, <1>4, <1>5, <2>1
  <2>2. CASE m # 0 /\ m <= p
    <3>1. m - 1 \in 0 .. Depth - 1 /\ m - 1 < k /\ m < n
      BY <1>1, <1>2, <2>2
    <3> QED BY <1>2, <1>4, <2>2, <3>1
  <2>3. CASE m # 0 /\ ~(m <= p)
    <3>1. m < k <=> m < n
      BY <1>1, <1>2, <2>3
    <3> QED BY <1>2, <1>4, <2>3, <3>1
  <2> QED BY <2>1, <2>2, <2>3
<1> QED BY <1>4, <1>5, <1>6 DEF p

(* A command executed is in the history once. *)
LEMMA ExecuteKeepsDistinct ==
    ASSUME SessionInv, Execute
    PROVE  DistinctOK' /\ CommandOK'
<1>1. PICK k \in 0 .. Depth : Holding(k)
  BY DEF SessionInv, DistinctOK
<1> DEFINE p == Place(command)
           n == IF p = k THEN k + 1 ELSE k
<1>2. /\ n \in 1 .. Depth /\ p < n
      /\ \A m \in 0 .. Depth - 1 :
           history'[m] = IF m = 0 THEN command
                         ELSE IF m <= p THEN history[m - 1] ELSE history[m]
      /\ \A m \in 0 .. Depth - 1 : history'[m] # NoLine <=> m < n
  BY <1>1, HistoryAfter
<1>3. /\ p \in 0 .. Depth - 1 /\ p <= k
      /\ \A m \in 0 .. p - 1 : history[m] # command
      /\ \/ p < k /\ history[p] = command
         \/ p = k /\ \A m \in 0 .. k - 1 : history[m] # command
         \/ p = Depth - 1 /\ k = Depth /\ \A m \in 0 .. k - 1 : history[m] # command
  BY <1>1, PlaceOfCommand
<1>4. /\ \A i, j \in 0 .. Depth - 1 : history[i] = history[j] /\ history[i] # NoLine => i = j
      /\ \A m \in 0 .. Depth - 1 : history[m] # NoLine <=> m < k
      /\ command # NoLine
  BY <1>1, TypeParts, SpecialLines DEF SessionInv, DistinctOK, Holding
<1> HIDE DEF p
<1>5. ASSUME NEW m \in 0 .. Depth - 1, m > p, history[m] # NoLine
      PROVE  history[m] # command
  BY <1>1, <1>3, <1>4, <1>5
<1> DEFINE old(m) == IF m <= p THEN m - 1 ELSE m
<1>6. ASSUME NEW m \in 0 .. Depth - 1, m # 0
      PROVE  /\ old(m) \in 0 .. Depth - 1 /\ history'[m] = history[old(m)]
             /\ history'[m] # NoLine => history'[m] # command
  <2>1. CASE m <= p
    <3>1. m - 1 \in 0 .. p - 1
      BY <1>3, <1>6, <2>1
    <3> QED BY <1>2, <1>3, <1>6, <2>1, <3>1
  <2>2. CASE ~(m <= p)
    BY <1>2, <1>3, <1>5, <1>6, <2>2
  <2> QED BY <2>1, <2>2
<1>7. \A i, j \in 0 .. Depth - 1 : i # 0 /\ j # 0 /\ old(i) = old(j) => i = j
  BY <1>3
<1> HIDE DEF old
<1>8. ASSUME NEW i \in 0 .. Depth - 1, NEW j \in 0 .. Depth - 1,
             history'[i] = history'[j], history'[i] # NoLine
      PROVE  i = j
  <2>1. CASE i = 0 \/ j = 0
    BY <1>2, <1>6, <1>8, <2>1
  <2>2. CASE i # 0 /\ j # 0
    BY <1>4, <1>6, <1>7, <1>8, <2>2
  <2> QED BY <2>1, <2>2
<1>9. DistinctOK'
  <2>1. PICK v \in 0 .. Depth : \A m \in 0 .. Depth - 1 : history'[m] # NoLine <=> m < v
    <3>1. n \in 0 .. Depth /\ \A m \in 0 .. Depth - 1 : history'[m] # NoLine <=> m < n
      BY <1>2
    <3> HIDE DEF n
    <3> QED BY <3>1
  <2>2. \E j \in 0 .. Depth : Holding(j)'
    BY <2>1 DEF Holding
  <2> QED BY <1>8, <2>2 DEF DistinctOK
<1> QED BY <1>9 DEF Execute, CommandOK

(* A command in front of others. *)
LEMMA FirstOfLines ==
    ASSUME NEW e \in Lines, NEW s \in Seq(Lines)
    PROVE  /\ <<e>> \o s \in Seq(Lines) /\ Len(<<e>> \o s) = Len(s) + 1
           /\ \A i \in 1 .. Len(s) + 1 : (<<e>> \o s)[i] = IF i = 1 THEN e ELSE s[i - 1]
<1>1. <<e>> \in Seq(Lines) /\ Len(<<e>>) = 1 /\ <<e>>[1] = e
  OBVIOUS
<1>2. /\ <<e>> \o s \in Seq(Lines) /\ Len(<<e>> \o s) = 1 + Len(s)
      /\ \A i \in 1 .. 1 + Len(s) : (<<e>> \o s)[i] = IF i <= 1 THEN <<e>>[i] ELSE s[i - 1]
  BY <1>1, ConcatProperties
<1> QED BY <1>1, <1>2

(* The other commands, in the order of the history. *)
LEMMA OthersAre ==
    ASSUME SessionInv, NEW k, Holding(k)
    PROVE  LET p == Place(command)
           IN  /\ Session!Others \in Seq(Lines)
               /\ Len(Session!Others) = IF p < k /\ history[p] = command THEN k - 1 ELSE k
               /\ \A i \in 1 .. Len(Session!Others) : i < Depth =>
                    Session!Others[i] = IF i <= p THEN history[i - 1] ELSE history[i]
<1> DEFINE p == Place(command)
           recent == Text(history, Remembered)
<1>1. /\ p \in 0 .. Depth - 1 /\ p <= k
      /\ \/ p < k /\ history[p] = command
         \/ p = k /\ \A m \in 0 .. k - 1 : history[m] # command
         \/ p = Depth - 1 /\ k = Depth /\ \A m \in 0 .. k - 1 : history[m] # command
  BY PlaceOfCommand
<1>2. k \in 0 .. Depth /\ \A m \in 0 .. Depth - 1 : history[m] # NoLine <=> m < k
  BY DEF Holding
<1>3. HistoryOK
  BY TypeParts DEF SessionInv
<1>4. /\ recent \in Seq(Lines) /\ Len(recent) = k
      /\ \A j \in 1 .. k : recent[j] = history[j - 1]
      /\ \A m \in 0 .. k - 1 : history[m] \in Session!ToSet(recent)
      /\ \A text \in Session!ToSet(recent) : \E m \in 0 .. k - 1 : text = history[m]
  BY <1>3, RecentProperties
<1>5. Session!Others =
        IF command \in Session!ToSet(recent)
        THEN Session!RemoveAt(recent, CHOOSE n \in DOMAIN recent : recent[n] = command)
        ELSE recent
  BY DEF Session!Others
<1> HIDE DEF p, recent
<1>6. CASE p < k /\ history[p] = command
  <2>1. command \in Session!ToSet(recent) /\ command # NoLine
    BY <1>1, <1>2, <1>4, <1>6
  <2>2. p + 1 \in DOMAIN recent /\ recent[p + 1] = command
    BY <1>1, <1>4, <1>6
  <2>3. ASSUME NEW n \in DOMAIN recent, recent[n] = command PROVE n = p + 1
    <3>1. /\ n \in 1 .. k /\ n - 1 \in 0 .. Depth - 1
          /\ history[n - 1] = history[p] /\ history[p] # NoLine
      BY <1>1, <1>2, <1>4, <1>6, <2>1, <2>3
    <3>2. n - 1 = p
      BY <1>1, <3>1 DEF SessionInv, DistinctOK
    <3> QED BY <1>1, <3>1, <3>2
  <2>4. (CHOOSE n \in DOMAIN recent : recent[n] = command) = p + 1
    BY <2>2, <2>3
  <2>5. Session!Others = Removed(recent, p + 1)
    BY <1>5, <2>1, <2>4 DEF Session!RemoveAt, Removed
  <2>6. p + 1 \in 1 .. Len(recent)
    BY <1>1, <1>4, <1>6
  <2>7. /\ Session!Others \in Seq(Lines) /\ Len(Session!Others) = k - 1
        /\ \A i \in 1 .. k - 1 : Session!Others[i] = IF i < p + 1 THEN recent[i] ELSE recent[i + 1]
    <3> DEFINE q == p + 1
    <3>1. Session!Others = Removed(recent, q) /\ q \in 1 .. Len(recent)
      BY <2>5, <2>6
    <3>2. recent \in Seq(Lines)
      BY <1>4
    <3> HIDE DEF q
    <3>3. /\ Session!Others \in Seq(Lines) /\ Len(Session!Others) = Len(recent) - 1
          /\ \A i \in 1 .. Len(recent) - 1 :
                Session!Others[i] = IF i < q THEN recent[i] ELSE recent[i + 1]
      BY ONLY <3>1, <3>2, RemovedElement
    <3> QED BY <1>4, <3>3 DEF q
  <2>8. \A i \in 1 .. k - 1 :
          Session!Others[i] = IF i <= p THEN history[i - 1] ELSE history[i]
    <3> SUFFICES ASSUME NEW i \in 1 .. k - 1
                 PROVE  Session!Others[i] = IF i <= p THEN history[i - 1] ELSE history[i]
      OBVIOUS
    <3>1. i \in 1 .. k /\ i + 1 \in 1 .. k /\ i + 1 - 1 = i /\ (i < p + 1 <=> i <= p)
      BY <1>1, <1>2
    <3> QED BY <1>4, <2>7, <3>1
  <2> QED BY <1>6, <2>7, <2>8 DEF p
<1>7. CASE ~(p < k /\ history[p] = command)
  <2>1. command \notin Session!ToSet(recent)
    BY <1>1, <1>4, <1>7
  <2>2. Session!Others = recent
    BY <1>5, <2>1
  <2>3. \A i \in 1 .. k : i < Depth => i <= p
    BY <1>1, <1>2, <1>7
  <2> QED BY <1>4, <1>7, <2>2, <2>3 DEF p
<1> QED BY <1>6, <1>7

(* A command executed is the first of those remembered.                    *)
LEMMA ExecuteRefines ==
    ASSUME SessionInv, Execute
    PROVE  Session!Execute
<1>1. PICK k \in 0 .. Depth : Holding(k)
  BY DEF SessionInv, DistinctOK
<1> DEFINE p == Place(command)
           n == IF p = k THEN k + 1 ELSE k
           list == <<command>> \o Session!Others
           size == IF Len(list) < Depth THEN Len(list) ELSE Depth
<1>2. /\ n \in 1 .. Depth /\ p < n
      /\ \A m \in 0 .. Depth - 1 :
           history'[m] = IF m = 0 THEN command
                         ELSE IF m <= p THEN history[m - 1] ELSE history[m]
      /\ \A m \in 0 .. Depth - 1 : history'[m] # NoLine <=> m < n
  BY <1>1, HistoryAfter
<1>3. /\ p \in 0 .. Depth - 1 /\ p <= k
      /\ \/ p < k /\ history[p] = command
         \/ p = k /\ \A m \in 0 .. k - 1 : history[m] # command
         \/ p = Depth - 1 /\ k = Depth /\ \A m \in 0 .. k - 1 : history[m] # command
  BY <1>1, PlaceOfCommand
<1>4. /\ Session!Others \in Seq(Lines)
      /\ Len(Session!Others) = IF p < k /\ history[p] = command THEN k - 1 ELSE k
      /\ \A i \in 1 .. Len(Session!Others) : i < Depth =>
           Session!Others[i] = IF i <= p THEN history[i - 1] ELSE history[i]
  BY <1>1, OthersAre
<1>5. /\ pc = "execute" /\ command \in Lines /\ command # NoCommand /\ length = 0
      /\ command' = NoCommand /\ UNCHANGED editorVars
  BY TypeParts DEF SessionInv, CommandOK, Execute
<1> HIDE DEF p
<1>6. /\ list \in Seq(Lines) /\ Len(list) = Len(Session!Others) + 1
      /\ \A i \in 1 .. Len(Session!Others) + 1 :
           list[i] = IF i = 1 THEN command ELSE Session!Others[i - 1]
  BY <1>4, <1>5, FirstOfLines
<1> HIDE DEF list
<1>7. size = n
  BY <1>2, <1>3, <1>4, <1>6
<1>8. n \in 1 .. Len(list)
  <2>1. Len(list) \in Nat /\ size <= Len(list)
    BY <1>6
  <2> QED BY <1>2, <1>7, <2>1
<1> HIDE DEF n, size
<1>9. ASSUME NEW i \in 1 .. n PROVE history'[i - 1] = list[i]
  <2>1. i - 1 \in 0 .. Depth - 1 /\ i \in 1 .. Len(Session!Others) + 1
    BY <1>2, <1>6, <1>8
  <2>2. CASE i = 1
    BY <1>2, <1>6, <2>1, <2>2
  <2>3. CASE i # 1
    <3>1. i - 1 # 0 /\ i - 1 \in 1 .. Len(Session!Others) /\ i - 1 < Depth
      BY <1>4, <2>1, <2>3
    <3>2. history'[i - 1] = IF i - 1 <= p THEN history[i - 1 - 1] ELSE history[i - 1]
      BY <1>2, <2>1, <3>1
    <3>3. Session!Others[i - 1] = IF i - 1 <= p THEN history[i - 1 - 1] ELSE history[i - 1]
      BY <1>4, <3>1
    <3> QED BY <1>6, <2>1, <2>3, <3>2, <3>3
  <2> QED BY <2>2, <2>3
<1>10. Text(history, Remembered)' = SubSeq(list, 1, n)
  <2>1. PICK j \in 0 .. Depth : j = n
    BY <1>2
  <2>2. \A m \in 0 .. Depth - 1 : history'[m] # NoLine <=> m < j
    BY <1>2, <2>1
  <2>3. Remembered' = j
    BY <2>2, RememberedIsNext
  <2>4. Text(history, Remembered)' = [i \in 1 .. n |-> history'[i - 1]]
    BY <2>1, <2>3 DEF Text
  <2>5. /\ SubSeq(list, 1, n) \in Seq(Lines) /\ Len(SubSeq(list, 1, n)) = n
        /\ \A i \in 1 .. n : SubSeq(list, 1, n)[i] = list[i]
    <3>1. n \in Int /\ \A i \in 1 .. n : list[i] \in Lines
      BY <1>6, <1>8
    <3> QED BY <1>2, <3>1, SubSeqProperties
  <2>6. SubSeq(list, 1, n) = [i \in 1 .. n |-> SubSeq(list, 1, n)[i]]
    BY <1>2, <2>5
  <2> QED BY <1>9, <2>4, <2>5, <2>6
<1>11. Text(buffer, length) = <<>> /\ UNCHANGED Text(buffer, length) /\ cursor' = cursor
  BY <1>5 DEF Text, editorVars
<1> QED BY <1>5, <1>7, <1>10, <1>11 DEF Session!Execute, NoCommand, list, size

(* The steps that only the ring and the program counter see. *)
LEMMA HiddenSteps ==
    ASSUME SessionInv, Typed \/ Run \/ RunWrite \/ RunRead \/ Poll \/ TakeNul \/ UNCHANGED vars
    PROVE  UNCHANGED Session!vars /\ DistinctOK' /\ CommandOK'
<1>1. /\ UNCHANGED <<editorVars, command, historyVars>>
      /\ pc' = pc \/ (pc # "execute" /\ pc' # "execute")
  BY DEF Typed, Run, RunWrite, RunRead, Poll, TakeNul, Go, vars
<1>2. /\ buffer' = buffer /\ length' = length /\ cursor' = cursor /\ command' = command
      /\ history' = history
  BY <1>1 DEF editorVars, historyVars
<1>3. UNCHANGED Session!vars
  BY <1>1, <1>2, SameRecent DEF Text, Session!vars
<1>4. DistinctOK'
  BY <1>2 DEF SessionInv, DistinctOK, Holding
<1> QED BY <1>1, <1>2, <1>3, <1>4 DEF SessionInv, CommandOK

(* The keys that edit the line keep the history, and execute nothing. *)
LEMMA EditingKeys ==
    ASSUME SessionInv, KeyInsertMode \/ KeyUp \/ KeyDown \/ KeyLeft \/ KeyRight
                       \/ KeyBackspace \/ KeyTab
    PROVE  DistinctOK' /\ CommandOK'
<1>1. pc = "take"
  BY DEF KeyInsertMode, KeyUp, KeyDown, KeyLeft, KeyRight, KeyBackspace, KeyTab, Key
<1>2. \E b, n, c : Edit(b, n, c)
  BY DEF KeyInsertMode, KeyUp, KeyDown, KeyLeft, KeyRight, KeyBackspace, KeyTab, Show
<1> QED BY <1>1, <1>2, EditKeeps

(* Every step is one of the session, or none. *)
LEMMA SessionStep ==
    ASSUME SessionInv, [Next]_vars
    PROVE  [Session!Next]_(Session!vars) /\ DistinctOK' /\ CommandOK'
<1>1. CASE Typed \/ Run \/ RunWrite \/ RunRead \/ Poll \/ TakeNul \/ UNCHANGED vars
  BY <1>1, HiddenSteps
<1>2. CASE KeyInsertMode \/ KeyUp \/ KeyDown \/ KeyLeft \/ KeyRight
  BY <1>2, ArrowKeysRefine, EditingKeys DEF Session!Next
<1>3. CASE KeyBackspace
  BY <1>3, BackspaceRefines, EditingKeys DEF Session!Next
<1>4. CASE KeyTab
  BY <1>4, TabRefines, EditingKeys DEF Session!Next
<1>5. CASE KeyEnter
  <2>1. Text(buffer, length) \in Lines /\ Submit(Text(buffer, length)) /\ pc # "execute"
    BY <1>5, EditorText, TypeParts DEF SessionInv, KeyEnter, Key
  <2> QED BY <2>1, SubmitRefines DEF Session!Next
<1>6. ASSUME NEW c \in Chars, KeyChar(c)
      PROVE  [Session!Next]_(Session!vars) /\ DistinctOK' /\ CommandOK'
  BY <1>6, CharRefines DEF Session!Next
<1>7. CASE Execute
  BY <1>7, ExecuteRefines, ExecuteKeepsDistinct DEF Session!Next
<1> QED BY <1>1, <1>2, <1>3, <1>4, <1>5, <1>6, <1>7 DEF Next

(* The history starts empty. *)
LEMMA SessionInit == Init => Session!Init /\ DistinctOK /\ CommandOK
<1> SUFFICES ASSUME Init PROVE Session!Init /\ DistinctOK /\ CommandOK
  OBVIOUS
<1>1. /\ pc = "boot" /\ length = 0 /\ cursor = 0 /\ command = NoCommand
      /\ history = NoHistory
  BY DEF Init
<1>2. \A m \in 0 .. Depth - 1 : history[m] = NoLine
  BY <1>1 DEF NoHistory
<1>3. Holding(0)
  BY <1>2 DEF Holding
<1>4. Text(history, Remembered) = <<>>
  <2>1. Remembered = 0
    BY <1>3, RememberedIs
  <2> QED BY <2>1 DEF Text
<1>5. Text(buffer, length) = <<>>
  BY <1>1 DEF Text
<1>6. DistinctOK
  BY <1>2, <1>3 DEF DistinctOK
<1> QED BY <1>1, <1>4, <1>5, <1>6 DEF Session!Init, CommandOK, NoCommand

(* The history has no command twice, and no gap; and a command waits only  *)
(* for its execution.                                                      *)
THEOREM HistoryCorrect == Spec => [](DistinctOK /\ CommandOK)
<1>1. Init => DistinctOK /\ CommandOK
  BY SessionInit
<1>2. TypeOK /\ (DistinctOK /\ CommandOK) /\ [Next]_vars => (DistinctOK /\ CommandOK)'
  BY SessionStep DEF SessionInv
<1> QED BY <1>1, <1>2, TypeCorrect, PTL DEF Spec

(* The buffer, the indexes and the array of pointers implement a line      *)
(* edited at a cursor and the list of the most recent distinct commands.   *)
THEOREM ImplementsSession == Spec => SessionSpec
<1>1. Init => Session!Init
  BY SessionInit
<1>2. TypeOK /\ (DistinctOK /\ CommandOK) /\ [Next]_vars => [Session!Next]_(Session!vars)
  BY SessionStep DEF SessionInv
<1> QED BY <1>1, <1>2, TypeCorrect, HistoryCorrect, PTL DEF Spec, SessionSpec, Session!Spec
=============================================================================
