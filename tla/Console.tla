------------------------------ MODULE Console ------------------------------
(***************************************************************************)
(* The console: the line editor, the history and the command it runs, fed  *)
(* by the ring of the UART.                                                *)
(*                                                                         *)
(* A key that sends an escape sequence counts as one character, and a line *)
(* is one word: its arguments are left out, with what "help", "history"    *)
(* and the commands print.                                                 *)
(***************************************************************************)
EXTENDS StdinUart, FiniteSets

CONSTANTS
    Chars,      \* characters of a line
    Names,      \* the names of the commands
    QuitLine,   \* "quit"
    Bang,       \* the character "!"
    Number(_),  \* atoi() of what follows it
    MaxLine,    \* MAX_INPUT_LINE
    Depth       \* ARRAY_COUNT_OF(history)

IsPrefixOf(s, t) == Len(s) <= Len(t) /\ s = SubSeq(t, 1, Len(s))

ASSUME ConsoleAssumption ==
    /\ MaxLine \in Nat \ {0, 1} /\ Depth \in Nat \ {0, 1}
    /\ Bang \in Chars /\ "NUL" \notin Chars
    /\ \A t \in Names \cup {QuitLine} : t \in Seq(Chars) /\ Len(t) \in 1 .. MaxLine - 1
    /\ \A name \in Names : ~IsPrefixOf(QuitLine, name)

VARIABLES
    pc,           \* where the console is
    buffer,       \* s_cmd
    length,       \* i of getUserInputString()
    cursor,       \* cursor_x
    browsed,      \* history_count of getUserInputString()
    insertMode,
    command,      \* the line executed
    history,
    historyCount

editorVars == <<buffer, length, cursor, browsed, insertMode>>
historyVars == <<history, historyCount>>
vars == <<ringVars, pc, editorVars, command, historyVars>>

Nul == "NUL"        \* '\0'
NoLine == <<Nul>>   \* nullptr in history
NoCommand == <<>>

EmptyBuffer == [j \in 0 .. MaxLine - 1 |-> Nul]
NoHistory == [n \in 0 .. Depth - 1 |-> NoLine]

Text(b, n) == [j \in 1 .. n |-> b[j - 1]]
Lines == UNION {[1 .. n -> Chars] : n \in 0 .. MaxLine - 1}

(* The types; and the buffer holds zeros from the end of its line on,      *)
(* which the memmove() of a backspace and the shift of an insertion rely   *)
(* on, as a character typed at the end is stored without a terminator.     *)
TypeOK ==
    /\ pc \in {"boot", "clear", "write", "read", "input", "take", "execute", "done"}
    /\ buffer \in [0 .. MaxLine - 1 -> Chars \cup {Nul}]
    /\ length \in 0 .. MaxLine - 1 /\ cursor \in 0 .. length
    /\ \A j \in DOMAIN buffer : buffer[j] = Nul <=> j >= length
    /\ browsed \in -1 .. Depth - 1 /\ insertMode \in BOOLEAN
    /\ command \in Lines
    /\ history \in [0 .. Depth - 1 -> Lines \cup {NoLine}]
    /\ historyCount \in 0 .. Depth - 1
    /\ \A n \in 0 .. historyCount - 1 : history[n] # NoLine

(* The reader reads characters in the order they were typed, none twice.   *)
(* Some are lost when the ring has been lapped and when the first one      *)
(* after ReinitializeStdinWithUart() goes to the slot armed before it.     *)
ReadsInOrder == pc = "take" => NextInOrder

Init ==
    /\ RingInit
    /\ pc = "boot"
    /\ buffer = EmptyBuffer /\ length = 0 /\ cursor = 0 /\ browsed = -1
    /\ insertMode = TRUE
    /\ command = NoCommand
    /\ history = NoHistory /\ historyCount = 0

-----------------------------------------------------------------------------
(* The UART, at any time, and the start of run().                          *)

Typed == RxCplt /\ UNCHANGED <<pc, editorVars, command, historyVars>>

Go(from, to) == pc = from /\ pc' = to /\ UNCHANGED <<editorVars, command, historyVars>>

Run == Go("boot", "write") /\ Clear
RunWrite == Go("write", "read") /\ ResetWriteIdx
RunRead == Go("read", "input") /\ ResetReadIdx

(* getUserInputChar(): without a character it returns 0 and is called      *)
(* again.                                                                  *)
Poll == Go("input", "take") /\ HasChar /\ UNCHANGED ringVars

(* A 0 read from the ring is no character. *)
TakeNul == Go("take", "input") /\ readIdx \in blank /\ ReadSlot

-----------------------------------------------------------------------------
(* getUserInputString(): one action per key.                               *)

Key == pc = "take" /\ readIdx \notin blank /\ ReadSlot

Edit(b, n, c) ==
    /\ pc' = "input"
    /\ buffer' = b /\ length' = n /\ cursor' = c
    /\ UNCHANGED <<command, historyVars>>

KeyInsertMode ==
    /\ Key /\ insertMode' = ~insertMode
    /\ Edit(buffer, length, cursor) /\ UNCHANGED browsed

(* strncpy(): the rest of the buffer is filled with zeros. *)
Filled(text) == [j \in DOMAIN buffer |-> IF j < Len(text) THEN text[j + 1] ELSE Nul]

Show(n) ==
    IF history[n] # NoLine
    THEN Edit(Filled(history[n]), Len(history[n]), Len(history[n]))
    ELSE Edit(buffer, length, cursor)

KeyUp ==
    /\ Key
    /\ browsed' = IF browsed < Depth - 1 THEN browsed + 1 ELSE browsed
    /\ Show(browsed') /\ UNCHANGED insertMode

KeyDown ==
    /\ Key
    /\ browsed' = IF browsed > 0 THEN browsed - 1 ELSE 0
    /\ Show(browsed') /\ UNCHANGED insertMode

KeyLeft ==
    /\ Key /\ Edit(buffer, length, IF cursor > 0 THEN cursor - 1 ELSE cursor)
    /\ UNCHANGED <<browsed, insertMode>>

KeyRight ==
    /\ Key /\ Edit(buffer, length, IF cursor < length THEN cursor + 1 ELSE cursor)
    /\ UNCHANGED <<browsed, insertMode>>

(* memmove() of the text from the cursor on, up to s_cmd[i], one down. *)
Erased ==
    [j \in DOMAIN buffer |->
        IF j = length THEN Nul
        ELSE IF j \in cursor - 1 .. length - 1 THEN buffer[j + 1] ELSE buffer[j]]

KeyBackspace ==
    /\ Key
    /\ IF cursor > 0 THEN Edit(Erased, length - 1, cursor - 1) ELSE Edit(buffer, length, cursor)
    /\ UNCHANGED <<browsed, insertMode>>

(* listMatchingCommands() *)
Matches(text) ==
    IF text = <<>> THEN {}
    ELSE IF text \in Names THEN {text}
    ELSE {name \in Names : IsPrefixOf(text, name)}

KeyTab ==
    /\ Key
    /\ LET found == Matches(Text(buffer, length))
       IN  CASE Cardinality(found) = 1 ->
                    \E name \in found : Edit(Filled(name), Len(name), Len(name))
             [] Cardinality(found) > 1 -> Edit(buffer, length, length)
             [] OTHER -> Edit(buffer, length, cursor)
    /\ UNCHANGED <<browsed, insertMode>>

-----------------------------------------------------------------------------
(* The end of a line: getCommand() and the rest of a turn of run().        *)

(* "!n" stands for a command of the history. *)
Recalled(text) ==
    IF Head(text) # Bang THEN text
    ELSE LET n == Number(Tail(text))
         IN  IF n \in 0 .. historyCount - 1 THEN history[n] ELSE NoCommand

(* The next line starts from an empty buffer; freeHistory() ends run(). *)
Submit(text) ==
    /\ buffer' = EmptyBuffer /\ length' = 0 /\ cursor' = 0 /\ browsed' = -1
    /\ UNCHANGED insertMode
    /\ LET line == IF text = <<>> THEN NoCommand ELSE Recalled(text)
       IN  CASE text = QuitLine ->
                    pc' = "done" /\ history' = NoHistory /\ historyCount' = 0 /\ UNCHANGED command
             [] text # QuitLine /\ Cardinality(Matches(line)) = 1 ->
                    pc' = "execute" /\ command' = line /\ UNCHANGED historyVars
             [] OTHER -> pc' = "input" /\ UNCHANGED <<command, historyVars>>

KeyEnter == Key /\ Submit(Text(buffer, length))

(* What a character typed makes of the buffer and of its length. *)
Inserted(c) ==
    [j \in DOMAIN buffer |->
        IF j = cursor THEN c
        ELSE IF j \in cursor + 1 .. length + 1 THEN buffer[j - 1] ELSE buffer[j]]
Overwritten(c) == [buffer EXCEPT ![cursor] = c]

(* A mistake: in insert mode the text moves although the cursor is at its  *)
(* end, and the length counts the cursor only.                             *)
KeyCharAtEnd(c) ==
    /\ Key
    /\ LET b == IF insertMode THEN Inserted(c) ELSE Overwritten(c)
           n == cursor + 1
       IN  IF n = MaxLine
           THEN Submit(Text(b, MaxLine - 1))
           ELSE Edit(b, n, cursor + 1) /\ UNCHANGED <<browsed, insertMode>>

(* A line that fills the buffer ends, without its last character. *)
KeyChar(c) ==
    /\ Key
    /\ LET inserts == insertMode /\ cursor # length
           b == IF inserts THEN Inserted(c) ELSE Overwritten(c)
           n == IF inserts \/ cursor = length THEN length + 1 ELSE length
       IN  IF n = MaxLine
           THEN Submit(Text(b, MaxLine - 1))
           ELSE Edit(b, n, cursor + 1) /\ UNCHANGED <<browsed, insertMode>>

-----------------------------------------------------------------------------
(* execute() and addInHistory().                                           *)

(* The entries before n move up by one, and the line becomes the first. *)
MovedToFront(n, text) ==
    [m \in DOMAIN history |->
        IF m = 0 THEN text ELSE IF m <= n THEN history[m - 1] ELSE history[m]]

(* The first entry that is the line, or empty; or the last one. *)
Place(text) ==
    CHOOSE n \in DOMAIN history :
        /\ history[n] \in {text, NoLine} \/ n = Depth - 1
        /\ \A m \in 0 .. n - 1 : history[m] \notin {text, NoLine}

(* A mistake: the command is swapped with the first of the history. *)
ExecuteSwaps ==
    /\ pc = "execute" /\ pc' = "input" /\ command' = NoCommand
    /\ history' = [history EXCEPT ![Place(command)] = history[0], ![0] = command]
    /\ historyCount' = IF history[Place(command)] = NoLine /\ historyCount < Depth - 1
                       THEN historyCount + 1 ELSE historyCount
    /\ UNCHANGED <<ringVars, editorVars>>

Execute ==
    /\ pc = "execute" /\ pc' = "input" /\ command' = NoCommand
    /\ history' = MovedToFront(Place(command), command)
    /\ historyCount' = IF history[Place(command)] = NoLine /\ historyCount < Depth - 1
                       THEN historyCount + 1 ELSE historyCount
    /\ UNCHANGED <<ringVars, editorVars>>

Next ==
    \/ Typed
    \/ Run \/ RunWrite \/ RunRead \/ Poll \/ TakeNul
    \/ KeyInsertMode \/ KeyUp \/ KeyDown \/ KeyLeft \/ KeyRight \/ KeyBackspace \/ KeyTab
    \/ KeyEnter \/ (\E c \in Chars : KeyChar(c))
    \/ Execute

Spec == Init /\ [][Next]_vars

-----------------------------------------------------------------------------
(* What the person who types sees.                                         *)

(* The number of commands in the history; nullptr follows the last. *)
Remembered ==
    CHOOSE n \in 0 .. Depth : \A m \in 0 .. Depth - 1 : history[m] # NoLine <=> m < n

Session == INSTANCE ConsoleSession WITH
    line <- Text(buffer, length),
    recent <- Text(history, Remembered),
    Longest <- MaxLine - 1

(* The buffer, the indexes and the pointers implement a line edited at a   *)
(* cursor and a list of the most recent distinct commands.                 *)
SessionSpec == Session!Spec
=============================================================================
