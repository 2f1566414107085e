--------------------------- MODULE ConsoleSession ---------------------------
(***************************************************************************)
(* What the console promises to the person who types: a line edited at a   *)
(* cursor, and the most recent distinct commands, the last one first.      *)
(***************************************************************************)
EXTENDS Integers, SequencesExt

CONSTANTS
    Chars,   \* characters of a line
    Longest, \* characters a line can have
    Depth    \* commands remembered

VARIABLES
    line, cursor,  \* the line being edited, the characters left of the cursor
    command,       \* the command to execute; empty when there is none
    recent         \* the commands remembered

vars == <<line, cursor, command, recent>>

Init == line = <<>> /\ cursor = 0 /\ command = <<>> /\ recent = <<>>

Show(text, place) == line' = text /\ cursor' = place /\ UNCHANGED <<command, recent>>

(* The line is entered: it, or a command it recalls, is executed, or it is *)
(* dropped.                                                                *)
Submit(text) ==
    /\ line' = <<>> /\ cursor' = 0
    /\ command' \in {text, <<>>} \cup ToSet(recent)
    /\ UNCHANGED recent

(* A line that would become too long is entered without its last character. *)
Put(text) ==
    IF Len(text) <= Longest THEN Show(text, cursor + 1) ELSE Submit(SubSeq(text, 1, Longest))

Type(c) ==
    \/ Put(InsertAt(line, cursor + 1, c))
    \/ cursor < Len(line) /\ Put([line EXCEPT ![cursor + 1] = c])

Erase == cursor > 0 /\ Show(RemoveAt(line, cursor), cursor - 1)

Move == \E place \in {cursor - 1, cursor + 1} \cap 0 .. Len(line) : Show(line, place)

Recall == \E text \in ToSet(recent) : Show(text, Len(text))

(* The line is completed to the right, and the cursor is at its end. *)
Complete ==
    /\ line' \in Seq(Chars) /\ IsPrefix(line, line') /\ cursor' = Len(line')
    /\ UNCHANGED <<command, recent>>

Others ==
    IF command \in ToSet(recent)
    THEN RemoveAt(recent, CHOOSE n \in DOMAIN recent : recent[n] = command)
    ELSE recent

(* The command becomes the first of the list; the last one may be dropped. *)
Execute ==
    /\ command # <<>> /\ line = <<>>
    /\ LET list == <<command>> \o Others
       IN  recent' = SubSeq(list, 1, IF Len(list) < Depth THEN Len(list) ELSE Depth)
    /\ command' = <<>>
    /\ UNCHANGED <<line, cursor>>

Quit == recent' = <<>> /\ line' = <<>> /\ cursor' = 0 /\ UNCHANGED command

Next ==
    \/ \E c \in Chars : Type(c)
    \/ Submit(line) \/ Erase \/ Move \/ Recall \/ Complete \/ Execute \/ Quit

Spec == Init /\ [][Next]_vars
=============================================================================
