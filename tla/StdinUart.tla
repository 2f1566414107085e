----------------------------- MODULE StdinUart -----------------------------
(***************************************************************************)
(* The ring of characters between the UART interrupt and the console.      *)
(*                                                                         *)
(* The interrupt advances the write index without looking at the read      *)
(* index; equal indexes mean an empty ring.  The HAL holds the address of  *)
(* the slot for the next character from one interrupt to the next.         *)
(*                                                                         *)
(* A character is known by the slot it is in; what it is, is chosen when   *)
(* it is read.                                                             *)
(*                                                                         *)
(* Characters are assumed to be served in time.  An overrun of the UART is *)
(* an error on which the HAL ends the reception; nothing begins it again,  *)
(* and the console is deaf from then on.                                   *)
(***************************************************************************)
EXTENDS Integers, Sequences

CONSTANT Size  \* slots of UartBuffer

ASSUME SizeAssumption == Size \in Nat \ {0}

VARIABLES
    writeIdx, readIdx,  \* UartBufferWriteIdx, UartBufferReadIdx
    armed,              \* the slot the HAL fills next
    blank,              \* the slots that hold 0
    order,              \* the others with what is not yet read, oldest first
    lost                \* unread characters may have been passed over

ringVars == <<writeIdx, readIdx, armed, blank, order, lost>>

Slots == 0 .. Size - 1
After(slot) == (slot + 1) % Size

(* The types; and no slot has two unread characters. *)
RingTypeOK ==
    /\ writeIdx \in Slots /\ readIdx \in Slots /\ armed \in Slots
    /\ blank \subseteq Slots
    /\ order \in Seq(Slots \ blank)
    /\ \A m, n \in DOMAIN order : order[m] = order[n] => m = n
    /\ lost \in BOOLEAN

(* InitializeStdinWithUart(), before interrupts of the UART are enabled. *)
RingInit ==
    /\ writeIdx = 0 /\ readIdx = 0 /\ armed = 0
    /\ blank = Slots /\ order = <<>> /\ lost = FALSE

Unread(slot) == \E n \in DOMAIN order : order[n] = slot
Position(slot) == CHOOSE n \in DOMAIN order : order[n] = slot

(* A slot that is filled again has a character that is never read. *)
Without(slot) ==
    IF Unread(slot)
    THEN SubSeq(order, 1, Position(slot) - 1) \o SubSeq(order, Position(slot) + 1, Len(order))
    ELSE order

(* A mistake: the HAL is given the slot it has just filled. *)
RxCpltSameSlot ==
    /\ order' = Append(Without(armed), armed)
    /\ blank' = blank \ {armed}
    /\ writeIdx' = After(writeIdx)
    /\ armed' = writeIdx
    /\ lost' = (lost \/ armed # writeIdx \/ writeIdx' = readIdx)
    /\ UNCHANGED readIdx

(* A mistake: the write index is not reset at the end of the ring. *)
RxCpltNoWrap ==
    /\ order' = Append(Without(armed), armed)
    /\ blank' = blank \ {armed}
    /\ writeIdx' = IF writeIdx = Size THEN 0 ELSE writeIdx + 1
    /\ armed' = writeIdx'
    /\ lost' = (lost \/ armed # writeIdx \/ writeIdx' = readIdx)
    /\ UNCHANGED readIdx

(* The interrupt of a character: HAL_UART_RxCpltCallback(). *)
RxCplt ==
    /\ order' = Append(Without(armed), armed)
    /\ blank' = blank \ {armed}
    /\ writeIdx' = After(writeIdx)
    /\ armed' = writeIdx'
    /\ lost' = (lost \/ armed # writeIdx \/ writeIdx' = readIdx)
    /\ UNCHANGED readIdx

-----------------------------------------------------------------------------
(* ReinitializeStdinWithUart(): its three stores, with interrupts enabled. *)
(* Its HAL_UART_Receive_IT() then finds a reception under way and returns  *)
(* HAL_BUSY: the armed slot stays what it is.                              *)

Clear ==
    /\ blank' = Slots /\ order' = <<>> /\ lost' = FALSE
    /\ UNCHANGED <<writeIdx, readIdx, armed>>

ResetWriteIdx ==
    /\ writeIdx' = 0
    /\ UNCHANGED <<readIdx, armed, blank, order, lost>>

ResetReadIdx ==
    /\ readIdx' = 0
    /\ UNCHANGED <<writeIdx, armed, blank, order, lost>>

-----------------------------------------------------------------------------
(* CharFromUartBuffer(): the indexes are compared, then the slot is read.  *)

HasChar == writeIdx # readIdx

(* What is older than a character that has been read is never read. *)
ReadSlot ==
    /\ readIdx' = After(readIdx)
    /\ order' = IF Unread(readIdx)
                THEN SubSeq(order, Position(readIdx) + 1, Len(order))
                ELSE order
    /\ lost' = (lost /\ order' # <<>>)
    /\ UNCHANGED <<writeIdx, armed, blank>>

(* The slot about to be read holds the oldest unread character, unless     *)
(* some have been lost: then a later one, and never one already read.      *)
NextInOrder ==
    \/ readIdx \in blank /\ lost
    \/ order # <<>> /\ Head(order) = readIdx
    \/ lost /\ Unread(readIdx)
=============================================================================
