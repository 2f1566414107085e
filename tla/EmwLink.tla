------------------------------ MODULE EmwLink ------------------------------
(***************************************************************************)
(* What the SPI link promises to the layers above it, and what EmwCoreIpc  *)
(* assumes of it: one slot for the frame to send, which a new frame        *)
(* replaces; a frame leaves the slot whole or is lost, never in pieces;    *)
(* one packet at a time is carried to the receive queue, and while it is   *)
(* carried nobody touches the slot.                                        *)
(***************************************************************************)
EXTENDS Naturals

CONSTANTS Frames, NoFrame, Capacity

VARIABLES
    slot,       \* the frame to send, or NoFrame
    delivered,  \* the last frame the module has received
    carried,    \* a received packet is on its way to the queue
    queued      \* packets in the queue

vars == <<slot, delivered, carried, queued>>

Init ==
    /\ slot = NoFrame /\ delivered = NoFrame
    /\ carried = FALSE
    /\ queued = 0

Post ==
    /\ ~carried
    /\ slot' \in Frames
    /\ UNCHANGED <<delivered, carried, queued>>

(* The frame leaves the slot, for the module or for nowhere; in a full     *)
(* duplex exchange a packet arrives with it.                               *)
Transmit ==
    /\ ~carried
    /\ slot # NoFrame
    /\ slot' = NoFrame
    /\ delivered' \in {slot, delivered}
    /\ carried' \in BOOLEAN
    /\ UNCHANGED queued

Receive ==
    /\ ~carried /\ carried' = TRUE
    /\ UNCHANGED <<slot, delivered, queued>>

Input ==
    /\ carried /\ carried' = FALSE
    /\ queued < Capacity
    /\ queued' = queued + 1
    /\ UNCHANGED <<slot, delivered>>

Poll ==
    /\ queued > 0
    /\ queued' = queued - 1
    /\ UNCHANGED <<slot, delivered, carried>>

(* The queue is created or deleted, a packet on its way is lost. *)
Restart ==
    /\ queued' = 0
    /\ carried' \in {carried, FALSE}
    /\ UNCHANGED <<slot, delivered>>

Next == Post \/ Transmit \/ Receive \/ Input \/ Poll \/ Restart

Spec == Init /\ [][Next]_vars
=============================================================================
