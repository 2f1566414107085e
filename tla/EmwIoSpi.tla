------------------------------ MODULE EmwIoSpi ------------------------------
(***************************************************************************)
(* The SPI link of the EMW3080B driver, FreeRTOS build: the I/O thread of  *)
(* EmwIoSpi, its senders, its EXTI interrupts, the receive queue of        *)
(* EmwCoreHci it feeds, and how both are started and stopped.              *)
(*                                                                         *)
(* A transaction is: a kick (TxRxSem), given by a sender or by the NOTIFY  *)
(* pin; chip select low; FLOW rises; headers are exchanged, each with the  *)
(* length of what follows; FLOW rises again; data is exchanged; chip       *)
(* select high.  A wait for FLOW may time out, a transfer may fail.        *)
(*                                                                         *)
(* request() sends under IpcLock, so one sender is active at any time.     *)
(***************************************************************************)
EXTENDS Naturals, Sequences, FiniteSets

CONSTANTS
    Buffers,       \* network buffers
    NoBuffer,
    FifoCapacity,  \* EMW_HCI_MAX_RX_BUFFER_COUNT
    Frames         \* what request() sends: "dummy" only in power-save mode

ASSUME BuffersAssumption == NoBuffer \notin Buffers
ASSUME FifoAssumption == FifoCapacity \in Nat \ {0}

ASSUME FramesAssumption == Frames \subseteq {"dummy", "command"}

(* Frames are told apart by length. *)
NoFrame == "none"
LengthOf == [dummy |-> 1, command |-> 2, none |-> 0]

(* What the module makes of data whose length is not the announced one. *)
Garbled == "garbled"

MaxKicks == 2   \* the maximum count of TxRxSem

VARIABLES
    (* the driver *)
    life,       \* where the task that starts and stops the driver is
    senderPc,   \* where the sender is in sendImp
    sending,    \* the frame it sends
    ioPc,       \* where the I/O thread is
    quitFlag,   \* IoThreadQuitFlag
    txLock,     \* owner of TxLock
    txAddr,     \* TxDataAddress
    txLen,      \* TxDataLength
    announced,  \* the length in the master header
    rxLength,   \* the length in the slave header is not zero
    rxBuffer,   \* the static buffer of processPollingDataImp
    kicks,      \* count of TxRxSem
    flowSem,    \* count of FowRiseSem
    fifoState,  \* NetworkPacketFifo: "none", "alive" or "deleted"
    fifo,       \* its content
    above,      \* buffers with the receive thread and the network stack above
    free,       \* buffers in the pool
    (* the pins and the module *)
    selected,   \* chip select is low
    flow,       \* FLOW is high
    notify,     \* NOTIFY is high: the module has a packet
    module,     \* where the module is in the transaction
    (* history *)
    delivered,  \* the last frame the module has received
    leaked,     \* buffers that nobody owns any more
    failedTx,   \* the kick of the frame in the slot has been used in vain
    failedRx,   \* the kick of the packet of the module has been used in vain
    failed,     \* a transaction failed since the start
    lateInput   \* a packet came in after the receive thread was told to quit

senderVars == <<senderPc, sending>>
ioVars == <<announced, rxLength, rxBuffer>>
slotVars == <<txAddr, txLen>>
fifoVars == <<fifoState, fifo>>
pinVars == <<selected, flow, notify, module>>
failVars == <<failedTx, failedRx, failed>>
vars == <<life, senderPc, sending, ioPc, quitFlag, txLock, txAddr, txLen,
          announced, rxLength, rxBuffer, kicks, flowSem, fifoState, fifo,
          above, free, selected, flow, notify, module, delivered, leaked,
          failedTx, failedRx, failed, lateInput>>

Lives == {"down", "starting", "listening", "up", "draining", "deleted",
          "quitting", "stopping", "halted"}
IoSteps == {"none", "boot", "loop", "alloc", "wait", "lock", "flow0", "header",
            "flow1", "data", "input", "stuck", "halted", "exited"}

(* The transaction: between the two writes of chip select, TxLock held. *)
TransactionSteps == {"flow0", "header", "flow1", "data", "input"}

TypeOK ==
    /\ life \in Lives
    /\ senderPc \in {"idle", "enter", "address", "length", "leave"}
    /\ sending \in Frames \cup {NoFrame}
    /\ ioPc \in IoSteps
    /\ quitFlag \in BOOLEAN
    /\ txLock \in {"nobody", "io", "sender"}
    /\ txAddr \in Frames \cup {NoFrame}
    /\ txLen \in 0 .. 2 /\ announced \in 0 .. 2
    /\ rxLength \in BOOLEAN
    /\ rxBuffer \in Buffers \cup {NoBuffer}
    /\ kicks \in 0 .. MaxKicks /\ flowSem \in {0, 1}
    /\ fifoState \in {"none", "alive", "deleted"}
    /\ fifo \in Seq(Buffers) /\ Len(fifo) <= FifoCapacity
    /\ above \in SUBSET Buffers
    /\ free \in SUBSET Buffers /\ leaked \in SUBSET Buffers
    /\ selected \in BOOLEAN /\ flow \in BOOLEAN /\ notify \in BOOLEAN
    /\ module \in {"idle", "called", "header", "gap", "data", "done"}
    /\ delivered \in Frames \cup {NoFrame, Garbled}
    /\ failedTx \in BOOLEAN /\ failedRx \in BOOLEAN /\ failed \in BOOLEAN
    /\ lateInput \in BOOLEAN

Init ==
    /\ life = "down"
    /\ senderPc = "idle" /\ sending = NoFrame
    /\ ioPc = "none" /\ quitFlag = FALSE
    /\ txLock = "nobody"
    /\ txAddr = NoFrame /\ txLen = 0
    /\ announced = 0 /\ rxLength = FALSE /\ rxBuffer = NoBuffer
    /\ kicks = 0 /\ flowSem = 0
    /\ fifoState = "none" /\ fifo = <<>>
    /\ above = {}
    /\ free = Buffers
    /\ selected = FALSE /\ flow = FALSE /\ notify = FALSE /\ module = "idle"
    /\ delivered = NoFrame /\ leaked = {}
    /\ failedTx = FALSE /\ failedRx = FALSE /\ failed = FALSE
    /\ lateInput = FALSE

Halted == life = "halted"

-----------------------------------------------------------------------------
(* Semaphores and buffers.                                                 *)

(* ReleaseSemaphore of TxRxSem: a full semaphore stays full. *)
Kick == kicks' = IF kicks < MaxKicks THEN kicks + 1 ELSE kicks

(* FlowInterruptCallback: ReleaseSemaphore of FowRiseSem, of count 1. *)
FlowRises == flow' = TRUE /\ flowSem' = 1

Elements(q) == {q[i] : i \in 1 .. Len(q)}

-----------------------------------------------------------------------------
(* sendImp().  The slot is overwritten whatever it holds.                  *)

SendEnter(f) ==
    /\ life \in {"up", "draining"}
    /\ senderPc = "idle"
    /\ senderPc' = "enter" /\ sending' = f
    /\ UNCHANGED <<life, ioPc, quitFlag, txLock, slotVars, ioVars, kicks, flowSem,
                   fifoVars, above, free, pinVars, delivered, leaked, failVars,
                   lateInput>>

(* A mistake: TxLock is not waited for. *)
SendWithoutLock ==
    /\ senderPc = "enter"
    /\ txLock' = "sender"
    /\ senderPc' = "address"
    /\ UNCHANGED <<life, sending, ioPc, quitFlag, slotVars, ioVars, kicks, flowSem,
                   fifoVars, above, free, pinVars, delivered, leaked, failVars,
                   lateInput>>

SendLock ==
    /\ senderPc = "enter"
    /\ txLock = "nobody" /\ txLock' = "sender"
    /\ senderPc' = "address"
    /\ UNCHANGED <<life, sending, ioPc, quitFlag, slotVars, ioVars, kicks, flowSem,
                   fifoVars, above, free, pinVars, delivered, leaked, failVars,
                   lateInput>>

SendAddress ==
    /\ senderPc = "address"
    /\ txAddr' = sending
    /\ senderPc' = "length"
    /\ UNCHANGED <<life, sending, ioPc, quitFlag, txLock, txLen, ioVars, kicks,
                   flowSem, fifoVars, above, free, pinVars, delivered, leaked,
                   failVars, lateInput>>

(* A mistake: the I/O thread is not kicked. *)
SendLengthNoKick ==
    /\ senderPc = "length"
    /\ txLen' = LengthOf[sending]
    /\ kicks' = kicks
    /\ senderPc' = "leave"
    /\ failedTx' = FALSE
    /\ UNCHANGED <<life, sending, ioPc, quitFlag, txLock, txAddr, ioVars, flowSem,
                   fifoVars, above, free, pinVars, delivered, leaked, failedRx,
                   failed, lateInput>>

(* The length, then the kick. *)
SendLength ==
    /\ senderPc = "length"
    /\ txLen' = LengthOf[sending]
    /\ Kick
    /\ senderPc' = "leave"
    /\ failedTx' = FALSE
    /\ UNCHANGED <<life, sending, ioPc, quitFlag, txLock, txAddr, ioVars, flowSem,
                   fifoVars, above, free, pinVars, delivered, leaked, failedRx,
                   failed, lateInput>>

SendUnlock ==
    /\ senderPc = "leave"
    /\ txLock' = "nobody"
    /\ senderPc' = "idle" /\ sending' = NoFrame
    /\ UNCHANGED <<life, ioPc, quitFlag, slotVars, ioVars, kicks, flowSem, fifoVars,
                   above, free, pinVars, delivered, leaked, failVars, lateInput>>

Sender ==
    \/ \E f \in Frames : SendEnter(f)
    \/ SendLock \/ SendAddress \/ SendLength \/ SendUnlock

-----------------------------------------------------------------------------
(* The I/O thread: IoThreadFunction() and processPollingDataImp().         *)

IoBoot ==
    /\ ioPc = "boot"
    /\ quitFlag' = FALSE
    /\ ioPc' = "loop"
    /\ UNCHANGED <<life, senderVars, txLock, slotVars, ioVars, kicks, flowSem,
                   fifoVars, above, free, pinVars, delivered, leaked, failVars,
                   lateInput>>

(* The thread reads the flag only between two calls of                     *)
(* processPollingDataImp().                                                *)
IoLoop ==
    /\ ioPc = "loop" /\ ~quitFlag
    /\ ioPc' = "alloc"
    /\ UNCHANGED <<life, senderVars, quitFlag, txLock, slotVars, ioVars, kicks, flowSem,
                   fifoVars, above, free, pinVars, delivered, leaked, failVars,
                   lateInput>>

(* A buffer must be at hand first.  While the pool is empty the thread     *)
(* tries again at every tick, told to quit or not.                         *)
IoAlloc ==
    /\ ioPc = "alloc"
    /\ \/ rxBuffer # NoBuffer /\ UNCHANGED <<rxBuffer, free>>
       \/ /\ rxBuffer = NoBuffer
          /\ rxBuffer' \in free
          /\ free' = free \ {rxBuffer'}
    /\ ioPc' = "wait"
    /\ UNCHANGED <<life, senderVars, quitFlag, txLock, slotVars, announced, rxLength,
                   kicks, flowSem, fifoVars, above, pinVars, delivered, leaked,
                   failVars, lateInput>>

IoExit ==
    /\ ioPc = "loop" /\ quitFlag
    /\ quitFlag' = FALSE
    /\ ioPc' = "exited"
    /\ UNCHANGED <<life, senderVars, txLock, slotVars, ioVars, kicks, flowSem,
                   fifoVars, above, free, pinVars, delivered, leaked, failVars,
                   lateInput>>

(* A mistake: one wake-up stands for all the kicks. *)
IoTakeAllKicks ==
    /\ ioPc = "wait"
    /\ kicks > 0 /\ kicks' = 0
    /\ ioPc' = "lock"
    /\ UNCHANGED <<life, senderVars, quitFlag, txLock, slotVars, ioVars, flowSem,
                   fifoVars, above, free, pinVars, delivered, leaked, failVars,
                   lateInput>>

IoTakeKick ==
    /\ ioPc = "wait"
    /\ kicks > 0 /\ kicks' = kicks - 1
    /\ ioPc' = "lock"
    /\ UNCHANGED <<life, senderVars, quitFlag, txLock, slotVars, ioVars, flowSem,
                   fifoVars, above, free, pinVars, delivered, leaked, failVars,
                   lateInput>>

(* Under TxLock: a transaction, unless there is nothing either way. *)
IoSelect ==
    /\ ioPc = "lock" /\ txLock = "nobody"
    /\ txAddr # NoFrame \/ notify
    /\ txLock' = "io"
    /\ selected' = TRUE
    /\ ioPc' = "flow0"
    /\ UNCHANGED <<life, senderVars, quitFlag, slotVars, ioVars, kicks, flowSem,
                   fifoVars, above, free, flow, notify, module, delivered, leaked,
                   failVars, lateInput>>

(* A kick for nothing; the kick of stop() is one, and frees the buffer. *)
IoNothingToDo ==
    /\ ioPc = "lock" /\ txLock = "nobody"
    /\ txAddr = NoFrame /\ ~notify
    /\ IF quitFlag THEN free' = free \cup {rxBuffer} /\ rxBuffer' = NoBuffer
                   ELSE UNCHANGED <<free, rxBuffer>>
    /\ ioPc' = "loop"
    /\ UNCHANGED <<life, senderVars, quitFlag, txLock, slotVars, announced, rxLength,
                   kicks, flowSem, fifoVars, above, pinVars, delivered, leaked,
                   failVars, lateInput>>

(* Every way out of a transaction: chip select high, TxLock released.  The *)
(* module sees the end of a completed transaction at once.                 *)
Deselect(phase) ==
    /\ selected' = FALSE
    /\ module' = IF phase = "done" THEN "idle" ELSE phase
    /\ txLock' = "nobody"
    /\ ioPc' = "loop"

(* An aborted transaction leaves the slot as it is and has used its kick. *)
Abort(phase) ==
    /\ Deselect(phase)
    /\ failed' = TRUE /\ failedTx' = TRUE /\ failedRx' = TRUE

(* A mistake: the level of FLOW is not read after its rise. *)
WaitFlowRise(here, next) ==
    /\ ioPc = here
    /\ flowSem' = 0
    /\ \/ /\ flowSem = 1
          /\ ioPc' = next
          /\ UNCHANGED <<selected, module, txLock, failVars>>
       \/ /\ flowSem = 0
          /\ Abort(module)
    /\ UNCHANGED <<life, senderVars, quitFlag, slotVars, ioVars, kicks, fifoVars,
                   above, free, flow, notify, delivered, leaked, lateInput>>

(* waitFlowHigh(): a rise of FLOW since the last wait, and FLOW still high. *)
WaitFlowHigh(here, next) ==
    /\ ioPc = here
    /\ flowSem' = 0
    /\ \/ /\ flowSem = 1 /\ flow
          /\ ioPc' = next
          /\ UNCHANGED <<selected, module, txLock, failVars>>
       \/ /\ flowSem = 0 \/ ~flow
          /\ Abort(module)
    /\ UNCHANGED <<life, senderVars, quitFlag, slotVars, ioVars, kicks, fifoVars,
                   above, free, flow, notify, delivered, leaked, lateInput>>

(* A mistake: the data follows the header at once. *)
IoFlow1Skipped ==
    /\ ioPc = "flow1" /\ ioPc' = "data"
    /\ UNCHANGED <<life, senderVars, quitFlag, txLock, slotVars, ioVars, kicks,
                   flowSem, fifoVars, above, free, pinVars, delivered, leaked,
                   failVars, lateInput>>

IoFlow0 == WaitFlowHigh("flow0", "header")
IoFlow1 == WaitFlowHigh("flow1", "data")

(* exchangeHeaders() succeeds: the module lowers FLOW and answers with the *)
(* length of its packet, if it has one.                                    *)
IoHeader ==
    /\ ioPc = "header" /\ module = "header"
    /\ announced' = txLen
    /\ rxLength' \in {FALSE, notify}
    /\ txLen > 0 \/ rxLength'
    /\ module' = "gap" /\ flow' = FALSE
    /\ ioPc' = "flow1"
    /\ UNCHANGED <<life, senderVars, quitFlag, txLock, slotVars, rxBuffer, kicks,
                   flowSem, fifoVars, above, free, selected, notify, delivered,
                   leaked, failVars, lateInput>>

(* The HAL refuses the transfer, or the slave header is invalid, or its    *)
(* length is above the buffer's, or both lengths are zero.  An error of    *)
(* the DMA is left out: SpiErrorCallback() asserts that there is none.     *)
IoHeaderFails ==
    /\ ioPc = "header"
    /\ \/ Abort(module) /\ UNCHANGED flow
       \/ module = "header" /\ Abort("gap") /\ flow' = FALSE
    /\ UNCHANGED <<life, senderVars, quitFlag, slotVars, ioVars, kicks, flowSem,
                   fifoVars, above, free, notify, delivered, leaked, lateInput>>

(* What reaches the module from the slot. *)
Received ==
    IF txAddr = NoFrame THEN delivered
    ELSE IF LengthOf[txAddr] = announced THEN txAddr
    ELSE Garbled

(* The data exchange succeeds.  The slot is emptied; a packet goes on to   *)
(* EmwCoreHci::Input, still under TxLock.                                  *)
IoData ==
    /\ ioPc = "data" /\ module = "data"
    /\ delivered' = Received
    /\ txAddr' = NoFrame
    /\ txLen' = IF txAddr = NoFrame THEN txLen ELSE 0
    /\ flow' = FALSE
    /\ notify' = (notify /\ ~rxLength)
    /\ failedTx' = FALSE /\ failedRx' = (failedRx /\ ~rxLength)
    /\ IF rxLength
       THEN /\ ioPc' = "input" /\ module' = "done"
            /\ UNCHANGED <<selected, txLock>>
       ELSE Deselect("done")
    /\ lateInput' = (lateInput \/ (rxLength /\ life # "up"))
    /\ UNCHANGED <<life, senderVars, quitFlag, ioVars, kicks, flowSem, fifoVars,
                   above, free, leaked, failed>>

(* The HAL refuses the data exchange: the slot is emptied all the same. *)
IoDataFails ==
    /\ ioPc = "data"
    /\ txAddr' = NoFrame
    /\ txLen' = IF txAddr = NoFrame THEN txLen ELSE 0
    /\ Abort(module)
    /\ UNCHANGED <<life, senderVars, quitFlag, ioVars, kicks, flowSem, fifoVars,
                   above, free, flow, notify, delivered, leaked, lateInput>>

(* Two mistakes: the packet is stored whether there is room or not; its    *)
(* buffer is kept for the next packet as well.                             *)
IoInputWithoutRoom ==
    /\ ioPc = "input"
    /\ fifoState = "alive"
    /\ fifo' = Append(fifo, rxBuffer)
    /\ rxBuffer' = NoBuffer
    /\ Deselect(module)
    /\ UNCHANGED <<life, senderVars, quitFlag, slotVars, announced, rxLength, kicks,
                   flowSem, fifoState, above, free, flow, notify, delivered, leaked,
                   failVars, lateInput>>

IoInputKeepsBuffer ==
    /\ ioPc = "input"
    /\ fifoState = "alive" /\ Len(fifo) < FifoCapacity
    /\ fifo' = Append(fifo, rxBuffer)
    /\ rxBuffer' = rxBuffer
    /\ Deselect(module)
    /\ UNCHANGED <<life, senderVars, quitFlag, slotVars, announced, rxLength, kicks,
                   flowSem, fifoState, above, free, flow, notify, delivered, leaked,
                   failVars, lateInput>>

(* EmwCoreHci::Input: waits for room for ever. *)
IoInput ==
    /\ ioPc = "input"
    /\ fifoState = "alive" /\ Len(fifo) < FifoCapacity
    /\ fifo' = Append(fifo, rxBuffer)
    /\ rxBuffer' = NoBuffer
    /\ Deselect(module)
    /\ UNCHANGED <<life, senderVars, quitFlag, slotVars, announced, rxLength, kicks,
                   flowSem, fifoState, above, free, flow, notify, delivered, leaked,
                   failVars, lateInput>>

(* The queue is not created yet: configASSERT(pxQueue) stops the system. *)
IoInputNoQueue ==
    /\ ioPc = "input" /\ fifoState = "none"
    /\ ioPc' = "halted" /\ life' = "halted"
    /\ UNCHANGED <<senderVars, quitFlag, txLock, slotVars, ioVars, kicks,
                   flowSem, fifoVars, above, free, pinVars, delivered, leaked,
                   failVars, lateInput>>

(* The queue has been deleted, which is undefined: the post fails and the  *)
(* buffer is freed, or it is written to freed memory, or it never returns. *)
IoInputDeletedQueue ==
    /\ ioPc = "input" /\ fifoState = "deleted"
    /\ \/ /\ free' = free \cup {rxBuffer} /\ UNCHANGED leaked
          /\ rxBuffer' = NoBuffer /\ Deselect(module)
       \/ /\ leaked' = leaked \cup {rxBuffer} /\ UNCHANGED free
          /\ rxBuffer' = NoBuffer /\ Deselect(module)
       \/ ioPc' = "stuck" /\ UNCHANGED <<free, leaked, rxBuffer, selected, module, txLock>>
    /\ UNCHANGED <<life, senderVars, quitFlag, slotVars, announced, rxLength, kicks,
                   flowSem, fifoVars, above, flow, notify, delivered, failVars,
                   lateInput>>

IoThread ==
    \/ IoBoot \/ IoLoop \/ IoAlloc \/ IoExit \/ IoTakeKick \/ IoSelect
    \/ IoNothingToDo \/ IoFlow0 \/ IoHeader \/ IoHeaderFails \/ IoFlow1
    \/ IoData \/ IoDataFails \/ IoInput \/ IoInputNoQueue \/ IoInputDeletedQueue

-----------------------------------------------------------------------------
(* The receive thread and the network stack, as far as buffers go: a       *)
(* packet is taken from the queue and its buffer is given back some time,  *)
(* by the receive thread or by the stack that it was handed to.            *)

Poll ==
    /\ life = "up"
    /\ fifo # <<>>
    /\ above' = above \cup {Head(fifo)} /\ fifo' = Tail(fifo)
    /\ UNCHANGED <<life, senderVars, ioPc, quitFlag, txLock, slotVars, ioVars, kicks,
                   flowSem, fifoState, free, pinVars, delivered, leaked, failVars,
                   lateInput>>

FreeBuffer(b) ==
    /\ b \in above
    /\ above' = above \ {b} /\ free' = free \cup {b}
    /\ UNCHANGED <<life, senderVars, ioPc, quitFlag, txLock, slotVars, ioVars, kicks,
                   flowSem, fifoVars, pinVars, delivered, leaked, failVars, lateInput>>

FreeAny == \E b \in Buffers : FreeBuffer(b)

-----------------------------------------------------------------------------
(* The task that starts and stops the driver.  The module is reset before  *)
(* the start; it is assumed quiet until the interrupts have a callback.    *)
(* A frame left in the slot by the last session is still there, its kick   *)
(* is not.                                                                 *)

Start ==
    /\ life = "down"
    /\ life' = "starting"
    /\ kicks' = 0 /\ flowSem' = 0
    /\ txLock' = "nobody"
    /\ ioPc' = "boot"
    /\ selected' = FALSE /\ flow' = FALSE /\ notify' = FALSE /\ module' = "idle"
    /\ failedTx' = (txAddr # NoFrame) /\ failedRx' = (txAddr # NoFrame)
    /\ failed' = FALSE /\ lateInput' = FALSE
    /\ UNCHANGED <<senderVars, quitFlag, slotVars, ioVars, fifoVars, above, free,
                   delivered, leaked>>

(* One tick later, when the thread of higher priority has started. *)
RegisterCallbacks ==
    /\ life = "starting" /\ ioPc # "boot"
    /\ life' = "listening"
    /\ UNCHANGED <<senderVars, ioPc, quitFlag, txLock, slotVars, ioVars, kicks,
                   flowSem, fifoVars, above, free, pinVars, delivered, leaked,
                   failVars, lateInput>>

CreateFifo ==
    /\ life = "listening"
    /\ life' = "up"
    /\ fifoState' = "alive" /\ fifo' = <<>>
    /\ UNCHANGED <<senderVars, ioPc, quitFlag, txLock, slotVars, ioVars, kicks,
                   flowSem, above, free, pinVars, delivered, leaked, failVars,
                   lateInput>>

(* EmwApiCore::unInitialize() has ended the receive thread; the stack may  *)
(* still have buffers.                                                     *)
QuitReceive ==
    /\ life = "up"
    /\ life' = "draining"
    /\ lateInput' = (lateInput \/ ioPc = "input")
    /\ UNCHANGED <<senderVars, ioPc, quitFlag, txLock, slotVars, ioVars, kicks,
                   flowSem, fifoVars, above, free, pinVars, delivered, leaked,
                   failVars>>

(* IpcLock has been obtained: no sender is active.  The queue is deleted   *)
(* with what it holds, and with the I/O thread if that waits for room.     *)
DeleteFifo ==
    /\ life = "draining" /\ senderPc = "idle"
    /\ life' = "deleted"
    /\ fifoState' = "deleted" /\ fifo' = <<>>
    /\ leaked' = leaked \cup Elements(fifo)
    /\ ioPc' = IF ioPc = "input" /\ Len(fifo) = FifoCapacity THEN "stuck" ELSE ioPc
    /\ UNCHANGED <<senderVars, quitFlag, txLock, slotVars, ioVars, kicks, flowSem,
                   above, free, pinVars, delivered, failVars, lateInput>>

(* EmwIoSpi::stop(): the flag first, then the kick. *)
SetQuitFlag ==
    /\ life = "deleted"
    /\ life' = "quitting"
    /\ quitFlag' = TRUE
    /\ UNCHANGED <<senderVars, ioPc, txLock, slotVars, ioVars, kicks, flowSem,
                   fifoVars, above, free, pinVars, delivered, leaked, failVars,
                   lateInput>>

(* A mistake: the thread is told to quit, but not woken up. *)
QuitWithoutKick ==
    /\ life = "quitting"
    /\ life' = "stopping"
    /\ kicks' = kicks
    /\ UNCHANGED <<senderVars, ioPc, quitFlag, txLock, slotVars, ioVars, flowSem,
                   fifoVars, above, free, pinVars, delivered, leaked, failVars,
                   lateInput>>

KickToQuit ==
    /\ life = "quitting"
    /\ life' = "stopping"
    /\ Kick
    /\ UNCHANGED <<senderVars, ioPc, quitFlag, txLock, slotVars, ioVars, flowSem,
                   fifoVars, above, free, pinVars, delivered, leaked, failVars,
                   lateInput>>

(* The thread has cleared the flag: its semaphores and lock are deleted. *)
Stopped ==
    /\ life = "stopping" /\ ~quitFlag
    /\ life' = "down"
    /\ ioPc' = "none"
    /\ UNCHANGED <<senderVars, quitFlag, txLock, slotVars, ioVars, kicks, flowSem,
                   fifoVars, above, free, pinVars, delivered, leaked, failVars,
                   lateInput>>

LifeCycle ==
    \/ Start \/ RegisterCallbacks \/ CreateFifo
    \/ QuitReceive \/ DeleteFifo \/ SetQuitFlag \/ KickToQuit \/ Stopped

-----------------------------------------------------------------------------
(* The module (external): what src/ expects of its pins.                   *)

Listening == life \notin {"down", "starting", "halted"}

(* It sees chip select low... *)
ModuleCalled ==
    /\ selected /\ module = "idle"
    /\ module' = "called"
    /\ UNCHANGED <<flow, flowSem>>

(* ...raises FLOW when ready for the header, and again for the data... *)
ModuleReady ==
    /\ \/ module = "called" /\ module' = "header"
       \/ module = "gap" /\ module' = "data"
    /\ FlowRises

(* ...and gives up a transaction when it sees chip select high. *)
ModuleGivesUp ==
    /\ ~selected /\ module # "idle"
    /\ module' = "idle"
    /\ flow' = FALSE
    /\ UNCHANGED flowSem

ModuleTransacts ==
    /\ Listening
    /\ ModuleCalled \/ ModuleReady \/ ModuleGivesUp
    /\ UNCHANGED <<life, senderVars, ioPc, quitFlag, txLock, slotVars, ioVars, kicks,
                   fifoVars, above, free, selected, notify, delivered, leaked,
                   failVars, lateInput>>

(* It has a packet: NOTIFY rises, NotifyInterruptCallback kicks. *)
ModuleNotifies ==
    /\ Listening
    /\ ~notify /\ notify' = TRUE
    /\ Kick
    /\ UNCHANGED <<life, senderVars, ioPc, quitFlag, txLock, slotVars, ioVars,
                   flowSem, fifoVars, above, free, selected, flow, module, delivered,
                   leaked, failVars, lateInput>>

-----------------------------------------------------------------------------
(* A failed assertion loops for ever, stop() until the flag is cleared. *)
Spin ==
    /\ Halted \/ (life = "stopping" /\ quitFlag)
    /\ UNCHANGED vars

Next ==
    \/ Sender \/ IoThread
    \/ Poll \/ FreeAny
    \/ LifeCycle
    \/ ModuleTransacts \/ ModuleNotifies
    \/ Spin

Spec == Init /\ [][Next]_vars

(* Every thread that is ready runs: the I/O thread has the highest         *)
(* priority, and a wait for FLOW ends at its timeout.  TxLock goes to the  *)
(* I/O thread first, and to the sender because the I/O thread sleeps       *)
(* without it between two packets.  unInitialize() obtains IpcLock once    *)
(* requests are refused.  The stack gives back each buffer it was handed.  *)
(* Nothing is assumed of the module.                                       *)
Fairness ==
    /\ SF_vars(IoSelect \/ IoNothingToDo)
    /\ WF_vars(IoThread)
    /\ SF_vars(SendLock) /\ WF_vars(SendAddress \/ SendLength \/ SendUnlock)
    /\ WF_vars(Poll) /\ \A b \in Buffers : WF_vars(FreeBuffer(b))
    /\ SF_vars(DeleteFifo) /\ WF_vars(SetQuitFlag \/ KickToQuit \/ Stopped)

FairSpec == Spec /\ Fairness

-----------------------------------------------------------------------------
(* Properties.                                                             *)

(* A semaphore of two tokens is enough: the I/O thread never sleeps on     *)
(* work.  If it waits without a token while a frame is in the slot or the  *)
(* module has a packet, then a failed transaction has used their kick.     *)
NoLostKick ==
    (ioPc = "wait" /\ kicks = 0) =>
        /\ txAddr # NoFrame /\ senderPc # "length" => failedTx
        /\ notify => failedRx

(* FLOW is high whenever the SPI is clocked, stale tokens or not. *)
ClocksWhenFlowHigh == ioPc \in {"header", "data"} => flow

(* As long as no wait and no transfer has failed, the two ends agree on    *)
(* what is exchanged: no rise of FLOW is taken for the next one.           *)
InStep ==
    ~failed => /\ ioPc = "header" => module = "header"
               /\ ioPc = "data" => module = "data"

(* Each buffer has exactly one owner: the pool, the I/O thread, the queue, *)
(* the receive thread and the stack above it, or nobody once the queue is  *)
(* deleted around it.                                                      *)
OneOwner ==
    LET owners(b) == {o \in {"free", "io", "above", "leaked"} :
                         \/ o = "free" /\ b \in free
                         \/ o = "io" /\ b = rxBuffer
                         \/ o = "above" /\ b \in above
                         \/ o = "leaked" /\ b \in leaked}
        places(b) == {i \in 1 .. Len(fifo) : fifo[i] = b}
    IN  \A b \in Buffers : Cardinality(owners(b)) + Cardinality(places(b)) = 1

(* The I/O thread posts only to a queue that exists: configASSERT(pxQueue). *)
QueueExists == ~Halted

(* stop() returns, although nothing interrupts the I/O thread where it     *)
(* waits for a buffer or for room in the queue: it gets out of there, does *)
(* what the kicks ask for, and acknowledges the flag.  The stack that      *)
(* keeps a buffer delays it; what it never survives is a packet that came  *)
(* in after the receive thread was told to quit, or a pool that has lost   *)
(* all its buffers with deleted queues.                                    *)
StopReturns ==
    life = "draining" ~> (life = "down" \/ lateInput \/ leaked = Buffers)

(* A frame put in the slot leaves it, or its transaction has failed, or    *)
(* the driver is stopped, or the pool has no buffer left.                  *)
FrameLeaves ==
    (txAddr # NoFrame /\ life = "up") ~>
        (txAddr = NoFrame \/ failedTx \/ life # "up" \/ leaked = Buffers)

(* The link is that of EmwLink, which EmwCoreIpc is built on. *)
Link == INSTANCE EmwLink WITH
    Capacity <- FifoCapacity,
    slot <- IF senderPc = "length" THEN NoFrame ELSE txAddr,
    carried <- (ioPc \in {"input", "stuck", "halted"}),
    queued <- Len(fifo)

LinkSpec == Link!Spec
=============================================================================
