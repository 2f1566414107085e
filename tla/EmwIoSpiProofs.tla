--------------------------- MODULE EmwIoSpiProofs ---------------------------
(***************************************************************************)
(* Proofs about EmwIoSpi, for any set of buffers, capacity of the receive  *)
(* queue and choice of frames.                                             *)
(***************************************************************************)
EXTENDS EmwIoSpi, TLAPS, FiniteSetTheorems

-----------------------------------------------------------------------------
(* The inductive invariant.                                                *)

(* Steps of the I/O thread with chip select low. *)
HeldSteps == TransactionSteps \cup {"stuck", "halted"}

(* How far the start and the stop of the driver have come is how far the   *)
(* I/O thread has; a thread that waits for a kick has a buffer.            *)
ThreadOK ==
    /\ life = "down" <=> ioPc = "none"
    /\ ioPc = "boot" => life = "starting"
    /\ quitFlag => life \in {"quitting", "stopping"}
    /\ ioPc = "exited" <=> life \in {"quitting", "stopping"} /\ ~quitFlag
    /\ ioPc \in {"wait", "lock"} \cup TransactionSteps => rxBuffer # NoBuffer

(* TxLock is held exactly where the code is between its lock and unlock.   *)
LockOK ==
    /\ selected <=> ioPc \in HeldSteps
    /\ txLock = "io" <=> ioPc \in HeldSteps
    /\ txLock = "sender" <=> senderPc \in {"address", "length", "leave"}
    /\ senderPc # "idle" => life \in {"up", "draining"} /\ sending \in Frames

(* When the receive queue exists. *)
FifoOK ==
    /\ life \in {"down", "starting", "listening"} => fifoState # "alive"
    /\ life \in {"up", "draining"} => fifoState = "alive"
    /\ life \in {"deleted", "quitting", "stopping"} => fifoState = "deleted"
    /\ fifoState # "alive" => fifo = <<>>

(* The two halves of the slot agree, but between the writes of the sender; *)
(* what the header has announced is what the data will be.                 *)
SlotOK ==
    /\ senderPc # "length" => txLen = LengthOf[txAddr]
    /\ senderPc = "length" => txAddr = sending
    /\ ioPc \in {"flow1", "data"} =>
        announced = LengthOf[txAddr] /\ (txAddr # NoFrame \/ rxLength)

(* There is a kick, or the I/O thread at work, for each of the two things  *)
(* it may have to do, if none has failed.                                  *)
OneIf(b) == IF b THEN 1 ELSE 0
FrameWaits == txAddr # NoFrame /\ senderPc # "length" /\ ~failedTx
PacketWaits == notify /\ ~failedRx
Working == ioPc \in {"lock", "flow0", "header", "flow1", "data"}

KickOK ==
    /\ kicks + OneIf(Working) >= OneIf(FrameWaits) + OneIf(PacketWaits)
    /\ failedTx => failedRx

(* Where the module is while the I/O thread is at each of its steps, and   *)
(* which of the two rises of FLOW a token of FowRiseSem stands for.        *)
PhaseOK ==
    ~failed =>
        /\ ioPc \notin HeldSteps => module = "idle" /\ flowSem = 0
        /\ ioPc = "flow0" =>
            \/ module \in {"idle", "called"} /\ flowSem = 0
            \/ module = "header" /\ flowSem = 1 /\ flow
        /\ ioPc = "header" => module = "header" /\ flowSem = 0
        /\ ioPc = "flow1" =>
            \/ module = "gap" /\ flowSem = 0
            \/ module = "data" /\ flowSem = 1 /\ flow
        /\ ioPc = "data" => module = "data" /\ flowSem = 0
        /\ ioPc \in {"input", "stuck", "halted"} => module = "done" /\ flowSem = 0

(* The places of a buffer are disjoint and are all there is. *)
Covered == Buffers \subseteq free \cup leaked \cup above \cup {rxBuffer} \cup Elements(fifo)

Apart ==
    /\ free \cap leaked = {} /\ free \cap above = {} /\ leaked \cap above = {}
    /\ (free \cup leaked \cup above) \cap Elements(fifo) = {}
    /\ rxBuffer # NoBuffer =>
        rxBuffer \notin free \cup leaked \cup above \cup Elements(fifo)

QueuedOnce == \A i, j \in 1 .. Len(fifo) : fifo[i] = fifo[j] => i = j

PlacesOK == Covered /\ Apart /\ QueuedOnce

ControlOK == ThreadOK /\ LockOK /\ FifoOK

IInv ==
    /\ TypeOK /\ ControlOK /\ SlotOK /\ KickOK
    /\ PhaseOK /\ ClocksWhenFlowHigh
    /\ PlacesOK

-----------------------------------------------------------------------------
(* The initial states.                                                     *)

LEMMA Initially == Init => IInv
<1> SUFFICES ASSUME Init PROVE IInv
  OBVIOUS
<1> USE DEF Init, HeldSteps, TransactionSteps
<1>1. fifo = <<>> /\ fifo \in Seq(Buffers) /\ Len(fifo) = 0
  <2>1. fifo = <<>>
    OBVIOUS
  <2>2. fifo \in Seq(Buffers)
    BY <2>1
  <2>3. Len(fifo) = 0
    BY <2>1
  <2> QED BY <2>1, <2>2, <2>3
<1>2. Len(fifo) <= FifoCapacity
  BY <1>1, FifoAssumption
<1>3. TypeOK
  <2>1. 0 \in 0 .. 2 /\ 0 \in 0 .. MaxKicks
    BY DEF MaxKicks
  <2> QED BY <1>1, <1>2, <2>1, Zenon DEF TypeOK, Lives, IoSteps
<1>4. ControlOK
  BY <1>1 DEF ControlOK, ThreadOK, LockOK, FifoOK
<1>5. SlotOK /\ KickOK /\ PhaseOK /\ ClocksWhenFlowHigh
  BY DEF SlotOK, LengthOf, NoFrame, KickOK, OneIf, Working, FrameWaits, PacketWaits, PhaseOK,
         ClocksWhenFlowHigh
<1>6. PlacesOK
  BY <1>1 DEF PlacesOK, Covered, Apart, QueuedOnce, Elements
<1> QED BY <1>3, <1>4, <1>5, <1>6 DEF IInv

-----------------------------------------------------------------------------
(* The control: life cycle, locks and queue.                               *)

LEMMA ControlSteps ==
    ASSUME TypeOK, ControlOK, [Next]_vars
    PROVE  ControlOK'
<1> USE DEF ControlOK, ThreadOK, LockOK, FifoOK, TransactionSteps, HeldSteps,
            senderVars, ioVars, slotVars, fifoVars, pinVars, failVars
<1>1. CASE Sender
  <2>1. CASE \E f \in Frames : SendEnter(f)
    BY <2>1 DEF SendEnter, TypeOK
  <2>2. CASE SendLock \/ SendAddress \/ SendLength \/ SendUnlock
    BY <2>2 DEF SendLock, SendAddress, SendLength, SendUnlock, TypeOK
  <2> QED BY <1>1, <2>1, <2>2 DEF Sender
<1>2. CASE IoThread
  <2> USE DEF TypeOK, IoSteps, Lives
  <2>1. CASE IoBoot \/ IoLoop \/ IoAlloc \/ IoExit \/ IoTakeKick
    BY <2>1, BuffersAssumption DEF IoBoot, IoLoop, IoAlloc, IoExit, IoTakeKick
  <2>2. CASE IoSelect \/ IoNothingToDo
    BY <2>2 DEF IoSelect, IoNothingToDo
  <2>3. CASE IoFlow0 \/ IoFlow1
    BY <2>3 DEF IoFlow0, IoFlow1, WaitFlowHigh, Abort, Deselect
  <2>4. CASE IoHeader \/ IoHeaderFails
    <3>1. CASE IoHeader
      BY <3>1 DEF IoHeader
    <3>2. CASE IoHeaderFails
      BY <3>2 DEF IoHeaderFails, Abort, Deselect
    <3> QED BY <2>4, <3>1, <3>2
  <2>5. CASE IoData \/ IoDataFails
    BY <2>5 DEF IoData, IoDataFails, Abort, Deselect
  <2>6. CASE IoInput \/ IoInputNoQueue \/ IoInputDeletedQueue
    BY <2>6 DEF IoInput, IoInputNoQueue, IoInputDeletedQueue, Deselect
  <2> QED BY <1>2, <2>1, <2>2, <2>3, <2>4, <2>5, <2>6 DEF IoThread
<1>3. CASE Poll \/ FreeAny
  BY <1>3 DEF Poll, FreeAny, FreeBuffer, TypeOK
<1>4. CASE LifeCycle
  <2>1. CASE Start \/ RegisterCallbacks \/ CreateFifo \/ QuitReceive
    BY <2>1 DEF Start, RegisterCallbacks, CreateFifo, QuitReceive, TypeOK, Lives
  <2>2. CASE DeleteFifo
    BY <2>2 DEF DeleteFifo
  <2>3. CASE SetQuitFlag \/ KickToQuit \/ Stopped
    BY <2>3 DEF SetQuitFlag, KickToQuit, Stopped, TypeOK
  <2> QED BY <1>4, <2>1, <2>2, <2>3 DEF LifeCycle
<1>5. CASE ModuleTransacts \/ ModuleNotifies
  BY <1>5 DEF ModuleTransacts, ModuleNotifies
<1>6. CASE UNCHANGED vars
  BY <1>6 DEF vars
<1> QED BY <1>1, <1>2, <1>3, <1>4, <1>5, <1>6 DEF Next, Spin

-----------------------------------------------------------------------------
(* The types.                                                              *)

(* The queue holds buffers, never more than its capacity: it is only       *)
(* appended to when there is room, by an I/O thread that has a buffer.     *)
LEMMA QueueSteps ==
    ASSUME TypeOK, ControlOK, [Next]_vars
    PROVE  fifo' \in Seq(Buffers) /\ Len(fifo') <= FifoCapacity
<1> USE DEF fifoVars
<1>1. CASE UNCHANGED fifo
  BY <1>1 DEF TypeOK
<1>2. CASE IoInput
  <2>1. rxBuffer \in Buffers
    BY <1>2 DEF IoInput, TypeOK, ControlOK, ThreadOK, TransactionSteps
  <2>2. fifo' = Append(fifo, rxBuffer) /\ Len(fifo) < FifoCapacity
    BY <1>2 DEF IoInput
  <2> QED BY <2>1, <2>2, FifoAssumption DEF TypeOK
<1>3. CASE Poll
  <2>1. fifo # <<>> /\ fifo' = Tail(fifo)
    BY <1>3 DEF Poll
  <2>2. fifo' \in Seq(Buffers) /\ Len(fifo') = Len(fifo) - 1
    BY <2>1 DEF TypeOK
  <2> QED BY <2>2, FifoAssumption DEF TypeOK
<1>4. CASE CreateFifo \/ DeleteFifo
  <2>1. fifo' = <<>>
    BY <1>4 DEF CreateFifo, DeleteFifo
  <2>2. fifo' \in Seq(Buffers) /\ Len(fifo') = 0
    BY <2>1
  <2> QED BY <2>2, FifoAssumption
<1>5. QED
  <2>1. CASE Sender
    BY <1>1, <2>1 DEF Sender, SendEnter, SendLock, SendAddress, SendLength, SendUnlock
  <2>2. CASE IoThread
    BY <1>1, <1>2, <2>2 DEF IoThread, IoBoot, IoLoop, IoAlloc, IoExit, IoTakeKick, IoSelect,
       IoNothingToDo, IoFlow0, IoFlow1, WaitFlowHigh, IoHeader, IoHeaderFails, IoData,
       IoDataFails, IoInputNoQueue, IoInputDeletedQueue
  <2>3. CASE LifeCycle
    BY <1>1, <1>4, <2>3 DEF LifeCycle, Start, RegisterCallbacks, QuitReceive, SetQuitFlag,
       KickToQuit, Stopped
  <2>4. CASE FreeAny \/ ModuleTransacts \/ ModuleNotifies \/ UNCHANGED vars
    BY <1>1, <2>4 DEF FreeAny, FreeBuffer, ModuleTransacts, ModuleNotifies, vars
  <2> QED BY <1>3, <2>1, <2>2, <2>3, <2>4 DEF Next, Spin

(* The types, taken apart: counters, places of buffers, and the rest. *)
CountersOK ==
    /\ txLen \in 0 .. 2 /\ announced \in 0 .. 2
    /\ kicks \in 0 .. MaxKicks /\ flowSem \in {0, 1}

BuffersOK ==
    /\ rxBuffer \in Buffers \cup {NoBuffer} /\ above \in SUBSET Buffers
    /\ free \in SUBSET Buffers /\ leaked \in SUBSET Buffers

PlainOK ==
    /\ life \in Lives
    /\ senderPc \in {"idle", "enter", "address", "length", "leave"}
    /\ sending \in Frames \cup {NoFrame}
    /\ ioPc \in IoSteps
    /\ txLock \in {"nobody", "io", "sender"}
    /\ txAddr \in Frames \cup {NoFrame}
    /\ fifoState \in {"none", "alive", "deleted"}
    /\ module \in {"idle", "called", "header", "gap", "data", "done"}
    /\ delivered \in Frames \cup {NoFrame, Garbled}

FlagsOK ==
    /\ quitFlag \in BOOLEAN /\ rxLength \in BOOLEAN
    /\ selected \in BOOLEAN /\ flow \in BOOLEAN /\ notify \in BOOLEAN
    /\ failedTx \in BOOLEAN /\ failedRx \in BOOLEAN /\ failed \in BOOLEAN
    /\ lateInput \in BOOLEAN

LEMMA TypeParts ==
    TypeOK <=> /\ CountersOK /\ BuffersOK /\ PlainOK /\ FlagsOK
               /\ fifo \in Seq(Buffers) /\ Len(fifo) <= FifoCapacity
BY Zenon DEF TypeOK, CountersOK, BuffersOK, PlainOK, FlagsOK

(* The same of the next state. *)
LEMMA TypePartsNext ==
    ASSUME CountersOK', BuffersOK', PlainOK', FlagsOK',
           fifo' \in Seq(Buffers), Len(fifo') <= FifoCapacity
    PROVE  TypeOK'
BY Zenon DEF TypeOK, CountersOK, BuffersOK, PlainOK, FlagsOK

(* The elements of the queue are buffers. *)
LEMMA ElementsAreBuffers == fifo \in Seq(Buffers) => Elements(fifo) \subseteq Buffers
BY DEF Elements

LEMMA CounterSteps ==
    ASSUME CountersOK, PlainOK, [Next]_vars
    PROVE  CountersOK'
<1> USE DEF CountersOK, MaxKicks, Kick, senderVars, ioVars, slotVars, fifoVars, pinVars,
            failVars
<1>1. CASE Sender
  <2>1. senderPc = "length" => LengthOf[sending] \in 0 .. 2
    BY FramesAssumption DEF LengthOf, NoFrame, PlainOK
  <2> QED BY <1>1, <2>1 DEF Sender, SendEnter, SendLock, SendAddress, SendLength, SendUnlock
<1>2. CASE IoThread
  <2>1. CASE IoBoot \/ IoLoop \/ IoAlloc \/ IoExit \/ IoTakeKick \/ IoSelect \/ IoNothingToDo
    BY <2>1 DEF IoBoot, IoLoop, IoAlloc, IoExit, IoTakeKick, IoSelect, IoNothingToDo
  <2>2. CASE IoFlow0 \/ IoFlow1
    BY <2>2 DEF IoFlow0, IoFlow1, WaitFlowHigh
  <2>3. CASE IoHeader \/ IoHeaderFails
    BY <2>3 DEF IoHeader, IoHeaderFails
  <2>4. CASE IoData \/ IoDataFails
    BY <2>4 DEF IoData, IoDataFails
  <2>5. CASE IoInput \/ IoInputNoQueue \/ IoInputDeletedQueue
    BY <2>5 DEF IoInput, IoInputNoQueue, IoInputDeletedQueue
  <2> QED BY <1>2, <2>1, <2>2, <2>3, <2>4, <2>5 DEF IoThread
<1>3. CASE LifeCycle
  BY <1>3 DEF LifeCycle, Start, RegisterCallbacks, CreateFifo, QuitReceive, DeleteFifo,
     SetQuitFlag, KickToQuit, Stopped
<1>4. CASE ModuleTransacts \/ ModuleNotifies
  BY <1>4 DEF ModuleTransacts, ModuleNotifies, ModuleCalled, ModuleReady, ModuleGivesUp,
     FlowRises
<1>5. CASE Poll \/ FreeAny \/ UNCHANGED vars
  BY <1>5 DEF Poll, FreeAny, FreeBuffer, vars
<1> QED BY <1>1, <1>2, <1>3, <1>4, <1>5 DEF Next, Spin

LEMMA PlainSteps ==
    ASSUME PlainOK, [Next]_vars
    PROVE  PlainOK'
<1> USE DEF PlainOK, Lives, IoSteps, senderVars, ioVars, slotVars, fifoVars, pinVars, failVars
<1>1. CASE Sender
  <2>1. CASE \E f \in Frames : SendEnter(f)
    BY <2>1 DEF SendEnter
  <2>2. CASE SendLock \/ SendAddress
    BY <2>2 DEF SendLock, SendAddress
  <2>3. CASE SendLength \/ SendUnlock
    BY <2>3 DEF SendLength, SendUnlock
  <2> QED BY <1>1, <2>1, <2>2, <2>3 DEF Sender
<1>2. CASE IoThread
  <2>1. CASE IoBoot \/ IoLoop \/ IoAlloc \/ IoExit \/ IoTakeKick
    BY <2>1 DEF IoBoot, IoLoop, IoAlloc, IoExit, IoTakeKick
  <2>2. CASE IoSelect \/ IoNothingToDo
    BY <2>2 DEF IoSelect, IoNothingToDo
  <2>3. CASE IoFlow0 \/ IoFlow1
    BY <2>3 DEF IoFlow0, IoFlow1, WaitFlowHigh, Abort, Deselect
  <2>4. CASE IoHeader
    BY <2>4 DEF IoHeader
  <2>5. CASE IoHeaderFails
    BY <2>5 DEF IoHeaderFails, Abort, Deselect
  <2>6. CASE IoData
    <3>1. Received \in Frames \cup {NoFrame, Garbled}
      BY DEF Received
    <3> QED BY <2>6, <3>1 DEF IoData, Deselect
  <2>7. CASE IoDataFails
    BY <2>7 DEF IoDataFails, Abort, Deselect
  <2>8. CASE IoInput \/ IoInputNoQueue \/ IoInputDeletedQueue
    BY <2>8 DEF IoInput, IoInputNoQueue, IoInputDeletedQueue, Deselect
  <2> QED BY <1>2, <2>1, <2>2, <2>3, <2>4, <2>5, <2>6, <2>7, <2>8 DEF IoThread
<1>3. CASE LifeCycle
  <2>1. CASE Start \/ RegisterCallbacks \/ CreateFifo
    BY <2>1 DEF Start, RegisterCallbacks, CreateFifo
  <2>2. CASE QuitReceive \/ DeleteFifo
    BY <2>2 DEF QuitReceive, DeleteFifo
  <2>3. CASE SetQuitFlag \/ KickToQuit \/ Stopped
    BY <2>3 DEF SetQuitFlag, KickToQuit, Stopped
  <2> QED BY <1>3, <2>1, <2>2, <2>3 DEF LifeCycle
<1>4. CASE ModuleTransacts \/ ModuleNotifies
  BY <1>4 DEF ModuleTransacts, ModuleNotifies, ModuleCalled, ModuleReady, ModuleGivesUp,
     FlowRises
<1>5. CASE Poll \/ FreeAny \/ UNCHANGED vars
  BY <1>5 DEF Poll, FreeAny, FreeBuffer, vars
<1> QED BY <1>1, <1>2, <1>3, <1>4, <1>5 DEF Next, Spin

LEMMA FlagSteps ==
    ASSUME FlagsOK, [Next]_vars
    PROVE  FlagsOK'
<1> USE DEF FlagsOK, senderVars, ioVars, slotVars, fifoVars, pinVars, failVars
<1>1. CASE Sender
  <2>1. CASE \E f \in Frames : SendEnter(f)
    BY <2>1, ZenonT(60) DEF SendEnter
  <2>2. CASE SendLock \/ SendAddress
    BY <2>2, ZenonT(60) DEF SendLock, SendAddress
  <2>3. CASE SendLength \/ SendUnlock
    BY <2>3, ZenonT(60) DEF SendLength, SendUnlock
  <2> QED BY <1>1, <2>1, <2>2, <2>3 DEF Sender
<1>2. CASE IoThread
  <2>1. CASE IoBoot \/ IoLoop \/ IoAlloc \/ IoExit \/ IoTakeKick
    BY <2>1, ZenonT(60) DEF IoBoot, IoLoop, IoAlloc, IoExit, IoTakeKick
  <2>2. CASE IoSelect \/ IoNothingToDo
    BY <2>2, ZenonT(60) DEF IoSelect, IoNothingToDo
  <2>3. CASE IoFlow0 \/ IoFlow1
    BY <2>3, ZenonT(60) DEF IoFlow0, IoFlow1, WaitFlowHigh, Abort, Deselect
  <2>4. CASE IoHeader
    BY <2>4, ZenonT(60) DEF IoHeader
  <2>5. CASE IoHeaderFails
    BY <2>5, ZenonT(60) DEF IoHeaderFails, Abort, Deselect
  <2>6. CASE IoData
    BY <2>6, ZenonT(60) DEF IoData, Deselect
  <2>7. CASE IoDataFails
    BY <2>7, ZenonT(60) DEF IoDataFails, Abort, Deselect
  <2>8. CASE IoInput \/ IoInputNoQueue \/ IoInputDeletedQueue
    BY <2>8, ZenonT(60) DEF IoInput, IoInputNoQueue, IoInputDeletedQueue, Deselect
  <2> QED BY <1>2, <2>1, <2>2, <2>3, <2>4, <2>5, <2>6, <2>7, <2>8 DEF IoThread
<1>3. CASE LifeCycle
  <2>1. CASE Start \/ RegisterCallbacks \/ CreateFifo
    BY <2>1, ZenonT(60) DEF Start, RegisterCallbacks, CreateFifo
  <2>2. CASE QuitReceive \/ DeleteFifo
    BY <2>2, ZenonT(60) DEF QuitReceive, DeleteFifo
  <2>3. CASE SetQuitFlag \/ KickToQuit \/ Stopped
    BY <2>3, ZenonT(60) DEF SetQuitFlag, KickToQuit, Stopped
  <2> QED BY <1>3, <2>1, <2>2, <2>3 DEF LifeCycle
<1>4. CASE ModuleTransacts \/ ModuleNotifies
  BY <1>4, ZenonT(60) DEF ModuleTransacts, ModuleNotifies, ModuleCalled, ModuleReady, ModuleGivesUp,
     FlowRises
<1>5. CASE Poll \/ FreeAny \/ UNCHANGED vars
  BY <1>5, ZenonT(60) DEF Poll, FreeAny, FreeBuffer, vars
<1> QED BY <1>1, <1>2, <1>3, <1>4, <1>5 DEF Next, Spin

LEMMA BufferSteps ==
    ASSUME BuffersOK, ControlOK, fifo \in Seq(Buffers), [Next]_vars
    PROVE  BuffersOK'
<1> USE DEF BuffersOK, ioVars, fifoVars
<1>1. ioPc \in {"lock", "input"} => rxBuffer \in Buffers
  BY DEF ControlOK, ThreadOK, TransactionSteps
<1>2. Elements(fifo) \subseteq Buffers /\ (fifo # <<>> => Head(fifo) \in Buffers)
  BY ElementsAreBuffers
<1>3. CASE Sender
  BY <1>3 DEF Sender, SendEnter, SendLock, SendAddress, SendLength, SendUnlock
<1>4. CASE IoThread
  <2>1. CASE IoAlloc \/ IoNothingToDo
    BY <1>1, <2>1 DEF IoAlloc, IoNothingToDo
  <2>2. CASE IoInput \/ IoInputDeletedQueue
    BY <1>1, <2>2 DEF IoInput, IoInputDeletedQueue
  <2> QED
    BY <1>4, <2>1, <2>2 DEF IoThread, IoBoot, IoLoop, IoExit, IoTakeKick, IoSelect, IoFlow0, IoFlow1,
       WaitFlowHigh, IoHeader, IoHeaderFails, IoData, IoDataFails, IoInputNoQueue
<1>5. CASE Poll \/ FreeAny
  BY <1>2, <1>5 DEF Poll, FreeAny, FreeBuffer
<1>6. CASE LifeCycle
  BY <1>2, <1>6 DEF LifeCycle, Start, RegisterCallbacks, CreateFifo, QuitReceive, DeleteFifo,
     SetQuitFlag, KickToQuit, Stopped
<1>7. CASE ModuleTransacts \/ ModuleNotifies \/ UNCHANGED vars
  BY <1>7 DEF ModuleTransacts, ModuleNotifies, vars
<1> QED BY <1>3, <1>4, <1>5, <1>6, <1>7 DEF Next, Spin

-----------------------------------------------------------------------------
(* The slot: the sender writes it under TxLock, the I/O thread reads and   *)
(* empties it under TxLock.                                                *)

LEMMA SlotSteps ==
    ASSUME PlainOK, ControlOK, SlotOK, [Next]_vars
    PROVE  SlotOK'
<1> USE DEF SlotOK, ControlOK, LockOK, HeldSteps, TransactionSteps, senderVars, ioVars,
            slotVars, fifoVars, pinVars, failVars
<1>1. CASE Sender
  <2>1. CASE \E f \in Frames : SendEnter(f)
    BY <2>1 DEF SendEnter
  <2>2. CASE SendLock \/ SendUnlock
    BY <2>2 DEF SendLock, SendUnlock
  <2>3. CASE SendAddress
    <3>1. sending # NoFrame
      BY <2>3, FramesAssumption DEF SendAddress, NoFrame
    <3>2. ioPc \notin {"flow1", "data"}
      BY <2>3 DEF SendAddress
    <3> QED BY <2>3, <3>1, <3>2 DEF SendAddress
  <2>4. CASE SendLength
    BY <2>4 DEF SendLength
  <2> QED BY <1>1, <2>1, <2>2, <2>3, <2>4 DEF Sender
<1>2. CASE IoThread
  <2>1. CASE IoBoot \/ IoLoop \/ IoAlloc \/ IoExit \/ IoTakeKick \/ IoSelect \/ IoNothingToDo
    BY <2>1 DEF IoBoot, IoLoop, IoAlloc, IoExit, IoTakeKick, IoSelect, IoNothingToDo
  <2>2. CASE IoFlow0 \/ IoFlow1
    BY <2>2 DEF IoFlow0, IoFlow1, WaitFlowHigh, Abort, Deselect
  <2>3. CASE IoHeader
    <3>1. senderPc # "length"
      BY <2>3 DEF IoHeader
    <3>2. announced' = LengthOf[txAddr] /\ (announced' > 0 \/ rxLength')
      BY <2>3, <3>1 DEF IoHeader
    <3>3. announced' > 0 => txAddr # NoFrame
      BY <3>2 DEF LengthOf, NoFrame
    <3> QED BY <2>3, <3>1, <3>2, <3>3 DEF IoHeader
  <2>4. CASE IoHeaderFails
    BY <2>4 DEF IoHeaderFails, Abort, Deselect
  <2>5. CASE IoData \/ IoDataFails
    <3>1. senderPc # "length" /\ LengthOf[NoFrame] = 0
      BY <2>5 DEF IoData, IoDataFails, LengthOf, NoFrame
    <3>2. txAddr' = NoFrame /\ txLen' = LengthOf[NoFrame] /\ senderPc' = senderPc
      BY <2>5, <3>1 DEF IoData, IoDataFails
    <3>3. ioPc' \notin {"flow1", "data"}
      BY <2>5 DEF IoData, IoDataFails, Abort, Deselect
    <3> QED BY <3>1, <3>2, <3>3
  <2>6. CASE IoInput \/ IoInputNoQueue \/ IoInputDeletedQueue
    BY <2>6 DEF IoInput, IoInputNoQueue, IoInputDeletedQueue, Deselect
  <2> QED BY <1>2, <2>1, <2>2, <2>3, <2>4, <2>5, <2>6 DEF IoThread
<1>3. CASE LifeCycle
  BY <1>3 DEF LifeCycle, Start, RegisterCallbacks, CreateFifo, QuitReceive, DeleteFifo,
     SetQuitFlag, KickToQuit, Stopped
<1>4. CASE Poll \/ FreeAny \/ ModuleTransacts \/ ModuleNotifies \/ UNCHANGED vars
  BY <1>4 DEF Poll, FreeAny, FreeBuffer, ModuleTransacts, ModuleNotifies, vars
<1> QED BY <1>1, <1>2, <1>3, <1>4 DEF Next, Spin

-----------------------------------------------------------------------------
(* Kicks: who gives work to the I/O thread kicks it, and who takes a kick  *)
(* does the work or fails.                                                 *)

LEMMA KickSteps ==
    ASSUME CountersOK, FlagsOK, PlainOK, ControlOK, SlotOK, KickOK, [Next]_vars
    PROVE  KickOK'
<1> USE DEF KickOK, OneIf, FrameWaits, PacketWaits, Working, CountersOK, MaxKicks,
            senderVars, ioVars, slotVars, fifoVars, pinVars, failVars
<1>1. CASE Sender
  <2>1. CASE \E f \in Frames : SendEnter(f)
    BY <2>1 DEF SendEnter, ControlOK, LockOK
  <2>2. CASE SendLock \/ SendAddress \/ SendUnlock
    BY <2>2 DEF SendLock, SendAddress, SendUnlock
  <2>3. CASE SendLength
    BY <2>3 DEF SendLength, Kick
  <2> QED BY <1>1, <2>1, <2>2, <2>3 DEF Sender
<1>2. CASE IoThread
  <2>1. CASE IoBoot \/ IoLoop \/ IoAlloc \/ IoExit
    BY <2>1 DEF IoBoot, IoLoop, IoAlloc, IoExit
  <2>2. CASE IoTakeKick \/ IoSelect \/ IoNothingToDo
    BY <2>2 DEF IoTakeKick, IoSelect, IoNothingToDo
  <2>3. CASE IoFlow0 \/ IoFlow1
    BY <2>3 DEF IoFlow0, IoFlow1, WaitFlowHigh, Abort, Deselect
  <2>4. CASE IoHeader
    BY <2>4 DEF IoHeader
  <2>5. CASE IoHeaderFails
    BY <2>5 DEF IoHeaderFails, Abort, Deselect
  <2>6. CASE IoData
    <3>1. /\ ioPc = "data" /\ txAddr' = NoFrame /\ kicks' = kicks
          /\ ioPc' \in {"input", "loop"}
      BY <2>6 DEF IoData, Deselect
    <3>2. ~Working' /\ ~FrameWaits' /\ Working
      BY <3>1
    <3>3. PacketWaits' => PacketWaits /\ ~rxLength
      BY <2>6, Zenon DEF IoData
    <3>4. senderPc # "length" /\ (txAddr # NoFrame \/ rxLength)
      BY <3>1 DEF SlotOK, ControlOK, LockOK, HeldSteps, TransactionSteps
    <3>5. PacketWaits' => FrameWaits
      BY <3>3, <3>4
    <3>6. ~failedTx'
      BY <2>6 DEF IoData
    <3> QED BY <3>1, <3>2, <3>3, <3>5, <3>6
  <2>7. CASE IoDataFails
    BY <2>7 DEF IoDataFails, Abort, Deselect
  <2>8. CASE IoInput \/ IoInputNoQueue \/ IoInputDeletedQueue
    BY <2>8 DEF IoInput, IoInputNoQueue, IoInputDeletedQueue, Deselect
  <2> QED BY <1>2, <2>1, <2>2, <2>3, <2>4, <2>5, <2>6, <2>7, <2>8 DEF IoThread
<1>3. CASE LifeCycle
  <2>1. CASE Start
    <3>1. txAddr' = txAddr /\ kicks' = 0 /\ ~notify'
      BY <2>1 DEF Start
    <3>2. failedTx' <=> txAddr # NoFrame
      BY <2>1, Zenon DEF Start
    <3>3. failedRx' <=> txAddr # NoFrame
      BY <2>1, Zenon DEF Start
    <3> QED BY <3>1, <3>2, <3>3
  <2>2. CASE RegisterCallbacks \/ CreateFifo \/ QuitReceive \/ DeleteFifo
    BY <2>2 DEF RegisterCallbacks, CreateFifo, QuitReceive, DeleteFifo
  <2>3. CASE SetQuitFlag \/ KickToQuit \/ Stopped
    BY <2>3 DEF SetQuitFlag, KickToQuit, Stopped, Kick, ControlOK, ThreadOK
  <2> QED BY <1>3, <2>1, <2>2, <2>3 DEF LifeCycle
<1>4. CASE ModuleNotifies
  BY <1>4 DEF ModuleNotifies, Kick
<1>5. CASE Poll \/ FreeAny \/ ModuleTransacts \/ UNCHANGED vars
  BY <1>5 DEF Poll, FreeAny, FreeBuffer, ModuleTransacts, vars
<1> QED BY <1>1, <1>2, <1>3, <1>4, <1>5 DEF Next, Spin

-----------------------------------------------------------------------------
(* The phases of a transaction.                                            *)

LEMMA PhaseSteps ==
    ASSUME CountersOK, PlainOK, FlagsOK, ControlOK, PhaseOK, [Next]_vars
    PROVE  PhaseOK'
<1> USE DEF PhaseOK, ControlOK, LockOK, HeldSteps, TransactionSteps, senderVars, ioVars,
            slotVars, fifoVars, pinVars, failVars
<1>1. CASE Sender
  BY <1>1 DEF Sender, SendEnter, SendLock, SendAddress, SendLength, SendUnlock
<1>2. CASE IoThread
  <2>1. CASE IoBoot \/ IoLoop \/ IoAlloc \/ IoExit \/ IoTakeKick
    BY <2>1 DEF IoBoot, IoLoop, IoAlloc, IoExit, IoTakeKick
  <2>2. CASE IoSelect \/ IoNothingToDo
    BY <2>2 DEF IoSelect, IoNothingToDo
  <2>3. CASE IoFlow0
    <3>1. \/ failed'
          \/ /\ ioPc = "flow0" /\ flowSem = 1 /\ ioPc' = "header" /\ flowSem' = 0
             /\ UNCHANGED <<module, failed>>
      BY <2>3, Zenon DEF IoFlow0, WaitFlowHigh, Abort
    <3> QED BY <3>1
  <2>4. CASE IoFlow1
    <3>1. \/ failed'
          \/ /\ ioPc = "flow1" /\ flowSem = 1 /\ ioPc' = "data" /\ flowSem' = 0
             /\ UNCHANGED <<module, failed>>
      BY <2>4, Zenon DEF IoFlow1, WaitFlowHigh, Abort
    <3> QED BY <3>1
  <2>5. CASE IoHeader
    BY <2>5 DEF IoHeader
  <2>6. CASE IoHeaderFails
    BY <2>6 DEF IoHeaderFails, Abort, Deselect
  <2>7. CASE IoData
    BY <2>7 DEF IoData, Deselect
  <2>8. CASE IoDataFails
    BY <2>8 DEF IoDataFails, Abort, Deselect
  <2>9. CASE IoInput \/ IoInputNoQueue \/ IoInputDeletedQueue
    BY <2>9 DEF IoInput, IoInputNoQueue, IoInputDeletedQueue, Deselect
  <2> QED BY <1>2, <2>1, <2>2, <2>3, <2>4, <2>5, <2>6, <2>7, <2>8, <2>9 DEF IoThread
<1>3. CASE LifeCycle
  <2>1. CASE Start
    BY <2>1 DEF Start
  <2>2. CASE RegisterCallbacks \/ CreateFifo \/ QuitReceive
    BY <2>2 DEF RegisterCallbacks, CreateFifo, QuitReceive
  <2>3. CASE DeleteFifo
    BY <2>3 DEF DeleteFifo
  <2>4. CASE SetQuitFlag \/ KickToQuit \/ Stopped
    BY <2>4 DEF SetQuitFlag, KickToQuit, Stopped, ThreadOK
  <2> QED BY <1>3, <2>1, <2>2, <2>3, <2>4 DEF LifeCycle
<1>4. CASE ModuleTransacts
  <2>1. CASE ModuleCalled
    BY <1>4, <2>1 DEF ModuleTransacts, ModuleCalled
  <2>2. CASE ModuleReady
    BY <1>4, <2>2 DEF ModuleTransacts, ModuleReady, FlowRises
  <2>3. CASE ModuleGivesUp
    BY <1>4, <2>3 DEF ModuleTransacts, ModuleGivesUp
  <2> QED BY <1>4, <2>1, <2>2, <2>3 DEF ModuleTransacts
<1>5. CASE Poll \/ FreeAny \/ ModuleNotifies \/ UNCHANGED vars
  BY <1>5 DEF Poll, FreeAny, FreeBuffer, ModuleNotifies, vars
<1> QED BY <1>1, <1>2, <1>3, <1>4, <1>5 DEF Next, Spin

(* FLOW falls only when the module sees a transfer or chip select high. *)
LEMMA ClockSteps ==
    ASSUME PlainOK, FlagsOK, ControlOK, ClocksWhenFlowHigh, [Next]_vars
    PROVE  ClocksWhenFlowHigh'
<1> USE DEF ClocksWhenFlowHigh, ControlOK, LockOK, HeldSteps, TransactionSteps, senderVars,
            ioVars, slotVars, fifoVars, pinVars, failVars
<1>1. CASE Sender
  BY <1>1 DEF Sender, SendEnter, SendLock, SendAddress, SendLength, SendUnlock
<1>2. CASE IoThread
  <2>1. CASE IoBoot \/ IoLoop \/ IoAlloc \/ IoExit \/ IoTakeKick \/ IoSelect \/ IoNothingToDo
    BY <2>1 DEF IoBoot, IoLoop, IoAlloc, IoExit, IoTakeKick, IoSelect, IoNothingToDo
  <2>2. CASE IoFlow0 \/ IoFlow1
    BY <2>2 DEF IoFlow0, IoFlow1, WaitFlowHigh, Abort, Deselect
  <2>3. CASE IoHeader \/ IoHeaderFails
    BY <2>3 DEF IoHeader, IoHeaderFails, Abort, Deselect
  <2>4. CASE IoData \/ IoDataFails
    BY <2>4 DEF IoData, IoDataFails, Abort, Deselect
  <2>5. CASE IoInput \/ IoInputNoQueue \/ IoInputDeletedQueue
    BY <2>5 DEF IoInput, IoInputNoQueue, IoInputDeletedQueue, Deselect
  <2> QED BY <1>2, <2>1, <2>2, <2>3, <2>4, <2>5 DEF IoThread
<1>3. CASE LifeCycle
  BY <1>3 DEF LifeCycle, Start, RegisterCallbacks, CreateFifo, QuitReceive, DeleteFifo,
     SetQuitFlag, KickToQuit, Stopped
<1>4. CASE ModuleTransacts
  BY <1>4 DEF ModuleTransacts, ModuleCalled, ModuleReady, ModuleGivesUp, FlowRises
<1>5. CASE Poll \/ FreeAny \/ ModuleNotifies \/ UNCHANGED vars
  BY <1>5 DEF Poll, FreeAny, FreeBuffer, ModuleNotifies, vars
<1> QED BY <1>1, <1>2, <1>3, <1>4, <1>5 DEF Next, Spin

-----------------------------------------------------------------------------
(* The buffers.                                                            *)

(* What is in the queue after a buffer has been appended or taken. *)
LEMMA ElementsOfAppend ==
    ASSUME fifo \in Seq(Buffers), NEW b \in Buffers, fifo' = Append(fifo, b)
    PROVE  /\ Elements(fifo)' = Elements(fifo) \cup {b}
           /\ QueuedOnce /\ b \notin Elements(fifo) => QueuedOnce'
<1>1. /\ Len(fifo) \in Nat /\ Len(fifo') = Len(fifo) + 1
      /\ \A i \in 1 .. Len(fifo) : fifo'[i] = fifo[i]
      /\ fifo'[Len(fifo) + 1] = b
  OBVIOUS
<1>2. Elements(fifo)' = Elements(fifo) \cup {b}
  <2>1. ASSUME NEW x \in Elements(fifo)' PROVE x \in Elements(fifo) \cup {b}
    BY <1>1, <2>1 DEF Elements
  <2>2. b \in Elements(fifo)'
    BY <1>1 DEF Elements
  <2>3. ASSUME NEW x \in Elements(fifo) PROVE x \in Elements(fifo)'
    BY <1>1, <2>3 DEF Elements
  <2> QED BY <2>1, <2>2, <2>3
<1>3. ASSUME QueuedOnce, b \notin Elements(fifo),
             NEW i \in 1 .. Len(fifo'), NEW j \in 1 .. Len(fifo'), fifo'[i] = fifo'[j]
      PROVE  i = j
  BY <1>1, <1>3 DEF QueuedOnce, Elements
<1> QED BY <1>2, <1>3 DEF QueuedOnce

LEMMA ElementsOfTail ==
    ASSUME fifo \in Seq(Buffers), fifo # <<>>, fifo' = Tail(fifo), QueuedOnce
    PROVE  /\ Elements(fifo)' = Elements(fifo) \ {Head(fifo)}
           /\ Head(fifo) \in Elements(fifo)
           /\ QueuedOnce'
<1>1. /\ Len(fifo) \in Nat \ {0} /\ Len(fifo') = Len(fifo) - 1
      /\ \A i \in 1 .. Len(fifo) - 1 : fifo'[i] = fifo[i + 1]
      /\ Head(fifo) = fifo[1]
  OBVIOUS
<1>2. Head(fifo) \in Elements(fifo)
  BY <1>1 DEF Elements
<1>3. ASSUME NEW x \in Elements(fifo)' PROVE x \in Elements(fifo) \ {Head(fifo)}
  <2>1. PICK i \in 1 .. Len(fifo') : x = fifo'[i]
    BY <1>3 DEF Elements
  <2>2. i + 1 \in 1 .. Len(fifo) /\ i + 1 # 1 /\ x = fifo[i + 1]
    BY <1>1, <2>1
  <2>3. 1 \in 1 .. Len(fifo)
    BY <1>1
  <2> QED BY <1>1, <2>2, <2>3 DEF Elements, QueuedOnce
<1>4. ASSUME NEW x \in Elements(fifo), x # Head(fifo) PROVE x \in Elements(fifo)'
  <2>1. PICK i \in 1 .. Len(fifo) : x = fifo[i]
    BY <1>4 DEF Elements
  <2>2. i - 1 \in 1 .. Len(fifo') /\ fifo'[i - 1] = x
    BY <1>1, <1>4, <2>1
  <2> QED BY <2>2 DEF Elements
<1>5. QueuedOnce'
  <2>1. ASSUME NEW i \in 1 .. Len(fifo'), NEW j \in 1 .. Len(fifo'), fifo'[i] = fifo'[j]
        PROVE  i = j
    <3>1. /\ i + 1 \in 1 .. Len(fifo) /\ j + 1 \in 1 .. Len(fifo)
          /\ fifo[i + 1] = fifo[j + 1]
      BY <1>1, <2>1
    <3>2. i + 1 = j + 1
      BY <3>1 DEF QueuedOnce
    <3> QED BY <3>2
  <2> QED BY <2>1 DEF QueuedOnce
<1> QED BY <1>2, <1>3, <1>4, <1>5

LEMMA ElementsOfEmpty ==
    /\ fifo = <<>> => Elements(fifo) = {}
    /\ fifo' = <<>> => Elements(fifo)' = {} /\ QueuedOnce'
<1>1. Len(<<>>) = 0
  OBVIOUS
<1>2. fifo = <<>> => Elements(fifo) = {}
  BY <1>1 DEF Elements
<1>3. fifo' = <<>> => Elements(fifo)' = {} /\ QueuedOnce'
  BY <1>1 DEF Elements, QueuedOnce
<1> QED BY <1>2, <1>3

(* A step that moves no buffer. *)
LEMMA PlacesQuiet ==
    ASSUME PlacesOK, UNCHANGED <<free, leaked, rxBuffer, above, fifo>>
    PROVE  PlacesOK'
BY DEF PlacesOK, Covered, Apart, QueuedOnce, Elements

LEMMA PlacesSteps ==
    ASSUME TypeOK, ControlOK, PlacesOK, [Next]_vars
    PROVE  PlacesOK'
<1> USE DEF ioVars, fifoVars
<1>1. BuffersOK /\ fifo \in Seq(Buffers) /\ Elements(fifo) \subseteq Buffers
  BY TypeParts, ElementsAreBuffers
<1>2. CASE IoAlloc
  <2>1. CASE rxBuffer # NoBuffer
    BY <1>2, <2>1, PlacesQuiet DEF IoAlloc
  <2>2. CASE rxBuffer = NoBuffer
    <3>1. /\ rxBuffer' \in free /\ free' = free \ {rxBuffer'}
          /\ UNCHANGED <<leaked, above, fifo>>
      BY <1>2, <2>2 DEF IoAlloc
    <3>2. Elements(fifo)' = Elements(fifo) /\ QueuedOnce'
      BY <3>1 DEF Elements, QueuedOnce, PlacesOK
    <3>3. Covered'
      BY <2>2, <3>1, <3>2, BuffersAssumption DEF PlacesOK, Covered
    <3>4. Apart'
      BY <1>1, <2>2, <3>1, <3>2, BuffersAssumption DEF PlacesOK, Apart, BuffersOK
    <3> QED BY <3>2, <3>3, <3>4 DEF PlacesOK
  <2> QED BY <2>1, <2>2
<1>3. CASE IoNothingToDo
  <2>1. CASE ~quitFlag
    BY <1>3, <2>1, PlacesQuiet DEF IoNothingToDo
  <2>2. CASE quitFlag
    <3>1. /\ rxBuffer # NoBuffer /\ free' = free \cup {rxBuffer} /\ rxBuffer' = NoBuffer
          /\ UNCHANGED <<leaked, above, fifo>>
      BY <1>3, <2>2 DEF IoNothingToDo, ControlOK, ThreadOK
    <3>2. Elements(fifo)' = Elements(fifo) /\ QueuedOnce'
      BY <3>1 DEF Elements, QueuedOnce, PlacesOK
    <3>3. Covered' /\ Apart'
      BY <1>1, <3>1, <3>2 DEF PlacesOK, Covered, Apart, BuffersOK
    <3> QED BY <3>2, <3>3 DEF PlacesOK
  <2> QED BY <2>1, <2>2
<1>4. CASE IoInput
  <2>1. /\ rxBuffer # NoBuffer /\ rxBuffer \in Buffers
        /\ fifo' = Append(fifo, rxBuffer) /\ rxBuffer' = NoBuffer
        /\ UNCHANGED <<free, leaked, above>>
    BY <1>1, <1>4 DEF IoInput, ControlOK, ThreadOK, TransactionSteps, BuffersOK
  <2>2. Elements(fifo)' = Elements(fifo) \cup {rxBuffer} /\ QueuedOnce'
    BY <1>1, <2>1, ElementsOfAppend DEF PlacesOK, Apart
  <2>3. Covered' /\ Apart'
    BY <2>1, <2>2 DEF PlacesOK, Covered, Apart
  <2> QED BY <2>2, <2>3 DEF PlacesOK
<1>5. CASE IoInputDeletedQueue
  <2>1. rxBuffer # NoBuffer /\ UNCHANGED <<above, fifo>>
    BY <1>5 DEF IoInputDeletedQueue, ControlOK, ThreadOK, TransactionSteps
  <2>2. \/ free' = free \cup {rxBuffer} /\ leaked' = leaked /\ rxBuffer' = NoBuffer
        \/ leaked' = leaked \cup {rxBuffer} /\ free' = free /\ rxBuffer' = NoBuffer
        \/ UNCHANGED <<free, leaked, rxBuffer>>
    BY <1>5 DEF IoInputDeletedQueue
  <2>3. Elements(fifo)' = Elements(fifo) /\ QueuedOnce'
    BY <2>1 DEF Elements, QueuedOnce, PlacesOK
  <2>4. Covered' /\ Apart'
    BY <2>1, <2>2, <2>3 DEF PlacesOK, Covered, Apart
  <2> QED BY <2>3, <2>4 DEF PlacesOK
<1>6. CASE Poll
  <2>1. /\ fifo # <<>>
        /\ above' = above \cup {Head(fifo)} /\ fifo' = Tail(fifo)
        /\ UNCHANGED <<free, leaked, rxBuffer>>
    BY <1>6 DEF Poll
  <2>2. /\ Elements(fifo)' = Elements(fifo) \ {Head(fifo)} /\ QueuedOnce'
        /\ Head(fifo) \in Elements(fifo)
    BY <1>1, <2>1, ElementsOfTail DEF PlacesOK
  <2>3. Covered' /\ Apart'
    BY <1>1, <2>1, <2>2, BuffersAssumption DEF PlacesOK, Covered, Apart, BuffersOK
  <2> QED BY <2>2, <2>3 DEF PlacesOK
<1>7. ASSUME NEW b \in Buffers, FreeBuffer(b) PROVE PlacesOK'
  <2>1. /\ b \in above /\ above' = above \ {b} /\ free' = free \cup {b}
        /\ UNCHANGED <<leaked, rxBuffer, fifo>>
    BY <1>7 DEF FreeBuffer
  <2>2. Elements(fifo)' = Elements(fifo) /\ QueuedOnce'
    BY <2>1 DEF Elements, QueuedOnce, PlacesOK
  <2>3. Covered' /\ Apart'
    BY <1>1, <2>1, <2>2 DEF PlacesOK, Covered, Apart, BuffersOK
  <2> QED BY <2>2, <2>3 DEF PlacesOK
<1>8. CASE CreateFifo
  <2>1. fifo = <<>> /\ fifo' = <<>> /\ UNCHANGED <<free, leaked, rxBuffer, above>>
    BY <1>8 DEF CreateFifo, ControlOK, FifoOK
  <2> QED BY <2>1, PlacesQuiet
<1>9. CASE DeleteFifo
  <2>1. /\ fifo' = <<>> /\ leaked' = leaked \cup Elements(fifo)
        /\ UNCHANGED <<free, rxBuffer, above>>
    BY <1>9 DEF DeleteFifo
  <2>2. Elements(fifo)' = {} /\ QueuedOnce'
    BY <2>1, ElementsOfEmpty
  <2>3. Covered' /\ Apart'
    BY <2>1, <2>2 DEF PlacesOK, Covered, Apart
  <2> QED BY <2>2, <2>3 DEF PlacesOK
<1>10. CASE UNCHANGED <<free, leaked, rxBuffer, above, fifo>>
  BY <1>10, PlacesQuiet
<1> QED
  <2>1. CASE Sender
    BY <1>10, <2>1 DEF Sender, SendEnter, SendLock, SendAddress, SendLength, SendUnlock
  <2>2. CASE IoThread
    BY <1>2, <1>3, <1>4, <1>5, <1>10, <2>2 DEF IoThread, IoBoot, IoLoop, IoExit, IoTakeKick,
       IoSelect, IoFlow0, IoFlow1, WaitFlowHigh, IoHeader, IoHeaderFails, IoData,
       IoDataFails, IoInputNoQueue
  <2>3. CASE LifeCycle
    BY <1>8, <1>9, <1>10, <2>3 DEF LifeCycle, Start, RegisterCallbacks, QuitReceive,
       SetQuitFlag, KickToQuit, Stopped
  <2>4. CASE ModuleTransacts \/ ModuleNotifies \/ UNCHANGED vars
    BY <1>10, <2>4 DEF ModuleTransacts, ModuleNotifies, vars
  <2> QED BY <1>6, <1>7, <2>1, <2>2, <2>3, <2>4 DEF Next, Spin, FreeAny

-----------------------------------------------------------------------------
(* The theorems.                                                           *)

(* Every step keeps the invariant. *)
LEMMA EveryStep == IInv /\ [Next]_vars => IInv'
<1> SUFFICES ASSUME IInv, [Next]_vars PROVE IInv'
  OBVIOUS
<1>1. /\ TypeOK /\ ControlOK /\ SlotOK /\ KickOK /\ PhaseOK /\ ClocksWhenFlowHigh /\ PlacesOK
      /\ CountersOK /\ BuffersOK /\ PlainOK /\ FlagsOK /\ fifo \in Seq(Buffers)
  BY TypeParts DEF IInv
<1>2. TypeOK'
  BY <1>1, CounterSteps, PlainSteps, FlagSteps, QueueSteps, BufferSteps, TypePartsNext
<1>3. ControlOK' /\ SlotOK' /\ KickOK'
  BY <1>1, ControlSteps, SlotSteps, KickSteps
<1>4. PhaseOK' /\ ClocksWhenFlowHigh' /\ PlacesOK'
  BY <1>1, PhaseSteps, ClockSteps, PlacesSteps
<1> QED BY <1>2, <1>3, <1>4 DEF IInv

(* The I/O thread, its senders, the interrupts, the life cycle and the     *)
(* module keep the invariant, for any buffers, queue and frames.           *)
THEOREM Invariance == Spec => []IInv
BY Initially, EveryStep, PTL DEF Spec

(* The types and the bounds: the queue never holds more than it can, and   *)
(* TxRxSem never counts more than two.                                     *)
THEOREM TypeCorrect == Spec => []TypeOK
<1>1. IInv => TypeOK
  BY DEF IInv
<1> QED BY <1>1, Invariance, PTL

(* A semaphore of two tokens is enough: the I/O thread never sleeps while  *)
(* a frame or a packet waits, unless a failed transaction used their kick. *)
THEOREM NoLostKickAlways == Spec => []NoLostKick
<1>1. ASSUME IInv PROVE NoLostKick
  <2>1. SUFFICES ASSUME ioPc = "wait", kicks = 0
                 PROVE  /\ txAddr # NoFrame /\ senderPc # "length" => failedTx
                        /\ notify => failedRx
    BY DEF NoLostKick
  <2>2. ~FrameWaits /\ ~PacketWaits
    BY <1>1, <2>1 DEF IInv, KickOK, Working, OneIf
  <2> QED BY <2>2 DEF FrameWaits, PacketWaits
<1> QED BY <1>1, Invariance, PTL

(* exchangeHeaders() and the exchange of data clock the SPI only while the *)
(* FLOW pin is high, whatever tokens a failed transaction left behind.     *)
THEOREM ClocksWhenFlowHighAlways == Spec => []ClocksWhenFlowHigh
<1>1. IInv => ClocksWhenFlowHigh
  BY DEF IInv
<1> QED BY <1>1, Invariance, PTL

(* Until a wait or a transfer fails, the driver and the module are in the  *)
(* same phase of the transaction when something is exchanged.              *)
THEOREM InStepAlways == Spec => []InStep
<1>1. IInv => InStep
  BY DEF IInv, PhaseOK, InStep
<1> QED BY <1>1, Invariance, PTL

(* The places of the invariant are those of the property: the number of    *)
(* owners of a buffer and of its positions in the queue is one.            *)
LEMMA PlacesAreOwners == TypeOK /\ PlacesOK => OneOwner
<1> DEFINE owners(b) == {o \in {"free", "io", "above", "leaked"} :
                            \/ o = "free" /\ b \in free
                            \/ o = "io" /\ b = rxBuffer
                            \/ o = "above" /\ b \in above
                            \/ o = "leaked" /\ b \in leaked}
           places(b) == {i \in 1 .. Len(fifo) : fifo[i] = b}
<1> SUFFICES ASSUME TypeOK, PlacesOK, NEW b \in Buffers
             PROVE  Cardinality(owners(b)) + Cardinality(places(b)) = 1
  BY DEF OneOwner
<1>1. b # NoBuffer
  BY BuffersAssumption
<1>2. Cardinality({}) = 0 /\ \A x : Cardinality({x}) = 1
  BY FS_EmptySet, FS_Singleton
<1>3. CASE b \in Elements(fifo)
  <2>1. PICK i \in 1 .. Len(fifo) : fifo[i] = b
    BY <1>3 DEF Elements
  <2>2. places(b) = {i}
    BY <2>1 DEF PlacesOK, QueuedOnce
  <2>3. owners(b) = {}
    BY <1>1, <1>3 DEF PlacesOK, Apart
  <2>4. Cardinality(places(b)) = 1 /\ Cardinality(owners(b)) = 0
    BY <1>2, <2>2, <2>3
  <2> HIDE DEF places, owners
  <2> QED BY <2>4
<1>4. CASE b \notin Elements(fifo)
  <2>1. places(b) = {}
    BY <1>4 DEF Elements
  <2>2. owners(b) = {"free"} \/ owners(b) = {"io"} \/ owners(b) = {"above"} \/ owners(b) = {"leaked"}
    <3>1. CASE b \in free
      BY <1>1, <3>1 DEF PlacesOK, Apart
    <3>2. CASE b = rxBuffer
      BY <1>1, <3>2 DEF PlacesOK, Apart
    <3>3. CASE b \in above
      BY <1>1, <3>3 DEF PlacesOK, Apart
    <3>4. CASE b \in leaked
      BY <1>1, <3>4 DEF PlacesOK, Apart
    <3> QED BY <1>4, <3>1, <3>2, <3>3, <3>4 DEF PlacesOK, Covered
  <2>3. Cardinality(places(b)) = 0 /\ Cardinality(owners(b)) = 1
    BY <1>2, <2>1, <2>2
  <2> HIDE DEF places, owners
  <2> QED BY <2>3
<1> QED BY <1>3, <1>4

(* Each network buffer has exactly one owner, through transactions, the    *)
(* queue and its deletion: none is freed twice, and none is lost but with  *)
(* the queue.                                                              *)
THEOREM OneOwnerAlways == Spec => []OneOwner
<1>1. IInv => OneOwner
  BY PlacesAreOwners DEF IInv
<1> QED BY <1>1, Invariance, PTL

-----------------------------------------------------------------------------
(* The link implements EmwLink.                                            *)

(* TxLock keeps the sender and the I/O thread out of each other's way: the *)
(* sender writes only while no packet is carried.                          *)
LEMMA SenderRefines ==
    ASSUME IInv, Sender
    PROVE  [Link!Next]_Link!vars
<1> USE DEF Link!vars, senderVars, ioVars, slotVars, fifoVars, pinVars, failVars
<1>1. CASE \E f \in Frames : SendEnter(f)
  BY <1>1 DEF SendEnter, IInv
<1>2. CASE SendLock \/ SendUnlock
  BY <1>2 DEF SendLock, SendUnlock
<1>3. CASE SendAddress
  <2>1. ioPc \notin {"input", "stuck", "halted"}
    BY <1>3 DEF SendAddress, IInv, ControlOK, LockOK, HeldSteps, TransactionSteps
  <2>2. /\ senderPc = "address" /\ senderPc' = "length"
        /\ UNCHANGED <<ioPc, fifo, delivered>>
    BY <1>3 DEF SendAddress
  <2>3. CASE txAddr = NoFrame
    BY <2>2, <2>3
  <2>4. CASE txAddr # NoFrame
    <3>1. Link!Transmit
      BY <2>1, <2>2, <2>4 DEF Link!Transmit
    <3> QED BY <3>1 DEF Link!Next
  <2> QED BY <2>3, <2>4
<1>4. CASE SendLength
  <2>1. ioPc \notin {"input", "stuck", "halted"} /\ txAddr \in Frames
    BY <1>4 DEF SendLength, IInv, ControlOK, LockOK, SlotOK, HeldSteps, TransactionSteps
  <2>2. /\ senderPc = "length" /\ senderPc' = "leave"
        /\ UNCHANGED <<ioPc, txAddr, fifo, delivered>>
    BY <1>4 DEF SendLength
  <2>3. Link!Post
    BY <2>1, <2>2 DEF Link!Post
  <2> QED BY <2>3 DEF Link!Next
<1> QED BY <1>1, <1>2, <1>3, <1>4 DEF Sender

(* A step that the layers above do not see. *)
LEMMA QuietRefines ==
    ASSUME UNCHANGED <<senderPc, txAddr, delivered, fifo>>,
           ioPc \notin {"input", "stuck", "halted"}, ioPc' \notin {"input", "stuck", "halted"}
    PROVE  UNCHANGED Link!vars
BY DEF Link!vars

(* The end of the data exchange: the frame is received whole, or lost. *)
LEMMA DataRefines ==
    ASSUME IInv, IoData \/ IoDataFails
    PROVE  [Link!Next]_Link!vars
<1> USE DEF senderVars, fifoVars
<1>1. /\ ioPc = "data" /\ senderPc # "length"
      /\ announced = LengthOf[txAddr] /\ (txAddr # NoFrame \/ rxLength)
  BY DEF IoData, IoDataFails, IInv, ControlOK, LockOK, SlotOK, HeldSteps, TransactionSteps
<1>2. senderPc' = senderPc /\ txAddr' = NoFrame /\ fifo' = fifo
  BY DEF IoData, IoDataFails
<1>3. /\ txAddr = NoFrame => Received = delivered
      /\ txAddr # NoFrame => Received = txAddr
  <2>1. CASE txAddr = NoFrame
    BY <2>1 DEF Received
  <2>2. CASE txAddr # NoFrame
    <3>1. LengthOf[txAddr] = announced
      BY <1>1
    <3> QED BY <2>2, <3>1 DEF Received
  <2> QED BY <2>1, <2>2
<1>4. CASE txAddr # NoFrame
  <2>1. delivered' \in {txAddr, delivered}
    BY <1>3 DEF IoData, IoDataFails
  <2>2. Link!Transmit
    BY <1>1, <1>2, <1>4, <2>1 DEF Link!Transmit
  <2> QED BY <2>2 DEF Link!Next
<1>5. CASE txAddr = NoFrame /\ IoData
  <2>1. ioPc' = "input" /\ delivered' = delivered
    BY <1>1, <1>3, <1>5 DEF IoData
  <2>2. Link!Receive
    BY <1>1, <1>2, <1>5, <2>1 DEF Link!Receive
  <2> QED BY <2>2 DEF Link!Next
<1>6. CASE txAddr = NoFrame /\ IoDataFails
  <2>1. ioPc' = "loop" /\ delivered' = delivered
    BY <1>6 DEF IoDataFails, Abort, Deselect
  <2> QED BY <1>1, <1>2, <1>6, <2>1, QuietRefines
<1> QED BY <1>4, <1>5, <1>6

(* EmwCoreHci::Input: a packet is queued when there is room, or lost with  *)
(* the queue.                                                              *)
LEMMA InputRefines ==
    ASSUME IInv, IoInput \/ IoInputNoQueue \/ IoInputDeletedQueue
    PROVE  [Link!Next]_Link!vars
<1> USE DEF senderVars, slotVars, fifoVars, Link!vars
<1>1. ioPc = "input" /\ UNCHANGED <<senderPc, txAddr, delivered>>
  BY DEF IoInput, IoInputNoQueue, IoInputDeletedQueue
<1>2. fifo \in Seq(Buffers)
  BY DEF IInv, TypeOK
<1>3. CASE IoInput
  <2>1. ioPc' = "loop" /\ fifo' = Append(fifo, rxBuffer) /\ Len(fifo) < FifoCapacity
    BY <1>3 DEF IoInput, Deselect
  <2>2. Len(fifo') = Len(fifo) + 1
    BY <1>2, <2>1
  <2>3. Link!Input
    BY <1>1, <2>1, <2>2 DEF Link!Input
  <2> QED BY <2>3 DEF Link!Next
<1>4. CASE IoInputNoQueue
  BY <1>1, <1>4 DEF IoInputNoQueue
<1>5. CASE IoInputDeletedQueue
  <2>1. fifo = <<>> /\ fifo' = <<>> /\ ioPc' \in {"loop", "stuck"}
    BY <1>5 DEF IoInputDeletedQueue, Deselect, IInv, ControlOK, FifoOK
  <2>2. Len(fifo') = 0
    BY <2>1
  <2>3. \/ (ioPc' \in {"input", "stuck", "halted"}) = (ioPc \in {"input", "stuck", "halted"})
        \/ (ioPc' \in {"input", "stuck", "halted"}) = FALSE
    BY <1>1, <2>1
  <2>4. UNCHANGED <<IF senderPc = "length" THEN NoFrame ELSE txAddr, delivered>>
    BY <1>1
  <2>5. Link!Restart
    BY <2>2, <2>3, <2>4, Zenon DEF Link!Restart
  <2> QED BY <2>5 DEF Link!Next
<1> QED BY <1>3, <1>4, <1>5

LEMMA IoRefines ==
    ASSUME IInv, IoThread
    PROVE  [Link!Next]_Link!vars
<1> USE DEF senderVars, slotVars, fifoVars, pinVars, failVars, ioVars
<1>1. CASE IoBoot \/ IoLoop \/ IoAlloc \/ IoExit \/ IoTakeKick \/ IoSelect \/ IoNothingToDo
  <2>1. /\ UNCHANGED <<senderPc, txAddr, delivered, fifo>>
        /\ ioPc \notin {"input", "stuck", "halted"} /\ ioPc' \notin {"input", "stuck", "halted"}
    BY <1>1 DEF IoBoot, IoLoop, IoAlloc, IoExit, IoTakeKick, IoSelect, IoNothingToDo
  <2> QED BY <2>1, QuietRefines
<1>2. CASE IoFlow0 \/ IoFlow1 \/ IoHeader \/ IoHeaderFails
  <2>1. /\ UNCHANGED <<senderPc, txAddr, delivered, fifo>>
        /\ ioPc \notin {"input", "stuck", "halted"} /\ ioPc' \notin {"input", "stuck", "halted"}
    BY <1>2 DEF IoFlow0, IoFlow1, WaitFlowHigh, IoHeader, IoHeaderFails, Abort, Deselect
  <2> QED BY <2>1, QuietRefines
<1> QED BY <1>1, <1>2, DataRefines, InputRefines DEF IoThread

(* The queue is created empty and deleted with what it holds. *)
LEMMA LifeCycleRefines ==
    ASSUME IInv, LifeCycle
    PROVE  [Link!Next]_Link!vars
<1> USE DEF senderVars, slotVars, fifoVars, Link!vars
<1>1. UNCHANGED <<senderPc, txAddr, delivered>>
  BY DEF LifeCycle, Start, RegisterCallbacks, CreateFifo, QuitReceive, DeleteFifo,
     SetQuitFlag, KickToQuit, Stopped
<1>2. (ioPc' \in {"input", "stuck", "halted"}) <=> (ioPc \in {"input", "stuck", "halted"})
  BY DEF LifeCycle, Start, RegisterCallbacks, CreateFifo, QuitReceive, DeleteFifo,
     SetQuitFlag, KickToQuit, Stopped, IInv, ControlOK, ThreadOK
<1>3. CASE CreateFifo \/ DeleteFifo
  <2>1. fifo' = <<>>
    BY <1>3 DEF CreateFifo, DeleteFifo
  <2>2. Len(fifo') = 0
    BY <2>1
  <2>3. (ioPc' \in {"input", "stuck", "halted"}) = (ioPc \in {"input", "stuck", "halted"})
    BY <1>2
  <2>4. UNCHANGED <<IF senderPc = "length" THEN NoFrame ELSE txAddr, delivered>>
    BY <1>1
  <2>5. Link!Restart
    BY <2>2, <2>3, <2>4, Zenon DEF Link!Restart
  <2> QED BY <2>5 DEF Link!Next
<1>4. CASE ~(CreateFifo \/ DeleteFifo)
  <2>1. fifo' = fifo
    BY <1>4 DEF LifeCycle, Start, RegisterCallbacks, QuitReceive, SetQuitFlag, KickToQuit,
       Stopped
  <2> QED BY <1>1, <1>2, <2>1
<1> QED BY <1>3, <1>4

(* poll() takes a packet. *)
LEMMA PollRefines ==
    ASSUME IInv, Poll
    PROVE  Link!Next
<1>1. fifo # <<>> /\ fifo' = Tail(fifo) /\ UNCHANGED <<senderPc, txAddr, delivered, ioPc>>
  BY DEF Poll, senderVars, slotVars
<1>2. fifo \in Seq(Buffers)
  BY DEF IInv, TypeOK
<1>3. Len(fifo) > 0 /\ Len(fifo') = Len(fifo) - 1
  BY <1>1, <1>2
<1>4. Link!Poll
  BY <1>1, <1>3 DEF Link!Poll
<1> QED BY <1>4 DEF Link!Next

LEMMA LinkInit == Init => Link!Init
<1> SUFFICES ASSUME Init PROVE Link!Init
  OBVIOUS
<1>1. fifo = <<>>
  BY DEF Init
<1>2. Len(fifo) = 0
  BY <1>1
<1> QED BY <1>2 DEF Init, Link!Init

LEMMA LinkSteps == IInv /\ [Next]_vars => [Link!Next]_Link!vars
<1> SUFFICES ASSUME IInv, [Next]_vars PROVE [Link!Next]_Link!vars
  OBVIOUS
<1>1. CASE FreeAny \/ ModuleTransacts \/ ModuleNotifies \/ UNCHANGED vars
  BY <1>1 DEF FreeAny, FreeBuffer, ModuleTransacts, ModuleNotifies, vars, senderVars, slotVars,
     fifoVars, Link!vars
<1> QED
  BY <1>1, SenderRefines, IoRefines, LifeCycleRefines, PollRefines DEF Next, Spin

(* The SPI link, with its transactions, time-outs, failures, starts and    *)
(* stops, implements the link of one slot and one queue that EmwCoreIpc is *)
(* built on: frames leave the slot whole or not at all.                    *)
THEOREM ImplementsLink == Spec => LinkSpec
BY LinkInit, LinkSteps, Invariance, PTL DEF Spec, LinkSpec, Link!Spec
=============================================================================
