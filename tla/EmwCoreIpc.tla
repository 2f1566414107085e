----------------------------- MODULE EmwCoreIpc -----------------------------
(***************************************************************************)
(* The request/response engine of the EMW3080B driver (EmwCoreIpc over     *)
(* EmwCoreHci), in its FreeRTOS build.  Application tasks call request();  *)
(* the SPI I/O thread (priority 31) moves frames over the link and posts   *)
(* what it receives to the HCI queue; the receive thread (priority 18)     *)
(* polls that queue and matches each response with the pending request.    *)
(* Every task that calls request() runs below priority 18, so what the     *)
(* receive thread does between two blocking calls is one step for them.    *)
(*                                                                         *)
(* The SPI link is abstracted to its slot (TxDataAddress) and to the frame *)
(* the I/O thread holds while the HCI queue is full; EmwIoSpi.tla has the  *)
(* transaction.  Start-up and shut-down are in EmwApiCore.tla.             *)
(***************************************************************************)
EXTENDS Naturals, Sequences, FiniteSets

CONSTANTS
    Tasks,         \* application tasks that call request()
    NoTask,        \* IpcLock is free
    ResetVal,      \* REQ_ID_RESET_VAL, which is UINT32_MAX in the code
    FifoCapacity,  \* EMW_HCI_MAX_RX_BUFFER_COUNT
    OutboxBound    \* packets the Wi-Fi module may have ready at once

ASSUME TasksAssumption == NoTask \notin Tasks
ASSUME ResetValAssumption == ResetVal \in Nat /\ ResetVal >= 2
ASSUME FifoAssumption == FifoCapacity \in Nat \ {0}
ASSUME OutboxAssumption == OutboxBound \in Nat

ReqIds == 0 .. (ResetVal - 1)

(* What crosses the link; only commands and responses carry a request id. *)
Frames ==
    [kind : {"none", "dummy", "event"}, reqId : {ResetVal}]
        \cup [kind : {"command", "response"}, reqId : ReqIds]
Frame(kind, id) == [kind |-> kind, reqId |-> id]
Nothing == Frame("none", ResetVal)

(* The commands request() tells apart by api_id. *)
Commands == {"command", "ps_on", "ps_off"}

VARIABLES
    pc,             \* pc[t]: where task t is in request()
    api,            \* api[t]: the command of task t, "none" outside request()
    myReq,          \* myReq[t]: the id written in the command of task t
    response,       \* response[t]: id of the response last copied for task t
    outcome,        \* outcome[t]: what the last call of task t returned
    ipcLock,        \* owner of IpcLock
    lastReqId,      \* the counter of GetNewReqId
    powerSave,      \* IsPowerSaveEnabled
    pendingReq,     \* PendingRequest.reqId
    responseOwner,  \* the task whose buffer PendingRequest.responsePtr is
    responseSem,    \* count of PendingRequest.sem (at most 1)
    rxHalted,       \* the receive thread spins in AssertAlways
    txSlot,         \* the frame at TxDataAddress
    ioFrame,        \* frame the I/O thread is posting, TxLock held
    fifo,           \* NetworkPacketFifo
    commands,       \* ids of the commands the module is working on
    outbox,         \* packets the module has ready
    stranded        \* history: a call gave up leaving its token in the semaphore

taskVars == <<pc, api, myReq, outcome>>
ipcVars == <<ipcLock, lastReqId, powerSave>>
pendingVars == <<pendingReq, responseOwner, responseSem, response>>
linkVars == <<txSlot, ioFrame, fifo>>
moduleVars == <<commands, outbox>>
vars == <<pc, api, myReq, response, outcome, ipcLock, lastReqId, powerSave,
          pendingReq, responseOwner, responseSem, rxHalted, txSlot, ioFrame,
          fifo, commands, outbox, stranded>>

TaskSteps == {"idle", "enter", "wake", "send", "wait", "expired", "halted"}

(* The steps of request() that are executed with IpcLock held. *)
LockedSteps == TaskSteps \ {"idle", "enter"}

Halted == rxHalted \/ \E t \in Tasks : pc[t] = "halted"

TypeOK ==
    /\ pc \in [Tasks -> TaskSteps]
    /\ api \in [Tasks -> Commands \cup {"none"}]
    /\ myReq \in [Tasks -> ReqIds \cup {ResetVal}]
    /\ response \in [Tasks -> ReqIds \cup {ResetVal}]
    /\ outcome \in [Tasks -> {"none", "success", "error"}]
    /\ ipcLock \in Tasks \cup {NoTask}
    /\ lastReqId \in ReqIds
    /\ powerSave \in BOOLEAN
    /\ pendingReq \in ReqIds \cup {ResetVal}
    /\ responseOwner \in Tasks \cup {NoTask}
    /\ responseSem \in {0, 1}
    /\ rxHalted \in BOOLEAN
    /\ txSlot \in Frames
    /\ ioFrame \in Frames
    /\ fifo \in Seq(Frames)
    /\ Len(fifo) <= FifoCapacity
    /\ commands \in SUBSET ReqIds
    /\ outbox \in Seq(Frames)
    /\ stranded \in BOOLEAN

Init ==
    /\ pc = [t \in Tasks |-> "idle"]
    /\ api = [t \in Tasks |-> "none"]
    /\ myReq = [t \in Tasks |-> ResetVal]
    /\ response = [t \in Tasks |-> ResetVal]
    /\ outcome = [t \in Tasks |-> "none"]
    /\ ipcLock = NoTask
    /\ lastReqId = ResetVal - 2
    /\ powerSave = FALSE
    /\ pendingReq = ResetVal
    /\ responseOwner = NoTask
    /\ responseSem = 0
    /\ rxHalted = FALSE
    /\ txSlot = Nothing
    /\ ioFrame = Nothing
    /\ fifo = <<>>
    /\ commands = {}
    /\ outbox = <<>>
    /\ stranded = FALSE

-----------------------------------------------------------------------------
(* Request ids.                                                            *)

(* Unsigned 32-bit increment, ResetVal being the largest value. *)
Increment(id) == IF id = ResetVal THEN 0 ELSE id + 1

(* GetNewReqId: the reset value is skipped, so the counter wraps to 0. *)
GetNewReqId ==
    LET id == Increment(lastReqId)
    IN  IF id = ResetVal THEN Increment(id) ELSE id

(* Ids of every frame that is somewhere between a task and the module. *)
Circulating ==
    {txSlot.reqId, ioFrame.reqId} \cup commands
        \cup {fifo[i].reqId : i \in 1 .. Len(fifo)}
        \cup {outbox[i].reqId : i \in 1 .. Len(outbox)}

(* ASSUMPTION on the environment: a frame does not outlive the 2^32 - 1     *)
(* requests after which its id is issued again.                            *)
IdIsFresh == GetNewReqId \notin Circulating

-----------------------------------------------------------------------------
(* EmwCoreIpc::request(), as executed by task t.  AssertAlways spins: a    *)
(* halted receive thread never yields to the tasks below it.               *)

Runs(t) == ~rxHalted /\ t \in Tasks

Goto(t, step) == pc' = [pc EXCEPT ![t] = step]

(* A task calls request(); isUsable is tested before IpcLock is taken. *)
Call(t) ==
    /\ Runs(t)
    /\ pc[t] = "idle"
    /\ Goto(t, "enter")
    /\ outcome' = [outcome EXCEPT ![t] = "none"]
    /\ UNCHANGED <<api, myReq, ipcVars, pendingVars, rxHalted, linkVars,
                   moduleVars, stranded>>

(* A command above the size limit is refused under the lock, nothing sent. *)
RefuseOversize(t) ==
    /\ Runs(t)
    /\ pc[t] = "enter" /\ ipcLock = NoTask
    /\ Goto(t, "idle")
    /\ outcome' = [outcome EXCEPT ![t] = "error"]
    /\ UNCHANGED <<api, myReq, ipcVars, pendingVars, rxHalted, linkVars,
                   moduleVars, stranded>>

(* AssertAlways(REQ_ID_RESET_VAL == PendingRequest.reqId) fails. *)
AssertNoPending(t) ==
    /\ pendingReq # ResetVal
    /\ Goto(t, "halted")
    /\ UNCHANGED <<pendingReq, responseOwner, response>>

(* The request is recorded as the pending one, with the caller's buffer. *)
RecordPending(t) ==
    /\ pendingReq = ResetVal
    /\ pendingReq' = GetNewReqId
    /\ responseOwner' = t
    /\ response' = [response EXCEPT ![t] = ResetVal]
    /\ Goto(t, IF powerSave THEN "wake" ELSE "send")

(* A mistake: IpcLock is not waited for. *)
EnterUnlocked(t, a) ==
    /\ Runs(t)
    /\ pc[t] = "enter"
    /\ IdIsFresh
    /\ ipcLock' = t
    /\ lastReqId' = GetNewReqId
    /\ myReq' = [myReq EXCEPT ![t] = GetNewReqId]
    /\ api' = [api EXCEPT ![t] = a]
    /\ AssertNoPending(t) \/ RecordPending(t)
    /\ UNCHANGED <<outcome, powerSave, responseSem, rxHalted, linkVars,
                   moduleVars, stranded>>

(* IpcLock is taken, a new id is written in the command a. *)
Enter(t, a) ==
    /\ Runs(t)
    /\ pc[t] = "enter" /\ ipcLock = NoTask
    /\ IdIsFresh
    /\ ipcLock' = t
    /\ lastReqId' = GetNewReqId
    /\ myReq' = [myReq EXCEPT ![t] = GetNewReqId]
    /\ api' = [api EXCEPT ![t] = a]
    /\ AssertNoPending(t) \/ RecordPending(t)
    /\ UNCHANGED <<outcome, powerSave, responseSem, rxHalted, linkVars,
                   moduleVars, stranded>>

(* EmwIoSpi::sendImp: under TxLock the frame replaces what the slot held. *)
PostToSlot(frame) ==
    /\ ioFrame = Nothing
    /\ txSlot' = frame

(* In power-save mode five bytes are sent first, then 10 ms are let pass. *)
SendDummy(t) ==
    /\ Runs(t)
    /\ pc[t] = "wake"
    /\ PostToSlot(Frame("dummy", ResetVal))
    /\ Goto(t, "send")
    /\ UNCHANGED <<api, myReq, outcome, ipcVars, pendingVars, rxHalted, ioFrame,
                   fifo, moduleVars, stranded>>

SendCommand(t) ==
    /\ Runs(t)
    /\ pc[t] = "send"
    /\ PostToSlot(Frame("command", myReq[t]))
    /\ Goto(t, "wait")
    /\ UNCHANGED <<api, myReq, outcome, ipcVars, pendingVars, rxHalted, ioFrame,
                   fifo, moduleVars, stranded>>

(* A mistake: a path returns with IpcLock held. *)
ReturnLocked(t, status) ==
    /\ Goto(t, "idle")
    /\ outcome' = [outcome EXCEPT ![t] = status]
    /\ powerSave' = (api[t] = "ps_on" \/ (api[t] # "ps_off" /\ powerSave))
    /\ ipcLock' = ipcLock
    /\ api' = [api EXCEPT ![t] = "none"]
    /\ myReq' = [myReq EXCEPT ![t] = ResetVal]
    /\ response' = [response EXCEPT ![t] = ResetVal]

(* Every path out of the locked part: the power-save flag follows the      *)
(* command whatever its outcome, IpcLock is released and the caller's      *)
(* buffers go out of scope.                                                *)
Return(t, status) ==
    /\ Goto(t, "idle")
    /\ outcome' = [outcome EXCEPT ![t] = status]
    /\ powerSave' = (api[t] = "ps_on" \/ (api[t] # "ps_off" /\ powerSave))
    /\ ipcLock' = NoTask
    /\ api' = [api EXCEPT ![t] = "none"]
    /\ myReq' = [myReq EXCEPT ![t] = ResetVal]
    /\ response' = [response EXCEPT ![t] = ResetVal]

(* TakeSemaphore obtains the token: eSUCCESS. *)
TakeResponse(t) ==
    /\ Runs(t)
    /\ pc[t] = "wait"
    /\ responseSem = 1
    /\ responseSem' = 0
    /\ Return(t, "success")
    /\ UNCHANGED <<lastReqId, pendingReq, responseOwner, rxHalted, linkVars,
                   moduleVars, stranded>>

(* TakeSemaphore times out.  The task then reports the error on the        *)
(* console, and may be preempted, before it withdraws the request.         *)
TimeOut(t) ==
    /\ Runs(t)
    /\ pc[t] = "wait"
    /\ responseSem = 0
    /\ Goto(t, "expired")
    /\ UNCHANGED <<api, myReq, outcome, ipcVars, pendingVars, rxHalted, linkVars,
                   moduleVars, stranded>>

(* A mistake: the request that times out is not withdrawn. *)
GiveUpStillPending(t) ==
    /\ Runs(t)
    /\ pc[t] = "expired"
    /\ pendingReq' = pendingReq
    /\ stranded' = (stranded \/ responseSem = 1)
    /\ Return(t, "error")
    /\ UNCHANGED <<lastReqId, responseOwner, responseSem, rxHalted, linkVars,
                   moduleVars>>

(* The request is withdrawn: eERROR.  A token given meanwhile stays. *)
GiveUp(t) ==
    /\ Runs(t)
    /\ pc[t] = "expired"
    /\ pendingReq' = ResetVal
    /\ stranded' = (stranded \/ responseSem = 1)
    /\ Return(t, "error")
    /\ UNCHANGED <<lastReqId, responseOwner, responseSem, rxHalted, linkVars,
                   moduleVars>>

Request(t) ==
    \/ Call(t) \/ RefuseOversize(t)
    \/ \E a \in Commands : Enter(t, a)
    \/ SendDummy(t) \/ SendCommand(t)
    \/ TakeResponse(t) \/ TimeOut(t) \/ GiveUp(t)

-----------------------------------------------------------------------------
(* The receive thread: EmwCoreIpc::poll().                                 *)

(* Two mistakes: any response is taken for the one awaited; the pending    *)
(* request is not cleared by its response.                                 *)
MatchAnyResponse(id) ==
    /\ pendingReq # ResetVal
    /\ response' = [response EXCEPT ![responseOwner] = id]
    /\ pendingReq' = ResetVal
    /\ responseSem' = 1
    /\ rxHalted' = (responseSem = 1)

MatchStillPending(id) ==
    /\ id = pendingReq
    /\ response' = [response EXCEPT ![responseOwner] = id]
    /\ pendingReq' = pendingReq
    /\ responseSem' = 1
    /\ rxHalted' = (responseSem = 1)

(* The response is copied to the pending caller, the pending request is    *)
(* cleared and its semaphore given; AssertAlways spins if it is full.      *)
MatchResponse(id) ==
    /\ id = pendingReq
    /\ response' = [response EXCEPT ![responseOwner] = id]
    /\ pendingReq' = ResetVal
    /\ responseSem' = 1
    /\ rxHalted' = (responseSem = 1)

DropResponse(id) ==
    /\ id # pendingReq
    /\ UNCHANGED <<response, pendingReq, responseSem, rxHalted>>

ProcessResponse ==
    /\ Head(fifo).kind = "response"
    /\ MatchResponse(Head(fifo).reqId) \/ DropResponse(Head(fifo).reqId)

(* Events go to processEvent, frames without a whole header are freed. *)
IgnoreFrame ==
    /\ Head(fifo).kind # "response"
    /\ UNCHANGED <<response, pendingReq, responseSem, rxHalted>>

Poll ==
    /\ ~rxHalted
    /\ fifo # <<>>
    /\ fifo' = Tail(fifo)
    /\ ProcessResponse \/ IgnoreFrame
    /\ UNCHANGED <<taskVars, ipcVars, responseOwner, txSlot, ioFrame, moduleVars,
                   stranded>>

-----------------------------------------------------------------------------
(* The I/O thread.  A transaction that fails changes nothing here: the     *)
(* frame stays in the slot.                                                *)

Transmit ==
    /\ ioFrame = Nothing
    /\ txSlot # Nothing
    /\ txSlot' = Nothing
    /\ commands' = IF txSlot.kind = "command"
                   THEN commands \cup {txSlot.reqId} ELSE commands
    /\ UNCHANGED <<taskVars, ipcVars, pendingVars, rxHalted, ioFrame, fifo,
                   outbox, stranded>>

Receive ==
    /\ ioFrame = Nothing
    /\ outbox # <<>>
    /\ ioFrame' = Head(outbox)
    /\ outbox' = Tail(outbox)
    /\ UNCHANGED <<taskVars, ipcVars, pendingVars, rxHalted, txSlot, fifo,
                   commands, stranded>>

(* A mistake: the packet is stored whether there is room or not. *)
InputWithoutRoom ==
    /\ ioFrame # Nothing
    /\ fifo' = Append(fifo, ioFrame)
    /\ ioFrame' = Nothing
    /\ UNCHANGED <<taskVars, ipcVars, pendingVars, rxHalted, txSlot, moduleVars,
                   stranded>>

(* EmwCoreHci::Input waits for room, for ever, with TxLock held. *)
Input ==
    /\ ioFrame # Nothing
    /\ Len(fifo) < FifoCapacity
    /\ fifo' = Append(fifo, ioFrame)
    /\ ioFrame' = Nothing
    /\ UNCHANGED <<taskVars, ipcVars, pendingVars, rxHalted, txSlot, moduleVars,
                   stranded>>

-----------------------------------------------------------------------------
(* The Wi-Fi module (external): it answers a command once, at any later    *)
(* time and in any order, or never; it sends events and noise.             *)

Emit(frame) ==
    /\ Len(outbox) < OutboxBound
    /\ outbox' = Append(outbox, frame)

ModuleAnswers(id) ==
    /\ Emit(Frame("response", id))
    /\ commands' = commands \ {id}
    /\ UNCHANGED <<taskVars, ipcVars, pendingVars, rxHalted, linkVars, stranded>>

ModuleForgets(id) ==
    /\ commands' = commands \ {id}
    /\ UNCHANGED <<taskVars, ipcVars, pendingVars, rxHalted, linkVars, outbox,
                   stranded>>

ModuleNotifies ==
    /\ Emit(Frame("event", ResetVal))
    /\ UNCHANGED <<taskVars, ipcVars, pendingVars, rxHalted, linkVars, commands,
                   stranded>>

WiFiModule ==
    \/ \E id \in commands : ModuleAnswers(id) \/ ModuleForgets(id)
    \/ ModuleNotifies

-----------------------------------------------------------------------------
(* AssertAlways: while (true) {} *)
Spin == Halted /\ UNCHANGED vars

Next ==
    \/ \E t \in Tasks : Request(t)
    \/ Poll
    \/ Transmit \/ Receive \/ Input
    \/ WiFiModule
    \/ Spin

Spec == Init /\ [][Next]_vars

(* The scheduler runs a ready task; timeouts are finite and expire.  A task *)
(* waiting for IpcLock or TxLock may be overtaken but not for ever: the    *)
(* other tasks return to their own work, and between two packets the I/O   *)
(* thread blocks with TxLock released until the module raises NOTIFY.      *)
(* Nothing is assumed of Transmit: the link may fail for ever.             *)
Fairness ==
    /\ \A t \in Tasks :
        /\ SF_vars(RefuseOversize(t) \/ \E a \in Commands : Enter(t, a))
        /\ SF_vars(SendDummy(t) \/ SendCommand(t))
        /\ WF_vars(TakeResponse(t) \/ TimeOut(t))
        /\ WF_vars(GiveUp(t))
    /\ WF_vars(Poll) /\ WF_vars(Input) /\ WF_vars(Receive)
    /\ WF_vars(\E id \in commands : ModuleForgets(id))

FairSpec == Spec /\ Fairness

-----------------------------------------------------------------------------
(* Properties.                                                             *)

(* The pending request is that of the task past IpcLock in request(), with *)
(* its id and its buffer: the receive thread, which takes no lock, copies  *)
(* a response to nobody else.  It outlives its call only once an answer    *)
(* has arrived between a timeout and the withdrawal (stranded), and then   *)
(* no call is in progress: the next one stops at its assertion.            *)
PendingIsLive ==
    pendingReq # ResetVal =>
        \/ \E t \in Tasks :
              /\ ipcLock = t /\ pc[t] \in LockedSteps \ {"halted"}
              /\ responseOwner = t /\ myReq[t] = pendingReq
        \/ stranded /\ (ipcLock = NoTask \/ Halted)

(* A call that returns eSUCCESS has the response to its own command in its *)
(* buffer; once a token is stranded it may have an empty one.  It never    *)
(* has the response to another command, whatever late answers arrive.      *)
ExactDelivery ==
    [][\A t \in Tasks :
          TakeResponse(t) =>
              \/ response[t] = myReq[t]
              \/ stranded /\ response[t] = ResetVal]_vars

(* The only way to one of the driver's two assertions (a request already   *)
(* pending, a semaphore already given) is an answer that lands between a   *)
(* timeout and the withdrawal of its request.                              *)
OnlyStrandedHalts == Halted => stranded

(* A task that calls request() returns, whatever the link and the module   *)
(* do: full queues, lost commands, missing and late answers, noise.        *)
RequestReturns ==
    \A t \in Tasks : (pc[t] # "idle") ~> (pc[t] = "idle" \/ Halted)

(* The assertions of request() and processResponse() never fail. *)
AssertionsHold == ~Halted

(* request() implements the remote procedure call of EmwRpc. *)
CallOf(t) ==
    IF pc[t] \in {"idle", "enter"} THEN "idle"
    ELSE IF response[t] = myReq[t] THEN "answered" ELSE "asking"

Rpc == INSTANCE EmwRpc WITH
    call <- [t \in Tasks |-> CallOf(t)],
    result <- outcome,
    spoilt <- stranded

RpcSpec == Rpc!Spec

-----------------------------------------------------------------------------
(* The inductive invariant behind these three safety properties.           *)

(* IpcLock is owned by exactly the task that is past it in request(). *)
LockIsOwned == \A t \in Tasks : ipcLock = t <=> pc[t] \in LockedSteps

(* A task past IpcLock has a valid id in its command. *)
IdIsIssued == \A t \in Tasks : pc[t] \in LockedSteps => myReq[t] \in ReqIds

(* Until a command is sent, no frame carries its id. *)
IdIsUnsent ==
    \A t \in Tasks : pc[t] \in {"wake", "send"} => myReq[t] \notin Circulating

(* The pending request is that of t, not answered yet. *)
Unanswered(t) ==
    pendingReq = myReq[t] /\ responseSem = 0 /\ response[t] = ResetVal

(* The request of t has been answered and its token awaits t. *)
Answered(t) ==
    /\ pc[t] \in {"wait", "expired"}
    /\ pendingReq = ResetVal /\ responseSem = 1 /\ response[t] = myReq[t]

(* Until a token is stranded, the shared record belongs to the lock's owner. *)
Clean ==
    ~stranded =>
        /\ ~Halted
        /\ ipcLock = NoTask => pendingReq = ResetVal /\ responseSem = 0
        /\ \A t \in Tasks : ipcLock = t =>
              responseOwner = t /\ (Unanswered(t) \/ Answered(t))

(* With or without one, the record is of the call past IpcLock, and its    *)
(* buffer is empty or holds its own answer.                                *)
RecordIsOwners ==
    \A t \in Tasks :
        pc[t] \in LockedSteps \ {"halted"} =>
            /\ responseOwner = t
            /\ pendingReq \in {ResetVal, myReq[t]}
            /\ response[t] \in {ResetVal, myReq[t]}

IInv ==
    TypeOK /\ LockIsOwned /\ IdIsIssued /\ IdIsUnsent /\ Clean /\ RecordIsOwners
=============================================================================
