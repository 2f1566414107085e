-------------------------- MODULE EmwCoreIpcProofs --------------------------
(***************************************************************************)
(* Proofs about EmwCoreIpc, for any set of tasks, any queue capacity and   *)
(* any size of the request counter.                                        *)
(***************************************************************************)
EXTENDS EmwCoreIpc, TLAPS

USE TasksAssumption, ResetValAssumption, FifoAssumption

-----------------------------------------------------------------------------
(* Request ids and frames.                                                 *)

(* A new request id is never the reset value, even when the counter wraps. *)
LEMMA NewIdIsValid ==
    ASSUME lastReqId \in ReqIds
    PROVE  GetNewReqId \in ReqIds
  BY DEF GetNewReqId, Increment, ReqIds

(* The reset value is not a request id. *)
LEMMA ResetIsNoId == ResetVal \notin ReqIds
  BY DEF ReqIds

(* The frames a step can build are frames. *)
LEMMA FrameTypes ==
    /\ Nothing \in Frames
    /\ Frame("dummy", ResetVal) \in Frames
    /\ Frame("event", ResetVal) \in Frames
    /\ \A id \in ReqIds : Frame("command", id) \in Frames
    /\ \A id \in ReqIds : Frame("response", id) \in Frames
  BY DEF Nothing, Frame, Frames

(* What a frame carries, by kind. *)
LEMMA FrameIds ==
    ASSUME NEW f \in Frames
    PROVE  /\ f.reqId \in ReqIds \cup {ResetVal}
           /\ f.kind \in {"command", "response"} => f.reqId \in ReqIds
           /\ f.kind \notin {"command", "response"} => f.reqId = ResetVal
  BY DEF Frames

(* Removing the oldest element of a queue leaves the others. *)
LEMMA TailElements ==
    ASSUME NEW S, NEW q \in Seq(S), q # <<>>
    PROVE  /\ Head(q) \in S
           /\ Tail(q) \in Seq(S)
           /\ Len(Tail(q)) = Len(q) - 1
           /\ Head(q) = q[1] /\ 1 \in 1 .. Len(q)
           /\ \A i \in 1 .. Len(Tail(q)) : i + 1 \in 1 .. Len(q) /\ Tail(q)[i] = q[i + 1]
  OBVIOUS

(* Posting to a queue adds one element at its end. *)
LEMMA AppendElements ==
    ASSUME NEW S, NEW q \in Seq(S), NEW e \in S
    PROVE  /\ Append(q, e) \in Seq(S)
           /\ Len(Append(q, e)) = Len(q) + 1
           /\ \A i \in 1 .. Len(Append(q, e)) :
                 Append(q, e)[i] = IF i \in 1 .. Len(q) THEN q[i] ELSE e
  OBVIOUS

-----------------------------------------------------------------------------
(* No step but SendCommand puts a new request id into circulation.         *)

(* Only the steps of the link and of the module touch the frames. *)
LEMMA CirculatingSame ==
    ASSUME UNCHANGED <<linkVars, moduleVars>>
    PROVE  Circulating' = Circulating
  BY DEF linkVars, moduleVars, Circulating

(* The dummy carries no request id. *)
LEMMA CirculatingDummy ==
    ASSUME NEW t \in Tasks, SendDummy(t)
    PROVE  Circulating' \subseteq Circulating \cup {ResetVal}
  BY DEF SendDummy, PostToSlot, Frame, Circulating, moduleVars

(* The command carries the id of its task. *)
LEMMA CirculatingCommand ==
    ASSUME NEW t \in Tasks, SendCommand(t)
    PROVE  Circulating' \subseteq Circulating \cup {myReq[t]}
  BY DEF SendCommand, PostToSlot, Frame, Circulating, moduleVars

(* The receive thread, the I/O thread and the module only pass ids on. *)
LEMMA CirculatingPoll ==
    ASSUME TypeOK, Poll
    PROVE  /\ Circulating' \subseteq Circulating
           /\ Head(fifo) \in Frames
           /\ Head(fifo).reqId \in Circulating
<1>1. fifo \in Seq(Frames) /\ fifo # <<>> /\ fifo' = Tail(fifo)
  BY DEF TypeOK, Poll
<1>2. /\ Head(fifo) \in Frames /\ Head(fifo) = fifo[1] /\ 1 \in 1 .. Len(fifo)
      /\ \A i \in 1 .. Len(fifo') : i + 1 \in 1 .. Len(fifo) /\ fifo'[i] = fifo[i + 1]
  BY <1>1, TailElements
<1>3. UNCHANGED <<txSlot, ioFrame, commands, outbox>>
  BY DEF Poll, moduleVars
<1> QED BY <1>2, <1>3 DEF Circulating

(* The I/O thread passes the id of the slot on to the module... *)
LEMMA CirculatingTransmit ==
    ASSUME Transmit
    PROVE  Circulating' \subseteq Circulating \cup {ResetVal}
  BY DEF Transmit, Nothing, Frame, Circulating

(* ...takes the oldest packet of the module... *)
LEMMA CirculatingReceive ==
    ASSUME TypeOK, Receive
    PROVE  Circulating' \subseteq Circulating
<1>1. outbox \in Seq(Frames) /\ outbox # <<>> /\ outbox' = Tail(outbox)
  BY DEF TypeOK, Receive
<1>2. /\ Head(outbox) = outbox[1] /\ 1 \in 1 .. Len(outbox)
      /\ \A i \in 1 .. Len(outbox') :
            i + 1 \in 1 .. Len(outbox) /\ outbox'[i] = outbox[i + 1]
  BY <1>1, TailElements
<1>3. UNCHANGED <<txSlot, commands, fifo>> /\ ioFrame' = Head(outbox)
  BY DEF Receive
<1> QED BY <1>2, <1>3 DEF Circulating

(* ...and posts it to the queue. *)
LEMMA CirculatingInput ==
    ASSUME TypeOK, Input
    PROVE  Circulating' \subseteq Circulating \cup {ResetVal}
<1>1. fifo \in Seq(Frames) /\ ioFrame \in Frames /\ fifo' = Append(fifo, ioFrame)
  BY DEF TypeOK, Input
<1>2. \A i \in 1 .. Len(fifo') :
         fifo'[i] = IF i \in 1 .. Len(fifo) THEN fifo[i] ELSE ioFrame
  BY <1>1, AppendElements
<1>3. UNCHANGED <<txSlot, commands, outbox>> /\ ioFrame'.reqId = ResetVal
  BY DEF Input, moduleVars, Nothing, Frame
<1> QED BY <1>2, <1>3 DEF Circulating

(* The module answers with the ids it was sent. *)
LEMMA CirculatingModule ==
    ASSUME TypeOK, WiFiModule
    PROVE  Circulating' \subseteq Circulating \cup {ResetVal}
<1> USE DEF linkVars
<1>1. ASSUME NEW f \in Frames, outbox' = Append(outbox, f),
             f.reqId \in Circulating \cup {ResetVal},
             commands' \subseteq commands, UNCHANGED <<txSlot, ioFrame, fifo>>
      PROVE  Circulating' \subseteq Circulating \cup {ResetVal}
  <2>1. \A i \in 1 .. Len(outbox') :
           outbox'[i] = IF i \in 1 .. Len(outbox) THEN outbox[i] ELSE f
    BY <1>1, AppendElements DEF TypeOK
  <2> QED BY <1>1, <2>1 DEF Circulating
<1>2. ASSUME NEW id \in commands, ModuleAnswers(id)
      PROVE  Circulating' \subseteq Circulating \cup {ResetVal}
  <2>1. id \in ReqIds /\ id \in Circulating
    BY DEF TypeOK, Circulating
  <2>2. Frame("response", id) \in Frames /\ Frame("response", id).reqId = id
    BY <2>1, FrameTypes DEF Frame
  <2> QED BY <1>1, <1>2, <2>1, <2>2 DEF ModuleAnswers, Emit
<1>3. ASSUME NEW id \in commands, ModuleForgets(id)
      PROVE  Circulating' \subseteq Circulating \cup {ResetVal}
  BY <1>3 DEF ModuleForgets, Circulating
<1>4. ASSUME ModuleNotifies
      PROVE  Circulating' \subseteq Circulating \cup {ResetVal}
  <2>1. Frame("event", ResetVal) \in Frames /\ Frame("event", ResetVal).reqId = ResetVal
    BY FrameTypes DEF Frame
  <2> QED BY <1>1, <1>4, <2>1 DEF ModuleNotifies, Emit
<1> QED BY <1>2, <1>3, <1>4 DEF WiFiModule

-----------------------------------------------------------------------------
(* Type correctness.                                                       *)

(* Every step of every actor keeps the state in its types. *)
LEMMA TypeStep == TypeOK /\ IdIsIssued /\ [Next]_vars => TypeOK'
<1> SUFFICES ASSUME TypeOK, IdIsIssued, [Next]_vars PROVE TypeOK'
  OBVIOUS
<1> USE FrameTypes DEF TypeOK, taskVars, ipcVars, pendingVars, linkVars, moduleVars,
        TaskSteps, LockedSteps, Commands, Goto, Runs
<1>1. ASSUME NEW t \in Tasks, Call(t) PROVE TypeOK'
  BY <1>1 DEF Call
<1>2. ASSUME NEW t \in Tasks, RefuseOversize(t) PROVE TypeOK'
  BY <1>2 DEF RefuseOversize
<1>3. ASSUME NEW t \in Tasks, NEW a \in Commands, Enter(t, a) PROVE TypeOK'
  <2>1. GetNewReqId \in ReqIds
    BY NewIdIsValid
  <2>2. CASE AssertNoPending(t)
    BY <1>3, <2>1, <2>2 DEF Enter, AssertNoPending
  <2>3. CASE RecordPending(t)
    BY <1>3, <2>1, <2>3 DEF Enter, RecordPending
  <2> QED BY <1>3, <2>2, <2>3 DEF Enter
<1>4. ASSUME NEW t \in Tasks, SendDummy(t) PROVE TypeOK'
  BY <1>4 DEF SendDummy, PostToSlot
<1>5. ASSUME NEW t \in Tasks, SendCommand(t) PROVE TypeOK'
  <2>1. myReq[t] \in ReqIds
    BY <1>5 DEF SendCommand, IdIsIssued
  <2> QED BY <1>5, <2>1 DEF SendCommand, PostToSlot
<1>6. ASSUME NEW t \in Tasks, TakeResponse(t) PROVE TypeOK'
  BY <1>6 DEF TakeResponse, Return
<1>7. ASSUME NEW t \in Tasks, TimeOut(t) PROVE TypeOK'
  BY <1>7 DEF TimeOut
<1>8. ASSUME NEW t \in Tasks, GiveUp(t) PROVE TypeOK'
  BY <1>8 DEF GiveUp, Return
<1>9. ASSUME Poll PROVE TypeOK'
  <2>1. Head(fifo) \in Frames
    BY <1>9, CirculatingPoll
  <2>2. Head(fifo).reqId \in ReqIds \cup {ResetVal}
    BY <2>1, FrameIds
  <2>3. fifo' \in Seq(Frames) /\ Len(fifo') <= FifoCapacity
    BY <1>9, TailElements DEF Poll
  <2>4. /\ response' \in [Tasks -> ReqIds \cup {ResetVal}]
        /\ pendingReq' \in ReqIds \cup {ResetVal}
        /\ responseSem' \in {0, 1}
        /\ rxHalted' \in BOOLEAN
    BY <1>9, <2>2 DEF Poll, ProcessResponse, MatchResponse, DropResponse, IgnoreFrame
  <2> QED BY <1>9, <2>3, <2>4 DEF Poll
<1>10. ASSUME Transmit PROVE TypeOK'
  <2>1. txSlot.kind = "command" => txSlot.reqId \in ReqIds
    BY FrameIds
  <2> QED BY <1>10, <2>1 DEF Transmit
<1>11. ASSUME Receive PROVE TypeOK'
  BY <1>11, TailElements DEF Receive
<1>12. ASSUME Input PROVE TypeOK'
  BY <1>12, AppendElements DEF Input
<1>13. ASSUME WiFiModule PROVE TypeOK'
  <2>1. ASSUME NEW id \in commands, ModuleAnswers(id) PROVE TypeOK'
    BY <2>1, AppendElements DEF ModuleAnswers, Emit
  <2>2. ASSUME NEW id \in commands, ModuleForgets(id) PROVE TypeOK'
    BY <2>2 DEF ModuleForgets
  <2>3. ASSUME ModuleNotifies PROVE TypeOK'
    BY <2>3, AppendElements DEF ModuleNotifies, Emit
  <2> QED BY <1>13, <2>1, <2>2, <2>3 DEF WiFiModule
<1>14. CASE UNCHANGED vars
  BY <1>14 DEF vars
<1> QED
  BY <1>1, <1>2, <1>3, <1>4, <1>5, <1>6, <1>7, <1>8, <1>9, <1>10, <1>11, <1>12,
     <1>13, <1>14 DEF Next, Request, Spin

-----------------------------------------------------------------------------
(* The lock.                                                               *)

(* IpcLock changes hands only where request() enters and leaves. *)
LEMMA LockStep == TypeOK /\ LockIsOwned /\ [Next]_vars => LockIsOwned'
<1> SUFFICES ASSUME TypeOK, LockIsOwned, [Next]_vars PROVE LockIsOwned'
  OBVIOUS
<1> USE DEF TypeOK, LockIsOwned, taskVars, ipcVars, TaskSteps, LockedSteps, Goto, Runs
<1>1. ASSUME NEW t \in Tasks, Call(t) PROVE LockIsOwned'
  BY <1>1 DEF Call
<1>2. ASSUME NEW t \in Tasks, RefuseOversize(t) PROVE LockIsOwned'
  BY <1>2 DEF RefuseOversize
<1>3. ASSUME NEW t \in Tasks, NEW a \in Commands, Enter(t, a) PROVE LockIsOwned'
  BY <1>3 DEF Enter, AssertNoPending, RecordPending
<1>4. ASSUME NEW t \in Tasks, SendDummy(t) PROVE LockIsOwned'
  BY <1>4 DEF SendDummy
<1>5. ASSUME NEW t \in Tasks, SendCommand(t) PROVE LockIsOwned'
  BY <1>5 DEF SendCommand
<1>6. ASSUME NEW t \in Tasks, TakeResponse(t) PROVE LockIsOwned'
  BY <1>6 DEF TakeResponse, Return
<1>7. ASSUME NEW t \in Tasks, TimeOut(t) PROVE LockIsOwned'
  BY <1>7 DEF TimeOut
<1>8. ASSUME NEW t \in Tasks, GiveUp(t) PROVE LockIsOwned'
  BY <1>8 DEF GiveUp, Return
<1>9. CASE UNCHANGED <<pc, ipcLock>>
  BY <1>9
<1>10. Poll \/ Transmit \/ Receive \/ Input \/ WiFiModule \/ UNCHANGED vars
          => UNCHANGED <<pc, ipcLock>>
  BY DEF Poll, Transmit, Receive, Input, WiFiModule, ModuleAnswers, ModuleForgets,
         ModuleNotifies, vars
<1> QED
  BY <1>1, <1>2, <1>3, <1>4, <1>5, <1>6, <1>7, <1>8, <1>9, <1>10
  DEF Next, Request, Spin

-----------------------------------------------------------------------------
(* The request ids.                                                        *)

(* A task gets its id with the lock and loses it with the lock. *)
LEMMA IssuedStep == TypeOK /\ IdIsIssued /\ [Next]_vars => IdIsIssued'
<1> SUFFICES ASSUME TypeOK, IdIsIssued, [Next]_vars PROVE IdIsIssued'
  OBVIOUS
<1> USE DEF TypeOK, IdIsIssued, taskVars, TaskSteps, LockedSteps, Goto, Runs
<1>1. ASSUME NEW t \in Tasks, Call(t) \/ RefuseOversize(t) \/ SendDummy(t)
                                 \/ SendCommand(t) \/ TimeOut(t)
      PROVE IdIsIssued'
  BY <1>1 DEF Call, RefuseOversize, SendDummy, SendCommand, TimeOut
<1>2. ASSUME NEW t \in Tasks, NEW a \in Commands, Enter(t, a) PROVE IdIsIssued'
  <2>1. GetNewReqId \in ReqIds
    BY NewIdIsValid
  <2>2. myReq' = [myReq EXCEPT ![t] = GetNewReqId]
        /\ \A u \in Tasks \ {t} : pc'[u] = pc[u]
    BY <1>2 DEF Enter, AssertNoPending, RecordPending
  <2> QED BY <2>1, <2>2
<1>3. ASSUME NEW t \in Tasks, TakeResponse(t) \/ GiveUp(t) PROVE IdIsIssued'
  BY <1>3 DEF TakeResponse, GiveUp, Return
<1>4. Poll \/ Transmit \/ Receive \/ Input \/ WiFiModule \/ UNCHANGED vars
          => UNCHANGED <<pc, myReq>>
  BY DEF Poll, Transmit, Receive, Input, WiFiModule, ModuleAnswers, ModuleForgets,
         ModuleNotifies, vars
<1> QED BY <1>1, <1>2, <1>3, <1>4 DEF Next, Request, Spin

(* A fresh id stays out of circulation until its command is sent. *)
LEMMA UnsentStep ==
    TypeOK /\ LockIsOwned /\ IdIsIssued /\ IdIsUnsent /\ [Next]_vars => IdIsUnsent'
<1> SUFFICES ASSUME TypeOK, LockIsOwned, IdIsIssued, IdIsUnsent, [Next]_vars
             PROVE  IdIsUnsent'
  OBVIOUS
<1>a. IdIsIssued'
  BY IssuedStep
<1> USE DEF TypeOK, LockIsOwned, TaskSteps, LockedSteps, Goto, Runs
<1>b. \A u \in Tasks : pc[u] \in {"wake", "send"} => myReq[u] # ResetVal
  BY ResetIsNoId DEF IdIsIssued
<1>1. ASSUME NEW t \in Tasks, Call(t) \/ RefuseOversize(t) \/ TimeOut(t)
      PROVE IdIsUnsent'
  <2>1. Circulating' = Circulating
    BY <1>1, CirculatingSame DEF Call, RefuseOversize, TimeOut
  <2> QED BY <1>1, <2>1 DEF Call, RefuseOversize, TimeOut, IdIsUnsent
<1>2. ASSUME NEW t \in Tasks, NEW a \in Commands, Enter(t, a) PROVE IdIsUnsent'
  <2>1. Circulating' = Circulating /\ GetNewReqId \notin Circulating
    BY <1>2, CirculatingSame DEF Enter, IdIsFresh
  <2>2. myReq' = [myReq EXCEPT ![t] = GetNewReqId]
        /\ \A u \in Tasks \ {t} : pc'[u] = pc[u]
    BY <1>2 DEF Enter, AssertNoPending, RecordPending
  <2> QED BY <2>1, <2>2 DEF IdIsUnsent
<1>3. ASSUME NEW t \in Tasks, SendDummy(t) PROVE IdIsUnsent'
  <2>1. Circulating' \subseteq Circulating \cup {ResetVal}
    BY <1>3, CirculatingDummy
  <2> QED BY <1>3, <1>b, <2>1 DEF SendDummy, IdIsUnsent
<1>4. ASSUME NEW t \in Tasks, SendCommand(t) PROVE IdIsUnsent'
  (* No other task is past the lock. *)
  <2>1. \A u \in Tasks : pc'[u] \notin {"wake", "send"}
    BY <1>4 DEF SendCommand
  <2> QED BY <2>1 DEF IdIsUnsent
<1>5. ASSUME NEW t \in Tasks, TakeResponse(t) \/ GiveUp(t) PROVE IdIsUnsent'
  <2>1. Circulating' = Circulating
    BY <1>5, CirculatingSame DEF TakeResponse, GiveUp
  <2> QED BY <1>5, <2>1 DEF TakeResponse, GiveUp, Return, IdIsUnsent
<1>6. ASSUME Poll \/ Transmit \/ Receive \/ Input \/ WiFiModule PROVE IdIsUnsent'
  <2>1. Circulating' \subseteq Circulating \cup {ResetVal}
    BY <1>6, CirculatingPoll, CirculatingTransmit, CirculatingReceive,
       CirculatingInput, CirculatingModule
  <2>2. UNCHANGED <<pc, myReq>>
    BY <1>6 DEF Poll, Transmit, Receive, Input, WiFiModule, ModuleAnswers,
                ModuleForgets, ModuleNotifies, taskVars
  <2> QED BY <1>b, <2>1, <2>2 DEF IdIsUnsent
<1>7. CASE UNCHANGED vars
  BY <1>7, CirculatingSame DEF vars, linkVars, moduleVars, IdIsUnsent
<1> QED BY <1>1, <1>2, <1>3, <1>4, <1>5, <1>6, <1>7 DEF Next, Request, Spin

-----------------------------------------------------------------------------
(* The shared record.                                                      *)

(* Until a token is stranded the record belongs to the owner of the lock,  *)
(* unanswered or answered with its token given.                            *)
LEMMA CleanStep == IInv /\ [Next]_vars => Clean'
<1> SUFFICES ASSUME IInv, [Next]_vars, ~stranded' PROVE Clean'
  BY DEF Clean
<1>a. ~stranded
  BY DEF Next, Request, Call, RefuseOversize, Enter, SendDummy, SendCommand,
         TakeResponse, TimeOut, GiveUp, Poll, Transmit, Receive, Input, WiFiModule,
         ModuleAnswers, ModuleForgets, ModuleNotifies, Spin, vars
<1>b. /\ ~Halted
      /\ ipcLock = NoTask => pendingReq = ResetVal /\ responseSem = 0
      /\ \A u \in Tasks : ipcLock = u =>
            responseOwner = u /\ (Unanswered(u) \/ Answered(u))
  BY <1>a DEF IInv, Clean
<1> USE DEF IInv, TypeOK, LockIsOwned, TaskSteps, LockedSteps, Goto, Runs, Halted,
            taskVars, ipcVars, pendingVars, Unanswered, Answered
<1>1. ASSUME NEW t \in Tasks, Call(t) PROVE Clean'
  BY <1>1, <1>b DEF Call, Clean
<1>2. ASSUME NEW t \in Tasks, RefuseOversize(t) PROVE Clean'
  BY <1>2, <1>b DEF RefuseOversize, Clean
<1>3. ASSUME NEW t \in Tasks, NEW a \in Commands, Enter(t, a) PROVE Clean'
  <2>1. RecordPending(t)
    BY <1>3, <1>b DEF Enter, AssertNoPending
  <2> QED BY <1>3, <1>b, <2>1 DEF Enter, RecordPending, Clean
<1>4. ASSUME NEW t \in Tasks, SendDummy(t) PROVE Clean'
  BY <1>4, <1>b DEF SendDummy, Clean
<1>5. ASSUME NEW t \in Tasks, SendCommand(t) PROVE Clean'
  BY <1>5, <1>b DEF SendCommand, Clean
<1>6. ASSUME NEW t \in Tasks, TakeResponse(t) PROVE Clean'
  <2>1. ipcLock = t /\ Answered(t)
    BY <1>6, <1>b DEF TakeResponse
  <2> QED BY <1>6, <1>b, <2>1 DEF TakeResponse, Return, Clean
<1>7. ASSUME NEW t \in Tasks, TimeOut(t) PROVE Clean'
  BY <1>7, <1>b DEF TimeOut, Clean
<1>8. ASSUME NEW t \in Tasks, GiveUp(t) PROVE Clean'
  <2>1. ipcLock = t /\ responseSem = 0
    BY <1>8 DEF GiveUp
  <2> QED BY <1>8, <1>b, <2>1 DEF GiveUp, Return, Clean
<1>9. ASSUME Poll PROVE Clean'
  <2>1. Head(fifo) \in Frames /\ Head(fifo).reqId \in Circulating
    BY <1>9, CirculatingPoll
  <2>2. CASE UNCHANGED <<response, pendingReq, responseSem, rxHalted>>
    BY <1>9, <1>b, <2>2 DEF Poll, Clean
  <2>3. CASE ProcessResponse /\ MatchResponse(Head(fifo).reqId)
    <3>1. pendingReq \in ReqIds /\ pendingReq = Head(fifo).reqId
      BY <2>1, <2>3, FrameIds DEF ProcessResponse, MatchResponse
    <3>2. PICK u \in Tasks : ipcLock = u
      BY <1>b, <3>1, ResetIsNoId
    <3>3. responseOwner = u /\ Unanswered(u)
      BY <1>b, <3>1, <3>2, ResetIsNoId
    (* Its answer circulates, so its command has been sent. *)
    <3>4. pc[u] \in {"wait", "expired"}
      BY <1>b, <2>1, <3>1, <3>2, <3>3 DEF IdIsUnsent
    <3>5. /\ response' = [response EXCEPT ![u] = myReq[u]]
          /\ pendingReq' = ResetVal /\ responseSem' = 1
      BY <2>3, <3>1, <3>3 DEF MatchResponse
    <3>6. ~rxHalted'
      <4>1. responseSem # 1
        BY <3>3
      <4> QED BY ONLY <2>3, <4>1, Zenon DEF MatchResponse
    <3> QED BY <1>9, <1>b, <3>2, <3>3, <3>4, <3>5, <3>6 DEF Poll, Clean
  <2> QED BY <1>9, <2>2, <2>3 DEF Poll, ProcessResponse, DropResponse, IgnoreFrame
<1>10. ASSUME UNCHANGED <<pc, myReq, response, ipcLock, pendingReq, responseOwner,
                          responseSem, rxHalted>>
       PROVE Clean'
  BY <1>10, <1>b DEF Clean
<1>11. Transmit \/ Receive \/ Input \/ WiFiModule \/ UNCHANGED vars
          => UNCHANGED <<pc, myReq, response, ipcLock, pendingReq, responseOwner,
                         responseSem, rxHalted>>
  BY DEF Transmit, Receive, Input, WiFiModule, ModuleAnswers, ModuleForgets,
         ModuleNotifies, vars
<1> QED
  BY <1>1, <1>2, <1>3, <1>4, <1>5, <1>6, <1>7, <1>8, <1>9, <1>10, <1>11
  DEF Next, Request, Spin

(* With a token stranded or not, the call past IpcLock is the one the      *)
(* record is of, and only its own answer reaches its buffer.               *)
LEMMA RecordStep == IInv /\ [Next]_vars => RecordIsOwners'
<1> SUFFICES ASSUME IInv, [Next]_vars,
                    NEW u \in Tasks, pc'[u] \in LockedSteps \ {"halted"}
             PROVE  /\ responseOwner' = u
                    /\ pendingReq' \in {ResetVal, myReq'[u]}
                    /\ response'[u] \in {ResetVal, myReq'[u]}
  BY DEF RecordIsOwners
<1> DEFINE Goal == /\ responseOwner' = u
                   /\ pendingReq' \in {ResetVal, myReq'[u]}
                   /\ response'[u] \in {ResetVal, myReq'[u]}
<1> SUFFICES Goal
  OBVIOUS
<1>a. TypeOK /\ LockIsOwned /\ IdIsIssued
  BY DEF IInv
<1>b. pc[u] \in LockedSteps \ {"halted"} =>
         /\ responseOwner = u
         /\ pendingReq \in {ResetVal, myReq[u]}
         /\ response[u] \in {ResetVal, myReq[u]}
  BY DEF IInv, RecordIsOwners
<1> USE <1>a DEF TypeOK, TaskSteps, LockedSteps, Goto, Runs
<1>1. ASSUME NEW t \in Tasks, Call(t) \/ RefuseOversize(t) PROVE Goal
  BY <1>1, <1>b DEF Call, RefuseOversize, pendingVars
<1>2. ASSUME NEW t \in Tasks, NEW a \in Commands, Enter(t, a) PROVE Goal
  (* The lock was free: t alone is past it now. *)
  <2>1. \A v \in Tasks : pc[v] \notin LockedSteps
    BY <1>2 DEF Enter, LockIsOwned
  <2>2. pc' = [pc EXCEPT ![t] = pc'[t]]
    BY <1>2 DEF Enter, AssertNoPending, RecordPending
  <2>3. u = t
    BY <2>1, <2>2
  <2>4. RecordPending(t)
    BY <1>2, <2>3 DEF Enter, AssertNoPending
  <2> QED BY <1>2, <2>3, <2>4 DEF Enter, RecordPending
<1>3. ASSUME NEW t \in Tasks, SendDummy(t) \/ SendCommand(t) \/ TimeOut(t) PROVE Goal
  BY <1>3, <1>b DEF SendDummy, SendCommand, TimeOut, pendingVars
<1>4. ASSUME NEW t \in Tasks, TakeResponse(t) \/ GiveUp(t) PROVE Goal
  (* The owner of the lock has left: nobody is past it. *)
  <2>1. ipcLock = t /\ pc' = [pc EXCEPT ![t] = "idle"]
    BY <1>4 DEF TakeResponse, GiveUp, Return, LockIsOwned
  <2>2. u # t /\ pc[u] \in LockedSteps
    BY <2>1
  <2> QED BY <2>1, <2>2 DEF LockIsOwned
<1>5. ASSUME Poll PROVE Goal
  <2>1. UNCHANGED <<pc, myReq, responseOwner>>
    BY <1>5 DEF Poll, taskVars
  <2>2. CASE UNCHANGED <<response, pendingReq>>
    BY <1>b, <2>1, <2>2
  <2>3. CASE ProcessResponse /\ MatchResponse(Head(fifo).reqId)
    (* What is copied is the response to the pending request. *)
    <3>1. pendingReq # ResetVal
      <4>1. Head(fifo).reqId \in ReqIds
        BY <1>5, <2>3, CirculatingPoll, FrameIds DEF ProcessResponse
      <4> QED BY <2>3, <4>1, ResetIsNoId DEF MatchResponse
    <3>2. pendingReq = myReq[u] /\ responseOwner = u
      BY <1>b, <2>1, <3>1
    <3>3. response' = [response EXCEPT ![u] = myReq[u]] /\ pendingReq' = ResetVal
      BY <2>3, <3>2 DEF MatchResponse
    <3> QED BY <2>1, <3>2, <3>3
  <2> QED BY <1>5, <2>2, <2>3 DEF Poll, ProcessResponse, DropResponse, IgnoreFrame
<1>6. CASE UNCHANGED <<pc, myReq, response, pendingReq, responseOwner>>
  BY <1>6, <1>b
<1>7. Transmit \/ Receive \/ Input \/ WiFiModule \/ UNCHANGED vars
         => UNCHANGED <<pc, myReq, response, pendingReq, responseOwner>>
  BY DEF Transmit, Receive, Input, WiFiModule, ModuleAnswers, ModuleForgets,
         ModuleNotifies, vars, taskVars, pendingVars
<1> QED
  BY <1>1, <1>2, <1>3, <1>4, <1>5, <1>6, <1>7 DEF Next, Request, Spin

-----------------------------------------------------------------------------
(* The theorems.                                                           *)

(* Nothing is pending, locked or in circulation at the start. *)
LEMMA Inductive == Init => IInv
<1> SUFFICES ASSUME Init PROVE IInv
  OBVIOUS
<1>1. TypeOK
  <2>1. lastReqId \in ReqIds
    BY DEF Init, ReqIds
  <2>2. powerSave \in BOOLEAN /\ rxHalted \in BOOLEAN /\ stranded \in BOOLEAN
    BY Zenon DEF Init
  <2>3. fifo \in Seq(Frames) /\ outbox \in Seq(Frames) /\ Len(fifo) <= FifoCapacity
    BY DEF Init
  <2>4. /\ pc \in [Tasks -> TaskSteps]
        /\ api \in [Tasks -> Commands \cup {"none"}]
        /\ myReq \in [Tasks -> ReqIds \cup {ResetVal}]
        /\ response \in [Tasks -> ReqIds \cup {ResetVal}]
        /\ outcome \in [Tasks -> {"none", "success", "error"}]
    BY DEF Init, TaskSteps
  <2> QED BY <2>1, <2>2, <2>3, <2>4, FrameTypes DEF Init, TypeOK
<1>2. LockIsOwned /\ IdIsIssued /\ IdIsUnsent
  BY DEF Init, LockIsOwned, LockedSteps, TaskSteps, IdIsIssued, IdIsUnsent
<1>3. ~Halted
  <2>1. \A t \in Tasks : pc[t] # "halted"
    BY DEF Init
  <2>2. ~rxHalted
    BY Zenon DEF Init
  <2> QED BY <2>1, <2>2 DEF Halted
<1>4. Clean
  BY <1>3 DEF Init, Clean
<1>5. RecordIsOwners
  BY DEF Init, RecordIsOwners, LockedSteps, TaskSteps
<1> QED BY <1>1, <1>2, <1>4, <1>5 DEF IInv

(* Every step of every actor preserves the inductive invariant. *)
LEMMA InductiveStep == IInv /\ [Next]_vars => IInv'
  BY TypeStep, LockStep, IssuedStep, UnsentStep, CleanStep, RecordStep DEF IInv

(* The inductive invariant holds in every reachable state: the lock, the   *)
(* ids in circulation and the shared record agree.                         *)
THEOREM Invariance == Spec => []IInv
  BY Inductive, InductiveStep, PTL DEF Spec

(* Every variable of request(), poll() and the link keeps its type; the    *)
(* receive queue never holds more than its capacity.                       *)
THEOREM TypeCorrect == Spec => []TypeOK
<1>1. IInv => TypeOK
  BY DEF IInv
<1> QED BY <1>1, Invariance, PTL

(* The pending request is that of the call past IpcLock, with its id and   *)
(* its buffer; once an answer has arrived between a timeout and the        *)
(* withdrawal it may outlive its call, with no call in progress then.      *)
THEOREM PendingRequestIsLive == Spec => []PendingIsLive
<1>1. IInv => PendingIsLive
  <2> SUFFICES ASSUME IInv, pendingReq # ResetVal,
                      ~(stranded /\ (ipcLock = NoTask \/ Halted))
               PROVE  \E t \in Tasks :
                         /\ ipcLock = t /\ pc[t] \in LockedSteps \ {"halted"}
                         /\ responseOwner = t /\ myReq[t] = pendingReq
    BY DEF PendingIsLive
  <2>1. ~Halted
    BY DEF IInv, Clean
  <2>2. ipcLock \in Tasks
    BY DEF IInv, TypeOK, Clean
  <2>3. pc[ipcLock] \in LockedSteps \ {"halted"}
    BY <2>1, <2>2 DEF IInv, LockIsOwned, Halted
  <2>4. responseOwner = ipcLock /\ myReq[ipcLock] = pendingReq
    BY <2>2, <2>3 DEF IInv, RecordIsOwners
  <2> QED BY <2>2, <2>3, <2>4
<1> QED BY <1>1, Invariance, PTL

(* The assertions of request() and processResponse() can only fail once an *)
(* answer has arrived between a timeout and the withdrawal of its request. *)
THEOREM HaltsOnlyStranded == Spec => []OnlyStrandedHalts
<1>1. IInv => OnlyStrandedHalts
  BY DEF IInv, Clean, OnlyStrandedHalts
<1> QED BY <1>1, Invariance, PTL

(* A call that succeeds has the response to its own command, or an empty   *)
(* one if a token has been stranded; never the response to another.        *)
THEOREM DeliversExactly == Spec => ExactDelivery
<1>1. IInv /\ [Next]_vars =>
        [\A t \in Tasks :
            TakeResponse(t) =>
                \/ response[t] = myReq[t]
                \/ stranded /\ response[t] = ResetVal]_vars
  <2> SUFFICES ASSUME IInv, NEW t \in Tasks, TakeResponse(t)
               PROVE  \/ response[t] = myReq[t]
                      \/ stranded /\ response[t] = ResetVal
    OBVIOUS
  <2>1. ipcLock = t /\ responseSem = 1 /\ pc[t] \in LockedSteps \ {"halted"}
    BY DEF TakeResponse, IInv, LockIsOwned, LockedSteps, TaskSteps
  <2>2. response[t] \in {ResetVal, myReq[t]}
    BY <2>1 DEF IInv, RecordIsOwners
  <2>3. ~stranded => Answered(t)
    BY <2>1 DEF IInv, Clean, Unanswered, Answered
  <2> QED BY <2>2, <2>3 DEF Answered
<1> QED BY <1>1, Invariance, PTL DEF Spec, ExactDelivery

-----------------------------------------------------------------------------
(* request() implements EmwRpc.                                            *)

(* At the start no task is calling. *)
LEMMA RefinementInit == Init => Rpc!Init
  BY DEF Init, Rpc!Init, CallOf

(* How a step changes what EmwRpc sees of the tasks. *)
LEMMA CallChange ==
    ASSUME NEW t \in Tasks,
           \A u \in Tasks \ {t} : CallOf(u)' = CallOf(u)
    PROVE  [u \in Tasks |-> CallOf(u)]' =
             [[u \in Tasks |-> CallOf(u)] EXCEPT ![t] = CallOf(t)']
  OBVIOUS

(* Every step of request(), of the receive thread, of the link and of the  *)
(* module is a step of EmwRpc or leaves what it sees unchanged.            *)
LEMMA RefinementStep == IInv /\ IInv' /\ [Next]_vars => [Rpc!Next]_(Rpc!vars)
<1> SUFFICES ASSUME IInv, IInv', [Next]_vars PROVE [Rpc!Next]_(Rpc!vars)
  OBVIOUS
<1> DEFINE calls == [u \in Tasks |-> CallOf(u)]
<1>a. TypeOK /\ TypeOK' /\ LockIsOwned /\ IdIsIssued
  BY DEF IInv
<1>b. calls \in [Tasks -> Rpc!Phase] /\ calls' \in [Tasks -> Rpc!Phase]
  BY DEF CallOf, Rpc!Phase
<1>1. CASE stranded
  <2>1. stranded' = stranded
    BY <1>1, <1>a, Zenon DEF Next, Request, Call, RefuseOversize, Enter, SendDummy,
       SendCommand, TakeResponse, TimeOut, GiveUp, Poll, Transmit, Receive, Input,
       WiFiModule, ModuleAnswers, ModuleForgets, ModuleNotifies, Spin, vars, TypeOK
  <2>2. outcome' \in [Tasks -> Rpc!Result]
    BY <1>a DEF TypeOK, Rpc!Result
  <2> QED BY <1>1, <1>b, <2>1, <2>2 DEF Rpc!Next, Rpc!Anything
<1>2. CASE ~stranded
  <2>a. /\ ~Halted
        /\ ipcLock = NoTask => pendingReq = ResetVal /\ responseSem = 0
        /\ \A u \in Tasks : ipcLock = u =>
              responseOwner = u /\ (Unanswered(u) \/ Answered(u))
    BY <1>2 DEF IInv, Clean
  <2>b. \A u \in Tasks : pc[u] \in LockedSteps => myReq[u] # ResetVal
    BY <1>a, ResetIsNoId DEF IdIsIssued
  <2> USE <1>a DEF Goto, Runs, TypeOK, LockIsOwned, TaskSteps, LockedSteps
  <2>1. ASSUME NEW t \in Tasks, Call(t) PROVE Rpc!Begin(t)
    BY <2>1 DEF Call, CallOf, Rpc!Begin, pendingVars
  <2>2. ASSUME NEW t \in Tasks, RefuseOversize(t) PROVE Rpc!Refuse(t)
    BY <2>2 DEF RefuseOversize, CallOf, Rpc!Refuse, pendingVars
  <2>3. ASSUME NEW t \in Tasks, NEW a \in Commands, Enter(t, a) PROVE Rpc!Ask(t)
    <3>1. RecordPending(t)
      BY <2>3, <2>a DEF Enter, AssertNoPending
    <3>2. \A u \in Tasks : CallOf(u) = "idle"
      BY <2>3 DEF Enter, CallOf
    <3>3. \A u \in Tasks \ {t} : CallOf(u)' = "idle"
      BY <2>3, <3>1 DEF Enter, RecordPending, CallOf
    <3>4. GetNewReqId # ResetVal
      BY NewIdIsValid, ResetIsNoId
    <3>5. CallOf(t)' = "asking"
      BY <2>3, <3>1, <3>4 DEF Enter, RecordPending, CallOf
    <3>6. calls' = [calls EXCEPT ![t] = "asking"]
      BY <3>2, <3>3, <3>5, CallChange
    <3>7. \A u \in Tasks : calls[u] = "idle"
      BY <3>2
    <3> QED BY ONLY <2>3, <3>6, <3>7 DEF Enter, Rpc!Ask
  <2>4. ASSUME NEW t \in Tasks, SendDummy(t) \/ SendCommand(t) \/ TimeOut(t)
        PROVE UNCHANGED Rpc!vars
    <3>1. \A u \in Tasks : CallOf(u)' = CallOf(u)
      BY <2>4 DEF SendDummy, SendCommand, TimeOut, pendingVars, CallOf
    <3> QED BY <2>4, <3>1 DEF SendDummy, SendCommand, TimeOut, Rpc!vars
  <2>5. ASSUME NEW t \in Tasks, TakeResponse(t) PROVE Rpc!Succeed(t)
    <3>1. CallOf(t) = "answered"
      <4>1. ipcLock = t /\ responseSem = 1 /\ pc[t] = "wait"
        BY <2>5 DEF TakeResponse
      <4>2. response[t] = myReq[t]
        BY <2>a, <4>1 DEF Unanswered, Answered
      <4> QED BY <4>1, <4>2 DEF CallOf
    <3>2. CallOf(t)' = "idle" /\ \A u \in Tasks \ {t} : CallOf(u)' = CallOf(u)
      BY <2>5 DEF TakeResponse, Return, CallOf
    <3>3. calls[t] = "answered" /\ calls' = [calls EXCEPT ![t] = "idle"]
      BY <3>1, <3>2, CallChange
    <3> QED BY ONLY <2>5, <3>3 DEF TakeResponse, Return, Rpc!Succeed
  <2>6. ASSUME NEW t \in Tasks, GiveUp(t) PROVE Rpc!Fail(t)
    <3>1. CallOf(t)' = "idle" /\ \A u \in Tasks \ {t} : CallOf(u)' = CallOf(u)
      BY <2>6 DEF GiveUp, Return, CallOf
    <3>2. CallOf(t) # "idle"
      BY <2>6 DEF GiveUp, CallOf
    <3>3. responseSem = 1 <=> CallOf(t) = "answered"
      BY <2>6, <2>a, <2>b DEF GiveUp, Unanswered, Answered, CallOf
    <3>4. stranded' = (calls[t] = "answered")
      BY ONLY <1>2, <2>6, <3>3, Zenon DEF GiveUp
    <3>5. calls[t] # "idle" /\ calls' = [calls EXCEPT ![t] = "idle"]
      BY <3>1, <3>2, CallChange
    <3> QED BY ONLY <2>6, <3>4, <3>5 DEF GiveUp, Return, Rpc!Fail
  <2>7. ASSUME Poll PROVE [Rpc!Next]_(Rpc!vars)
    <3>1. CASE UNCHANGED response
      BY <2>7, <3>1 DEF Poll, taskVars, Rpc!vars, CallOf
    <3>2. CASE ProcessResponse /\ MatchResponse(Head(fifo).reqId)
      <4>1. pendingReq \in ReqIds /\ pendingReq = Head(fifo).reqId
        BY <2>7, <3>2, CirculatingPoll, FrameIds DEF ProcessResponse, MatchResponse
      <4>2. PICK u \in Tasks : ipcLock = u
        BY <2>a, <4>1, ResetIsNoId
      <4>3. responseOwner = u /\ Unanswered(u)
        BY <2>a, <4>1, <4>2, ResetIsNoId DEF Answered
      <4>4. response' = [response EXCEPT ![u] = myReq[u]]
        BY <3>2, <4>1, <4>3 DEF MatchResponse, Unanswered
      <4>5. CallOf(u) = "asking" /\ CallOf(u)' = "answered"
        BY <2>7, <2>b, <4>2, <4>3, <4>4 DEF Poll, taskVars, Unanswered, CallOf
      <4>6. \A v \in Tasks \ {u} : CallOf(v)' = CallOf(v)
        BY <2>7, <4>4 DEF Poll, taskVars, CallOf
      <4>7. calls[u] = "asking" /\ calls' = [calls EXCEPT ![u] = "answered"]
        BY <4>5, <4>6, CallChange
      <4>8. Rpc!Answer(u)
        BY ONLY <2>7, <4>7 DEF Poll, taskVars, Rpc!Answer
      <4> QED BY <4>8 DEF Rpc!Next
    <3> QED BY <2>7, <3>1, <3>2 DEF Poll, ProcessResponse, DropResponse, IgnoreFrame
  <2>8. CASE UNCHANGED <<pc, myReq, response, outcome, stranded>>
    BY <2>8 DEF Rpc!vars, CallOf
  <2>9. Transmit \/ Receive \/ Input \/ WiFiModule \/ UNCHANGED vars
            => UNCHANGED <<pc, myReq, response, outcome, stranded>>
    BY DEF Transmit, Receive, Input, WiFiModule, ModuleAnswers, ModuleForgets,
           ModuleNotifies, vars, taskVars, pendingVars
  <2> QED
    BY <2>1, <2>2, <2>3, <2>4, <2>5, <2>6, <2>7, <2>8, <2>9
    DEF Next, Request, Spin, Rpc!Next
<1> QED BY <1>a, <1>1, <1>2 DEF TypeOK

(* request() with its receive thread, its link and an unreliable Wi-Fi     *)
(* module implements the remote procedure call of EmwRpc.                  *)
THEOREM ImplementsRpc == Spec => RpcSpec
  BY RefinementInit, RefinementStep, Invariance, PTL DEF Spec, RpcSpec, Rpc!Spec
=============================================================================
