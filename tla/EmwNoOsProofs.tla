---------------------------- MODULE EmwNoOsProofs ----------------------------
(***************************************************************************)
(* Proofs about EmwNoOs, for any time-out, capacity of the queue and       *)
(* number of requests and packets.                                         *)
(***************************************************************************)
EXTENDS EmwNoOs, TLAPS

USE TimeoutAssumption, BoundsAssumption

-----------------------------------------------------------------------------
(* The inductive invariant.                                                *)

(* Steps of GetMessageQueue() and of the hook it calls. *)
HookSteps == {"hook", "start", "poll", "store", "decide", "header", "data", "put"}

(* The types, but for the bounds of the counts. *)
TypesOK ==
    /\ pc \in {"kick", "idle", "take", "receive", "process", "get"} \cup HookSteps
    /\ current \in 0 .. MaxRequests /\ reqId \in {None, current} /\ answers \in {0, 1}
    /\ response \in {None, current} /\ outcome \in {"none", "success", "error"}
    /\ slot \in {None, current}
    /\ packet \in Packets \cup {None} /\ offered \in Packets \cup {None}
    /\ toAnswer \subseteq Requests
    /\ packets \in 0 .. MaxPackets

FlagsOK == failed \in BOOLEAN /\ raced \in BOOLEAN /\ withheld \in BOOLEAN

(* A request is pending or answered, not both; between two it is neither.  *)
(* The caller has the answer exactly when it is counted.                   *)
PendingOK ==
    /\ answers = 1 => reqId = None
    /\ pc = "idle" => reqId = None /\ answers = 0
    /\ pc # "idle" => current > 0 /\ (response = current <=> answers = 1)
    /\ pc \in {"process", "put"} => packet # None

(* A transaction begins with an empty queue, so its packet finds room. *)
QueueOK ==
    /\ fifo \in Seq(Packets) /\ Len(fifo) <= FifoCapacity
    /\ pc \in HookSteps => fifo = <<>>

(* Each wait is given what is left of the one around it.  Only the last    *)
(* can be given the wrapped difference.                                    *)
TimesOK ==
    /\ left \in [{"take", "get", "poll"} -> Times] /\ given \in 0 .. Never
    /\ left["take"] # Never /\ left["get"] # Never
    /\ pc = "receive" => given # Never

(* The count of TxRxSem once the main loop has stored what it is about to, *)
(* and a transaction that is under way or about to begin.                  *)
Effective == IF pc = "kick" THEN loaded + 1 ELSE IF pc = "store" THEN loaded - 1 ELSE kicks
UnderWay == IF pc \in {"store", "decide", "header", "data"} THEN 1 ELSE 0

CountsOK ==
    /\ kicks \in Nat /\ loaded \in Nat
    /\ kicks <= current + packets /\ Effective <= current + packets
    /\ loaded <= current + packets
    /\ pc = "store" => loaded > 0

(* What frame and packet have in kicks and transactions to come. *)
KickInv ==
    ~failed =>
        /\ slot # None => Effective + UnderWay >= 1
        /\ offered # None /\ ~raced /\ slot = None => Effective + UnderWay >= 1
        /\ offered # None /\ ~raced /\ slot # None => Effective + UnderWay >= 2
        /\ offered # None /\ raced /\ ~withheld => Effective + UnderWay >= 1

(* What the headers have settled. *)
HeaderOK ==
    /\ pc = "header" => slot # None \/ offered # None
    /\ pc = "data" =>
        /\ slot # None \/ packet # None
        /\ offered # None /\ raced /\ ~withheld => packet # None

IInv ==
    /\ TypesOK /\ FlagsOK /\ PendingOK /\ QueueOK /\ TimesOK /\ CountsOK
    /\ KickInv /\ HeaderOK

-----------------------------------------------------------------------------
(* The initial states.                                                     *)

LEMMA Initially == Init => IInv
<1> SUFFICES ASSUME Init PROVE IInv
  OBVIOUS
<1> USE DEF Init, HookSteps
<1>1. QueueOK
  <2>1. fifo = <<>>
    OBVIOUS
  <2>2. fifo \in Seq(Packets) /\ Len(fifo) = 0
    BY <2>1
  <2> QED BY <2>1, <2>2 DEF QueueOK
<1>2. TypesOK /\ PendingOK
  BY DEF TypesOK, PendingOK, Packets, Requests, None
<1>3. TimesOK
  BY DEF TimesOK, Times, Never, Expired
<1>4. CountsOK /\ KickInv /\ HeaderOK
  BY DEF CountsOK, KickInv, HeaderOK, Effective, None
<1>5. FlagsOK
  BY Zenon DEF FlagsOK
<1> QED BY <1>1, <1>2, <1>3, <1>4, <1>5 DEF IInv

-----------------------------------------------------------------------------
(* Requests, answers, packets and the queue.                               *)

LEMMA TypesSteps ==
    ASSUME TypesOK, PendingOK, QueueOK, [Next]_vars
    PROVE  TypesOK'
<1> USE DEF TypesOK, requestVars, timeVars, moduleVars, failVars, HookSteps,
           Packets, Requests, None, Event
<1>1. CASE Request
  BY <1>1 DEF Request
<1>2. CASE Kick
  BY <1>2 DEF Kick
<1>3. CASE TakeAnswer
  BY <1>3 DEF TakeAnswer
<1>4. CASE TakeTimesOut
  BY <1>4 DEF TakeTimesOut
<1>5. CASE TakePolls
  BY <1>5 DEF TakePolls
<1>6. CASE Receive
  BY <1>6 DEF Receive
<1>7. CASE GetPacket
  <2>1. Head(fifo) \in Packets
    BY <1>7 DEF GetPacket, QueueOK
  <2> QED BY <1>7, <2>1 DEF GetPacket
<1>8. CASE GetTimesOut
  BY <1>8 DEF GetTimesOut
<1>9. CASE GetPolls
  BY <1>9 DEF GetPolls
<1>10. CASE GetHook
  BY <1>10 DEF GetHook
<1>11. CASE Process
  BY <1>11 DEF Process, PendingOK
<1>12. CASE PollStarts
  BY <1>12 DEF PollStarts
<1>13. CASE PollTimesOut
  BY <1>13 DEF PollTimesOut
<1>14. CASE PollSeesKick
  BY <1>14 DEF PollSeesKick
<1>15. CASE PollTakesKick
  BY <1>15 DEF PollTakesKick
<1>16. CASE Decide
  BY <1>16 DEF Decide
<1>17. CASE Header
  BY <1>17 DEF Header
<1>18. CASE TransactionFails
  BY <1>18 DEF TransactionFails
<1>19. CASE Data
  BY <1>19 DEF Data
<1>20. CASE Put
  BY <1>20 DEF Put
<1>21. CASE Tick
  BY <1>21 DEF Tick
<1>22. CASE \E p \in toAnswer \cup {Event} : ModuleNotifies(p)
  BY <1>22 DEF ModuleNotifies
<1>23. CASE UNCHANGED vars
  BY <1>23 DEF vars
<1> QED
  BY <1>1, <1>2, <1>3, <1>4, <1>5, <1>6, <1>7, <1>8, <1>9, <1>10, <1>11, <1>12, <1>13,
     <1>14, <1>15, <1>16, <1>17, <1>18, <1>19, <1>20, <1>21, <1>22, <1>23 DEF Next,
     MainLoop

LEMMA FlagSteps ==
    ASSUME FlagsOK, [Next]_vars
    PROVE  FlagsOK'
<1> USE DEF FlagsOK, requestVars, timeVars, moduleVars, failVars, HookSteps
<1>1. CASE Request \/ Kick \/ TakeAnswer \/ TakeTimesOut \/ TakePolls
  BY <1>1, Zenon DEF Request, Kick, TakeAnswer, TakeTimesOut, TakePolls
<1>2. CASE Receive \/ GetPacket \/ GetTimesOut \/ GetPolls \/ GetHook \/ Process
  BY <1>2, Zenon DEF Receive, GetPacket, GetTimesOut, GetPolls, GetHook, Process
<1>3. CASE PollStarts \/ PollTimesOut \/ PollSeesKick \/ PollTakesKick \/ Decide
  BY <1>3, Zenon DEF PollStarts, PollTimesOut, PollSeesKick, PollTakesKick, Decide
<1>4. CASE Header \/ TransactionFails \/ Data \/ Put \/ Tick
  BY <1>4, Zenon DEF Header, TransactionFails, Data, Put, Tick
<1>5. CASE \E p \in toAnswer \cup {Event} : ModuleNotifies(p)
  <2>1. failed' = failed /\ raced' = (pc \in {"kick", "store"}) /\ withheld' = FALSE
    BY <1>5, Zenon DEF ModuleNotifies
  <2>2. (pc \in {"kick", "store"}) \in BOOLEAN
    OBVIOUS
  <2> QED BY <2>1, <2>2
<1>6. CASE UNCHANGED vars
  BY <1>6, Zenon DEF vars
<1> QED
  BY <1>1, <1>2, <1>3, <1>4, <1>5, <1>6 DEF Next, MainLoop

LEMMA PendingSteps ==
    ASSUME TypesOK, PendingOK, QueueOK, HeaderOK, [Next]_vars
    PROVE  PendingOK' /\ HeaderOK'
<1> USE DEF PendingOK, HeaderOK, TypesOK, requestVars, timeVars, moduleVars, failVars, HookSteps,
           None, Event, Packets, Requests
<1>1. CASE Request
  BY <1>1 DEF Request
<1>2. CASE Kick
  BY <1>2 DEF Kick
<1>3. CASE TakeAnswer
  BY <1>3 DEF TakeAnswer
<1>4. CASE TakeTimesOut
  BY <1>4 DEF TakeTimesOut
<1>5. CASE TakePolls
  BY <1>5 DEF TakePolls
<1>6. CASE Receive
  BY <1>6 DEF Receive
<1>7. CASE GetPacket
  <2>1. Head(fifo) \in Packets
    BY <1>7 DEF GetPacket, QueueOK
  <2> QED BY <1>7, <2>1 DEF GetPacket
<1>8. CASE GetTimesOut
  BY <1>8 DEF GetTimesOut
<1>9. CASE GetPolls
  BY <1>9 DEF GetPolls
<1>10. CASE GetHook
  BY <1>10 DEF GetHook
<1>11. CASE Process
  BY <1>11 DEF Process
<1>12. CASE PollStarts
  BY <1>12 DEF PollStarts
<1>13. CASE PollTimesOut
  BY <1>13 DEF PollTimesOut
<1>14. CASE PollSeesKick
  BY <1>14 DEF PollSeesKick
<1>15. CASE PollTakesKick
  BY <1>15 DEF PollTakesKick
<1>16. CASE Decide
  BY <1>16 DEF Decide
<1>17. CASE Header
  BY <1>17 DEF Header
<1>18. CASE TransactionFails
  BY <1>18 DEF TransactionFails
<1>19. CASE Data
  BY <1>19 DEF Data
<1>20. CASE Put
  BY <1>20 DEF Put
<1>21. CASE Tick
  BY <1>21 DEF Tick
<1>22. CASE \E p \in toAnswer \cup {Event} : ModuleNotifies(p)
  <2>1. /\ pc' = pc /\ slot' = slot /\ packet' = packet /\ UNCHANGED requestVars
        /\ raced' <=> pc \in {"kick", "store"}
    BY <1>22, Zenon DEF ModuleNotifies
  <2>2. pc = "data" => ~raced'
    BY <2>1
  <2>3. offered = None
    BY <1>22 DEF ModuleNotifies
  <2> QED BY <2>1, <2>2, <2>3
<1>23. CASE UNCHANGED vars
  BY <1>23 DEF vars
<1> QED
  BY <1>1, <1>2, <1>3, <1>4, <1>5, <1>6, <1>7, <1>8, <1>9, <1>10, <1>11, <1>12, <1>13,
     <1>14, <1>15, <1>16, <1>17, <1>18, <1>19, <1>20, <1>21, <1>22, <1>23 DEF Next,
     MainLoop

LEMMA QueueSteps ==
    ASSUME TypesOK, PendingOK, QueueOK, [Next]_vars
    PROVE  QueueOK'
<1> USE DEF QueueOK, requestVars, timeVars, moduleVars, failVars, HookSteps
<1>1. CASE Request \/ Kick \/ TakeAnswer \/ TakeTimesOut \/ TakePolls
  BY <1>1 DEF Request, Kick, TakeAnswer, TakeTimesOut, TakePolls
<1>2. CASE Receive
  BY <1>2 DEF Receive
<1>3. CASE GetPacket
  <2>1. fifo' = Tail(fifo) /\ fifo # <<>> /\ pc' = "process"
    BY <1>3 DEF GetPacket
  <2>2. fifo' \in Seq(Packets) /\ Len(fifo') <= Len(fifo)
    BY <2>1
  <2> QED BY <2>1, <2>2
<1>4. CASE GetTimesOut \/ GetPolls \/ GetHook \/ Process
  BY <1>4 DEF GetTimesOut, GetPolls, GetHook, Process
<1>5. CASE PollStarts \/ PollTimesOut \/ PollSeesKick \/ PollTakesKick \/ Decide
  BY <1>5 DEF PollStarts, PollTimesOut, PollSeesKick, PollTakesKick, Decide
<1>6. CASE Header \/ TransactionFails \/ Data
  BY <1>6 DEF Header, TransactionFails, Data
<1>7. CASE Put
  <2>1. packet \in Packets
    BY <1>7 DEF Put, PendingOK, TypesOK
  <2>2. fifo' = Append(fifo, packet) /\ Len(fifo) < FifoCapacity /\ pc' = "get"
    BY <1>7 DEF Put
  <2>3. fifo' \in Seq(Packets) /\ Len(fifo') = Len(fifo) + 1
    BY <2>1, <2>2
  <2> QED BY <2>2, <2>3
<1>8. CASE Tick
  BY <1>8 DEF Tick
<1>9. CASE \E p \in toAnswer \cup {Event} : ModuleNotifies(p)
  BY <1>9 DEF ModuleNotifies
<1>10. CASE UNCHANGED vars
  BY <1>10 DEF vars
<1> QED
  BY <1>1, <1>2, <1>3, <1>4, <1>5, <1>6, <1>7, <1>8, <1>9, <1>10 DEF Next, MainLoop

-----------------------------------------------------------------------------
(* The times.                                                              *)

LEMMA TimesSteps ==
    ASSUME TimesOK, [Next]_vars
    PROVE  TimesOK'
<1> USE DEF TimesOK, Times, Never, Expired, requestVars, timeVars, moduleVars, failVars, HookSteps
<1>1. CASE Request \/ TakeAnswer \/ TakeTimesOut
  BY <1>1 DEF Request, TakeAnswer, TakeTimesOut
<1>2. CASE Kick
  BY <1>2 DEF Kick
<1>3. CASE TakePolls
  BY <1>3 DEF TakePolls
<1>4. CASE Receive
  BY <1>4 DEF Receive
<1>5. CASE GetPacket \/ GetTimesOut \/ GetPolls \/ Process
  BY <1>5 DEF GetPacket, GetTimesOut, GetPolls, Process
<1>6. CASE GetHook
  BY <1>6 DEF GetHook
<1>7. CASE PollStarts
  BY <1>7 DEF PollStarts
<1>8. CASE PollTimesOut \/ PollSeesKick \/ PollTakesKick \/ Decide
  BY <1>8 DEF PollTimesOut, PollSeesKick, PollTakesKick, Decide
<1>9. CASE Header \/ TransactionFails \/ Data \/ Put
  BY <1>9 DEF Header, TransactionFails, Data, Put
<1>10. CASE Tick
  <2>1. left' = [w \in {"take", "get", "poll"} |-> IF w \in Counting THEN left[w] - 1 ELSE left[w]]
    BY <1>10 DEF Tick
  <2>2. \A w \in Counting : left[w] \notin {Expired, Never}
    BY DEF Counting
  <2>3. pc' = pc /\ given' = given
    BY <1>10 DEF Tick
  <2> QED BY <2>1, <2>2, <2>3
<1>11. CASE \E p \in toAnswer \cup {Event} : ModuleNotifies(p)
  BY <1>11 DEF ModuleNotifies
<1>12. CASE UNCHANGED vars
  BY <1>12 DEF vars
<1> QED
  BY <1>1, <1>2, <1>3, <1>4, <1>5, <1>6, <1>7, <1>8, <1>9, <1>10, <1>11, <1>12 DEF Next,
     MainLoop

-----------------------------------------------------------------------------
(* The kicks.                                                              *)

LEMMA CountSteps ==
    ASSUME TypesOK, CountsOK, [Next]_vars
    PROVE  CountsOK'
<1> USE DEF CountsOK, TypesOK, Effective, requestVars, timeVars, moduleVars, failVars, HookSteps
<1>1. CASE Request
  BY <1>1 DEF Request
<1>2. CASE Kick
  BY <1>2 DEF Kick
<1>3. CASE TakeAnswer
  BY <1>3 DEF TakeAnswer
<1>4. CASE TakeTimesOut
  BY <1>4 DEF TakeTimesOut
<1>5. CASE TakePolls
  BY <1>5 DEF TakePolls
<1>6. CASE Receive
  BY <1>6 DEF Receive
<1>7. CASE GetPacket
  BY <1>7 DEF GetPacket
<1>8. CASE GetTimesOut
  BY <1>8 DEF GetTimesOut
<1>9. CASE GetPolls
  BY <1>9 DEF GetPolls
<1>10. CASE GetHook
  BY <1>10 DEF GetHook
<1>11. CASE Process
  BY <1>11 DEF Process
<1>12. CASE PollStarts
  BY <1>12 DEF PollStarts
<1>13. CASE PollTimesOut
  BY <1>13 DEF PollTimesOut
<1>14. CASE PollSeesKick
  BY <1>14 DEF PollSeesKick
<1>15. CASE PollTakesKick
  BY <1>15 DEF PollTakesKick
<1>16. CASE Decide
  BY <1>16 DEF Decide
<1>17. CASE Header
  BY <1>17 DEF Header
<1>18. CASE TransactionFails
  BY <1>18 DEF TransactionFails
<1>19. CASE Data
  BY <1>19 DEF Data
<1>20. CASE Put
  BY <1>20 DEF Put
<1>21. CASE Tick
  BY <1>21 DEF Tick
<1>22. CASE \E p \in toAnswer \cup {Event} : ModuleNotifies(p)
  BY <1>22 DEF ModuleNotifies
<1>23. CASE UNCHANGED vars
  BY <1>23 DEF vars
<1> QED
  BY <1>1, <1>2, <1>3, <1>4, <1>5, <1>6, <1>7, <1>8, <1>9, <1>10, <1>11, <1>12, <1>13,
     <1>14, <1>15, <1>16, <1>17, <1>18, <1>19, <1>20, <1>21, <1>22, <1>23 DEF Next,
     MainLoop

LEMMA KickSteps ==
    ASSUME TypesOK, FlagsOK, CountsOK, HeaderOK, KickInv, [Next]_vars
    PROVE  KickInv'
<1> USE DEF KickInv, CountsOK, HeaderOK, TypesOK, None, Effective, UnderWay, requestVars, timeVars, moduleVars, failVars, HookSteps
<1>1. CASE Request
  <2>1. /\ pc = "idle" /\ pc' = "kick" /\ loaded' = kicks /\ slot' = current + 1
        /\ UNCHANGED <<kicks, offered>>
    BY <1>1 DEF Request
  <2>2. Effective = kicks /\ UnderWay = 0 /\ Effective' = kicks + 1 /\ UnderWay' = 0
    BY <2>1
  <2>3. (raced' <=> raced) /\ (~failed' => ~failed \/ offered = None)
    BY <1>1, Zenon DEF Request
  <2> QED BY <2>1, <2>2, <2>3
<1>2. CASE Kick
  BY <1>2 DEF Kick
<1>3. CASE TakeAnswer
  BY <1>3 DEF TakeAnswer
<1>4. CASE TakeTimesOut
  BY <1>4 DEF TakeTimesOut
<1>5. CASE TakePolls
  BY <1>5 DEF TakePolls
<1>6. CASE Receive
  BY <1>6 DEF Receive
<1>7. CASE GetPacket
  BY <1>7 DEF GetPacket
<1>8. CASE GetTimesOut
  BY <1>8 DEF GetTimesOut
<1>9. CASE GetPolls
  BY <1>9 DEF GetPolls
<1>10. CASE GetHook
  BY <1>10 DEF GetHook
<1>11. CASE Process
  BY <1>11 DEF Process
<1>12. CASE PollStarts
  BY <1>12 DEF PollStarts
<1>13. CASE PollTimesOut
  BY <1>13 DEF PollTimesOut
<1>14. CASE PollSeesKick
  BY <1>14 DEF PollSeesKick
<1>15. CASE PollTakesKick
  BY <1>15 DEF PollTakesKick
<1>16. CASE Decide
  BY <1>16 DEF Decide
<1>17. CASE Header
  BY <1>17 DEF Header
<1>18. CASE TransactionFails
  BY <1>18 DEF TransactionFails
<1>19. CASE Data
  <2>1. /\ pc = "data" /\ pc' \in {"put", "get"} /\ kicks' = kicks /\ slot' = None
        /\ offered' # None => packet = None /\ offered' = offered
    BY <1>19 DEF Data
  <2>2. Effective = kicks /\ UnderWay = 1 /\ Effective' = kicks /\ UnderWay' = 0
    BY <2>1
  <2>3. /\ (raced' <=> raced) /\ (withheld' <=> withheld)
        /\ ~failed' => ~failed \/ offered' = None
    BY <1>19, Zenon DEF Data
  <2>4. offered' # None => slot # None /\ ~(raced /\ ~withheld)
    BY <2>1
  <2> QED BY <2>1, <2>2, <2>3, <2>4
<1>20. CASE Put
  BY <1>20 DEF Put
<1>21. CASE Tick
  BY <1>21 DEF Tick
<1>22. CASE \E p \in toAnswer \cup {Event} : ModuleNotifies(p)
  <2>1. /\ pc' = pc /\ kicks' = kicks + 1 /\ UNCHANGED <<slot, loaded>>
    BY <1>22 DEF ModuleNotifies
  <2>2. PICK p \in toAnswer \cup {Event} : ModuleNotifies(p)
    BY <1>22, Zenon
  <2>3. failed' = failed
    BY <2>2, Zenon DEF ModuleNotifies
  <2>4. raced' <=> pc \in {"kick", "store"}
    BY <2>2, Zenon DEF ModuleNotifies
  <2>5. ~withheld' /\ offered' = p
    BY <2>2, Zenon DEF ModuleNotifies
  <2>6. /\ UnderWay' = UnderWay
        /\ pc \in {"kick", "store"} => Effective' = Effective /\ Effective + UnderWay >= 1
        /\ pc \notin {"kick", "store"} => Effective' = Effective + 1 /\ Effective >= 0
    BY <2>1
  <2>7. UnderWay \in {0, 1} /\ Effective \in Int
    OBVIOUS
  <2> HIDE DEF Effective, UnderWay, CountsOK, TypesOK, HeaderOK
  <2> QED BY <2>1, <2>3, <2>4, <2>5, <2>6, <2>7
<1>23. CASE UNCHANGED vars
  BY <1>23 DEF vars
<1> QED
  BY <1>1, <1>2, <1>3, <1>4, <1>5, <1>6, <1>7, <1>8, <1>9, <1>10, <1>11, <1>12, <1>13,
     <1>14, <1>15, <1>16, <1>17, <1>18, <1>19, <1>20, <1>21, <1>22, <1>23 DEF Next,
     MainLoop

-----------------------------------------------------------------------------
(* The theorems.                                                           *)

(* The main loop, its nested waits and the interrupts keep the invariant.  *)
THEOREM Invariance == Spec => []IInv
<1>1. IInv /\ [Next]_vars => IInv'
  BY TypesSteps, FlagSteps, PendingSteps, QueueSteps, TimesSteps, CountSteps, KickSteps DEF IInv
<1> QED BY <1>1, Initially, PTL DEF Spec

(* Between two requests nothing is pending and no answer is left over, and *)
(* a packet that is read from the module always finds room in the queue.   *)
THEOREM TypeCorrect == Spec => []TypeOK
<1>1. ASSUME IInv PROVE TypeOK
  <2>1. DOMAIN Waits = {"kick", "idle", "take", "receive", "process", "get"} \cup HookSteps
    BY DEF Waits, HookSteps
  <2>2. /\ kicks \in 0 .. MaxRequests + MaxPackets
        /\ loaded \in 0 .. MaxRequests + MaxPackets
    BY <1>1 DEF IInv, CountsOK, TypesOK
  <2>3. {failed, raced, withheld} \subseteq BOOLEAN
    BY <1>1 DEF IInv, FlagsOK
  <2>4. pc = "put" => fifo = <<>>
    BY <1>1 DEF IInv, QueueOK, HookSteps
  <2>5. fifo \in Seq(Packets) /\ Len(fifo) <= FifoCapacity
    BY <1>1 DEF IInv, QueueOK
  <2>6. response \in Requests \cup {None}
    BY <1>1, BoundsAssumption DEF IInv, TypesOK, Requests, None
  <2> QED BY <1>1, <2>1, <2>2, <2>3, <2>4, <2>5, <2>6 DEF IInv, TypesOK, PendingOK, TimesOK, TypeOK
<1> QED BY <1>1, Invariance, PTL

(* While the main loop sleeps on TxRxSem, no frame and no packet is left   *)
(* behind, although the count of the semaphore loses increments of the     *)
(* NOTIFY interrupt: the transaction that follows carries what they stood  *)
(* for, unless it fails or the module keeps its packet.                    *)
THEOREM KicksAreKeptAlways == Spec => []KicksAreKept
<1>1. ASSUME IInv PROVE KicksAreKept
  <2>1. SUFFICES ASSUME pc = "poll", kicks = 0, ~failed
                 PROVE  (slot = None /\ offered = None) \/ (slot = None /\ raced /\ withheld)
    BY DEF KicksAreKept
  <2>2. Effective = 0 /\ UnderWay = 0
    BY <2>1 DEF Effective, UnderWay
  <2>3. slot = None /\ (offered # None => raced /\ withheld)
    BY <1>1, <2>1, <2>2 DEF IInv, KickInv
  <2> QED BY <2>3
<1> QED BY <1>1, Invariance, PTL

-----------------------------------------------------------------------------
(* request() implements EmwRpc.                                            *)

(* The steps of request() that its caller can see. *)
LEMMA CallSteps ==
    ASSUME IInv, Request \/ TakeAnswer \/ TakeTimesOut
    PROVE  Rpc!Next
<1> DEFINE calls == [t \in {"main"} |-> CallNow]
           results == [t \in {"main"} |-> outcome]
<1> USE DEF IInv, TypesOK, PendingOK, None
<1>1. CASE Request
  <2>1. CallNow = "idle" /\ CallNow' = "asking" /\ outcome' = outcome
    BY <1>1 DEF Request, CallNow
  <2>2. calls' = [calls EXCEPT !["main"] = "asking"] /\ results' = results
    BY <2>1
  <2>3. \A u \in {"main"} : calls[u] = "idle"
    BY <2>1
  <2>4. Rpc!Ask("main")
    BY <2>2, <2>3 DEF Rpc!Ask
  <2> QED BY <2>4 DEF Rpc!Next
<1>2. CASE TakeAnswer
  <2>1. CallNow = "answered" /\ CallNow' = "idle" /\ outcome' = "success"
    BY <1>2 DEF TakeAnswer, CallNow
  <2>2. /\ calls["main"] = "answered" /\ calls' = [calls EXCEPT !["main"] = "idle"]
        /\ results' = [results EXCEPT !["main"] = "success"]
    BY <2>1
  <2>3. Rpc!Succeed("main")
    BY <2>2 DEF Rpc!Succeed
  <2> QED BY <2>3 DEF Rpc!Next
<1>3. CASE TakeTimesOut
  <2>1. CallNow = "asking" /\ CallNow' = "idle" /\ outcome' = "error"
    BY <1>3 DEF TakeTimesOut, CallNow
  <2>2. /\ calls["main"] = "asking" /\ calls' = [calls EXCEPT !["main"] = "idle"]
        /\ results' = [results EXCEPT !["main"] = "error"]
    BY <2>1
  <2>3. Rpc!Fail("main")
    BY <2>2 DEF Rpc!Fail
  <2> QED BY <2>3 DEF Rpc!Next
<1> QED BY <1>1, <1>2, <1>3

(* The packet of the pending request is its answer; others are nothing. *)
LEMMA ProcessAnswers ==
    ASSUME IInv, Process
    PROVE  Rpc!Next \/ UNCHANGED Rpc!vars
<1> DEFINE calls == [t \in {"main"} |-> CallNow]
           results == [t \in {"main"} |-> outcome]
<1> USE DEF IInv, TypesOK, PendingOK, None
<1>1. CASE packet = reqId
  <2>1. CallNow = "asking" /\ CallNow' = "answered" /\ outcome' = outcome
    BY <1>1 DEF Process, CallNow
  <2>2. /\ calls["main"] = "asking" /\ calls' = [calls EXCEPT !["main"] = "answered"]
        /\ results' = results
    BY <2>1
  <2>3. Rpc!Answer("main")
    BY <2>2 DEF Rpc!Answer
  <2> QED BY <2>3 DEF Rpc!Next
<1>2. CASE packet # reqId
  <2>1. CallNow' = CallNow /\ outcome' = outcome
    BY <1>2 DEF Process, CallNow
  <2> QED BY <2>1 DEF Rpc!vars
<1> QED BY <1>1, <1>2

(* All other steps: the waits, the hooks, the SPI transactions and the     *)
(* interrupts.                                                             *)
LEMMA UnseenSteps ==
    ASSUME [Next]_vars,
           ~(Request \/ TakeAnswer \/ TakeTimesOut \/ Process)
    PROVE  UNCHANGED Rpc!vars
<1>1. UNCHANGED requestVars /\ (pc' = "idle" <=> pc = "idle")
  <2> USE DEF requestVars, timeVars, moduleVars, failVars
  <2>1. CASE Kick \/ TakePolls \/ Receive \/ GetPacket \/ GetTimesOut \/ GetPolls \/ GetHook
    BY <2>1 DEF Kick, TakePolls, Receive, GetPacket, GetTimesOut, GetPolls, GetHook
  <2>2. CASE PollStarts \/ PollTimesOut \/ PollSeesKick \/ PollTakesKick \/ Decide
    BY <2>2 DEF PollStarts, PollTimesOut, PollSeesKick, PollTakesKick, Decide
  <2>3. CASE Header \/ TransactionFails \/ Data \/ Put \/ Tick
    BY <2>3 DEF Header, TransactionFails, Data, Put, Tick
  <2>4. CASE \E p \in toAnswer \cup {Event} : ModuleNotifies(p)
    BY <2>4 DEF ModuleNotifies
  <2>5. CASE UNCHANGED vars
    BY <2>5 DEF vars
  <2> QED BY <2>1, <2>2, <2>3, <2>4, <2>5 DEF Next, MainLoop
<1>2. CallNow' = CallNow /\ outcome' = outcome
  BY <1>1 DEF CallNow, requestVars
<1> QED BY <1>2 DEF Rpc!vars

(* Without an operating system request() keeps the promise that it makes   *)
(* to tasks, and without the exception: a request that succeeds returns    *)
(* with its own answer, and one that was answered never fails.             *)
THEOREM ImplementsRpc == Spec => RpcSpec
<1>1. Init => Rpc!Init
  BY DEF Init, Rpc!Init, CallNow
<1>2. IInv /\ [Next]_vars => [Rpc!Next]_(Rpc!vars)
  BY CallSteps, ProcessAnswers, UnseenSteps
<1> QED BY <1>1, <1>2, Invariance, PTL DEF Spec, RpcSpec, Rpc!Spec
==============================================================================
