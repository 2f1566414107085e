------------------------------ MODULE EmwNoOs ------------------------------
(***************************************************************************)
(* The driver without an operating system: request() runs in the main      *)
(* loop, and while it waits for its answer it polls the module itself.     *)
(* TakeSemaphore() of the answer calls the hook Poll, whose                *)
(* GetMessageQueue() calls the hook PollData, whose TakeSemaphore() of     *)
(* TxRxSem waits for a frame to send or a packet to read.  Each wait is    *)
(* given what is left of the time of the one around it.                    *)
(*                                                                         *)
(* The NOTIFY interrupt increments the count of TxRxSem, which the main    *)
(* loop loads, changes and stores with interrupts enabled: an increment    *)
(* in between is lost.  HAL_GetTick() may advance between any two reads.   *)
(***************************************************************************)
EXTENDS Integers, Sequences, FiniteSets

CONSTANTS
    Timeout,       \* timeoutInMs of request()
    FifoCapacity,  \* EMW_HCI_MAX_RX_BUFFER_COUNT
    MaxRequests,   \* a bound: requests made
    MaxPackets     \* a bound: packets of the module

ASSUME TimeoutAssumption == Timeout \in Nat
ASSUME BoundsAssumption == FifoCapacity \in Nat \ {0} /\ MaxRequests \in Nat /\ MaxPackets \in Nat

VARIABLES
    pc,       \* where the main loop is
    current,  \* the last request made
    reqId,    \* PendingRequest.reqId
    answers,  \* count of PendingRequest.sem
    response, \* the packet whose payload is in the buffer of the caller
    outcome,  \* what the last request() has returned
    slot,     \* TxDataAddress: the request whose command it points to
    kicks,    \* count of TxRxSem
    loaded,   \* that count as the main loop has loaded it
    left,     \* what each wait has left of its time
    given,    \* the time given to the next wait
    fifo,     \* NetworkPacketFifo
    packet,   \* the packet being read from the module or processed
    offered,  \* the packet of the module; NOTIFY is high when there is one
    toAnswer, \* commands the module has received and not answered
    packets,  \* number of packets the module has had
    failed,   \* a transaction has failed and frame or packet stays since
    raced,    \* the kick of the packet was given between a load and its store
    withheld  \* the module has had a transaction and kept its packet

requestVars == <<current, reqId, answers, response, outcome>>
timeVars == <<left, given>>
moduleVars == <<offered, toAnswer, packets>>
failVars == <<failed, raced, withheld>>
vars == <<pc, requestVars, slot, kicks, loaded, timeVars, fifo, packet, moduleVars, failVars>>

None == 0  \* no request, no packet: REQ_ID_RESET_VAL
Event == -1
Requests == 1 .. MaxRequests
Packets == Requests \cup {Event}

(* The time left: elapsed > timeout is left = Expired.  A difference that  *)
(* wraps is close to 2^32, and no elapsed time is ever above it.           *)
Expired == -1
Never == Timeout + 1
Times == Expired .. Never

(* The waits that run at each place. *)
Waits == [kick |-> {}, idle |-> {},
          take |-> {"take"}, receive |-> {"take"}, process |-> {"take"},
          get |-> {"take", "get"}, hook |-> {"take", "get"}, start |-> {"take", "get"},
          decide |-> {"take", "get"}, header |-> {"take", "get"}, data |-> {"take", "get"},
          put |-> {"take", "get"}, poll |-> {"take", "get", "poll"}, store |-> {"take", "get", "poll"}]

(* The types; between two requests nothing is pending, which request()     *)
(* asserts, and no answer is left for the next one; and a packet finds the *)
(* queue empty, as PutMessageQueue() would otherwise wait for ever.        *)
TypeOK ==
    /\ pc \in DOMAIN Waits
    /\ current \in 0 .. MaxRequests /\ reqId \in {None, current} /\ answers \in {0, 1}
    /\ pc = "idle" => reqId = None /\ answers = 0
    /\ response \in Requests \cup {None} /\ outcome \in {"none", "success", "error"}
    /\ slot \in {None, current}
    /\ kicks \in 0 .. MaxRequests + MaxPackets /\ loaded \in 0 .. MaxRequests + MaxPackets
    /\ left \in [{"take", "get", "poll"} -> Times] /\ given \in 0 .. Never
    /\ left["take"] # Never /\ left["get"] # Never
    /\ fifo \in Seq(Packets) /\ Len(fifo) <= FifoCapacity
    /\ pc = "put" => fifo = <<>>
    /\ packet \in Packets \cup {None} /\ offered \in Packets \cup {None}
    /\ toAnswer \subseteq Requests
    /\ packets \in 0 .. MaxPackets
    /\ {failed, raced, withheld} \subseteq BOOLEAN

Init ==
    /\ pc = "idle" /\ current = 0 /\ reqId = None /\ answers = 0
    /\ response = None /\ outcome = "none"
    /\ slot = None /\ kicks = 0 /\ loaded = 0
    /\ left = [w \in {"take", "get", "poll"} |-> Expired] /\ given = 0
    /\ fifo = <<>> /\ packet = None
    /\ offered = None /\ toAnswer = {} /\ packets = 0
    /\ failed = FALSE /\ raced = FALSE /\ withheld = FALSE

-----------------------------------------------------------------------------
(* request(), and TakeSemaphore() of its answer.                           *)

(* Up to the load of ReleaseSemaphore() in sendImp().  Power-save mode, in  *)
(* which a dummy frame is sent and a delay passed first, is left out.      *)
Request ==
    /\ pc = "idle" /\ current < MaxRequests
    /\ current' = current + 1 /\ reqId' = current + 1 /\ response' = None
    /\ slot' = current + 1 /\ failed' = (failed /\ offered # None)
    /\ loaded' = kicks
    /\ pc' = "kick"
    /\ UNCHANGED <<answers, outcome, kicks, timeVars, fifo, packet, moduleVars, raced, withheld>>

(* The store; the wait for the answer begins. *)
Kick ==
    /\ pc = "kick"
    /\ kicks' = loaded + 1
    /\ left' = [left EXCEPT !["take"] = Timeout]
    /\ pc' = "take"
    /\ UNCHANGED <<requestVars, slot, loaded, given, fifo, packet, moduleVars, failVars>>

TakeAnswer ==
    /\ pc = "take" /\ answers > 0
    /\ answers' = answers - 1
    /\ outcome' = "success"
    /\ pc' = "idle"
    /\ UNCHANGED <<current, reqId, response, slot, kicks, loaded, timeVars, fifo, packet, moduleVars, failVars>>

(* A mistake: the request that has timed out stays pending. *)
TakeGivesUpPending ==
    /\ pc = "take" /\ answers = 0 /\ left["take"] = Expired
    /\ outcome' = "error"
    /\ pc' = "idle"
    /\ UNCHANGED <<current, reqId, answers, response, slot, kicks, loaded, timeVars, fifo, packet, moduleVars, failVars>>

TakeTimesOut ==
    /\ pc = "take" /\ answers = 0 /\ left["take"] = Expired
    /\ reqId' = None
    /\ outcome' = "error"
    /\ pc' = "idle"
    /\ UNCHANGED <<current, answers, response, slot, kicks, loaded, timeVars, fifo, packet, moduleVars, failVars>>

(* A mistake: the start of the wait is read again at each turn. *)
TakePollsAnew ==
    /\ pc = "take" /\ answers = 0 /\ left["take"] # Expired
    /\ given' = left["take"] /\ left' = [left EXCEPT !["take"] = Timeout]
    /\ pc' = "receive"
    /\ UNCHANGED <<requestVars, slot, kicks, loaded, fifo, packet, moduleVars, failVars>>

(* The elapsed time is read once, for the test and for the hook. *)
TakePolls ==
    /\ pc = "take" /\ answers = 0 /\ left["take"] # Expired
    /\ given' = left["take"]
    /\ pc' = "receive"
    /\ UNCHANGED <<requestVars, slot, kicks, loaded, left, fifo, packet, moduleVars, failVars>>

-----------------------------------------------------------------------------
(* poll(): Receive() and GetMessageQueue(), then what came.                *)

Receive ==
    /\ pc = "receive"
    /\ left' = [left EXCEPT !["get"] = given]
    /\ pc' = "get"
    /\ UNCHANGED <<requestVars, slot, kicks, loaded, given, fifo, packet, moduleVars, failVars>>

GetPacket ==
    /\ pc = "get" /\ fifo # <<>>
    /\ packet' = Head(fifo) /\ fifo' = Tail(fifo)
    /\ pc' = "process"
    /\ UNCHANGED <<requestVars, slot, kicks, loaded, timeVars, moduleVars, failVars>>

GetTimesOut ==
    /\ pc = "get" /\ fifo = <<>> /\ left["get"] = Expired
    /\ pc' = "take"
    /\ UNCHANGED <<requestVars, slot, kicks, loaded, timeVars, fifo, packet, moduleVars, failVars>>

GetPolls ==
    /\ pc = "get" /\ fifo = <<>> /\ left["get"] # Expired
    /\ pc' = "hook"
    /\ UNCHANGED <<requestVars, slot, kicks, loaded, timeVars, fifo, packet, moduleVars, failVars>>

(* The tick is read again for the hook: if the time has just run out, the  *)
(* difference wraps.                                                       *)
GetHook ==
    /\ pc = "hook"
    /\ given' = IF left["get"] = Expired THEN Never ELSE left["get"]
    /\ pc' = "start"
    /\ UNCHANGED <<requestVars, slot, kicks, loaded, left, fifo, packet, moduleVars, failVars>>

(* A mistake: any answer is taken for that of the pending request. *)
ProcessAny ==
    /\ pc = "process"
    /\ IF packet # Event
       THEN reqId' = None /\ answers' = 1 /\ response' = packet
       ELSE UNCHANGED <<reqId, answers, response>>
    /\ packet' = None
    /\ pc' = "take"
    /\ UNCHANGED <<current, outcome, slot, kicks, loaded, timeVars, fifo, moduleVars, failVars>>

(* processResponse() for the answer of the pending request; late answers   *)
(* and events change nothing here.                                         *)
Process ==
    /\ pc = "process"
    /\ IF packet = reqId
       THEN reqId' = None /\ answers' = answers + 1 /\ response' = packet
       ELSE UNCHANGED <<reqId, answers, response>>
    /\ packet' = None
    /\ pc' = "take"
    /\ UNCHANGED <<current, outcome, slot, kicks, loaded, timeVars, fifo, moduleVars, failVars>>

-----------------------------------------------------------------------------
(* processPollingDataImp(): TakeSemaphore() of TxRxSem and a transaction.  *)

PollStarts ==
    /\ pc = "start"
    /\ left' = [left EXCEPT !["poll"] = given]
    /\ pc' = "poll"
    /\ UNCHANGED <<requestVars, slot, kicks, loaded, given, fifo, packet, moduleVars, failVars>>

PollTimesOut ==
    /\ pc = "poll" /\ kicks = 0 /\ left["poll"] = Expired
    /\ pc' = "get"
    /\ UNCHANGED <<requestVars, slot, kicks, loaded, timeVars, fifo, packet, moduleVars, failVars>>

(* The load ... *)
PollSeesKick ==
    /\ pc = "poll" /\ kicks > 0
    /\ loaded' = kicks
    /\ pc' = "store"
    /\ UNCHANGED <<requestVars, slot, kicks, timeVars, fifo, packet, moduleVars, failVars>>

(* ... and the store of the decrement. *)
PollTakesKick ==
    /\ pc = "store"
    /\ kicks' = loaded - 1
    /\ pc' = "decide"
    /\ UNCHANGED <<requestVars, slot, loaded, timeVars, fifo, packet, moduleVars, failVars>>

(* A mistake: without a frame to send NOTIFY is not read. *)
DecideByFrame ==
    /\ pc = "decide"
    /\ pc' = IF slot # None THEN "header" ELSE "get"
    /\ UNCHANGED <<requestVars, slot, kicks, loaded, timeVars, fifo, packet, moduleVars, failVars>>

Decide ==
    /\ pc = "decide"
    /\ pc' = IF slot # None \/ offered # None THEN "header" ELSE "get"
    /\ UNCHANGED <<requestVars, slot, kicks, loaded, timeVars, fifo, packet, moduleVars, failVars>>

(* FLOW rises and the headers are exchanged: each side learns what the     *)
(* other sends.  The module may keep its packet for the next transaction.  *)
Header ==
    /\ pc = "header"
    /\ packet' \in {None, offered}
    /\ slot # None \/ packet' # None
    /\ withheld' = (packet' # offered)
    /\ pc' = "data"
    /\ UNCHANGED <<requestVars, slot, kicks, loaded, timeVars, fifo, moduleVars, failed, raced>>

(* FLOW does not rise, before the headers or before the data, or a header  *)
(* is not valid: frame and packet stay where they are.  When the data      *)
(* exchange itself fails, the slot is emptied all the same.                *)
TransactionFails ==
    /\ pc \in {"header", "data"}
    /\ \/ slot' = slot
       \/ pc = "data" /\ slot' = None
    /\ failed' = (slot' # None \/ offered # None)
    /\ packet' = None
    /\ pc' = "get"
    /\ UNCHANGED <<requestVars, kicks, loaded, timeVars, fifo, moduleVars, raced, withheld>>

(* The data is exchanged and the slot emptied.  The module lowers NOTIFY   *)
(* when its packet has been read.                                          *)
Data ==
    /\ pc = "data"
    /\ slot' = None
    /\ toAnswer' = IF slot = None THEN toAnswer ELSE toAnswer \cup {slot}
    /\ IF packet # None
       THEN offered' = None /\ pc' = "put"
       ELSE offered' = offered /\ pc' = "get"
    /\ failed' = (failed /\ offered' # None)
    /\ UNCHANGED <<requestVars, kicks, loaded, timeVars, fifo, packet, packets, raced, withheld>>

(* Input() and PutMessageQueue(). *)
Put ==
    /\ pc = "put" /\ Len(fifo) < FifoCapacity
    /\ fifo' = Append(fifo, packet) /\ packet' = None
    /\ pc' = "get"
    /\ UNCHANGED <<requestVars, slot, kicks, loaded, timeVars, moduleVars, failVars>>

-----------------------------------------------------------------------------
(* The interrupts.                                                         *)

(* The module has an answer or an event: NOTIFY rises. *)
ModuleNotifies(p) ==
    /\ offered = None /\ packets < MaxPackets
    /\ offered' = p /\ packets' = packets + 1
    /\ toAnswer' = toAnswer \ {p}
    /\ kicks' = kicks + 1
    /\ raced' = (pc \in {"kick", "store"}) /\ withheld' = FALSE
    /\ UNCHANGED <<pc, requestVars, slot, loaded, timeVars, fifo, packet, failed>>

Counting == {w \in Waits[pc] : left[w] \notin {Expired, Never}}

Tick ==
    /\ Counting # {}
    /\ left' = [w \in DOMAIN left |-> IF w \in Counting THEN left[w] - 1 ELSE left[w]]
    /\ UNCHANGED <<pc, requestVars, slot, kicks, loaded, given, fifo, packet, moduleVars, failVars>>

-----------------------------------------------------------------------------

MainLoop ==
    \/ Kick \/ TakeAnswer \/ TakeTimesOut \/ TakePolls
    \/ Receive \/ GetPacket \/ GetTimesOut \/ GetPolls \/ GetHook \/ Process
    \/ PollStarts \/ PollTimesOut \/ PollSeesKick \/ PollTakesKick
    \/ Decide \/ Header \/ TransactionFails \/ Data \/ Put

Next ==
    \/ Request \/ MainLoop \/ Tick
    \/ \E p \in toAnswer \cup {Event} : ModuleNotifies(p)

Spec == Init /\ [][Next]_vars

(* The main loop runs and time passes.  Nothing is assumed of the module. *)
FairSpec == Spec /\ WF_vars(MainLoop) /\ WF_vars(Tick)

-----------------------------------------------------------------------------
(* Properties.                                                             *)

(* While the main loop waits with no kick, it has no frame to send and the *)
(* module no packet, except after a transaction that failed.  An increment *)
(* lost between load and store does no harm unless the module then keeps   *)
(* its packet: a transaction always follows, and it carries what both      *)
(* sides have.                                                             *)
KicksAreKept ==
    (pc = "poll" /\ kicks = 0) =>
        \/ slot = None /\ offered = None
        \/ failed
        \/ slot = None /\ raced /\ withheld

(* What request() does for its caller.  The main loop is the only task, and *)
(* as it tests the count of the answer before the time, an answer never    *)
(* lands between the time-out of a request and its withdrawal.             *)
CallNow ==
    IF pc = "idle" THEN "idle" ELSE IF response = current THEN "answered" ELSE "asking"

Rpc == INSTANCE EmwRpc WITH
    Tasks <- {"main"},
    call <- [t \in {"main"} |-> CallNow],
    result <- [t \in {"main"} |-> outcome],
    spoilt <- FALSE

(* A request that succeeds returns with its own answer, one that fails had *)
(* none; the exception that EmwRpc grants tasks and threads is not used.   *)
RpcSpec == Rpc!Spec

(* The wait that the wrapped difference has made endless. *)
WaitsForEver == pc = "poll" /\ left["poll"] = Never

(* Every request returns, whatever the module does, unless its time runs   *)
(* out between two reads of the tick in GetMessageQueue().                 *)
RequestEnds == (pc # "idle") ~> (pc = "idle" \/ WaitsForEver)
=============================================================================
