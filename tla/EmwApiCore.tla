----------------------------- MODULE EmwApiCore -----------------------------
(***************************************************************************)
(* How the EMW3080B driver is opened, used and closed (EmwApiCore and the  *)
(* start and stop of EmwCoreIpc), FreeRTOS build.  Each network interface  *)
(* opens the driver with initialize() and closes it with unInitialize();   *)
(* the count of interfaces decides when the layers below and the receive   *)
(* thread are really created and deleted.                                  *)
(*                                                                         *)
(* A request is abstracted to its test of isUsable, its use of IpcLock and *)
(* its outcome; EmwCoreIpc.tla has the rest of it, and EmwIoSpi.tla has    *)
(* the start and stop of the I/O thread.                                   *)
(***************************************************************************)
EXTENDS Naturals, FiniteSets

CONSTANTS
    Users,   \* tasks that open and close the driver
    NoUser

ASSUME UsersAssumption == NoUser \notin Users /\ IsFiniteSet(Users)

VARIABLES
    pc,          \* where each user is
    then,        \* where it goes on after a request or unInitialize()
    status,      \* status of its initialize()
    dropped,     \* history: its initialize() has called unInitialize()
    deviceLock,  \* owner of DeviceAvailableLock
    interfaces,  \* runtime.interfaces
    isUsable,    \* of EmwCoreIpc
    ipcAlive,    \* IpcLock and PendingRequest.sem exist
    ipcLock,     \* owner of IpcLock
    hciAlive,    \* the receive queue and the I/O thread exist
    receiver,    \* the receive thread: "none", "boot", "polling", "looping"
    quitFlag,    \* ReceiveThreadQuitFlag
    usedDead,    \* history: a deleted lock or queue has been used, see LockDeadIpc
    mishap       \* history: see Drop and Opened

userVars == <<pc, then, status, dropped>>
ipcVars == <<isUsable, ipcAlive, ipcLock, hciAlive>>
receiverVars == <<receiver, quitFlag>>
vars == <<userVars, deviceLock, interfaces, ipcVars, receiverVars, usedDead, mishap>>

(* Steps: of initialize(), of request(), of unInitialize(), and open, where *)
(* a user that has been told eEMW_STATUS_OK makes requests of its own.     *)
InitSteps == {"init", "booting", "version", "versionDone", "mac", "macDone", "opened",
              "halted"}
RequestSteps == {"check", "locking", "waiting", "failed", "succeeded"}
UnInitSteps == {"uninit", "quitting", "unusable", "ipcDelete", "hciDelete", "stopping",
                "stuck"}
Steps == {"closed", "open"} \cup InitSteps \cup RequestSteps \cup UnInitSteps

TypeOK ==
    /\ pc \in [Users -> Steps]
    /\ then \in [Users -> {"none", "open", "closed", "versionDone", "mac", "macDone",
                           "opened"}]
    /\ status \in [Users -> BOOLEAN]
    /\ dropped \in [Users -> BOOLEAN]
    /\ deviceLock \in Users \cup {NoUser} /\ ipcLock \in Users \cup {NoUser}
    /\ interfaces \in 0 .. Cardinality(Users)
    /\ isUsable \in BOOLEAN /\ ipcAlive \in BOOLEAN /\ hciAlive \in BOOLEAN
    /\ receiver \in {"none", "boot", "looping", "polling"}
    /\ quitFlag \in BOOLEAN /\ usedDead \in BOOLEAN /\ mishap \in BOOLEAN

Init ==
    /\ pc = [u \in Users |-> "closed"] /\ then = [u \in Users |-> "none"]
    /\ status = [u \in Users |-> FALSE] /\ dropped = [u \in Users |-> FALSE]
    /\ deviceLock = NoUser /\ ipcLock = NoUser
    /\ interfaces = 0
    /\ isUsable = FALSE /\ ipcAlive = FALSE /\ hciAlive = FALSE
    /\ receiver = "none" /\ quitFlag = FALSE
    /\ usedDead = FALSE /\ mishap = FALSE

Goto(u, step) == pc' = [pc EXCEPT ![u] = step]

CallThen(u, step, next) ==
    /\ pc' = [pc EXCEPT ![u] = step]
    /\ then' = [then EXCEPT ![u] = next]

-----------------------------------------------------------------------------
(* initialize().                                                           *)

Open(u) ==
    /\ pc[u] = "closed"
    /\ Goto(u, "init")
    /\ status' = [status EXCEPT ![u] = FALSE]
    /\ dropped' = [dropped EXCEPT ![u] = FALSE]
    /\ UNCHANGED <<then, deviceLock, interfaces, ipcVars, receiverVars, usedDead, mishap>>

(* The first interface creates the layers below and the receive thread,    *)
(* then sleeps one tick with DeviceAvailableLock held. *)
InitializeFirst(u) ==
    /\ pc[u] = "init" /\ deviceLock = NoUser
    /\ interfaces = 0
    /\ deviceLock' = u
    /\ isUsable' = TRUE /\ ipcAlive' = TRUE /\ ipcLock' = NoUser /\ hciAlive' = TRUE
    /\ receiver' = "boot"
    /\ Goto(u, "booting")
    /\ UNCHANGED <<then, status, dropped, interfaces, quitFlag, usedDead, mishap>>

(* The receive thread, of higher priority, has started meanwhile. *)
InitializeCounted(u) ==
    /\ pc[u] = "booting" /\ receiver # "boot"
    /\ interfaces' = 1
    /\ deviceLock' = NoUser
    /\ Goto(u, "version")
    /\ UNCHANGED <<then, status, dropped, ipcVars, receiverVars, usedDead, mishap>>

(* A mistake: the interface is not counted. *)
InitializeUncounted(u) ==
    /\ pc[u] = "init" /\ deviceLock = NoUser
    /\ interfaces > 0
    /\ status' = [status EXCEPT ![u] = TRUE]
    /\ Goto(u, "version")
    /\ UNCHANGED <<then, dropped, deviceLock, interfaces, ipcVars, receiverVars,
                   usedDead, mishap>>

(* Another interface is counted, and has its status already. *)
InitializeNext(u) ==
    /\ pc[u] = "init" /\ deviceLock = NoUser
    /\ interfaces > 0
    /\ interfaces' = interfaces + 1
    /\ status' = [status EXCEPT ![u] = TRUE]
    /\ Goto(u, "version")
    /\ UNCHANGED <<then, dropped, deviceLock, ipcVars, receiverVars, usedDead, mishap>>

(* Two requests follow, the version and the MAC address of the module. *)
Ask(u) ==
    /\ \/ pc[u] = "version" /\ CallThen(u, "check", "versionDone")
       \/ pc[u] = "mac" /\ CallThen(u, "check", "macDone")
    /\ UNCHANGED <<status, dropped, deviceLock, interfaces, ipcVars, receiverVars,
                   usedDead, mishap>>

(* A failed request undoes the initialization, and initialize() goes on:   *)
(* after the version with the MAC address, after the latter to its end.    *)
InitializeFails(u) ==
    /\ pc[u] = "failed"
    /\ \/ then[u] = "versionDone" /\ CallThen(u, "uninit", "mac")
       \/ then[u] = "macDone" /\ CallThen(u, "uninit", "opened")
    /\ UNCHANGED <<status, dropped, deviceLock, interfaces, ipcVars, receiverVars,
                   usedDead, mishap>>

VersionRead(u) ==
    /\ pc[u] = "succeeded" /\ then[u] = "versionDone"
    /\ Goto(u, "mac")
    /\ UNCHANGED <<then, status, dropped, deviceLock, interfaces, ipcVars,
                   receiverVars, usedDead, mishap>>

(* The firmware is out of date: AssertAlways() loops for ever, without any *)
(* lock but with the reference.                                            *)
VersionOutOfDate(u) ==
    /\ pc[u] = "succeeded" /\ then[u] = "versionDone"
    /\ Goto(u, "halted")
    /\ UNCHANGED <<then, status, dropped, deviceLock, interfaces, ipcVars,
                   receiverVars, usedDead, mishap>>

MacRead(u) ==
    /\ pc[u] = "succeeded" /\ then[u] = "macDone"
    /\ status' = [status EXCEPT ![u] = TRUE]
    /\ Goto(u, "opened")
    /\ UNCHANGED <<then, dropped, deviceLock, interfaces, ipcVars, receiverVars,
                   usedDead, mishap>>

(* initialize() returns; the caller believes its status.  It is a mishap   *)
(* to return eEMW_STATUS_OK after unInitialize() has been called.          *)
Opened(u) ==
    /\ pc[u] = "opened"
    /\ mishap' = (mishap \/ (status[u] /\ dropped[u]))
    /\ Goto(u, IF status[u] THEN "open" ELSE "closed")
    /\ UNCHANGED <<then, status, dropped, deviceLock, interfaces, ipcVars,
                   receiverVars, usedDead>>

-----------------------------------------------------------------------------
(* request(): isUsable is read, then IpcLock is waited for.                *)

Request(u) ==
    /\ pc[u] = "open"
    /\ CallThen(u, "check", "open")
    /\ UNCHANGED <<status, dropped, deviceLock, interfaces, ipcVars, receiverVars,
                   usedDead, mishap>>

Check(u) ==
    /\ pc[u] = "check"
    /\ Goto(u, IF isUsable THEN "locking" ELSE "failed")
    /\ UNCHANGED <<then, status, dropped, deviceLock, interfaces, ipcVars,
                   receiverVars, usedDead, mishap>>

LockIpc(u) ==
    /\ pc[u] = "locking"
    /\ ipcAlive /\ ipcLock = NoUser
    /\ ipcLock' = u
    /\ Goto(u, "waiting")
    /\ UNCHANGED <<then, status, dropped, deviceLock, interfaces, isUsable, ipcAlive,
                   hciAlive, receiverVars, usedDead, mishap>>

(* IpcLock has been deleted meanwhile, which is undefined: the lock is not *)
(* obtained and the request goes on, to its timeout at best.  An           *)
(* initialize() whose first request has failed gets here: it has given its *)
(* reference back and goes on with the MAC address.  usedDead remembers    *)
(* the users that still have theirs.                                       *)
LockDeadIpc(u) ==
    /\ pc[u] = "locking"
    /\ ~ipcAlive
    /\ usedDead' = (usedDead \/ ~dropped[u])
    /\ Goto(u, "failed")
    /\ UNCHANGED <<then, status, dropped, deviceLock, interfaces, ipcVars,
                   receiverVars, mishap>>

(* An answer comes, as long as the receive thread polls, or the timeout. *)
EndRequest(u) ==
    /\ pc[u] = "waiting"
    /\ ipcLock' = NoUser
    /\ \/ receiver # "none" /\ Goto(u, "succeeded")
       \/ Goto(u, "failed")
    /\ UNCHANGED <<then, status, dropped, deviceLock, interfaces, isUsable, ipcAlive,
                   hciAlive, receiverVars, usedDead, mishap>>

EndOwnRequest(u) ==
    /\ pc[u] \in {"failed", "succeeded"} /\ then[u] = "open"
    /\ Goto(u, "open")
    /\ UNCHANGED <<then, status, dropped, deviceLock, interfaces, ipcVars,
                   receiverVars, usedDead, mishap>>

-----------------------------------------------------------------------------
(* unInitialize().                                                         *)

Close(u) ==
    /\ pc[u] = "open"
    /\ CallThen(u, "uninit", "closed")
    /\ UNCHANGED <<status, dropped, deviceLock, interfaces, ipcVars, receiverVars,
                   usedDead, mishap>>

(* A mistake: the count is decremented even when it is zero. *)
DropUnguarded(u) ==
    /\ pc[u] = "uninit" /\ deviceLock = NoUser
    /\ interfaces' = interfaces - 1
    /\ dropped' = [dropped EXCEPT ![u] = TRUE]
    /\ mishap' = (mishap \/ (then[u] # "closed" /\ dropped[u] /\ interfaces > 0))

(* A reference is dropped under DeviceAvailableLock.  It is a mishap when  *)
(* initialize() drops a second one, which is then the one of another user. *)
Drop(u) ==
    /\ pc[u] = "uninit" /\ deviceLock = NoUser
    /\ interfaces' = IF interfaces > 0 THEN interfaces - 1 ELSE 0
    /\ dropped' = [dropped EXCEPT ![u] = TRUE]
    /\ mishap' = (mishap \/ (then[u] # "closed" /\ dropped[u] /\ interfaces > 0))

UnInitializeOne(u) ==
    /\ interfaces # 1
    /\ Drop(u)
    /\ Goto(u, then[u])
    /\ UNCHANGED <<then, status, deviceLock, ipcVars, receiverVars, usedDead>>

(* A mistake: the other interfaces are forgotten. *)
UnInitializeAny(u) ==
    /\ interfaces > 0
    /\ Drop(u)
    /\ deviceLock' = u
    /\ quitFlag' = TRUE
    /\ Goto(u, "quitting")
    /\ UNCHANGED <<then, status, ipcVars, receiver, usedDead>>

(* The last interface: the receive thread is told to quit... *)
UnInitializeLast(u) ==
    /\ interfaces = 1
    /\ Drop(u)
    /\ deviceLock' = u
    /\ quitFlag' = TRUE
    /\ Goto(u, "quitting")
    /\ UNCHANGED <<then, status, ipcVars, receiver, usedDead>>

(* A mistake: the acknowledgement of the receive thread is not waited for. *)
RefuseAtOnce(u) ==
    /\ pc[u] = "quitting"
    /\ isUsable' = FALSE
    /\ Goto(u, "unusable")
    /\ UNCHANGED <<then, status, dropped, deviceLock, interfaces, ipcAlive, ipcLock,
                   hciAlive, receiverVars, usedDead, mishap>>

(* ...and acknowledges, then requests are refused... *)
RefuseRequests(u) ==
    /\ pc[u] = "quitting" /\ ~quitFlag
    /\ isUsable' = FALSE
    /\ Goto(u, "unusable")
    /\ UNCHANGED <<then, status, dropped, deviceLock, interfaces, ipcAlive, ipcLock,
                   hciAlive, receiverVars, usedDead, mishap>>

(* ...the one in progress is waited for, its semaphore is deleted with     *)
(* IpcLock held, IpcLock is released and deleted, then the layers below.   *)
HoldIpc(u) ==
    /\ pc[u] = "unusable" /\ ipcLock = NoUser
    /\ ipcLock' = u
    /\ Goto(u, "ipcDelete")
    /\ UNCHANGED <<then, status, dropped, deviceLock, interfaces, isUsable, ipcAlive,
                   hciAlive, receiverVars, usedDead, mishap>>

DeleteIpc(u) ==
    /\ pc[u] = "ipcDelete"
    /\ ipcLock' = NoUser /\ ipcAlive' = FALSE
    /\ Goto(u, "hciDelete")
    /\ UNCHANGED <<then, status, dropped, deviceLock, interfaces, isUsable, hciAlive,
                   receiverVars, usedDead, mishap>>

(* The receive queue is deleted, and EmwIoSpi::stop() waits for the I/O    *)
(* thread to acknowledge...                                                *)
DeleteHci(u) ==
    /\ pc[u] = "hciDelete"
    /\ hciAlive' = FALSE
    /\ Goto(u, "stopping")
    /\ UNCHANGED <<then, status, dropped, deviceLock, interfaces, isUsable, ipcAlive,
                   ipcLock, receiverVars, usedDead, mishap>>

StopEnds(u) ==
    /\ pc[u] = "stopping"
    /\ deviceLock' = NoUser
    /\ Goto(u, then[u])
    /\ UNCHANGED <<then, status, dropped, interfaces, ipcVars, receiverVars, usedDead,
                   mishap>>

(* ...or waits for ever: the I/O thread is stuck in the deleted queue or   *)
(* has no buffer to go on with, see StopReturns of EmwIoSpi.               *)
StopHangs(u) ==
    /\ pc[u] = "stopping"
    /\ Goto(u, "stuck")
    /\ UNCHANGED <<then, status, dropped, deviceLock, interfaces, ipcVars,
                   receiverVars, usedDead, mishap>>

-----------------------------------------------------------------------------
(* ReceiveThreadFunction().                                                *)

ReceiverBoots ==
    /\ receiver = "boot"
    /\ receiver' = "looping"
    /\ quitFlag' = FALSE
    /\ UNCHANGED <<userVars, deviceLock, interfaces, ipcVars, usedDead, mishap>>

(* poll() waits for a packet at most 500 ms. *)
ReceiverPolls ==
    /\ \/ receiver = "looping" /\ ~quitFlag /\ receiver' = "polling"
       \/ receiver = "polling" /\ receiver' = "looping"
    /\ usedDead' = (usedDead \/ ~hciAlive)
    /\ UNCHANGED <<userVars, deviceLock, interfaces, ipcVars, quitFlag, mishap>>


(* The flag is cleared, which is the acknowledgement. *)
ReceiverExits ==
    /\ receiver = "looping" /\ quitFlag
    /\ receiver' = "none"
    /\ quitFlag' = FALSE
    /\ UNCHANGED <<userVars, deviceLock, interfaces, ipcVars, usedDead, mishap>>

-----------------------------------------------------------------------------
Initialize(u) ==
    \/ Open(u) \/ InitializeFirst(u) \/ InitializeCounted(u) \/ InitializeNext(u)
    \/ Ask(u) \/ InitializeFails(u) \/ VersionRead(u) \/ VersionOutOfDate(u)
    \/ MacRead(u) \/ Opened(u)

UseDriver(u) ==
    \/ Request(u) \/ Check(u) \/ LockIpc(u) \/ LockDeadIpc(u)
    \/ EndRequest(u) \/ EndOwnRequest(u)

UnInitialize(u) ==
    \/ Close(u) \/ UnInitializeOne(u) \/ UnInitializeLast(u) \/ RefuseRequests(u)
    \/ HoldIpc(u) \/ DeleteIpc(u) \/ DeleteHci(u) \/ StopEnds(u) \/ StopHangs(u)

Receiver == ReceiverBoots \/ ReceiverPolls \/ ReceiverExits

(* A failed assertion loops for ever, and stop() until the acknowledgement. *)
Spin ==
    /\ \E u \in Users : pc[u] \in {"halted", "stuck"}
    /\ UNCHANGED vars

Next ==
    \/ \E u \in Users : Initialize(u) \/ UseDriver(u) \/ UnInitialize(u)
    \/ Receiver
    \/ Spin

Spec == Init /\ [][Next]_vars

(* The steps of a call, once it has been made; neither the firmware nor    *)
(* stop() has to take the turn that never ends.                            *)
Proceed(u) ==
    \/ InitializeFirst(u) \/ InitializeCounted(u) \/ InitializeNext(u)
    \/ Ask(u) \/ InitializeFails(u) \/ VersionRead(u) \/ MacRead(u) \/ Opened(u)
    \/ Check(u) \/ LockIpc(u) \/ LockDeadIpc(u) \/ EndRequest(u) \/ EndOwnRequest(u)
    \/ UnInitializeOne(u) \/ UnInitializeLast(u) \/ RefuseRequests(u)
    \/ HoldIpc(u) \/ DeleteIpc(u) \/ DeleteHci(u) \/ StopEnds(u)

(* Every ready task runs.  Fairness is strong for the two locks: they are  *)
(* mutexes whose waiters are queued, so that a waiter obtains one that is  *)
(* released again and again.  No other step is ever disabled by another    *)
(* task.  That every ready task runs is not so once a task spins in        *)
(* AssertAlways(): nothing is claimed after that.                          *)
Fairness ==
    /\ WF_vars(Receiver)
    /\ \A u \in Users : SF_vars(Proceed(u))

FairSpec == Spec /\ Fairness

-----------------------------------------------------------------------------
(* Properties.                                                             *)

(* Users that count: from the increment in initialize() to the decrement,  *)
(* by unInitialize() or by an initialize() that fails.                     *)
Holds(u) ==
    LET closing == pc[u] \in UnInitSteps \ {"uninit"}
    IN  CASE pc[u] \in {"closed", "init", "booting"} \/ closing -> FALSE
          [] OTHER -> ~dropped[u]

(* The count of interfaces is the number of users that hold the driver,    *)
(* mishaps of initialize() aside.                                          *)
CountIsExact == ~mishap => interfaces = Cardinality({u \in Users : Holds(u)})

(* A user that has been told eEMW_STATUS_OK has a driver that is usable,   *)
(* with its receive thread, until it closes it itself.                     *)
OpenIsUsable ==
    ~mishap =>
        \A u \in Users : pc[u] = "open" =>
            isUsable /\ ipcAlive /\ hciAlive /\ receiver # "none"

(* No deleted mutex or queue is used: a request of a user that has not     *)
(* given its reference back finds IpcLock once it has passed isUsable, and *)
(* the receive thread never outlives its queue.  An initialize() that has  *)
(* given its reference back and goes on to its second request is not       *)
(* covered: it may find IpcLock deleted (LockDeadIpc).                     *)
HoldersNeverUseDead == ~mishap => ~usedDead

=============================================================================
