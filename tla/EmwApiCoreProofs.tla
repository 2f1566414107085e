-------------------------- MODULE EmwApiCoreProofs --------------------------
(***************************************************************************)
(* Proofs about EmwApiCore, for any finite set of users that open, use and *)
(* close the driver.                                                       *)
(***************************************************************************)
EXTENDS EmwApiCore, TLAPS, FiniteSetTheorems

USE UsersAssumption

-----------------------------------------------------------------------------
(* The inductive invariant.  The count of interfaces is tied to the users  *)
(* on one side and to the state of the layers below on the other.          *)

(* Steps with DeviceAvailableLock held. *)
LockedSteps == {"booting"} \cup (UnInitSteps \ {"uninit"})

(* The users that have a reference: the same as Holds, see HoldsIsCounted. *)
Counted(u) == pc[u] \notin {"closed", "init", "booting"} /\ ~dropped[u]
Holders == {u \in Users : Counted(u)}

(* The types, but for the bound of the count. *)
TypesOK ==
    /\ pc \in [Users -> Steps]
    /\ then \in [Users -> {"none", "open", "closed", "versionDone", "mac", "macDone",
                           "opened"}]
    /\ status \in [Users -> BOOLEAN] /\ dropped \in [Users -> BOOLEAN]
    /\ deviceLock \in Users \cup {NoUser} /\ ipcLock \in Users \cup {NoUser}
    /\ interfaces \in Nat
    /\ isUsable \in BOOLEAN /\ ipcAlive \in BOOLEAN /\ hciAlive \in BOOLEAN
    /\ receiver \in {"none", "boot", "looping", "polling"}
    /\ quitFlag \in BOOLEAN /\ usedDead \in BOOLEAN /\ mishap \in BOOLEAN

(* A user that uses the driver, or begins to close it. *)
BelievesOpen(u) ==
    \/ pc[u] = "open"
    \/ pc[u] \in RequestSteps /\ then[u] = "open"
    \/ pc[u] = "uninit" /\ then[u] = "closed"

(* When a user has given its reference back, and when it has not. *)
UserOK(u) ==
    /\ pc[u] \in {"init", "booting"} => ~dropped[u]
    /\ pc[u] \in UnInitSteps => then[u] \in {"mac", "opened", "closed"}
    /\ pc[u] \in UnInitSteps \ {"uninit"} => dropped[u]
    /\ pc[u] = "opened" /\ ~status[u] => dropped[u]
    /\ ~mishap /\ BelievesOpen(u) => ~dropped[u]

UsersOK == \A u \in Users : UserOK(u)

(* A mishap can only make the count too small. *)
CountOK ==
    /\ interfaces <= Cardinality(Holders)
    /\ ~mishap => interfaces = Cardinality(Holders)

(* DeviceAvailableLock has the owner that is between its lock and unlock;  *)
(* when it is free, the count tells what exists...                         *)
LockOK == \A u \in Users : pc[u] \in LockedSteps <=> deviceLock = u

FreeOK ==
    deviceLock = NoUser =>
        /\ interfaces = 0 => ~isUsable /\ ~ipcAlive /\ ~hciAlive /\ receiver = "none"
        /\ interfaces # 0 => isUsable /\ ipcAlive /\ hciAlive /\ receiver \in {"looping", "polling"}
        /\ ~quitFlag

(* ...and otherwise the step of its owner. *)
OwnerOK(u) ==
    /\ pc[u] \in LockedSteps => interfaces = 0
    /\ pc[u] = "booting" => isUsable /\ ipcAlive /\ hciAlive /\ receiver # "none" /\ ~quitFlag
    /\ pc[u] = "quitting" =>
        /\ isUsable /\ ipcAlive /\ hciAlive
        /\ quitFlag => receiver \in {"looping", "polling"}
        /\ ~quitFlag => receiver = "none"
    /\ pc[u] \in {"unusable", "ipcDelete", "hciDelete", "stopping", "stuck"} =>
        ~isUsable /\ receiver = "none" /\ ~quitFlag
    /\ pc[u] \in {"unusable", "ipcDelete"} => ipcAlive
    /\ pc[u] \in {"unusable", "ipcDelete", "hciDelete"} => hciAlive
    /\ pc[u] \in {"hciDelete", "stopping", "stuck"} => ~ipcAlive
    /\ pc[u] \in {"stopping", "stuck"} => ~hciAlive

DeviceOK == LockOK /\ FreeOK /\ \A u \in Users : OwnerOK(u)

UsedOK == ~mishap => ~usedDead

IInv == TypesOK /\ UsersOK /\ CountOK /\ DeviceOK /\ UsedOK

-----------------------------------------------------------------------------
(* Counting.                                                               *)

(* The set of users with a reference is finite. *)
LEMMA HoldersFinite ==
    /\ IsFiniteSet(Holders)
    /\ Cardinality(Holders) \in Nat /\ Cardinality(Holders) <= Cardinality(Users)
    /\ Cardinality(Users) \in Nat
<1>1. Holders \subseteq Users
  BY DEF Holders
<1> QED BY <1>1, FS_Subset, FS_CardinalityType

(* A count of at least one user with a reference is not zero. *)
LEMMA HolderIsCounted ==
    ASSUME NEW u \in Users, Counted(u)
    PROVE  Cardinality(Holders) > 0
<1>1. u \in Holders
  BY DEF Holders
<1>2. Cardinality(Holders) # 0
  BY <1>1, HoldersFinite, FS_EmptySet
<1> QED BY <1>2, HoldersFinite

(* A user takes a reference... *)
LEMMA HoldersGrow ==
    ASSUME NEW u \in Users, ~Counted(u), Counted(u)',
           \A v \in Users \ {u} : Counted(v)' = Counted(v)
    PROVE  Cardinality(Holders') = Cardinality(Holders) + 1
<1>1. Holders' = Holders \cup {u} /\ u \notin Holders
  BY DEF Holders
<1> QED BY <1>1, HoldersFinite, FS_AddElement

(* ...and gives it back. *)
LEMMA HoldersShrink ==
    ASSUME NEW u \in Users, Counted(u), ~Counted(u)',
           \A v \in Users \ {u} : Counted(v)' = Counted(v)
    PROVE  Cardinality(Holders') = Cardinality(Holders) - 1
<1>1. Holders' = Holders \ {u} /\ u \in Holders
  BY DEF Holders
<1> QED BY <1>1, HoldersFinite, FS_RemoveElement

(* The references of the invariant are those of the property. *)
LEMMA HoldsIsCounted ==
    ASSUME TypesOK, UsersOK
    PROVE  Holders = {u \in Users : Holds(u)}
<1>1. ASSUME NEW u \in Users PROVE Counted(u) <=> Holds(u)
  <2>1. dropped[u] \in BOOLEAN /\ UserOK(u)
    BY DEF TypesOK, UsersOK
  <2>2. CASE pc[u] \in {"closed", "init", "booting"} \/ pc[u] \in UnInitSteps \ {"uninit"}
    BY <2>1, <2>2 DEF Counted, Holds, UserOK
  <2>3. CASE ~(pc[u] \in {"closed", "init", "booting"} \/ pc[u] \in UnInitSteps \ {"uninit"})
    BY <2>1, <2>3 DEF Counted, Holds
  <2> QED BY <2>2, <2>3
<1> QED BY <1>1 DEF Holders

-----------------------------------------------------------------------------
(* What a step of one user leaves alone.                                   *)

Others(u) ==
    \A v \in Users \ {u} :
        /\ pc'[v] = pc[v] /\ then'[v] = then[v]
        /\ status'[v] = status[v] /\ dropped'[v] = dropped[v]

deviceVars == <<deviceLock, interfaces, isUsable, ipcAlive, hciAlive, receiver, quitFlag>>

(* The other users keep their part of the invariant. *)
LEMMA OthersOK ==
    ASSUME UsersOK, NEW u \in Users, Others(u), UserOK(u)', mishap => mishap'
    PROVE  /\ UsersOK'
           /\ \A v \in Users \ {u} : Counted(v)' = Counted(v)
<1>1. ASSUME NEW v \in Users \ {u} PROVE UserOK(v)' /\ Counted(v)' = Counted(v)
  BY <1>1 DEF UsersOK, UserOK, BelievesOpen, Counted, Others
<1> QED BY <1>1 DEF UsersOK

(* The count stays right when nobody takes or gives back a reference. *)
LEMMA CountQuiet ==
    ASSUME CountOK, NEW u \in Users,
           \A v \in Users \ {u} : Counted(v)' = Counted(v),
           Counted(u)' <=> Counted(u), interfaces' = interfaces, mishap => mishap'
    PROVE  CountOK'
<1>1. Holders' = Holders
  BY DEF Holders
<1> QED BY <1>1 DEF CountOK

(* A user's step outside the steps with DeviceAvailableLock held.          *)
LEMMA QuietStep ==
    ASSUME IInv, NEW u \in Users, Others(u), TypesOK', UserOK(u)',
           pc[u] \notin LockedSteps, pc'[u] \notin LockedSteps,
           UNCHANGED deviceVars, mishap => mishap',
           Counted(u)' <=> Counted(u), UsedOK'
    PROVE  IInv'
<1>1. UsersOK' /\ \A v \in Users \ {u} : Counted(v)' = Counted(v)
  BY OthersOK DEF IInv
<1>2. CountOK'
  BY <1>1, CountQuiet DEF IInv, deviceVars
<1>3. LockOK'
  BY DEF IInv, DeviceOK, LockOK, Others, deviceVars
<1>4. FreeOK'
  BY DEF IInv, DeviceOK, FreeOK, deviceVars
<1>5. \A v \in Users : OwnerOK(v)'
  <2>1. ASSUME NEW v \in Users, v # u PROVE OwnerOK(v)'
    BY <2>1 DEF IInv, DeviceOK, OwnerOK, Others, deviceVars
  <2>2. OwnerOK(u)'
    BY DEF OwnerOK, LockedSteps, UnInitSteps
  <2> QED BY <2>1, <2>2
<1> QED BY <1>1, <1>2, <1>3, <1>4, <1>5 DEF IInv, DeviceOK

(* A user with a reference finds a driver that exists. *)
LEMMA CountedIsAlive ==
    ASSUME IInv, ~mishap, NEW u \in Users, Counted(u)
    PROVE  isUsable /\ ipcAlive /\ hciAlive /\ receiver \in {"looping", "polling"}
<1>1. interfaces # 0
  BY HolderIsCounted DEF IInv, CountOK
<1>2. deviceLock = NoUser
  <2>1. ASSUME NEW v \in Users, deviceLock = v PROVE FALSE
    BY <1>1, <2>1 DEF IInv, DeviceOK, LockOK, OwnerOK
  <2> QED BY <2>1 DEF IInv, TypesOK
<1> QED BY <1>1, <1>2 DEF IInv, DeviceOK, FreeOK

-----------------------------------------------------------------------------
(* Steps of initialize() and of requests.                                  *)

(* Between the two requests of initialize(), and at its ends. *)
LEMMA InitializeSteps ==
    ASSUME IInv, NEW u \in Users,
           \/ Open(u) \/ Ask(u) \/ InitializeFails(u) \/ VersionRead(u)
           \/ VersionOutOfDate(u) \/ MacRead(u) \/ Opened(u)
    PROVE  IInv'
<1> USE DEF Goto, CallThen, ipcVars, receiverVars, deviceVars
<1>1. UNCHANGED deviceVars /\ usedDead' = usedDead /\ ipcLock' = ipcLock
  BY DEF Open, Ask, InitializeFails, VersionRead, VersionOutOfDate, MacRead, Opened
<1>2. mishap' \in BOOLEAN /\ (mishap => mishap')
  BY DEF Open, Ask, InitializeFails, VersionRead, VersionOutOfDate, MacRead, Opened,
         IInv, TypesOK
<1>3. UsedOK'
  BY <1>1, <1>2 DEF IInv, UsedOK
<1>4. TypesOK'
  <2>1. /\ pc' \in [Users -> Steps]
        /\ then' \in [Users -> {"none", "open", "closed", "versionDone", "mac", "macDone",
                                "opened"}]
    BY DEF Open, Ask, InitializeFails, VersionRead, VersionOutOfDate, MacRead, Opened,
           IInv, TypesOK,
           Steps, InitSteps, RequestSteps, UnInitSteps
  <2>2. status' \in [Users -> BOOLEAN] /\ dropped' \in [Users -> BOOLEAN]
    BY DEF Open, Ask, InitializeFails, VersionRead, VersionOutOfDate, MacRead, Opened,
           IInv, TypesOK
  <2> QED BY <1>1, <1>2, <2>1, <2>2 DEF IInv, TypesOK
<1>5. Others(u)
  BY DEF Open, Ask, InitializeFails, VersionRead, VersionOutOfDate, MacRead, Opened,
         Others, IInv, TypesOK
<1>6. UserOK(u)
  BY DEF IInv, UsersOK
<1>7. /\ UserOK(u)' /\ (Counted(u)' <=> Counted(u))
      /\ pc[u] \notin LockedSteps /\ pc'[u] \notin LockedSteps
  <2> USE DEF LockedSteps, RequestSteps, UnInitSteps
  <2>1. CASE Open(u)
    BY <2>1 DEF Open, UserOK, BelievesOpen, Counted, IInv, TypesOK
  <2>2. CASE Ask(u)
    BY <2>2 DEF Ask, UserOK, BelievesOpen, Counted, IInv, TypesOK
  <2>3. CASE InitializeFails(u)
    BY <2>3 DEF InitializeFails, UserOK, BelievesOpen, Counted, IInv, TypesOK
  <2>4. CASE VersionRead(u)
    BY <2>4 DEF VersionRead, UserOK, BelievesOpen, Counted, IInv, TypesOK
  <2>5. CASE VersionOutOfDate(u)
    BY <2>5 DEF VersionOutOfDate, UserOK, BelievesOpen, Counted, IInv, TypesOK
  <2>6. CASE MacRead(u)
    BY <2>6 DEF MacRead, UserOK, BelievesOpen, Counted, IInv, TypesOK
  <2>7. CASE Opened(u)
    BY <1>6, <2>7 DEF Opened, UserOK, BelievesOpen, Counted, IInv, TypesOK
  <2> QED BY <2>1, <2>2, <2>3, <2>4, <2>5, <2>6, <2>7
<1> QED BY <1>1, <1>2, <1>3, <1>4, <1>5, <1>7, QuietStep

(* Requests, and the beginning of unInitialize(). *)
LEMMA UseSteps ==
    ASSUME IInv, NEW u \in Users,
           \/ Request(u) \/ Check(u) \/ LockIpc(u) \/ LockDeadIpc(u) \/ EndRequest(u)
           \/ EndOwnRequest(u) \/ Close(u)
    PROVE  IInv'
<1> USE DEF Goto, CallThen, ipcVars, receiverVars, deviceVars
<1>1. UNCHANGED <<deviceVars, mishap, status, dropped>>
  BY DEF Request, Check, LockIpc, LockDeadIpc, EndRequest, EndOwnRequest, Close
<1>2. TypesOK'
  <2>1. pc' \in [Users -> Steps]
    BY DEF Request, Check, LockIpc, LockDeadIpc, EndRequest, EndOwnRequest, Close,
           IInv, TypesOK, Steps, RequestSteps, UnInitSteps
  <2>2. then' \in [Users -> {"none", "open", "closed", "versionDone", "mac", "macDone",
                             "opened"}]
    BY DEF Request, Check, LockIpc, LockDeadIpc, EndRequest, EndOwnRequest, Close,
           IInv, TypesOK
  <2>3. ipcLock' \in Users \cup {NoUser} /\ usedDead' \in BOOLEAN
    BY DEF Request, Check, LockIpc, LockDeadIpc, EndRequest, EndOwnRequest, Close,
           IInv, TypesOK
  <2> QED BY <1>1, <2>1, <2>2, <2>3 DEF IInv, TypesOK
<1>3. Others(u)
  BY DEF Request, Check, LockIpc, LockDeadIpc, EndRequest, EndOwnRequest, Close,
         Others, IInv, TypesOK
<1>4. UserOK(u)
  BY DEF IInv, UsersOK
<1>5. /\ UserOK(u)' /\ (Counted(u)' <=> Counted(u))
      /\ pc[u] \notin LockedSteps /\ pc'[u] \notin LockedSteps
  <2> USE <1>1, <1>4 DEF LockedSteps, RequestSteps, UnInitSteps, UserOK, BelievesOpen,
                         Counted, IInv, TypesOK
  <2>1. CASE Request(u)
    BY <2>1 DEF Request
  <2>2. CASE Check(u)
    BY <2>2 DEF Check
  <2>3. CASE LockIpc(u)
    BY <2>3 DEF LockIpc
  <2>4. CASE LockDeadIpc(u)
    BY <2>4 DEF LockDeadIpc
  <2>5. CASE EndRequest(u)
    BY <2>5 DEF EndRequest
  <2>6. CASE EndOwnRequest(u)
    BY <2>6 DEF EndOwnRequest
  <2>7. CASE Close(u)
    BY <2>7 DEF Close
  <2> QED BY <2>1, <2>2, <2>3, <2>4, <2>5, <2>6, <2>7
<1>6. UsedOK'
  <2>1. CASE LockDeadIpc(u)
    <3>1. ~mishap => dropped[u]
      <4>1. ASSUME ~mishap, ~dropped[u] PROVE FALSE
        <5>1. Counted(u) /\ ~ipcAlive
          BY <2>1, <4>1 DEF LockDeadIpc, Counted
        <5> QED BY <4>1, <5>1, CountedIsAlive
      <4> QED BY <4>1
    <3>2. usedDead' = (usedDead \/ ~dropped[u])
      BY <2>1 DEF LockDeadIpc
    <3> QED BY <1>1, <3>1, <3>2 DEF IInv, UsedOK
  <2>2. CASE ~LockDeadIpc(u)
    <3>1. usedDead' = usedDead
      BY <2>2 DEF Request, Check, LockIpc, EndRequest, EndOwnRequest, Close
    <3> QED BY <1>1, <3>1 DEF IInv, UsedOK
  <2> QED BY <2>1, <2>2
<1> QED BY <1>1, <1>2, <1>3, <1>5, <1>6, QuietStep

-----------------------------------------------------------------------------
(* Steps that create and count interfaces.                                 *)

(* The first user finds nothing, and everything is created. *)
LEMMA InitializeFirstStep ==
    ASSUME IInv, NEW u \in Users, InitializeFirst(u)
    PROVE  IInv'
<1> USE DEF Goto
<1>1. /\ pc[u] = "init" /\ deviceLock = NoUser /\ interfaces = 0
      /\ pc' = [pc EXCEPT ![u] = "booting"] /\ deviceLock' = u
      /\ isUsable' = TRUE /\ ipcAlive' = TRUE /\ hciAlive' = TRUE /\ receiver' = "boot"
      /\ ipcLock' = NoUser
      /\ UNCHANGED <<then, status, dropped, interfaces, quitFlag, usedDead, mishap>>
  BY DEF InitializeFirst
<1>2. TypesOK'
  BY <1>1 DEF IInv, TypesOK, Steps, InitSteps
<1>3. Others(u) /\ UserOK(u)' /\ (Counted(u)' <=> Counted(u))
  BY <1>1 DEF IInv, TypesOK, Others, UsersOK, UserOK, BelievesOpen, Counted,
              UnInitSteps, RequestSteps
<1>4. UsersOK' /\ CountOK'
  BY <1>1, <1>3, OthersOK, CountQuiet DEF IInv
<1>5. UsedOK'
  BY <1>1 DEF IInv, UsedOK
<1>6. ASSUME NEW v \in Users PROVE v # u => pc'[v] = pc[v] /\ pc[v] \notin LockedSteps
  BY <1>1 DEF IInv, TypesOK, DeviceOK, LockOK
<1>7. pc'[u] = "booting" /\ "booting" \in LockedSteps
  BY <1>1 DEF IInv, TypesOK, LockedSteps
<1>8. LockOK'
  BY <1>1, <1>6, <1>7 DEF LockOK
<1>9. FreeOK'
  BY <1>1 DEF FreeOK
<1>10. ASSUME NEW v \in Users PROVE OwnerOK(v)'
  <2>1. CASE v = u
    BY <1>1, <1>7, <2>1 DEF OwnerOK, IInv, DeviceOK, FreeOK
  <2>2. CASE v # u
    <3>1. pc'[v] \notin LockedSteps
      BY <1>6, <2>2
    <3> QED BY <3>1 DEF OwnerOK, LockedSteps, UnInitSteps
  <2> QED BY <2>1, <2>2
<1> QED BY <1>2, <1>4, <1>5, <1>8, <1>9, <1>10 DEF IInv, DeviceOK

(* The owner of DeviceAvailableLock is alone in the steps that need it. *)
LEMMA OwnerIsAlone ==
    ASSUME IInv, NEW u \in Users, pc[u] \in LockedSteps, Others(u)
    PROVE  /\ deviceLock = u /\ interfaces = 0
           /\ \A v \in Users \ {u} : pc'[v] = pc[v] /\ pc[v] \notin LockedSteps
  BY DEF IInv, DeviceOK, LockOK, OwnerOK, Others

(* Nor is any other user in them while nobody owns the lock. *)
LEMMA NobodyIsLocked ==
    ASSUME IInv, deviceLock = NoUser
    PROVE  \A v \in Users : pc[v] \notin LockedSteps
  BY DEF IInv, DeviceOK, LockOK

(* DeviceOK in the next state, when u is the only user that can be locked. *)
LEMMA DeviceNext ==
    ASSUME NEW u \in Users, \A v \in Users \ {u} : pc'[v] \notin LockedSteps,
           pc'[u] \in LockedSteps => deviceLock' = u,
           pc'[u] \notin LockedSteps => deviceLock' = NoUser,
           FreeOK', OwnerOK(u)'
    PROVE  DeviceOK'
<1>1. LockOK'
  BY DEF LockOK
<1>2. ASSUME NEW v \in Users \ {u} PROVE OwnerOK(v)'
  <2>1. pc'[v] \notin LockedSteps
    OBVIOUS
  <2> QED BY <2>1 DEF OwnerOK, LockedSteps, UnInitSteps
<1> QED BY <1>1, <1>2 DEF DeviceOK

(* The first user is counted, and is the only one with a reference. *)
LEMMA InitializeCountedStep ==
    ASSUME IInv, NEW u \in Users, InitializeCounted(u)
    PROVE  IInv'
<1> USE DEF Goto, ipcVars, receiverVars
<1>1. /\ pc[u] = "booting" /\ receiver # "boot"
      /\ pc' = [pc EXCEPT ![u] = "version"] /\ deviceLock' = NoUser /\ interfaces' = 1
      /\ UNCHANGED <<then, status, dropped, isUsable, ipcAlive, ipcLock, hciAlive,
                     receiver, quitFlag, usedDead, mishap>>
  BY DEF InitializeCounted
<1>2. TypesOK'
  BY <1>1 DEF IInv, TypesOK, Steps, InitSteps
<1>3. Others(u) /\ UserOK(u)' /\ ~Counted(u) /\ Counted(u)' /\ pc'[u] = "version"
  BY <1>1 DEF IInv, TypesOK, Others, UsersOK, UserOK, BelievesOpen, Counted,
              UnInitSteps, RequestSteps
<1>4. UsersOK' /\ \A v \in Users \ {u} : Counted(v)' = Counted(v)
  BY <1>1, <1>3, OthersOK DEF IInv
<1>5. pc[u] \in LockedSteps /\ pc'[u] \notin LockedSteps
  BY <1>1, <1>3 DEF LockedSteps, UnInitSteps
<1>6. interfaces = 0 /\ \A v \in Users \ {u} : pc'[v] \notin LockedSteps
  BY <1>3, <1>5, OwnerIsAlone
<1>7. CountOK'
  BY <1>1, <1>3, <1>4, <1>6, HoldersGrow, HoldersFinite DEF IInv, CountOK
<1>8. UsedOK'
  BY <1>1 DEF IInv, UsedOK
<1>9. FreeOK' /\ OwnerOK(u)'
  <2>1. OwnerOK(u)
    BY DEF IInv, DeviceOK
  <2> QED BY <1>1, <1>3, <1>5, <2>1 DEF FreeOK, OwnerOK, IInv, TypesOK
<1>10. DeviceOK'
  BY <1>1, <1>5, <1>6, <1>9, DeviceNext
<1> QED BY <1>2, <1>4, <1>7, <1>8, <1>10 DEF IInv

(* Another user is counted. *)
LEMMA InitializeNextStep ==
    ASSUME IInv, NEW u \in Users, InitializeNext(u)
    PROVE  IInv'
<1> USE DEF Goto, ipcVars, receiverVars
<1>1. /\ pc[u] = "init" /\ deviceLock = NoUser /\ interfaces > 0
      /\ pc' = [pc EXCEPT ![u] = "version"] /\ interfaces' = interfaces + 1
      /\ status' = [status EXCEPT ![u] = TRUE]
      /\ UNCHANGED <<then, dropped, deviceLock, isUsable, ipcAlive, ipcLock, hciAlive,
                     receiver, quitFlag, usedDead, mishap>>
  BY DEF InitializeNext
<1>2. TypesOK'
  BY <1>1 DEF IInv, TypesOK, Steps, InitSteps
<1>3. Others(u) /\ UserOK(u)' /\ ~Counted(u) /\ Counted(u)' /\ pc'[u] = "version"
  BY <1>1 DEF IInv, TypesOK, Others, UsersOK, UserOK, BelievesOpen, Counted,
              UnInitSteps, RequestSteps
<1>4. UsersOK' /\ \A v \in Users \ {u} : Counted(v)' = Counted(v)
  BY <1>1, <1>3, OthersOK DEF IInv
<1>5. pc'[u] \notin LockedSteps
  BY <1>3 DEF LockedSteps, UnInitSteps
<1>6. \A v \in Users \ {u} : pc'[v] \notin LockedSteps
  BY <1>1, <1>3, NobodyIsLocked DEF Others
<1>7. CountOK'
  BY <1>1, <1>3, <1>4, HoldersGrow, HoldersFinite DEF IInv, CountOK, TypesOK
<1>8. UsedOK'
  BY <1>1 DEF IInv, UsedOK
<1>9. FreeOK' /\ OwnerOK(u)'
  BY <1>1, <1>3, <1>5 DEF FreeOK, OwnerOK, IInv, DeviceOK, TypesOK
<1>10. DeviceOK'
  BY <1>1, <1>5, <1>6, <1>9, DeviceNext
<1> QED BY <1>2, <1>4, <1>7, <1>8, <1>10 DEF IInv

-----------------------------------------------------------------------------
(* unInitialize().                                                         *)

(* A reference is dropped: the user's own, or, which is a mishap when      *)
(* there is one, the one of another user.                                  *)
LEMMA DropCounts ==
    ASSUME IInv, NEW u \in Users, Drop(u), Others(u), UserOK(u)', ~Counted(u)'
    PROVE  UsersOK' /\ CountOK' /\ interfaces' \in Nat /\ (mishap => mishap')
<1>1. /\ pc[u] = "uninit"
      /\ interfaces' = IF interfaces > 0 THEN interfaces - 1 ELSE 0
      /\ mishap' = (mishap \/ (then[u] # "closed" /\ dropped[u] /\ interfaces > 0))
  BY DEF Drop
<1>2. interfaces \in Nat /\ dropped[u] \in BOOLEAN /\ UserOK(u)
  BY DEF IInv, TypesOK, UsersOK
<1>3. mishap => mishap'
  BY <1>1
<1>4. interfaces' \in Nat
  BY <1>1, <1>2
<1>5. UsersOK' /\ \A v \in Users \ {u} : Counted(v)' = Counted(v)
  BY <1>3, OthersOK DEF IInv
<1>6. CountOK'
  <2>1. CASE Counted(u)
    <3>1. Cardinality(Holders') = Cardinality(Holders) - 1 /\ Cardinality(Holders) > 0
      BY <1>5, <2>1, HoldersShrink, HolderIsCounted
    <3>2. interfaces' <= Cardinality(Holders')
      BY <1>1, <1>2, <3>1, HoldersFinite DEF IInv, CountOK
    <3>3. interfaces = Cardinality(Holders) => interfaces' = Cardinality(Holders')
      BY <1>1, <1>2, <3>1, HoldersFinite
    <3> QED BY <1>3, <3>2, <3>3 DEF IInv, CountOK
  <2>2. CASE ~Counted(u)
    <3>1. Holders' = Holders
      BY <1>5, <2>2 DEF Holders
    <3>2. dropped[u]
      BY <1>1, <2>2 DEF Counted
    <3>3. ~mishap' => interfaces = 0
      <4>1. ~mishap' => ~mishap /\ then[u] # "closed"
        BY <1>1, <1>2, <3>2 DEF UserOK, BelievesOpen
      <4>2. ~mishap' => ~(interfaces > 0)
        BY <1>1, <3>2, <4>1
      <4>3. ~(interfaces > 0) => interfaces = 0
        BY <1>2
      <4> QED BY <4>2, <4>3
    <3>4. interfaces' <= interfaces /\ (interfaces = 0 => interfaces' = interfaces)
      BY <1>1, <1>2
    <3>5. interfaces' <= Cardinality(Holders')
      BY <1>2, <1>4, <3>1, <3>4, HoldersFinite DEF IInv, CountOK
    <3>6. ~mishap' => interfaces' = Cardinality(Holders')
      BY <1>3, <3>1, <3>3, <3>4 DEF IInv, CountOK
    <3> QED BY <3>5, <3>6 DEF CountOK
  <2> QED BY <2>1, <2>2
<1> QED BY <1>3, <1>4, <1>5, <1>6

(* Others still have the driver, or nobody does any more. *)
LEMMA UnInitializeOneStep ==
    ASSUME IInv, NEW u \in Users, UnInitializeOne(u)
    PROVE  IInv'
<1> USE DEF Goto, ipcVars, receiverVars
<1>1. /\ pc[u] = "uninit" /\ deviceLock = NoUser /\ interfaces # 1 /\ Drop(u)
      /\ interfaces' = IF interfaces > 0 THEN interfaces - 1 ELSE 0
      /\ mishap' = (mishap \/ (then[u] # "closed" /\ dropped[u] /\ interfaces > 0))
      /\ pc' = [pc EXCEPT ![u] = then[u]]
      /\ dropped' = [dropped EXCEPT ![u] = TRUE]
      /\ UNCHANGED <<then, status, deviceLock, isUsable, ipcAlive, ipcLock, hciAlive,
                     receiver, quitFlag, usedDead>>
  BY DEF UnInitializeOne, Drop
<1>2. then[u] \in {"mac", "opened", "closed"}
  BY <1>1 DEF IInv, UsersOK, UserOK, UnInitSteps
<1>3. Others(u) /\ UserOK(u)' /\ ~Counted(u)' /\ pc'[u] = then[u]
  BY <1>1, <1>2 DEF IInv, TypesOK, Others, UserOK, BelievesOpen, Counted, UnInitSteps,
                    RequestSteps
<1>4. UsersOK' /\ CountOK' /\ interfaces' \in Nat /\ (mishap => mishap')
  BY <1>1, <1>3, DropCounts
<1>5. TypesOK'
  <2>1. pc' \in [Users -> Steps]
    BY <1>1, <1>2 DEF IInv, TypesOK, Steps, InitSteps
  <2>2. dropped' \in [Users -> BOOLEAN] /\ mishap' \in BOOLEAN
    BY <1>1 DEF IInv, TypesOK
  <2> QED BY <1>1, <1>4, <2>1, <2>2 DEF IInv, TypesOK
<1>6. pc'[u] \notin LockedSteps
  BY <1>2, <1>3 DEF LockedSteps, UnInitSteps
<1>7. \A v \in Users \ {u} : pc'[v] \notin LockedSteps
  BY <1>1, <1>3, NobodyIsLocked DEF Others
<1>8. UsedOK'
  BY <1>1, <1>4 DEF IInv, UsedOK
<1>9. FreeOK' /\ OwnerOK(u)'
  <2>1. interfaces' = 0 <=> interfaces = 0
    BY <1>1 DEF IInv, TypesOK
  <2>2. OwnerOK(u)'
    BY <1>6 DEF OwnerOK, LockedSteps, UnInitSteps
  <2> QED BY <1>1, <2>1, <2>2 DEF FreeOK, IInv, DeviceOK
<1>10. DeviceOK'
  BY <1>1, <1>6, <1>7, <1>9, DeviceNext
<1> QED BY <1>4, <1>5, <1>8, <1>10 DEF IInv

(* The last reference: everything still exists, and nobody can open. *)
LEMMA UnInitializeLastStep ==
    ASSUME IInv, NEW u \in Users, UnInitializeLast(u)
    PROVE  IInv'
<1> USE DEF Goto, ipcVars, receiverVars
<1>1. /\ pc[u] = "uninit" /\ deviceLock = NoUser /\ interfaces = 1 /\ Drop(u)
      /\ interfaces' = 0 /\ deviceLock' = u /\ quitFlag' = TRUE
      /\ mishap' = (mishap \/ (then[u] # "closed" /\ dropped[u] /\ interfaces > 0))
      /\ pc' = [pc EXCEPT ![u] = "quitting"]
      /\ dropped' = [dropped EXCEPT ![u] = TRUE]
      /\ UNCHANGED <<then, status, isUsable, ipcAlive, ipcLock, hciAlive, receiver, usedDead>>
  BY DEF UnInitializeLast, Drop
<1>2. then[u] \in {"mac", "opened", "closed"}
  BY <1>1 DEF IInv, UsersOK, UserOK, UnInitSteps
<1>3. Others(u) /\ UserOK(u)' /\ ~Counted(u)' /\ pc'[u] = "quitting"
  BY <1>1, <1>2 DEF IInv, TypesOK, Others, UserOK, BelievesOpen, Counted, UnInitSteps,
                    RequestSteps
<1>4. UsersOK' /\ CountOK' /\ interfaces' \in Nat /\ (mishap => mishap')
  BY <1>1, <1>3, DropCounts
<1>5. TypesOK'
  <2>1. pc' \in [Users -> Steps]
    BY <1>1 DEF IInv, TypesOK, Steps, UnInitSteps
  <2>2. dropped' \in [Users -> BOOLEAN] /\ mishap' \in BOOLEAN
    BY <1>1 DEF IInv, TypesOK
  <2> QED BY <1>1, <1>4, <2>1, <2>2 DEF IInv, TypesOK
<1>6. pc'[u] \in LockedSteps
  BY <1>3 DEF LockedSteps, UnInitSteps
<1>7. \A v \in Users \ {u} : pc'[v] \notin LockedSteps
  BY <1>1, <1>3, NobodyIsLocked DEF Others
<1>8. UsedOK'
  BY <1>1, <1>4 DEF IInv, UsedOK
<1>9. FreeOK' /\ OwnerOK(u)'
  BY <1>1, <1>3 DEF FreeOK, OwnerOK, IInv, DeviceOK, TypesOK
<1>10. DeviceOK'
  BY <1>1, <1>6, <1>7, <1>9, DeviceNext
<1> QED BY <1>4, <1>5, <1>8, <1>10 DEF IInv

(* The layers are deleted one after another by the owner of the lock. *)
LEMMA DeletionSteps ==
    ASSUME IInv, NEW u \in Users,
           \/ RefuseRequests(u) \/ HoldIpc(u) \/ DeleteIpc(u) \/ DeleteHci(u)
           \/ StopEnds(u) \/ StopHangs(u)
    PROVE  IInv'
<1> USE DEF Goto, ipcVars, receiverVars
<1>1. /\ pc[u] \in {"quitting", "unusable", "ipcDelete", "hciDelete", "stopping"}
      /\ UNCHANGED <<then, status, dropped, interfaces, receiver, quitFlag, usedDead, mishap>>
  BY DEF RefuseRequests, HoldIpc, DeleteIpc, DeleteHci, StopEnds, StopHangs
<1>2. /\ pc[u] \in LockedSteps /\ then[u] \in {"mac", "opened", "closed"} /\ dropped[u]
      /\ OwnerOK(u)
  BY <1>1 DEF IInv, UsersOK, UserOK, UnInitSteps, LockedSteps, DeviceOK
<1>3. Others(u)
  BY DEF RefuseRequests, HoldIpc, DeleteIpc, DeleteHci, StopEnds, StopHangs, Others,
         IInv, TypesOK
<1>4. /\ deviceLock = u /\ interfaces = 0
      /\ \A v \in Users \ {u} : pc'[v] \notin LockedSteps
  BY <1>2, <1>3, OwnerIsAlone
<1>5. TypesOK'
  <2>1. \E s \in {"unusable", "ipcDelete", "hciDelete", "stopping", "stuck",
                 "mac", "opened", "closed"} : pc' = [pc EXCEPT ![u] = s]
    BY <1>2 DEF RefuseRequests, HoldIpc, DeleteIpc, DeleteHci, StopEnds, StopHangs
  <2>2. pc' \in [Users -> Steps]
    BY <2>1 DEF IInv, TypesOK, Steps, InitSteps, UnInitSteps
  <2>3. /\ deviceLock' \in Users \cup {NoUser} /\ ipcLock' \in Users \cup {NoUser}
        /\ isUsable' \in BOOLEAN /\ ipcAlive' \in BOOLEAN /\ hciAlive' \in BOOLEAN
    BY DEF RefuseRequests, HoldIpc, DeleteIpc, DeleteHci, StopEnds, StopHangs, IInv, TypesOK
  <2> QED BY <1>1, <2>2, <2>3 DEF IInv, TypesOK
<1>6. UserOK(u)' /\ ~Counted(u)' /\ ~Counted(u)
  BY <1>1, <1>2 DEF RefuseRequests, HoldIpc, DeleteIpc, DeleteHci, StopEnds, StopHangs,
                    IInv, TypesOK,
                    UserOK, BelievesOpen, Counted, UnInitSteps, RequestSteps
<1>7. UsersOK' /\ CountOK'
  BY <1>1, <1>3, <1>6, OthersOK, CountQuiet DEF IInv
<1>8. UsedOK'
  BY <1>1 DEF IInv, UsedOK
<1>9. DeviceOK'
  <2>1. CASE StopEnds(u)
    <3>1. /\ pc'[u] = then[u] /\ deviceLock' = NoUser
          /\ UNCHANGED <<isUsable, ipcAlive, hciAlive>> /\ pc[u] = "stopping"
      BY <2>1 DEF StopEnds, IInv, TypesOK
    <3>2. pc'[u] \notin LockedSteps
      BY <1>2, <3>1 DEF LockedSteps, UnInitSteps
    <3>3. OwnerOK(u)'
      BY <3>2 DEF OwnerOK, LockedSteps, UnInitSteps
    <3>4. FreeOK'
      BY <1>1, <1>2, <1>4, <3>1 DEF FreeOK, OwnerOK
    <3> QED BY <1>4, <3>1, <3>2, <3>3, <3>4, DeviceNext
  <2>2. CASE \/ RefuseRequests(u) \/ HoldIpc(u) \/ DeleteIpc(u) \/ DeleteHci(u)
             \/ StopHangs(u)
    <3>1. deviceLock' = u /\ pc'[u] \in LockedSteps
      BY <1>4, <2>2
      DEF RefuseRequests, HoldIpc, DeleteIpc, DeleteHci, StopHangs, IInv, TypesOK,
          LockedSteps, UnInitSteps
    <3>2. OwnerOK(u)'
      BY <1>1, <1>2, <1>4, <2>2
      DEF RefuseRequests, HoldIpc, DeleteIpc, DeleteHci, StopHangs, IInv, TypesOK, OwnerOK
    <3>3. FreeOK'
      BY <3>1 DEF FreeOK
    <3> QED BY <1>4, <3>1, <3>2, <3>3, DeviceNext
  <2> QED BY <2>1, <2>2
<1> QED BY <1>5, <1>7, <1>8, <1>9 DEF IInv

-----------------------------------------------------------------------------
(* The receive thread starts, polls a queue that exists, and acknowledges. *)
LEMMA ReceiverStep ==
    ASSUME IInv, Receiver
    PROVE  IInv'
<1> USE DEF ipcVars, userVars
<1>1. /\ UNCHANGED <<userVars, deviceLock, interfaces, ipcVars, mishap>>
      /\ receiver # "none"
  BY DEF Receiver, ReceiverBoots, ReceiverPolls, ReceiverExits
<1>2. hciAlive
  <2>1. CASE deviceLock = NoUser
    BY <1>1, <2>1 DEF IInv, DeviceOK, FreeOK
  <2>2. ASSUME NEW u \in Users, deviceLock = u PROVE hciAlive
    <3>1. pc[u] \in LockedSteps /\ OwnerOK(u)
      BY <2>2 DEF IInv, DeviceOK, LockOK
    <3> QED BY <1>1, <3>1 DEF OwnerOK, LockedSteps, UnInitSteps
  <2> QED BY <2>1, <2>2 DEF IInv, TypesOK
<1>3. TypesOK' /\ usedDead' = usedDead
  BY <1>1, <1>2 DEF Receiver, ReceiverBoots, ReceiverPolls, ReceiverExits, IInv, TypesOK
<1>4. UsersOK' /\ CountOK' /\ UsedOK' /\ LockOK'
  BY <1>1, <1>3 DEF IInv, UsersOK, UserOK, BelievesOpen, CountOK, Holders, Counted, UsedOK,
                    DeviceOK, LockOK
<1>5. FreeOK'
  BY <1>1 DEF Receiver, ReceiverBoots, ReceiverPolls, ReceiverExits, IInv, DeviceOK, FreeOK
<1>6. ASSUME NEW u \in Users PROVE OwnerOK(u)'
  BY <1>1 DEF Receiver, ReceiverBoots, ReceiverPolls, ReceiverExits, IInv, DeviceOK, OwnerOK
<1> QED BY <1>3, <1>4, <1>5, <1>6 DEF IInv, DeviceOK

-----------------------------------------------------------------------------
(* The invariant of the driver holds in every state. *)
THEOREM Invariance == Spec => []IInv
<1>1. Init => IInv
  <2> SUFFICES ASSUME Init PROVE IInv
    OBVIOUS
  <2>1. TypesOK /\ UsersOK
    BY DEF Init, TypesOK, Steps, UsersOK, UserOK, BelievesOpen, UnInitSteps, RequestSteps
  <2>2. CountOK
    <3>1. Holders = {}
      BY DEF Init, Holders, Counted
    <3> QED BY <3>1, FS_EmptySet DEF Init, CountOK
  <2>3. DeviceOK /\ UsedOK
    BY DEF Init, DeviceOK, LockOK, FreeOK, OwnerOK, UsedOK, LockedSteps, UnInitSteps
  <2> QED BY <2>1, <2>2, <2>3 DEF IInv
<1>2. IInv /\ [Next]_vars => IInv'
  <2> SUFFICES ASSUME IInv, [Next]_vars PROVE IInv'
    OBVIOUS
  <2>1. ASSUME NEW u \in Users, Initialize(u) PROVE IInv'
    BY <2>1, InitializeSteps, InitializeFirstStep, InitializeCountedStep, InitializeNextStep
    DEF Initialize
  <2>2. ASSUME NEW u \in Users, UseDriver(u) \/ UnInitialize(u) PROVE IInv'
    BY <2>2, UseSteps, UnInitializeOneStep, UnInitializeLastStep, DeletionSteps
    DEF UseDriver, UnInitialize
  <2>3. CASE Receiver
    BY <2>3, ReceiverStep
  <2>4. CASE UNCHANGED vars
    BY <2>4
    DEF vars, userVars, ipcVars, receiverVars, IInv, TypesOK, UsersOK, UserOK, BelievesOpen,
        CountOK, Holders, Counted, DeviceOK, LockOK, FreeOK, OwnerOK, UsedOK
  <2> QED BY <2>1, <2>2, <2>3, <2>4 DEF Next, Spin
<1> QED BY <1>1, <1>2, PTL DEF Spec

(* The types; and there are never more interfaces than users, even after a *)
(* mishap.                                                                 *)
THEOREM TypeCorrect == Spec => []TypeOK
<1>1. IInv => TypeOK
  BY HoldersFinite DEF IInv, TypesOK, CountOK, TypeOK
<1> QED BY <1>1, Invariance, PTL

(* The count of interfaces is the number of users that have the driver,    *)
(* unless an initialize() has given back a reference that was not its own. *)
THEOREM CountIsExactAlways == Spec => []CountIsExact
<1>1. IInv => CountIsExact
  BY HoldsIsCounted DEF IInv, CountOK, CountIsExact
<1> QED BY <1>1, Invariance, PTL

(* Whoever has been told eEMW_STATUS_OK has a usable driver.               *)
THEOREM OpenIsUsableAlways == Spec => []OpenIsUsable
<1>1. IInv => OpenIsUsable
  <2> SUFFICES ASSUME IInv, ~mishap, NEW u \in Users, pc[u] = "open"
               PROVE  isUsable /\ ipcAlive /\ hciAlive /\ receiver # "none"
    BY DEF OpenIsUsable
  <2>1. Counted(u)
    BY DEF IInv, UsersOK, UserOK, BelievesOpen, Counted
  <2> QED BY <2>1, CountedIsAlive
<1> QED BY <1>1, Invariance, PTL

(* Apart from mishaps, no request of a user that has its reference finds   *)
(* IpcLock deleted, and the receive thread never polls a deleted queue.    *)
(* The second request of an initialize() that has given its reference back *)
(* is not covered, see LockDeadIpc.                                        *)
THEOREM HoldersNeverUseDeadAlways == Spec => []HoldersNeverUseDead
<1>1. IInv => HoldersNeverUseDead
  BY DEF IInv, UsedOK, HoldersNeverUseDead
<1> QED BY <1>1, Invariance, PTL
=============================================================================
