-------------------------- MODULE WiFiNetworkProofs --------------------------
(***************************************************************************)
(* Proofs about WiFiNetwork, for any set of packets and any capacity of    *)
(* the mailboxes.                                                          *)
(***************************************************************************)
EXTENDS WiFiNetwork, FiniteSetTheorems, TLAPS

USE PacketsAssumption, CapacityAssumption

-----------------------------------------------------------------------------
(* The inductive invariant.                                                *)

FlagsOK ==
    /\ usable \in BOOLEAN /\ netlink \in BOOLEAN /\ fifoAlive \in BOOLEAN
    /\ quitFlag \in BOOLEAN /\ nullUsed \in BOOLEAN

(* The application, and what it sets. *)
AppOK ==
    /\ app \in AddSteps \cup StartSteps \cup RemoveSteps \cup {"running", "done", "halted"}
    /\ cur \in Interfaces
    /\ \A s \in {networks, functions, arguments, driverUp, started} : s \subseteq Interfaces
    /\ netif \in [Interfaces -> {"absent", "added", "up", "removed"}]
    /\ addresses \subseteq {"v4", "v6", "acquired"}
    /\ app \in {"dhcp", "waitIp", "running"} => cur = "STATION"

(* The driver is opened once for each interface, and closed once. *)
CountOK ==
    /\ count \in 0 .. 2
    /\ app \in {"add", "driver"} => count = (IF cur = "SOFTAP" THEN 0 ELSE 1)
    /\ app = "bypassOn" => count = (IF cur = "SOFTAP" THEN 1 ELSE 2)
    /\ app \in StartSteps \cup {"running"} => count = 2
    /\ app \in RemoveSteps \ {"closing", "quit", "waitQuit", "free"} =>
          count = (IF cur = "SOFTAP" THEN 1 ELSE 2)
    /\ app \in {"closing", "quit", "waitQuit", "free", "done"} => count = 0

(* lwIP has forgotten the interfaces that have been removed. *)
NetifOK ==
    /\ app \in {"stop", "noFunction", "noArgument", "bypassOff", "close"} =>
          netif[cur] = "removed"
    /\ app \in RemoveSteps /\ cur = "SOFTAP" => netif["STATION"] = "removed"
    /\ app \in {"closing", "quit", "waitQuit", "free", "done"} =>
          \A i \in Interfaces : netif[i] = "removed"
    /\ app \in AddSteps => \A i \in Interfaces : netif[i] # "up"

(* What the receive thread may be called for has been registered. *)
CallbacksOK ==
    /\ started \subseteq networks
    /\ functions \subseteq arguments \cup (IF app = "argument" THEN {cur} ELSE {})
    /\ app \in AddSteps => started = {}
    /\ app \in {"network", "function", "argument", "request"} => cur \notin started
    /\ app \in {"network", "function", "argument", "request"} /\ cur = "SOFTAP" => started = {}
    /\ app = "waitUp" /\ cur = "SOFTAP" => "STATION" \notin started
    /\ app \in {"function", "argument", "request"} => cur \in networks
    /\ app = "noArgument" => cur \notin functions

(* Both mailboxes and who is at TransmitFifo. *)
MailboxesOK ==
    /\ fifo \in Seq(Packets) /\ Len(fifo) <= FifoCapacity
    /\ inbox \in Seq(Interfaces) /\ Len(inbox) <= InboxCapacity
    /\ waiting \in Packets \cup {NoPacket}
    /\ packet \in Packets \cup {NoPacket}
    /\ transmit \in {"none", "boot", "fetching", "sending"}
    /\ transmit = "sending" <=> packet # NoPacket

IsQuiet == fifo = <<>> /\ waiting = NoPacket /\ inbox = <<>>

(* The life of TransmitFifo and its thread. *)
LifeOK ==
    /\ app = "add" /\ cur = "SOFTAP" => IsQuiet
    /\ transmit = "none" <=>
          \/ app = "add" /\ cur = "SOFTAP"
          \/ app = "waitQuit" /\ ~quitFlag
          \/ app \in {"free", "done"}
    /\ ~fifoAlive => (app = "add" /\ cur = "SOFTAP") \/ app = "done"
    /\ quitFlag => app = "waitQuit"
    /\ app \in {"quit", "waitQuit", "free", "done"} => ~usable
    /\ app \in {"waitQuit", "free", "done"} => IsQuiet
    /\ app = "waitQuit" => transmit \in {"none", "fetching"}

RefsOK == refs \in [Packets -> 0 .. 2] /\ held \subseteq Packets

IInv ==
    /\ FlagsOK /\ AppOK /\ CountOK /\ NetifOK /\ CallbacksOK /\ NoNullUsed
    /\ MailboxesOK /\ LifeOK /\ RefsOK /\ RefsAreExact

-----------------------------------------------------------------------------
(* The initial states.                                                     *)

LEMMA Initially == Init => IInv
<1> SUFFICES ASSUME Init PROVE IInv
  OBVIOUS
<1> USE DEF Init, AddSteps, StartSteps, RemoveSteps, Interfaces
<1>1. FlagsOK
  BY Zenon DEF FlagsOK
<1>2. AppOK /\ CountOK /\ NetifOK
  BY DEF AppOK, CountOK, NetifOK
<1>3. CallbacksOK /\ NoNullUsed
  BY DEF CallbacksOK, NoNullUsed
<1>4. MailboxesOK
  <2>1. fifo = <<>> /\ inbox = <<>>
    OBVIOUS
  <2>2. /\ fifo \in Seq(Packets) /\ Len(fifo) = 0
        /\ inbox \in Seq(Interfaces) /\ Len(inbox) = 0
    BY <2>1
  <2>3. waiting = NoPacket /\ packet = NoPacket /\ transmit = "none"
    OBVIOUS
  <2> QED BY <2>2, <2>3 DEF MailboxesOK
<1>5. LifeOK
  BY DEF LifeOK, IsQuiet
<1>6. RefsOK /\ RefsAreExact
  <2>1. ASSUME NEW p \in Packets PROVE Cardinality({k \in DOMAIN fifo : fifo[k] = p}) = 0
    <3>1. fifo = <<>>
      OBVIOUS
    <3>2. {k \in DOMAIN fifo : fifo[k] = p} = {}
      BY <3>1
    <3> QED BY <3>2, FS_EmptySet
  <2>2. RefsOK
    BY DEF RefsOK
  <2>3. \A p \in Packets : refs[p] = 0 /\ p \notin held /\ p # waiting /\ p # packet
    OBVIOUS
  <2> QED BY <2>1, <2>2, <2>3 DEF RefsAreExact, In
<1> QED BY <1>1, <1>2, <1>3, <1>4, <1>5, <1>6 DEF IInv

-----------------------------------------------------------------------------
(* The steps of the application.                                           *)

LEMMA FlagsSteps ==
    ASSUME FlagsOK, [Next]_vars
    PROVE  FlagsOK'
<1> USE DEF FlagsOK, driverVars, callbackVars, fifoVars, transmitVars, packetVars
<1>1. CASE CreateFifo
  BY <1>1, Zenon DEF CreateFifo
<1>2. CASE InitializeDriver
  BY <1>2, Zenon DEF InitializeDriver
<1>3. CASE SetByPassOn
  BY <1>3, Zenon DEF SetByPassOn, SetByPass
<1>4. CASE SetNetwork
  BY <1>4, Zenon DEF SetNetwork
<1>5. CASE RegisterFunction
  BY <1>5, Zenon DEF RegisterFunction
<1>6. CASE RegisterArgument
  BY <1>6, Zenon DEF RegisterArgument
<1>7. CASE RequestStart
  BY <1>7, Zenon DEF RequestStart
<1>8. CASE InterfaceUp
  BY <1>8, Zenon DEF InterfaceUp
<1>9. CASE InterfaceFails
  BY <1>9, Zenon DEF InterfaceFails
<1>10. CASE StartDhcp
  BY <1>10, Zenon DEF StartDhcp
<1>11. CASE Connected
  BY <1>11, Zenon DEF Connected
<1>12. CASE QuitConsole
  BY <1>12, Zenon DEF QuitConsole
<1>13. CASE RemoveNetif
  BY <1>13, Zenon DEF RemoveNetif
<1>14. CASE StopInterface
  BY <1>14, Zenon DEF StopInterface
<1>15. CASE UnRegisterFunction
  BY <1>15, Zenon DEF UnRegisterFunction
<1>16. CASE UnRegisterArgument
  BY <1>16, Zenon DEF UnRegisterArgument
<1>17. CASE SetByPassOff
  BY <1>17, Zenon DEF SetByPassOff, SetByPass
<1>18. CASE CloseDriver
  BY <1>18, Zenon DEF CloseDriver
<1>19. CASE RefuseRequests
  BY <1>19, Zenon DEF RefuseRequests
<1>20. CASE QuitTransmit
  BY <1>20, Zenon DEF QuitTransmit
<1>21. CASE WaitQuit
  BY <1>21, Zenon DEF WaitQuit
<1>22. CASE FreeFifo
  BY <1>22, Zenon DEF FreeFifo
<1>23. CASE TcpipSends
  BY <1>23, Zenon DEF TcpipSends
<1>24. CASE TcpipProcesses
  BY <1>24, Zenon DEF TcpipProcesses
<1>25. CASE TcpipFrees
  BY <1>25, Zenon DEF TcpipFrees
<1>26. CASE TcpipPosts
  BY <1>26, Zenon DEF TcpipPosts
<1>27. CASE TcpipGetsAddress
  BY <1>27, Zenon DEF TcpipGetsAddress
<1>28. CASE TransmitBoots
  BY <1>28, Zenon DEF TransmitBoots
<1>29. CASE TransmitFetches
  BY <1>29, Zenon DEF TransmitFetches
<1>30. CASE TransmitFrees
  BY <1>30, Zenon DEF TransmitFrees, Loop
<1>31. CASE TransmitTimesOut
  BY <1>31, Zenon DEF TransmitTimesOut, Loop
<1>32. CASE ReceiveStatus
  BY <1>32, Zenon DEF ReceiveStatus
<1>33. CASE ReceivePacket
  BY <1>33, Zenon DEF ReceivePacket
<1>34. CASE AppLoops \/ UNCHANGED vars
  BY <1>34, Zenon DEF AppLoops, vars
<1> QED
  BY <1>1, <1>2, <1>3, <1>4, <1>5, <1>6, <1>7, <1>8, <1>9, <1>10, <1>11, <1>12, <1>13,
     <1>14, <1>15, <1>16, <1>17, <1>18, <1>19, <1>20, <1>21, <1>22, <1>23, <1>24, <1>25,
     <1>26, <1>27, <1>28, <1>29, <1>30, <1>31, <1>32, <1>33, <1>34 DEF Next, Add, Start,
     Remove, Tcpip, Transmit, Receive

LEMMA AppSteps ==
    ASSUME AppOK, CountOK, [Next]_vars
    PROVE  AppOK'
<1> USE DEF AppOK, driverVars, callbackVars, fifoVars, transmitVars, packetVars, AppAt,
           AddSteps, StartSteps, RemoveSteps, Interfaces
<1>1. CASE CreateFifo
  BY <1>1 DEF CreateFifo
<1>2. CASE InitializeDriver
  BY <1>2 DEF InitializeDriver
<1>3. CASE SetByPassOn
  BY <1>3 DEF SetByPassOn
<1>4. CASE SetNetwork
  BY <1>4 DEF SetNetwork
<1>5. CASE RegisterFunction
  BY <1>5 DEF RegisterFunction
<1>6. CASE RegisterArgument
  BY <1>6 DEF RegisterArgument
<1>7. CASE RequestStart
  BY <1>7 DEF RequestStart
<1>8. CASE InterfaceUp
  BY <1>8 DEF InterfaceUp
<1>9. CASE InterfaceFails
  BY <1>9 DEF InterfaceFails
<1>10. CASE StartDhcp
  BY <1>10 DEF StartDhcp
<1>11. CASE Connected
  BY <1>11 DEF Connected
<1>12. CASE QuitConsole
  BY <1>12 DEF QuitConsole
<1>13. CASE RemoveNetif
  BY <1>13 DEF RemoveNetif
<1>14. CASE StopInterface
  BY <1>14 DEF StopInterface
<1>15. CASE UnRegisterFunction
  BY <1>15 DEF UnRegisterFunction
<1>16. CASE UnRegisterArgument
  BY <1>16 DEF UnRegisterArgument
<1>17. CASE SetByPassOff
  BY <1>17 DEF SetByPassOff
<1>18. CASE CloseDriver
  BY <1>18 DEF CloseDriver, CountOK
<1>19. CASE RefuseRequests
  BY <1>19 DEF RefuseRequests
<1>20. CASE QuitTransmit
  BY <1>20 DEF QuitTransmit
<1>21. CASE WaitQuit
  BY <1>21 DEF WaitQuit
<1>22. CASE FreeFifo
  BY <1>22 DEF FreeFifo
<1>23. CASE Tcpip
  BY <1>23 DEF Tcpip, TcpipSends, TcpipProcesses, TcpipFrees, TcpipPosts, TcpipGetsAddress
<1>24. CASE Transmit
  BY <1>24 DEF Transmit, TransmitBoots, TransmitFetches, TransmitFrees, TransmitTimesOut
<1>25. CASE ReceiveStatus
  BY <1>25 DEF ReceiveStatus
<1>26. CASE ReceivePacket
  BY <1>26 DEF ReceivePacket
<1>27. CASE AppLoops \/ UNCHANGED vars
  BY <1>27 DEF AppLoops, vars
<1> QED
  BY <1>1, <1>2, <1>3, <1>4, <1>5, <1>6, <1>7, <1>8, <1>9, <1>10, <1>11, <1>12, <1>13,
     <1>14, <1>15, <1>16, <1>17, <1>18, <1>19, <1>20, <1>21, <1>22, <1>23, <1>24, <1>25,
     <1>26, <1>27 DEF Next, Add, Start, Remove, Receive

LEMMA CountSteps ==
    ASSUME AppOK, CountOK, [Next]_vars
    PROVE  CountOK'
<1> USE DEF AppOK, CountOK, driverVars, callbackVars, fifoVars, transmitVars, packetVars,
           AppAt, AddSteps, StartSteps, RemoveSteps, Interfaces
<1>1. CASE CreateFifo
  BY <1>1 DEF CreateFifo
<1>2. CASE InitializeDriver
  BY <1>2 DEF InitializeDriver
<1>3. CASE SetByPassOn
  BY <1>3 DEF SetByPassOn
<1>4. CASE SetNetwork
  BY <1>4 DEF SetNetwork
<1>5. CASE RegisterFunction
  BY <1>5 DEF RegisterFunction
<1>6. CASE RegisterArgument
  BY <1>6 DEF RegisterArgument
<1>7. CASE RequestStart
  BY <1>7 DEF RequestStart
<1>8. CASE InterfaceUp
  BY <1>8 DEF InterfaceUp
<1>9. CASE InterfaceFails
  BY <1>9 DEF InterfaceFails
<1>10. CASE StartDhcp
  BY <1>10 DEF StartDhcp
<1>11. CASE Connected
  BY <1>11 DEF Connected
<1>12. CASE QuitConsole
  BY <1>12 DEF QuitConsole
<1>13. CASE RemoveNetif
  BY <1>13 DEF RemoveNetif
<1>14. CASE StopInterface
  BY <1>14 DEF StopInterface
<1>15. CASE UnRegisterFunction
  BY <1>15 DEF UnRegisterFunction
<1>16. CASE UnRegisterArgument
  BY <1>16 DEF UnRegisterArgument
<1>17. CASE SetByPassOff
  BY <1>17 DEF SetByPassOff
<1>18. CASE CloseDriver
  BY <1>18 DEF CloseDriver
<1>19. CASE RefuseRequests
  BY <1>19 DEF RefuseRequests
<1>20. CASE QuitTransmit
  BY <1>20 DEF QuitTransmit
<1>21. CASE WaitQuit
  BY <1>21 DEF WaitQuit
<1>22. CASE FreeFifo
  BY <1>22 DEF FreeFifo
<1>23. CASE Tcpip
  BY <1>23 DEF Tcpip, TcpipSends, TcpipProcesses, TcpipFrees, TcpipPosts, TcpipGetsAddress
<1>24. CASE Transmit
  BY <1>24 DEF Transmit, TransmitBoots, TransmitFetches, TransmitFrees, TransmitTimesOut
<1>25. CASE Receive
  BY <1>25 DEF Receive, ReceiveStatus, ReceivePacket
<1>26. CASE AppLoops \/ UNCHANGED vars
  BY <1>26 DEF AppLoops, vars
<1> QED
  BY <1>1, <1>2, <1>3, <1>4, <1>5, <1>6, <1>7, <1>8, <1>9, <1>10, <1>11, <1>12, <1>13,
     <1>14, <1>15, <1>16, <1>17, <1>18, <1>19, <1>20, <1>21, <1>22, <1>23, <1>24, <1>25,
     <1>26 DEF Next, Add, Start, Remove

LEMMA NetifSteps ==
    ASSUME AppOK, CountOK, NetifOK, [Next]_vars
    PROVE  NetifOK'
<1> USE DEF AppOK, CountOK, NetifOK, driverVars, callbackVars, fifoVars, transmitVars,
           packetVars, AppAt, AddSteps, StartSteps, RemoveSteps, Interfaces
<1>1. CASE CreateFifo
  BY <1>1 DEF CreateFifo
<1>2. CASE InitializeDriver
  BY <1>2 DEF InitializeDriver
<1>3. CASE SetByPassOn
  BY <1>3 DEF SetByPassOn
<1>4. CASE SetNetwork
  BY <1>4 DEF SetNetwork
<1>5. CASE RegisterFunction
  BY <1>5 DEF RegisterFunction
<1>6. CASE RegisterArgument
  BY <1>6 DEF RegisterArgument
<1>7. CASE RequestStart
  BY <1>7 DEF RequestStart
<1>8. CASE InterfaceUp
  BY <1>8 DEF InterfaceUp
<1>9. CASE InterfaceFails
  BY <1>9 DEF InterfaceFails
<1>10. CASE StartDhcp
  BY <1>10 DEF StartDhcp
<1>11. CASE Connected
  BY <1>11 DEF Connected
<1>12. CASE QuitConsole
  BY <1>12 DEF QuitConsole
<1>13. CASE RemoveNetif
  BY <1>13 DEF RemoveNetif
<1>14. CASE StopInterface
  BY <1>14 DEF StopInterface
<1>15. CASE UnRegisterFunction
  BY <1>15 DEF UnRegisterFunction
<1>16. CASE UnRegisterArgument
  BY <1>16 DEF UnRegisterArgument
<1>17. CASE SetByPassOff
  BY <1>17 DEF SetByPassOff
<1>18. CASE CloseDriver
  BY <1>18 DEF CloseDriver
<1>19. CASE RefuseRequests
  BY <1>19 DEF RefuseRequests
<1>20. CASE QuitTransmit
  BY <1>20 DEF QuitTransmit
<1>21. CASE WaitQuit
  BY <1>21 DEF WaitQuit
<1>22. CASE FreeFifo
  BY <1>22 DEF FreeFifo
<1>23. CASE Tcpip
  BY <1>23 DEF Tcpip, TcpipSends, TcpipProcesses, TcpipFrees, TcpipPosts, TcpipGetsAddress
<1>24. CASE Transmit
  BY <1>24 DEF Transmit, TransmitBoots, TransmitFetches, TransmitFrees, TransmitTimesOut
<1>25. CASE Receive
  BY <1>25 DEF Receive, ReceiveStatus, ReceivePacket
<1>26. CASE AppLoops \/ UNCHANGED vars
  BY <1>26 DEF AppLoops, vars
<1> QED
  BY <1>1, <1>2, <1>3, <1>4, <1>5, <1>6, <1>7, <1>8, <1>9, <1>10, <1>11, <1>12, <1>13,
     <1>14, <1>15, <1>16, <1>17, <1>18, <1>19, <1>20, <1>21, <1>22, <1>23, <1>24, <1>25,
     <1>26 DEF Next, Add, Start, Remove

LEMMA CallbacksSteps ==
    ASSUME AppOK, CallbacksOK, [Next]_vars
    PROVE  CallbacksOK'
<1> USE DEF AppOK, CallbacksOK, driverVars, callbackVars, fifoVars, transmitVars,
           packetVars, AppAt, AddSteps, StartSteps, RemoveSteps, Interfaces
<1>1. CASE CreateFifo
  BY <1>1 DEF CreateFifo
<1>2. CASE InitializeDriver
  BY <1>2 DEF InitializeDriver
<1>3. CASE SetByPassOn
  BY <1>3 DEF SetByPassOn
<1>4. CASE SetNetwork
  BY <1>4 DEF SetNetwork
<1>5. CASE RegisterFunction
  BY <1>5 DEF RegisterFunction
<1>6. CASE RegisterArgument
  BY <1>6 DEF RegisterArgument
<1>7. CASE RequestStart
  BY <1>7 DEF RequestStart
<1>8. CASE InterfaceUp
  BY <1>8 DEF InterfaceUp
<1>9. CASE InterfaceFails
  BY <1>9 DEF InterfaceFails
<1>10. CASE StartDhcp
  BY <1>10 DEF StartDhcp
<1>11. CASE Connected
  BY <1>11 DEF Connected
<1>12. CASE QuitConsole
  BY <1>12 DEF QuitConsole
<1>13. CASE RemoveNetif
  BY <1>13 DEF RemoveNetif
<1>14. CASE StopInterface
  BY <1>14 DEF StopInterface
<1>15. CASE UnRegisterFunction
  BY <1>15 DEF UnRegisterFunction
<1>16. CASE UnRegisterArgument
  BY <1>16 DEF UnRegisterArgument
<1>17. CASE SetByPassOff
  BY <1>17 DEF SetByPassOff
<1>18. CASE CloseDriver
  BY <1>18 DEF CloseDriver
<1>19. CASE RefuseRequests
  BY <1>19 DEF RefuseRequests
<1>20. CASE QuitTransmit
  BY <1>20 DEF QuitTransmit
<1>21. CASE WaitQuit
  BY <1>21 DEF WaitQuit
<1>22. CASE FreeFifo
  BY <1>22 DEF FreeFifo
<1>23. CASE Tcpip
  BY <1>23 DEF Tcpip, TcpipSends, TcpipProcesses, TcpipFrees, TcpipPosts, TcpipGetsAddress
<1>24. CASE Transmit
  BY <1>24 DEF Transmit, TransmitBoots, TransmitFetches, TransmitFrees, TransmitTimesOut
<1>25. CASE Receive
  BY <1>25 DEF Receive, ReceiveStatus, ReceivePacket
<1>26. CASE AppLoops \/ UNCHANGED vars
  BY <1>26 DEF AppLoops, vars
<1> QED
  BY <1>1, <1>2, <1>3, <1>4, <1>5, <1>6, <1>7, <1>8, <1>9, <1>10, <1>11, <1>12, <1>13,
     <1>14, <1>15, <1>16, <1>17, <1>18, <1>19, <1>20, <1>21, <1>22, <1>23, <1>24, <1>25,
     <1>26 DEF Next, Add, Start, Remove

LEMMA NullSteps ==
    ASSUME CallbacksOK, NoNullUsed, [Next]_vars
    PROVE  NoNullUsed'
<1> USE DEF CallbacksOK, NoNullUsed, driverVars, callbackVars, fifoVars, transmitVars,
           packetVars, AppAt
<1>1. CASE Add
  BY <1>1 DEF Add, CreateFifo, InitializeDriver, SetByPassOn
<1>2. CASE Start
  BY <1>2 DEF Start, SetNetwork, RegisterFunction, RegisterArgument, RequestStart,
         InterfaceUp, InterfaceFails, StartDhcp, Connected
<1>3. CASE QuitConsole
  BY <1>3 DEF QuitConsole
<1>4. CASE Remove
  BY <1>4 DEF Remove, RemoveNetif, StopInterface, UnRegisterFunction, UnRegisterArgument,
         SetByPassOff, CloseDriver, RefuseRequests, QuitTransmit, WaitQuit, FreeFifo
<1>5. CASE Tcpip
  BY <1>5 DEF Tcpip, TcpipSends, TcpipProcesses, TcpipFrees, TcpipPosts, TcpipGetsAddress
<1>6. CASE Transmit
  BY <1>6 DEF Transmit, TransmitBoots, TransmitFetches, TransmitFrees, TransmitTimesOut
<1>7. CASE ReceiveStatus
  BY <1>7 DEF ReceiveStatus
<1>8. CASE ReceivePacket
  BY <1>8 DEF ReceivePacket
<1>9. CASE AppLoops \/ UNCHANGED vars
  BY <1>9 DEF AppLoops, vars
<1> QED
  BY <1>1, <1>2, <1>3, <1>4, <1>5, <1>6, <1>7, <1>8, <1>9 DEF Next, Receive

-----------------------------------------------------------------------------
(* The mailboxes.                                                          *)

LEMMA PostSteps ==
    ASSUME MailboxesOK, NEW p \in Packets, Post(p)
    PROVE  /\ fifo' \in Seq(Packets) /\ Len(fifo') <= FifoCapacity
           /\ waiting' \in Packets \cup {NoPacket}
           /\ fifo' # <<>>
<1>1. CASE Len(fifo) < FifoCapacity
  BY <1>1 DEF Post, MailboxesOK
<1>2. CASE ~(Len(fifo) < FifoCapacity)
  <2>1. fifo' = fifo /\ waiting' = p
    BY <1>2 DEF Post
  <2>2. fifo # <<>>
    BY <1>2 DEF MailboxesOK
  <2> QED BY <2>1, <2>2 DEF MailboxesOK
<1> QED BY <1>1, <1>2

LEMMA OutputSteps ==
    ASSUME MailboxesOK, NEW p \in Packets, OutputToDriver(p)
    PROVE  /\ fifo' \in Seq(Packets) /\ Len(fifo') <= FifoCapacity
           /\ waiting' \in Packets \cup {NoPacket}
<1>1. CASE OutputSingle(p)
  BY <1>1, PostSteps DEF OutputSingle
<1>2. CASE OutputChain(p)
  <2>1. CASE UNCHANGED <<fifo, waiting>>
    BY <2>1 DEF MailboxesOK
  <2>2. CASE \E q \in Packets : Post(q)
    BY <2>2, PostSteps
  <2> QED BY <1>2, <2>1, <2>2 DEF OutputChain
<1> QED BY <1>1, <1>2 DEF OutputToDriver

LEMMA MailboxesSteps ==
    ASSUME AppOK, CountOK, LifeOK, MailboxesOK, [Next]_vars
    PROVE  MailboxesOK'
<1> USE DEF MailboxesOK, driverVars, callbackVars, fifoVars, transmitVars, packetVars,
           AppAt
<1>1. CASE CreateFifo
  <2>1. count = 0 => transmit = "none"
    BY <1>1 DEF CreateFifo, AppOK, CountOK, LifeOK, Interfaces
  <2> QED BY <1>1, <2>1 DEF CreateFifo
<1>2. CASE InitializeDriver
  BY <1>2 DEF InitializeDriver
<1>3. CASE SetByPassOn
  BY <1>3 DEF SetByPassOn
<1>4. CASE SetNetwork
  BY <1>4 DEF SetNetwork
<1>5. CASE RegisterFunction
  BY <1>5 DEF RegisterFunction
<1>6. CASE RegisterArgument
  BY <1>6 DEF RegisterArgument
<1>7. CASE RequestStart
  BY <1>7 DEF RequestStart
<1>8. CASE InterfaceUp
  BY <1>8 DEF InterfaceUp
<1>9. CASE InterfaceFails
  BY <1>9 DEF InterfaceFails
<1>10. CASE StartDhcp
  <2>1. UNCHANGED <<inbox, packet, transmit>>
    BY <1>10 DEF StartDhcp
  <2>2. /\ fifo' \in Seq(Packets) /\ Len(fifo') <= FifoCapacity
        /\ waiting' \in Packets \cup {NoPacket}
    BY <1>10, OutputSteps DEF StartDhcp
  <2> QED BY <2>1, <2>2
<1>11. CASE Connected
  BY <1>11 DEF Connected
<1>12. CASE QuitConsole
  BY <1>12 DEF QuitConsole
<1>13. CASE Remove
  BY <1>13 DEF Remove, RemoveNetif, StopInterface, UnRegisterFunction, UnRegisterArgument,
         SetByPassOff, CloseDriver, RefuseRequests, QuitTransmit, WaitQuit, FreeFifo
<1>14. CASE TcpipSends
  <2>1. UNCHANGED <<inbox, packet, transmit>>
    BY <1>14 DEF TcpipSends
  <2>2. /\ fifo' \in Seq(Packets) /\ Len(fifo') <= FifoCapacity
        /\ waiting' \in Packets \cup {NoPacket}
    BY <1>14, OutputSteps DEF TcpipSends
  <2> QED BY <2>1, <2>2
<1>15. CASE TcpipProcesses
  <2>1. UNCHANGED <<packet, transmit>> /\ inbox' = Tail(inbox) /\ inbox # <<>>
    BY <1>15 DEF TcpipProcesses
  <2>2. /\ fifo' \in Seq(Packets) /\ Len(fifo') <= FifoCapacity
        /\ waiting' \in Packets \cup {NoPacket}
    BY <1>15, OutputSteps DEF TcpipProcesses
  <2> QED BY <2>1, <2>2
<1>16. CASE TcpipFrees
  BY <1>16 DEF TcpipFrees
<1>17. CASE TcpipPosts
  BY <1>17 DEF TcpipPosts
<1>18. CASE TcpipGetsAddress
  BY <1>18 DEF TcpipGetsAddress
<1>19. CASE TransmitBoots
  BY <1>19 DEF TransmitBoots
<1>20. CASE TransmitFetches
  <2>1. /\ fifo # <<>> /\ fifo' = Tail(fifo) /\ packet' = Head(fifo)
        /\ transmit' = "sending" /\ UNCHANGED <<waiting, inbox>>
    BY <1>20 DEF TransmitFetches
  <2>2. Head(fifo) \in Packets
    BY <2>1
  <2> QED BY <2>1, <2>2
<1>21. CASE TransmitFrees
  BY <1>21 DEF TransmitFrees, Loop
<1>22. CASE TransmitTimesOut
  BY <1>22 DEF TransmitTimesOut, Loop
<1>23. CASE ReceiveStatus
  BY <1>23 DEF ReceiveStatus
<1>24. CASE ReceivePacket
  <2>1. UNCHANGED <<fifo, waiting, packet, transmit>> /\ Len(inbox) < InboxCapacity
    BY <1>24 DEF ReceivePacket
  <2>2. inbox' = inbox \/ \E i \in Interfaces : inbox' = Append(inbox, i)
    BY <1>24 DEF ReceivePacket, AppOK
  <2> QED BY <2>1, <2>2
<1>25. CASE AppLoops \/ UNCHANGED vars
  BY <1>25 DEF AppLoops, vars
<1> QED
  BY <1>1, <1>2, <1>3, <1>4, <1>5, <1>6, <1>7, <1>8, <1>9, <1>10, <1>11, <1>12, <1>13,
     <1>14, <1>15, <1>16, <1>17, <1>18, <1>19, <1>20, <1>21, <1>22, <1>23, <1>24, <1>25
     DEF Next, Add, Start, Tcpip, Transmit, Receive

-----------------------------------------------------------------------------
(* The life of TransmitFifo.                                               *)

LEMMA LifeSteps ==
    ASSUME FlagsOK, AppOK, CountOK, NetifOK, MailboxesOK, LifeOK, [Next]_vars
    PROVE  LifeOK'
<1> USE DEF AppOK, CountOK, LifeOK, IsQuiet, driverVars, callbackVars, fifoVars,
           transmitVars, packetVars, AppAt, AddSteps, StartSteps, RemoveSteps, Interfaces
<1>1. CASE CreateFifo
  BY <1>1 DEF CreateFifo
<1>2. CASE InitializeDriver
  BY <1>2 DEF InitializeDriver
<1>3. CASE SetByPassOn
  BY <1>3 DEF SetByPassOn
<1>4. CASE SetNetwork
  BY <1>4 DEF SetNetwork
<1>5. CASE RegisterFunction
  BY <1>5 DEF RegisterFunction
<1>6. CASE RegisterArgument
  BY <1>6 DEF RegisterArgument
<1>7. CASE RequestStart
  BY <1>7 DEF RequestStart
<1>8. CASE InterfaceUp
  BY <1>8 DEF InterfaceUp
<1>9. CASE InterfaceFails
  BY <1>9 DEF InterfaceFails
<1>10. CASE StartDhcp
  BY <1>10 DEF StartDhcp
<1>11. CASE Connected
  BY <1>11 DEF Connected
<1>12. CASE QuitConsole
  BY <1>12 DEF QuitConsole
<1>13. CASE RemoveNetif
  BY <1>13 DEF RemoveNetif
<1>14. CASE StopInterface
  BY <1>14 DEF StopInterface
<1>15. CASE UnRegisterFunction
  BY <1>15 DEF UnRegisterFunction
<1>16. CASE UnRegisterArgument
  BY <1>16 DEF UnRegisterArgument
<1>17. CASE SetByPassOff
  BY <1>17 DEF SetByPassOff
<1>18. CASE CloseDriver
  BY <1>18 DEF CloseDriver
<1>19. CASE RefuseRequests
  BY <1>19 DEF RefuseRequests
<1>20. CASE QuitTransmit
  <2>1. app = "quit" /\ app' = "waitQuit" /\ quitFlag' /\ UNCHANGED <<cur, fifoAlive, usable, transmit>>
    BY <1>20, Zenon DEF QuitTransmit, AppAt, driverVars, fifoVars
  <2>2. transmit = "fetching" /\ fifo = <<>> /\ (waiting = NoPacket \/ Len(fifo) = FifoCapacity)
    BY <1>20, <2>1 DEF QuitTransmit, AppAt, AppMayRun, MailboxesOK
  <2>3. waiting = NoPacket /\ inbox = <<>>
    BY <1>20, <2>1, <2>2 DEF QuitTransmit, AppAt, AppMayRun
  <2>4. IsQuiet'
    BY <1>20, <2>2, <2>3 DEF QuitTransmit, fifoVars, packetVars, IsQuiet
  <2> QED BY <2>1, <2>2, <2>4
<1>21. CASE WaitQuit
  BY <1>21 DEF WaitQuit
<1>22. CASE FreeFifo
  BY <1>22 DEF FreeFifo
<1>23. CASE TcpipSends
  BY <1>23 DEF TcpipSends, NetifOK
<1>24. CASE TcpipProcesses
  BY <1>24 DEF TcpipProcesses
<1>25. CASE TcpipFrees
  BY <1>25 DEF TcpipFrees
<1>26. CASE TcpipPosts
  BY <1>26 DEF TcpipPosts
<1>27. CASE TcpipGetsAddress
  BY <1>27 DEF TcpipGetsAddress
<1>28. CASE TransmitBoots
  BY <1>28 DEF TransmitBoots
<1>29. CASE TransmitFetches
  BY <1>29 DEF TransmitFetches
<1>30. CASE TransmitFrees
  BY <1>30 DEF TransmitFrees, Loop
<1>31. CASE TransmitTimesOut
  BY <1>31 DEF TransmitTimesOut, Loop
<1>32. CASE ReceiveStatus
  BY <1>32 DEF ReceiveStatus
<1>33. CASE ReceivePacket
  BY <1>33 DEF ReceivePacket
<1>34. CASE AppLoops \/ UNCHANGED vars
  BY <1>34 DEF AppLoops, vars
<1> QED
  BY <1>1, <1>2, <1>3, <1>4, <1>5, <1>6, <1>7, <1>8, <1>9, <1>10, <1>11, <1>12, <1>13,
     <1>14, <1>15, <1>16, <1>17, <1>18, <1>19, <1>20, <1>21, <1>22, <1>23, <1>24, <1>25,
     <1>26, <1>27, <1>28, <1>29, <1>30, <1>31, <1>32, <1>33, <1>34 DEF Next, Add, Start,
     Remove, Tcpip, Transmit, Receive

-----------------------------------------------------------------------------
(* Counting the references.                                                *)

Occurrences(f, q) == Cardinality({k \in DOMAIN f : f[k] = q})

LEMMA OccurrencesFinite ==
    ASSUME NEW f \in Seq(Packets), NEW q
    PROVE  /\ IsFiniteSet({k \in DOMAIN f : f[k] = q})
           /\ Occurrences(f, q) \in Nat
<1> DEFINE S == {k \in DOMAIN f : f[k] = q}
<1>1. S \in SUBSET (1 .. Len(f)) /\ Len(f) \in Nat
  OBVIOUS
<1>2. IsFiniteSet(1 .. Len(f))
  BY <1>1, FS_Interval
<1>3. IsFiniteSet(S)
  BY <1>1, <1>2, FS_Subset
<1> QED BY <1>3, FS_CardinalityType DEF Occurrences

LEMMA OccurrencesAppend ==
    ASSUME NEW f \in Seq(Packets), NEW p \in Packets, NEW q
    PROVE  Occurrences(Append(f, p), q) = Occurrences(f, q) + In(p = q)
<1> DEFINE S == {k \in DOMAIN f : f[k] = q}
           T == {k \in DOMAIN Append(f, p) : Append(f, p)[k] = q}
<1>1. IsFiniteSet(S) /\ Cardinality(S) \in Nat
  BY OccurrencesFinite DEF Occurrences
<1>2. Len(f) + 1 \notin S
  OBVIOUS
<1>3. CASE p = q
  <2>1. T = S \cup {Len(f) + 1}
    BY <1>3
  <2> QED BY <1>1, <1>2, <1>3, <2>1, FS_AddElement DEF Occurrences, In
<1>4. CASE p # q
  <2>1. T = S
    BY <1>4
  <2>2. In(p = q) = 0
    BY <1>4 DEF In
  <2>3. Occurrences(Append(f, p), q) = Cardinality(T) /\ Occurrences(f, q) = Cardinality(S)
    BY Zenon DEF Occurrences
  <2> HIDE DEF S, T
  <2> QED BY <1>1, <2>1, <2>2, <2>3
<1> QED BY <1>3, <1>4

LEMMA OccurrencesTail ==
    ASSUME NEW f \in Seq(Packets), f # <<>>, NEW q
    PROVE  Occurrences(f, q) = Occurrences(Tail(f), q) + In(Head(f) = q)
<1> DEFINE S == {k \in DOMAIN f : f[k] = q}
           T == {k \in DOMAIN Tail(f) : Tail(f)[k] = q}
           R == S \ {1}
<1>1. IsFiniteSet(S) /\ Cardinality(S) \in Nat
  BY OccurrencesFinite DEF Occurrences
<1>2. Tail(f) \in Seq(Packets) /\ Len(Tail(f)) = Len(f) - 1 /\ Len(f) >= 1
  OBVIOUS
<1>3. IsFiniteSet(T) /\ Cardinality(T) \in Nat
  BY <1>2, OccurrencesFinite DEF Occurrences
<1>4. ExistsBijection(T, R)
  <2> DEFINE shift == [k \in T |-> k + 1]
  <2>1. \A k \in T : k \in 1 .. Len(f) - 1 /\ f[k + 1] = q
    BY <1>2
  <2>2. \A k \in R : k - 1 \in T /\ k \in Nat
    BY <1>2
  <2>3. shift \in [T -> R]
    BY <2>1
  <2>4. \A k \in R : shift[k - 1] = k
    BY <2>2
  <2>5. \A k, m \in T : shift[k] = shift[m] => k = m
    BY <2>1
  <2> HIDE DEF shift, T, R
  <2>6. IsInjective(shift)
    BY <2>3, <2>5 DEF IsInjective
  <2>7. \A k \in R : \E m \in T : shift[m] = k
    BY <2>2, <2>4
  <2> QED BY <2>3, <2>6, <2>7 DEF ExistsBijection, Bijection, Injection, Surjection
<1>5. Cardinality(R) = Cardinality(T)
  BY <1>3, <1>4, FS_Bijection
<1>6. Cardinality(R) = IF 1 \in S THEN Cardinality(S) - 1 ELSE Cardinality(S)
  BY <1>1, FS_RemoveElement
<1>7. 1 \in S <=> Head(f) = q
  BY <1>2
<1>8. Occurrences(f, q) = Cardinality(S) /\ Occurrences(Tail(f), q) = Cardinality(T)
  BY Zenon DEF Occurrences
<1> HIDE DEF S, T, R
<1> QED BY <1>1, <1>3, <1>5, <1>6, <1>7, <1>8 DEF In

(* Where the references of a packet are. *)
LEMMA RefsWhere ==
    ASSUME MailboxesOK, RefsAreExact, NEW p \in Packets
    PROVE  /\ Occurrences(fifo, p) \in Nat
           /\ refs[p] = In(p \in held) + Occurrences(fifo, p) + In(p = waiting) + In(p = packet)
<1>1. Occurrences(fifo, p) \in Nat
  BY OccurrencesFinite DEF MailboxesOK
<1>2. refs[p] = In(p \in held) + Occurrences(fifo, p) + In(p = waiting) + In(p = packet)
  BY Zenon DEF RefsAreExact, Occurrences
<1> QED BY <1>1, <1>2

(* Posting a packet adds one, in the mailbox or at the thread that waits.  *)
LEMMA PostCounts ==
    ASSUME MailboxesOK, waiting = NoPacket \/ Len(fifo) < FifoCapacity,
           NEW p \in Packets, Post(p), NEW q \in Packets
    PROVE  /\ Occurrences(fifo', q) \in Nat
           /\ Occurrences(fifo', q) + In(q = waiting') =
                  Occurrences(fifo, q) + In(q = waiting) + In(p = q)
<1>1. Occurrences(fifo, q) \in Nat
  BY OccurrencesFinite DEF MailboxesOK
<1>2. CASE Len(fifo) < FifoCapacity
  <2>1. fifo' = Append(fifo, p) /\ waiting' = waiting
    BY <1>2 DEF Post
  <2>2. Occurrences(fifo', q) = Occurrences(fifo, q) + In(p = q)
    BY <2>1, OccurrencesAppend DEF MailboxesOK
  <2> QED BY <1>1, <2>1, <2>2 DEF In
<1>3. CASE ~(Len(fifo) < FifoCapacity)
  <2>1. fifo' = fifo /\ waiting' = p /\ waiting = NoPacket
    BY <1>3 DEF Post
  <2> QED BY <1>1, <2>1 DEF In
<1> QED BY <1>2, <1>3

(* OutputToDriver() gives lwIP, the mailbox and the sender that waits one   *)
(* reference each, no more.                                                *)
LEMMA OutputRefs ==
    ASSUME MailboxesOK, RefsOK, RefsAreExact, waiting = NoPacket \/ Len(fifo) < FifoCapacity,
           NEW p \in Packets, OutputToDriver(p), packet' = packet
    PROVE  RefsOK' /\ RefsAreExact'
<1> DEFINE Where(q) == In(q \in held) + Occurrences(fifo, q) + In(q = waiting) + In(q = packet)
<1>1. \A q \in Packets : Occurrences(fifo, q) \in Nat /\ refs[q] = Where(q)
  BY RefsWhere
<1>2. /\ MaySend(p) /\ held' = held \cup {p} /\ held' \subseteq Packets
      /\ refs \in [Packets -> 0 .. 2]
  BY DEF OutputToDriver, RefsOK
<1>3. /\ p \notin held => refs[p] = 0
      /\ Occurrences(fifo, p) = 0 /\ p # waiting /\ p # packet
  BY <1>1, <1>2 DEF MaySend, In
<1> SUFFICES /\ refs' \in [Packets -> 0 .. 2]
             /\ \A q \in Packets : refs'[q] = Where(q)'
  BY <1>2 DEF RefsOK, RefsAreExact, Occurrences
<1>4. CASE OutputSingle(p)
  <2>1. Post(p) /\ refs' = [refs EXCEPT ![p] = 2]
    BY <1>4 DEF OutputSingle
  <2>2. ASSUME NEW q \in Packets PROVE refs'[q] = Where(q)'
    <3>1. /\ Occurrences(fifo', q) \in Nat
          /\ Occurrences(fifo', q) + In(q = waiting') =
                 Occurrences(fifo, q) + In(q = waiting) + In(p = q)
      BY <2>1, PostCounts
    <3> HIDE DEF Occurrences
    <3> QED BY <1>1, <1>2, <1>3, <2>1, <3>1 DEF In
  <2> QED BY <1>2, <2>1, <2>2
<1>5. CASE \E q \in Packets \ {p} :
              /\ refs[q] = 0
              /\ refs' = [refs EXCEPT ![p] = 1, ![q] = 1]
              /\ Post(q)
  <2>1. PICK r \in Packets \ {p} :
              /\ refs[r] = 0
              /\ refs' = [refs EXCEPT ![p] = 1, ![r] = 1]
              /\ Post(r)
    BY <1>5
  <2>2. Occurrences(fifo, r) = 0 /\ r # waiting /\ r # packet /\ r \notin held
    BY <1>1, <2>1 DEF In
  <2>3. ASSUME NEW q \in Packets PROVE refs'[q] = Where(q)'
    <3>1. /\ Occurrences(fifo', q) \in Nat
          /\ Occurrences(fifo', q) + In(q = waiting') =
                 Occurrences(fifo, q) + In(q = waiting) + In(r = q)
      BY <2>1, PostCounts
    <3>2. CASE q = p
      <4>1. Occurrences(fifo', p) + In(p = waiting') = 0
        BY <1>3, <2>1, <3>1, <3>2 DEF In
      <4> QED BY <1>2, <1>3, <2>1, <3>1, <3>2, <4>1 DEF In
    <3>3. CASE q = r
      BY <1>2, <2>1, <2>2, <3>1, <3>3 DEF In
    <3>4. CASE q # p /\ q # r
      <4>1. refs'[q] = Where(q) /\ (q \in held' <=> q \in held) /\ Occurrences(fifo, q) \in Nat
        BY <1>1, <1>2, <2>1, <3>4
      <4> QED BY <3>1, <3>4, <4>1 DEF In
    <3> QED BY <3>2, <3>3, <3>4
  <2> QED BY <1>2, <2>1, <2>3
<1>6. CASE refs' = [refs EXCEPT ![p] = 1] /\ UNCHANGED <<fifo, waiting>>
  BY <1>1, <1>2, <1>3, <1>6 DEF In
<1> QED BY <1>4, <1>5, <1>6 DEF OutputToDriver, OutputChain

LEMMA RefsSteps ==
    ASSUME MailboxesOK, RefsOK, RefsAreExact, [Next]_vars
    PROVE  RefsOK' /\ RefsAreExact'
<1> USE DEF driverVars, callbackVars, fifoVars, transmitVars, packetVars
<1>1. \A p \in Packets :
          /\ Occurrences(fifo, p) \in Nat
          /\ refs[p] = In(p \in held) + Occurrences(fifo, p) + In(p = waiting) + In(p = packet)
  BY RefsWhere
<1>2. CASE StartDhcp
  <2>1. packet' = packet
    BY <1>2 DEF StartDhcp
  <2>2. CASE UNCHANGED <<fifo, waiting, refs, held>>
    BY <2>1, <2>2 DEF RefsOK, RefsAreExact
  <2>3. CASE Len(fifo) < FifoCapacity /\ \E p \in Packets : refs[p] = 0 /\ OutputToDriver(p)
    BY <2>1, <2>3, OutputRefs
  <2> QED BY <1>2, <2>2, <2>3 DEF StartDhcp
<1>3. CASE TcpipSends
  <2>1. packet' = packet /\ waiting = NoPacket /\ \E p \in Packets : OutputToDriver(p)
    BY <1>3 DEF TcpipSends, TcpipReady
  <2> QED BY <2>1, OutputRefs
<1>4. CASE TcpipProcesses
  <2>1. packet' = packet /\ waiting = NoPacket
    BY <1>4 DEF TcpipProcesses, TcpipReady
  <2>2. CASE UNCHANGED <<fifo, waiting, refs, held>>
    BY <2>1, <2>2 DEF RefsOK, RefsAreExact
  <2>3. CASE \E p \in Packets : OutputToDriver(p)
    BY <2>1, <2>3, OutputRefs
  <2> QED BY <1>4, <2>2, <2>3 DEF TcpipProcesses
<1>5. CASE TcpipFrees
  <2>1. PICK p \in held : held' = held \ {p} /\ refs' = [refs EXCEPT ![p] = @ - 1]
    BY <1>5 DEF TcpipFrees
  <2>2. UNCHANGED <<fifo, waiting, packet>>
    BY <1>5 DEF TcpipFrees
  <2>3. p \in Packets /\ refs[p] >= 1
    BY <1>1, <2>1 DEF RefsOK, In
  <2>4. RefsOK'
    BY <2>1, <2>3 DEF RefsOK
  <2>5. ASSUME NEW q \in Packets
        PROVE  refs'[q] = In(q \in held') + Occurrences(fifo, q) + In(q = waiting) + In(q = packet)
    BY <1>1, <2>1, <2>3 DEF RefsOK, In
  <2> QED BY <2>2, <2>4, <2>5 DEF RefsAreExact, Occurrences
<1>6. CASE TcpipPosts
  <2>1. /\ fifo' = Append(fifo, waiting) /\ waiting' = NoPacket /\ waiting \in Packets
        /\ UNCHANGED <<refs, held, packet>>
    BY <1>6 DEF TcpipPosts, MailboxesOK
  <2>2. ASSUME NEW q \in Packets
        PROVE  refs[q] = In(q \in held) + Occurrences(fifo', q) + In(q = waiting') + In(q = packet)
    <3>1. Occurrences(fifo', q) = Occurrences(fifo, q) + In(waiting = q)
      BY <2>1, OccurrencesAppend DEF MailboxesOK
    <3> QED BY <1>1, <2>1, <3>1 DEF In
  <2> QED BY <2>1, <2>2 DEF RefsOK, RefsAreExact, Occurrences
<1>7. CASE TransmitFetches
  <2>1. /\ fifo # <<>> /\ fifo' = Tail(fifo) /\ packet' = Head(fifo) /\ packet = NoPacket
        /\ UNCHANGED <<refs, held, waiting>>
    BY <1>7 DEF TransmitFetches, MailboxesOK
  <2>2. ASSUME NEW q \in Packets
        PROVE  refs[q] = In(q \in held) + Occurrences(fifo', q) + In(q = waiting) + In(q = packet')
    <3>1. fifo \in Seq(Packets) /\ fifo' \in Seq(Packets)
      BY <2>1 DEF MailboxesOK
    <3>2. Occurrences(fifo, q) = Occurrences(fifo', q) + In(Head(fifo) = q)
      BY <2>1, <3>1, OccurrencesTail
    <3>3. Occurrences(fifo', q) \in Nat
      BY <3>1, OccurrencesFinite
    <3> QED BY <1>1, <2>1, <3>2, <3>3 DEF In
  <2> QED BY <2>1, <2>2 DEF RefsOK, RefsAreExact, Occurrences
<1>8. CASE TransmitFrees
  <2>1. /\ packet \in Packets /\ packet' = NoPacket
        /\ refs' = [refs EXCEPT ![packet] = @ - 1]
        /\ UNCHANGED <<held, fifo, waiting>>
    BY <1>8 DEF TransmitFrees, MailboxesOK
  <2>2. refs[packet] >= 1
    BY <1>1, <2>1 DEF RefsOK, In
  <2>3. RefsOK'
    BY <2>1, <2>2 DEF RefsOK
  <2>4. ASSUME NEW q \in Packets
        PROVE  refs'[q] = In(q \in held) + Occurrences(fifo, q) + In(q = waiting) + In(q = packet')
    BY <1>1, <2>1, <2>2 DEF RefsOK, In
  <2> QED BY <2>1, <2>3, <2>4 DEF RefsAreExact, Occurrences
<1>9. CASE CreateFifo \/ InitializeDriver \/ SetByPassOn
  <2>1. UNCHANGED <<refs, held, fifo, waiting, packet>>
    BY <1>9 DEF CreateFifo, InitializeDriver, SetByPassOn
  <2> QED BY <2>1 DEF RefsOK, RefsAreExact
<1>10. CASE SetNetwork \/ RegisterFunction \/ RegisterArgument \/ RequestStart \/
         InterfaceUp \/ InterfaceFails \/ Connected \/ QuitConsole
  <2>1. UNCHANGED <<refs, held, fifo, waiting, packet>>
    BY <1>10 DEF SetNetwork, RegisterFunction, RegisterArgument, RequestStart,
       InterfaceUp, InterfaceFails, Connected, QuitConsole
  <2> QED BY <2>1 DEF RefsOK, RefsAreExact
<1>11. CASE RemoveNetif \/ StopInterface \/ UnRegisterFunction \/ UnRegisterArgument \/
         SetByPassOff \/ CloseDriver \/ RefuseRequests \/ QuitTransmit \/ WaitQuit \/
         FreeFifo
  <2>1. UNCHANGED <<refs, held, fifo, waiting, packet>>
    BY <1>11 DEF RemoveNetif, StopInterface, UnRegisterFunction, UnRegisterArgument,
       SetByPassOff, CloseDriver, RefuseRequests, QuitTransmit, WaitQuit, FreeFifo
  <2> QED BY <2>1 DEF RefsOK, RefsAreExact
<1>12. CASE TcpipGetsAddress \/ TransmitBoots \/ TransmitTimesOut \/ ReceiveStatus \/
         ReceivePacket
  <2>1. UNCHANGED <<refs, held, fifo, waiting, packet>>
    BY <1>12 DEF TcpipGetsAddress, TransmitBoots, TransmitTimesOut, ReceiveStatus,
       ReceivePacket
  <2> QED BY <2>1 DEF RefsOK, RefsAreExact
<1>13. CASE AppLoops \/ UNCHANGED vars
  <2>1. UNCHANGED <<refs, held, fifo, waiting, packet>>
    BY <1>13 DEF AppLoops, vars
  <2> QED BY <2>1 DEF RefsOK, RefsAreExact
<1> QED
  BY <1>2, <1>3, <1>4, <1>5, <1>6, <1>7, <1>8, <1>9, <1>10, <1>11, <1>12, <1>13 DEF Next,
     Add, Start, Remove, Tcpip, Transmit, Receive

-----------------------------------------------------------------------------
(* The theorems.                                                           *)

(* The four threads, in any order the priorities admit, keep the invariant. *)
THEOREM Invariance == Spec => []IInv
<1>1. Init => IInv
  BY Initially
<1>2. IInv /\ [Next]_vars => IInv'
  BY FlagsSteps, AppSteps, CountSteps, NetifSteps, CallbacksSteps, NullSteps, MailboxesSteps,
     LifeSteps, RefsSteps DEF IInv
<1> QED BY <1>1, <1>2, PTL DEF Spec

(* The state of application, threads, mailboxes and packets is what the    *)
(* declarations say; no packet ever has more than two references.          *)
THEOREM TypeCorrect == Spec => []TypeOK
<1>1. ASSUME IInv PROVE TypeOK
  BY <1>1 DEF IInv, FlagsOK, AppOK, CountOK, MailboxesOK, RefsOK, TypeOK
<1> QED BY <1>1, Invariance, PTL

(* lwIP, the mailbox, the thread that waits to post and the transmit       *)
(* thread never free a packet twice or forget one.                         *)
THEOREM RefsAreExactAlways == Spec => []RefsAreExact
<1>1. IInv => RefsAreExact
  BY DEF IInv
<1> QED BY <1>1, Invariance, PTL

(* The callbacks of the receive thread find what the application registers *)
(* and unregisters in several steps.                                       *)
THEOREM NoNullUsedAlways == Spec => []NoNullUsed
<1>1. IInv => NoNullUsed
  BY DEF IInv
<1> QED BY <1>1, Invariance, PTL

(* TransmitFifo is deleted empty, with no thread at it: the priorities and *)
(* the refusal of requests see to it, whatever is queued when it begins.   *)
THEOREM FifoAtRestAlways == Spec => []FifoAtRest
<1>1. ASSUME IInv PROVE FifoAtRest
  BY <1>1 DEF IInv, LifeOK, IsQuiet, FifoAtRest
<1> QED BY <1>1, Invariance, PTL

==============================================================================
