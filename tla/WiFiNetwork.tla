---------------------------- MODULE WiFiNetwork ----------------------------
(***************************************************************************)
(* The lwIP network interfaces over the driver (WiFiNetwork) in the life   *)
(* the application gives them (AppTaskFunction): add the soft access point *)
(* and the station, start the one, connect the other, use them, remove     *)
(* them.  Four threads take part: the application task (priority 16), the  *)
(* TCP/IP and the transmit thread (17) and the receive thread of the       *)
(* driver (18), on one core.  A thread of higher priority that is ready    *)
(* runs before the application does; how the last mailbox and thread are   *)
(* deleted relies on it.                                                   *)
(*                                                                         *)
(* The driver is abstracted to its count of interfaces, whether it accepts *)
(* requests, and the callbacks registered with it; a request takes some    *)
(* time and succeeds or fails.  EmwApiCore.tla has its opening and closing.*)
(***************************************************************************)
EXTENDS Naturals, Sequences, FiniteSets

CONSTANTS
    Packets,       \* the packet buffers of lwIP (pbuf)
    NoPacket,
    FifoCapacity,  \* of TransmitFifo
    InboxCapacity  \* of the queue of the TCP/IP thread

ASSUME PacketsAssumption == NoPacket \notin Packets /\ IsFiniteSet(Packets)
ASSUME CapacityAssumption == FifoCapacity \in Nat \ {0} /\ InboxCapacity \in Nat \ {0}

Interfaces == {"SOFTAP", "STATION"}

VARIABLES
    app,         \* where the application task is
    cur,         \* the interface it is adding, starting or removing
    count,       \* numberOfInterfacesRunning()
    usable,      \* the driver accepts requests
    netlink,     \* netlinkInputCallback is InputFromDriver
    networks,    \* WiFiNetworks[]: set for these interfaces
    functions,   \* wiFiStatusCallbacks[]: set for these interfaces
    arguments,   \* wiFiStatusCallbackArgPtrs[]: set for these interfaces
    driverUp,    \* driverInterfaceUp of these interfaces is true
    started,     \* history: the module has been told to start or join these
    netif,       \* of each interface: "absent", "added", "up", "removed"
    addresses,   \* of the station: "v4", "v6" found, or "acquired"
    fifoAlive,   \* TransmitFifo exists
    fifo,        \* TransmitFifo
    waiting,     \* the packet the TCP/IP thread waits to post
    transmit,    \* the transmit thread: "none", "boot", "fetching", "sending"
    packet,      \* the packet it is sending
    quitFlag,    \* TransmitThreadQuitFlag
    inbox,       \* interfaces of received packets the TCP/IP thread has not processed
    refs,        \* reference count of each packet
    held,        \* packets lwIP itself refers to
    nullUsed     \* history: a callback has used a null pointer

driverVars == <<count, usable, netlink>>
callbackVars == <<networks, functions, arguments, driverUp, started>>
fifoVars == <<fifoAlive, fifo, waiting>>
transmitVars == <<transmit, packet, quitFlag>>
packetVars == <<inbox, refs, held>>
vars == <<app, cur, driverVars, callbackVars, netif, addresses, fifoVars, transmitVars,
          packetVars, nullUsed>>

AddSteps == {"add", "driver", "bypassOn"}
StartSteps == {"network", "function", "argument", "request", "waitUp", "dhcp", "waitIp"}
RemoveSteps == {"remove", "stop", "noFunction", "noArgument", "bypassOff", "close",
                "closing", "quit", "waitQuit", "free"}

TypeOK ==
    /\ app \in AddSteps \cup StartSteps \cup RemoveSteps \cup {"running", "done", "halted"}
    /\ cur \in Interfaces
    /\ count \in 0 .. 2 /\ usable \in BOOLEAN /\ netlink \in BOOLEAN
    /\ \A s \in {networks, functions, arguments, driverUp, started} : s \subseteq Interfaces
    /\ netif \in [Interfaces -> {"absent", "added", "up", "removed"}]
    /\ addresses \subseteq {"v4", "v6", "acquired"}
    /\ fifoAlive \in BOOLEAN
    /\ fifo \in Seq(Packets) /\ Len(fifo) <= FifoCapacity
    /\ waiting \in Packets \cup {NoPacket}
    /\ transmit \in {"none", "boot", "fetching", "sending"}
    /\ packet \in Packets \cup {NoPacket}
    /\ quitFlag \in BOOLEAN
    /\ inbox \in Seq(Interfaces) /\ Len(inbox) <= InboxCapacity
    /\ refs \in [Packets -> 0 .. 2]
    /\ held \subseteq Packets
    /\ nullUsed \in BOOLEAN

Init ==
    /\ app = "add" /\ cur = "SOFTAP"
    /\ count = 0 /\ usable = FALSE /\ netlink = FALSE
    /\ networks = {} /\ functions = {} /\ arguments = {} /\ driverUp = {} /\ started = {}
    /\ netif = [i \in Interfaces |-> "absent"]
    /\ addresses = {}
    /\ fifoAlive = FALSE /\ fifo = <<>> /\ waiting = NoPacket
    /\ transmit = "none" /\ packet = NoPacket /\ quitFlag = FALSE
    /\ inbox = <<>>
    /\ refs = [p \in Packets |-> 0] /\ held = {}
    /\ nullUsed = FALSE

-----------------------------------------------------------------------------
(* OutputToDriver().                                                       *)

(* A mistake: the packet is posted whether there is room or not. *)
PostAnyway(p) == fifo' = Append(fifo, p) /\ UNCHANGED waiting

(* sys_mbox_post: a full mailbox makes the sender wait. *)
Post(p) ==
    IF Len(fifo) < FifoCapacity
    THEN fifo' = Append(fifo, p) /\ UNCHANGED waiting
    ELSE waiting' = p /\ UNCHANGED fifo

(* A packet is new, or one that lwIP has kept and sends again. *)
MaySend(p) == refs[p] = 0 \/ (p \in held /\ refs[p] = 1)

(* A mistake: the reference the mailbox has is not counted. *)
OutputUncounted(p) ==
    /\ refs' = [refs EXCEPT ![p] = 1]
    /\ Post(p)

(* The mailbox has a reference of its own. *)
OutputSingle(p) ==
    /\ refs' = [refs EXCEPT ![p] = 2]
    /\ Post(p)

(* A chain is copied to a single packet, when there is memory for it. *)
OutputChain(p) ==
    \/ \E q \in Packets \ {p} :
          /\ refs[q] = 0
          /\ refs' = [refs EXCEPT ![p] = 1, ![q] = 1]
          /\ Post(q)
    \/ /\ refs' = [refs EXCEPT ![p] = 1]
       /\ UNCHANGED <<fifo, waiting>>

OutputToDriver(p) ==
    /\ MaySend(p)
    /\ held' = held \cup {p}
    /\ OutputSingle(p) \/ OutputChain(p)

-----------------------------------------------------------------------------
(* The application task.                                                   *)

(* No thread of higher priority is ready.  In a request to a driver that   *)
(* accepts it the transmit thread waits for the answer.                    *)
AppMayRun ==
    /\ transmit # "boot"
    /\ ~(transmit = "fetching" /\ fifo # <<>>)
    /\ ~(transmit = "sending" /\ ~usable)
    /\ IF waiting = NoPacket THEN inbox = <<>> ELSE Len(fifo) = FifoCapacity

AppAt(step) == app = step /\ AppMayRun

(* startDriver(): the first interface creates mailbox and thread. *)
CreateFifo ==
    /\ AppAt("add")
    /\ app' = "driver"
    /\ IF count = 0
       THEN fifoAlive' = TRUE /\ transmit' = "boot"
       ELSE UNCHANGED <<fifoAlive, transmit>>
    /\ UNCHANGED <<cur, driverVars, callbackVars, netif, addresses, fifo, waiting,
                   packet, quitFlag, packetVars, nullUsed>>

(* initialize() of the driver; the application halts in ErrorHandler() if  *)
(* it fails. *)
InitializeDriver ==
    /\ AppAt("driver")
    /\ \/ app' = "bypassOn" /\ count' = count + 1 /\ usable' = TRUE
       \/ app' = "halted" /\ UNCHANGED <<count, usable>>
    /\ UNCHANGED <<cur, netlink, callbackVars, netif, addresses, fifoVars, transmitVars,
                   packetVars, nullUsed>>

(* The module answers or not, the callback is set or reset. *)
SetByPass(enable) == netlink' = enable

(* setByPass(1) for the first interface, then lwIP knows it. *)
SetByPassOn ==
    /\ AppAt("bypassOn")
    /\ IF count = 1 THEN SetByPass(TRUE) ELSE UNCHANGED netlink
    /\ netif' = [netif EXCEPT ![cur] = "added"]
    /\ IF cur = "SOFTAP"
       THEN app' = "add" /\ cur' = "STATION"
       ELSE app' = "network" /\ cur' = "SOFTAP"
    /\ UNCHANGED <<count, usable, callbackVars, addresses, fifoVars, transmitVars,
                   packetVars, nullUsed>>

(* startSoftAp() and startConnectionToAp() register the interface, then    *)
(* the callback and its argument... *)
SetNetwork ==
    /\ AppAt("network")
    /\ app' = "function"
    /\ networks' = networks \cup {cur}
    /\ UNCHANGED <<cur, driverVars, functions, arguments, driverUp, started, netif,
                   addresses, fifoVars, transmitVars, packetVars, nullUsed>>

RegisterFunction ==
    /\ AppAt("function")
    /\ app' = "argument"
    /\ functions' = functions \cup {cur}
    /\ UNCHANGED <<cur, driverVars, networks, arguments, driverUp, started, netif,
                   addresses, fifoVars, transmitVars, packetVars, nullUsed>>

RegisterArgument ==
    /\ AppAt("argument")
    /\ app' = "request"
    /\ arguments' = arguments \cup {cur}
    /\ UNCHANGED <<cur, driverVars, networks, functions, driverUp, started, netif,
                   addresses, fifoVars, transmitVars, packetVars, nullUsed>>

(* ...and tell the module; only startSoftAp() clears driverInterfaceUp. *)
RequestStart ==
    /\ AppAt("request")
    /\ app' = "waitUp"
    /\ started' = started \cup {cur}
    /\ driverUp' = IF cur = "SOFTAP" THEN driverUp \ {cur} ELSE driverUp
    /\ UNCHANGED <<cur, driverVars, networks, functions, arguments, netif, addresses,
                   fifoVars, transmitVars, packetVars, nullUsed>>

(* The interface is up within 10 s.  The application halts when it has no  *)
(* DHCP service for the access point... *)
InterfaceUp ==
    /\ AppAt("waitUp")
    /\ cur \in driverUp
    /\ netif' = [netif EXCEPT ![cur] = "up"]
    /\ \/ cur = "SOFTAP" /\ app' = "network" /\ cur' = "STATION"
       \/ cur = "SOFTAP" /\ app' = "halted" /\ UNCHANGED cur
       \/ cur = "STATION" /\ app' = "dhcp" /\ UNCHANGED cur
    /\ UNCHANGED <<driverVars, callbackVars, addresses, fifoVars, transmitVars,
                   packetVars, nullUsed>>

(* ...when the interface is not up in time, and when its address cannot be *)
(* read: after the wait for the access point, before it for the station. *)
InterfaceFails ==
    /\ \/ AppAt("waitUp") /\ (cur = "SOFTAP" \/ cur \notin driverUp)
       \/ AppAt("request") /\ cur = "STATION"
    /\ app' = "halted"
    /\ UNCHANGED <<cur, driverVars, callbackVars, netif, addresses, fifoVars,
                   transmitVars, packetVars, nullUsed>>

(* dhcp_start() is called, and sends, in the application task: it waits    *)
(* for room in the mailbox, or finds no memory for a packet. *)
StartDhcp ==
    /\ AppAt("dhcp")
    /\ app' = "waitIp"
    /\ \/ /\ Len(fifo) < FifoCapacity
          /\ \E p \in Packets : refs[p] = 0 /\ OutputToDriver(p)
       \/ UNCHANGED <<fifo, waiting, refs, held>>
    /\ UNCHANGED <<cur, driverVars, callbackVars, netif, addresses, fifoAlive,
                   transmitVars, inbox, nullUsed>>

Connected ==
    /\ AppAt("waitIp")
    /\ "acquired" \in addresses
    /\ app' = "running"
    /\ UNCHANGED <<cur, driverVars, callbackVars, netif, addresses, fifoVars,
                   transmitVars, packetVars, nullUsed>>

QuitConsole ==
    /\ AppAt("running")
    /\ app' = "remove"
    /\ UNCHANGED <<cur, driverVars, callbackVars, netif, addresses, fifoVars,
                   transmitVars, packetVars, nullUsed>>

(* netif_remove(): lwIP forgets the interface, then calls                  *)
(* UnInitializeWiFiNetif().                                                *)
RemoveNetif ==
    /\ AppAt("remove")
    /\ app' = "stop"
    /\ netif' = [netif EXCEPT ![cur] = "removed"]
    /\ UNCHANGED <<cur, driverVars, callbackVars, addresses, fifoVars, transmitVars,
                   packetVars, nullUsed>>

(* stopDriver(): disconnect() or stopSoftAp(), which may fail, and the     *)
(* callback is unregistered.  The module may still report the interface.   *)
StopInterface ==
    /\ AppAt("stop")
    /\ app' = "noFunction"
    /\ UNCHANGED <<cur, driverVars, callbackVars, netif, addresses, fifoVars,
                   transmitVars, packetVars, nullUsed>>

(* A mistake: the argument is reset before the function. *)
UnRegisterArgumentFirst ==
    /\ AppAt("noFunction")
    /\ app' = "noArgument"
    /\ arguments' = arguments \ {cur}
    /\ UNCHANGED <<cur, driverVars, networks, functions, driverUp, started, netif,
                   addresses, fifoVars, transmitVars, packetVars, nullUsed>>

UnRegisterFunction ==
    /\ AppAt("noFunction")
    /\ app' = "noArgument"
    /\ functions' = functions \ {cur}
    /\ UNCHANGED <<cur, driverVars, networks, arguments, driverUp, started, netif,
                   addresses, fifoVars, transmitVars, packetVars, nullUsed>>

UnRegisterArgument ==
    /\ AppAt("noArgument")
    /\ app' = "bypassOff"
    /\ arguments' = arguments \ {cur}
    /\ UNCHANGED <<cur, driverVars, networks, functions, driverUp, started, netif,
                   addresses, fifoVars, transmitVars, packetVars, nullUsed>>

(* unInitializeDriver(): the last interface ends the bypass. *)
SetByPassOff ==
    /\ AppAt("bypassOff")
    /\ app' = "close"
    /\ IF count = 1 THEN SetByPass(FALSE) ELSE UNCHANGED netlink
    /\ UNCHANGED <<cur, count, usable, callbackVars, netif, addresses, fifoVars,
                   transmitVars, packetVars, nullUsed>>

(* unInitialize() of the driver; the last one ends the receive thread. *)
CloseDriver ==
    /\ AppAt("close")
    /\ count' = count - 1
    /\ IF count = 1
       THEN app' = "closing" /\ UNCHANGED cur
       ELSE app' = "remove" /\ cur' = "SOFTAP"
    /\ UNCHANGED <<usable, netlink, callbackVars, netif, addresses, fifoVars,
                   transmitVars, packetVars, nullUsed>>

(* Requests are refused from now on, and the one in progress is waited for. *)
RefuseRequests ==
    /\ AppAt("closing")
    /\ app' = "quit"
    /\ usable' = FALSE
    /\ UNCHANGED <<cur, count, netlink, callbackVars, netif, addresses, fifoVars,
                   transmitVars, packetVars, nullUsed>>

(* DeleteTransmitFifo(). *)
QuitTransmit ==
    /\ AppAt("quit")
    /\ app' = "waitQuit"
    /\ quitFlag' = TRUE
    /\ UNCHANGED <<cur, driverVars, callbackVars, netif, addresses, fifoVars, transmit,
                   packet, packetVars, nullUsed>>

(* A mistake: the acknowledgement of the transmit thread is not waited for. *)
WaitNoQuit ==
    /\ AppAt("waitQuit")
    /\ app' = "free"
    /\ UNCHANGED <<cur, driverVars, callbackVars, netif, addresses, fifoVars,
                   transmitVars, packetVars, nullUsed>>

WaitQuit ==
    /\ AppAt("waitQuit")
    /\ ~quitFlag
    /\ app' = "free"
    /\ UNCHANGED <<cur, driverVars, callbackVars, netif, addresses, fifoVars,
                   transmitVars, packetVars, nullUsed>>

(* sys_mbox_free(). *)
FreeFifo ==
    /\ AppAt("free")
    /\ app' = "done"
    /\ fifoAlive' = FALSE
    /\ UNCHANGED <<cur, driverVars, callbackVars, netif, addresses, fifo, waiting,
                   transmitVars, packetVars, nullUsed>>

-----------------------------------------------------------------------------
(* The TCP/IP thread.                                                      *)

TcpipReady == waiting = NoPacket

(* It sends on an interface that is up. *)
TcpipSends ==
    /\ TcpipReady
    /\ \E i \in Interfaces : netif[i] = "up"
    /\ \E p \in Packets : OutputToDriver(p)
    /\ UNCHANGED <<app, cur, driverVars, callbackVars, netif, addresses, fifoAlive,
                   transmitVars, inbox, nullUsed>>

(* It processes a received packet, and may answer on the interface it came *)
(* from even when lwIP has forgotten that interface meanwhile. *)
TcpipProcesses ==
    /\ TcpipReady
    /\ inbox # <<>> /\ inbox' = Tail(inbox)
    /\ \/ \E p \in Packets : OutputToDriver(p)
       \/ UNCHANGED <<fifo, waiting, refs, held>>
    /\ UNCHANGED <<app, cur, driverVars, callbackVars, netif, addresses, fifoAlive,
                   transmitVars, nullUsed>>

TcpipFrees ==
    /\ TcpipReady
    /\ \E p \in held :
          /\ held' = held \ {p}
          /\ refs' = [refs EXCEPT ![p] = @ - 1]
    /\ UNCHANGED <<app, cur, driverVars, callbackVars, netif, addresses, fifoVars,
                   transmitVars, inbox, nullUsed>>

(* The mailbox has room again. *)
TcpipPosts ==
    /\ waiting # NoPacket
    /\ Len(fifo) < FifoCapacity
    /\ fifo' = Append(fifo, waiting)
    /\ waiting' = NoPacket
    /\ UNCHANGED <<app, cur, driverVars, callbackVars, netif, addresses, fifoAlive,
                   transmitVars, packetVars, nullUsed>>

(* NetifStatusCallback(): the station gets an IPv4 or a routable IPv6      *)
(* address; only both together count. *)
TcpipGetsAddress ==
    /\ TcpipReady
    /\ netif["STATION"] = "up"
    /\ \E version \in {"v4", "v6"} :
          LET found == addresses \cup {version}
          IN  addresses' = IF {"v4", "v6"} \subseteq found THEN {"acquired"} ELSE found
    /\ UNCHANGED <<app, cur, driverVars, callbackVars, netif, fifoVars, transmitVars,
                   packetVars, nullUsed>>

-----------------------------------------------------------------------------
(* The transmit thread: TranmitThreadFunction() and PushToDriver().        *)

TransmitBoots ==
    /\ transmit = "boot"
    /\ transmit' = "fetching"
    /\ quitFlag' = FALSE
    /\ UNCHANGED <<app, cur, driverVars, callbackVars, netif, addresses, fifoVars,
                   packet, packetVars, nullUsed>>

(* A mistake: nothing is fetched once the driver refuses requests. *)
TransmitFetchesUsable ==
    /\ transmit = "fetching"
    /\ fifo # <<>> /\ usable
    /\ packet' = Head(fifo)
    /\ fifo' = Tail(fifo)
    /\ transmit' = "sending"
    /\ UNCHANGED <<app, cur, driverVars, callbackVars, netif, addresses, fifoAlive,
                   waiting, quitFlag, packetVars, nullUsed>>

TransmitFetches ==
    /\ transmit = "fetching"
    /\ fifo # <<>>
    /\ packet' = Head(fifo)
    /\ fifo' = Tail(fifo)
    /\ transmit' = "sending"
    /\ UNCHANGED <<app, cur, driverVars, callbackVars, netif, addresses, fifoAlive,
                   waiting, quitFlag, packetVars, nullUsed>>

(* The flag is read between two packets, and cleared to acknowledge. *)
Loop ==
    /\ transmit' = IF quitFlag THEN "none" ELSE "fetching"
    /\ quitFlag' = FALSE

(* output() has returned; the packet is freed whether it was sent or not. *)
TransmitFrees ==
    /\ transmit = "sending"
    /\ refs' = [refs EXCEPT ![packet] = @ - 1]
    /\ packet' = NoPacket
    /\ Loop
    /\ UNCHANGED <<app, cur, driverVars, callbackVars, netif, addresses, fifoVars,
                   inbox, held, nullUsed>>

(* A mistake: the thread does not look at the flag when nothing comes. *)
TransmitWaitsOn ==
    /\ transmit = "fetching"
    /\ fifo = <<>>
    /\ UNCHANGED vars

(* Nothing comes for 500 ms. *)
TransmitTimesOut ==
    /\ transmit = "fetching"
    /\ fifo = <<>>
    /\ Loop
    /\ UNCHANGED <<app, cur, driverVars, callbackVars, netif, addresses, fifoVars,
                   packet, packetVars, nullUsed>>

-----------------------------------------------------------------------------
(* The receive thread of the driver; nothing it calls here blocks.  The    *)
(* module is quiet about an interface until it is told to start it.        *)

(* ProcessWiFiStatusEvent() and InformOfDriverStatus(). *)
ReceiveStatus ==
    /\ count > 0
    /\ \E i \in started \cap functions :
          IF i \in arguments
          THEN /\ \/ driverUp' = driverUp \cup {i}
                  \/ driverUp' = driverUp \ {i}
               /\ UNCHANGED nullUsed
          ELSE nullUsed' = TRUE /\ UNCHANGED driverUp
    /\ UNCHANGED <<app, cur, driverVars, networks, functions, arguments, started, netif,
                   addresses, fifoVars, transmitVars, packetVars>>

(* ProcessWiFiNetlinkInput(), InputFromDriver() and tcpip_input(), which   *)
(* drops the packet when the queue of the TCP/IP thread is full. *)
ReceivePacket ==
    /\ count > 0 /\ netlink
    /\ Len(inbox) < InboxCapacity
    /\ \E i \in started :
          IF i \in networks
          THEN inbox' = Append(inbox, i) /\ UNCHANGED nullUsed
          ELSE nullUsed' = TRUE /\ UNCHANGED inbox
    /\ UNCHANGED <<app, cur, driverVars, callbackVars, netif, addresses, fifoVars,
                   transmitVars, refs, held>>

-----------------------------------------------------------------------------
Add == CreateFifo \/ InitializeDriver \/ SetByPassOn

Start ==
    \/ SetNetwork \/ RegisterFunction \/ RegisterArgument \/ RequestStart
    \/ InterfaceUp \/ InterfaceFails \/ StartDhcp \/ Connected

Remove ==
    \/ RemoveNetif \/ StopInterface \/ UnRegisterFunction \/ UnRegisterArgument
    \/ SetByPassOff \/ CloseDriver \/ RefuseRequests \/ QuitTransmit \/ WaitQuit
    \/ FreeFifo

Tcpip == TcpipSends \/ TcpipProcesses \/ TcpipFrees \/ TcpipPosts \/ TcpipGetsAddress

Transmit == TransmitBoots \/ TransmitFetches \/ TransmitFrees \/ TransmitTimesOut

Receive == ReceiveStatus \/ ReceivePacket

(* The application loops for ever at its end, and in ErrorHandler(). *)
AppLoops == app \in {"done", "halted"} /\ AppMayRun /\ UNCHANGED vars

Next == Add \/ Start \/ QuitConsole \/ Remove \/ Tcpip \/ Transmit \/ Receive \/ AppLoops

Spec == Init /\ [][Next]_vars

(* Every thread that is ready runs, the application when no other is. *)
Fairness ==
    /\ WF_vars(Transmit)
    /\ WF_vars(TcpipPosts)
    /\ WF_vars(TcpipProcesses)
    /\ WF_vars(Remove)

FairSpec == Spec /\ Fairness

-----------------------------------------------------------------------------
(* Properties.                                                             *)

In(b) == IF b THEN 1 ELSE 0

(* "The reference count always equals the number of pointers that refer to *)
(* this pbuf" (pbuf.h): lwIP, the mailbox, the thread that waits to post   *)
(* and the transmit thread never free a packet twice or forget one.        *)
RefsAreExact ==
    \A p \in Packets :
        refs[p] = In(p \in held) + Cardinality({k \in DOMAIN fifo : fifo[k] = p})
                  + In(p = waiting) + In(p = packet)

(* The callbacks of the receive thread find their argument and the         *)
(* interface they are about, while the application registers and           *)
(* unregisters them in several steps.                                      *)
NoNullUsed == ~nullUsed

(* Once TransmitFifo is deleted nobody has or will have anything to do     *)
(* with it: it was empty, no thread waits to post, and the transmit thread *)
(* has gone.                                                               *)
FifoAtRest ==
    ~fifoAlive => fifo = <<>> /\ waiting = NoPacket /\ transmit = "none"

(* The threads above the application may starve it, unless the network     *)
(* leaves it some time. *)
TrafficPauses == <>[][~(TcpipSends \/ ReceivePacket \/ TcpipGetsAddress)]_vars

(* netif_remove() of both interfaces returns: the transmit thread          *)
(* acknowledges, its mailbox empty or not.  That the driver, closed on the *)
(* way, stops is assumed here; EmwIoSpi and EmwApiCore say when it does.   *)
RemovalEnds == TrafficPauses => (app = "remove" ~> app = "done")

(* A packet that was accepted gets to the driver and is freed by the       *)
(* transmit thread, removal or not.                                        *)
Queued(p) == p \in {fifo[k] : k \in DOMAIN fifo} \/ p \in {waiting, packet}

PacketsLeave == \A p \in Packets : Queued(p) ~> ~Queued(p)
=============================================================================
