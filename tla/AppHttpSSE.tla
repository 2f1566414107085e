----------------------------- MODULE AppHttpSSE -----------------------------
(***************************************************************************)
(* The web server of the soft access point: a task that accepts            *)
(* connections and creates a task for each, which answers one request or   *)
(* sends events until the peer has left.                                   *)
(*                                                                         *)
(* The new task is given the address of connected_sock, a variable of the  *)
(* accepting loop, and reads it when it first runs.  All these tasks have  *)
(* the same priority and any of them may run next whenever a task of a     *)
(* higher priority has run, so their steps interleave freely.              *)
(*                                                                         *)
(* Connections are numbered in the order they are made, which is the order *)
(* they are accepted in, and a task is named after the connection it was   *)
(* created for.  The sockets are those of lwIP with LWIP_NETCONN_FULLDUPLEX: *)
(* the lowest descriptor that is free is given out, and one that is closed *)
(* while a task waits at it is free once that task has left it.            *)
(***************************************************************************)
EXTENDS Integers, FiniteSets

CONSTANTS
    MaxConnections,  \* a bound: connections peers make
    NumSockets       \* NUM_SOCKETS: descriptors left for connections

ASSUME BoundsAssumption == MaxConnections \in Nat \ {0} /\ NumSockets \in Nat \ {0}

Connections == 1 .. MaxConnections
NoConnection == 0

VARIABLES
    listener,  \* where the accepting task is
    argument,  \* connected_sock
    accepted,  \* the connection last taken from the backlog
    made,      \* the connection last made
    asked,     \* connections with a request to read
    gone,      \* connections whose peer has reset or closed them
    socket,    \* the connection of each descriptor
    pending,   \* fd_free_pending: closed descriptors a task still waits at
    given,     \* history: the descriptor each connection was accepted with
    task,      \* where the task of each connection is
    sock,      \* the descriptor it has read
    closes,    \* history: how often it has closed a descriptor
    closedBy   \* history: the task that closed each connection

peerVars == <<made, asked, gone>>
taskVars == <<task, sock, closes, closedBy>>
vars == <<listener, argument, accepted, peerVars, socket, pending, given, taskVars>>

NoSocket == -1
Descriptors == 0 .. NumSockets - 1

IsOpen(d) == d \in Descriptors /\ socket[d] # NoConnection /\ d \notin pending
FreeDescriptors == {d \in Descriptors : socket[d] = NoConnection}
Receivers(d) == {t \in Connections : task[t] = "receiving" /\ sock[t] = d}

TypeOK ==
    /\ listener \in {"starting", "accepting", "spawning", "failing", "returned"}
    /\ argument \in Descriptors \cup {NoSocket}
    /\ made \in 0 .. MaxConnections /\ accepted \in 0 .. made
    /\ listener = "spawning" => IsOpen(argument) \/ \E t \in Connections : closedBy[accepted] = t
    /\ asked \subseteq 1 .. made /\ gone \subseteq 1 .. made
    /\ socket \in [Descriptors -> Connections \cup {NoConnection}]
    /\ \A d \in pending : d \in Descriptors /\ socket[d] # NoConnection /\ Receivers(d) # {}
    /\ given \in [Connections -> Descriptors \cup {NoSocket}]
    /\ task \in [Connections ->
                   {"none", "ready", "started", "receiving", "failed", "serving",
                    "streaming", "broken", "closing", "deleted"}]
    /\ sock \in [Connections -> Descriptors \cup {NoSocket}]
    /\ closes \in [Connections -> 0 .. 2]
    /\ closedBy \in [Connections -> Connections \cup {NoConnection}]

Init ==
    /\ listener = "starting" /\ argument = NoSocket /\ accepted = 0
    /\ made = 0 /\ asked = {} /\ gone = {}
    /\ socket = [d \in Descriptors |-> NoConnection] /\ pending = {}
    /\ given = [c \in Connections |-> NoSocket]
    /\ task = [c \in Connections |-> "none"]
    /\ sock = [c \in Connections |-> NoSocket]
    /\ closes = [c \in Connections |-> 0]
    /\ closedBy = [c \in Connections |-> NoConnection]

-----------------------------------------------------------------------------
(* The peers.                                                              *)

(* Nothing runs any more once the accepting task has returned. *)
Running == listener # "returned"

Connect ==
    /\ made < MaxConnections /\ listener \in {"accepting", "spawning"}
    /\ made' = made + 1
    /\ UNCHANGED <<listener, argument, accepted, asked, gone, socket, pending, given, taskVars>>

Request(c) ==
    /\ Running /\ c <= made /\ c \notin gone /\ c \notin asked
    /\ asked' = asked \cup {c}
    /\ UNCHANGED <<listener, argument, accepted, made, gone, socket, pending, given, taskVars>>

Leave(c) ==
    /\ Running /\ c <= made /\ c \notin gone
    /\ gone' = gone \cup {c}
    /\ UNCHANGED <<listener, argument, accepted, made, asked, socket, pending, given, taskVars>>

-----------------------------------------------------------------------------
(* doListenService().                                                      *)

(* Socket, binding and listening, each of which may fail. *)
SetUp ==
    /\ listener = "starting"
    /\ listener' \in {"accepting", "failing"}
    /\ UNCHANGED <<argument, accepted, peerVars, socket, pending, given, taskVars>>

(* A mistake: the result of lwip_accept() is not tested. *)
AcceptUntested ==
    /\ listener = "accepting" /\ accepted < made /\ FreeDescriptors = {}
    /\ accepted' = accepted + 1
    /\ argument' = NoSocket /\ listener' = "spawning"
    /\ UNCHANGED <<made, asked, gone, socket, pending, given, taskVars>>

(* lwip_accept() fails when there is no descriptor, and when the peer has  *)
(* left already and has no address any more.  The connection is deleted.   *)
AcceptFails ==
    /\ listener = "accepting" /\ accepted < made
    /\ FreeDescriptors = {} \/ accepted + 1 \in gone
    /\ accepted' = accepted + 1
    /\ argument' = NoSocket /\ listener' = "failing"
    /\ UNCHANGED <<made, asked, gone, socket, pending, given, taskVars>>

Accept ==
    /\ listener = "accepting" /\ accepted < made
    /\ \E d \in FreeDescriptors :
          /\ \A e \in FreeDescriptors : d <= e
          /\ argument' = d
          /\ socket' = [socket EXCEPT ![d] = accepted + 1]
          /\ given' = [given EXCEPT ![accepted + 1] = d]
    /\ accepted' = accepted + 1 /\ listener' = "spawning"
    /\ UNCHANGED <<made, asked, gone, pending, taskVars>>

(* xTaskCreate() with the address of connected_sock. *)
Spawn ==
    /\ listener = "spawning"
    /\ listener' = "accepting"
    /\ task' = [task EXCEPT ![accepted] = "ready"]
    /\ UNCHANGED <<argument, accepted, peerVars, socket, pending, given, sock, closes, closedBy>>

SpawnFails ==
    /\ listener = "spawning"
    /\ listener' = "failing"
    /\ UNCHANGED <<argument, accepted, peerVars, socket, pending, given, taskVars>>

(* The exception is caught outside the loop and the function of the task   *)
(* returns, which FreeRTOS answers by stopping the system.                 *)
Return ==
    /\ listener = "failing"
    /\ listener' = "returned"
    /\ UNCHANGED <<argument, accepted, peerVars, socket, pending, given, taskVars>>

-----------------------------------------------------------------------------
(* doAcceptService().                                                      *)

Goto(t, pc) == Running /\ task' = [task EXCEPT ![t] = pc]

(* Once the loop is left, anything may be where connected_sock was. *)
Start(t) ==
    /\ task[t] = "ready"
    /\ Goto(t, "started")
    /\ \E d \in IF listener = "failing" THEN Descriptors \cup {NoSocket} ELSE {argument} :
          sock' = [sock EXCEPT ![t] = d]
    /\ UNCHANGED <<listener, argument, accepted, peerVars, socket, pending, given, closes, closedBy>>

(* The buffer is allocated, or not; lwip_recv() keeps an open descriptor.  *)
Prepare(t) ==
    /\ task[t] = "started"
    /\ \/ Goto(t, "closing")
       \/ Goto(t, IF IsOpen(sock[t]) THEN "receiving" ELSE "failed")
    /\ UNCHANGED <<listener, argument, accepted, peerVars, socket, pending, given, sock, closes, closedBy>>

(* lwip_recv() leaves the descriptor, which may be the last thing it waited for. *)
LeaveDescriptor(t) ==
    IF sock[t] \in pending /\ Receivers(sock[t]) = {t}
    THEN /\ pending' = pending \ {sock[t]}
         /\ socket' = [socket EXCEPT ![sock[t]] = NoConnection]
    ELSE UNCHANGED <<pending, socket>>

Receive(t) ==
    /\ task[t] = "receiving"
    /\ sock[t] \notin pending /\ socket[sock[t]] \in asked
    /\ asked' = asked \ {socket[sock[t]]}
    /\ Goto(t, "serving")
    /\ LeaveDescriptor(t)
    /\ UNCHANGED <<listener, argument, accepted, made, gone, given, sock, closes, closedBy>>

ReceiveFails(t) ==
    /\ task[t] = "receiving"
    /\ sock[t] \in pending \/ socket[sock[t]] \in gone
    /\ Goto(t, "failed")
    /\ LeaveDescriptor(t)
    /\ UNCHANGED <<listener, argument, accepted, peerVars, given, sock, closes, closedBy>>

CanSend(d) == IsOpen(d) /\ socket[d] \notin gone

(* A page or an icon is sent, or not, and the task is done; the stream of  *)
(* events begins if its header could be sent.                              *)
Serve(t) ==
    /\ task[t] = "serving"
    /\ \/ Goto(t, "closing")
       \/ CanSend(sock[t]) /\ Goto(t, "streaming")
    /\ UNCHANGED <<listener, argument, accepted, peerVars, socket, pending, given, sock, closes, closedBy>>

(* A mistake: an event that could not be sent goes unnoticed. *)
SendEventUnnoticed(t) ==
    /\ task[t] = "streaming" /\ ~CanSend(sock[t])
    /\ UNCHANGED vars

(* sendEvent() that fails; those that succeed change nothing here. *)
SendEventFails(t) ==
    /\ task[t] = "streaming" /\ ~CanSend(sock[t])
    /\ Goto(t, "broken")
    /\ UNCHANGED <<listener, argument, accepted, peerVars, socket, pending, given, sock, closes, closedBy>>

(* Client::close(): lwip_shutdown() and lwip_close(). *)
Close(t, d) ==
    /\ closes' = [closes EXCEPT ![t] = @ + 1]
    /\ IF IsOpen(d)
       THEN /\ closedBy' = [closedBy EXCEPT ![socket[d]] = t]
            /\ IF Receivers(d) = {}
               THEN socket' = [socket EXCEPT ![d] = NoConnection] /\ UNCHANGED pending
               ELSE pending' = pending \cup {d} /\ UNCHANGED socket
       ELSE UNCHANGED <<closedBy, socket, pending>>

(* A receive or an event that failed closes the connection at once ... *)
CloseFailed(t) ==
    /\ task[t] \in {"failed", "broken"}
    /\ Goto(t, "closing")
    /\ Close(t, sock[t])
    /\ UNCHANGED <<listener, argument, accepted, peerVars, given, sock>>

(* A mistake: the descriptor is read again from connected_sock. *)
EndOfArgument(t) ==
    /\ task[t] = "closing"
    /\ Goto(t, "deleted")
    /\ Close(t, argument)
    /\ UNCHANGED <<listener, argument, accepted, peerVars, given, sock>>

(* ... and every task closes its descriptor when it ends. *)
End(t) ==
    /\ task[t] = "closing"
    /\ Goto(t, "deleted")
    /\ Close(t, sock[t])
    /\ UNCHANGED <<listener, argument, accepted, peerVars, given, sock>>

-----------------------------------------------------------------------------

Listen == SetUp \/ Spawn \/ SpawnFails \/ Return \/ Accept \/ AcceptFails

AcceptService(t) ==
    \/ Start(t) \/ Prepare(t) \/ Receive(t) \/ ReceiveFails(t)
    \/ Serve(t) \/ SendEventFails(t) \/ CloseFailed(t) \/ End(t)

Next ==
    \/ Listen \/ Connect
    \/ \E c \in Connections : AcceptService(c) \/ Request(c) \/ Leave(c)

Spec == Init /\ [][Next]_vars

(* The tasks run when they can.  Nothing is assumed of the peers. *)
FairSpec ==
    /\ Spec
    /\ WF_vars(Listen)
    /\ \A t \in Connections : WF_vars(AcceptService(t))

-----------------------------------------------------------------------------
(* Properties.                                                             *)

(* A task that has read the descriptor of another connection. *)
IsMisled(t) == task[t] \notin {"none", "ready"} /\ sock[t] # given[t]

(* The connection of a client is closed by its own task.  Another one does *)
(* it only if it has read a descriptor that is not its own, has closed     *)
(* twice, or has had its own connection closed by another before.          *)
ClosedByItsTask ==
    \A c \in Connections :
        LET t == closedBy[c]
        IN  t \notin {NoConnection, c} =>
                IsMisled(t) \/ closes[t] = 2 \/ closedBy[t] \notin {NoConnection, t}

IsHeld(c) == \E d \in Descriptors : socket[d] = c

(* A connection whose peer has left gives its descriptor back, unless a    *)
(* task has read a wrong descriptor or the accepting task has returned.    *)
PeerGoneIsFreed ==
    \A c \in Connections :
        (IsHeld(c) /\ c \in gone) ~>
            ~IsHeld(c) \/ listener = "returned" \/ \E t \in Connections : IsMisled(t)

(* "A function that implements a task must not exit or attempt to return   *)
(* to its caller" (port.c:846): whatever becomes of a set-up that fails,   *)
(* the accepting task does not return on account of one connection.        *)
ListenerNeverReturns == accepted > 0 => listener # "returned"
=============================================================================
