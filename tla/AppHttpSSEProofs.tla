-------------------------- MODULE AppHttpSSEProofs --------------------------
(***************************************************************************)
(* Proofs about AppHttpSSE, for any number of connections and sockets.     *)
(***************************************************************************)
EXTENDS AppHttpSSE, TLAPS

USE BoundsAssumption

-----------------------------------------------------------------------------
(* The inductive invariant.                                                *)

(* The types, but for the bound of closes. *)
TypesOK ==
    /\ listener \in {"starting", "accepting", "spawning", "failing", "returned"}
    /\ argument \in Descriptors \cup {NoSocket}
    /\ made \in 0 .. MaxConnections /\ accepted \in 0 .. made
    /\ asked \subseteq 1 .. made /\ gone \subseteq 1 .. made
    /\ socket \in [Descriptors -> Connections \cup {NoConnection}]
    /\ pending \subseteq Descriptors
    /\ given \in [Connections -> Descriptors \cup {NoSocket}]
    /\ task \in [Connections ->
                   {"none", "ready", "started", "receiving", "failed", "serving",
                    "streaming", "broken", "closing", "deleted"}]
    /\ sock \in [Connections -> Descriptors \cup {NoSocket}]
    /\ closes \in [Connections -> Nat]
    /\ closedBy \in [Connections -> Connections \cup {NoConnection}]

(* Nothing is known of a connection before it is accepted, and its task is *)
(* created when the one before it has been.                                *)
AcceptedOK ==
    /\ \A c \in Connections :
          /\ c > accepted => given[c] = NoSocket /\ task[c] = "none" /\ closedBy[c] = NoConnection
          /\ task[c] # "none" => given[c] # NoSocket
    /\ listener = "spawning" =>
          /\ accepted # 0 /\ argument = given[accepted]
          /\ given[accepted] # NoSocket /\ task[accepted] = "none"

(* A task closes its descriptor once after a failure and once at its end. *)
ClosesOK ==
    \A t \in Connections :
        /\ closes[t] <= 2
        /\ closes[t] = 2 => task[t] = "deleted"
        /\ closes[t] # 0 => task[t] \in {"closing", "deleted"}

(* A connection has the descriptor it was given until it is closed, and    *)
(* longer while a task waits at that descriptor.                           *)
SocketsOK ==
    /\ \A c \in Connections :
          given[c] # NoSocket /\ closedBy[c] = NoConnection => socket[given[c]] = c
    /\ \A d \in Descriptors :
          socket[d] # NoConnection =>
              /\ given[socket[d]] = d
              /\ d \in pending <=> closedBy[socket[d]] # NoConnection
    /\ \A d \in pending : socket[d] # NoConnection

(* Descriptors with a task that waits at them are not free. *)
ReceiversOK ==
    /\ \A t \in Connections :
          task[t] = "receiving" =>
              /\ sock[t] \in Descriptors
              /\ socket[sock[t]] # NoConnection
    /\ \A d \in pending : Receivers(d) # {}

(* The closing of a connection is counted. *)
CountedOK ==
    \A c \in Connections : closedBy[c] # NoConnection => closes[closedBy[c]] # 0

IInv ==
    /\ TypesOK /\ AcceptedOK /\ ClosesOK /\ SocketsOK /\ ReceiversOK /\ CountedOK
    /\ ClosedByItsTask

-----------------------------------------------------------------------------
(* The initial states.                                                     *)

LEMMA Initially == Init => IInv
<1> SUFFICES ASSUME Init PROVE IInv
  OBVIOUS
<1> USE DEF Init, NoSocket, NoConnection, Connections, Descriptors
<1>1. TypesOK
  BY DEF TypesOK
<1>2. AcceptedOK /\ ClosesOK /\ CountedOK
  BY DEF AcceptedOK, ClosesOK, CountedOK
<1>3. SocketsOK /\ ReceiversOK
  BY DEF SocketsOK, ReceiversOK
<1>4. ClosedByItsTask
  BY DEF ClosedByItsTask
<1> QED BY <1>1, <1>2, <1>3, <1>4 DEF IInv

-----------------------------------------------------------------------------
(* The steps.                                                              *)

(* A task that closes its descriptor, which may be of no open connection.   *)
ClosesNothing(t) == ~IsOpen(sock[t]) /\ UNCHANGED <<closedBy, socket, pending>>

ClosesAndFrees(t) ==
    /\ IsOpen(sock[t]) /\ Receivers(sock[t]) = {}
    /\ sock[t] \in Descriptors /\ socket[sock[t]] \in Connections
    /\ closedBy' = [closedBy EXCEPT ![socket[sock[t]]] = t]
    /\ socket' = [socket EXCEPT ![sock[t]] = NoConnection] /\ pending' = pending

ClosesAndWaits(t) ==
    /\ IsOpen(sock[t]) /\ Receivers(sock[t]) # {}
    /\ sock[t] \in Descriptors /\ socket[sock[t]] \in Connections
    /\ closedBy' = [closedBy EXCEPT ![socket[sock[t]]] = t]
    /\ socket' = socket /\ pending' = pending \cup {sock[t]}

IsClosing(t) ==
    /\ task[t] \in {"failed", "broken", "closing"}
    /\ \/ task[t] = "closing" /\ task' = [task EXCEPT ![t] = "deleted"]
       \/ task[t] # "closing" /\ task' = [task EXCEPT ![t] = "closing"]
    /\ closes' = [closes EXCEPT ![t] = @ + 1]
    /\ UNCHANGED <<listener, argument, accepted, made, asked, gone, given, sock>>

LEMMA Closing ==
    ASSUME TypesOK, NEW t \in Connections, CloseFailed(t) \/ End(t)
    PROVE  IsClosing(t) /\ (ClosesNothing(t) \/ ClosesAndFrees(t) \/ ClosesAndWaits(t))
<1>1. IsClosing(t) /\ Close(t, sock[t])
  <2>1. CASE CloseFailed(t)
    BY <2>1 DEF CloseFailed, Close, Goto, peerVars, IsClosing
  <2>2. CASE End(t)
    BY <2>2 DEF End, Close, Goto, peerVars, IsClosing
  <2> QED BY <2>1, <2>2
<1>2. IsOpen(sock[t]) => sock[t] \in Descriptors /\ socket[sock[t]] \in Connections
  BY DEF IsOpen, TypesOK
<1> QED BY <1>1, <1>2 DEF Close, ClosesNothing, ClosesAndFrees, ClosesAndWaits

(* A task that stops waiting at its descriptor. *)
Stays(t) ==
    /\ sock[t] \notin pending \/ Receivers(sock[t]) # {t}
    /\ UNCHANGED <<pending, socket>>

Frees(t) ==
    /\ sock[t] \in pending /\ Receivers(sock[t]) = {t}
    /\ pending' = pending \ {sock[t]}
    /\ socket' = [socket EXCEPT ![sock[t]] = NoConnection]

HasReceived(t) ==
    /\ task[t] = "receiving"
    /\ \E pc \in {"serving", "failed"} : task' = [task EXCEPT ![t] = pc]
    /\ UNCHANGED <<listener, argument, accepted, given, sock, closes, closedBy>>

LEMMA Leaving ==
    ASSUME NEW t \in Connections, Receive(t) \/ ReceiveFails(t)
    PROVE  HasReceived(t) /\ (Stays(t) \/ Frees(t))
<1>1. CASE Receive(t)
  BY <1>1 DEF Receive, LeaveDescriptor, Goto, HasReceived, Stays, Frees
<1>2. CASE ReceiveFails(t)
  BY <1>2 DEF ReceiveFails, LeaveDescriptor, Goto, peerVars, HasReceived, Stays, Frees
<1> QED BY <1>1, <1>2

LEMMA TypesSteps ==
    ASSUME TypesOK, ReceiversOK, AcceptedOK, [Next]_vars
    PROVE  TypesOK'
<1> USE DEF TypesOK, peerVars, taskVars, Goto, NoSocket, NoConnection, Connections,
           Descriptors, IsOpen, FreeDescriptors
<1>1. CASE SetUp
  BY <1>1 DEF SetUp
<1>2. CASE Spawn
  BY <1>2 DEF Spawn, AcceptedOK
<1>3. CASE SpawnFails
  BY <1>3 DEF SpawnFails
<1>4. CASE Return
  BY <1>4 DEF Return
<1>5. CASE Accept
  <2>1. /\ accepted < made /\ listener' = "spawning" /\ accepted' = accepted + 1
        /\ UNCHANGED <<made, asked, gone, pending, task, sock, closes, closedBy>>
    BY <1>5 DEF Accept
  <2>2. PICK d \in Descriptors :
            /\ argument' = d
            /\ socket' = [socket EXCEPT ![d] = accepted + 1]
            /\ given' = [given EXCEPT ![accepted + 1] = d]
    BY <1>5 DEF Accept
  <2>3. accepted + 1 \in Connections /\ accepted' \in 0 .. made'
    BY <2>1
  <2>4. /\ socket' \in [Descriptors -> Connections \cup {NoConnection}]
        /\ given' \in [Connections -> Descriptors \cup {NoSocket}]
    BY <2>2, <2>3
  <2> QED BY <2>1, <2>2, <2>3, <2>4
<1>6. CASE AcceptFails
  BY <1>6 DEF AcceptFails
<1>7. CASE Connect
  BY <1>7 DEF Connect
<1>8. ASSUME NEW t \in Connections, Start(t) PROVE TypesOK'
  BY <1>8 DEF Start
<1>9. ASSUME NEW t \in Connections, Prepare(t) PROVE TypesOK'
  BY <1>9 DEF Prepare
<1>10. ASSUME NEW t \in Connections, Receive(t) PROVE TypesOK'
  BY <1>10 DEF Receive, LeaveDescriptor, ReceiversOK
<1>11. ASSUME NEW t \in Connections, ReceiveFails(t) PROVE TypesOK'
  BY <1>11 DEF ReceiveFails, LeaveDescriptor, ReceiversOK
<1>12. ASSUME NEW t \in Connections, Serve(t) PROVE TypesOK'
  BY <1>12 DEF Serve
<1>13. ASSUME NEW t \in Connections, SendEventFails(t) PROVE TypesOK'
  BY <1>13 DEF SendEventFails
<1>14. ASSUME NEW t \in Connections, CloseFailed(t) \/ End(t) PROVE TypesOK'
  <2>1. IsClosing(t) /\ (ClosesNothing(t) \/ ClosesAndFrees(t) \/ ClosesAndWaits(t))
    BY <1>14, Closing
  <2>2. task' \in [Connections ->
                   {"none", "ready", "started", "receiving", "failed", "serving",
                    "streaming", "broken", "closing", "deleted"}]
    BY <2>1 DEF IsClosing
  <2>3. closes' \in [Connections -> Nat]
    BY <2>1 DEF IsClosing
  <2>4. closedBy' \in [Connections -> Connections \cup {NoConnection}]
    BY <2>1 DEF ClosesNothing, ClosesAndFrees, ClosesAndWaits
  <2>5. socket' \in [Descriptors -> Connections \cup {NoConnection}]
    BY <2>1 DEF ClosesNothing, ClosesAndFrees, ClosesAndWaits
  <2>6. pending' \subseteq Descriptors
    BY <2>1 DEF ClosesNothing, ClosesAndFrees, ClosesAndWaits
  <2> QED BY <2>1, <2>2, <2>3, <2>4, <2>5, <2>6 DEF IsClosing
<1>15. ASSUME NEW t \in Connections, Request(t) PROVE TypesOK'
  BY <1>15, SMTT(60) DEF Request
<1>16. ASSUME NEW t \in Connections, Leave(t) PROVE TypesOK'
  BY <1>16 DEF Leave
<1>17. CASE UNCHANGED vars
  BY <1>17 DEF vars
<1> QED
  BY <1>1, <1>2, <1>3, <1>4, <1>5, <1>6, <1>7, <1>8, <1>9, <1>10, <1>11,
     <1>12, <1>13, <1>14, <1>15, <1>16, <1>17 DEF Next, Listen, AcceptService

LEMMA AcceptedSteps ==
    ASSUME TypesOK, AcceptedOK, SocketsOK, [Next]_vars
    PROVE  AcceptedOK'
<1> USE DEF TypesOK, AcceptedOK, peerVars, taskVars, Goto, NoSocket, NoConnection,
           Connections, Descriptors, IsOpen, FreeDescriptors
<1>1. CASE SetUp
  BY <1>1 DEF SetUp
<1>2. CASE Spawn
  BY <1>2 DEF Spawn
<1>3. CASE SpawnFails
  BY <1>3 DEF SpawnFails
<1>4. CASE Return
  BY <1>4 DEF Return
<1>5. CASE Accept
  BY <1>5 DEF Accept
<1>6. CASE AcceptFails
  BY <1>6 DEF AcceptFails
<1>7. CASE Connect
  BY <1>7 DEF Connect
<1>8. ASSUME NEW t \in Connections, Start(t) PROVE AcceptedOK'
  BY <1>8 DEF Start
<1>9. ASSUME NEW t \in Connections, Prepare(t) PROVE AcceptedOK'
  BY <1>9, SMTT(60) DEF Prepare
<1>10. ASSUME NEW t \in Connections, Receive(t) PROVE AcceptedOK'
  BY <1>10 DEF Receive
<1>11. ASSUME NEW t \in Connections, ReceiveFails(t) PROVE AcceptedOK'
  BY <1>11 DEF ReceiveFails
<1>12. ASSUME NEW t \in Connections, Serve(t) PROVE AcceptedOK'
  BY <1>12 DEF Serve
<1>13. ASSUME NEW t \in Connections, SendEventFails(t) PROVE AcceptedOK'
  BY <1>13 DEF SendEventFails
<1>14. ASSUME NEW t \in Connections, CloseFailed(t) \/ End(t) PROVE AcceptedOK'
  <2>1. IsClosing(t) /\ (ClosesNothing(t) \/ ClosesAndFrees(t) \/ ClosesAndWaits(t))
    BY <1>14, Closing
  <2>2. \A c \in Connections :
            closedBy'[c] # closedBy[c] => sock[t] \in Descriptors /\ socket[sock[t]] = c
    BY <2>1 DEF ClosesNothing, ClosesAndFrees, ClosesAndWaits
  <2>3. ASSUME NEW c \in Connections, closedBy'[c] # closedBy[c]
        PROVE  given[c] # NoSocket
    <3>1. sock[t] \in Descriptors /\ socket[sock[t]] = c
      BY <2>2, <2>3
    <3>2. socket[sock[t]] # NoConnection
      BY <3>1
    <3>3. given[socket[sock[t]]] = sock[t]
      BY <3>1, <3>2, Zenon DEF SocketsOK
    <3> QED BY <3>1, <3>3
  <2>4. \A c \in Connections : task'[c] = "none" <=> task[c] = "none"
    BY <2>1 DEF IsClosing
  <2> QED BY <2>1, <2>3, <2>4 DEF IsClosing
<1>15. ASSUME NEW t \in Connections, Request(t) PROVE AcceptedOK'
  BY <1>15 DEF Request
<1>16. ASSUME NEW t \in Connections, Leave(t) PROVE AcceptedOK'
  BY <1>16 DEF Leave
<1>17. CASE UNCHANGED vars
  BY <1>17 DEF vars
<1> QED
  BY <1>1, <1>2, <1>3, <1>4, <1>5, <1>6, <1>7, <1>8, <1>9, <1>10, <1>11,
     <1>12, <1>13, <1>14, <1>15, <1>16, <1>17 DEF Next, Listen, AcceptService

LEMMA ClosesSteps ==
    ASSUME TypesOK, ClosesOK, AcceptedOK, [Next]_vars
    PROVE  ClosesOK'
<1> USE DEF TypesOK, ClosesOK, peerVars, taskVars, Goto, Connections
<1>1. CASE SetUp
  BY <1>1 DEF SetUp
<1>2. CASE Spawn
  BY <1>2 DEF Spawn, AcceptedOK
<1>3. CASE SpawnFails
  BY <1>3 DEF SpawnFails
<1>4. CASE Return
  BY <1>4 DEF Return
<1>5. CASE Accept
  BY <1>5 DEF Accept
<1>6. CASE AcceptFails
  BY <1>6 DEF AcceptFails
<1>7. CASE Connect
  BY <1>7 DEF Connect
<1>8. ASSUME NEW t \in Connections, Start(t) PROVE ClosesOK'
  BY <1>8 DEF Start
<1>9. ASSUME NEW t \in Connections, Prepare(t) PROVE ClosesOK'
  BY <1>9 DEF Prepare
<1>10. ASSUME NEW t \in Connections, Receive(t) PROVE ClosesOK'
  BY <1>10 DEF Receive
<1>11. ASSUME NEW t \in Connections, ReceiveFails(t) PROVE ClosesOK'
  BY <1>11 DEF ReceiveFails
<1>12. ASSUME NEW t \in Connections, Serve(t) PROVE ClosesOK'
  BY <1>12 DEF Serve
<1>13. ASSUME NEW t \in Connections, SendEventFails(t) PROVE ClosesOK'
  BY <1>13 DEF SendEventFails
<1>14. ASSUME NEW t \in Connections, CloseFailed(t) \/ End(t) PROVE ClosesOK'
  <2>1. IsClosing(t)
    BY <1>14, Closing
  <2>2. CASE ClosesNothing(t)
    BY <2>1, <2>2 DEF IsClosing, ClosesNothing
  <2>3. CASE ClosesAndFrees(t)
    BY <2>1, <2>3 DEF IsClosing, ClosesAndFrees
  <2>4. CASE ClosesAndWaits(t)
    BY <2>1, <2>4 DEF IsClosing, ClosesAndWaits
  <2> QED BY <1>14, <2>2, <2>3, <2>4, Closing
<1>15. ASSUME NEW t \in Connections, Request(t) PROVE ClosesOK'
  BY <1>15 DEF Request
<1>16. ASSUME NEW t \in Connections, Leave(t) PROVE ClosesOK'
  BY <1>16 DEF Leave
<1>17. CASE UNCHANGED vars
  BY <1>17 DEF vars
<1> QED
  BY <1>1, <1>2, <1>3, <1>4, <1>5, <1>6, <1>7, <1>8, <1>9, <1>10, <1>11,
     <1>12, <1>13, <1>14, <1>15, <1>16, <1>17 DEF Next, Listen, AcceptService

LEMMA SocketsSteps ==
    ASSUME TypesOK, SocketsOK, AcceptedOK, ReceiversOK, [Next]_vars
    PROVE  SocketsOK'
<1> USE DEF TypesOK, SocketsOK, peerVars, taskVars, Goto, NoSocket, NoConnection,
           Connections, Descriptors, IsOpen, FreeDescriptors
<1>1. CASE SetUp
  BY <1>1 DEF SetUp
<1>2. CASE Spawn
  BY <1>2 DEF Spawn
<1>3. CASE SpawnFails
  BY <1>3 DEF SpawnFails
<1>4. CASE Return
  BY <1>4 DEF Return
<1>5. CASE Accept
  BY <1>5 DEF Accept, AcceptedOK
<1>6. CASE AcceptFails
  BY <1>6 DEF AcceptFails
<1>7. CASE Connect
  BY <1>7 DEF Connect
<1>8. ASSUME NEW t \in Connections, Start(t) PROVE SocketsOK'
  BY <1>8 DEF Start
<1>9. ASSUME NEW t \in Connections, Prepare(t) PROVE SocketsOK'
  BY <1>9 DEF Prepare
<1>10. ASSUME NEW t \in Connections, Receive(t) \/ ReceiveFails(t) PROVE SocketsOK'
  <2>1. HasReceived(t)
    BY <1>10, Leaving
  <2>2. CASE Stays(t)
    BY <2>1, <2>2 DEF HasReceived, Stays, ReceiversOK
  <2>3. CASE Frees(t)
    BY <2>1, <2>3 DEF HasReceived, Frees, ReceiversOK
  <2> QED BY <1>10, <2>2, <2>3, Leaving
<1>11. ASSUME NEW t \in Connections, Serve(t) PROVE SocketsOK'
  BY <1>11 DEF Serve
<1>12. ASSUME NEW t \in Connections, SendEventFails(t) PROVE SocketsOK'
  BY <1>12 DEF SendEventFails
<1>13. ASSUME NEW t \in Connections, CloseFailed(t) \/ End(t) PROVE SocketsOK'
  <2>1. IsClosing(t)
    BY <1>13, Closing
  <2>2. CASE ClosesNothing(t)
    BY <2>1, <2>2 DEF IsClosing, ClosesNothing
  <2>3. CASE ClosesAndFrees(t)
    BY <2>1, <2>3 DEF IsClosing, ClosesAndFrees
  <2>4. CASE ClosesAndWaits(t)
    BY <2>1, <2>4 DEF IsClosing, ClosesAndWaits
  <2> QED BY <1>13, <2>2, <2>3, <2>4, Closing
<1>14. ASSUME NEW t \in Connections, Request(t) PROVE SocketsOK'
  BY <1>14 DEF Request
<1>15. ASSUME NEW t \in Connections, Leave(t) PROVE SocketsOK'
  BY <1>15 DEF Leave
<1>16. CASE UNCHANGED vars
  BY <1>16 DEF vars
<1> QED
  BY <1>1, <1>2, <1>3, <1>4, <1>5, <1>6, <1>7, <1>8, <1>9, <1>10, <1>11,
     <1>12, <1>13, <1>14, <1>15, <1>16 DEF Next, Listen, AcceptService

LEMMA ReceiversSteps ==
    ASSUME TypesOK, ReceiversOK, SocketsOK, AcceptedOK, [Next]_vars
    PROVE  ReceiversOK'
<1> USE DEF TypesOK, ReceiversOK, Receivers, peerVars, taskVars, Goto, NoSocket,
           NoConnection, Connections, Descriptors, IsOpen, FreeDescriptors
<1>1. CASE SetUp
  BY <1>1 DEF SetUp
<1>2. CASE Spawn
  BY <1>2 DEF Spawn, AcceptedOK
<1>3. CASE SpawnFails
  BY <1>3 DEF SpawnFails
<1>4. CASE Return
  BY <1>4 DEF Return
<1>5. CASE Accept
  BY <1>5 DEF Accept, SocketsOK
<1>6. CASE AcceptFails
  BY <1>6 DEF AcceptFails
<1>7. CASE Connect
  BY <1>7 DEF Connect
<1>8. ASSUME NEW t \in Connections, Start(t) PROVE ReceiversOK'
  BY <1>8 DEF Start
<1>9. ASSUME NEW t \in Connections, Prepare(t) PROVE ReceiversOK'
  <2>1. /\ task[t] = "started" /\ UNCHANGED <<sock, socket, pending>>
        /\ \/ task' = [task EXCEPT ![t] = "closing"]
           \/ task' = [task EXCEPT ![t] = "failed"]
           \/ task' = [task EXCEPT ![t] = "receiving"] /\ IsOpen(sock[t])
    BY <1>9 DEF Prepare
  <2>2. \A u \in Connections : task[u] = "receiving" => task'[u] = "receiving"
    BY <2>1
  <2>3. \A d \in pending' : Receivers(d)' # {}
    BY <2>1, <2>2
  <2>4. \A u \in Connections :
            task'[u] = "receiving" => sock[u] \in Descriptors /\ socket[sock[u]] # NoConnection
    BY <2>1
  <2> HIDE DEF Receivers
  <2> QED BY <2>1, <2>3, <2>4
<1>10. ASSUME NEW t \in Connections, Receive(t) \/ ReceiveFails(t) PROVE ReceiversOK'
  <2>1. HasReceived(t) /\ (Stays(t) \/ Frees(t))
    BY <1>10, Leaving
  <2>2. \A u \in Connections : task'[u] = "receiving" <=> u # t /\ task[u] = "receiving"
    BY <2>1 DEF HasReceived
  <2>3. sock' = sock /\ pending' \subseteq pending
    BY <2>1 DEF HasReceived, Stays, Frees
  <2>4. ASSUME NEW d \in pending' PROVE Receivers(d)' # {}
    <3>1. d = sock[t] => Receivers(d) # {t}
      BY <2>1 DEF Stays, Frees
    <3>2. Receivers(d) # {} /\ (\A u \in Receivers(d) : u # t => u \in Receivers(d)')
      BY <2>2, <2>3
    <3>3. t \in Receivers(d) => d = sock[t]
      OBVIOUS
    <3>4. PICK u \in Receivers(d) : u # t
      <4> HIDE DEF Receivers
      <4> QED BY ONLY <3>1, <3>2, <3>3
    <3>5. u \in Receivers(d)'
      BY ONLY <3>2, <3>4
    <3> HIDE DEF Receivers
    <3> QED BY ONLY <3>5
  <2>5. ASSUME NEW u \in Connections, task'[u] = "receiving"
        PROVE  socket'[sock[u]] # NoConnection
    <3>1. CASE Stays(t)
      BY <2>2, <2>5, <3>1 DEF Stays
    <3>2. CASE Frees(t)
      <4>1. sock[u] # sock[t]
        BY <2>2, <2>5, <3>2 DEF Frees
      <4> QED BY <2>2, <2>5, <3>2, <4>1 DEF Frees
    <3> QED BY <2>1, <3>1, <3>2
  <2> HIDE DEF Receivers
  <2> QED BY <2>2, <2>3, <2>4, <2>5
<1>11. ASSUME NEW t \in Connections, Serve(t) PROVE ReceiversOK'
  BY <1>11, SMTT(60) DEF Serve
<1>12. ASSUME NEW t \in Connections, SendEventFails(t) PROVE ReceiversOK'
  BY <1>12 DEF SendEventFails
<1>13. ASSUME NEW t \in Connections, CloseFailed(t) \/ End(t) PROVE ReceiversOK'
  <2>1. IsClosing(t) /\ (ClosesNothing(t) \/ ClosesAndFrees(t) \/ ClosesAndWaits(t))
    BY <1>13, Closing
  <2>2. \A d : Receivers(d)' = Receivers(d)
    BY <2>1 DEF IsClosing
  <2>3. \A u \in Connections : task'[u] = "receiving" => task[u] = "receiving" /\ sock'[u] = sock[u]
    BY <2>1 DEF IsClosing
  <2>4. \/ pending' = pending
        \/ pending' = pending \cup {sock[t]} /\ Receivers(sock[t]) # {}
    BY <2>1, Zenon DEF ClosesNothing, ClosesAndFrees, ClosesAndWaits
  <2>5. \A u \in Connections : task[u] = "receiving" => socket'[sock[u]] # NoConnection
    BY <2>1 DEF ClosesNothing, ClosesAndFrees, ClosesAndWaits
  <2> HIDE DEF Receivers
  <2> QED BY <2>2, <2>3, <2>4, <2>5
<1>14. ASSUME NEW t \in Connections, Request(t) PROVE ReceiversOK'
  BY <1>14 DEF Request
<1>15. ASSUME NEW t \in Connections, Leave(t) PROVE ReceiversOK'
  BY <1>15 DEF Leave
<1>16. CASE UNCHANGED vars
  BY <1>16 DEF vars
<1> QED
  BY <1>1, <1>2, <1>3, <1>4, <1>5, <1>6, <1>7, <1>8, <1>9, <1>10, <1>11,
     <1>12, <1>13, <1>14, <1>15, <1>16 DEF Next, Listen, AcceptService

LEMMA CountedSteps ==
    ASSUME TypesOK, CountedOK, [Next]_vars
    PROVE  CountedOK'
<1> USE DEF TypesOK, CountedOK, peerVars, taskVars, Goto, NoSocket, NoConnection,
           Connections, Descriptors, IsOpen
<1>1. CASE SetUp
  BY <1>1 DEF SetUp
<1>2. CASE Spawn
  BY <1>2 DEF Spawn
<1>3. CASE SpawnFails
  BY <1>3 DEF SpawnFails
<1>4. CASE Return
  BY <1>4 DEF Return
<1>5. CASE Accept
  BY <1>5 DEF Accept
<1>6. CASE AcceptFails
  BY <1>6 DEF AcceptFails
<1>7. CASE Connect
  BY <1>7 DEF Connect
<1>8. ASSUME NEW t \in Connections, Start(t) PROVE CountedOK'
  BY <1>8 DEF Start
<1>9. ASSUME NEW t \in Connections, Prepare(t) PROVE CountedOK'
  BY <1>9 DEF Prepare
<1>10. ASSUME NEW t \in Connections, Receive(t) PROVE CountedOK'
  BY <1>10 DEF Receive
<1>11. ASSUME NEW t \in Connections, ReceiveFails(t) PROVE CountedOK'
  BY <1>11 DEF ReceiveFails
<1>12. ASSUME NEW t \in Connections, Serve(t) PROVE CountedOK'
  BY <1>12 DEF Serve
<1>13. ASSUME NEW t \in Connections, SendEventFails(t) PROVE CountedOK'
  BY <1>13 DEF SendEventFails
<1>14. ASSUME NEW t \in Connections, CloseFailed(t) \/ End(t) PROVE CountedOK'
  <2>1. IsClosing(t)
    BY <1>14, Closing
  <2>2. CASE ClosesNothing(t)
    BY <2>1, <2>2 DEF IsClosing, ClosesNothing
  <2>3. CASE ClosesAndFrees(t)
    BY <2>1, <2>3 DEF IsClosing, ClosesAndFrees
  <2>4. CASE ClosesAndWaits(t)
    BY <2>1, <2>4 DEF IsClosing, ClosesAndWaits
  <2> QED BY <1>14, <2>2, <2>3, <2>4, Closing
<1>15. ASSUME NEW t \in Connections, Request(t) PROVE CountedOK'
  BY <1>15 DEF Request
<1>16. ASSUME NEW t \in Connections, Leave(t) PROVE CountedOK'
  BY <1>16 DEF Leave
<1>17. CASE UNCHANGED vars
  BY <1>17 DEF vars
<1> QED
  BY <1>1, <1>2, <1>3, <1>4, <1>5, <1>6, <1>7, <1>8, <1>9, <1>10, <1>11,
     <1>12, <1>13, <1>14, <1>15, <1>16, <1>17 DEF Next, Listen, AcceptService

LEMMA ClosedSteps ==
    ASSUME TypesOK, AcceptedOK, ClosesOK, SocketsOK, CountedOK, ClosedByItsTask, [Next]_vars
    PROVE  ClosedByItsTask'
<1> USE DEF TypesOK, ClosesOK, CountedOK, ClosedByItsTask, IsMisled, peerVars,
           taskVars, Goto, NoSocket, NoConnection, Connections, Descriptors
<1>1. CASE SetUp
  BY <1>1 DEF SetUp
<1>2. CASE Spawn
  BY <1>2 DEF Spawn, AcceptedOK
<1>3. CASE SpawnFails
  BY <1>3 DEF SpawnFails
<1>4. CASE Return
  BY <1>4 DEF Return
<1>5. CASE Accept
  BY <1>5 DEF Accept, AcceptedOK, FreeDescriptors
<1>6. CASE AcceptFails
  BY <1>6 DEF AcceptFails
<1>7. CASE Connect
  BY <1>7 DEF Connect
<1>8. ASSUME NEW t \in Connections, Start(t) PROVE ClosedByItsTask'
  BY <1>8 DEF Start
<1>9. ASSUME NEW t \in Connections, Prepare(t) PROVE ClosedByItsTask'
  BY <1>9 DEF Prepare
<1>10. ASSUME NEW t \in Connections, Receive(t) PROVE ClosedByItsTask'
  BY <1>10 DEF Receive
<1>11. ASSUME NEW t \in Connections, ReceiveFails(t) PROVE ClosedByItsTask'
  BY <1>11 DEF ReceiveFails
<1>12. ASSUME NEW t \in Connections, Serve(t) PROVE ClosedByItsTask'
  BY <1>12 DEF Serve
<1>13. ASSUME NEW t \in Connections, SendEventFails(t) PROVE ClosedByItsTask'
  BY <1>13 DEF SendEventFails
<1>14. ASSUME NEW t \in Connections, CloseFailed(t) \/ End(t) PROVE ClosedByItsTask'
  <2>1. IsClosing(t) /\ (ClosesNothing(t) \/ ClosesAndFrees(t) \/ ClosesAndWaits(t))
    BY <1>14, Closing
  <2>2. /\ task[t] \notin {"none", "ready", "deleted"}
        /\ task'[t] \notin {"none", "ready"}
        /\ closes'[t] = closes[t] + 1 /\ sock' = sock /\ given' = given
        /\ \A u \in Connections \ {t} : task'[u] = task[u] /\ closes'[u] = closes[u]
    BY <2>1 DEF IsClosing
  <2>3. \A u \in Connections : closedBy[u] # NoConnection => closedBy'[u] = closedBy[u]
    BY <2>1 DEF ClosesNothing, ClosesAndFrees, ClosesAndWaits, IsOpen, SocketsOK
  <2>4. \A c \in Connections :
            closedBy'[c] # closedBy[c] =>
                /\ closedBy'[c] = t /\ closedBy[c] = NoConnection
                /\ sock[t] \in Descriptors /\ socket[sock[t]] = c
    BY <2>1 DEF ClosesNothing, ClosesAndFrees, ClosesAndWaits, IsOpen, SocketsOK
  <2> SUFFICES ASSUME NEW c \in Connections, NEW u, u = closedBy'[c], u \notin {NoConnection, c}
               PROVE  IsMisled(u)' \/ closes'[u] = 2 \/ closedBy'[u] \notin {NoConnection, u}
    OBVIOUS
  <2>5. CASE closedBy'[c] = closedBy[c]
    <3>1. u \in Connections /\ closes[u] # 0
      BY <2>5
    <3>2. IsMisled(u) => IsMisled(u)'
      BY <2>2, <3>1
    <3>3. closes[u] = 2 => closes'[u] = 2
      BY <2>2, <3>1
    <3>4. closedBy[u] \notin {NoConnection, u} => closedBy'[u] \notin {NoConnection, u}
      BY <2>3, <3>1
    <3> QED BY <2>5, <3>2, <3>3, <3>4
  <2>6. CASE closedBy'[c] # closedBy[c]
    <3>1. u = t /\ sock[t] \in Descriptors /\ socket[sock[t]] = c
      BY <2>4, <2>6
    <3>2. CASE sock[t] # given[t]
      BY <2>2, <3>1, <3>2
    <3>3. CASE sock[t] = given[t]
      <4>1. closedBy[t] # NoConnection
        BY <3>1, <3>3 DEF SocketsOK
      <4>2. ASSUME closedBy[t] = t PROVE closes[t] = 1
        <5>1. closes[t] # 0
          BY <4>1, <4>2
        <5>2. closes[t] # 2
          BY <2>2
        <5>3. closes[t] \in Nat /\ closes[t] <= 2
          OBVIOUS
        <5> QED BY ONLY <5>1, <5>2, <5>3
      <4> QED BY <2>2, <2>3, <3>1, <4>1, <4>2
    <3> QED BY <3>2, <3>3
  <2> QED BY <2>5, <2>6
<1>15. ASSUME NEW t \in Connections, Request(t) PROVE ClosedByItsTask'
  BY <1>15 DEF Request
<1>16. ASSUME NEW t \in Connections, Leave(t) PROVE ClosedByItsTask'
  BY <1>16 DEF Leave
<1>17. CASE UNCHANGED vars
  BY <1>17 DEF vars
<1> QED
  BY <1>1, <1>2, <1>3, <1>4, <1>5, <1>6, <1>7, <1>8, <1>9, <1>10, <1>11,
     <1>12, <1>13, <1>14, <1>15, <1>16, <1>17 DEF Next, Listen, AcceptService

-----------------------------------------------------------------------------
(* The theorems.                                                           *)

(* Accepting, serving and closing, in any order of the tasks, keep the     *)
(* invariant.                                                              *)
THEOREM Invariance == Spec => []IInv
<1>1. Init => IInv
  BY Initially
<1>2. IInv /\ [Next]_vars => IInv'
  BY TypesSteps, AcceptedSteps, ClosesSteps, SocketsSteps, ReceiversSteps, CountedSteps,
     ClosedSteps DEF IInv
<1> QED BY <1>1, <1>2, PTL DEF Spec

(* The state of server, peers and descriptors is what the declarations say, *)
(* and a descriptor that is closed but not free has a task that waits at it. *)
THEOREM TypeCorrect == Spec => []TypeOK
<1>1. ASSUME IInv PROVE TypeOK
  <2> USE <1>1 DEF IInv, NoSocket, NoConnection, Connections, Descriptors
  <2>1. closes \in [Connections -> 0 .. 2]
    BY DEF TypesOK, ClosesOK
  <2>2. \A d \in pending : d \in Descriptors /\ socket[d] # NoConnection /\ Receivers(d) # {}
    BY DEF TypesOK, SocketsOK, ReceiversOK
  <2>3. listener = "spawning" =>
            IsOpen(argument) \/ \E t \in Connections : closedBy[accepted] = t
    <3> SUFFICES ASSUME listener = "spawning", ~IsOpen(argument)
                 PROVE  closedBy[accepted] \in Connections
      OBVIOUS
    <3>1. /\ accepted \in Connections /\ argument = given[accepted]
          /\ argument \in Descriptors
      BY DEF TypesOK, AcceptedOK
    <3>2. given[accepted] # NoSocket /\ closedBy[accepted] \in Connections \cup {NoConnection}
      BY <3>1 DEF TypesOK
    <3>3. closedBy[accepted] = NoConnection =>
              socket[argument] = accepted /\ argument \notin pending
      BY <3>1, <3>2 DEF SocketsOK
    <3> QED BY <3>1, <3>2, <3>3 DEF IsOpen
  <2> QED BY <2>1, <2>2, <2>3 DEF TypesOK, TypeOK
<1> QED BY <1>1, Invariance, PTL

(* However accepting and served tasks interleave, a connection is closed   *)
(* by a task other than its own only once a descriptor has been misread or *)
(* closed twice.                                                           *)
THEOREM ClosedByItsTaskAlways == Spec => []ClosedByItsTask
<1>1. IInv => ClosedByItsTask
  BY DEF IInv
<1> QED BY <1>1, Invariance, PTL

==============================================================================
