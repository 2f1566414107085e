------------------------ MODULE AppDhcpServiceProofs ------------------------
(***************************************************************************)
(* Proofs about AppDhcpService, for any set of clients, any range of       *)
(* addresses and any size of the table and of the socket's queue.          *)
(***************************************************************************)
EXTENDS AppDhcpService, TLAPS

USE AddressAssumption, BoundsAssumption, ClientsAssumption

-----------------------------------------------------------------------------
(* The inductive invariant.  That what was granted agrees is not inductive *)
(* by itself: it does because what was granted is in the table, which      *)
(* never loses an entry, and no two entries share a client or an address.  *)

TableIsDistinct ==
    \A i, j \in 1 .. Len(table) :
        table[i].client = table[j].client \/ table[i].address = table[j].address => i = j

GrantedIsStored == \A g \in granted : \E i \in 1 .. Len(table) : table[i] = g

(* What the search relies on when it ends: the client has no entry, and an *)
(* address found is one of the range, which nobody has.                    *)
SearchIsSound ==
    task = "searching" =>
        /\ client \in Clients /\ ~IsSeenBefore(client)
        /\ valid => candidate \in Addresses /\ IsFree(candidate)

IInv == TypeOK /\ TableIsDistinct /\ GrantedIsStored /\ SearchIsSound

-----------------------------------------------------------------------------
(* A message that asks for something names a client. *)
LEMMA MessageTypes ==
    ASSUME NEW m \in Messages, m.type \in {"DISCOVER", "REQUEST"}
    PROVE  m.client \in Clients
  BY DEF Messages, Ignored, Discover, RequestMessages, Message

(* Reading the oldest message leaves a shorter queue of messages. *)
LEMMA InboxTail ==
    ASSUME TypeOK, inbox # <<>>
    PROVE  /\ Head(inbox) \in Messages
           /\ Tail(inbox) \in Seq(Messages) /\ Len(Tail(inbox)) <= InboxCapacity
<1>1. inbox \in Seq(Messages) /\ Len(inbox) \in Nat
  BY DEF TypeOK
<1>2. Head(inbox) \in Messages /\ Tail(inbox) \in Seq(Messages)
      /\ Len(Tail(inbox)) = Len(inbox) - 1
  BY <1>1
<1> QED BY <1>1, <1>2 DEF TypeOK

(* A client of the table has one entry, and its address is offered. *)
LEMMA OfferIsStored ==
    ASSUME TypeOK, TableIsDistinct, NEW c, IsSeenBefore(c)
    PROVE  \E i \in 1 .. Len(table) :
              table[i].client = c /\ OfferAddress(c) = table[i].address
<1>1. PICK i \in EntriesOf(c) : TRUE
  BY DEF IsSeenBefore
<1>2. i \in 1 .. Len(table) /\ table[i].client = c
  BY <1>1 DEF EntriesOf
<1>3. \A j \in EntriesOf(c) : j = i
  BY <1>2 DEF EntriesOf, TableIsDistinct
<1>4. \A j \in EntriesOf(c) : i <= j
  BY <1>2, <1>3 DEF TypeOK
<1>5. (CHOOSE k \in EntriesOf(c) : \A j \in EntriesOf(c) : k <= j) = i
  BY <1>1, <1>3, <1>4
<1> QED BY <1>2, <1>5 DEF OfferAddress

(* What is offered to, or acknowledged for, a client the server knows is   *)
(* an entry of the table.                                                  *)
LEMMA OfferIsEntry ==
    ASSUME TypeOK, TableIsDistinct, NEW c \in Clients, IsSeenBefore(c)
    PROVE  /\ OfferAddress(c) \in Addresses
           /\ \E i \in 1 .. Len(table) :
                 table[i] = [client |-> c, address |-> OfferAddress(c)]
<1>1. PICK i \in 1 .. Len(table) :
         table[i].client = c /\ OfferAddress(c) = table[i].address
  BY OfferIsStored
<1>2. table[i] \in Entries
  BY DEF TypeOK
<1> QED BY <1>1, <1>2 DEF Entries

-----------------------------------------------------------------------------
(* Steps that leave the table, what was granted and the search alone. *)
LEMMA ElsewhereSteps ==
    ASSUME IInv,
           \/ CreateService \/ DeleteService \/ InitializeService \/ CheckRunning
           \/ ReceiveTimesOut \/ ProcessIgnored \/ \E m \in Messages : Arrive(m)
    PROVE  IInv'
<1> USE DEF IInv, TypeOK, searchVars
<1>1. UNCHANGED <<table, searchVars, reply, granted>>
  BY DEF CreateService, DeleteService, InitializeService, CheckRunning,
         ReceiveTimesOut, ProcessIgnored, Arrive
<1>2. (TableIsDistinct /\ GrantedIsStored)'
  BY <1>1 DEF TableIsDistinct, GrantedIsStored
<1>3. task' = "searching" => task = "searching"
  BY DEF CreateService, DeleteService, InitializeService, CheckRunning,
         ReceiveTimesOut, ProcessIgnored, Arrive
<1>4. SearchIsSound'
  BY <1>1, <1>3 DEF SearchIsSound, IsSeenBefore, EntriesOf, IsFree
<1>5. TypeOK'
  <2>1. CASE CreateService \/ DeleteService \/ InitializeService \/ ReceiveTimesOut
    BY <2>1, <1>1 DEF CreateService, DeleteService, InitializeService, ReceiveTimesOut
  <2>2. CASE CheckRunning
    <3>1. task' \in {"receiving", "ended"} /\ running' = running
      BY <2>2 DEF CheckRunning
    <3>2. CASE running
      BY <2>2, <3>1, <3>2, <1>1 DEF CheckRunning
    <3>3. CASE ~running
      <4>1. inbox' = <<>>
        BY <2>2, <3>3 DEF CheckRunning
      <4>2. inbox' \in Seq(Messages)
        BY <4>1
      <4>3. Len(inbox') = 0
        BY <4>1
      <4> QED BY <3>1, <4>2, <4>3, <1>1
    <3> QED BY <3>2, <3>3
  <2>3. CASE ProcessIgnored
    BY <2>3, <1>1, InboxTail DEF ProcessIgnored, Receive
  <2>4. ASSUME NEW m \in Messages, Arrive(m) PROVE TypeOK'
    <3>1. Append(inbox, m) \in Seq(Messages) /\ Len(Append(inbox, m)) = Len(inbox) + 1
      OBVIOUS
    <3> QED BY <2>4, <3>1, <1>1 DEF Arrive
  <2> QED BY <2>1, <2>2, <2>3, <2>4
<1> QED BY <1>2, <1>4, <1>5

(* A DISCOVER: the address of a client the server knows is granted again,  *)
(* or the search begins for a client that has no entry.                    *)
LEMMA ProcessDiscoverStep ==
    ASSUME IInv, ProcessDiscover
    PROVE  IInv'
<1> USE DEF IInv
<1> DEFINE c == Head(inbox).client
<1>1. /\ Head(inbox) \in Messages /\ c \in Clients
      /\ inbox' \in Seq(Messages) /\ Len(inbox') <= InboxCapacity
      /\ UNCHANGED <<running, table>>
  BY InboxTail, MessageTypes DEF ProcessDiscover, Receive
<1>2. CASE IsSeenBefore(c) /\ DiscoverKnown(c)
  <2>1. /\ OfferAddress(c) \in Addresses
        /\ \E i \in 1 .. Len(table) :
              table[i] = [client |-> c, address |-> OfferAddress(c)]
    BY <1>1, <1>2, OfferIsEntry
  <2>2. /\ task' = "checking" /\ UNCHANGED searchVars
        /\ reply' = Reply("OFFER", c, OfferAddress(c))
        /\ granted' = granted \cup {[client |-> c, address |-> OfferAddress(c)]}
    BY <1>2 DEF DiscoverKnown, SendReply, Reply
  <2>3. TypeOK'
    BY <1>1, <2>1, <2>2 DEF TypeOK, searchVars, Replies, Entries
  <2> QED BY <1>1, <2>1, <2>2, <2>3 DEF TableIsDistinct, GrantedIsStored, SearchIsSound
<1>3. CASE ~IsSeenBefore(c) /\ DiscoverNew(c)
  <2>1. /\ MaximumAddress + 1 \in MinimumAddress .. MaximumAddress + 1
        /\ task' = "searching" /\ client' \in Clients /\ candidate' = MaximumAddress + 1
        /\ tried' = FALSE /\ valid' = FALSE /\ UNCHANGED <<reply, granted>>
    BY <1>1, <1>3 DEF DiscoverNew
  <2>2. TypeOK'
    BY <1>1, <2>1 DEF TypeOK
  <2> QED
    BY <1>1, <1>3, <2>1, <2>2
    DEF DiscoverNew, TableIsDistinct, GrantedIsStored, SearchIsSound, IsSeenBefore, EntriesOf
<1> QED BY <1>2, <1>3 DEF ProcessDiscover

(* A REQUEST: an acknowledgement grants the stored address again. *)
LEMMA ProcessRequestStep ==
    ASSUME IInv, ProcessRequest
    PROVE  IInv'
<1> USE DEF IInv
<1> DEFINE m == Head(inbox)
<1>1. /\ m \in Messages /\ m.client \in Clients
      /\ inbox' \in Seq(Messages) /\ Len(inbox') <= InboxCapacity
      /\ task' = "checking"
      /\ UNCHANGED <<running, table, searchVars>>
  BY InboxTail, MessageTypes DEF ProcessRequest, Receive
<1>2. CASE IsAcknowledged(m)
  <2>1. /\ OfferAddress(m.client) \in Addresses
        /\ \E i \in 1 .. Len(table) :
              table[i] = [client |-> m.client, address |-> OfferAddress(m.client)]
    BY <1>1, <1>2, OfferIsEntry DEF IsAcknowledged
  <2>2. /\ reply' = Reply("ACK", m.client, OfferAddress(m.client))
        /\ granted' = granted \cup {[client |-> m.client, address |-> OfferAddress(m.client)]}
    BY <1>2 DEF ProcessRequest, SendReply, Reply
  <2>3. TypeOK'
    BY <1>1, <2>1, <2>2 DEF TypeOK, searchVars, Replies, Entries
  <2> QED BY <1>1, <2>1, <2>2, <2>3 DEF TableIsDistinct, GrantedIsStored, SearchIsSound
<1>3. CASE ~IsAcknowledged(m)
  <2>1. reply' = Reply("NAK", m.client, NoAddress) /\ granted' = granted
    BY <1>3 DEF ProcessRequest, SendReply, Reply
  <2>2. TypeOK'
    BY <1>1, <2>1 DEF TypeOK, searchVars, Replies
  <2> QED BY <1>1, <2>1, <2>2 DEF TableIsDistinct, GrantedIsStored, SearchIsSound
<1> QED BY <1>2, <1>3

(* The search finds the first address, when nobody has it. *)
LEMMA SearchStepStep ==
    ASSUME IInv, SearchStep
    PROVE  IInv'
<1> USE DEF IInv
<1>1. MinimumAddress \in Addresses /\ MinimumAddress + 1 \in MinimumAddress .. MaximumAddress + 1
      /\ MinimumAddress \in MinimumAddress .. MaximumAddress + 1
  BY DEF Addresses
<1>2. valid' \in BOOLEAN /\ (valid' => candidate' = MinimumAddress /\ IsFree(MinimumAddress))
  BY DEF SearchStep, IsFree
<1>3. TypeOK'
  BY <1>1, <1>2 DEF TypeOK, SearchStep
<1> QED
  BY <1>1, <1>2, <1>3
  DEF SearchStep, TableIsDistinct, GrantedIsStored, SearchIsSound, IsSeenBefore, EntriesOf, IsFree

(* The entry that ends a search has a new client and a new address. *)
LEMMA SearchEndsStep ==
    ASSUME IInv, SearchEnds
    PROVE  IInv'
<1> USE DEF IInv
<1>1. task' = "checking" /\ UNCHANGED <<running, inbox, searchVars>>
  BY DEF SearchEnds
<1>2. CASE valid /\ Len(table) < MaxAddressInfo
  <2> DEFINE e == [client |-> client, address |-> candidate]
  <2>1. /\ e \in Entries
        /\ \A i \in 1 .. Len(table) : table[i].client # client /\ table[i].address # candidate
    BY <1>2 DEF SearchEnds, SearchIsSound, IsSeenBefore, EntriesOf, IsFree, Entries
  <2>2. table \in Seq(Entries) /\ Len(table) \in Nat
    BY DEF TypeOK
  <2>3. /\ table' = Append(table, e)
        /\ reply' = Reply("OFFER", client, candidate)
        /\ granted' = granted \cup {e}
    BY <1>2 DEF SearchEnds, SendReply, Reply
  <2>4. /\ table' \in Seq(Entries) /\ Len(table') = Len(table) + 1
        /\ \A i \in 1 .. Len(table') :
              table'[i] = IF i \in 1 .. Len(table) THEN table[i] ELSE e
    BY <2>1, <2>2, <2>3
  <2>5. TypeOK'
    BY <1>1, <1>2, <2>1, <2>3, <2>4 DEF TypeOK, searchVars, Replies, Entries
  <2>6. TableIsDistinct'
    <3> SUFFICES ASSUME NEW i \in 1 .. Len(table'), NEW j \in 1 .. Len(table'),
                        \/ table'[i].client = table'[j].client
                        \/ table'[i].address = table'[j].address
                 PROVE  i = j
      BY DEF TableIsDistinct
    <3>1. CASE i \in 1 .. Len(table) /\ j \in 1 .. Len(table)
      BY <3>1, <2>4 DEF TableIsDistinct
    <3>2. CASE i \notin 1 .. Len(table) /\ j \notin 1 .. Len(table)
      BY <3>2, <2>2, <2>4
    <3>3. CASE ~(i \in 1 .. Len(table) <=> j \in 1 .. Len(table))
      BY <3>3, <2>1, <2>4
    <3> QED BY <3>1, <3>2, <3>3
  <2>7. GrantedIsStored'
    <3> SUFFICES ASSUME NEW g \in granted'
                 PROVE  \E i \in 1 .. Len(table') : table'[i] = g
      BY DEF GrantedIsStored
    <3>1. CASE g = e
      BY <3>1, <2>2, <2>4
    <3>2. CASE g # e
      BY <3>2, <2>2, <2>3, <2>4 DEF GrantedIsStored
    <3> QED BY <3>1, <3>2
  <2> QED BY <1>1, <2>5, <2>6, <2>7 DEF SearchIsSound
<1>3. CASE ~(valid /\ Len(table) < MaxAddressInfo)
  <2>1. UNCHANGED <<table, reply, granted>>
    BY <1>3 DEF SearchEnds
  <2> QED
    BY <1>1, <2>1 DEF TypeOK, searchVars, TableIsDistinct, GrantedIsStored, SearchIsSound
<1> QED BY <1>2, <1>3

-----------------------------------------------------------------------------
(* The invariant of the server holds in every state. *)
THEOREM Invariance == Spec => []IInv
<1>1. Init => IInv
  <2> SUFFICES ASSUME Init PROVE IInv
    OBVIOUS
  <2>1. inbox = <<>> /\ table = <<>>
    BY DEF Init
  <2>2. inbox \in Seq(Messages) /\ table \in Seq(Entries)
    BY <2>1
  <2>3. Len(inbox) = 0 /\ Len(table) = 0
    BY <2>1
  <2>4. /\ task = "absent" /\ running = FALSE
        /\ client = NoClient /\ candidate \in MinimumAddress .. MaximumAddress + 1
        /\ tried = FALSE /\ valid = FALSE
        /\ reply \in Replies /\ granted = {}
    BY DEF Init, Replies
  <2>5. TypeOK
    <3>1. inbox \in Seq(Messages) /\ Len(inbox) <= InboxCapacity
      BY <2>2, <2>3
    <3>2. table \in Seq(Entries) /\ Len(table) <= MaxAddressInfo
      BY <2>2, <2>3
    <3>3. granted \subseteq Entries
      BY <2>4
    <3> QED BY <2>4, <3>1, <3>2, <3>3 DEF TypeOK
  <2> QED BY <2>3, <2>4, <2>5 DEF IInv, TableIsDistinct, GrantedIsStored, SearchIsSound
<1>2. IInv /\ [Next]_vars => IInv'
  <2> SUFFICES ASSUME IInv, [Next]_vars PROVE IInv'
    OBVIOUS
  <2>1. CASE \/ CreateService \/ DeleteService \/ InitializeService \/ CheckRunning
             \/ ReceiveTimesOut \/ ProcessIgnored \/ \E m \in Messages : Arrive(m)
    BY <2>1, ElsewhereSteps
  <2>2. CASE ProcessDiscover
    BY <2>2, ProcessDiscoverStep
  <2>3. CASE ProcessRequest
    BY <2>3, ProcessRequestStep
  <2>4. CASE SearchStep
    BY <2>4, SearchStepStep
  <2>5. CASE SearchEnds
    BY <2>5, SearchEndsStep
  <2>6. CASE UNCHANGED vars
    BY <2>6
    DEF vars, searchVars, IInv, TypeOK, TableIsDistinct, GrantedIsStored, SearchIsSound,
        IsSeenBefore, EntriesOf, IsFree
  <2> QED BY <2>1, <2>2, <2>3, <2>4, <2>5, <2>6 DEF Next, ServiceTask
<1> QED BY <1>1, <1>2, PTL DEF Spec

(* Every variable of the server has its type, and neither the table nor    *)
(* the queue of the socket outgrows its size.                              *)
THEOREM TypeCorrect == Spec => []TypeOK
<1>1. IInv => TypeOK
  BY DEF IInv
<1> QED BY <1>1, Invariance, PTL

(* The server never grants an address to two clients nor two addresses to  *)
(* one client, however many there are.                                     *)
THEOREM AddressesAgreeAlways == Spec => []AddressesAgree
<1>1. IInv => AddressesAgree
  BY DEF IInv, TableIsDistinct, GrantedIsStored, AddressesAgree
<1> QED BY <1>1, Invariance, PTL
=============================================================================
