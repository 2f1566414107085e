--------------------------- MODULE AppDhcpService ---------------------------
(***************************************************************************)
(* The DHCP server of the soft access point: one task that receives the    *)
(* requests of the clients from a socket and answers them from a table of  *)
(* the addresses it has given.  Addresses never expire and are never given *)
(* back.  Anything may arrive at the socket: requests of any client, late, *)
(* twice or in any order, and the socket drops what it has no room for.    *)
(*                                                                         *)
(* The search for a free address takes its only step inside the test for   *)
(* the end of the range (AppDhcpService.cpp:279): when the first address   *)
(* is taken it goes on for ever.  The steps of that loop which change      *)
(* nothing are stuttering steps here.                                      *)
(***************************************************************************)
EXTENDS Naturals, Sequences, FiniteSets

CONSTANTS
    Clients,         \* client identifiers or hardware addresses
    NoClient,
    MinimumAddress,  \* minimumIpAddress
    MaximumAddress,  \* maximumIpAddress
    MaxAddressInfo,  \* MAX_ADDRESS_INFO: entries of the table
    InboxCapacity    \* messages the socket holds

ASSUME ClientsAssumption == NoClient \notin Clients
ASSUME AddressAssumption ==
    /\ MinimumAddress \in Nat /\ MaximumAddress \in Nat
    /\ 0 < MinimumAddress /\ MinimumAddress <= MaximumAddress
ASSUME BoundsAssumption == MaxAddressInfo \in Nat \ {0} /\ InboxCapacity \in Nat \ {0}

VARIABLES
    task,       \* where the service task is
    running,    \* serviceTaskRunning
    inbox,      \* messages waiting at the socket
    table,      \* addressInfos: the entries stored, oldest first
    client,     \* the client an address is searched for
    candidate,  \* new_offer_addr
    tried,      \* offered_initial
    valid,      \* is_new_offer_addr_valid
    reply,      \* the last reply sent
    granted     \* history: the clients and addresses of all offers and acknowledgements

searchVars == <<client, candidate, tried, valid>>
vars == <<task, running, inbox, table, searchVars, reply, granted>>

Addresses == MinimumAddress .. MaximumAddress
NoAddress == 0  \* no address in the message, which the code sees as 0 or as all ones

(* What the handlers read of a message: its type, its client, the address  *)
(* the client has, the one it asks for, and the server it names.  "IGNORED" *)
(* stands for all the messages that are dropped: too short, not a request, *)
(* without a type, of the board's own name, DECLINE, RELEASE and INFORM.   *)
Message(t, c, a, r, s) == [type |-> t, client |-> c, ciaddr |-> a, requested |-> r, server |-> s]
Discover(c) == Message("DISCOVER", c, NoAddress, NoAddress, "none")
Ignored == Message("IGNORED", NoClient, NoAddress, NoAddress, "none")
RequestMessages ==
    {Message("REQUEST", c, a, r, s) :
        c \in Clients, a \in Addresses \cup {NoAddress}, r \in Addresses \cup {NoAddress},
        s \in {"none", "host", "other"}}
Messages == {Ignored} \cup {Discover(c) : c \in Clients} \cup RequestMessages

Entries == [client : Clients, address : Addresses]
Reply(k, c, a) == [kind |-> k, client |-> c, address |-> a]
NoReply == Reply("none", NoClient, NoAddress)
Replies ==
    {NoReply} \cup {Reply("NAK", c, NoAddress) : c \in Clients}
        \cup {Reply(k, c, a) : k \in {"OFFER", "ACK"}, c \in Clients, a \in Addresses}

TypeOK ==
    /\ task \in {"absent", "starting", "checking", "receiving", "searching", "ended"}
    /\ running \in BOOLEAN
    /\ inbox \in Seq(Messages) /\ Len(inbox) <= InboxCapacity
    /\ table \in Seq(Entries) /\ Len(table) <= MaxAddressInfo
    /\ client \in Clients \cup {NoClient}
    /\ candidate \in MinimumAddress .. MaximumAddress + 1
    /\ tried \in BOOLEAN /\ valid \in BOOLEAN
    /\ reply \in Replies
    /\ granted \subseteq Entries

Init ==
    /\ task = "absent" /\ running = FALSE
    /\ inbox = <<>> /\ table = <<>>
    /\ client = NoClient /\ candidate = MinimumAddress /\ tried = FALSE /\ valid = FALSE
    /\ reply = NoReply /\ granted = {}

-----------------------------------------------------------------------------
(* The life of the service.                                                *)

(* createService(): the flag is set before the task is created. *)
CreateService ==
    /\ task = "absent"
    /\ \/ task' = "starting" /\ running' = TRUE
       \/ task' = "ended" /\ running' = FALSE
    /\ UNCHANGED <<inbox, table, searchVars, reply, granted>>

(* initializeService(): on a failure the task ends and nobody is told. *)
InitializeService ==
    /\ task = "starting"
    /\ task' \in {"checking", "ended"}
    /\ UNCHANGED <<running, inbox, table, searchVars, reply, granted>>

(* deleteService(): the task sees the flag once its receive has returned. *)
DeleteService ==
    /\ task # "absent" /\ running
    /\ running' = FALSE
    /\ UNCHANGED <<task, inbox, table, searchVars, reply, granted>>

(* The condition of the loop of serviceTask(); the socket is closed. *)
CheckRunning ==
    /\ task = "checking"
    /\ IF running
       THEN task' = "receiving" /\ UNCHANGED inbox
       ELSE task' = "ended" /\ inbox' = <<>>
    /\ UNCHANGED <<running, table, searchVars, reply, granted>>

ReceiveTimesOut ==
    /\ task = "receiving" /\ inbox = <<>>
    /\ task' = "checking"
    /\ UNCHANGED <<running, inbox, table, searchVars, reply, granted>>

(* The network delivers a message; a full socket drops it. *)
Arrive(m) ==
    /\ task \in {"checking", "receiving", "searching"}
    /\ Len(inbox) < InboxCapacity
    /\ inbox' = Append(inbox, m)
    /\ UNCHANGED <<task, running, table, searchVars, reply, granted>>

-----------------------------------------------------------------------------
(* processRequest().                                                       *)

(* findIndex() with CheckHardwareAddress and with CheckIpAddress. *)
EntriesOf(c) == {i \in 1 .. Len(table) : table[i].client = c}
IsSeenBefore(c) == EntriesOf(c) # {}
OfferAddress(c) == table[CHOOSE i \in EntriesOf(c) : \A j \in EntriesOf(c) : i <= j].address

(* A mistake: the search in the table ends one entry early. *)
IsFreeButLast(a) == \A i \in 1 .. Len(table) - 1 : table[i].address # a

IsFree(a) == \A i \in 1 .. Len(table) : table[i].address # a

(* setReplyOptions() and sendReply(). *)
SendReply(r) ==
    /\ reply' = r
    /\ granted' = IF r.kind = "NAK" THEN granted
                  ELSE granted \cup {[client |-> r.client, address |-> r.address]}

Receive(t) == task = "receiving" /\ inbox # <<>> /\ Head(inbox).type = t /\ inbox' = Tail(inbox)

ProcessIgnored ==
    /\ Receive("IGNORED")
    /\ task' = "checking"
    /\ UNCHANGED <<running, table, searchVars, reply, granted>>

(* A mistake: a client the server knows already gets no offer. *)
DiscoverKnownSilently(c) ==
    /\ task' = "checking"
    /\ UNCHANGED <<searchVars, reply, granted>>

(* handleDiscoverMessage(): a client seen before is offered its address again. *)
DiscoverKnown(c) ==
    /\ task' = "checking"
    /\ SendReply(Reply("OFFER", c, OfferAddress(c)))
    /\ UNCHANGED searchVars

DiscoverNew(c) ==
    /\ task' = "searching"
    /\ client' = c /\ candidate' = MaximumAddress + 1 /\ tried' = FALSE /\ valid' = FALSE
    /\ UNCHANGED <<reply, granted>>

ProcessDiscover ==
    /\ Receive("DISCOVER")
    /\ LET c == Head(inbox).client
       IN  IF IsSeenBefore(c) THEN DiscoverKnown(c) ELSE DiscoverNew(c)
    /\ UNCHANGED <<running, table>>

(* handleRequestMessage(): a client that names this server gets the address *)
(* stored for it whatever it asks for, any other only if it asks for that   *)
(* address or has it.  All others are denied.                               *)
IsAcknowledged(m) ==
    /\ IsSeenBefore(m.client)
    /\ m.server = "host" \/ OfferAddress(m.client) \in {m.requested, m.ciaddr}

ProcessRequest ==
    /\ Receive("REQUEST")
    /\ task' = "checking"
    /\ LET m == Head(inbox)
       IN  SendReply(IF IsAcknowledged(m) THEN Reply("ACK", m.client, OfferAddress(m.client))
                     ELSE Reply("NAK", m.client, NoAddress))
    /\ UNCHANGED <<running, table, searchVars>>

-----------------------------------------------------------------------------
(* The search for an address, in handleDiscoverMessage().                  *)

SearchIsOver == valid \/ (tried /\ candidate = MaximumAddress + 1)

(* A mistake: the candidate is never set back to the first address. *)
SearchOnwards ==
    /\ task = "searching" /\ ~SearchIsOver /\ MaximumAddress < candidate
    /\ tried' = TRUE /\ valid' = FALSE /\ candidate' = candidate + 1
    /\ UNCHANGED <<task, running, inbox, table, client, reply, granted>>

SearchStep ==
    /\ task = "searching" /\ ~SearchIsOver
    /\ MaximumAddress < candidate
    /\ tried' = TRUE
    /\ valid' = IsFree(MinimumAddress)
    /\ candidate' = IF IsFree(MinimumAddress) THEN MinimumAddress ELSE MinimumAddress + 1
    /\ UNCHANGED <<task, running, inbox, table, client, reply, granted>>

(* storeInfo() and the offer; without an address, or without room to store *)
(* it, the client gets no reply.                                           *)
SearchEnds ==
    /\ task = "searching" /\ SearchIsOver
    /\ task' = "checking"
    /\ IF valid /\ Len(table) < MaxAddressInfo
       THEN /\ table' = Append(table, [client |-> client, address |-> candidate])
            /\ SendReply(Reply("OFFER", client, candidate))
       ELSE UNCHANGED <<table, reply, granted>>
    /\ UNCHANGED <<running, inbox, searchVars>>

-----------------------------------------------------------------------------

ServiceTask ==
    \/ InitializeService \/ CheckRunning \/ ReceiveTimesOut
    \/ ProcessIgnored \/ ProcessDiscover \/ ProcessRequest
    \/ SearchStep \/ SearchEnds

Next == CreateService \/ DeleteService \/ ServiceTask \/ \E m \in Messages : Arrive(m)

Spec == Init /\ [][Next]_vars

(* The task runs when it can; a receive that finds nothing times out. *)
FairSpec == Spec /\ WF_vars(ServiceTask)

-----------------------------------------------------------------------------
(* Properties.                                                             *)

(* Over all the offers and acknowledgements ever sent, an address belongs  *)
(* to one client and a client to one address, whatever clients ask for and *)
(* however late or often their messages arrive.                            *)
AddressesAgree ==
    \A g, h \in granted : (g.client = h.client) <=> (g.address = h.address)

(* The loop of the search that neither ends nor changes anything. *)
SearchIsStuck == task = "searching" /\ ~SearchIsOver /\ candidate <= MaximumAddress

(* A DISCOVER the socket has accepted is answered with an offer, unless    *)
(* the service has ended or the task is in the search that never ends, for *)
(* a client that is not the first the server has seen.                     *)
DiscoverAnswered ==
    \A c \in Clients :
        (\E i \in 1 .. Len(inbox) : inbox[i] = Discover(c)) ~>
            \/ reply.kind = "OFFER" /\ reply.client = c
            \/ SearchIsStuck /\ table # <<>> /\ ~IsSeenBefore(client)
            \/ task = "ended"
=============================================================================
