------------------------------- MODULE Ticket -------------------------------
(***************************************************************************)
(* One support ticket: the companion's copy, the room its app listens in,  *)
(* and the admin backend's copy (support.service.ts, support.gateway.ts,   *)
(* syncTicketToAdmin and syncTicketMessageToAdmin of                       *)
(* internal-bridge.service.ts, addSupportTicketMessage of                  *)
(* internal.service.ts).                                                   *)
(*                                                                         *)
(* Each write here is told to the admin backend in one post that nobody    *)
(* waits for and nothing repeats: posts may arrive in any order or never.  *)
(* No code of this backend closes a ticket.                                *)
(***************************************************************************)
EXTENDS Naturals

CONSTANTS
    Desker,         \* calls of the companion that may be in progress at once
    Line,           \* sockets connected to the support namespace
    OwnLine,        \* those that the ticket's companion opened
    Complaint,      \* the ticket's description
    Reply,          \* messages of the companion
    Advice,         \* messages of an agent
    MaxRefusal      \* bound: posts that are refused or lost, writes that fail, restarts

ASSUME TicketAssumption ==
    /\ OwnLine \subseteq Line
    /\ Complaint \notin Reply
    /\ {"none", "ticket"} \cap (Reply \cup {Complaint}) = {}
    /\ MaxRefusal \in Nat

VARIABLES
    filed,          \* support_tickets: the ticket is there, and OPEN
    rows,           \* ticket_messages of the companion
    advice,         \* ticket_messages of an agent
    ticketRoom,     \* sockets in the room ticket_<id>
    heard,          \* what each socket in the room was sent
    desker,         \* calls in progress
    outbox,         \* posts to the admin backend that have not arrived
    adminTicket,    \* the admin backend has the ticket
    adminRows,      \* messages the admin backend has
    dropped,        \* history: posts refused, lost or never made
    due,            \* history: what a socket in the room has yet to be sent or was sent
    refusals        \* bound

ticketVars == <<filed, rows, advice, ticketRoom, heard, desker, outbox, adminTicket, adminRows,
                dropped, due, refusals>>

Written == Reply \cup {Complaint}

DeskerRow ==
    [pc : {"resting", "describe", "file"}, reply : {"none"}, socket : {FALSE}]
    \cup [pc : {"store", "tell"}, reply : Reply, socket : BOOLEAN]

Work(pc) == [pc |-> pc, reply |-> "none", socket |-> FALSE]

NoWork == Work("resting")

TicketTypeOK ==
    /\ {filed, adminTicket} \subseteq BOOLEAN
    /\ rows \cup adminRows \subseteq Written
    /\ advice \subseteq Advice
    /\ ticketRoom \subseteq Line
    /\ heard \in [Line -> SUBSET Reply]
    /\ due \in [Line -> SUBSET Reply]
    /\ desker \in [Desker -> DeskerRow]
    /\ outbox \cup dropped \subseteq Written \cup {"ticket"}
    /\ refusals \in 0 .. MaxRefusal

TicketInit ==
    /\ filed = FALSE
    /\ rows = {}
    /\ advice = {}
    /\ ticketRoom = {}
    /\ heard = [s \in Line |-> {}]
    /\ desker = [c \in Desker |-> NoWork]
    /\ outbox = {}
    /\ adminTicket = FALSE
    /\ adminRows = {}
    /\ dropped = {}
    /\ due = [s \in Line |-> {}]
    /\ refusals = 0

Refusal == refusals < MaxRefusal /\ refusals' = refusals + 1

Works(c, from, row) == desker[c].pc = from /\ desker' = [desker EXCEPT ![c] = row]

(* A message as it is sent to the sockets in the room.                     *)
InRoom(f, t) == [s \in Line |-> IF s \in ticketRoom THEN f[s] \cup {t} ELSE f[s]]

-------------------------------------------------------------------------------
(* The ticket, its description as a first message, and the post.           *)

CreateTicket(c) ==
    /\ ~filed
    /\ Works(c, "resting", Work("describe"))
    /\ filed' = TRUE
    /\ UNCHANGED <<rows, advice, ticketRoom, heard, outbox, adminTicket, adminRows, dropped, due, refusals>>

(* That the message fails stops nothing.                                   *)
DescribeTicket(c) ==
    /\ Works(c, "describe", Work("file"))
    /\ \/ rows' = rows \cup {Complaint} /\ UNCHANGED refusals
       \/ Refusal /\ UNCHANGED rows
    /\ UNCHANGED <<filed, advice, ticketRoom, heard, outbox, adminTicket, adminRows, dropped, due>>

FileTicket(c) ==
    /\ Works(c, "file", NoWork)
    /\ outbox' = outbox \cup {"ticket"}
    /\ UNCHANGED <<filed, rows, advice, ticketRoom, heard, adminTicket, adminRows, dropped, due, refusals>>

-------------------------------------------------------------------------------
(* A reply of the companion, over REST or by a socket in the room; one it  *)
(* sends again is another reply.  A look-up or insert that fails leaves    *)
(* things as if the call had not been made.                                *)

AddTicketMessage(c, t, socket) ==
    /\ filed
    /\ t \notin rows \cup {desker[o].reply : o \in Desker}
    /\ socket => ticketRoom # {}
    /\ Works(c, "resting", [pc |-> "store", reply |-> t, socket |-> socket])
    /\ UNCHANGED <<filed, rows, advice, ticketRoom, heard, outbox, adminTicket, adminRows, dropped, due, refusals>>

StoreReply(c) ==
    /\ Works(c, "store", [pc |-> "tell", reply |-> desker[c].reply, socket |-> desker[c].socket])
    /\ rows' = rows \cup {desker[c].reply}
    /\ due' = IF desker[c].socket THEN InRoom(due, desker[c].reply) ELSE due
    /\ UNCHANGED <<filed, advice, ticketRoom, heard, outbox, adminTicket, adminRows, dropped, refusals>>

(* Faulty: the gateway shows the reply and leaves the post to the service, *)
(* which leaves it to the gateway.                                         *)
TellReplyToRoom(c) ==
    /\ Works(c, "tell", NoWork)
    /\ heard' = IF desker[c].socket THEN InRoom(heard, desker[c].reply) ELSE heard
    /\ UNCHANGED <<filed, rows, advice, ticketRoom, outbox, adminTicket, adminRows, dropped, due, refusals>>

(* Only a socket's reply is shown in the room.                             *)
TellReply(c) ==
    /\ Works(c, "tell", NoWork)
    /\ heard' = IF desker[c].socket THEN InRoom(heard, desker[c].reply) ELSE heard
    /\ outbox' = outbox \cup {desker[c].reply}
    /\ UNCHANGED <<filed, rows, advice, ticketRoom, adminTicket, adminRows, dropped, due, refusals>>

-------------------------------------------------------------------------------
(* The admin backend.  It is not known here what it does with a message    *)
(* for a ticket it has not heard of.                                       *)

PostArrives(p) ==
    /\ p \in outbox
    /\ outbox' = outbox \ {p}
    /\ IF p = "ticket"
       THEN /\ adminTicket' = TRUE
            /\ adminRows' = adminRows \cup {Complaint}
            /\ UNCHANGED <<dropped, refusals>>
       ELSE /\ UNCHANGED adminTicket
            /\ \/ adminRows' = adminRows \cup {p} /\ UNCHANGED <<dropped, refusals>>
               \/ /\ ~adminTicket
                  /\ dropped' = dropped \cup {p}
                  /\ UNCHANGED <<adminRows, refusals>>
    /\ UNCHANGED <<filed, rows, advice, ticketRoom, heard, desker, due>>

(* A post that was refused or never arrived is not made again; whether one *)
(* that arrived was answered, nobody asks.                                 *)
PostFails(p) ==
    /\ p \in outbox
    /\ Refusal
    /\ outbox' = outbox \ {p}
    /\ dropped' = dropped \cup {p}
    /\ UNCHANGED <<filed, rows, advice, ticketRoom, heard, desker, adminTicket, adminRows, due>>

(* An agent's reply is stored, and not shown in the room.                  *)
AddSupportTicketMessage(a) ==
    /\ adminTicket
    /\ advice' = advice \cup {a}
    /\ UNCHANGED <<filed, rows, ticketRoom, heard, desker, outbox, adminTicket, adminRows, dropped, due, refusals>>

-------------------------------------------------------------------------------
(* The room *)

JoinTicket(s) ==
    /\ filed
    /\ s \in OwnLine \ ticketRoom
    /\ ticketRoom' = ticketRoom \cup {s}
    /\ UNCHANGED <<filed, rows, advice, heard, desker, outbox, adminTicket, adminRows, dropped, due, refusals>>

LeaveTicket(s) ==
    /\ s \in ticketRoom
    /\ ticketRoom' = ticketRoom \ {s}
    /\ heard' = [heard EXCEPT ![s] = {}]
    /\ due' = [due EXCEPT ![s] = {}]
    /\ UNCHANGED <<filed, rows, advice, desker, outbox, adminTicket, adminRows, dropped, refusals>>

(* Calls and sockets are gone, and so are the posts that have not left.     *)
TicketRestart ==
    /\ Refusal
    /\ dropped' = dropped \cup outbox \cup {desker[c].reply : c \in {d \in Desker : desker[d].pc = "tell"}}
                     \cup (IF \E c \in Desker : desker[c].pc \in {"describe", "file"} THEN {"ticket"} ELSE {})
    /\ outbox' = {}
    /\ desker' = [c \in Desker |-> NoWork]
    /\ ticketRoom' = {}
    /\ heard' = [s \in Line |-> {}]
    /\ due' = [s \in Line |-> {}]
    /\ UNCHANGED <<filed, rows, advice, adminTicket, adminRows>>

TicketNext ==
    \/ TicketRestart
    \/ \E a \in Advice : AddSupportTicketMessage(a)
    \/ \E s \in Line : JoinTicket(s) \/ LeaveTicket(s)
    \/ \E p \in Written \cup {"ticket"} : PostArrives(p) \/ PostFails(p)
    \/ \E c \in Desker :
          \/ \E t \in Reply, socket \in BOOLEAN : AddTicketMessage(c, t, socket)
          \/ CreateTicket(c) \/ DescribeTicket(c) \/ FileTicket(c) \/ StoreReply(c) \/ TellReply(c)

TicketSpec == TicketInit /\ [][TicketNext]_ticketVars

-------------------------------------------------------------------------------
(* Properties *)

Telling(t) == \E c \in Desker : desker[c].pc = "tell" /\ desker[c].reply = t

Filing == \E c \in Desker : desker[c].pc \in {"describe", "file"}

(* The admin backend has nothing of a ticket that is not stored here, but  *)
(* a description whose row failed; and what is stored here and not there   *)
(* is on its way or its one post came to nothing.  A socket is sent only   *)
(* what is stored, and all that sockets said while it was in the room      *)
(* (createTicket, addTicketMessage, the gateway, the bridge).              *)
TicketReachesAdmin ==
    /\ adminRows \ {Complaint} \subseteq rows
    /\ adminTicket => filed
    /\ filed => adminTicket \/ Filing \/ "ticket" \in outbox \cup dropped
    /\ \A t \in rows : t \in adminRows \cup outbox \cup dropped \/ Telling(t) \/ (t = Complaint /\ ~adminTicket)
    /\ \A s \in Line :
          /\ heard[s] \subseteq rows
          /\ s \notin OwnLine => heard[s] = {}
          /\ \A t \in due[s] : t \in heard[s] \/ Telling(t)
=============================================================================
