-------------------------------- MODULE Chat --------------------------------
(***************************************************************************)
(* The chat of one session between companion and customer                  *)
(* (sessions.service.ts, session.gateway.ts, the relay of                  *)
(* internal.service.ts).                                                   *)
(*                                                                         *)
(* The messages live at the customer backend.  A companion's message, over *)
(* REST or a socket, takes two posts there, for the conversation and for   *)
(* the message, and is then shown in the session's room; the customer's    *)
(* messages come back as relays.  Neither REST nor the socket hands on a   *)
(* key of the app's, so that a message sent again is a new one.            *)
(***************************************************************************)
EXTENDS Naturals, FiniteSets

CONSTANTS
    Sender,         \* calls that may be in progress at once
    Socket,         \* sockets connected to the sessions namespace
    OwnSocket,      \* those that the session's companion opened
    Text,           \* what the companion has to say
    Word,           \* what the customer has to say
    MaxSend,        \* bound: messages sent and histories loaded
    MaxRelay,       \* bound: relays
    MaxFault        \* bound: posts that fail, answers lost, restarts

ASSUME ChatAssumption ==
    /\ IsFiniteSet(Sender)
    /\ OwnSocket \subseteq Socket
    /\ Text \cap Word = {}
    /\ "none" \notin Text
    /\ {MaxSend, MaxRelay, MaxFault} \subseteq Nat

VARIABLES
    phase,          \* sessions.status: open to messages (upcoming, checked_in, active), on a
                    \* step between (pre_arrival, extending), over (completed, cancelled, no_show)
    sessionRoom,    \* sockets in the room session_<id>
    conversation,   \* whether the customer backend has the conversation
    store,          \* copies of each message at the customer backend
    sender,         \* calls in progress
    shown,          \* how often each socket was sent each message
    loaded,         \* the history answered last
    pending,        \* what the companion still has to send, as far as the app knows
    orphaned,       \* history: stored copies of which the app was told that they failed
    awaited,        \* history: messages stored while the socket was in the room
    overtime,       \* history: messages stored while the session was over, since it last was
    sends, relays, faults   \* bounds

chatVars == <<phase, sessionRoom, conversation, store, sender, shown, loaded, pending,
              orphaned, awaited, overtime, sends, relays, faults>>

Message == Text \cup Word

SenderRow ==
    [pc : {"check", "establish", "persist", "announce"}, text : Text, socket : BOOLEAN]
    \cup [pc : {"resting", "find", "fetch"}, text : {"none"}, socket : {FALSE}]

NoSend == [pc |-> "resting", text |-> "none", socket |-> FALSE]

ChatTypeOK ==
    /\ phase \in {"messaging", "between", "over"}
    /\ sessionRoom \subseteq Socket
    /\ conversation \in BOOLEAN
    /\ store \in [Message -> Nat]
    /\ sender \in [Sender -> SenderRow]
    /\ shown \in [Socket -> [Message -> Nat]]
    /\ loaded \subseteq Message
    /\ pending \subseteq Text
    /\ orphaned \in [Text -> Nat]
    /\ awaited \in [Socket -> SUBSET Text]
    /\ overtime \in Nat
    /\ sends \in Nat /\ relays \in Nat /\ faults \in Nat

Unheard == [m \in Message |-> 0]

ChatInit ==
    /\ phase = "messaging"
    /\ sessionRoom = {}
    /\ conversation = FALSE
    /\ store = Unheard
    /\ sender = [c \in Sender |-> NoSend]
    /\ shown = [s \in Socket |-> Unheard]
    /\ loaded = {}
    /\ pending = Text
    /\ orphaned = [t \in Text |-> 0]
    /\ awaited = [s \in Socket |-> {}]
    /\ overtime = 0
    /\ sends = 0
    /\ relays = 0
    /\ faults = 0

Faults == faults < MaxFault /\ faults' = faults + 1

StartsCall(c, row) ==
    /\ sender[c] = NoSend
    /\ sends < MaxSend
    /\ sends' = sends + 1
    /\ sender' = [sender EXCEPT ![c] = row]

Goes(c, pc) ==
    sender' = [sender EXCEPT ![c] = [pc |-> pc, text |-> sender[c].text, socket |-> sender[c].socket]]

(* The app is told that the message was not sent, and may send it again.   *)
Refuses(c) ==
    /\ sender' = [sender EXCEPT ![c] = NoSend]
    /\ pending' = pending \cup {sender[c].text}

(* A call has stored t and not shown it yet.                               *)
Announcing(t) == \E c \in Sender : sender[c].pc = "announce" /\ sender[c].text = t

(* Sends a message to every socket in the room, so many times.             *)
Broadcasts(m, times) ==
    shown' = [s \in Socket |-> IF s \in sessionRoom THEN [shown[s] EXCEPT ![m] = @ + times] ELSE shown[s]]

-------------------------------------------------------------------------------
(* The room *)

(* Faulty: the session is looked up without its companion.                 *)
JoinAnySession(s) ==
    /\ s \notin sessionRoom
    /\ sessionRoom' = sessionRoom \cup {s}
    /\ UNCHANGED <<phase, conversation, store, sender, shown, loaded, pending, orphaned,
                   awaited, overtime, sends, relays, faults>>

JoinSession(s) ==
    /\ s \in OwnSocket \ sessionRoom
    /\ sessionRoom' = sessionRoom \cup {s}
    /\ UNCHANGED <<phase, conversation, store, sender, shown, loaded, pending, orphaned,
                   awaited, overtime, sends, relays, faults>>

(* A socket that connects again is a new one.                              *)
Disconnect(s) ==
    /\ s \in sessionRoom
    /\ sessionRoom' = sessionRoom \ {s}
    /\ shown' = [shown EXCEPT ![s] = Unheard]
    /\ awaited' = [awaited EXCEPT ![s] = {}]
    /\ UNCHANGED <<phase, conversation, store, sender, loaded, pending, orphaned, overtime,
                   sends, relays, faults>>

(* The session's handlers update it by id, whatever it has become since    *)
(* they read it: one that is over may come back and end again (Settlement, *)
(* Booking).                                                               *)
MoveSession(p) ==
    /\ p # phase
    /\ phase' = p
    /\ overtime' = IF p = "over" THEN 0 ELSE overtime
    /\ UNCHANGED <<sessionRoom, conversation, store, sender, shown, loaded, pending, orphaned,
                   awaited, sends, relays, faults>>

-------------------------------------------------------------------------------
(* A message of the companion *)

(* Over a socket: of a member of the room, unless the session is over.     *)
SendChat(c, t, socket) ==
    /\ t \in pending
    /\ socket => sessionRoom \cap OwnSocket # {} /\ phase # "over"
    /\ StartsCall(c, [pc |-> "check", text |-> t, socket |-> socket])
    /\ pending' = pending \ {t}
    /\ UNCHANGED <<phase, sessionRoom, conversation, store, shown, loaded, orphaned, awaited,
                   overtime, relays, faults>>

CheckSession(c) ==
    /\ sender[c].pc = "check"
    /\ IF phase = "messaging"
       THEN Goes(c, "establish") /\ UNCHANGED pending
       ELSE Refuses(c)
    /\ UNCHANGED <<phase, sessionRoom, conversation, store, shown, loaded, orphaned, awaited,
                   overtime, sends, relays, faults>>

(* The post that gets or creates the conversation may fail before or after *)
(* it has.                                                                 *)
EstablishConversation(c) ==
    /\ sender[c].pc = "establish"
    /\ \/ conversation' = TRUE /\ Goes(c, "persist") /\ UNCHANGED <<pending, faults>>
       \/ conversation' \in {conversation, TRUE} /\ Refuses(c) /\ Faults
    /\ UNCHANGED <<phase, sessionRoom, store, shown, loaded, orphaned, awaited, overtime, sends, relays>>

(* The post that stores the message, likewise.                             *)
PersistMessage(c) ==
    LET t == sender[c].text
        Stores ==
            /\ store' = [store EXCEPT ![t] = @ + 1]
            /\ overtime' = IF phase = "over" THEN overtime + 1 ELSE overtime
    IN  /\ sender[c].pc = "persist"
        /\ \/ /\ Stores
              /\ Goes(c, "announce")
              /\ awaited' = [s \in Socket |-> IF s \in sessionRoom THEN awaited[s] \cup {t} ELSE awaited[s]]
              /\ UNCHANGED <<pending, orphaned, faults>>
           \/ /\ Stores
              /\ Refuses(c)
              /\ orphaned' = [orphaned EXCEPT ![t] = @ + 1]
              /\ Faults
              /\ UNCHANGED awaited
           \/ Refuses(c) /\ Faults /\ UNCHANGED <<store, overtime, orphaned, awaited>>
        /\ UNCHANGED <<phase, sessionRoom, conversation, shown, loaded, sends, relays>>

(* The service shows the message in the room; for a socket's, so does the  *)
(* gateway.  The answer to the app may be lost.                            *)
AnnounceMessage(c) ==
    /\ sender[c].pc = "announce"
    /\ Broadcasts(sender[c].text, IF sender[c].socket THEN 2 ELSE 1)
    /\ \/ sender' = [sender EXCEPT ![c] = NoSend] /\ UNCHANGED <<pending, orphaned, faults>>
       \/ Refuses(c) /\ orphaned' = [orphaned EXCEPT ![sender[c].text] = @ + 1] /\ Faults
    /\ UNCHANGED <<phase, sessionRoom, conversation, store, loaded, awaited, overtime, sends, relays>>

-------------------------------------------------------------------------------
(* A message of the customer, relayed once or more, or never *)

CustomerSays(w) ==
    /\ store[w] = 0
    /\ store' = [store EXCEPT ![w] = 1]
    /\ conversation' = TRUE
    /\ UNCHANGED <<phase, sessionRoom, sender, shown, loaded, pending, orphaned, awaited, overtime,
                   sends, relays, faults>>

(* Neither the session's status nor its companion's account is asked for.  *)
HandleChatRelay(w) ==
    /\ store[w] > 0
    /\ relays < MaxRelay
    /\ relays' = relays + 1
    /\ Broadcasts(w, 1)
    /\ UNCHANGED <<phase, sessionRoom, conversation, store, sender, loaded, pending, orphaned,
                   awaited, overtime, sends, faults>>

-------------------------------------------------------------------------------
(* The history: a failure is answered as a conversation without messages.  *)

LoadHistory(c) ==
    /\ StartsCall(c, [pc |-> "find", text |-> "none", socket |-> FALSE])
    /\ UNCHANGED <<phase, sessionRoom, conversation, store, shown, loaded, pending, orphaned,
                   awaited, overtime, relays, faults>>

FindConversation(c) ==
    /\ sender[c].pc = "find"
    /\ \/ conversation' = TRUE /\ Goes(c, "fetch") /\ UNCHANGED <<loaded, faults>>
       \/ conversation' \in {conversation, TRUE} /\ loaded' = {} /\ Goes(c, "resting") /\ Faults
    /\ UNCHANGED <<phase, sessionRoom, store, shown, pending, orphaned, awaited, overtime, sends, relays>>

FetchMessages(c) ==
    /\ sender[c].pc = "fetch"
    /\ \/ loaded' = {m \in Message : store[m] > 0} /\ UNCHANGED faults
       \/ loaded' = {} /\ Faults
    /\ Goes(c, "resting")
    /\ UNCHANGED <<phase, sessionRoom, conversation, store, shown, pending, orphaned, awaited,
                   overtime, sends, relays>>

-------------------------------------------------------------------------------
(* The process restarts: calls and sockets are gone, and the app learns of *)
(* its calls that they failed.                                             *)
ChatRestart ==
    /\ Faults
    /\ sender' = [c \in Sender |-> NoSend]
    /\ pending' = pending \cup {t \in Text : \E c \in Sender : sender[c].text = t}
    /\ orphaned' = [t \in Text |-> IF Announcing(t) THEN orphaned[t] + 1 ELSE orphaned[t]]
    /\ sessionRoom' = {}
    /\ shown' = [s \in Socket |-> Unheard]
    /\ awaited' = [s \in Socket |-> {}]
    /\ UNCHANGED <<phase, conversation, store, loaded, overtime, sends, relays>>

ChatNext ==
    \/ ChatRestart
    \/ \E s \in Socket : JoinSession(s) \/ Disconnect(s)
    \/ \E p \in {"messaging", "between", "over"} : MoveSession(p)
    \/ \E w \in Word : CustomerSays(w) \/ HandleChatRelay(w)
    \/ \E c \in Sender :
          \/ \E t \in Text, socket \in BOOLEAN : SendChat(c, t, socket)
          \/ CheckSession(c) \/ EstablishConversation(c) \/ PersistMessage(c) \/ AnnounceMessage(c)
          \/ LoadHistory(c) \/ FindConversation(c) \/ FetchMessages(c)

ChatSpec == ChatInit /\ [][ChatNext]_chatVars

-------------------------------------------------------------------------------
(* Properties *)

(* The room agrees with the customer backend's store: only the companion's *)
(* sockets are in it; they were sent nothing that is not stored, a         *)
(* companion's message at most twice for each copy stored, and each that   *)
(* was stored while they were in the room, once its call has finished.     *)
(* There is a second copy only of a message whose first the app was told   *)
(* had failed, and each time the session is over, however often a late     *)
(* update brings it back, only messages of calls that had found it open    *)
(* are stored: as many as there are calls at most (sendChatMessage, the    *)
(* gateway, handleChatRelay, getChatHistory).                              *)
ChatFollowsStore ==
    /\ \A s \in Socket, m \in Message :
          /\ shown[s][m] > 0 => s \in OwnSocket /\ store[m] > 0
          /\ m \in Text => shown[s][m] <= 2 * store[m]
    /\ \A s \in Socket : \A t \in awaited[s] : shown[s][t] > 0 \/ Announcing(t)
    /\ \A t \in Text : store[t] <= orphaned[t] + 1
    /\ \A m \in loaded : store[m] > 0
    /\ overtime <= Cardinality(Sender)
=============================================================================
