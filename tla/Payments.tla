------------------------------ MODULE Payments ------------------------------
(***************************************************************************)
(* Paying for one booking request: orders at the payment provider, their   *)
(* rows here, the client's confirmation and the provider's webhooks        *)
(* (payments.service.ts).  What a payment does to the request's status is  *)
(* modelled in Booking; here are paymentStatus and the order rows.         *)
(*                                                                         *)
(* The provider is external: an attempt at an open order fails, or         *)
(* captures the amount; either makes an event, delivered again and again   *)
(* until a delivery is answered, in any order.  Refunds and payouts of the *)
(* provider change no row: the refund method throws, and payout events     *)
(* look for an identifier that no payout record has.                       *)
(***************************************************************************)
EXTENDS Naturals

CONSTANTS
    Order,          \* orders
    Handler,        \* handlers that may be in progress at once
    MaxVerify,      \* bound: confirmations by the client
    MaxDeath        \* bound: handlers that die

ASSUME PaymentsAssumption == {MaxVerify, MaxDeath} \subseteq Nat

VARIABLES
    paymentStatus,  \* booking_requests.paymentStatus
    orderRow,       \* razorpay_orders.status
    charge,         \* provider: what became of the order
    events,         \* provider: events not yet answered
    handler,        \* handlers in progress
    verifications,  \* bound
    deaths,         \* bound and history: handlers that died
    overwritten,    \* history: orders whose paid row a failed attempt's event wrote over
    crossed         \* history: handlers of different outcomes were in progress together

providerVars == <<charge, events>>
paymentRows == <<paymentStatus, orderRow>>
paymentVars == <<paymentRows, providerVars, handler, verifications, deaths, overwritten, crossed>>

Outcome == {"paid", "failed"}
Event == [order : Order, outcome : Outcome]

(* store: the order exists at the provider only; request, order: the row   *)
(* still to be written.                                                    *)
HandlerRow == [ pc : {"store", "request", "order"}, order : Order, outcome : Outcome ]

Resting == [pc |-> "resting"]

PaymentTypeOK ==
    /\ paymentStatus \in {"pending"} \cup Outcome
    /\ orderRow \in [Order -> {"none", "created"} \cup Outcome]
    /\ charge \in [Order -> {"none", "open", "captured"}]
    /\ events \in SUBSET Event
    /\ handler \in [Handler -> HandlerRow \cup {Resting}]
    /\ verifications \in 0 .. MaxVerify
    /\ deaths \in 0 .. MaxDeath
    /\ overwritten \in SUBSET Order
    /\ crossed \in BOOLEAN

PaymentInit ==
    /\ paymentStatus = "pending"
    /\ orderRow = [o \in Order |-> "none"]
    /\ charge = [o \in Order |-> "none"]
    /\ events = {}
    /\ handler = [h \in Handler |-> Resting]
    /\ verifications = 0
    /\ deaths = 0
    /\ overwritten = {}
    /\ crossed = FALSE

Starts(h, row) ==
    /\ handler[h] = Resting
    /\ handler' = [handler EXCEPT ![h] = row]
    /\ crossed' = (crossed \/ \E o \in Handler \ {h} :
                      handler[o] # Resting /\ handler[o].pc # "store" /\ handler[o].outcome # row.outcome)

At(h, pc) == handler[h] # Resting /\ handler[h].pc = pc
Rests(h) == handler' = [handler EXCEPT ![h] = Resting]

-------------------------------------------------------------------------------
(* Orders.  Nothing keeps a request from having several.                   *)

CreateOrder(h, o) ==
    /\ charge[o] = "none"
    /\ handler[h] = Resting
    /\ handler' = [handler EXCEPT ![h] = [pc |-> "store", order |-> o, outcome |-> "failed"]]
    /\ charge' = [charge EXCEPT ![o] = "open"]
    /\ UNCHANGED <<paymentRows, events, verifications, deaths, overwritten, crossed>>

StoreOrder(h) ==
    /\ At(h, "store")
    /\ orderRow' = [orderRow EXCEPT ![handler[h].order] = "created"]
    /\ Rests(h)
    /\ UNCHANGED <<paymentStatus, providerVars, verifications, deaths, overwritten, crossed>>

(* The client knows an order once its row is stored.                       *)
AttemptFails(o) ==
    /\ orderRow[o] # "none"
    /\ charge[o] = "open"
    /\ events' = events \cup {[order |-> o, outcome |-> "failed"]}
    /\ UNCHANGED <<paymentRows, charge, handler, verifications, deaths, overwritten, crossed>>

(* Faulty: the client is given the order before its row is stored.         *)
AmountCapturedEarly(o) ==
    /\ charge[o] = "open"
    /\ charge' = [charge EXCEPT ![o] = "captured"]
    /\ events' = events \cup {[order |-> o, outcome |-> "paid"]}
    /\ UNCHANGED <<paymentRows, handler, verifications, deaths, overwritten, crossed>>

AmountCaptured(o) ==
    /\ orderRow[o] # "none"
    /\ charge[o] = "open"
    /\ charge' = [charge EXCEPT ![o] = "captured"]
    /\ events' = events \cup {[order |-> o, outcome |-> "paid"]}
    /\ UNCHANGED <<paymentRows, handler, verifications, deaths, overwritten, crossed>>

-------------------------------------------------------------------------------
(* Handlers.  The client's confirmation writes the order first; a webhook  *)
(* writes the request first.                                               *)

WriteOrder(o, outcome) ==
    /\ orderRow' = [orderRow EXCEPT ![o] = outcome]
    /\ overwritten' = IF outcome = "paid" THEN overwritten \ {o}
                      ELSE IF orderRow[o] = "paid" THEN overwritten \cup {o}
                      ELSE overwritten

VerifyPayment(h, o) ==
    /\ verifications < MaxVerify
    /\ charge[o] = "captured"
    /\ orderRow[o] # "none"
    /\ Starts(h, [pc |-> "request", order |-> o, outcome |-> "paid"])
    /\ WriteOrder(o, "paid")
    /\ verifications' = verifications + 1
    /\ UNCHANGED <<paymentStatus, providerVars, deaths>>

VerifyRequest(h) ==
    /\ At(h, "request")
    /\ paymentStatus' = "paid"
    /\ Rests(h)
    /\ UNCHANGED <<orderRow, providerVars, verifications, deaths, overwritten, crossed>>

(* An event about an order without a row is answered and forgotten.        *)
HandleWebhook(h, e) ==
    /\ e \in events
    /\ IF orderRow[e.order] = "none"
       THEN /\ events' = events \ {e}
            /\ UNCHANGED <<handler, crossed, paymentStatus>>
       ELSE /\ Starts(h, [pc |-> "order", order |-> e.order, outcome |-> e.outcome])
            /\ paymentStatus' = e.outcome
            /\ UNCHANGED events
    /\ UNCHANGED <<orderRow, charge, verifications, deaths, overwritten>>

(* Faulty: a failed attempt leaves the order as it was.                    *)
WebhookOrderPaidOnly(h) ==
    /\ At(h, "order")
    /\ LET row == handler[h] IN
          /\ IF row.outcome = "paid" THEN WriteOrder(row.order, "paid") ELSE UNCHANGED <<orderRow, overwritten>>
          /\ events' = events \ {[order |-> row.order, outcome |-> row.outcome]}
    /\ Rests(h)
    /\ UNCHANGED <<paymentStatus, charge, verifications, deaths, crossed>>

(* The second write, then the answer.                                      *)
WebhookOrder(h) ==
    /\ At(h, "order")
    /\ LET row == handler[h] IN
          /\ WriteOrder(row.order, row.outcome)
          /\ events' = events \ {[order |-> row.order, outcome |-> row.outcome]}
    /\ Rests(h)
    /\ UNCHANGED <<paymentStatus, charge, verifications, deaths, crossed>>

HandlerDies(h) ==
    /\ handler[h] # Resting
    /\ deaths < MaxDeath
    /\ deaths' = deaths + 1
    /\ Rests(h)
    /\ UNCHANGED <<paymentRows, providerVars, verifications, overwritten, crossed>>

PaymentNext ==
    \/ \E o \in Order : AttemptFails(o) \/ AmountCaptured(o)
    \/ \E h \in Handler :
          \/ \E o \in Order : CreateOrder(h, o) \/ VerifyPayment(h, o)
          \/ \E e \in Event : HandleWebhook(h, e)
          \/ StoreOrder(h) \/ VerifyRequest(h) \/ WebhookOrder(h) \/ HandlerDies(h)

PaymentSpec == PaymentInit /\ [][PaymentNext]_paymentVars

-------------------------------------------------------------------------------
(* Properties *)

(* The row of an order whose amount the provider has captured says "paid", *)
(* or the provider still has that event to deliver, or the row did say so  *)
(* until the event of an earlier, failed attempt came late and wrote       *)
(* "failed" over it: handleWebhook does not look at what the row says.     *)
(* Nothing else makes a payment unknown, neither a crash between the two   *)
(* writes nor an event that comes early (createOrder stores the row before *)
(* it answers, handleWebhook answers after its last write).                *)
CaptureNotForgotten ==
    \A o \in Order :
        charge[o] = "captured" =>
            \/ orderRow[o] = "paid"
            \/ [order |-> o, outcome |-> "paid"] \in events
            \/ orderRow[o] = "failed" /\ o \in overwritten

(* With no handler in progress the request says of its payment what one of *)
(* its orders says, unless a handler died between its two writes or a      *)
(* confirmation crossed with the event of a failed attempt: the two write  *)
(* the rows in opposite orders (verifyPayment, handleWebhook).             *)
RequestAgreesWithOrder ==
    \/ deaths > 0
    \/ crossed
    \/ paymentStatus = "pending"
    \/ \E h \in Handler : handler[h] # Resting
    \/ \E o \in Order : orderRow[o] = paymentStatus
=============================================================================
