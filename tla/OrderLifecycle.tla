--------------------------- MODULE OrderLifecycle ---------------------------
(***************************************************************************)
(* The rows of the orders table and everything that writes them: the       *)
(* handlers of the order, transaction and partner controllers, and the     *)
(* consumers of order.matched and order.complete messages.                 *)
(*                                                                         *)
(* A handler is a call that reads a row, holds a copy of it across awaits  *)
(* and saves the copy later: other calls run in between.  Sequelize's      *)
(* save() and update() write the fields of the copy that were changed, no  *)
(* others, and write nothing when the row is gone.                         *)
(***************************************************************************)
EXTENDS Integers, FiniteSets

CONSTANTS
    Drivers,         \* ids of the drivers
    Orders,          \* ids the orders table gives out
    DriverStatuses,  \* what drivers post to partner/update-status
    Callers,         \* bound: HTTP requests under way at the same time
    MaxCompletions,  \* bound: requests to complete one order
    MaxCrashes,      \* bound: restarts of the process
    NoRow,           \* the order has no row
    None             \* a local variable that has no value

\* The value order.partner_id has until a driver is found.
NoPartner == "pending"

OrderStatuses ==
    {"pending", "paid", "accepted", "completed"} \cup DriverStatuses

\* The messages of order.matched; RabbitMQ has each in at most one handler's hands.
Deliveries == Orders \X Drivers

Row == [status : OrderStatuses, partner : Drivers \cup {NoPartner}]

ASSUME NamesAssumption ==
    /\ NoPartner \notin Drivers
    /\ NoRow \notin Row /\ None \notin Row
    /\ Callers \cap Deliveries = {}
    /\ IsFiniteSet(Callers)
    /\ {MaxCompletions, MaxCrashes} \subseteq Nat

VARIABLES
    order,       \* per id, the row [status, partner], or NoRow
    call,        \* per caller and delivery, the call it is executing
    matchQueue,  \* order-matched-queue: pairs <<order, driver>>
    used,        \* history: ids given out
    everPaid,    \* history: orders whose row was once marked paid
    searching,   \* history: orders a driver.match message was published for
    sent,        \* history: order.matched messages published
    handled,     \* history: order.matched messages stored in the row
    dropped,     \* history: orders an order.matched handler failed for
    completing,  \* history: requests to complete it, per order
    answered,    \* history: those answered "is marked as complete"
    announced,   \* history: order.complete messages published, per order
    delivered,   \* history: order.complete messages acknowledged
    told,        \* history: the rooms its completion was notified to
    crashes      \* history: restarts

rows == <<order, used, everPaid>>
queues == <<matchQueue, searching, sent, handled, dropped>>
news == <<completing, answered, announced, delivered, told>>
vars == <<rows, queues, news, call, crashes>>

Slots == Callers \cup Deliveries

\* op: the handler; pc: what it awaits; arg: the status or the driver it was
\* called with; row: its copy of the order
Ops == {"idle", "pay", "mark", "complete", "status", "cancel", "remove", "matched"}

PCs == {"idle", "read", "save", "reread", "publish", "announce", "refused",
        "delete", "find", "notify"}

\* Whose id names the room of a notification: "undefined" is nobody's.
Rooms == {"customer_id", "merchant_id", "partner_id", "undefined"}

Call == [op : Ops, pc : PCs, order : Orders \cup {None},
         arg : OrderStatuses \cup Drivers \cup {None}, row : Row \cup {None}]

Idle == [op |-> "idle", pc |-> "idle", order |-> None, arg |-> None, row |-> None]

TypeOK ==
    /\ order \in [Orders -> Row \cup {NoRow}]
    /\ call \in [Slots -> Call]
    /\ matchQueue \in SUBSET (Orders \X Drivers)
    /\ used \in SUBSET Orders
    /\ everPaid \in SUBSET Orders
    /\ searching \in SUBSET Orders
    /\ sent \in SUBSET (Orders \X Drivers)
    /\ handled \in SUBSET (Orders \X Drivers)
    /\ dropped \in SUBSET Orders
    /\ completing \in [Orders -> 0 .. MaxCompletions]
    /\ {answered, announced, delivered} \subseteq [Orders -> Nat]
    /\ told \in [Orders -> SUBSET Rooms]
    /\ crashes \in 0 .. MaxCrashes

Init ==
    /\ order = [o \in Orders |-> NoRow]
    /\ call = [c \in Slots |-> Idle]
    /\ matchQueue = {}
    /\ used = {}
    /\ everPaid = {}
    /\ searching = {}
    /\ sent = {}
    /\ handled = {}
    /\ dropped = {}
    /\ completing = [o \in Orders |-> 0]
    /\ answered = [o \in Orders |-> 0]
    /\ announced = [o \in Orders |-> 0]
    /\ delivered = [o \in Orders |-> 0]
    /\ told = [o \in Orders |-> {}]
    /\ crashes = 0

-----------------------------------------------------------------------------
At(c, op, pc) == call[c].op = op /\ call[c].pc = pc

Exists(o) == order[o] # NoRow

\* The call goes on to its next await; its copy of the row is of no more use.
Goto(c, pc) == call' = [call EXCEPT ![c].pc = pc, ![c].row = None]

\* It goes on with a copy of the row.
Copy(c, pc) ==
    call' = [call EXCEPT ![c].pc = pc, ![c].row = order[call[c].order]]

\* The call returns, or throws.
End(c) == call' = [call EXCEPT ![c] = Idle]

Start(c, op, pc, o, arg) ==
    /\ call[c] = Idle
    /\ call' = [call EXCEPT ![c] =
                 [op |-> op, pc |-> pc, order |-> o, arg |-> arg, row |-> None]]

\* Mutant of Merge: every field of the copy is written.
Overwrite(current, copy, changed) == changed

\* What a save leaves in a row: the changed fields of the copy, and the row's
\* own value of the others.
Merge(current, copy, changed) ==
    [status  |-> IF changed.status # copy.status
                 THEN changed.status ELSE current.status,
     partner |-> IF changed.partner # copy.partner
                 THEN changed.partner ELSE current.partner]

-----------------------------------------------------------------------------
\* createOrder: the only one of its steps that touches the table (module
\* Payments has the others).
CreateOrder(o) ==
    /\ o \notin used
    /\ order' = [order EXCEPT ![o] = [status |-> "pending", partner |-> NoPartner]]
    /\ used' = used \cup {o}
    /\ UNCHANGED <<everPaid, queues, news, call, crashes>>

\* Mutant of StartRequest: processPayment searches before it stores the status.
StartRequestSearchFirst(c, o) ==
    /\ o \in used
    /\ Start(c, "pay", "reread", o, "paid")
    /\ UNCHANGED <<rows, queues, news, crashes>>

\* transactions/process-payment; transactions/payment-notification does not
\* come this far (module Payments).
ProcessPayment(c, o) == Start(c, "pay", "read", o, "paid")

\* orders/:id/pay
MarkTransactionAsPaid(c, o) == Start(c, "mark", "read", o, "paid")

\* orders/:id/completed
CompleteOrder(c, o) ==
    /\ completing[o] < MaxCompletions
    /\ Start(c, "complete", "read", o, "completed")
    /\ completing' = [completing EXCEPT ![o] = @ + 1]
    /\ UNCHANGED <<rows, queues, answered, announced, delivered, told, crashes>>

\* partner/update-status: any status the driver's application sends.
UpdateDriverStatus(c, o, status) == Start(c, "status", "read", o, status)

\* orders/:id/cancel
CancelOrder(c, o) == Start(c, "cancel", "read", o, None)

\* DELETE orders/:id
RemoveOrder(c, o) == Start(c, "remove", "read", o, None)

StartRequest(c, o) ==
    /\ o \in used
    /\ \/ ProcessPayment(c, o)
       \/ MarkTransactionAsPaid(c, o)
       \/ \E status \in DriverStatuses : UpdateDriverStatus(c, o, status)
       \/ CancelOrder(c, o)
       \/ RemoveOrder(c, o)
    /\ UNCHANGED <<rows, queues, news, crashes>>

\* findByPk, or findOne: every handler fails when there is no row.
ReadRow(c) ==
    LET o == call[c].order IN
    /\ call[c].pc = "read"
    /\ IF ~Exists(o) THEN End(c)
       ELSE \/ call[c].op = "remove" /\ Goto(c, "delete")
            \/ call[c].op = "cancel" /\ Copy(c, "refused")
            \/ call[c].op \notin {"remove", "cancel", "matched"} /\ Copy(c, "save")
    /\ UNCHANGED <<rows, queues, news, crashes>>

\* The handler assigns the status and saves its copy.
SaveStatus(c) ==
    LET o == call[c].order
        changed == [call[c].row EXCEPT !.status = call[c].arg]
    IN
    /\ call[c].pc = "save"
    /\ IF Exists(o)
       THEN /\ order' = [order EXCEPT ![o] = Merge(@, call[c].row, changed)]
            /\ everPaid' = IF call[c].arg = "paid" THEN everPaid \cup {o} ELSE everPaid
       ELSE UNCHANGED <<order, everPaid>>
    /\ \/ call[c].op = "pay" /\ Goto(c, "reread")
       \/ call[c].op = "complete" /\ Goto(c, "publish")
       \/ call[c].op \notin {"pay", "complete"} /\ End(c)
    /\ UNCHANGED <<used, queues, news, crashes>>

\* processPayment reads the row again for triggerDriverMatch, which fails on a
\* missing one.
RereadRow(c) ==
    /\ At(c, "pay", "reread")
    /\ IF Exists(call[c].order) THEN Goto(c, "publish") ELSE End(c)
    /\ UNCHANGED <<rows, queues, news, crashes>>

\* triggerDriverMatch; the publication may fail, and processPayment with it.
PublishDriverMatch(c) ==
    /\ At(c, "pay", "publish")
    /\ End(c)
    /\ \/ searching' = searching \cup {call[c].order}
       \/ UNCHANGED searching
    /\ UNCHANGED <<rows, matchQueue, sent, handled, dropped, news, crashes>>

\* completeOrder announces the completion, stored or not, and the controller
\* announces it again before it answers.
PublishComplete(c) ==
    LET o == call[c].order IN
    /\ \/ At(c, "complete", "publish") /\ Goto(c, "announce") /\ UNCHANGED answered
       \/ /\ At(c, "complete", "announce")
          /\ End(c)
          /\ answered' = [answered EXCEPT ![o] = @ + 1]
    /\ announced' = [announced EXCEPT ![o] = @ + 1]
    /\ UNCHANGED <<rows, queues, completing, delivered, told, crashes>>

\* Mutant of PublishCompleteFails: the error is logged and the request answered.
PublishCompleteForgiven(c) ==
    /\ At(c, "complete", "publish") \/ At(c, "complete", "announce")
    /\ End(c)
    /\ answered' = [answered EXCEPT ![call[c].order] = @ + 1]
    /\ UNCHANGED <<rows, queues, completing, announced, delivered, told, crashes>>

\* Either publication may fail, and the request with it.
PublishCompleteFails(c) ==
    /\ At(c, "complete", "publish") \/ At(c, "complete", "announce")
    /\ End(c)
    /\ UNCHANGED <<rows, queues, news, crashes>>

\* cancelOrder throws whatever the status is: "status != 'paid' || 'canceled'"
\* is always true.
RefuseCancel(c) ==
    /\ At(c, "cancel", "refused")
    /\ End(c)
    /\ UNCHANGED <<rows, queues, news, crashes>>

DeleteRow(c) ==
    /\ At(c, "remove", "delete")
    /\ End(c)
    /\ order' = [order EXCEPT ![call[c].order] = NoRow]
    /\ UNCHANGED <<used, everPaid, queues, news, crashes>>

-----------------------------------------------------------------------------
\* Module DriverMatching: a driver accepted an order that was searched for.
\* Bound: one message of each driver.
DriverAccepts(o, d) ==
    /\ o \in searching
    /\ <<o, d>> \notin sent
    /\ sent' = sent \cup {<<o, d>>}
    /\ matchQueue' = matchQueue \cup {<<o, d>>}
    /\ UNCHANGED <<rows, searching, handled, dropped, news, call, crashes>>

\* A message stays in the queue, and is no other consumer's, until it is
\* acknowledged.
DeliverMatched(o, d) ==
    /\ <<o, d>> \in matchQueue
    /\ Start(<<o, d>>, "matched", "find", o, d)
    /\ UNCHANGED <<rows, queues, news, crashes>>

Acknowledge(c) ==
    /\ End(c)
    /\ matchQueue' = matchQueue \ {<<call[c].order, call[c].arg>>}

\* findOrderById, then updateOrder reads the row once more.
FindMatchedOrder(c) ==
    LET o == call[c].order IN
    /\ call[c].op = "matched"
    /\ Exists(o)
    /\ \/ call[c].pc = "find" /\ Goto(c, "read")
       \/ call[c].pc = "read" /\ Copy(c, "save")
    /\ UNCHANGED <<rows, queues, news, crashes>>

\* Mutant of MatchedOrderFails: the handler throws and the message stays queued.
MatchedOrderThrows(c) ==
    /\ call[c].op = "matched"
    /\ call[c].pc \in {"find", "read", "save"}
    /\ End(c)
    /\ dropped' = dropped \cup {call[c].order}
    /\ UNCHANGED <<rows, matchQueue, searching, sent, handled, news, crashes>>

\* A missing row, or an await that fails, is an error that
\* handleOrderMatchedMessage logs; the message is acknowledged all the same.
MatchedOrderFails(c) ==
    /\ call[c].op = "matched"
    /\ call[c].pc \in {"find", "read", "save"}
    /\ Acknowledge(c)
    /\ dropped' = dropped \cup {call[c].order}
    /\ UNCHANGED <<rows, searching, sent, handled, news, crashes>>

\* Mutant of AssignPartner: the two fields are mixed up.
AssignSwapped(c) ==
    LET o == call[c].order
        changed == [status |-> call[c].arg, partner |-> "accepted"]
    IN
    /\ At(c, "matched", "save")
    /\ order' = IF Exists(o)
                THEN [order EXCEPT ![o] = Merge(@, call[c].row, changed)] ELSE order
    /\ Goto(c, "notify")
    /\ UNCHANGED <<used, everPaid, queues, news, crashes>>

\* Mutant of AssignPartner: the update leaves the partner out.
AssignStatusOnly(c) ==
    LET o == call[c].order
        changed == [call[c].row EXCEPT !.status = "accepted"]
    IN
    /\ At(c, "matched", "save")
    /\ order' = IF Exists(o)
                THEN [order EXCEPT ![o] = Merge(@, call[c].row, changed)] ELSE order
    /\ Goto(c, "notify")
    /\ UNCHANGED <<used, everPaid, queues, news, crashes>>

\* Mutant of AssignPartner: only an order that is still "paid" is assigned.
AssignPaidOnly(c) ==
    LET o == call[c].order
        changed == [status |-> "accepted", partner |-> call[c].arg]
    IN
    /\ At(c, "matched", "save")
    /\ IF Exists(o) /\ call[c].row.status = "paid"
       THEN /\ order' = [order EXCEPT ![o] = Merge(@, call[c].row, changed)]
            /\ handled' = handled \cup {<<o, call[c].arg>>}
       ELSE UNCHANGED <<order, handled>>
    /\ Goto(c, "notify")
    /\ UNCHANGED <<used, everPaid, matchQueue, searching, sent, dropped, news, crashes>>

\* updateOrder's update, whatever the status and the partner were.
AssignPartner(c) ==
    LET o == call[c].order
        changed == [status |-> "accepted", partner |-> call[c].arg]
    IN
    /\ At(c, "matched", "save")
    /\ IF Exists(o)
       THEN /\ order' = [order EXCEPT ![o] = Merge(@, call[c].row, changed)]
            /\ handled' = handled \cup {<<o, call[c].arg>>}
       ELSE UNCHANGED <<order, handled>>
    /\ Goto(c, "notify")
    /\ UNCHANGED <<used, everPaid, matchQueue, searching, sent, dropped, news, crashes>>

\* The notifications are sent and the handler returns.
FinishMatched(c) ==
    /\ At(c, "matched", "notify")
    /\ Acknowledge(c)
    /\ UNCHANGED <<rows, searching, sent, handled, dropped, news, crashes>>

-----------------------------------------------------------------------------
\* A notification's room is named after a field of what findOrderById returned:
\* {order, cart}, an object that has none of the fields asked for.
Room(field) == IF field \in {"order", "cart"} THEN field ELSE "undefined"

NotifyCompletion(o) ==
    told' = [told EXCEPT ![o] = @ \cup
                {Room("customer_id"), Room("merchant_id"), Room("partner_id")}]

\* Mutant of HandleCompleteOrder: a missing row makes the handler throw, and
\* the message comes back.
CompleteOrderThrows(o) ==
    /\ announced[o] > delivered[o]
    /\ Exists(o)
    /\ delivered' = [delivered EXCEPT ![o] = @ + 1]
    /\ NotifyCompletion(o) \/ UNCHANGED told
    /\ UNCHANGED <<rows, queues, call, completing, answered, announced, crashes>>

\* handleCompleteOrderMessage reads the row and sends the notifications; it
\* changes no table, so it is one step here, and a restart that undoes it leaves
\* the message where it was.  An error, a missing row among them, is logged.
HandleCompleteOrder(o) ==
    /\ announced[o] > delivered[o]
    /\ delivered' = [delivered EXCEPT ![o] = @ + 1]
    /\ (Exists(o) /\ NotifyCompletion(o)) \/ UNCHANGED told
    /\ UNCHANGED <<rows, queues, call, completing, answered, announced, crashes>>

-----------------------------------------------------------------------------
\* The process restarts: calls are gone, unacknowledged messages are not.
Crash ==
    /\ crashes < MaxCrashes
    /\ crashes' = crashes + 1
    /\ call' = [c \in Slots |-> Idle]
    /\ UNCHANGED <<rows, queues, news>>

RequestStep(c) ==
    \/ ReadRow(c)
    \/ SaveStatus(c)
    \/ RereadRow(c)
    \/ PublishDriverMatch(c)
    \/ PublishComplete(c)
    \/ PublishCompleteFails(c)
    \/ RefuseCancel(c)
    \/ DeleteRow(c)

ConsumerStep(c) ==
    \/ FindMatchedOrder(c)
    \/ MatchedOrderFails(c)
    \/ AssignPartner(c)
    \/ FinishMatched(c)

Next ==
    \/ \E o \in Orders : CreateOrder(o)
    \/ \E c \in Callers, o \in Orders : StartRequest(c, o)
    \/ \E c \in Callers, o \in used : CompleteOrder(c, o)
    \/ \E c \in Callers : RequestStep(c)
    \/ \E o \in Orders, d \in Drivers : DriverAccepts(o, d)
    \/ \E o \in Orders, d \in Drivers : DeliverMatched(o, d)
    \/ \E c \in Deliveries : ConsumerStep(c)
    \/ \E o \in Orders : HandleCompleteOrder(o)
    \/ Crash

\* The broker delivers what either queue holds, handlers whose await is over go
\* on; requests come as they please.
Fairness ==
    /\ WF_vars(\E o \in Orders, d \in Drivers : DeliverMatched(o, d))
    /\ \A o \in Orders : WF_vars(HandleCompleteOrder(o))
    /\ \A c \in Deliveries : WF_vars(ConsumerStep(c))
    /\ \A c \in Callers : WF_vars(RequestStep(c))

Spec == Init /\ [][Next]_vars /\ Fairness

-----------------------------------------------------------------------------
\* A handler that saves a stale copy does not take the order away from its
\* driver: once a match has been stored, the row keeps a driver who accepted.
AssignmentSticks ==
    \A o \in Orders :
        Exists(o) /\ (\E d \in Drivers : <<o, d>> \in handled) =>
            <<o, order[o].partner>> \in sent

\* Whoever the row names as the partner accepted the order, which was paid and
\* searched for before.
PartnerAccepted ==
    \A o \in Orders :
        Exists(o) /\ order[o].partner # NoPartner =>
            <<o, order[o].partner>> \in sent /\ o \in searching \cap everPaid

\* An order is "accepted" only with its driver in the same row, provided no
\* driver posts that status by itself.
AcceptedHasPartner ==
    "accepted" \notin DriverStatuses =>
        \A o \in Orders :
            Exists(o) /\ order[o].status = "accepted" => order[o].partner \in Drivers

\* Each order.matched message is handled and acknowledged sooner or later, also
\* when the order is gone or the process restarts on the way.
MatchedMessageHandled ==
    \A o \in Orders, d \in Drivers :
        <<o, d>> \in matchQueue ~> <<o, d>> \notin matchQueue

\* completeOrder and its controller announce a completion once each: whoever is
\* answered "is marked as complete" has had it announced twice, whatever was
\* deleted or restarted meanwhile, and no request announces it more often
\* (order.service.ts:321, order.controller.ts:92).
AnnouncedTwicePerRequest ==
    \A o \in Orders :
        /\ 2 * answered[o] <= announced[o]
        /\ announced[o] <= 2 * completing[o]

\* Each of the announcements behind an answer reaches its consumer and is
\* acknowledged, also when the order is deleted first, or the process restarts.
AnsweredIsDelivered ==
    \A o \in Orders : \A n \in 1 .. MaxCompletions :
        answered[o] >= n ~> delivered[o] >= 2 * n

\* The assignment behind the table.
Stage ==
    [o \in Orders |-> IF Exists(o) THEN "open"
                      ELSE IF o \in used THEN "removed" ELSE "none"]

Partner == [o \in Orders |-> IF Exists(o) THEN order[o].partner ELSE NoPartner]

Assignment ==
    INSTANCE OrderAssignment WITH stage <- Stage, partner <- Partner,
        paid <- everPaid, searched <- searching, accepted <- sent, lost <- dropped

\* Through all interleavings of stale copies, redelivered messages and
\* restarts, the table goes only from one legal assignment to the next, and an
\* order that a driver accepted gets a driver, unless it is deleted or the
\* handler of the acceptance fails (order.service.ts:263, 278;
\* notification.service.ts:20, 46).
ImplementsAssignment == Assignment!Spec

\* What a comment says of a completed order ("e.g., notify customer, merchant,
\* driver", notification.service.ts:71): when its completion is notified, all
\* three are.
CompletionReachesAll ==
    \A o \in Orders :
        told[o] # {} => {"customer_id", "merchant_id", "partner_id"} \subseteq told[o]
=============================================================================
