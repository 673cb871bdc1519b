------------------------------ MODULE Payments ------------------------------
(***************************************************************************)
(* The rows of the transactions table: createOrder, which makes one after  *)
(* Midtrans has opened a payment, and Midtrans's notifications, which      *)
(* update it (src/order/order.service.ts, src/transaction/).               *)
(*                                                                         *)
(* createOrder spans two tables and Midtrans without a database            *)
(* transaction: it may stop between any two of its steps.  Of the order's  *)
(* row only its existence matters here; module OrderLifecycle has its      *)
(* status.                                                                 *)
(***************************************************************************)
EXTENDS Integers, FiniteSets

CONSTANTS
    Orders,      \* ids the orders table gives out
    Callers,     \* bound: HTTP requests under way at the same time
    MaxCrashes,  \* bound: restarts of the process
    NoRow,       \* the order has no transaction
    None         \* a local variable that has no value

TxStatuses == {"pending", "paid", "settled", "failed", "expired"}

\* transaction_status of a notification; "refund" stands for those the code
\* does not know.
MidtransStatuses ==
    {"capture", "settlement", "pending", "deny", "cancel", "expire", "refund"}

ASSUME PaymentNames ==
    NoRow \notin TxStatuses /\ None \notin TxStatuses \cup MidtransStatuses \cup Orders

ASSUME PaymentBounds == MaxCrashes \in Nat

VARIABLES
    orderRows,    \* the orders that have a row
    tx,           \* per order id, the status of its transaction, or NoRow
    call,         \* per caller, the call it is executing
    used,         \* history: order ids given out
    charged,      \* history: orders Midtrans has opened a payment for
    paymentUrls,  \* history: orders whose customer got a paymentUrl
    dropped,      \* history: orders whose transaction was deleted
    lastReport,   \* history: per order, the status reported to the latest reader
    raced,        \* history: orders that reader does not have to itself
    crashes       \* history: restarts

tables == <<orderRows, tx, used, dropped>>
reports == <<lastReport, raced>>
vars == <<tables, call, charged, paymentUrls, reports, crashes>>

Ops == {"idle", "create", "notify", "remove"}

PCs == {"idle", "user", "charge", "record", "tx", "saveTx", "sync", "delete"}

\* seen: the call's copy of the transaction's status
Call == [op : Ops, pc : PCs, order : Orders \cup {None},
         arg : MidtransStatuses \cup {None}, seen : TxStatuses \cup {None}]

Idle == [op |-> "idle", pc |-> "idle", order |-> None, arg |-> None, seen |-> None]

TypeOK ==
    /\ orderRows \in SUBSET Orders
    /\ tx \in [Orders -> TxStatuses \cup {NoRow}]
    /\ call \in [Callers -> Call]
    /\ used \in SUBSET Orders
    /\ charged \in SUBSET Orders
    /\ paymentUrls \in SUBSET Orders
    /\ dropped \in SUBSET Orders
    /\ lastReport \in [Orders -> TxStatuses]
    /\ raced \in SUBSET Orders
    /\ crashes \in 0 .. MaxCrashes

Init ==
    /\ orderRows = {}
    /\ tx = [o \in Orders |-> NoRow]
    /\ call = [c \in Callers |-> Idle]
    /\ used = {}
    /\ charged = {}
    /\ paymentUrls = {}
    /\ dropped = {}
    /\ lastReport = [o \in Orders |-> "pending"]
    /\ raced = {}
    /\ crashes = 0

-----------------------------------------------------------------------------
At(c, op, pc) == call[c].op = op /\ call[c].pc = pc

Goto(c, pc) == call' = [call EXCEPT ![c].pc = pc]

\* The call returns, or throws.
End(c) == call' = [call EXCEPT ![c] = Idle]

Start(c, op, pc, o, arg) ==
    /\ call[c] = Idle
    /\ call' = [call EXCEPT ![c] =
                 [op |-> op, pc |-> pc, order |-> o, arg |-> arg, seen |-> None]]

-----------------------------------------------------------------------------
(* createOrder, from orderRepository.create on *)

CreateOrder(c, o) ==
    /\ o \notin used
    /\ Start(c, "create", "user", o, None)
    /\ orderRows' = orderRows \cup {o}
    /\ used' = used \cup {o}
    /\ UNCHANGED <<tx, dropped, charged, paymentUrls, reports, crashes>>

\* A customer without a row makes createOrder throw: the order stays behind.
FindCustomer(c) ==
    /\ At(c, "create", "user")
    /\ Goto(c, "charge") \/ End(c)
    /\ UNCHANGED <<tables, charged, paymentUrls, reports, crashes>>

\* midtransSnap.createTransaction opens a payment, or throws.
OpenPayment(c) ==
    /\ At(c, "create", "charge")
    /\ \/ Goto(c, "record") /\ charged' = charged \cup {call[c].order}
       \/ End(c) /\ UNCHANGED charged
    /\ UNCHANGED <<tables, paymentUrls, reports, crashes>>

\* Mutant of RecordTransaction: the customer is answered without waiting for
\* the row.
AnswerWithoutRecord(c) ==
    /\ At(c, "create", "record")
    /\ End(c)
    /\ paymentUrls' = paymentUrls \cup {call[c].order}
    /\ UNCHANGED <<tables, charged, reports, crashes>>

\* Mutant of RecordTransaction: the order's row is not needed.
RecordUnchecked(c) ==
    /\ At(c, "create", "record")
    /\ End(c)
    /\ tx' = [tx EXCEPT ![call[c].order] = "pending"]
    /\ paymentUrls' = paymentUrls \cup {call[c].order}
    /\ UNCHANGED <<orderRows, used, dropped, charged, reports, crashes>>

\* transactionModel.create, whose foreign key needs the order's row, and the
\* answer with the paymentUrl.
RecordTransaction(c) ==
    LET o == call[c].order IN
    /\ At(c, "create", "record")
    /\ End(c)
    /\ IF o \in orderRows
       THEN /\ tx' = [tx EXCEPT ![o] = "pending"]
            /\ paymentUrls' = paymentUrls \cup {o}
       ELSE UNCHANGED <<tx, paymentUrls>>
    /\ UNCHANGED <<orderRows, used, dropped, charged, reports, crashes>>

-----------------------------------------------------------------------------
(* payment-notification *)

\* Midtrans reports on a payment page that the customer has been sent to.
StartNotification(c, o, status) ==
    /\ o \in paymentUrls
    /\ Start(c, "notify", "tx", o, status)
    /\ UNCHANGED <<tables, charged, paymentUrls, reports, crashes>>

\* A status that handleMidtransNotification does not know leaves the copy as
\* it was read.
NewTxStatus(status, seen) ==
    CASE status = "capture" -> "paid"
      [] status = "settlement" -> "settled"
      [] status = "pending" -> "pending"
      [] status \in {"deny", "cancel"} -> "failed"
      [] status = "expire" -> "expired"
      [] OTHER -> seen

\* The notifications of an order that have read its transaction, and not saved.
Saving(o) == {c \in Callers : At(c, "notify", "saveTx") /\ call[c].order = o}

\* Without a transaction the handler throws.
ReadTransaction(c) ==
    LET o == call[c].order IN
    /\ At(c, "notify", "tx")
    /\ IF tx[o] = NoRow THEN End(c)
       ELSE call' = [call EXCEPT ![c].seen = tx[o], ![c].pc = "saveTx"]
    /\ IF tx[o] = NoRow THEN UNCHANGED reports
       ELSE /\ lastReport' = [lastReport EXCEPT ![o] = NewTxStatus(call[c].arg, tx[o])]
            /\ raced' = IF Saving(o) # {} THEN raced \cup {o} ELSE raced \ {o}
    /\ UNCHANGED <<tables, charged, paymentUrls, crashes>>

\* Mutant of SaveTransaction: the copy is written whether it changed or not.
SaveWholeTransaction(c) ==
    LET o == call[c].order
        new == NewTxStatus(call[c].arg, call[c].seen)
    IN
    /\ At(c, "notify", "saveTx")
    /\ tx' = IF tx[o] # NoRow THEN [tx EXCEPT ![o] = new] ELSE tx
    /\ call' = [call EXCEPT ![c].seen = new, ![c].pc = "sync"]
    /\ UNCHANGED <<orderRows, used, dropped, charged, paymentUrls, reports, crashes>>

\* Mutant of SaveTransaction: the notification's own word is stored.
SaveRawStatus(c) ==
    /\ At(c, "notify", "saveTx")
    /\ tx' = IF tx[call[c].order] # NoRow
             THEN [tx EXCEPT ![call[c].order] = call[c].arg] ELSE tx
    /\ Goto(c, "sync")
    /\ UNCHANGED <<orderRows, used, dropped, charged, paymentUrls, reports, crashes>>

\* Mutant of SaveTransaction: a transaction that is no longer pending is final.
SavePendingOnly(c) ==
    LET o == call[c].order
        new == NewTxStatus(call[c].arg, call[c].seen)
    IN
    /\ At(c, "notify", "saveTx")
    /\ tx' = IF tx[o] # NoRow /\ call[c].seen = "pending"
             THEN [tx EXCEPT ![o] = new] ELSE tx
    /\ call' = [call EXCEPT ![c].seen = new, ![c].pc = "sync"]
    /\ UNCHANGED <<orderRows, used, dropped, charged, paymentUrls, reports, crashes>>

\* save() writes the status only if it differs from the copy.
SaveTransaction(c) ==
    LET o == call[c].order
        new == NewTxStatus(call[c].arg, call[c].seen)
    IN
    /\ At(c, "notify", "saveTx")
    /\ tx' = IF tx[o] # NoRow /\ new # call[c].seen
             THEN [tx EXCEPT ![o] = new] ELSE tx
    /\ call' = [call EXCEPT ![c].seen = new, ![c].pc = "sync"]
    /\ UNCHANGED <<orderRows, used, dropped, charged, paymentUrls, reports, crashes>>

\* findOrderById returns {order, cart}: setting its status changes no row, and
\* it has no save(), so the handler throws and the controller answers 500
\* before it comes to processPayment.
SyncOrderFails(c) ==
    /\ At(c, "notify", "sync")
    /\ End(c)
    /\ UNCHANGED <<tables, charged, paymentUrls, reports, crashes>>

-----------------------------------------------------------------------------
(* Deletions *)

\* DELETE transactions/:id
DeleteTransaction(o) ==
    /\ tx[o] # NoRow
    /\ tx' = [tx EXCEPT ![o] = NoRow]
    /\ dropped' = dropped \cup {o}
    /\ UNCHANGED <<orderRows, used, call, charged, paymentUrls, reports, crashes>>

\* DELETE orders/:id looks the order up first, and throws when it is not there.
StartRemove(c, o) ==
    /\ o \in orderRows
    /\ Start(c, "remove", "delete", o, None)
    /\ UNCHANGED <<tables, charged, paymentUrls, reports, crashes>>

\* The transaction goes with its order (onDelete CASCADE).
DeleteOrder(c) ==
    LET o == call[c].order IN
    /\ At(c, "remove", "delete")
    /\ End(c)
    /\ orderRows' = orderRows \ {o}
    /\ tx' = [tx EXCEPT ![o] = NoRow]
    /\ dropped' = dropped \cup {o}
    /\ UNCHANGED <<used, charged, paymentUrls, reports, crashes>>

Crash ==
    /\ crashes < MaxCrashes
    /\ crashes' = crashes + 1
    /\ call' = [c \in Callers |-> Idle]
    /\ raced' = raced \cup {o \in Orders : Saving(o) # {}}
    /\ UNCHANGED <<tables, charged, paymentUrls, lastReport>>

Step(c) ==
    \/ FindCustomer(c)
    \/ OpenPayment(c)
    \/ RecordTransaction(c)
    \/ ReadTransaction(c)
    \/ SaveTransaction(c)
    \/ SyncOrderFails(c)
    \/ DeleteOrder(c)

Next ==
    \/ \E c \in Callers, o \in Orders :
          \/ CreateOrder(c, o)
          \/ StartRemove(c, o)
          \/ \E status \in MidtransStatuses : StartNotification(c, o, status)
    \/ \E c \in Callers : Step(c)
    \/ \E o \in Orders : DeleteTransaction(o)
    \/ Crash

\* A request that has begun is answered; nobody has to make one.
Fairness == \A c \in Callers : WF_vars(Step(c))

Spec == Init /\ [][Next]_vars /\ Fairness

-----------------------------------------------------------------------------
\* A customer who was sent to pay has a transaction for Midtrans's answer to be
\* stored in, unless it was deleted; a payment that createOrder did not finish
\* was shown to nobody.
PaymentUrlBacked ==
    \A o \in paymentUrls : (tx[o] # NoRow \/ o \in dropped) /\ o \in charged

\* A transaction never outlives its order, also when the order is deleted while
\* createOrder is waiting for Midtrans.
TransactionHasOrder == \A o \in Orders : tx[o] # NoRow => o \in orderRows

\* Two notifications of one order that overlap do not undo each other with
\* stale copies: a stored status changes only to what the notification that is
\* being handled reports.
Reports(c, o, status) ==
    /\ At(c, "notify", "saveTx")
    /\ call[c].order = o
    /\ NewTxStatus(call[c].arg, None) = status

StatusComesFromReport ==
    [][\A o \in Orders :
         tx[o] # NoRow /\ tx'[o] # NoRow /\ tx'[o] # tx[o]
         => \E c \in Callers : Reports(c, o, tx'[o])]_vars

\* The row shows the status that the latest notification to read it reports,
\* however late that came, once nobody is about to save; only a notification
\* that read while another one had its save before it, or that died with the
\* process, is lost, and the next one that has the row to itself mends that.
LastReportStored ==
    \A o \in Orders :
        tx[o] # NoRow /\ o \notin raced /\ Saving(o) = {} => tx[o] = lastReport[o]

\* "Payment notification received and Start Driver Matched"
\* (transaction.controller.ts:58): the handler of a capture whose transaction
\* and order exist goes on to processPayment.
CaptureStartsMatching ==
    [][\A c \in Callers :
         /\ At(c, "notify", "sync")
         /\ call[c].seen = "paid"
         /\ call[c].order \in orderRows
         /\ call'[c].pc # "sync"
         /\ crashes' = crashes
         => call'[c].op = "pay"]_vars
=============================================================================
