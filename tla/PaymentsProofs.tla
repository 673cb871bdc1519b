--------------------------- MODULE PaymentsProofs ---------------------------
(***************************************************************************)
(* Safety of Payments for every set of orders and callers.                 *)
(***************************************************************************)
EXTENDS Payments, TLAPS

\* A call that is under way has an order; one that is about to record the
\* transaction has had its payment opened; one that saves a transaction has
\* read it.
CallOK(k, opened) ==
    /\ k \in Call
    /\ k.op # "idle" => k.order \in Orders
    /\ k.op = "create" /\ k.pc = "record" => k.order \in opened
    /\ k.op = "notify" /\ k.pc = "saveTx" => k.seen \in TxStatuses

CallsInOrder == \A c \in Callers : CallOK(call[c], charged)

IInv == TypeOK /\ CallsInOrder /\ PaymentUrlBacked /\ TransactionHasOrder

\* What a notification's status becomes.
LEMMA NewTxStatusType ==
    ASSUME NEW status, NEW seen \in TxStatuses
    PROVE  /\ NewTxStatus(status, seen) \in TxStatuses
           /\ NewTxStatus(status, seen) # seen =>
                NewTxStatus(status, None) = NewTxStatus(status, seen)
BY DEF NewTxStatus, TxStatuses

\* A step that replaces one call by a good one leaves all calls good.
LEMMA OneCallChanges ==
    ASSUME call \in [Callers -> Call], CallsInOrder, charged \subseteq charged',
           NEW c \in Callers, NEW k, CallOK(k, charged'),
           call' = [call EXCEPT ![c] = k]
    PROVE  call' \in [Callers -> Call] /\ CallsInOrder'
<1>1. k \in Call
  BY DEF CallOK
<1>2. call' \in [Callers -> Call]
  BY <1>1
<1>3. ASSUME NEW d \in Callers PROVE CallOK(call'[d], charged')
  <2>1. CASE d = c
    BY <2>1
  <2>2. CASE d # c
    <3>1. call'[d] = call[d]
      BY <2>2
    <3>2. CallOK(call[d], charged)
      BY DEF CallsInOrder
    <3> QED
      BY <3>1, <3>2 DEF CallOK
  <2> QED
    BY <2>1, <2>2
<1> QED
  BY <1>2, <1>3 DEF CallsInOrder

\* A call that ends.
LEMMA CallEnds ==
    ASSUME call \in [Callers -> Call], CallsInOrder, charged \subseteq charged',
           NEW c \in Callers, End(c)
    PROVE  call' \in [Callers -> Call] /\ CallsInOrder'
<1>1. CallOK(Idle, charged')
  BY DEF CallOK, Idle, Call, Ops, PCs
<1> QED
  BY <1>1, OneCallChanges DEF End

\* A call that goes on to a step that asks nothing of it.
LEMMA CallGoesOn ==
    ASSUME call \in [Callers -> Call], CallsInOrder, charged \subseteq charged',
           NEW c \in Callers, NEW pc \in PCs, Goto(c, pc),
           pc # "saveTx", pc = "record" => call[c].order \in charged'
    PROVE  call' \in [Callers -> Call] /\ CallsInOrder'
<1> DEFINE k == [call[c] EXCEPT !.pc = pc]
<1>1. CallOK(call[c], charged) /\ call[c] \in Call
  BY DEF CallsInOrder
<1>2. /\ k \in Call
      /\ k.op = call[c].op /\ k.order = call[c].order /\ k.pc = pc
  BY <1>1 DEF Call
<1>3. CallOK(k, charged')
  BY <1>1, <1>2 DEF CallOK
<1>4. call' = [call EXCEPT ![c] = k]
  BY DEF Goto
<1> QED
  BY <1>3, <1>4, OneCallChanges

\* A call that starts.
LEMMA CallStarts ==
    ASSUME call \in [Callers -> Call], CallsInOrder, charged \subseteq charged',
           NEW c \in Callers, NEW op \in Ops, NEW pc \in PCs \ {"record", "saveTx"},
           NEW o \in Orders, NEW arg \in MidtransStatuses \cup {None},
           Start(c, op, pc, o, arg)
    PROVE  call' \in [Callers -> Call] /\ CallsInOrder'
<1> DEFINE k == [op |-> op, pc |-> pc, order |-> o, arg |-> arg, seen |-> None]
<1>1. CallOK(k, charged')
  BY DEF CallOK, Call
<1> QED
  BY <1>1, OneCallChanges DEF Start

\* A notification that has read its transaction, or has saved it.
LEMMA CallKeepsCopy ==
    ASSUME call \in [Callers -> Call], CallsInOrder, charged \subseteq charged',
           NEW c \in Callers, call[c].op = "notify",
           NEW pc \in PCs, NEW seen \in TxStatuses,
           call' = [call EXCEPT ![c].seen = seen, ![c].pc = pc]
    PROVE  call' \in [Callers -> Call] /\ CallsInOrder'
<1> DEFINE k == [call[c] EXCEPT !.seen = seen, !.pc = pc]
<1>1. CallOK(call[c], charged) /\ call[c] \in Call
  BY DEF CallsInOrder
<1>2. /\ k \in Call
      /\ k.op = "notify" /\ k.order = call[c].order /\ k.seen = seen
  BY <1>1 DEF Call
<1>3. CallOK(k, charged')
  BY <1>1, <1>2 DEF CallOK
<1>4. call' = [call EXCEPT ![c] = k]
  OBVIOUS
<1> HIDE DEF k
<1> QED
  BY <1>3, <1>4, OneCallChanges

LEMMA InitHolds == Init => IInv
BY PaymentBounds
   DEF Init, IInv, TypeOK, CallsInOrder, CallOK, PaymentUrlBacked,
       TransactionHasOrder, Idle, Call, Ops, PCs, TxStatuses

\* What the invariant says of the call that steps.
LEMMA CallAt ==
    ASSUME IInv, NEW c \in Callers, NEW op \in Ops \ {"idle"}, NEW pc \in PCs, At(c, op, pc)
    PROVE  /\ call[c].order \in Orders
           /\ op = "create" /\ pc = "record" => call[c].order \in charged
           /\ op = "notify" /\ pc = "saveTx" => call[c].seen \in TxStatuses
BY DEF IInv, CallsInOrder, CallOK, At

\* The tables stay as they are, and payments are only opened for orders.
LEMMA TablesUnchanged ==
    ASSUME IInv, UNCHANGED <<tables, paymentUrls, crashes>>,
           lastReport' \in [Orders -> TxStatuses], raced' \in SUBSET Orders,
           charged \subseteq charged', charged' \in SUBSET Orders,
           call' \in [Callers -> Call] /\ CallsInOrder'
    PROVE  IInv'
BY DEF IInv, TypeOK, PaymentUrlBacked, TransactionHasOrder, tables

\* The steps that leave the tables alone.
LEMMA QuietStepKeepsIInv ==
    ASSUME IInv, NEW c \in Callers,
           \/ FindCustomer(c) \/ OpenPayment(c) \/ ReadTransaction(c)
           \/ SyncOrderFails(c)
           \/ \E o \in Orders : StartRemove(c, o)
           \/ \E o \in Orders, status \in MidtransStatuses : StartNotification(c, o, status)
    PROVE  IInv'
<1>0. /\ call \in [Callers -> Call] /\ CallsInOrder
      /\ charged \in SUBSET Orders
      /\ lastReport \in [Orders -> TxStatuses] /\ raced \in SUBSET Orders
      /\ tx \in [Orders -> TxStatuses \cup {NoRow}]
  BY DEF IInv, TypeOK
<1>1. CASE FindCustomer(c)
  <2>1. "charge" \in PCs /\ charged \subseteq charged' /\ (Goto(c, "charge") \/ End(c))
    BY <1>1 DEF FindCustomer, PCs
  <2>2. call' \in [Callers -> Call] /\ CallsInOrder'
    BY <1>0, <2>1, CallGoesOn, CallEnds
  <2> QED
    BY <1>0, <1>1, <2>2, TablesUnchanged DEF FindCustomer, reports
<1>2. CASE OpenPayment(c)
  <2>1. At(c, "create", "charge") /\ "create" \in Ops \ {"idle"} /\ {"charge", "record"} \subseteq PCs
    BY <1>2 DEF OpenPayment, PCs, Ops
  <2>2. call[c].order \in Orders
    BY <2>1, CallAt
  <2>3. charged \subseteq charged' /\ charged' \in SUBSET Orders
    BY <1>0, <1>2, <2>2 DEF OpenPayment
  <2>4. \/ Goto(c, "record") /\ call[c].order \in charged'
        \/ End(c)
    BY <1>2 DEF OpenPayment
  <2>5. call' \in [Callers -> Call] /\ CallsInOrder'
    BY <1>0, <2>1, <2>3, <2>4, CallGoesOn, CallEnds
  <2> QED
    BY <1>0, <1>2, <2>3, <2>5, TablesUnchanged DEF OpenPayment, reports
<1>3. CASE ReadTransaction(c)
  <2> DEFINE o == call[c].order
  <2>1. /\ At(c, "notify", "tx") /\ "notify" \in Ops \ {"idle"}
        /\ {"tx", "saveTx"} \subseteq PCs /\ charged \subseteq charged'
    BY <1>3 DEF ReadTransaction, PCs, Ops
  <2>2. o \in Orders /\ call[c].op = "notify"
    BY <2>1, CallAt DEF At
  <2>3. \/ End(c)
        \/ /\ tx[o] \in TxStatuses
           /\ call' = [call EXCEPT ![c].seen = tx[o], ![c].pc = "saveTx"]
    BY <1>0, <1>3, <2>2 DEF ReadTransaction
  <2>4. call' \in [Callers -> Call] /\ CallsInOrder'
    BY <1>0, <2>1, <2>2, <2>3, CallEnds, CallKeepsCopy
  <2>5. lastReport' \in [Orders -> TxStatuses]
    <3>1. CASE tx[o] = NoRow
      BY <1>0, <1>3, <3>1 DEF ReadTransaction, reports
    <3>2. CASE tx[o] # NoRow
      <4> DEFINE new == NewTxStatus(call[c].arg, tx[o])
      <4>1. tx[o] \in TxStatuses
        BY <1>0, <2>2, <3>2
      <4>2. new \in TxStatuses /\ lastReport' = [lastReport EXCEPT ![o] = new]
        BY <1>3, <3>2, <4>1, NewTxStatusType DEF ReadTransaction
      <4> HIDE DEF new
      <4> QED
        BY <1>0, <4>2
    <3> QED
      BY <3>1, <3>2
  <2>6. raced' \in SUBSET Orders
    BY <1>0, <1>3, <2>2 DEF ReadTransaction, reports
  <2> QED
    BY <1>0, <1>3, <2>4, <2>5, <2>6, TablesUnchanged DEF ReadTransaction
<1>4. CASE SyncOrderFails(c)
  <2>1. End(c) /\ charged \subseteq charged'
    BY <1>4 DEF SyncOrderFails
  <2>2. call' \in [Callers -> Call] /\ CallsInOrder'
    BY <1>0, <2>1, CallEnds
  <2> QED
    BY <1>0, <1>4, <2>2, TablesUnchanged DEF SyncOrderFails, reports
<1>5. ASSUME NEW o \in Orders, StartRemove(c, o) PROVE IInv'
  <2>1. /\ Start(c, "remove", "delete", o, None) /\ charged \subseteq charged'
        /\ "remove" \in Ops /\ "delete" \in PCs \ {"record", "saveTx"}
    BY <1>5 DEF StartRemove, Ops, PCs
  <2>2. call' \in [Callers -> Call] /\ CallsInOrder'
    BY <1>0, <2>1, CallStarts
  <2> QED
    BY <1>0, <1>5, <2>2, TablesUnchanged DEF StartRemove, reports
<1>6. ASSUME NEW o \in Orders, NEW status \in MidtransStatuses,
             StartNotification(c, o, status)
      PROVE  IInv'
  <2>1. /\ Start(c, "notify", "tx", o, status) /\ charged \subseteq charged'
        /\ "notify" \in Ops /\ "tx" \in PCs \ {"record", "saveTx"}
    BY <1>6 DEF StartNotification, Ops, PCs
  <2>2. call' \in [Callers -> Call] /\ CallsInOrder'
    BY <1>0, <2>1, CallStarts
  <2> QED
    BY <1>0, <1>6, <2>2, TablesUnchanged DEF StartNotification, reports
<1> QED
  BY <1>1, <1>2, <1>3, <1>4, <1>5, <1>6

\* The steps that write a table.
LEMMA WriteKeepsIInv ==
    ASSUME IInv, NEW c \in Callers,
           \/ RecordTransaction(c) \/ SaveTransaction(c) \/ DeleteOrder(c)
           \/ \E o \in Orders : CreateOrder(c, o)
    PROVE  IInv'
<1>0. call \in [Callers -> Call] /\ CallsInOrder
  BY DEF IInv, TypeOK
<1>1. CASE RecordTransaction(c)
  <2>1. /\ At(c, "create", "record") /\ "create" \in Ops \ {"idle"} /\ "record" \in PCs
        /\ End(c) /\ charged \subseteq charged'
    BY <1>1 DEF RecordTransaction, Ops, PCs
  <2>2. call[c].order \in Orders /\ call[c].order \in charged
    BY <2>1, CallAt
  <2>3. call' \in [Callers -> Call] /\ CallsInOrder'
    BY <1>0, <2>1, CallEnds
  <2>4. TypeOK'
    BY <1>1, <2>2, <2>3 DEF RecordTransaction, IInv, TypeOK, TxStatuses, reports
  <2>5. PaymentUrlBacked' /\ TransactionHasOrder'
    BY <1>1, <2>2, PaymentNames
       DEF RecordTransaction, IInv, TypeOK, PaymentUrlBacked, TransactionHasOrder, TxStatuses
  <2> QED
    BY <2>3, <2>4, <2>5 DEF IInv
<1>2. CASE SaveTransaction(c)
  <2> DEFINE o == call[c].order
             new == NewTxStatus(call[c].arg, call[c].seen)
  <2>1. /\ At(c, "notify", "saveTx") /\ "notify" \in Ops \ {"idle"}
        /\ {"saveTx", "sync"} \subseteq PCs /\ charged \subseteq charged'
    BY <1>2 DEF SaveTransaction, Ops, PCs
  <2>2. o \in Orders /\ call[c].seen \in TxStatuses /\ call[c].op = "notify"
    BY <2>1, CallAt DEF At
  <2>3. new \in TxStatuses
    BY <2>2, NewTxStatusType
  <2>4. /\ call' = [call EXCEPT ![c].seen = new, ![c].pc = "sync"]
        /\ \/ tx' = tx
           \/ tx[o] # NoRow /\ tx' = [tx EXCEPT ![o] = new]
        /\ UNCHANGED <<orderRows, used, dropped, charged, paymentUrls, crashes>>
        /\ UNCHANGED <<lastReport, raced>>
    BY <1>2 DEF SaveTransaction, reports
  <2> HIDE DEF new
  <2>5. call' \in [Callers -> Call] /\ CallsInOrder'
    BY <1>0, <2>1, <2>2, <2>3, <2>4, CallKeepsCopy
  <2>6. TypeOK'
    BY <2>2, <2>3, <2>4, <2>5 DEF IInv, TypeOK
  <2>7. \A p \in Orders : tx'[p] # NoRow <=> tx[p] # NoRow
    BY <2>2, <2>3, <2>4, PaymentNames DEF IInv, TypeOK
  <2>8. PaymentUrlBacked' /\ TransactionHasOrder'
    BY <2>4, <2>7 DEF IInv, TypeOK, PaymentUrlBacked, TransactionHasOrder
  <2> QED
    BY <2>5, <2>6, <2>8 DEF IInv
<1>3. CASE DeleteOrder(c)
  <2>1. /\ At(c, "remove", "delete") /\ "remove" \in Ops \ {"idle"} /\ "delete" \in PCs
        /\ End(c) /\ charged \subseteq charged'
    BY <1>3 DEF DeleteOrder, Ops, PCs
  <2>2. call[c].order \in Orders
    BY <2>1, CallAt
  <2>3. call' \in [Callers -> Call] /\ CallsInOrder'
    BY <1>0, <2>1, CallEnds
  <2>4. TypeOK' /\ PaymentUrlBacked' /\ TransactionHasOrder'
    BY <1>3, <2>2, <2>3
       DEF DeleteOrder, reports, IInv, TypeOK, PaymentUrlBacked, TransactionHasOrder
  <2> QED
    BY <2>3, <2>4 DEF IInv
<1>4. ASSUME NEW o \in Orders, CreateOrder(c, o) PROVE IInv'
  <2>1. /\ Start(c, "create", "user", o, None) /\ charged \subseteq charged'
        /\ "create" \in Ops /\ "user" \in PCs \ {"record", "saveTx"}
    BY <1>4 DEF CreateOrder, Ops, PCs
  <2>2. call' \in [Callers -> Call] /\ CallsInOrder'
    BY <1>0, <2>1, CallStarts
  <2>3. TypeOK' /\ PaymentUrlBacked' /\ TransactionHasOrder'
    BY <1>4, <2>2 DEF CreateOrder, reports, IInv, TypeOK, PaymentUrlBacked, TransactionHasOrder
  <2> QED
    BY <2>2, <2>3 DEF IInv
<1> QED
  BY <1>1, <1>2, <1>3, <1>4

LEMMA StepKeepsIInv == IInv /\ [Next]_vars => IInv'
<1> SUFFICES ASSUME IInv, [Next]_vars PROVE IInv'
  OBVIOUS
<1>1. ASSUME NEW c \in Callers, Step(c) PROVE IInv'
  BY <1>1, QuietStepKeepsIInv, WriteKeepsIInv DEF Step
<1>2. ASSUME NEW c \in Callers, NEW o \in Orders,
             \/ CreateOrder(c, o) \/ StartRemove(c, o)
             \/ \E status \in MidtransStatuses : StartNotification(c, o, status)
      PROVE  IInv'
  BY <1>2, QuietStepKeepsIInv, WriteKeepsIInv
<1>3. ASSUME NEW o \in Orders, DeleteTransaction(o) PROVE IInv'
  BY <1>3 DEF DeleteTransaction, reports, IInv, TypeOK, CallsInOrder,
              PaymentUrlBacked, TransactionHasOrder
<1>4. CASE Crash
  <2>1. Idle \in Call /\ CallOK(Idle, charged')
    BY DEF CallOK, Idle, Call, Ops, PCs
  <2>2. call' = [c \in Callers |-> Idle]
    BY <1>4 DEF Crash
  <2>3. call' \in [Callers -> Call] /\ CallsInOrder'
    BY <2>1, <2>2 DEF CallsInOrder
  <2>4. TypeOK' /\ PaymentUrlBacked' /\ TransactionHasOrder'
    BY <1>4, <2>3, PaymentBounds
       DEF Crash, tables, reports, IInv, TypeOK, PaymentUrlBacked, TransactionHasOrder
  <2> QED
    BY <2>3, <2>4 DEF IInv
<1>5. CASE UNCHANGED vars
  BY <1>5 DEF vars, tables, reports, IInv, TypeOK, CallsInOrder,
              PaymentUrlBacked, TransactionHasOrder
<1> QED
  BY <1>1, <1>2, <1>3, <1>4, <1>5 DEF Next

\* The inductive invariant of the payments.
THEOREM PaymentsInvariant == Spec => []IInv
BY InitHolds, StepKeepsIInv, PTL DEF Spec

\* The tables, the calls and the histories of payments have their types.
THEOREM PaymentsTyped == Spec => []TypeOK
BY PaymentsInvariant, PTL DEF IInv

\* createOrder shows a customer no payment that has no transaction.
THEOREM UrlsBacked == Spec => []PaymentUrlBacked
BY PaymentsInvariant, PTL DEF IInv

\* No transaction outlives its order, whatever overlaps with its creation.
THEOREM TransactionsHaveOrders == Spec => []TransactionHasOrder
BY PaymentsInvariant, PTL DEF IInv

-----------------------------------------------------------------------------
(* An order has one creator, and no transaction before its creator records it. *)

Creating(c, o) == call[c].op = "create" /\ call[c].order = o

FirstRecord ==
    \A o \in Orders :
        /\ tx[o] # NoRow => o \in used
        /\ \A c \in Callers : Creating(c, o) =>
              /\ o \in used /\ tx[o] = NoRow
              /\ \A d \in Callers : Creating(d, o) => d = c

\* A step that makes no call a creator keeps FirstRecord if it records a
\* transaction only where nobody is creating the order any more.
LEMMA NoNewCreator ==
    ASSUME FirstRecord, UNCHANGED used,
           \A c \in Callers, o \in Orders : Creating(c, o)' => Creating(c, o),
           \A o \in Orders : tx[o] = NoRow /\ tx'[o] # NoRow =>
              o \in used /\ \A c \in Callers : ~ Creating(c, o)'
    PROVE  FirstRecord'
BY DEF FirstRecord

\* How the steps of a call treat creators.
LEMMA CreatorsStay ==
    ASSUME call \in [Callers -> Call], NEW c \in Callers,
           \/ End(c)
           \/ \E pc \in PCs : Goto(c, pc)
           \/ \E pc \in PCs, seen \in TxStatuses :
                 call' = [call EXCEPT ![c].seen = seen, ![c].pc = pc]
           \/ \E op \in Ops \ {"create"} : \E pc, o, arg : Start(c, op, pc, o, arg)
    PROVE  \A d \in Callers, o \in Orders : Creating(d, o)' => Creating(d, o)
<1> SUFFICES ASSUME NEW d \in Callers PROVE
        \/ call'[d].op # "create"
        \/ call'[d].op = call[d].op /\ call'[d].order = call[d].order
  BY DEF Creating
<1>0. call[c] \in Call
  OBVIOUS
<1>1. CASE d # c
  BY <1>1 DEF End, Goto, Start
<1>2. CASE d = c /\ End(c)
  BY <1>2 DEF End, Idle
<1>3. ASSUME NEW pc \in PCs, Goto(c, pc), d = c
      PROVE  call'[d].op = call[d].op /\ call'[d].order = call[d].order
  BY <1>0, <1>3 DEF Goto, Call
<1>4. ASSUME NEW pc \in PCs, NEW seen \in TxStatuses, d = c,
             call' = [call EXCEPT ![c].seen = seen, ![c].pc = pc]
      PROVE  call'[d].op = call[d].op /\ call'[d].order = call[d].order
  BY <1>0, <1>4 DEF Call
<1>5. ASSUME NEW op \in Ops \ {"create"}, NEW pc, NEW o, NEW arg, d = c,
             Start(c, op, pc, o, arg)
      PROVE  call'[d].op # "create"
  BY <1>5 DEF Start
<1> QED
  BY <1>1, <1>2, <1>3, <1>4, <1>5

LEMMA FirstRecordInit == Init => FirstRecord
BY DEF Init, FirstRecord, Creating, Idle

LEMMA FirstRecordKept == IInv /\ FirstRecord /\ [Next]_vars => FirstRecord'
<1> SUFFICES ASSUME IInv, FirstRecord, [Next]_vars PROVE FirstRecord'
  OBVIOUS
<1>0. /\ call \in [Callers -> Call]
      /\ tx \in [Orders -> TxStatuses \cup {NoRow}]
      /\ used \in SUBSET Orders
  BY DEF IInv, TypeOK
<1>1. ASSUME NEW c \in Callers, RecordTransaction(c) PROVE FirstRecord'
  <2> DEFINE o == call[c].order
  <2>1. /\ At(c, "create", "record") /\ "create" \in Ops \ {"idle"} /\ "record" \in PCs
        /\ End(c) /\ UNCHANGED used
        /\ tx' = tx \/ tx' = [tx EXCEPT ![o] = "pending"]
    BY <1>1 DEF RecordTransaction, Ops, PCs
  <2>2. o \in Orders /\ Creating(c, o)
    BY <2>1, CallAt DEF At, Creating
  <2>3. \A d \in Callers, p \in Orders : Creating(d, p)' => Creating(d, p)
    BY <1>0, <2>1, CreatorsStay
  <2>4. ~ Creating(c, o)'
    BY <1>0, <2>1 DEF End, Creating, Idle
  <2>5. o \in used /\ \A d \in Callers : Creating(d, o) => d = c
    BY <2>2 DEF FirstRecord
  <2>6. \A d \in Callers : ~ (call'[d].op = "create" /\ call'[d].order = o)
    BY <1>0, <2>1, <2>5 DEF End, Creating, Idle
  <2>7. \A p \in Orders : tx[p] = NoRow /\ tx'[p] # NoRow => p = o
    BY <1>0, <2>1, <2>2
  <2>8. \A p \in Orders : tx[p] = NoRow /\ tx'[p] # NoRow =>
          p \in used /\ \A d \in Callers : ~ Creating(d, p)'
    BY <2>5, <2>6, <2>7 DEF Creating
  <2> QED
    BY <2>1, <2>3, <2>8, NoNewCreator
<1>2. ASSUME NEW c \in Callers, Step(c), ~ RecordTransaction(c) PROVE FirstRecord'
  <2>1. {"charge", "record", "saveTx", "sync"} \subseteq PCs
    BY DEF PCs
  <2>2. CASE ReadTransaction(c)
    <3>1. /\ At(c, "notify", "tx") /\ "notify" \in Ops \ {"idle"} /\ "tx" \in PCs
      BY <2>2 DEF ReadTransaction, Ops, PCs
    <3>2. \/ End(c)
          \/ \E seen \in TxStatuses :
                call' = [call EXCEPT ![c].seen = seen, ![c].pc = "saveTx"]
      BY <1>0, <2>2, <3>1, CallAt DEF ReadTransaction
    <3>3. \A d \in Callers, p \in Orders : Creating(d, p)' => Creating(d, p)
      BY <1>0, <2>1, <3>2, CreatorsStay
    <3> QED
      BY <2>2, <3>3, NoNewCreator DEF ReadTransaction, tables
  <2>3. CASE SaveTransaction(c)
    <3> DEFINE o == call[c].order
               new == NewTxStatus(call[c].arg, call[c].seen)
    <3>1. /\ At(c, "notify", "saveTx") /\ "notify" \in Ops \ {"idle"} /\ "saveTx" \in PCs
      BY <2>3 DEF SaveTransaction, Ops, PCs
    <3>2. new \in TxStatuses /\ o \in Orders
      BY <3>1, CallAt, NewTxStatusType
    <3>3. call' = [call EXCEPT ![c].seen = new, ![c].pc = "sync"]
      BY <2>3 DEF SaveTransaction
    <3>4. UNCHANGED used /\ \A p \in Orders : tx[p] = NoRow => tx'[p] = NoRow
      BY <1>0, <2>3 DEF SaveTransaction
    <3> HIDE DEF new
    <3>5. \A d \in Callers, p \in Orders : Creating(d, p)' => Creating(d, p)
      BY <1>0, <2>1, <3>2, <3>3, CreatorsStay
    <3> QED
      BY <3>4, <3>5, NoNewCreator
  <2>4. CASE FindCustomer(c) \/ OpenPayment(c) \/ SyncOrderFails(c) \/ DeleteOrder(c)
    <3>1. /\ End(c) \/ Goto(c, "charge") \/ Goto(c, "record")
          /\ UNCHANGED used /\ \A p \in Orders : tx[p] = NoRow => tx'[p] = NoRow
      BY <1>0, <2>4 DEF FindCustomer, OpenPayment, SyncOrderFails, DeleteOrder, tables
    <3>2. \A d \in Callers, p \in Orders : Creating(d, p)' => Creating(d, p)
      BY <1>0, <2>1, <3>1, CreatorsStay
    <3> QED
      BY <3>1, <3>2, NoNewCreator
  <2> QED
    BY <1>2, <2>2, <2>3, <2>4 DEF Step
<1>3. ASSUME NEW c \in Callers, NEW o \in Orders, CreateOrder(c, o) PROVE FirstRecord'
  <2>1. /\ o \notin used /\ used' = used \cup {o} /\ tx' = tx
        /\ call[c] = Idle
        /\ call' = [call EXCEPT ![c] = [op |-> "create", pc |-> "user", order |-> o,
                                        arg |-> None, seen |-> None]]
    BY <1>3 DEF CreateOrder, Start
  <2>2. \A d \in Callers, p \in Orders :
          Creating(d, p)' <=> Creating(d, p) \/ (d = c /\ p = o)
    BY <1>0, <2>1 DEF Creating, Idle
  <2>3. tx[o] = NoRow /\ \A d \in Callers : ~ Creating(d, o)
    BY <2>1 DEF FirstRecord
  <2> QED
    BY <2>1, <2>2, <2>3 DEF FirstRecord
<1>4. ASSUME NEW c \in Callers, NEW o \in Orders,
             \/ StartRemove(c, o)
             \/ \E status \in MidtransStatuses : StartNotification(c, o, status)
      PROVE  FirstRecord'
  <2>1. /\ {"remove", "notify"} \subseteq Ops \ {"create"}
        /\ UNCHANGED <<used, tx>>
        /\ \E op \in {"remove", "notify"} : \E pc, arg : Start(c, op, pc, o, arg)
    BY <1>4 DEF StartRemove, StartNotification, tables, Ops
  <2>2. \A d \in Callers, p \in Orders : Creating(d, p)' => Creating(d, p)
    BY <1>0, <2>1, CreatorsStay
  <2> QED
    BY <2>1, <2>2, NoNewCreator
<1>5. ASSUME NEW o \in Orders, DeleteTransaction(o) PROVE FirstRecord'
  BY <1>0, <1>5 DEF DeleteTransaction, FirstRecord, Creating
<1>6. CASE Crash
  BY <1>6 DEF Crash, FirstRecord, Creating, tables, Idle
<1>7. CASE UNCHANGED vars
  BY <1>7 DEF vars, tables, FirstRecord, Creating
<1> QED
  BY <1>1, <1>2, <1>3, <1>4, <1>5, <1>6, <1>7 DEF Next

\* createOrder records an order's transaction once.
THEOREM RecordedOnce == Spec => []FirstRecord
BY PaymentsInvariant, FirstRecordInit, FirstRecordKept, PTL DEF Spec

\* handleMidtransNotification changes a stored status only to what the
\* notification reports: no stale copy overwrites another's report.
THEOREM StatusReported == Spec => StatusComesFromReport
<1> DEFINE A == \A o \in Orders :
                  tx[o] # NoRow /\ tx'[o] # NoRow /\ tx'[o] # tx[o]
                  => \E c \in Callers : Reports(c, o, tx'[o])
<1>1. IInv /\ FirstRecord /\ [Next]_vars => [A]_vars
  <2> SUFFICES ASSUME IInv, FirstRecord, Next, NEW o \in Orders,
                      tx[o] # NoRow, tx'[o] # NoRow, tx'[o] # tx[o]
               PROVE  \E c \in Callers : Reports(c, o, tx'[o])
    OBVIOUS
  <2>0. tx \in [Orders -> TxStatuses \cup {NoRow}]
    BY DEF IInv, TypeOK
  <2>1. ASSUME NEW k \in Callers, RecordTransaction(k) PROVE FALSE
    <3>1. At(k, "create", "record") /\ "create" \in Ops \ {"idle"} /\ "record" \in PCs
      BY <2>1 DEF RecordTransaction, Ops, PCs
    <3>2. call[k].order \in Orders /\ Creating(k, call[k].order)
      BY <3>1, CallAt DEF At, Creating
    <3>3. tx[call[k].order] = NoRow
      BY <3>2 DEF FirstRecord
    <3> QED
      BY <2>0, <2>1, <3>2, <3>3 DEF RecordTransaction
  <2>2. PICK k \in Callers : SaveTransaction(k)
    <3>1. ~ \E p \in Orders : DeleteTransaction(p)
      BY <2>0 DEF DeleteTransaction
    <3>2. ~ \E k \in Callers : DeleteOrder(k)
      BY <2>0 DEF DeleteOrder
    <3> QED
      BY <2>1, <3>1, <3>2
         DEF Next, Step, CreateOrder, StartRemove, StartNotification, Crash, tables,
             FindCustomer, OpenPayment, ReadTransaction, SyncOrderFails
  <2>3. At(k, "notify", "saveTx") /\ "notify" \in Ops \ {"idle"} /\ "saveTx" \in PCs
    BY <2>2 DEF SaveTransaction, Ops, PCs
  <2>4. call[k].seen \in TxStatuses /\ call[k].order \in Orders
    BY <2>3, CallAt
  <2>5. /\ call[k].order = o
        /\ tx'[o] = NewTxStatus(call[k].arg, call[k].seen)
        /\ tx'[o] # call[k].seen
    BY <2>0, <2>2, <2>4 DEF SaveTransaction
  <2>6. NewTxStatus(call[k].arg, None) = tx'[o]
    BY <2>4, <2>5, NewTxStatusType
  <2> QED
    BY <2>3, <2>5, <2>6 DEF Reports
<1> QED
  BY <1>1, PaymentsInvariant, RecordedOnce, PTL DEF Spec, StatusComesFromReport

-----------------------------------------------------------------------------
(* What the row shows once the notifications have been handled *)

\* A notification is of an order whose payment was shown, and an order whose
\* payment was not shown has had no report.
ShownFirst ==
    /\ paymentUrls \subseteq used
    /\ \A c \in Callers, o \in Orders : Creating(c, o) => o \notin paymentUrls
    /\ \A c \in Callers : call[c].op = "notify" => call[c].order \in paymentUrls
    /\ \A o \in Orders : o \notin paymentUrls => lastReport[o] = "pending"

\* The one notification that is about to save has the row's own status as its
\* copy; when there is none, the row has what the latest one reported.
Accurate(o) ==
    tx[o] # NoRow /\ o \notin raced =>
        \/ Saving(o) = {} /\ tx[o] = lastReport[o]
        \/ \E c \in Callers :
              /\ Saving(o) = {c} /\ call[c].seen = tx[o]
              /\ lastReport[o] = NewTxStatus(call[c].arg, tx[o])

ReportsOK == ShownFirst /\ \A o \in Orders : Accurate(o)

\* The calls that are about to save stay the same.
SameSaves ==
    \A c \in Callers :
        \/ call'[c] = call[c]
        \/ ~ At(c, "notify", "saveTx") /\ ~ At(c, "notify", "saveTx")'

LEMMA SavingStays ==
    ASSUME SameSaves, NEW o \in Orders
    PROVE  /\ Saving(o)' = Saving(o)
           /\ \A c \in Saving(o) : call'[c] = call[c]
BY DEF SameSaves, Saving, At

LEMMA AccurateStays ==
    ASSUME SameSaves, NEW o \in Orders, Accurate(o),
           tx'[o] = tx[o] \/ tx'[o] = NoRow, UNCHANGED reports
    PROVE  Accurate(o)'
<1>1. Saving(o)' = Saving(o) /\ \A c \in Saving(o) : call'[c] = call[c]
  BY SavingStays
<1> QED
  BY <1>1 DEF Accurate, reports

\* How the steps of a call treat those that are about to save, and notifications.
LEMMA CallsElsewhere ==
    ASSUME call \in [Callers -> Call], NEW c \in Callers, ~ At(c, "notify", "saveTx"),
           \/ End(c)
           \/ \E pc \in PCs \ {"saveTx"} : Goto(c, pc)
           \/ \E op, pc, o, arg : pc # "saveTx" /\ Start(c, op, pc, o, arg)
    PROVE  SameSaves
<1> SUFFICES ASSUME NEW d \in Callers, call'[d] # call[d]
             PROVE  ~ At(d, "notify", "saveTx") /\ ~ At(d, "notify", "saveTx")'
  BY DEF SameSaves
<1>0. call[c] \in Call
  OBVIOUS
<1>1. d = c
  BY DEF End, Goto, Start
<1>2. CASE End(c)
  BY <1>1, <1>2 DEF End, Idle, At
<1>3. ASSUME NEW pc \in PCs \ {"saveTx"}, Goto(c, pc)
      PROVE  ~ At(d, "notify", "saveTx")'
  BY <1>0, <1>1, <1>3 DEF Goto, At, Call
<1>4. ASSUME NEW op, NEW pc, NEW o, NEW arg, pc # "saveTx", Start(c, op, pc, o, arg)
      PROVE  ~ At(d, "notify", "saveTx")'
  BY <1>1, <1>4 DEF Start, At
<1> QED
  BY <1>1, <1>2, <1>3, <1>4

\* A step that starts neither a creation nor a notification.
LEMMA ShownFirstStays ==
    ASSUME ShownFirst, UNCHANGED <<used, paymentUrls>>,
           \A c \in Callers, o \in Orders : Creating(c, o)' => Creating(c, o),
           \A c \in Callers : call'[c].op = "notify" =>
              call[c].op = "notify" /\ call'[c].order = call[c].order,
           \A o \in Orders : o \notin paymentUrls => lastReport'[o] = lastReport[o]
    PROVE  ShownFirst'
BY DEF ShownFirst

LEMMA NotifiersStay ==
    ASSUME call \in [Callers -> Call], NEW c \in Callers,
           \/ End(c)
           \/ \E pc \in PCs : Goto(c, pc)
           \/ \E pc \in PCs, seen \in TxStatuses :
                 call' = [call EXCEPT ![c].seen = seen, ![c].pc = pc]
           \/ \E op \in Ops \ {"notify"} : \E pc, o, arg : Start(c, op, pc, o, arg)
    PROVE  \A d \in Callers : call'[d].op = "notify" =>
              call[d].op = "notify" /\ call'[d].order = call[d].order
<1> SUFFICES ASSUME NEW d \in Callers, call'[d].op = "notify"
             PROVE  call[d].op = "notify" /\ call'[d].order = call[d].order
  OBVIOUS
<1>0. call[c] \in Call
  OBVIOUS
<1>1. CASE d # c
  BY <1>1 DEF End, Goto, Start
<1>2. CASE d = c /\ End(c)
  BY <1>2 DEF End, Idle
<1>3. ASSUME NEW pc \in PCs, Goto(c, pc), d = c
      PROVE  call'[d].op = call[d].op /\ call'[d].order = call[d].order
  BY <1>0, <1>3 DEF Goto, Call
<1>4. ASSUME NEW pc \in PCs, NEW seen \in TxStatuses, d = c,
             call' = [call EXCEPT ![c].seen = seen, ![c].pc = pc]
      PROVE  call'[d].op = call[d].op /\ call'[d].order = call[d].order
  BY <1>0, <1>4 DEF Call
<1>5. ASSUME NEW op \in Ops \ {"notify"}, NEW pc, NEW o, NEW arg, d = c,
             Start(c, op, pc, o, arg)
      PROVE  call'[d].op # "notify"
  BY <1>5 DEF Start
<1> QED
  BY <1>1, <1>2, <1>3, <1>4, <1>5

LEMMA ReportsInit == Init => ReportsOK
BY DEF Init, ReportsOK, ShownFirst, Accurate, Creating, Idle

LEMMA QuietKeepsReports ==
    ASSUME IInv, ReportsOK, NEW c \in Callers,
           \/ FindCustomer(c) \/ OpenPayment(c) \/ SyncOrderFails(c) \/ DeleteOrder(c)
           \/ \E o \in Orders : StartRemove(c, o)
    PROVE  ReportsOK'
<1>0. call \in [Callers -> Call] /\ tx \in [Orders -> TxStatuses \cup {NoRow}]
  BY DEF IInv, TypeOK
<1>1. /\ UNCHANGED <<used, paymentUrls>> /\ UNCHANGED reports
      /\ \A o \in Orders : tx'[o] = tx[o] \/ tx'[o] = NoRow
      /\ ~ At(c, "notify", "saveTx")
  BY <1>0 DEF FindCustomer, OpenPayment, SyncOrderFails, DeleteOrder, StartRemove, Start,
              tables, At, Idle
<1>2. /\ {"charge", "record"} \subseteq PCs \ {"saveTx"}
      /\ "remove" \in (Ops \ {"notify"}) \cap (Ops \ {"create"})
  BY DEF PCs, Ops
<1>3. \/ End(c)
      \/ \E pc \in PCs \ {"saveTx"} : Goto(c, pc)
      \/ \E pc, o, arg : pc # "saveTx" /\ Start(c, "remove", pc, o, arg)
  <2>1. CASE \E o \in Orders : StartRemove(c, o)
    BY <2>1 DEF StartRemove
  <2> QED
    BY <1>2, <2>1 DEF FindCustomer, OpenPayment, SyncOrderFails, DeleteOrder
<1>4. SameSaves
  BY <1>0, <1>1, <1>2, <1>3, CallsElsewhere
<1>5. \A d \in Callers, o \in Orders : Creating(d, o)' => Creating(d, o)
  BY <1>0, <1>2, <1>3, CreatorsStay
<1>6. \A d \in Callers : call'[d].op = "notify" =>
         call[d].op = "notify" /\ call'[d].order = call[d].order
  BY <1>0, <1>2, <1>3, NotifiersStay
<1>7. ShownFirst'
  BY <1>1, <1>5, <1>6, ShownFirstStays DEF ReportsOK, reports
<1>8. \A o \in Orders : Accurate(o)'
  BY <1>1, <1>4, AccurateStays DEF ReportsOK
<1> QED
  BY <1>7, <1>8 DEF ReportsOK

LEMMA CreateOrderKeepsReports ==
    ASSUME IInv, FirstRecord, ReportsOK, NEW c \in Callers, NEW o \in Orders, CreateOrder(c, o)
    PROVE  ReportsOK'
<1>0. call \in [Callers -> Call]
  BY DEF IInv, TypeOK
<1>1. /\ o \notin used /\ used' = used \cup {o} /\ call[c] = Idle
      /\ UNCHANGED <<tx, paymentUrls, lastReport, raced>>
      /\ Start(c, "create", "user", o, None)
  BY DEF CreateOrder, Start, reports
<1>2. call' = [call EXCEPT ![c] = [op |-> "create", pc |-> "user", order |-> o,
                                   arg |-> None, seen |-> None]]
  BY <1>1 DEF Start
<1>3. SameSaves
  BY <1>0, <1>1, CallsElsewhere DEF At, Idle
<1>4. o \notin paymentUrls
  BY <1>1 DEF ReportsOK, ShownFirst
<1>5. ShownFirst'
  BY <1>0, <1>1, <1>2, <1>4 DEF ReportsOK, ShownFirst, Creating
<1>6. \A p \in Orders : Accurate(p)'
  BY <1>1, <1>3, AccurateStays DEF ReportsOK, reports
<1> QED
  BY <1>5, <1>6 DEF ReportsOK

LEMMA StartNotificationKeepsReports ==
    ASSUME IInv, ReportsOK, NEW c \in Callers, NEW o \in Orders, NEW status \in MidtransStatuses,
           StartNotification(c, o, status)
    PROVE  ReportsOK'
<1>0. call \in [Callers -> Call]
  BY DEF IInv, TypeOK
<1>1. /\ o \in paymentUrls /\ call[c] = Idle
      /\ UNCHANGED <<used, tx, paymentUrls, lastReport, raced>>
      /\ Start(c, "notify", "tx", o, status)
  BY DEF StartNotification, Start, reports, tables
<1>2. call' = [call EXCEPT ![c] = [op |-> "notify", pc |-> "tx", order |-> o,
                                   arg |-> status, seen |-> None]]
  BY <1>1 DEF Start
<1>3. SameSaves
  BY <1>0, <1>1, CallsElsewhere DEF At, Idle
<1>4. ShownFirst'
  BY <1>0, <1>1, <1>2 DEF ReportsOK, ShownFirst, Creating
<1>5. \A p \in Orders : Accurate(p)'
  BY <1>1, <1>3, AccurateStays DEF ReportsOK, reports
<1> QED
  BY <1>4, <1>5 DEF ReportsOK

\* A new transaction is pending, and has had no notification yet.
LEMMA RecordKeepsReports ==
    ASSUME IInv, FirstRecord, ReportsOK, NEW c \in Callers, RecordTransaction(c)
    PROVE  ReportsOK'
<1>0. call \in [Callers -> Call] /\ tx \in [Orders -> TxStatuses \cup {NoRow}]
  BY DEF IInv, TypeOK
<1>a. PICK o \in Orders : call[c].order = o
  BY CallAt DEF RecordTransaction, Ops, PCs
<1>1. /\ At(c, "create", "record") /\ "create" \in Ops \ {"idle"} /\ "record" \in PCs
      /\ End(c) /\ UNCHANGED used /\ UNCHANGED reports
      /\ \/ tx' = tx /\ paymentUrls' = paymentUrls
         \/ tx' = [tx EXCEPT ![o] = "pending"] /\ paymentUrls' = paymentUrls \cup {o}
  BY <1>a DEF RecordTransaction, Ops, PCs
<1>2. o \in Orders /\ Creating(c, o) /\ ~ At(c, "notify", "saveTx")
  BY <1>1, <1>a DEF At, Creating
<1>3. o \in used /\ o \notin paymentUrls /\ \A d \in Callers : Creating(d, o) => d = c
  BY <1>2 DEF FirstRecord, ReportsOK, ShownFirst
<1>4. call' = [call EXCEPT ![c] = Idle] /\ Idle.op = "idle"
  BY <1>1 DEF End, Idle
<1>5. SameSaves
  BY <1>0, <1>1, <1>2, CallsElsewhere
<1>6. Saving(o) = {} /\ lastReport[o] = "pending"
  BY <1>2, <1>3 DEF ReportsOK, ShownFirst, Saving, At
<1>7. Accurate(o)'
  <2>1. CASE tx' = tx
    BY <1>1, <1>2, <1>5, <2>1, AccurateStays DEF ReportsOK
  <2>2. CASE tx' = [tx EXCEPT ![o] = "pending"]
    <3>1. tx'[o] = lastReport'[o]
      BY <1>0, <1>1, <1>2, <1>6, <2>2 DEF reports
    <3>2. Saving(o)' = {}
      BY <1>2, <1>5, <1>6, SavingStays
    <3> QED
      BY <3>1, <3>2 DEF Accurate
  <2> QED
    BY <1>1, <2>1, <2>2
<1>8. ASSUME NEW p \in Orders, p # o PROVE Accurate(p)'
  <2>1. tx'[p] = tx[p]
    BY <1>0, <1>1, <1>8
  <2> QED
    BY <1>1, <1>5, <2>1, AccurateStays DEF ReportsOK
<1>9. ShownFirst'
  <2>1. paymentUrls' \subseteq used'
    BY <1>1, <1>3 DEF ReportsOK, ShownFirst
  <2>2. ASSUME NEW d \in Callers, NEW p \in Orders, Creating(d, p)' PROVE p \notin paymentUrls'
    <3>1. d # c
      BY <1>0, <1>4, <2>2 DEF Creating
    <3>2. Creating(d, p)
      BY <1>0, <1>4, <2>2, <3>1 DEF Creating
    <3>3. p # o /\ p \notin paymentUrls
      BY <1>3, <3>1, <3>2 DEF ReportsOK, ShownFirst
    <3> QED
      BY <1>1, <3>3
  <2>3. \A d \in Callers : call'[d].op = "notify" => call'[d].order \in paymentUrls'
    BY <1>0, <1>1, <1>4 DEF ReportsOK, ShownFirst
  <2>4. \A p \in Orders : p \notin paymentUrls' => lastReport'[p] = "pending"
    BY <1>1 DEF ReportsOK, ShownFirst, reports
  <2> QED
    BY <2>1, <2>2, <2>3, <2>4 DEF ShownFirst
<1> QED
  BY <1>7, <1>8, <1>9 DEF ReportsOK

\* A notification reads the row: it is the only one, or the order is raced.
LEMMA ReadKeepsReports ==
    ASSUME IInv, ReportsOK, NEW c \in Callers, ReadTransaction(c)
    PROVE  ReportsOK'
<1>a. PICK o \in Orders : call[c].order = o
  BY CallAt DEF ReadTransaction, Ops, PCs
<1>0. /\ call \in [Callers -> Call] /\ tx \in [Orders -> TxStatuses \cup {NoRow}]
      /\ lastReport \in [Orders -> TxStatuses] /\ call[c] \in Call
  BY DEF IInv, TypeOK
<1>1. /\ At(c, "notify", "tx") /\ "notify" \in Ops \ {"idle"} /\ {"tx", "saveTx"} \subseteq PCs
      /\ UNCHANGED <<used, paymentUrls, tx>>
  BY DEF ReadTransaction, Ops, PCs, tables
<1>2. /\ o \in Orders /\ call[c].order = o
      /\ ~ At(c, "notify", "saveTx") /\ call[c].op = "notify"
  BY <1>1, <1>a DEF At
<1>3. CASE tx[o] = NoRow
  <2>1. End(c) /\ UNCHANGED reports
    BY <1>2, <1>3 DEF ReadTransaction
  <2>2. SameSaves
    BY <1>0, <1>2, <2>1, CallsElsewhere
  <2>3. \A d \in Callers, p \in Orders : Creating(d, p)' => Creating(d, p)
    BY <1>0, <2>1, CreatorsStay
  <2>4. \A d \in Callers : call'[d].op = "notify" =>
           call[d].op = "notify" /\ call'[d].order = call[d].order
    BY <1>0, <2>1, NotifiersStay
  <2>5. ShownFirst'
    BY <1>1, <2>1, <2>3, <2>4, ShownFirstStays DEF ReportsOK, reports
  <2>6. \A p \in Orders : Accurate(p)'
    BY <1>1, <2>1, <2>2, AccurateStays DEF ReportsOK
  <2> QED
    BY <2>5, <2>6 DEF ReportsOK
<1>4. CASE tx[o] # NoRow
  <2> DEFINE new == NewTxStatus(call[c].arg, tx[o])
  <2>1. /\ call' = [call EXCEPT ![c].seen = tx[o], ![c].pc = "saveTx"]
        /\ lastReport' = [lastReport EXCEPT ![o] = new]
        /\ raced' = IF Saving(o) # {} THEN raced \cup {o} ELSE raced \ {o}
    BY <1>2, <1>4 DEF ReadTransaction
  <2>2. tx[o] \in TxStatuses
    BY <1>0, <1>2, <1>4
  <2>3. /\ At(c, "notify", "saveTx")' /\ call'[c].order = o
        /\ call'[c].seen = tx[o] /\ call'[c].arg = call[c].arg
    BY <1>0, <1>2, <2>1 DEF At, Call
  <2>4. \A d \in Callers : d # c => call'[d] = call[d]
    BY <1>0, <2>1
  <2>5. Saving(o)' = Saving(o) \cup {c}
    BY <2>3, <2>4 DEF Saving, At
  <2>6. Accurate(o)'
    <3>1. CASE Saving(o) # {}
      BY <2>1, <3>1 DEF Accurate
    <3>2. CASE Saving(o) = {}
      <4>1. Saving(o)' = {c}
        BY <2>5, <3>2
      <4>2. lastReport'[o] = NewTxStatus(call'[c].arg, tx'[o])
        BY <1>0, <1>1, <1>2, <2>1, <2>3
      <4>3. call'[c].seen = tx'[o]
        BY <1>1, <2>3
      <4> QED
        BY <4>1, <4>2, <4>3 DEF Accurate
    <3> QED
      BY <3>1, <3>2
  <2>7. ASSUME NEW p \in Orders, p # o PROVE Accurate(p)'
    <3>1. Saving(p)' = Saving(p) /\ c \notin Saving(p)
      BY <1>2, <2>3, <2>4, <2>7 DEF Saving, At
    <3>2. lastReport'[p] = lastReport[p] /\ (p \in raced' <=> p \in raced)
      BY <1>0, <2>1, <2>7
    <3>3. Accurate(p)
      BY DEF ReportsOK
    <3> QED
      BY <1>1, <2>4, <3>1, <3>2, <3>3 DEF Accurate
  <2>8. \A d \in Callers, p \in Orders : Creating(d, p)' => Creating(d, p)
    BY <1>0, <1>1, <2>1, <2>2, CreatorsStay
  <2>9. \A d \in Callers : call'[d].op = "notify" =>
           call[d].op = "notify" /\ call'[d].order = call[d].order
    BY <1>0, <1>1, <2>1, <2>2, NotifiersStay
  <2>10. \A p \in Orders : p \notin paymentUrls => lastReport'[p] = lastReport[p]
    BY <1>0, <1>2, <2>1 DEF ReportsOK, ShownFirst
  <2>11. ShownFirst'
    BY <1>1, <2>8, <2>9, <2>10, ShownFirstStays DEF ReportsOK
  <2> QED
    BY <2>6, <2>7, <2>11 DEF ReportsOK
<1> QED
  BY <1>3, <1>4

\* A notification saves: the row then has what it reports, or had it before.
LEMMA SaveKeepsReports ==
    ASSUME IInv, ReportsOK, NEW c \in Callers, SaveTransaction(c)
    PROVE  ReportsOK'
<1>a. PICK o \in Orders : call[c].order = o
  BY CallAt DEF SaveTransaction, Ops, PCs
<1>b. PICK new : NewTxStatus(call[c].arg, call[c].seen) = new
  OBVIOUS
<1>0. /\ call \in [Callers -> Call] /\ tx \in [Orders -> TxStatuses \cup {NoRow}]
      /\ call[c] \in Call
  BY DEF IInv, TypeOK
<1>1. /\ At(c, "notify", "saveTx") /\ "notify" \in Ops \ {"idle"} /\ {"saveTx", "sync"} \subseteq PCs
      /\ UNCHANGED <<used, paymentUrls, lastReport, raced>>
      /\ tx' = IF tx[o] # NoRow /\ new # call[c].seen THEN [tx EXCEPT ![o] = new] ELSE tx
      /\ call' = [call EXCEPT ![c].seen = new, ![c].pc = "sync"]
  BY <1>a, <1>b DEF SaveTransaction, Ops, PCs, reports
<1>2. call[c].order = o /\ call[c].seen \in TxStatuses /\ new \in TxStatuses
  BY <1>1, <1>a, <1>b, CallAt, NewTxStatusType
<1>3. ~ At(c, "notify", "saveTx")' /\ \A d \in Callers : d # c => call'[d] = call[d]
  BY <1>0, <1>1 DEF At, Call
<1>4. c \in Saving(o) /\ Saving(o)' = Saving(o) \ {c}
  BY <1>1, <1>2, <1>3 DEF Saving, At
<1>5. Accurate(o)'
  <2> SUFFICES ASSUME tx'[o] # NoRow, o \notin raced
               PROVE  Saving(o)' = {} /\ tx'[o] = lastReport[o]
    BY <1>1 DEF Accurate
  <2>1. tx[o] # NoRow
    BY <1>0, <1>1, <1>2
  <2>2. Accurate(o)
    BY <1>2 DEF ReportsOK
  <2>3. Saving(o) = {c} /\ call[c].seen = tx[o] /\ lastReport[o] = new
    BY <1>4, <1>b, <2>1, <2>2 DEF Accurate
  <2>4. tx'[o] = new
    BY <1>0, <1>1, <1>2, <2>1, <2>3
  <2> QED
    BY <1>4, <2>3, <2>4
<1>6. ASSUME NEW p \in Orders, p # o PROVE Accurate(p)'
  <2>1. Saving(p)' = Saving(p) /\ c \notin Saving(p)
    BY <1>2, <1>3, <1>6 DEF Saving, At
  <2>2. tx'[p] = tx[p]
    BY <1>0, <1>1, <1>6
  <2>3. Accurate(p)
    BY DEF ReportsOK
  <2> QED
    BY <1>1, <1>3, <2>1, <2>2, <2>3 DEF Accurate
<1>7. \A d \in Callers, p \in Orders : Creating(d, p)' => Creating(d, p)
  BY <1>0, <1>1, <1>2, CreatorsStay
<1>8. \A d \in Callers : call'[d].op = "notify" =>
         call[d].op = "notify" /\ call'[d].order = call[d].order
  BY <1>0, <1>1, <1>2, NotifiersStay
<1>9. ShownFirst'
  BY <1>1, <1>7, <1>8, ShownFirstStays DEF ReportsOK
<1> QED
  BY <1>5, <1>6, <1>9 DEF ReportsOK

\* A restart loses the saves that were due: their orders count as raced.
LEMMA CrashKeepsReports ==
    ASSUME IInv, ReportsOK, Crash
    PROVE  ReportsOK'
<1>1. /\ call' = [c \in Callers |-> Idle] /\ Idle.op = "idle"
      /\ raced' = raced \cup {o \in Orders : Saving(o) # {}}
      /\ UNCHANGED <<tx, used, paymentUrls, lastReport>>
  BY DEF Crash, tables, Idle
<1>2. \A o \in Orders : Saving(o)' = {}
  BY <1>1 DEF Saving, At
<1>3. \A o \in Orders : Accurate(o)'
  BY <1>1, <1>2 DEF ReportsOK, Accurate
<1>4. ShownFirst'
  BY <1>1 DEF ReportsOK, ShownFirst, Creating
<1> QED
  BY <1>3, <1>4 DEF ReportsOK

LEMMA ReportsKept == IInv /\ FirstRecord /\ ReportsOK /\ [Next]_vars => ReportsOK'
<1> SUFFICES ASSUME IInv, FirstRecord, ReportsOK, [Next]_vars PROVE ReportsOK'
  OBVIOUS
<1>1. ASSUME NEW c \in Callers, Step(c) PROVE ReportsOK'
  BY <1>1, QuietKeepsReports, RecordKeepsReports, ReadKeepsReports, SaveKeepsReports DEF Step
<1>2. ASSUME NEW c \in Callers, NEW o \in Orders,
             \/ CreateOrder(c, o) \/ StartRemove(c, o)
             \/ \E status \in MidtransStatuses : StartNotification(c, o, status)
      PROVE  ReportsOK'
  BY <1>2, QuietKeepsReports, CreateOrderKeepsReports, StartNotificationKeepsReports
<1>3. ASSUME NEW o \in Orders, DeleteTransaction(o) PROVE ReportsOK'
  <2>1. /\ UNCHANGED <<call, used, paymentUrls>> /\ UNCHANGED reports /\ SameSaves
        /\ \A p \in Orders : tx'[p] = tx[p] \/ tx'[p] = NoRow
    BY <1>3 DEF DeleteTransaction, SameSaves, IInv, TypeOK
  <2>2. \A p \in Orders : Accurate(p)'
    BY <2>1, AccurateStays DEF ReportsOK
  <2>3. ShownFirst'
    BY <2>1 DEF ReportsOK, ShownFirst, Creating, reports
  <2> QED
    BY <2>2, <2>3 DEF ReportsOK
<1>4. CASE UNCHANGED vars
  BY <1>4 DEF vars, tables, reports, ReportsOK, ShownFirst, Accurate, Creating, Saving, At
<1> QED
  BY <1>1, <1>2, <1>3, <1>4, CrashKeepsReports DEF Next

\* The transaction of an order shows what its latest notification reported,
\* unless that one raced with another or died with the process
\* (transaction.service.ts:29).
THEOREM LatestReportStored == Spec => []LastReportStored
<1>1. ReportsOK => LastReportStored
  BY DEF ReportsOK, Accurate, LastReportStored
<1> QED
  BY <1>1, PaymentsInvariant, RecordedOnce, ReportsInit, ReportsKept, PTL DEF Spec
=============================================================================
