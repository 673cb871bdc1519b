------------------------ MODULE OrderLifecycleProofs ------------------------
(***************************************************************************)
(* Safety of OrderLifecycle for every set of orders and drivers and every  *)
(* number of requests at a time.                                           *)
(*                                                                         *)
(* The argument: the partner of a row is set by order.matched messages     *)
(* alone and never goes back to "pending", so a stale copy can disagree    *)
(* with the row only about which driver it is.                             *)
(***************************************************************************)
EXTENDS OrderLifecycle, FiniteSetTheorems, TLAPS

\* What is known of a call k, given the table and the histories.
CallOK(k, table, ids, matches, paid) ==
    /\ k \in Call
    /\ IF k.op = "idle" THEN k.pc = "idle" ELSE k.order \in ids
    /\ k.op \in {"pay", "mark"} => k.arg = "paid"
    /\ k.op = "complete" => k.arg = "completed"
    /\ k.op = "status" => k.arg \in DriverStatuses
    /\ k.op = "matched" => k.arg \in Drivers /\ <<k.order, k.arg>> \in matches
    /\ k.pc = "save" =>
          /\ k.op \in {"pay", "mark", "complete", "status", "matched"}
          /\ k.row \in Row
          /\ table[k.order] # NoRow /\ k.row.partner # NoPartner =>
                table[k.order].partner # NoPartner
    /\ k.op = "pay" /\ k.pc = "reread" /\ table[k.order] # NoRow => k.order \in paid
    /\ k.op = "pay" /\ k.pc = "publish" => k.order \in paid

CallsOK ==
    /\ call \in [Slots -> Call]
    /\ \A c \in Slots : CallOK(call[c], order, used, sent, everPaid)
    /\ \A c \in Callers : call[c].op # "matched"

\* What is known of the rows and of the messages.
RowsOK ==
    /\ \A o \in Orders : Exists(o) => o \in used
    /\ \A o \in Orders : Exists(o) /\ order[o].partner # NoPartner =>
          <<o, order[o].partner>> \in sent
    /\ \A o \in Orders, d \in Drivers : <<o, d>> \in handled /\ Exists(o) =>
          order[o].partner # NoPartner
    /\ AcceptedHasPartner

HistoryOK ==
    /\ matchQueue \subseteq sent
    /\ handled \subseteq sent
    /\ \A o \in Orders, d \in Drivers : <<o, d>> \in sent => o \in searching
    /\ searching \subseteq everPaid
    /\ everPaid \subseteq used

\* The part of TypeOK about completions.
NewsTyped ==
    /\ completing \in [Orders -> 0 .. MaxCompletions]
    /\ {answered, announced, delivered} \subseteq [Orders -> Nat]
    /\ told \in [Orders -> SUBSET Rooms]

IInv == TypeOK /\ CallsOK /\ RowsOK /\ HistoryOK

\* The requests with two announcements to make, and those with one.
Ahead(o) ==
    {c \in Callers : /\ call[c].op = "complete" /\ call[c].order = o
                     /\ call[c].pc \in {"read", "save", "publish"}}

Halfway(o) ==
    {c \in Callers : /\ call[c].op = "complete" /\ call[c].order = o
                     /\ call[c].pc = "announce"}

\* Announcements made and still to be made: none is missing from what was
\* answered, and none exceeds what was asked for.
NewsOK ==
    \A o \in Orders :
        /\ 2 * answered[o] + Cardinality(Halfway(o)) <= announced[o]
        /\ announced[o] + 2 * Cardinality(Ahead(o)) + Cardinality(Halfway(o))
             <= 2 * completing[o]

\* No row comes back, and none loses its partner.
RowsGoOn ==
    \A o \in used :
        order'[o] # NoRow =>
            /\ order[o] # NoRow
            /\ order[o].partner # NoPartner => order'[o].partner # NoPartner

HistoriesGrow == used \subseteq used' /\ sent \subseteq sent' /\ everPaid \subseteq everPaid'

-----------------------------------------------------------------------------
LEMMA InitHolds == Init => IInv
<1> SUFFICES ASSUME Init PROVE IInv
  OBVIOUS
<1>1. call \in [Slots -> Call] /\ \A c \in Slots : call[c] = Idle
  BY DEF Init, Idle, Call, Ops, PCs
<1>2. CallOK(Idle, order, used, sent, everPaid) /\ Idle.op = "idle"
  BY DEF CallOK, Idle, Call, Ops, PCs
<1>3. CallsOK
  BY <1>1, <1>2 DEF CallsOK, Slots
<1>4. TypeOK
  BY <1>1, NamesAssumption DEF Init, TypeOK
<1>5. RowsOK
  BY DEF Init, RowsOK, AcceptedHasPartner, Exists
<1>6. HistoryOK
  BY DEF Init, HistoryOK
<1> QED
  BY <1>3, <1>4, <1>5, <1>6 DEF IInv

\* What is known of a call stays true while the tables go on.
LEMMA CallStaysOK ==
    ASSUME NEW k, CallOK(k, order, used, sent, everPaid), RowsGoOn, HistoriesGrow
    PROVE  CallOK(k, order', used', sent', everPaid')
<1>1. k.op # "idle" => k.order \in used
  BY DEF CallOK
<1>2. k.pc = "save" \/ k.op = "pay" => k.op # "idle"
  BY DEF CallOK
<1> QED
  BY <1>1, <1>2 DEF CallOK, RowsGoOn, HistoriesGrow

\* One call is replaced by a good one, or none is.
LEMMA OneCallChanges ==
    ASSUME CallsOK, RowsGoOn, HistoriesGrow, NEW c \in Slots, NEW k,
           CallOK(k, order', used', sent', everPaid'),
           c \in Callers => k.op # "matched",
           call' = [call EXCEPT ![c] = k]
    PROVE  CallsOK'
<1>1. k \in Call /\ call \in [Slots -> Call]
  BY DEF CallOK, CallsOK
<1>2. call' \in [Slots -> Call]
  BY <1>1
<1>3. ASSUME NEW d \in Slots
      PROVE  /\ CallOK(call'[d], order', used', sent', everPaid')
             /\ d \in Callers => call'[d].op # "matched"
  <2>1. CASE d = c
    BY <1>1, <2>1
  <2>2. CASE d # c
    <3>1. call'[d] = call[d]
      BY <1>1, <2>2
    <3>2. CallOK(call[d], order, used, sent, everPaid)
      BY DEF CallsOK
    <3>3. CallOK(call[d], order', used', sent', everPaid')
      BY <3>2, CallStaysOK
    <3> QED
      BY <3>1, <3>3 DEF CallsOK
  <2> QED
    BY <2>1, <2>2
<1> QED
  BY <1>2, <1>3 DEF CallsOK, Slots

LEMMA NoCallChanges ==
    ASSUME CallsOK, RowsGoOn, HistoriesGrow, UNCHANGED call
    PROVE  CallsOK'
<1>1. ASSUME NEW d \in Slots PROVE CallOK(call[d], order', used', sent', everPaid')
  BY CallStaysOK DEF CallsOK
<1> QED
  BY <1>1 DEF CallsOK

\* A call that ends.
LEMMA CallEnds ==
    ASSUME CallsOK, RowsGoOn, HistoriesGrow, NEW c \in Slots, End(c)
    PROVE  CallsOK'
<1>1. CallOK(Idle, order', used', sent', everPaid') /\ Idle.op = "idle"
  BY DEF CallOK, Idle, Call, Ops, PCs
<1> QED
  BY <1>1, OneCallChanges DEF End

\* A call that goes on: its new place is any that needs no copy of the row.
LEMMA CallGoesOn ==
    ASSUME CallsOK, RowsGoOn, HistoriesGrow, NEW c \in Slots,
           NEW pc \in PCs \ {"save"}, Goto(c, pc), call[c].op # "idle",
           pc = "reread" /\ order'[call[c].order] # NoRow => call[c].order \in everPaid',
           call[c].op = "pay" /\ pc = "publish" => call[c].order \in everPaid'
    PROVE  CallsOK'
<1> DEFINE k == [call[c] EXCEPT !.pc = pc, !.row = None]
<1>1. /\ CallOK(call[c], order', used', sent', everPaid')
      /\ call[c] \in Call
      /\ c \in Callers => call[c].op # "matched"
  BY CallStaysOK DEF CallsOK
<1>2. /\ k \in Call /\ k.pc = pc
      /\ k.op = call[c].op /\ k.order = call[c].order /\ k.arg = call[c].arg
  BY <1>1 DEF Call
<1>3. call' = [call EXCEPT ![c] = k]
  BY DEF Goto
<1> HIDE DEF k
<1>4. CallOK(k, order', used', sent', everPaid')
  BY <1>1, <1>2 DEF CallOK
<1> QED
  BY <1>1, <1>2, <1>3, <1>4, OneCallChanges

\* A call that takes a copy of its row.
LEMMA CallReads ==
    ASSUME CallsOK, UNCHANGED <<order, used, sent, everPaid>>, NEW c \in Slots,
           NEW pc \in {"save", "refused"}, call[c].op # "idle",
           pc = "save" => call[c].op \in {"pay", "mark", "complete", "status", "matched"},
           order[call[c].order] \in Row, Copy(c, pc)
    PROVE  CallsOK'
<1> DEFINE k == [call[c] EXCEPT !.pc = pc, !.row = order[call[c].order]]
<1>1. RowsGoOn /\ HistoriesGrow
  BY DEF RowsGoOn, HistoriesGrow
<1>2. /\ CallOK(call[c], order', used', sent', everPaid')
      /\ call[c] \in Call
      /\ c \in Callers => call[c].op # "matched"
  BY <1>1, CallStaysOK DEF CallsOK
<1>3. /\ k \in Call /\ k.pc = pc /\ k.row = order[call[c].order]
      /\ k.op = call[c].op /\ k.order = call[c].order /\ k.arg = call[c].arg
  BY <1>2 DEF Call, PCs
<1>4. call' = [call EXCEPT ![c] = k]
  BY DEF Copy
<1> HIDE DEF k
<1>5. CallOK(k, order', used', sent', everPaid')
  BY <1>2, <1>3 DEF CallOK
<1> QED
  BY <1>1, <1>2, <1>3, <1>4, <1>5, OneCallChanges

\* A call that starts, in a place that needs no copy of the row.
LEMMA CallStarts ==
    ASSUME CallsOK, UNCHANGED <<order, used, sent, everPaid>>, NEW c \in Slots,
           NEW op \in Ops \ {"idle"}, NEW pc \in {"read", "find"}, NEW o \in used \cap Orders,
           NEW arg, Start(c, op, pc, o, arg),
           arg \in OrderStatuses \cup Drivers \cup {None},
           op \in {"pay", "mark"} => arg = "paid",
           op = "complete" => arg = "completed",
           op = "status" => arg \in DriverStatuses,
           op = "matched" => c \notin Callers /\ arg \in Drivers /\ <<o, arg>> \in sent
    PROVE  CallsOK'
<1> DEFINE k == [op |-> op, pc |-> pc, order |-> o, arg |-> arg, row |-> None]
<1>1. RowsGoOn /\ HistoriesGrow
  BY DEF RowsGoOn, HistoriesGrow
<1>2. k \in Call
  BY DEF Call, PCs
<1>3. CallOK(k, order', used', sent', everPaid')
  BY <1>2 DEF CallOK
<1>4. call' = [call EXCEPT ![c] = k]
  BY DEF Start
<1>5. c \in Callers => k.op # "matched"
  OBVIOUS
<1> HIDE DEF k
<1> QED
  BY <1>1, <1>3, <1>4, <1>5, OneCallChanges

\* A step that touches neither the table nor the histories.
LEMMA TablesUnchanged ==
    ASSUME IInv, UNCHANGED <<rows, queues, crashes>>, CallsOK',
           UNCHANGED news \/ NewsTyped'
    PROVE  IInv'
<1>1. NewsTyped'
  BY DEF IInv, TypeOK, NewsTyped, news
<1>2. TypeOK'
  BY <1>1 DEF IInv, TypeOK, NewsTyped, CallsOK, rows, queues
<1> QED
  BY <1>2 DEF IInv, RowsOK, HistoryOK, AcceptedHasPartner, Exists, rows, queues

-----------------------------------------------------------------------------
(* Each action *)

LEMMA CreateOrderKeeps ==
    ASSUME IInv, NEW o \in Orders, CreateOrder(o)
    PROVE  IInv'
<1> DEFINE new == [status |-> "pending", partner |-> NoPartner]
<1>1. new \in Row /\ new # NoRow /\ new.partner = NoPartner /\ new.status # "accepted"
  BY NamesAssumption DEF Row, OrderStatuses
<1>2. /\ order' = [order EXCEPT ![o] = new] /\ o \notin used /\ used' = used \cup {o}
      /\ UNCHANGED <<everPaid, matchQueue, searching, sent, handled, call, crashes>>
      /\ UNCHANGED <<dropped, completing, answered, announced, delivered, told>>
      /\ order \in [Orders -> Row \cup {NoRow}]
  BY DEF CreateOrder, queues, news, IInv, TypeOK
<1> HIDE DEF new
<1>3. RowsGoOn /\ HistoriesGrow
  BY <1>2 DEF RowsGoOn, HistoriesGrow, IInv, TypeOK
<1>4. CallsOK'
  BY <1>2, <1>3, NoCallChanges DEF IInv
<1>5. \A d \in Drivers : <<o, d>> \notin handled
  BY <1>2 DEF IInv, HistoryOK, TypeOK
<1>6. RowsOK'
  BY <1>1, <1>2, <1>5 DEF IInv, RowsOK, AcceptedHasPartner, Exists
<1>7. HistoryOK'
  BY <1>2 DEF IInv, HistoryOK
<1>8. TypeOK'
  BY <1>1, <1>2, <1>4 DEF IInv, TypeOK, CallsOK
<1> QED
  BY <1>4, <1>6, <1>7, <1>8 DEF IInv

LEMMA StartRequestKeeps ==
    ASSUME IInv, NEW c \in Callers, NEW o \in Orders, StartRequest(c, o)
    PROVE  IInv'
<1>1. /\ o \in used \cap Orders /\ c \in Slots
      /\ UNCHANGED <<order, used, sent, everPaid>>
      /\ CallsOK
  BY DEF StartRequest, rows, queues, IInv, Slots
<1>2. /\ {"pay", "mark", "complete", "status", "cancel", "remove"} \subseteq Ops \ {"idle"}
      /\ {"paid", "completed", None} \cup DriverStatuses
           \subseteq OrderStatuses \cup Drivers \cup {None}
  BY DEF Ops, OrderStatuses
<1>3. ASSUME NEW status \in DriverStatuses, UpdateDriverStatus(c, o, status)
      PROVE  CallsOK'
  BY <1>1, <1>2, <1>3, CallStarts DEF UpdateDriverStatus
<1>4. ASSUME \/ ProcessPayment(c, o) \/ MarkTransactionAsPaid(c, o)
             \/ CancelOrder(c, o) \/ RemoveOrder(c, o)
      PROVE  CallsOK'
  BY <1>1, <1>2, <1>4, CallStarts
     DEF ProcessPayment, MarkTransactionAsPaid, CancelOrder, RemoveOrder
<1>5. CallsOK'
  BY <1>3, <1>4 DEF StartRequest
<1> QED
  BY <1>5, TablesUnchanged DEF StartRequest

LEMMA CompleteOrderKeeps ==
    ASSUME IInv, NEW c \in Callers, NEW o \in used, CompleteOrder(c, o)
    PROVE  IInv'
<1>1. /\ o \in used \cap Orders /\ c \in Slots /\ CallsOK
      /\ UNCHANGED <<rows, queues, crashes>> /\ UNCHANGED <<order, used, sent, everPaid>>
      /\ "complete" \in Ops \ {"idle"}
      /\ "completed" \in OrderStatuses \cup Drivers \cup {None}
  BY DEF CompleteOrder, rows, queues, IInv, TypeOK, Slots, Ops, OrderStatuses
<1>2. CallsOK'
  BY <1>1, CallStarts DEF CompleteOrder
<1>3. NewsTyped'
  BY <1>1, NamesAssumption DEF CompleteOrder, NewsTyped, IInv, TypeOK
<1> QED
  BY <1>1, <1>2, <1>3, TablesUnchanged

LEMMA ReadRowKeeps ==
    ASSUME IInv, NEW c \in Callers, ReadRow(c)
    PROVE  IInv'
<1>1. /\ c \in Slots /\ CallsOK /\ call[c].op # "matched" /\ call[c] \in Call
      /\ UNCHANGED <<order, used, sent, everPaid>>
      /\ order \in [Orders -> Row \cup {NoRow}] /\ used \in SUBSET Orders
  BY DEF ReadRow, rows, queues, IInv, CallsOK, Slots, TypeOK
<1>2. RowsGoOn /\ HistoriesGrow
  BY <1>1 DEF RowsGoOn, HistoriesGrow
<1>3. CASE ~ Exists(call[c].order)
  <2>1. End(c)
    BY <1>3 DEF ReadRow
  <2>2. CallsOK'
    BY <1>1, <1>2, <2>1, CallEnds
  <2> QED
    BY <2>2, TablesUnchanged DEF ReadRow
<1>4. CASE Exists(call[c].order) /\ call[c].op # "idle"
  <2>1. call[c].order \in Orders
    BY <1>1, <1>4 DEF CallsOK, CallOK
  <2>2. order[call[c].order] \in Row
    BY <1>1, <1>4, <2>1 DEF Exists
  <2>3. \/ Goto(c, "delete")
        \/ Copy(c, "refused")
        \/ Copy(c, "save") /\ call[c].op \in {"pay", "mark", "complete", "status"}
    BY <1>1, <1>4 DEF ReadRow, Call, Ops
  <2>4. ASSUME Goto(c, "delete") PROVE CallsOK'
    BY <1>1, <1>2, <1>4, <2>4, CallGoesOn DEF PCs
  <2>5. ASSUME Copy(c, "refused") PROVE CallsOK'
    BY <1>1, <1>4, <2>2, <2>5, CallReads
  <2>6. ASSUME Copy(c, "save"), call[c].op \in {"pay", "mark", "complete", "status"}
        PROVE  CallsOK'
    BY <1>1, <1>4, <2>2, <2>6, CallReads
  <2>7. CallsOK'
    BY <2>3, <2>4, <2>5, <2>6
  <2> QED
    BY <2>7, TablesUnchanged DEF ReadRow
<1>5. call[c].op # "idle"
  BY <1>1 DEF ReadRow, CallsOK, CallOK
<1> QED
  BY <1>3, <1>4, <1>5

\* The row that SaveStatus leaves keeps its partner, and takes the status of
\* the call or keeps its own.
LEMMA MergedStatus ==
    ASSUME NEW current \in Row, NEW copy \in Row, NEW status \in OrderStatuses
    PROVE  LET new == Merge(current, copy, [copy EXCEPT !.status = status]) IN
           /\ new \in Row
           /\ new.partner = current.partner
           /\ new.status \in {status, current.status}
BY DEF Merge, Row

LEMMA SaveStatusKeeps ==
    ASSUME IInv, NEW c \in Callers, SaveStatus(c)
    PROVE  IInv'
<1> DEFINE o == call[c].order
           k == call[c]
           new == Merge(order[o], k.row, [k.row EXCEPT !.status = k.arg])
<1>1. /\ c \in Slots /\ CallsOK /\ k \in Call /\ k.op # "matched" /\ k.pc = "save"
      /\ CallOK(k, order, used, sent, everPaid)
      /\ order \in [Orders -> Row \cup {NoRow}] /\ used \in SUBSET Orders
      /\ UNCHANGED <<used, matchQueue, searching, sent, handled, crashes>>
      /\ UNCHANGED <<dropped, completing, answered, announced, delivered, told>>
  BY DEF SaveStatus, queues, news, IInv, CallsOK, Slots, TypeOK
<1>2. /\ k.op \in {"pay", "mark", "complete", "status"}
      /\ k.row \in Row /\ o \in used /\ o \in Orders
      /\ k.arg \in {"paid", "completed"} \cup DriverStatuses
  BY <1>1 DEF CallOK
<1>3. k.arg \in OrderStatuses
  BY <1>2 DEF OrderStatuses
<1>4. \/ ~ Exists(o) /\ UNCHANGED <<order, everPaid>>
      \/ /\ Exists(o)
         /\ order' = [order EXCEPT ![o] = new]
         /\ everPaid' = IF k.arg = "paid" THEN everPaid \cup {o} ELSE everPaid
  BY DEF SaveStatus
<1>5. Exists(o) => /\ new \in Row /\ new # NoRow /\ order[o] \in Row
                   /\ new.partner = order[o].partner
                   /\ new.status \in {k.arg, order[o].status}
  <2> SUFFICES ASSUME Exists(o)
               PROVE  /\ new \in Row /\ new # NoRow /\ order[o] \in Row
                      /\ new.partner = order[o].partner
                      /\ new.status \in {k.arg, order[o].status}
    OBVIOUS
  <2>1. order[o] \in Row
    BY <1>1, <1>2 DEF Exists
  <2>2. k.row \in Row
    BY <1>2
  <2>3. /\ new \in Row
        /\ new.partner = order[o].partner
        /\ new.status \in {k.arg, order[o].status}
    BY <1>3, <2>1, <2>2, MergedStatus
  <2> HIDE DEF new
  <2> QED
    BY <2>1, <2>3, NamesAssumption
<1> HIDE DEF new
<1>6. RowsGoOn /\ HistoriesGrow
  BY <1>1, <1>2, <1>4, <1>5 DEF RowsGoOn, HistoriesGrow, Exists
<1>7. ASSUME k.op = "pay" PROVE CallsOK'
  <2>1. Goto(c, "reread") /\ "reread" \in PCs \ {"save"}
    BY <1>7 DEF SaveStatus, PCs
  <2>2. order'[o] # NoRow => o \in everPaid'
    BY <1>1, <1>2, <1>4, <1>7 DEF CallOK, Exists
  <2>3. CallsOK'
    BY <1>1, <1>2, <1>6, <2>1, <2>2, CallGoesOn
  <2> QED
    BY <2>3
<1>8. ASSUME k.op = "complete" PROVE CallsOK'
  <2>1. Goto(c, "publish") /\ "publish" \in PCs \ {"save"}
    BY <1>8 DEF SaveStatus, PCs
  <2> QED
    BY <1>1, <1>6, <1>8, <2>1, CallGoesOn
<1>8a. ASSUME k.op \notin {"pay", "complete"} PROVE CallsOK'
  <2>1. End(c)
    BY <1>8a DEF SaveStatus
  <2> QED
    BY <1>1, <1>6, <2>1, CallEnds
<1>9. CallsOK'
  BY <1>7, <1>8, <1>8a
<1>10. RowsOK'
  <2>1. \A p \in Orders : order'[p] # NoRow =>
          /\ order[p] # NoRow /\ order'[p].partner = order[p].partner
          /\ order'[p].status = order[p].status \/
               order'[p].status \in {"paid", "completed"} \cup DriverStatuses
    BY <1>1, <1>2, <1>4, <1>5 DEF Exists
  <2> QED
    BY <1>1, <2>1 DEF IInv, RowsOK, AcceptedHasPartner, Exists
<1>11. HistoryOK'
  BY <1>1, <1>2, <1>4 DEF IInv, HistoryOK
<1>12. TypeOK'
  BY <1>1, <1>2, <1>4, <1>5, <1>9 DEF IInv, TypeOK, CallsOK
<1> QED
  BY <1>9, <1>10, <1>11, <1>12 DEF IInv

LEMMA QuietRequestStepKeeps ==
    ASSUME IInv, NEW c \in Callers, RereadRow(c) \/ RefuseCancel(c)
    PROVE  IInv'
<1>1. /\ c \in Slots /\ CallsOK
      /\ UNCHANGED <<rows, queues, news, crashes>> /\ UNCHANGED <<order, used, sent, everPaid>>
  BY DEF RereadRow, RefuseCancel, rows, queues, IInv, Slots
<1>2. RowsGoOn /\ HistoriesGrow
  BY <1>1 DEF RowsGoOn, HistoriesGrow
<1>3. \/ End(c)
      \/ /\ Goto(c, "publish") /\ "publish" \in PCs \ {"save"} /\ call[c].op # "idle"
         /\ call[c].order \in everPaid'
  BY <1>1 DEF RereadRow, RefuseCancel, At, PCs, CallsOK, CallOK, Exists
<1>4. CallsOK'
  BY <1>1, <1>2, <1>3, CallEnds, CallGoesOn
<1> QED
  BY <1>1, <1>4, TablesUnchanged

LEMMA PublishDriverMatchKeeps ==
    ASSUME IInv, NEW c \in Callers, PublishDriverMatch(c)
    PROVE  IInv'
<1>1. /\ c \in Slots /\ CallsOK /\ End(c)
      /\ UNCHANGED <<order, used, sent, everPaid, matchQueue, handled, crashes>>
      /\ UNCHANGED <<dropped, completing, answered, announced, delivered, told>>
      /\ searching \subseteq searching'
      /\ searching' \subseteq searching \cup {call[c].order}
      /\ call[c].order \in everPaid
  BY DEF PublishDriverMatch, At, rows, news, IInv, CallsOK, CallOK, Slots
<1>2. RowsGoOn /\ HistoriesGrow
  BY <1>1 DEF RowsGoOn, HistoriesGrow
<1>3. CallsOK'
  BY <1>1, <1>2, CallEnds
<1>4. RowsOK' /\ HistoryOK'
  BY <1>1 DEF IInv, RowsOK, HistoryOK, AcceptedHasPartner, Exists
<1>5. TypeOK'
  BY <1>1, <1>3 DEF IInv, TypeOK, CallsOK
<1> QED
  BY <1>3, <1>4, <1>5 DEF IInv

LEMMA DeleteRowKeeps ==
    ASSUME IInv, NEW c \in Callers, DeleteRow(c)
    PROVE  IInv'
<1>1. /\ c \in Slots /\ CallsOK /\ End(c)
      /\ order' = [order EXCEPT ![call[c].order] = NoRow]
      /\ order \in [Orders -> Row \cup {NoRow}]
      /\ UNCHANGED <<used, sent, everPaid, searching, matchQueue, handled, crashes>>
      /\ UNCHANGED <<dropped, completing, answered, announced, delivered, told>>
      /\ used \in SUBSET Orders
  BY DEF DeleteRow, queues, news, IInv, Slots, TypeOK
<1>2. RowsGoOn /\ HistoriesGrow
  BY <1>1 DEF RowsGoOn, HistoriesGrow
<1>3. CallsOK'
  BY <1>1, <1>2, CallEnds
<1>4. \A o \in Orders : order'[o] # NoRow => order'[o] = order[o]
  BY <1>1
<1>5. RowsOK' /\ HistoryOK'
  BY <1>1, <1>4 DEF IInv, RowsOK, HistoryOK, AcceptedHasPartner, Exists
<1>6. TypeOK'
  BY <1>1, <1>3 DEF IInv, TypeOK, CallsOK
<1> QED
  BY <1>3, <1>5, <1>6 DEF IInv

LEMMA DriverAcceptsKeeps ==
    ASSUME IInv, NEW o \in Orders, NEW d \in Drivers, DriverAccepts(o, d)
    PROVE  IInv'
<1>1. /\ CallsOK /\ o \in searching
      /\ sent' = sent \cup {<<o, d>>} /\ matchQueue' = matchQueue \cup {<<o, d>>}
      /\ UNCHANGED <<order, used, everPaid, searching, handled, call, crashes>>
      /\ UNCHANGED <<dropped, completing, answered, announced, delivered, told>>
  BY DEF DriverAccepts, rows, news, IInv
<1>2. RowsGoOn /\ HistoriesGrow
  BY <1>1 DEF RowsGoOn, HistoriesGrow
<1>3. CallsOK'
  BY <1>1, <1>2, NoCallChanges
<1>4. RowsOK' /\ HistoryOK'
  BY <1>1 DEF IInv, RowsOK, HistoryOK, AcceptedHasPartner, Exists
<1>5. TypeOK'
  BY <1>1, <1>3 DEF IInv, TypeOK, CallsOK
<1> QED
  BY <1>3, <1>4, <1>5 DEF IInv

LEMMA DeliverMatchedKeeps ==
    ASSUME IInv, NEW o \in Orders, NEW d \in Drivers, DeliverMatched(o, d)
    PROVE  IInv'
<1> DEFINE c == <<o, d>>
<1>1. /\ c \in Slots /\ c \notin Callers /\ CallsOK
      /\ UNCHANGED <<order, used, sent, everPaid>>
      /\ <<o, d>> \in sent /\ o \in used \cap Orders
      /\ Start(c, "matched", "find", o, d) /\ "matched" \in Ops \ {"idle"}
  BY NamesAssumption DEF DeliverMatched, Deliveries, rows, queues, IInv, HistoryOK, Slots, Ops
<1>2. CallsOK'
  BY <1>1, CallStarts
<1> QED
  BY <1>2, TablesUnchanged DEF DeliverMatched

LEMMA FindMatchedOrderKeeps ==
    ASSUME IInv, NEW c \in Deliveries, FindMatchedOrder(c)
    PROVE  IInv'
<1>1. /\ c \in Slots /\ CallsOK /\ call[c].op = "matched"
      /\ UNCHANGED <<order, used, sent, everPaid>>
      /\ order \in [Orders -> Row \cup {NoRow}] /\ used \in SUBSET Orders
      /\ order[call[c].order] # NoRow /\ "read" \in PCs \ {"save"}
  BY DEF FindMatchedOrder, Exists, rows, queues, IInv, TypeOK, Slots, PCs
<1>2. order[call[c].order] \in Row
  BY <1>1 DEF CallsOK, CallOK
<1>3. RowsGoOn /\ HistoriesGrow
  BY <1>1 DEF RowsGoOn, HistoriesGrow
<1>4. \/ Goto(c, "read")
      \/ Copy(c, "save")
  BY DEF FindMatchedOrder
<1>5. CallsOK'
  BY <1>1, <1>2, <1>3, <1>4, CallGoesOn, CallReads
<1> QED
  BY <1>5, TablesUnchanged DEF FindMatchedOrder

\* A message is acknowledged.
LEMMA AcknowledgeKeeps ==
    ASSUME IInv, NEW c \in Deliveries, MatchedOrderFails(c) \/ FinishMatched(c)
    PROVE  IInv'
<1>1. /\ c \in Slots /\ CallsOK /\ End(c)
      /\ UNCHANGED <<order, used, everPaid, searching, sent, handled, crashes>>
      /\ UNCHANGED <<completing, answered, announced, delivered, told>>
      /\ matchQueue' \subseteq matchQueue /\ dropped' \in SUBSET Orders
  <2>1. c \in Slots /\ CallsOK /\ dropped \in SUBSET Orders /\ used \in SUBSET Orders
    BY DEF IInv, Slots, TypeOK
  <2>2. call[c].op = "matched" => call[c].order \in Orders
    BY <2>1 DEF CallsOK, CallOK
  <2> QED
    BY <2>1, <2>2 DEF MatchedOrderFails, FinishMatched, At, Acknowledge, rows, news
<1>2. RowsGoOn /\ HistoriesGrow
  BY <1>1 DEF RowsGoOn, HistoriesGrow
<1>3. CallsOK'
  BY <1>1, <1>2, CallEnds
<1>4. RowsOK' /\ HistoryOK'
  BY <1>1 DEF IInv, RowsOK, HistoryOK, AcceptedHasPartner, Exists
<1>5. TypeOK'
  BY <1>1, <1>3 DEF IInv, TypeOK, CallsOK
<1> QED
  BY <1>3, <1>4, <1>5 DEF IInv

\* The row that AssignPartner leaves has a driver: the message's, or, if the
\* copy already had that one, whichever the row has by now.
LEMMA MergedPartner ==
    ASSUME NEW current \in Row, NEW copy \in Row, NEW driver \in Drivers,
           copy.partner # NoPartner => current.partner # NoPartner
    PROVE  LET new == Merge(current, copy, [status |-> "accepted", partner |-> driver]) IN
           /\ new \in Row
           /\ new.partner \in {driver, current.partner}
           /\ new.partner \in Drivers
BY NamesAssumption DEF Merge, Row, OrderStatuses

LEMMA AssignPartnerKeeps ==
    ASSUME IInv, NEW c \in Deliveries, AssignPartner(c)
    PROVE  IInv'
<1> DEFINE o == call[c].order
           k == call[c]
           new == Merge(order[o], k.row, [status |-> "accepted", partner |-> k.arg])
<1>1. /\ c \in Slots /\ CallsOK /\ k \in Call /\ k.op = "matched" /\ k.pc = "save"
      /\ CallOK(k, order, used, sent, everPaid)
      /\ order \in [Orders -> Row \cup {NoRow}] /\ used \in SUBSET Orders
      /\ UNCHANGED <<used, everPaid, matchQueue, searching, sent, crashes>>
      /\ UNCHANGED <<dropped, completing, answered, announced, delivered, told>>
      /\ Goto(c, "notify") /\ "notify" \in PCs \ {"save"}
  BY DEF AssignPartner, At, news, IInv, CallsOK, Slots, TypeOK, PCs
<1>2. /\ k.row \in Row /\ o \in used /\ o \in Orders
      /\ k.arg \in Drivers /\ <<o, k.arg>> \in sent
      /\ Exists(o) /\ k.row.partner # NoPartner => order[o].partner # NoPartner
  BY <1>1 DEF CallOK, Exists
<1>3. \/ ~ Exists(o) /\ UNCHANGED <<order, handled>>
      \/ /\ Exists(o)
         /\ order' = [order EXCEPT ![o] = new]
         /\ handled' = handled \cup {<<o, k.arg>>}
  BY DEF AssignPartner
<1>4. Exists(o) => /\ new \in Row /\ new # NoRow /\ order[o] \in Row
                   /\ new.partner \in {k.arg, order[o].partner}
                   /\ new.partner \in Drivers
  <2> SUFFICES ASSUME Exists(o)
               PROVE  /\ new \in Row /\ new # NoRow /\ order[o] \in Row
                      /\ new.partner \in {k.arg, order[o].partner}
                      /\ new.partner \in Drivers
    OBVIOUS
  <2>1. order[o] \in Row
    BY <1>1, <1>2 DEF Exists
  <2>2. k.row \in Row /\ k.arg \in Drivers
        /\ (k.row.partner # NoPartner => order[o].partner # NoPartner)
    BY <1>2
  <2>3. new \in Row /\ new.partner \in {k.arg, order[o].partner} /\ new.partner \in Drivers
    BY <2>1, <2>2, MergedPartner
  <2> HIDE DEF new
  <2> QED
    BY <2>1, <2>3, NamesAssumption
<1> HIDE DEF new
<1>5. RowsGoOn /\ HistoriesGrow
  BY <1>1, <1>2, <1>3, <1>4, NamesAssumption DEF RowsGoOn, HistoriesGrow, Exists
<1>6. CallsOK'
  BY <1>1, <1>5, CallGoesOn
<1>7. RowsOK'
  <2>1. CASE ~ Exists(o)
    BY <1>1, <1>3, <2>1 DEF IInv, RowsOK, AcceptedHasPartner, Exists
  <2>2. CASE Exists(o)
    <3>1. \A p \in Orders : p # o => order'[p] = order[p]
      BY <1>1, <1>3, <2>2
    <3>2. order'[o] = new /\ new.partner \in Drivers /\ new.partner # NoPartner
      BY <1>1, <1>2, <1>3, <1>4, <2>2, NamesAssumption
    <3>3. <<o, new.partner>> \in sent
      BY <1>2, <1>4, <2>2, <3>2, NamesAssumption DEF IInv, RowsOK
    <3>4. \A p \in Orders, d \in Drivers : p # o /\ <<p, d>> \in handled' => <<p, d>> \in handled
      BY <1>3, <2>2
    <3> QED
      BY <1>1, <1>2, <3>1, <3>2, <3>3, <3>4 DEF IInv, RowsOK, AcceptedHasPartner, Exists
  <2> QED
    BY <2>1, <2>2
<1>8. HistoryOK'
  BY <1>1, <1>2, <1>3 DEF IInv, HistoryOK
<1>9. TypeOK'
  BY <1>1, <1>2, <1>3, <1>4, <1>6 DEF IInv, TypeOK, CallsOK
<1> QED
  BY <1>6, <1>7, <1>8, <1>9 DEF IInv

LEMMA CrashKeeps ==
    ASSUME IInv, Crash
    PROVE  IInv'
<1>1. /\ CallOK(Idle, order', used', sent', everPaid') /\ Idle.op = "idle" /\ Idle \in Call
  BY DEF CallOK, Idle, Call, Ops, PCs
<1>2. call' = [c \in Slots |-> Idle]
  BY DEF Crash
<1>3. CallsOK'
  BY <1>1, <1>2 DEF CallsOK, Slots
<1>4. RowsOK' /\ HistoryOK'
  BY DEF Crash, rows, queues, IInv, RowsOK, HistoryOK, AcceptedHasPartner, Exists
<1>5. TypeOK'
  BY <1>3, NamesAssumption DEF Crash, rows, queues, news, IInv, TypeOK, CallsOK
<1> QED
  BY <1>3, <1>4, <1>5 DEF IInv

LEMMA PublishCompleteKeeps ==
    ASSUME IInv, NEW c \in Callers, PublishComplete(c) \/ PublishCompleteFails(c)
    PROVE  IInv'
<1> DEFINE o == call[c].order
<1>1. /\ c \in Slots /\ CallsOK /\ call[c].op = "complete"
      /\ UNCHANGED <<rows, queues, crashes>> /\ UNCHANGED <<order, used, sent, everPaid>>
      /\ End(c) \/ Goto(c, "announce")
      /\ "announce" \in PCs \ {"save"}
      /\ NewsTyped
  BY DEF PublishComplete, PublishCompleteFails, At, rows, queues, PCs, IInv, TypeOK,
         NewsTyped, Slots
<1>2. RowsGoOn /\ HistoriesGrow
  BY <1>1 DEF RowsGoOn, HistoriesGrow
<1>3. CallsOK'
  BY <1>1, <1>2, CallEnds, CallGoesOn
<1>4. o \in Orders
  BY <1>1 DEF IInv, TypeOK, CallsOK, CallOK
<1>5. ASSUME PublishComplete(c) PROVE NewsTyped'
  BY <1>1, <1>4, <1>5 DEF PublishComplete, NewsTyped
<1>6. ASSUME PublishCompleteFails(c) PROVE NewsTyped'
  BY <1>1, <1>6 DEF PublishCompleteFails, NewsTyped, news
<1>7. NewsTyped'
  BY <1>5, <1>6
<1> QED
  BY <1>1, <1>3, <1>7, TablesUnchanged

LEMMA HandleCompleteOrderKeeps ==
    ASSUME IInv, NEW o \in Orders, HandleCompleteOrder(o)
    PROVE  IInv'
<1>1. /\ CallsOK /\ UNCHANGED <<rows, queues, call, crashes>>
      /\ UNCHANGED <<order, used, sent, everPaid>>
  BY DEF HandleCompleteOrder, rows, queues, IInv
<1>2. CallsOK'
  BY <1>1 DEF CallsOK
<1>3. told' \in [Orders -> SUBSET Rooms]
  BY DEF HandleCompleteOrder, NotifyCompletion, Room, Rooms, IInv, TypeOK
<1>4. delivered' \in [Orders -> Nat] /\ UNCHANGED <<completing, answered, announced>>
  <2>1. delivered \in [Orders -> Nat]
    BY DEF IInv, TypeOK
  <2> QED
    BY <2>1 DEF HandleCompleteOrder
<1>5. NewsTyped'
  BY <1>3, <1>4 DEF NewsTyped, IInv, TypeOK
<1> QED
  BY <1>1, <1>2, <1>5, TablesUnchanged

LEMMA StepKeepsIInv == IInv /\ [Next]_vars => IInv'
<1> SUFFICES ASSUME IInv, [Next]_vars PROVE IInv'
  OBVIOUS
<1>1. ASSUME NEW c \in Callers, RequestStep(c) PROVE IInv'
  BY <1>1, ReadRowKeeps, SaveStatusKeeps, QuietRequestStepKeeps,
     PublishDriverMatchKeeps, PublishCompleteKeeps, DeleteRowKeeps DEF RequestStep
<1>2. ASSUME NEW c \in Deliveries, ConsumerStep(c) PROVE IInv'
  BY <1>2, FindMatchedOrderKeeps, AcknowledgeKeeps, AssignPartnerKeeps DEF ConsumerStep
<1>3. CASE UNCHANGED vars
  <2>1. UNCHANGED <<order, used, everPaid, rows, queues, news, sent, call, crashes>>
    BY <1>3 DEF vars, rows, queues
  <2>2. CallsOK'
    BY <2>1 DEF IInv, CallsOK
  <2> QED
    BY <2>1, <2>2, TablesUnchanged
<1> QED
  BY <1>1, <1>2, <1>3, CreateOrderKeeps, StartRequestKeeps, CompleteOrderKeeps, DriverAcceptsKeeps,
     DeliverMatchedKeeps, HandleCompleteOrderKeeps, CrashKeeps DEF Next

-----------------------------------------------------------------------------
\* The inductive invariant of the orders table.
THEOREM LifecycleInvariant == Spec => []IInv
BY InitHolds, StepKeepsIInv, PTL DEF Spec

\* The rows, calls and messages have their types.
THEOREM LifecycleTyped == Spec => []TypeOK
BY LifecycleInvariant, PTL DEF IInv

\* updateOrder and the handlers that save stale copies leave a matched order
\* with a driver who accepted it.
THEOREM MatchedOrderKeepsDriver == Spec => []AssignmentSticks
<1>1. IInv => AssignmentSticks
  BY DEF IInv, RowsOK, AssignmentSticks
<1> QED
  BY <1>1, LifecycleInvariant, PTL

\* partner_id names nobody but a driver who accepted, and only once the order
\* was paid and searched for.
THEOREM PartnersAccepted == Spec => []PartnerAccepted
<1>1. IInv => PartnerAccepted
  <2> SUFFICES ASSUME IInv, NEW o \in Orders, Exists(o), order[o].partner # NoPartner
               PROVE  <<o, order[o].partner>> \in sent /\ o \in searching \cap everPaid
    BY DEF PartnerAccepted
  <2>1. <<o, order[o].partner>> \in sent
    BY DEF IInv, RowsOK
  <2>2. order[o].partner \in Drivers
    BY DEF IInv, TypeOK, Exists, Row
  <2> QED
    BY <2>1, <2>2 DEF IInv, HistoryOK
<1> QED
  BY <1>1, LifecycleInvariant, PTL

\* The status "accepted" comes with a driver in the same row.
THEOREM AcceptedOrdersHavePartners == Spec => []AcceptedHasPartner
<1>1. IInv => AcceptedHasPartner
  BY DEF IInv, RowsOK
<1> QED
  BY <1>1, LifecycleInvariant, PTL

-----------------------------------------------------------------------------
(* The announcements of a completion *)

\* Counting: two sets that differ in at most one element.
LEMMA OneMore ==
    ASSUME NEW S, IsFiniteSet(S), NEW x, x \notin S
    PROVE  /\ Cardinality(S) \in Nat
           /\ Cardinality(S \cup {x}) = Cardinality(S) + 1
BY FS_AddElement, FS_CardinalityType

LEMMA OneLess ==
    ASSUME NEW S, IsFiniteSet(S), NEW x \in S
    PROVE  /\ Cardinality(S) \in Nat
           /\ Cardinality(S \ {x}) = Cardinality(S) - 1
           /\ Cardinality(S \ {x}) \in Nat
BY FS_RemoveElement, FS_CardinalityType

LEMMA NoMore ==
    ASSUME NEW S, IsFiniteSet(S), NEW T \in SUBSET S
    PROVE  Cardinality(T) \in Nat /\ Cardinality(S) \in Nat /\ Cardinality(T) <= Cardinality(S)
BY FS_Subset, FS_CardinalityType

\* There are finitely many requests at a time.
LEMMA RequestsFinite ==
    ASSUME NEW T \in SUBSET Callers
    PROVE  IsFiniteSet(T) /\ Cardinality(T) \in Nat
BY NamesAssumption, FS_Subset, FS_CardinalityType

LEMMA InitNews == Init => NewsOK
<1> SUFFICES ASSUME Init, NEW o \in Orders
             PROVE  /\ 2 * answered[o] + Cardinality(Halfway(o)) <= announced[o]
                    /\ announced[o] + 2 * Cardinality(Ahead(o)) + Cardinality(Halfway(o))
                         <= 2 * completing[o]
  BY DEF NewsOK
<1>1. Ahead(o) = {} /\ Halfway(o) = {}
  BY DEF Init, Ahead, Halfway, Slots, Idle
<1>2. Cardinality(Ahead(o)) = 0 /\ Cardinality(Halfway(o)) = 0
  BY <1>1, FS_EmptySet
<1>3. answered[o] = 0 /\ announced[o] = 0 /\ completing[o] = 0
  BY DEF Init
<1> QED
  BY <1>2, <1>3

\* A call is as far from its announcements as it was, or has given them up.
NoCloser(c) ==
    call'[c].op = "complete" =>
        /\ call[c].op = "complete" /\ call'[c].order = call[c].order
        /\ call'[c].pc \in {"read", "save", "publish"} =>
              call[c].pc \in {"read", "save", "publish"}
        /\ call'[c].pc = "announce" => call[c].pc = "announce"

\* What NewsOK says of one order, with numbers in place of the counts.
LEMMA Shrinks ==
    ASSUME NEW given \in Nat, NEW out \in Nat, NEW asked \in Nat,
           NEW h \in Nat, NEW a \in Nat, NEW h2 \in Nat, NEW a2 \in Nat,
           h2 <= h, a2 <= a, 2 * given + h <= out, out + 2 * a + h <= 2 * asked
    PROVE  2 * given + h2 <= out /\ out + 2 * a2 + h2 <= 2 * asked
OBVIOUS

LEMMA QuietKeepsNews ==
    ASSUME IInv, NewsOK, UNCHANGED <<completing, answered, announced>>,
           \A c \in Callers : NoCloser(c)
    PROVE  NewsOK'
<1> SUFFICES ASSUME NEW o \in Orders
             PROVE  /\ 2 * answered[o] + Cardinality(Halfway(o)') <= announced[o]
                    /\ announced[o] + 2 * Cardinality(Ahead(o)') + Cardinality(Halfway(o)')
                         <= 2 * completing[o]
  BY DEF NewsOK
<1>1. Halfway(o)' \subseteq Halfway(o) /\ Ahead(o)' \subseteq Ahead(o)
  BY DEF NoCloser, Halfway, Ahead
<1>2. IsFiniteSet(Halfway(o)) /\ IsFiniteSet(Ahead(o))
  BY RequestsFinite DEF Halfway, Ahead
<1>3. /\ Cardinality(Halfway(o)') <= Cardinality(Halfway(o))
      /\ Cardinality(Ahead(o)') <= Cardinality(Ahead(o))
      /\ Cardinality(Halfway(o)') \in Nat /\ Cardinality(Halfway(o)) \in Nat
      /\ Cardinality(Ahead(o)') \in Nat /\ Cardinality(Ahead(o)) \in Nat
  BY <1>1, <1>2, NoMore
<1>4. answered[o] \in Nat /\ announced[o] \in Nat /\ completing[o] \in Nat
  BY NamesAssumption DEF IInv, TypeOK
<1> QED
  BY <1>3, <1>4, Shrinks DEF NewsOK

\* The counts of the orders that one call does not concern.
LEMMA OtherCounts ==
    ASSUME IInv, NEW c \in Callers, NEW k, call' = [call EXCEPT ![c] = k],
           NEW o, call[c].op = "complete" => call[c].order # o,
           k.op = "complete" => k.order # o
    PROVE  Ahead(o)' = Ahead(o) /\ Halfway(o)' = Halfway(o)
<1>1. \A d \in Callers : call'[d] = IF d = c THEN k ELSE call[d]
  BY DEF IInv, TypeOK, Slots
<1> QED
  BY <1>1 DEF Ahead, Halfway

LEMMA CompleteOrderKeepsNews ==
    ASSUME IInv, NewsOK, NEW c \in Callers, NEW o \in used, CompleteOrder(c, o)
    PROVE  NewsOK'
<1> DEFINE k == [op |-> "complete", pc |-> "read", order |-> o, arg |-> "completed",
                 row |-> None]
<1>1. /\ call[c] = Idle /\ call' = [call EXCEPT ![c] = k] /\ o \in Orders
      /\ UNCHANGED <<answered, announced>>
      /\ completing' = [completing EXCEPT ![o] = @ + 1]
      /\ completing \in [Orders -> Nat] /\ answered \in [Orders -> Nat]
      /\ announced \in [Orders -> Nat]
  BY NamesAssumption DEF CompleteOrder, Start, IInv, TypeOK
<1>2. call[c].op # "complete" /\ k.op = "complete" /\ k.order = o /\ k.pc = "read"
  BY <1>1 DEF Idle
<1> HIDE DEF k
<1>3. \A d \in Callers : call'[d] = IF d = c THEN k ELSE call[d]
  BY <1>1 DEF IInv, TypeOK, Slots
<1>4. Halfway(o)' = Halfway(o) /\ Ahead(o)' = Ahead(o) \cup {c} /\ c \notin Ahead(o)
  BY <1>2, <1>3 DEF Halfway, Ahead
<1>5. /\ Cardinality(Ahead(o)') = Cardinality(Ahead(o)) + 1
      /\ Cardinality(Ahead(o)) \in Nat /\ Cardinality(Halfway(o)) \in Nat
  BY <1>4, OneMore, RequestsFinite DEF Ahead, Halfway
<1>6. ASSUME NEW p \in Orders
      PROVE  /\ 2 * answered'[p] + Cardinality(Halfway(p)') <= announced'[p]
             /\ announced'[p] + 2 * Cardinality(Ahead(p)') + Cardinality(Halfway(p)')
                  <= 2 * completing'[p]
  <2>1. CASE p = o
    <3>1. completing'[o] = completing[o] + 1
      BY <1>1
    <3>2. /\ 2 * answered'[o] + Cardinality(Halfway(o)') <= announced'[o]
          /\ announced'[o] + 2 * Cardinality(Ahead(o)') + Cardinality(Halfway(o)')
               <= 2 * completing'[o]
      BY <1>1, <1>4, <1>5, <3>1 DEF NewsOK
    <3> QED
      BY <2>1, <3>2 DEF Ahead, Halfway
  <2>2. CASE p # o
    <3>1. Ahead(p)' = Ahead(p) /\ Halfway(p)' = Halfway(p)
      BY <1>1, <1>2, <2>2, OtherCounts
    <3> QED
      BY <1>1, <2>2, <3>1 DEF NewsOK
  <2> QED
    BY <2>1, <2>2
<1> QED
  BY <1>6 DEF NewsOK

LEMMA PublishCompleteKeepsNews ==
    ASSUME IInv, NewsOK, NEW c \in Callers, PublishComplete(c)
    PROVE  NewsOK'
<1> SUFFICES ASSUME NEW o, o = call[c].order
             PROVE  NewsOK'
  OBVIOUS
<1>1. /\ call[c] \in Call /\ call[c].op = "complete" /\ o \in Orders
      /\ announced' = [announced EXCEPT ![o] = @ + 1] /\ UNCHANGED completing
      /\ completing \in [Orders -> Nat] /\ answered \in [Orders -> Nat]
      /\ announced \in [Orders -> Nat]
  <2>1. c \in Slots /\ CallOK(call[c], order, used, sent, everPaid)
    BY DEF IInv, CallsOK, Slots
  <2> QED
    BY <2>1, NamesAssumption DEF PublishComplete, At, CallOK, IInv, TypeOK
<1>2. /\ announced'[o] = announced[o] + 1
      /\ \A p \in Orders : p # o => announced'[p] = announced[p]
  BY <1>1
<1>3. /\ Cardinality(Ahead(o)) \in Nat /\ Cardinality(Halfway(o)) \in Nat
      /\ IsFiniteSet(Ahead(o)) /\ IsFiniteSet(Halfway(o))
  BY RequestsFinite DEF Ahead, Halfway
<1>4. ASSUME NEW k, call' = [call EXCEPT ![c] = k], k.op = "complete" => k.order = o,
             UNCHANGED answered \/ answered' = [answered EXCEPT ![o] = @ + 1],
             2 * answered'[o] + Cardinality(Halfway(o)') <= announced'[o],
             announced'[o] + 2 * Cardinality(Ahead(o)') + Cardinality(Halfway(o)')
                  <= 2 * completing[o]
      PROVE  NewsOK'
  <2>1. ASSUME NEW p \in Orders, p # o
        PROVE  /\ 2 * answered'[p] + Cardinality(Halfway(p)') <= announced'[p]
               /\ announced'[p] + 2 * Cardinality(Ahead(p)') + Cardinality(Halfway(p)')
                    <= 2 * completing[p]
    <3>1. Ahead(p)' = Ahead(p) /\ Halfway(p)' = Halfway(p)
      BY <1>1, <1>4, <2>1, OtherCounts
    <3>2. answered'[p] = answered[p] /\ announced'[p] = announced[p]
      BY <1>1, <1>2, <1>4, <2>1
    <3> QED
      BY <3>1, <3>2 DEF NewsOK
  <2>2. ASSUME NEW p \in Orders, p = o
        PROVE  /\ 2 * answered'[p] + Cardinality(Halfway(p)') <= announced'[p]
               /\ announced'[p] + 2 * Cardinality(Ahead(p)') + Cardinality(Halfway(p)')
                    <= 2 * completing[p]
    BY <1>4, <2>2 DEF Ahead, Halfway
  <2> QED
    BY <1>1, <2>1, <2>2 DEF NewsOK
<1>5. CASE call[c].pc = "publish"
  <2> DEFINE k == [call[c] EXCEPT !.pc = "announce", !.row = None]
  <2>1. call' = [call EXCEPT ![c] = k] /\ UNCHANGED answered
    BY <1>5 DEF PublishComplete, At, Goto
  <2>2. k.op = "complete" /\ k.order = o /\ k.pc = "announce"
    BY <1>1 DEF Call
  <2> HIDE DEF k
  <2>3. \A d \in Callers : call'[d] = IF d = c THEN k ELSE call[d]
    BY <2>1 DEF IInv, TypeOK, Slots
  <2>4. /\ Halfway(o)' = Halfway(o) \cup {c} /\ c \notin Halfway(o)
        /\ Ahead(o)' = Ahead(o) \ {c} /\ c \in Ahead(o)
    BY <1>1, <1>5, <2>2, <2>3 DEF Halfway, Ahead
  <2>5. /\ Cardinality(Halfway(o)') = Cardinality(Halfway(o)) + 1
        /\ Cardinality(Ahead(o)') = Cardinality(Ahead(o)) - 1
    BY <1>3, <2>4, OneMore, OneLess
  <2>6. /\ 2 * answered'[o] + Cardinality(Halfway(o)') <= announced'[o]
        /\ announced'[o] + 2 * Cardinality(Ahead(o)') + Cardinality(Halfway(o)')
             <= 2 * completing[o]
    BY <1>1, <1>2, <1>3, <2>1, <2>5 DEF NewsOK
  <2> QED
    BY <1>4, <2>1, <2>2, <2>6
<1>6. CASE call[c].pc = "announce"
  <2>1. call' = [call EXCEPT ![c] = Idle] /\ answered' = [answered EXCEPT ![o] = @ + 1]
    BY <1>6 DEF PublishComplete, At, End
  <2>2. Idle.op # "complete"
    BY DEF Idle
  <2>3. \A d \in Callers : call'[d] = IF d = c THEN Idle ELSE call[d]
    BY <2>1 DEF IInv, TypeOK, Slots
  <2>4. /\ Halfway(o)' = Halfway(o) \ {c} /\ c \in Halfway(o)
        /\ Ahead(o)' = Ahead(o)
    BY <1>1, <1>6, <2>2, <2>3 DEF Halfway, Ahead
  <2>5. Cardinality(Halfway(o)') = Cardinality(Halfway(o)) - 1
    BY <1>3, <2>4, OneLess
  <2>6. answered'[o] = answered[o] + 1
    BY <1>1, <2>1
  <2>7. /\ 2 * answered'[o] + Cardinality(Halfway(o)') <= announced'[o]
        /\ announced'[o] + 2 * Cardinality(Ahead(o)') + Cardinality(Halfway(o)')
             <= 2 * completing[o]
    BY <1>1, <1>2, <1>3, <2>4, <2>5, <2>6 DEF NewsOK
  <2> QED
    BY <1>4, <2>1, <2>2, <2>7
<1> QED
  BY <1>5, <1>6 DEF PublishComplete, At

\* No other step brings a call closer to its announcements.
LEMMA OthersNoCloser ==
    ASSUME IInv, Next, ~\E c \in Callers, o \in used : CompleteOrder(c, o),
           ~\E c \in Callers : PublishComplete(c)
    PROVE  /\ \A c \in Callers : NoCloser(c)
           /\ UNCHANGED <<completing, answered, announced>>
<1>1. /\ call \in [Slots -> Call] /\ Callers \subseteq Slots /\ Idle.op = "idle"
      /\ \A d \in Deliveries : d \notin Callers
  BY NamesAssumption DEF IInv, TypeOK, Slots, Idle
<1> USE DEF NoCloser
<1>2. ASSUME NEW c \in Callers, End(c) PROVE \A d \in Callers : NoCloser(d)
  BY <1>1, <1>2 DEF End
<1>3. ASSUME NEW c \in Callers, NEW pc, Goto(c, pc) \/ Copy(c, pc),
             call[c].op = "complete" =>
                 pc \in {"save", "publish"} /\ call[c].pc \in {"read", "save", "publish"}
      PROVE  \A d \in Callers : NoCloser(d)
  <2>1. PICK row : call' = [call EXCEPT ![c].pc = pc, ![c].row = row]
    BY <1>3 DEF Goto, Copy
  <2> DEFINE k == [call[c] EXCEPT !.pc = pc, !.row = row]
  <2>2. k.op = call[c].op /\ k.pc = pc /\ k.order = call[c].order
    BY <1>1 DEF Call
  <2>3. \A d \in Callers : call'[d] = IF d = c THEN k ELSE call[d]
    BY <1>1, <2>1
  <2> HIDE DEF k
  <2> QED
    BY <1>3, <2>2, <2>3
<1>4. ASSUME NEW c \in Callers, RequestStep(c)
      PROVE  (\A d \in Callers : NoCloser(d)) /\ UNCHANGED <<completing, answered, announced>>
  <2>1. CASE ReadRow(c)
    <3>1. \/ End(c)
          \/ call[c].op = "remove" /\ Goto(c, "delete")
          \/ call[c].op = "cancel" /\ Copy(c, "refused")
          \/ call[c].pc = "read" /\ Copy(c, "save")
      BY <2>1 DEF ReadRow
    <3>2. \A d \in Callers : NoCloser(d)
      BY <3>1, <1>2, <1>3
    <3> QED
      BY <2>1, <3>2 DEF ReadRow, news
  <2>2. CASE SaveStatus(c)
    <3>1. \/ End(c)
          \/ call[c].op = "pay" /\ Goto(c, "reread")
          \/ call[c].pc = "save" /\ Goto(c, "publish")
      BY <2>2 DEF SaveStatus
    <3>2. \A d \in Callers : NoCloser(d)
      BY <3>1, <1>2, <1>3
    <3> QED
      BY <2>2, <3>2 DEF SaveStatus, news
  <2>3. CASE RereadRow(c)
    <3>1. End(c) \/ (call[c].op = "pay" /\ Goto(c, "publish"))
      BY <2>3 DEF RereadRow, At
    <3>2. \A d \in Callers : NoCloser(d)
      BY <3>1, <1>2, <1>3
    <3> QED
      BY <2>3, <3>2 DEF RereadRow, news
  <2>4. CASE \/ PublishDriverMatch(c) \/ PublishCompleteFails(c) \/ RefuseCancel(c)
             \/ DeleteRow(c)
    BY <2>4, <1>2 DEF PublishDriverMatch, PublishCompleteFails, RefuseCancel, DeleteRow, news
  <2> QED
    BY <1>4, <2>1, <2>2, <2>3, <2>4 DEF RequestStep
<1>5. ASSUME NEW c \in Callers, NEW o \in Orders, StartRequest(c, o)
      PROVE  (\A d \in Callers : NoCloser(d)) /\ UNCHANGED <<completing, answered, announced>>
  <2>1. ASSUME NEW op \in {"pay", "mark", "status", "cancel", "remove"}, NEW arg,
               Start(c, op, "read", o, arg)
        PROVE  \A d \in Callers : NoCloser(d)
    BY <1>1, <2>1 DEF Start
  <2>2. \A d \in Callers : NoCloser(d)
    BY <1>5, <2>1 DEF StartRequest, ProcessPayment, MarkTransactionAsPaid,
       UpdateDriverStatus, CancelOrder, RemoveOrder
  <2> QED
    BY <1>5, <2>2 DEF StartRequest, news
<1>6. ASSUME NEW k \in Deliveries, ConsumerStep(k)
      PROVE  (\A d \in Callers : NoCloser(d)) /\ UNCHANGED <<completing, answered, announced>>
  <2>1. \A d \in Callers : call'[d] = call[d]
    BY <1>1, <1>6 DEF ConsumerStep, FindMatchedOrder, MatchedOrderFails,
       AssignPartner, FinishMatched, Acknowledge, Goto, Copy, End
  <2>2. UNCHANGED <<completing, answered, announced>>
    BY <1>6 DEF ConsumerStep, FindMatchedOrder, MatchedOrderFails, AssignPartner,
       FinishMatched, news
  <2> QED
    BY <2>1, <2>2
<1>7. ASSUME NEW o \in Orders, NEW d \in Drivers, DeliverMatched(o, d)
      PROVE  (\A e \in Callers : NoCloser(e)) /\ UNCHANGED <<completing, answered, announced>>
  <2>1. \A e \in Callers : call'[e] = call[e]
    <3>1. <<o, d>> \notin Callers
      BY <1>1 DEF Deliveries
    <3> QED
      BY <1>1, <1>7, <3>1 DEF DeliverMatched, Start
  <2> QED
    BY <1>7, <2>1 DEF DeliverMatched, news
<1>8. ASSUME \/ \E o \in Orders : CreateOrder(o)
             \/ \E o \in Orders, d \in Drivers : DriverAccepts(o, d)
             \/ \E o \in Orders : HandleCompleteOrder(o)
      PROVE  (\A d \in Callers : NoCloser(d)) /\ UNCHANGED <<completing, answered, announced>>
  BY <1>8 DEF CreateOrder, DriverAccepts, HandleCompleteOrder, news
<1>9. ASSUME Crash
      PROVE  (\A d \in Callers : NoCloser(d)) /\ UNCHANGED <<completing, answered, announced>>
  BY <1>1, <1>9 DEF Crash, news
<1> QED
  BY <1>4, <1>5, <1>6, <1>7, <1>8, <1>9 DEF Next

LEMMA StepKeepsNews == IInv /\ NewsOK /\ [Next]_vars => NewsOK'
<1> SUFFICES ASSUME IInv, NewsOK, [Next]_vars PROVE NewsOK'
  OBVIOUS
<1>1. CASE Next
  BY <1>1, CompleteOrderKeepsNews, PublishCompleteKeepsNews, OthersNoCloser, QuietKeepsNews
<1>2. CASE UNCHANGED vars
  BY <1>2 DEF vars, news, NewsOK, Halfway, Ahead
<1> QED
  BY <1>1, <1>2

\* A client that was answered "is marked as complete" had the completion
\* announced twice, and no request announces it more often.
THEOREM CompletionsAnnounced == Spec => []AnnouncedTwicePerRequest
<1>1. IInv /\ NewsOK => AnnouncedTwicePerRequest
  <2> SUFFICES ASSUME IInv, NewsOK, NEW o \in Orders
               PROVE  2 * answered[o] <= announced[o] /\ announced[o] <= 2 * completing[o]
    BY DEF AnnouncedTwicePerRequest
  <2>1. Cardinality(Halfway(o)) \in Nat /\ Cardinality(Ahead(o)) \in Nat
    BY RequestsFinite DEF Halfway, Ahead
  <2>2. answered[o] \in Nat /\ announced[o] \in Nat /\ completing[o] \in Nat
    BY NamesAssumption DEF IInv, TypeOK
  <2> QED
    BY <2>1, <2>2 DEF NewsOK
<1> QED
  BY <1>1, InitNews, StepKeepsNews, LifecycleInvariant, PTL DEF Spec

-----------------------------------------------------------------------------
(***************************************************************************)
(* The safety part of ImplementsAssignment: the table of orders, with all  *)
(* its writers, implements OrderAssignment!SafeSpec.                       *)
(*                                                                         *)
(* Most steps leave rows and histories alone and map to a stutter.  Each   *)
(* step that does not maps to one abstract step, because of what the       *)
(* invariant knows of calls: a published search was paid for, an assigned  *)
(* driver accepted, and a save of a stale copy leaves the partner alone.   *)
(***************************************************************************)

\* What the abstract machine sees.
seen == <<Stage, Partner, everPaid, searching, sent, dropped>>

-----------------------------------------------------------------------------
LEMMA InitImplements == Init => Assignment!Init
<1> SUFFICES ASSUME Init PROVE Assignment!Init
  OBVIOUS
<1>1. \A o \in Orders : ~ Exists(o) /\ o \notin used
  BY DEF Init, Exists
<1>2. Stage = [o \in Orders |-> "none"] /\ Partner = [o \in Orders |-> NoPartner]
  BY <1>1 DEF Stage, Partner
<1> QED
  BY <1>2 DEF Init, Assignment!Init

\* Rows that stay as they are look the same.
LEMMA SameTable ==
    ASSUME UNCHANGED <<order, used>>
    PROVE  UNCHANGED <<Stage, Partner>>
BY DEF Stage, Partner, Exists

\* One row that stays a row changes at most its own partner.
LEMMA OneRowChanges ==
    ASSUME IInv, NEW o \in Orders, Exists(o), NEW new \in Row,
           order' = [order EXCEPT ![o] = new], UNCHANGED used
    PROVE  /\ Stage' = Stage
           /\ Partner' = [Partner EXCEPT ![o] = new.partner]
<1>1. new # NoRow /\ order \in [Orders -> Row \cup {NoRow}]
  BY NamesAssumption DEF IInv, TypeOK
<1>2. order'[o] = new /\ \A p \in Orders : p # o => order'[p] = order[p]
  BY <1>1
<1>3. \A p \in Orders : Exists(p)' <=> Exists(p)
  BY <1>1, <1>2 DEF Exists
<1>4. Stage' = Stage
  BY <1>3 DEF Stage
<1>5. Partner' = [p \in Orders |-> IF p = o THEN new.partner ELSE Partner[p]]
  BY <1>2, <1>3 DEF Partner
<1> QED
  BY <1>4, <1>5 DEF Partner

-----------------------------------------------------------------------------
LEMMA CreateOrderImplements ==
    ASSUME IInv, NEW o \in Orders, CreateOrder(o)
    PROVE  Assignment!Place(o)
<1> DEFINE new == [status |-> "pending", partner |-> NoPartner]
<1>1. /\ o \notin used /\ used' = used \cup {o}
      /\ order' = [order EXCEPT ![o] = new]
      /\ order \in [Orders -> Row \cup {NoRow}]
      /\ UNCHANGED <<everPaid, searching, sent, dropped>>
  BY DEF CreateOrder, queues, IInv, TypeOK
<1>2. ~ Exists(o)
  BY <1>1 DEF IInv, RowsOK
<1>3. new \in Row /\ new # NoRow
  BY NamesAssumption DEF Row, OrderStatuses
<1>4. /\ order'[o] = new
      /\ \A p \in Orders : p # o => order'[p] = order[p] /\ (p \in used' <=> p \in used)
  BY <1>1
<1>5. Stage[o] = "none" /\ Partner[o] = NoPartner
  BY <1>1, <1>2 DEF Stage, Partner
<1>6. Stage' = [p \in Orders |-> IF p = o THEN "open" ELSE Stage[p]]
  BY <1>1, <1>3, <1>4 DEF Stage, Exists
<1>7. Stage' = [Stage EXCEPT ![o] = "open"]
  BY <1>6 DEF Stage
<1>8. Partner' = Partner
  BY <1>2, <1>3, <1>4 DEF Partner, Exists
<1> QED
  BY <1>1, <1>5, <1>7, <1>8 DEF Assignment!Place

\* A save of a status is a payment, or nothing.
LEMMA SaveStatusImplements ==
    ASSUME IInv, NEW c \in Callers, SaveStatus(c)
    PROVE  UNCHANGED seen \/ \E o \in Orders : Assignment!Pay(o)
<1> DEFINE o == call[c].order
           k == call[c]
           new == Merge(order[o], k.row, [k.row EXCEPT !.status = k.arg])
<1>1. /\ CallOK(k, order, used, sent, everPaid) /\ k.pc = "save" /\ k.op # "matched"
      /\ order \in [Orders -> Row \cup {NoRow}] /\ used \in SUBSET Orders
      /\ UNCHANGED <<used, searching, sent, dropped>>
  BY DEF SaveStatus, queues, IInv, CallsOK, Slots, TypeOK
<1>2. k.row \in Row /\ o \in Orders /\ k.arg \in OrderStatuses
  BY <1>1 DEF CallOK, OrderStatuses
<1>3. CASE ~ Exists(o)
  <2>1. UNCHANGED <<order, everPaid>>
    BY <1>3 DEF SaveStatus
  <2> QED
    BY <1>1, <2>1, SameTable DEF seen
<1>4. CASE Exists(o)
  <2>1. order' = [order EXCEPT ![o] = new]
        /\ everPaid' = IF k.arg = "paid" THEN everPaid \cup {o} ELSE everPaid
    BY <1>4 DEF SaveStatus
  <2>2. order[o] \in Row
    BY <1>1, <1>2, <1>4 DEF Exists
  <2>3. new \in Row /\ new.partner = order[o].partner
    BY <1>2, <2>2, MergedStatus
  <2>4. Stage' = Stage /\ Partner' = [Partner EXCEPT ![o] = new.partner]
    BY <1>1, <1>2, <1>4, <2>1, <2>3, OneRowChanges
  <2>5. Partner[o] = new.partner /\ Stage[o] = "open"
    BY <1>2, <1>4, <2>3 DEF Partner, Stage
  <2>6. Partner' = Partner
    BY <1>2, <2>4, <2>5 DEF Partner
  <2>7. CASE k.arg = "paid"
    <3>1. Assignment!Pay(o)
      BY <1>1, <2>1, <2>4, <2>5, <2>6, <2>7 DEF Assignment!Pay
    <3> QED
      BY <1>2, <3>1
  <2>8. CASE k.arg # "paid"
    BY <1>1, <2>1, <2>4, <2>6, <2>8 DEF seen
  <2> QED
    BY <2>7, <2>8
<1> QED
  BY <1>3, <1>4

\* driver.match is published for orders that were paid.
LEMMA PublishImplements ==
    ASSUME IInv, NEW c \in Callers, PublishDriverMatch(c)
    PROVE  UNCHANGED seen \/ \E o \in Orders : Assignment!Search(o)
<1> DEFINE o == call[c].order
<1>1. /\ CallOK(call[c], order, used, sent, everPaid)
      /\ call[c].op = "pay" /\ call[c].pc = "publish"
      /\ used \in SUBSET Orders
      /\ UNCHANGED <<order, used, everPaid, sent, dropped>>
  BY DEF PublishDriverMatch, At, rows, IInv, CallsOK, Slots, TypeOK
<1>2. o \in everPaid /\ o \in Orders
  BY <1>1 DEF CallOK
<1>3. UNCHANGED <<Stage, Partner>>
  BY <1>1, SameTable
<1>4. CASE searching' = searching \cup {o}
  BY <1>1, <1>2, <1>3, <1>4 DEF Assignment!Search
<1>5. CASE UNCHANGED searching
  BY <1>1, <1>3, <1>5 DEF seen
<1> QED
  BY <1>4, <1>5 DEF PublishDriverMatch

\* A deletion removes the order, or finds it removed.
LEMMA DeleteRowImplements ==
    ASSUME IInv, NEW c \in Callers, DeleteRow(c)
    PROVE  UNCHANGED seen \/ \E o \in Orders : Assignment!Remove(o)
<1> DEFINE o == call[c].order
<1>1. /\ CallOK(call[c], order, used, sent, everPaid) /\ call[c].op = "remove"
      /\ order' = [order EXCEPT ![o] = NoRow]
      /\ order \in [Orders -> Row \cup {NoRow}] /\ used \in SUBSET Orders
      /\ UNCHANGED <<used, everPaid, searching, sent, dropped>>
  BY DEF DeleteRow, At, queues, IInv, CallsOK, Slots, TypeOK
<1>2. o \in used /\ o \in Orders
  BY <1>1 DEF CallOK
<1>3. order'[o] = NoRow /\ \A p \in Orders : p # o => order'[p] = order[p]
  BY <1>1, <1>2
<1>4. CASE Exists(o)
  <2>1. Stage[o] = "open"
    BY <1>2, <1>4 DEF Stage
  <2>2. Stage' = [p \in Orders |-> IF p = o THEN "removed" ELSE Stage[p]]
    BY <1>1, <1>2, <1>3 DEF Stage, Exists
  <2>3. Partner' = [p \in Orders |-> IF p = o THEN NoPartner ELSE Partner[p]]
    BY <1>3 DEF Partner, Exists
  <2>4. Stage' = [Stage EXCEPT ![o] = "removed"] /\ Partner' = [Partner EXCEPT ![o] = NoPartner]
    BY <2>2, <2>3 DEF Stage, Partner
  <2>5. Assignment!Remove(o)
    BY <1>1, <2>1, <2>4 DEF Assignment!Remove
  <2> QED
    BY <1>2, <2>5
<1>5. CASE ~ Exists(o)
  <2>1. order' = order
    BY <1>1, <1>2, <1>5 DEF Exists
  <2> QED
    BY <1>1, <2>1, SameTable DEF seen
<1> QED
  BY <1>4, <1>5

LEMMA DriverAcceptsImplements ==
    ASSUME IInv, NEW o \in Orders, NEW d \in Drivers, DriverAccepts(o, d)
    PROVE  Assignment!Accept(o, d)
<1>1. UNCHANGED <<order, used, everPaid>>
  BY DEF DriverAccepts, rows
<1>2. UNCHANGED <<Stage, Partner>>
  BY <1>1, SameTable
<1> QED
  BY <1>1, <1>2 DEF DriverAccepts, Assignment!Accept

\* updateOrder assigns the driver of the message, or, when the copy had that
\* driver already, leaves whichever driver the row has.
LEMMA AssignPartnerImplements ==
    ASSUME IInv, NEW c \in Deliveries, AssignPartner(c)
    PROVE  UNCHANGED seen \/ \E o \in Orders, d \in Drivers : Assignment!Assign(o, d)
<1> DEFINE o == call[c].order
           k == call[c]
           new == Merge(order[o], k.row, [status |-> "accepted", partner |-> k.arg])
<1>1. /\ CallOK(k, order, used, sent, everPaid) /\ k.op = "matched" /\ k.pc = "save"
      /\ order \in [Orders -> Row \cup {NoRow}] /\ used \in SUBSET Orders
      /\ UNCHANGED <<used, everPaid, searching, sent, dropped>>
  BY DEF AssignPartner, At, IInv, CallsOK, Slots, TypeOK
<1>2. /\ k.row \in Row /\ o \in used /\ o \in Orders
      /\ k.arg \in Drivers /\ <<o, k.arg>> \in sent
      /\ Exists(o) /\ k.row.partner # NoPartner => order[o].partner # NoPartner
  BY <1>1 DEF CallOK, Exists
<1>3. CASE ~ Exists(o)
  <2>1. UNCHANGED order
    BY <1>3 DEF AssignPartner
  <2> QED
    BY <1>1, <2>1, SameTable DEF seen
<1>4. CASE Exists(o)
  <2>1. order' = [order EXCEPT ![o] = new]
    BY <1>4 DEF AssignPartner
  <2>2. order[o] \in Row
    BY <1>1, <1>2, <1>4 DEF Exists
  <2>3. new \in Row /\ new.partner \in {k.arg, order[o].partner}
    BY <1>2, <1>4, <2>2, MergedPartner
  <2>4. Stage' = Stage /\ Partner' = [Partner EXCEPT ![o] = new.partner]
    BY <1>1, <1>2, <1>4, <2>1, <2>3, OneRowChanges
  <2>5. Stage[o] = "open" /\ Partner[o] = order[o].partner
    BY <1>2, <1>4 DEF Stage, Partner
  <2>6. CASE new.partner = k.arg
    <3>1. Assignment!Assign(o, k.arg)
      BY <1>1, <1>2, <2>4, <2>5, <2>6 DEF Assignment!Assign
    <3> QED
      BY <1>2, <3>1
  <2>7. CASE new.partner = order[o].partner
    <3>1. Partner' = Partner
      BY <1>2, <2>4, <2>5, <2>7 DEF Partner
    <3> QED
      BY <1>1, <2>4, <3>1 DEF seen
  <2> QED
    BY <2>3, <2>6, <2>7
<1> QED
  BY <1>3, <1>4

\* A handler that fails loses the news of an acceptance.
LEMMA MatchedOrderFailsImplements ==
    ASSUME IInv, NEW c \in Deliveries, MatchedOrderFails(c)
    PROVE  \E o \in Orders : Assignment!Lose(o)
<1>1. /\ CallOK(call[c], order, used, sent, everPaid) /\ call[c].op = "matched"
      /\ used \in SUBSET Orders
      /\ UNCHANGED <<order, used, everPaid, searching, sent>>
      /\ dropped' = dropped \cup {call[c].order}
  BY DEF MatchedOrderFails, rows, IInv, CallsOK, Slots, TypeOK
<1>2. call[c].order \in Orders /\ \E d \in Drivers : <<call[c].order, d>> \in sent
  BY <1>1 DEF CallOK
<1>3. UNCHANGED <<Stage, Partner>>
  BY <1>1, SameTable
<1> QED
  BY <1>1, <1>2, <1>3 DEF Assignment!Lose

\* The other steps touch nothing the abstract machine sees.
LEMMA OthersStutter ==
    ASSUME UNCHANGED <<order, used, everPaid, searching, sent, dropped>>
    PROVE  UNCHANGED seen
BY SameTable DEF seen

LEMMA StepImplements == IInv /\ [Next]_vars => [Assignment!Next]_seen
<1> SUFFICES ASSUME IInv, [Next]_vars PROVE Assignment!Next \/ UNCHANGED seen
  OBVIOUS
<1> USE DEF Assignment!Next
<1>1. ASSUME NEW o \in Orders, CreateOrder(o) PROVE Assignment!Next
  BY <1>1, CreateOrderImplements
<1>2. ASSUME NEW c \in Callers, NEW o \in Orders, StartRequest(c, o) PROVE UNCHANGED seen
  BY <1>2, OthersStutter DEF StartRequest, rows, queues
<1>2a. ASSUME NEW c \in Callers, NEW o \in used, CompleteOrder(c, o) PROVE UNCHANGED seen
  BY <1>2a, OthersStutter DEF CompleteOrder, rows, queues
<1>3. ASSUME NEW c \in Callers, RequestStep(c) PROVE Assignment!Next \/ UNCHANGED seen
  <2>1. CASE ReadRow(c) \/ RereadRow(c) \/ RefuseCancel(c)
    BY <2>1, OthersStutter DEF ReadRow, RereadRow, RefuseCancel, rows, queues
  <2>2. CASE SaveStatus(c)
    BY <2>2, SaveStatusImplements
  <2>3. CASE PublishDriverMatch(c)
    BY <2>3, PublishImplements
  <2>4. CASE DeleteRow(c)
    BY <2>4, DeleteRowImplements
  <2>5. CASE PublishComplete(c) \/ PublishCompleteFails(c)
    BY <2>5, OthersStutter DEF PublishComplete, PublishCompleteFails, rows, queues
  <2> QED
    BY <1>3, <2>1, <2>2, <2>3, <2>4, <2>5 DEF RequestStep
<1>4. ASSUME NEW o \in Orders, NEW d \in Drivers, DriverAccepts(o, d) PROVE Assignment!Next
  BY <1>4, DriverAcceptsImplements
<1>5. ASSUME NEW o \in Orders, NEW d \in Drivers, DeliverMatched(o, d)
      PROVE  UNCHANGED seen
  BY <1>5, OthersStutter DEF DeliverMatched, rows, queues
<1>6. ASSUME NEW c \in Deliveries, ConsumerStep(c) PROVE Assignment!Next \/ UNCHANGED seen
  <2>1. CASE FindMatchedOrder(c) \/ FinishMatched(c)
    BY <2>1, OthersStutter DEF FindMatchedOrder, FinishMatched, rows, queues
  <2>2. CASE AssignPartner(c)
    BY <2>2, AssignPartnerImplements
  <2>3. CASE MatchedOrderFails(c)
    BY <2>3, MatchedOrderFailsImplements
  <2> QED
    BY <1>6, <2>1, <2>2, <2>3 DEF ConsumerStep
<1>7. ASSUME Crash \/ \E o \in Orders : HandleCompleteOrder(o) PROVE UNCHANGED seen
  BY <1>7, OthersStutter DEF Crash, HandleCompleteOrder, rows, queues
<1>8. CASE UNCHANGED vars
  BY <1>8, OthersStutter DEF vars, rows, queues
<1> QED
  BY <1>1, <1>2, <1>2a, <1>3, <1>4, <1>5, <1>6, <1>7, <1>8 DEF Next

-----------------------------------------------------------------------------
\* The table of orders with its handlers, consumers and restarts
\* (order.service.ts, notification.service.ts:20) moves only as OrderAssignment
\* allows: the safety part of ImplementsAssignment.
THEOREM OrdersImplementAssignment == Spec => Assignment!SafeSpec
<1>1. [Assignment!Next]_seen => [Assignment!Next]_(Assignment!vars)
  BY DEF seen, Assignment!vars
<1> QED
  BY <1>1, InitImplements, StepImplements, LifecycleInvariant, PTL
     DEF Spec, Assignment!SafeSpec
=============================================================================
