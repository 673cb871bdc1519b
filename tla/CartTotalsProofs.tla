--------------------------- MODULE CartTotalsProofs ---------------------------
(***************************************************************************)
(* What orders, quotes and carts amount to: OrderChargesItsItems,          *)
(* QuoteHolds and TotalMatchesItems.                                       *)
(*                                                                         *)
(* Priced says what the sum of a call under way is: the price of the lines *)
(* that were looked up and found.  Orders and quotes take the sum when no  *)
(* line is left.                                                           *)
(*                                                                         *)
(* TotalsKept says how far the total of a cart is while one call is at     *)
(* work on it: it is 0 as long as the cart is empty, the call's sum is     *)
(* that of the items once they are inserted, and of those it found when it *)
(* edits one (CallTotal).  Two calls on one cart have disturbed it         *)
(* (Apart), and a cart without a call has the total of its items           *)
(* (Matched).  That other steps leave cart and items alone rests on how    *)
(* ids are given out, and on items never coming back to the catalogue      *)
(* (Known, Ages).                                                          *)
(***************************************************************************)
EXTENDS CartsProofs

\* What the lines cost one by one: what addToCartItem charges, what a quote tells.
Charges(lines) == [n \in DOMAIN lines |-> UnitPrice(lines[n]) * lines[n].qty]
Offers(lines) == [n \in DOMAIN lines |-> Price[lines[n].item] * lines[n].qty]

\* The same, with nothing for the lines of S.
Without(w, S) == [n \in DOMAIN w |-> IF n \in S THEN 0 ELSE w[n]]

\* The sum so far is the price of the lines that were found.
CallPriced(k) ==
    /\ k.op \in {"order", "cart"} =>
          k.sum = SumFunction(Without(Charges(k.lines), k.left))
    /\ k.op = "quote" =>
          k.sum = SumFunction(Without(Offers(k.lines), k.left \cup k.missing))

\* That of all calls, and of what customers were told.
CallsPriced == \A s \in Callers : CallPriced(call[s])

QuotePriced(q) == q.total = SumFunction(Without(Offers(q.basket), q.missing))

QuotesPriced == \A q \in quotes : QuotePriced(q)

Priced == CallsPriced /\ OrderChargesItsItems /\ QuotesPriced

LEMMA BasketPrices ==
    ASSUME NEW b \in Baskets
    PROVE  /\ IsFiniteSet(DOMAIN b)
           /\ Charges(b) \in [DOMAIN b -> Int] /\ Offers(b) \in [DOMAIN b -> Int]
           /\ \A n \in DOMAIN b :
                 /\ Charges(b)[n] = UnitPrice(b[n]) * b[n].qty
                 /\ Offers(b)[n] = Price[b[n].item] * b[n].qty
                 /\ b[n].qty >= 0 => 0 <= Offers(b)[n] /\ Offers(b)[n] <= Charges(b)[n]
                 /\ b[n].variant = None => Offers(b)[n] = Charges(b)[n]
<1>1. IsFiniteSet(DOMAIN b)
  BY BasketFacts
<1>2. ASSUME NEW n \in DOMAIN b
      PROVE  /\ UnitPrice(b[n]) * b[n].qty \in Int
             /\ Price[b[n].item] * b[n].qty \in Int
             /\ b[n].qty >= 0 =>
                   /\ 0 <= Price[b[n].item] * b[n].qty
                   /\ Price[b[n].item] * b[n].qty <= UnitPrice(b[n]) * b[n].qty
             /\ b[n].variant = None => UnitPrice(b[n]) = Price[b[n].item]
  <2> DEFINE line == b[n]
  <2> DEFINE p == Price[line.item]
  <2> DEFINE u == UnitPrice(line)
  <2> DEFINE q == line.qty
  <2>1. line \in Line
    BY BasketFacts
  <2> HIDE DEF line
  <2>2. /\ p \in Nat /\ u \in Nat /\ q \in Int /\ p <= u
        /\ line.variant = None => u = p
    BY <2>1, PriceFacts DEF Line
  <2> HIDE DEF p, u, q
  <2>3. u * q \in Int /\ p * q \in Int
    BY <2>2
  <2>4. ASSUME q >= 0 PROVE 0 <= p * q /\ p * q <= u * q
    <3>1. (u - p) * q >= 0 /\ p * q >= 0
      BY <2>2, <2>4
    <3>2. (u - p) * q = u * q - p * q
      BY <2>2
    <3>3. QED BY <2>3, <3>1, <3>2
  <2>5. QED BY <2>2, <2>3, <2>4 DEF line, p, u, q
<1>3. QED BY <1>1, <1>2 DEF Charges, Offers

-----------------------------------------------------------------------------
\* The sum of the lines that were looked up, when one more is.
LEMMA WithoutType ==
    ASSUME NEW D, NEW w \in [D -> Int], NEW S
    PROVE  Without(w, S) \in [D -> Int]
BY DEF Without

\* One more line counts.
LEMMA OneMore ==
    ASSUME NEW D, IsFiniteSet(D), NEW w \in [D -> Int], NEW S, NEW n \in D, n \in S
    PROVE  SumFunction(Without(w, S \ {n})) = SumFunction(Without(w, S)) + w[n]
<1> DEFINE u == Without(w, S)
<1> DEFINE v == Without(w, S \ {n})
<1>1. u \in [D -> Int] /\ v \in [D -> Int]
  BY WithoutType
<1>2. u[n] = 0 /\ v[n] = w[n] /\ \A m \in D \ {n} : u[m] = v[m]
  BY DEF Without
<1> HIDE DEF u, v
<1>3. SumFunction(v) = SumFunction(u) - u[n] + v[n]
  BY <1>1, <1>2, SumChanges
<1>4. SumFunction(u) \in Int /\ w[n] \in Int
  BY <1>1, SumType
<1>5. SumFunction(v) = SumFunction(u) + w[n]
  BY <1>2, <1>3, <1>4
<1>6. QED BY <1>5 DEF u, v

LEMMA NothingYet ==
    ASSUME NEW D, IsFiniteSet(D), NEW w \in [D -> Int], NEW S, D \subseteq S
    PROVE  SumFunction(Without(w, S)) = 0
<1>1. /\ Without(w, S) \in [D -> Int]
      /\ \A n \in D : Without(w, S)[n] = 0
  BY DEF Without
<1>2. QED BY <1>1, SumOfZeros

LEMMA NothingLeft ==
    ASSUME NEW D, NEW w \in [D -> Int]
    PROVE  Without(w, {}) = w
BY DEF Without

-----------------------------------------------------------------------------
\* The prices stay right: one call moves, and stores nothing, or what it has summed up.
LEMMA PricedGoesOn ==
    ASSUME CallsPriced, NEW s \in Callers,
           \A t \in Callers \ {s} : call'[t] = call[t], CallPriced(call'[s])
    PROVE  CallsPriced'
BY DEF CallsPriced

LEMMA PricedEnds ==
    ASSUME CallsTyped, CallsPriced, NEW s \in Callers, End(s)
    PROVE  CallsPriced'
<1>1. \A t \in Callers \ {s} : call'[t] = call[t]
  BY DEF End, CallsTyped
<1>2. call'[s] = Idle
  BY DEF End, CallsTyped
<1>3. CallPriced(call'[s])
  BY <1>2 DEF CallPriced, Idle
<1>4. QED BY <1>1, <1>3, PricedGoesOn

LEMMA StoredPricedStay ==
    ASSUME Priced, UNCHANGED <<orders, quotes>>, CallsPriced'
    PROVE  Priced'
BY DEF Priced, OrderChargesItsItems, QuotesPriced

LEMMA FillCartPriced ==
    ASSUME Typed, Priced, NEW s \in Callers, NEW op \in {"order", "cart"},
           NEW u \in Customers, NEW b \in Baskets, FillCart(s, op, u, b)
    PROVE  Priced'
<1> DEFINE k == [Idle EXCEPT !.op = op, !.pc = IF b = <<>> THEN "insert" ELSE "price",
                   !.customer = u, !.cart = carts', !.lines = b, !.left = DOMAIN b]
<1>1. UNCHANGED <<orders, quotes>> /\ call' = [call EXCEPT ![s] = k]
  BY DEF FillCart, books
<1>2. k.op = op /\ k.lines = b /\ k.left = DOMAIN b /\ k.sum = 0
  BY DEF Idle
<1> HIDE DEF k
<1>3. \A t \in Callers \ {s} : call'[t] = call[t]
  BY <1>1 DEF Typed, CallsTyped
<1>4. call'[s] = k
  BY <1>1 DEF Typed, CallsTyped
<1>5. SumFunction(Without(Charges(b), DOMAIN b)) = 0
  BY BasketPrices, NothingYet
<1>6. CallPriced(call'[s])
  BY <1>2, <1>4, <1>5 DEF CallPriced
<1>7. QED BY <1>1, <1>3, <1>6, PricedGoesOn, StoredPricedStay DEF Priced

LEMMA StartQuotePriced ==
    ASSUME Typed, Priced, NEW s \in Callers, NEW b \in Baskets, StartQuote(s, b)
    PROVE  Priced'
<1>1. SumFunction(Without(Offers(b), DOMAIN b)) = 0
  BY BasketPrices, NothingYet
<1>2. CASE b = <<>>
  <2> DEFINE q == [basket |-> b, total |-> 0, missing |-> {}]
  <2>1. UNCHANGED <<orders, call>> /\ quotes' = quotes \cup {q}
    BY <1>2 DEF StartQuote
  <2>2. DOMAIN b = {}
    BY <1>2
  <2>3. QuotePriced(q)
    BY <1>1, <2>2 DEF QuotePriced
  <2> HIDE DEF q
  <2>4. QED BY <2>1, <2>3 DEF Priced, CallsPriced, OrderChargesItsItems, QuotesPriced
<1>3. CASE b # <<>>
  <2> DEFINE k == [Idle EXCEPT !.op = "quote", !.pc = "quote", !.lines = b,
                     !.left = DOMAIN b]
  <2>1. UNCHANGED <<orders, quotes>> /\ call' = [call EXCEPT ![s] = k]
    BY <1>3 DEF StartQuote
  <2>2. k.op = "quote" /\ k.lines = b /\ k.left = DOMAIN b /\ k.missing = {} /\ k.sum = 0
    BY DEF Idle
  <2> HIDE DEF k
  <2>3. \A t \in Callers \ {s} : call'[t] = call[t]
    BY <2>1 DEF Typed, CallsTyped
  <2>4. call'[s] = k
    BY <2>1 DEF Typed, CallsTyped
  <2>5. k.left \cup k.missing = DOMAIN b
    BY <2>2
  <2>6. CallPriced(call'[s])
    BY <1>1, <2>2, <2>4, <2>5 DEF CallPriced
  <2>7. QED BY <2>1, <2>3, <2>6, PricedGoesOn, StoredPricedStay DEF Priced
<1>4. QED BY <1>2, <1>3

\* A line of an order is charged.
LEMMA PriceLinePriced ==
    ASSUME Typed, Priced, NEW s \in Callers, NEW n \in call[s].left, PriceLine(s, n)
    PROVE  Priced'
<1>1. UNCHANGED <<orders, quotes>>
  BY DEF PriceLine, books
<1>2. CASE End(s)
  BY <1>1, <1>2, PricedEnds, StoredPricedStay DEF Priced, Typed
<1>3. CASE ~End(s)
  <2> DEFINE k == call[s]
  <2> DEFINE line == k.lines[n]
  <2>1. CallTyped(s) /\ CallPriced(k) /\ k.op \in {"order", "cart"}
    BY DEF Typed, CallsTyped, Priced, CallsPriced, PriceLine
  <2>2. k.lines \in Baskets /\ n \in DOMAIN k.lines
    BY <2>1 DEF CallTyped, CallOK, CallFlows
  <2>3. /\ \A t \in Callers \ {s} : call'[t] = call[t]
        /\ call'[s].left = k.left \ {n}
        /\ call'[s].sum = k.sum + UnitPrice(line) * line.qty
        /\ call'[s].op = k.op /\ call'[s].lines = k.lines
    BY <1>3, PriceLineDoes DEF Typed
  <2>4. Charges(k.lines)[n] = UnitPrice(line) * line.qty
    BY <2>2, BasketPrices
  <2> HIDE DEF line
  <2>5. SumFunction(Without(Charges(k.lines), k.left \ {n}))
           = SumFunction(Without(Charges(k.lines), k.left)) + Charges(k.lines)[n]
    BY <2>2, BasketPrices, OneMore
  <2>6. CallPriced(call'[s])
    BY <2>1, <2>3, <2>4, <2>5 DEF CallPriced
  <2>7. QED BY <1>1, <2>3, <2>6, PricedGoesOn, StoredPricedStay DEF Priced
<1>4. QED BY <1>2, <1>3

\* A line of a quote is found, or counted for nothing.
LEMMA QuoteLinePriced ==
    ASSUME Typed, Priced, NEW s \in Callers, QuoteLine(s)
    PROVE  Priced'
<1> DEFINE k == call[s]
<1> DEFINE n == Min(call[s].left)
<1> DEFINE line == k.lines[n]
<1> DEFINE total == k.sum + QuotedPrice(line)
<1> DEFINE missing == k.missing \cup (IF Listed(line.item) THEN {} ELSE {n})
<1>1. /\ CallTyped(s) /\ k.op = "quote" /\ n \in k.left /\ n \notin k.missing
      /\ k.left = {n} =>
            /\ End(s)
            /\ quotes' = quotes \cup {[basket |-> k.lines, total |-> total,
                                       missing |-> missing]}
      /\ k.left # {n} =>
            /\ UNCHANGED quotes
            /\ \A t \in Callers \ {s} : call'[t] = call[t]
            /\ call'[s].left = k.left \ {n}
            /\ call'[s].sum = total /\ call'[s].missing = missing
            /\ call'[s].op = k.op /\ call'[s].lines = k.lines
  BY QuoteLineDoes
<1>2. UNCHANGED orders
  BY DEF QuoteLine
<1>3. CallPriced(k) /\ k.lines \in Baskets /\ n \in DOMAIN k.lines /\ k.sum \in Int
  <2>1. CallPriced(k)
    BY DEF Priced, CallsPriced
  <2> HIDE DEF n
  <2>2. k.lines \in Baskets /\ n \in DOMAIN k.lines /\ k.sum \in Int
    BY <1>1 DEF CallTyped, CallFlows, CallOK
  <2>3. QED BY <2>1, <2>2
<1> DEFINE w == Offers(k.lines)
<1> DEFINE S == k.left \cup k.missing
<1>4. k.sum = SumFunction(Without(w, S))
  BY <1>1, <1>3 DEF CallPriced
<1>5. w[n] = Price[line.item] * line.qty
  BY <1>3, BasketPrices
<1>6. SumFunction(Without(w, S \ {n})) = SumFunction(Without(w, S)) + w[n]
  <2>1. /\ IsFiniteSet(DOMAIN k.lines) /\ w \in [DOMAIN k.lines -> Int]
        /\ n \in DOMAIN k.lines /\ n \in S
    BY <1>1, <1>3, BasketPrices
  <2> HIDE DEF n, w, S
  <2>2. QED BY <2>1, OneMore
<1>7. total = SumFunction(Without(w, (k.left \ {n}) \cup missing))
  <2>1. CASE Listed(line.item)
    <3>1. (k.left \ {n}) \cup missing = S \ {n}
      BY <1>1, <2>1
    <3>2. total = k.sum + w[n]
      BY <1>5, <2>1 DEF QuotedPrice
    <3> HIDE DEF total, missing, n, S, line
    <3>3. QED BY <1>4, <1>6, <3>1, <3>2
  <2>2. CASE ~Listed(line.item)
    <3>1. (k.left \ {n}) \cup missing = S
      BY <1>1, <2>2
    <3>2. total = k.sum
      BY <1>3, <2>2 DEF QuotedPrice
    <3>3. QED BY <1>4, <3>1, <3>2
  <2>3. QED BY <2>1, <2>2
<1> HIDE DEF total, missing, n
<1>8. CASE k.left = {n}
  <2> DEFINE q == [basket |-> k.lines, total |-> total, missing |-> missing]
  <2>1. (k.left \ {n}) \cup missing = missing
    BY <1>8
  <2>2. QuotePriced(q)
    BY <1>7, <2>1 DEF QuotePriced
  <2>3. CallsPriced'
    BY <1>1, <1>8, PricedEnds DEF Typed, Priced
  <2>4. quotes' = quotes \cup {q}
    BY <1>1, <1>8
  <2> HIDE DEF q
  <2>5. QED BY <1>2, <2>2, <2>3, <2>4 DEF Priced, OrderChargesItsItems, QuotesPriced
<1>9. CASE k.left # {n}
  <2>1. CallPriced(call'[s])
    BY <1>1, <1>7, <1>9 DEF CallPriced
  <2>2. CallsPriced'
    BY <1>1, <1>9, <2>1, PricedGoesOn DEF Priced
  <2>3. QED BY <1>1, <1>2, <1>9, <2>2, StoredPricedStay
<1>10. QED BY <1>8, <1>9

\* An order takes the sum when all its lines are charged.
LEMMA PlaceOrderPriced ==
    ASSUME Typed, Priced, NEW s \in Callers, PlaceOrder(s)
    PROVE  Priced'
<1> DEFINE k == call[s]
<1> DEFINE order == [cart |-> k.cart, basket |-> k.lines, amount |-> k.sum + Fees]
<1>1. /\ quotes' = quotes /\ orders' \subseteq orders \cup {order}
      /\ k.pc = "place" /\ End(s)
  BY DEF PlaceOrder, At
<1>2. CallPriced(k) /\ k.op = "order" /\ k.left = {} /\ k.lines \in Baskets
  BY <1>1 DEF Typed, CallsTyped, CallTyped, CallFlows, Priced, CallsPriced
<1>3. Without(Charges(k.lines), {}) = Charges(k.lines)
  BY <1>2, BasketPrices, NothingLeft
<1>4. k.sum = FullTotal(k.lines)
  BY <1>2, <1>3 DEF CallPriced, FullTotal, Charges
<1>5. order.amount = FullTotal(order.basket) + Fees
  BY <1>4
<1> HIDE DEF order
<1>6. OrderChargesItsItems'
  <2>1. ASSUME NEW o \in orders' PROVE o.amount = FullTotal(o.basket) + Fees
    BY <1>1, <1>5, <2>1 DEF Priced, OrderChargesItsItems
  <2>2. (\A o \in orders' : o.amount = FullTotal(o.basket) + Fees) => OrderChargesItsItems'
    BY DEF OrderChargesItsItems, FullTotal, UnitPrice
  <2>3. QED BY <2>1, <2>2
<1>7. CallsPriced'
  BY <1>1, PricedEnds DEF Typed, Priced
<1>8. QED BY <1>1, <1>6, <1>7 DEF Priced, QuotesPriced

\* The other steps end a call, or move one that neither orders nor quotes.
LEMMA OthersPriced ==
    ASSUME Typed, Priced, NEW s \in Callers, UNCHANGED <<orders, quotes>>,
           \A t \in Callers \ {s} : call'[t] = call[t],
           call'[s].op \notin {"order", "cart", "quote"}
    PROVE  Priced'
<1>1. CallPriced(call'[s])
  BY DEF CallPriced
<1>2. QED BY <1>1, PricedGoesOn, StoredPricedStay DEF Priced

LEMMA GotoPriced ==
    ASSUME Typed, Priced, NEW s \in Callers, NEW pc, Goto(s, pc), UNCHANGED <<orders, quotes>>
    PROVE  Priced'
<1> DEFINE k == call[s]
<1>1. /\ \A t \in Callers \ {s} : call'[t] = call[t]
      /\ call'[s].op = k.op /\ call'[s].lines = k.lines /\ call'[s].left = k.left
      /\ call'[s].missing = k.missing /\ call'[s].sum = k.sum
  BY GotoDoes DEF Typed
<1>2. CallPriced(k)
  BY DEF Priced, CallsPriced
<1>3. CallPriced(call'[s])
  BY <1>1, <1>2 DEF CallPriced
<1>4. QED BY <1>1, <1>3, PricedGoesOn, StoredPricedStay DEF Priced

LEMMA StepPriced ==
    ASSUME Inv, Typed, Priced, NEW s \in Callers, CallStep(s)
    PROVE  Priced'
<1>a. ASSUME End(s), UNCHANGED <<orders, quotes>> PROVE Priced'
  BY <1>a, PricedEnds, StoredPricedStay DEF Typed, Priced
<1>b. DOMAIN call = Callers /\ DOMAIN call[s] = DOMAIN Idle
  BY DEF Typed, CallsTyped, CallTyped, CallOK
<1>1. ASSUME NEW n \in call[s].left, PriceLooseRow(s, n) PROVE Priced'
  <2>1. UNCHANGED <<orders, quotes>> /\ call[s].op = "collect"
    BY <1>1 DEF PriceLooseRow, books
  <2>2. CASE ~End(s)
    <3>1. /\ \A t \in Callers \ {s} : call'[t] = call[t]
          /\ call'[s].op = call[s].op
      BY <1>b, <1>1, <2>2 DEF PriceLooseRow, Idle
    <3>2. QED BY <2>1, <3>1, OthersPriced
  <2>3. QED BY <1>a, <2>1, <2>2
<1>2. CASE FindLooseRows(s)
  <2>1. UNCHANGED <<orders, quotes>> /\ call[s].op = "collect"
    BY <1>2 DEF FindLooseRows, books
  <2>2. /\ \A t \in Callers \ {s} : call'[t] = call[t]
        /\ call'[s].op = call[s].op
    BY <1>b, <1>2 DEF FindLooseRows, Idle
  <2>3. QED BY <2>1, <2>2, OthersPriced
<1>3. CASE InsertRows(s) \/ SaveCart(s)
  <2>1. UNCHANGED <<orders, quotes>>
    BY <1>3 DEF InsertRows, SaveCart, books
  <2>2. End(s) \/ \E pc : Goto(s, pc)
    BY <1>3 DEF InsertRows, SaveCart
  <2>3. QED BY <1>a, <2>1, <2>2, GotoPriced
<1>4. CASE FindRow(s)
  <2>1. UNCHANGED <<orders, quotes>> /\ call[s].op = "edit"
    BY <1>4 DEF FindRow, books
  <2>2. CASE row[call[s].row] # None
    BY <1>4, <2>1, <2>2, FindRowDoes, OthersPriced
  <2>3. QED BY <1>a, <1>4, <2>1, <2>2 DEF FindRow
<1>5. CASE UpdateRow(s)
  <2>1. UNCHANGED <<orders, quotes>>
    BY <1>5 DEF UpdateRow, books
  <2>2. QED BY <1>5, <2>1, GotoPriced DEF UpdateRow
<1>6. CASE RecalculateTotal(s)
  <2>1. UNCHANGED <<orders, quotes>> /\ call[s].op = "edit"
    BY <1>6 DEF RecalculateTotal, books, At, Inv, CallsFit, CallFits
  <2>2. CASE ~End(s)
    BY <1>6, <2>1, <2>2, RecalculateTotalDoes, OthersPriced
  <2>3. QED BY <1>a, <2>1, <2>2
<1>7. CASE FindCart(s)
  <2>1. UNCHANGED <<orders, quotes>> /\ call[s].op \in {"edit", "put"}
    BY <1>7 DEF FindCart, books, At, Inv, CallsFit, CallFits
  <2>2. CASE ~End(s)
    BY <1>7, <2>1, <2>2, FindCartDoes, OthersPriced
  <2>3. QED BY <1>a, <2>1, <2>2
<1>8. CASE StoreTotal(s)
  BY <1>a, <1>8 DEF StoreTotal, books
<1>9. QED BY <1>1, <1>2, <1>3, <1>4, <1>5, <1>6, <1>7, <1>8, PriceLinePriced,
             QuoteLinePriced, PlaceOrderPriced DEF CallStep

LEMMA InitPriced == Init => Priced
BY DEF Init, Priced, CallsPriced, CallPriced, Idle, OrderChargesItsItems, QuotesPriced

LEMMA NextPriced == Inv /\ Typed /\ Priced /\ [Next]_vars => Priced'
<1> SUFFICES ASSUME Inv, Typed, Priced, [Next]_vars PROVE Priced'
  OBVIOUS
<1>1. ASSUME NEW s \in Callers, StartCall(s) PROVE Priced'
  <2>1. ASSUME NEW k, call' = [call EXCEPT ![s] = k], UNCHANGED <<orders, quotes>>,
               k.op \notin {"order", "cart", "quote"}
        PROVE  Priced'
    BY <2>1, OthersPriced DEF Typed, CallsTyped
  <2>2. ASSUME NEW u, StartCollect(s, u) PROVE Priced'
    BY <2>1, <2>2 DEF StartCollect, Idle, books
  <2>3. ASSUME NEW r, NEW e, StartEdit(s, r, e) PROVE Priced'
    BY <2>1, <2>3 DEF StartEdit, Idle, books
  <2>4. ASSUME NEW c, NEW total, StartPut(s, c, total) PROVE Priced'
    BY <2>1, <2>4 DEF StartPut, Idle, books
  <2>5. QED BY <1>1, <2>2, <2>3, <2>4, FillCartPriced, StartQuotePriced DEF StartCall
<1>2. CASE OneStep \/ UNCHANGED vars
  <2>1. UNCHANGED <<orders, quotes, call>>
    BY <1>2 DEF OneStep, CreateCart, DeleteCart, DeleteRow, RegisterItem, DeleteItem,
                DeleteMerchant, DeleteItems, books, vars
  <2>2. QED BY <2>1, StoredPricedStay DEF Priced, CallsPriced
<1>3. CASE Crash
  <2>1. UNCHANGED <<orders, quotes>> /\ call' = [s \in Callers |-> Idle]
    BY <1>3 DEF Crash, books
  <2>2. CallsPriced'
    BY <2>1 DEF CallsPriced, CallPriced, Idle
  <2>3. QED BY <2>1, <2>2, StoredPricedStay
<1>4. QED BY <1>1, <1>2, <1>3, StepPriced DEF Next, Request

\* createOrder charges every order the prices of its own basket, with their variants,
\* and the fees, whatever happens to its cart in the meantime (order.service.ts:76).
THEOREM OrdersChargeTheirItems == Spec => []OrderChargesItsItems
<1>1. Init => Inv /\ Typed /\ Priced
  BY InitInv, InitTyped, InitPriced
<1>2. Inv /\ Typed /\ Priced /\ [Next]_vars => Inv' /\ Typed' /\ Priced'
  BY NextKeeps, NextTyped, NextPriced
<1>3. Priced => OrderChargesItsItems
  BY DEF Priced
<1>4. QED BY <1>1, <1>2, <1>3, PTL DEF Spec

LEMMA PricedImpliesQuote == Typed /\ Priced => QuoteHolds
<1> SUFFICES ASSUME Typed, Priced, NEW q \in quotes, NEW o \in orders, o.basket = q.basket
             PROVE  /\ (\A n \in DOMAIN q.basket : q.basket[n].qty >= 0)
                          => q.total + Fees <= o.amount
                    /\ (q.missing = {} /\ \A n \in DOMAIN q.basket : q.basket[n].variant = None)
                          => o.amount = q.total + Fees
  BY DEF QuoteHolds
<1> DEFINE b == q.basket
<1> DEFINE v == Without(Offers(b), q.missing)
<1> DEFINE w == Charges(b)
<1>1. b \in Baskets /\ Fees \in Nat
  BY RequestAssumption DEF Typed, Stored
<1>2. IsFiniteSet(DOMAIN b) /\ v \in [DOMAIN b -> Int] /\ w \in [DOMAIN b -> Int]
  BY <1>1, BasketPrices, WithoutType
<1>3. q.total = SumFunction(v) /\ o.amount = SumFunction(w) + Fees
  BY DEF Priced, QuotesPriced, QuotePriced, OrderChargesItsItems, FullTotal, Charges
<1>4. SumFunction(v) \in Int /\ SumFunction(w) \in Int
  BY <1>2, SumType
<1>5. ASSUME \A n \in DOMAIN b : b[n].qty >= 0 PROVE q.total + Fees <= o.amount
  <2>1. ASSUME NEW n \in DOMAIN b PROVE v[n] <= w[n]
    <3>1. 0 <= Offers(b)[n] /\ Offers(b)[n] <= w[n] /\ w[n] \in Int /\ Offers(b)[n] \in Int
      BY <1>1, <1>5, BasketPrices
    <3>2. v[n] = IF n \in q.missing THEN 0 ELSE Offers(b)[n]
      BY <1>1, BasketPrices DEF Without
    <3>3. QED BY <3>1, <3>2
  <2> HIDE DEF b, v, w
  <2>2. SumFunction(v) <= SumFunction(w)
    BY <1>2, <2>1, SumMonotone
  <2>3. QED BY <1>1, <1>3, <1>4, <2>2
<1>6. ASSUME q.missing = {}, \A n \in DOMAIN b : b[n].variant = None
      PROVE  o.amount = q.total + Fees
  <2>1. v = Offers(b)
    BY <1>1, <1>6, BasketPrices, NothingLeft
  <2>2. Offers(b) = w
    <3>1. \A n \in DOMAIN b : Offers(b)[n] = w[n]
      BY <1>1, <1>6, BasketPrices
    <3>2. Offers(b) = [n \in DOMAIN b |-> Offers(b)[n]] /\ w = [n \in DOMAIN b |-> w[n]]
      BY <1>1, BasketPrices
    <3> HIDE DEF w, b
    <3>3. QED BY <3>1, <3>2
  <2>3. QED BY <1>3, <2>1, <2>2
<1>7. QED BY <1>5, <1>6

\* What calculateTotalPrice answers is never above what createOrder charges for the
\* same basket, unless a quantity is negative, and it is the same when nothing was
\* missing and no line has a variant (cart.service.ts:182).
THEOREM QuotesHold == Spec => []QuoteHolds
<1>1. Init => Inv /\ Typed /\ Priced
  BY InitInv, InitTyped, InitPriced
<1>2. Inv /\ Typed /\ Priced /\ [Next]_vars => Inv' /\ Typed' /\ Priced'
  BY NextKeeps, NextTyped, NextPriced
<1>3. Inv /\ Typed /\ Priced => QuoteHolds
  BY PricedImpliesQuote
<1>4. QED BY <1>1, <1>2, <1>3, PTL DEF Spec

-----------------------------------------------------------------------------
\* Two calls at work on one cart have disturbed it.
Apart ==
    \A s \in Callers, t \in Callers :
        s # t /\ call[s].cart = call[t].cart /\ call[s].cart # None
        => call[s].cart \in disturbed

\* Cart items have ids that were given out, and items that were in the catalogue.
RowsKnown ==
    \A r \in RowIds : row[r] # None => r <= cartItems /\ listing[row[r].item] # "unused"

\* So are the lines that an order was charged for; an edit has a cart item that is in
\* the cart it works on, or has left it.
CallKnown(k) ==
    /\ k.op \in {"order", "cart"} =>
          \A n \in DOMAIN k.lines \ k.left : listing[k.lines[n].item] # "unused"
    /\ k.op = "edit" =>
          /\ k.row <= cartItems
          /\ k.pc # "find" /\ row[k.row] # None => row[k.row].cart \in {k.cart, None}

Known == RowsKnown /\ \A s \in Callers : CallKnown(call[s])

Rows(c) == [r \in RowsOf(c) |-> row[r]]

\* How far the total of a cart is when a call alone is at work on it.
CallTotal(k, c) ==
    /\ k.pc \in {"price", "insert"} => cart[c].total = 0 /\ RowsOf(c) = {}
    /\ k.pc = "save" => cart[c].total = 0 /\ k.sum = FullTotal(Rows(c))
    /\ k.pc = "place" => cart[c].total = FullTotal(Rows(c))
    /\ k.pc \in {"findCart", "store"} => k.sum = CartTotal(RowsOf(c))
    /\ k.pc = "store" => k.seen = cart[c].total

\* And when none is.
Matched(c) ==
    /\ \A r \in RowsOf(c) : Listed(row[r].item)
    /\ c \in edited => \A r \in RowsOf(c) : row[r].variant = None
    => cart[c].total = FullTotal(Rows(c))

CartOK(c) ==
    cart[c] # None /\ c \notin disturbed =>
        /\ \A s \in Callers : call[s].cart = c => CallTotal(call[s], c)
        /\ c \notin Touched => Matched(c)

CartsOK == \A c \in filled : CartOK(c)

TotalsKept == Apart /\ Known /\ CartsOK

-----------------------------------------------------------------------------
\* What a step may do to catalogue and cart items.
Ages ==
    /\ \A i \in Items : listing[i] # "unused" => listing'[i] # "unused"
    /\ cartItems \in Nat /\ cartItems' \in Nat /\ cartItems <= cartItems'
    /\ \A r \in RowIds : r <= cartItems /\ row'[r] # None =>
          /\ row[r] # None
          /\ row'[r].item = row[r].item
          /\ row'[r].cart \in {row[r].cart, None}
    /\ \A r \in RowIds : row'[r] # None =>
          \/ row[r] # None
          \/ r <= cartItems' /\ listing'[row'[r].item] # "unused"

LEMMA RowsAge ==
    ASSUME Typed, RowsKnown, Ages
    PROVE  RowsKnown'
<1> SUFFICES ASSUME NEW r \in RowIds, row'[r] # None
             PROVE  r <= cartItems' /\ listing'[row'[r].item] # "unused"
  BY DEF RowsKnown
<1>1. CASE row[r] # None
  <2>1. r <= cartItems /\ listing[row[r].item] # "unused" /\ row[r].item \in Items
    BY <1>1 DEF RowsKnown, Typed, Stored, ItemRow
  <2>2. row'[r].item = row[r].item
    BY <2>1 DEF Ages
  <2>3. r \in Int
    BY BoundsAssumption DEF RowIds
  <2>4. r <= cartItems'
    BY <2>1, <2>3 DEF Ages
  <2>5. QED BY <2>1, <2>2, <2>4 DEF Ages
<1>2. CASE row[r] = None
  BY <1>2 DEF Ages
<1>3. QED BY <1>1, <1>2

LEMMA CallAges ==
    ASSUME Inv, Typed, Ages, NEW s \in Callers, CallKnown(call[s]), call'[s] = call[s]
    PROVE  CallKnown(call[s])'
<1> DEFINE k == call[s]
<1>1. CallTyped(s)
  BY DEF Typed, CallsTyped
<1>2. ASSUME k.op \in {"order", "cart"}, NEW n \in DOMAIN k.lines \ k.left
      PROVE  listing'[k.lines[n].item] # "unused"
  <2>1. k.lines[n].item \in Items
    BY <1>1 DEF CallTyped, CallOK, Line
  <2>2. listing[k.lines[n].item] # "unused"
    BY <1>2 DEF CallKnown
  <2>3. QED BY <2>1, <2>2 DEF Ages
<1>3. ASSUME k.op = "edit"
      PROVE  /\ k.row <= cartItems'
             /\ k.pc # "find" /\ row'[k.row] # None => row'[k.row].cart \in {k.cart, None}
  <2>1. k.row <= cartItems /\ k.row \in RowIds
    BY <1>3 DEF CallKnown, Inv, CallsFit, CallFits
  <2>2. k.row \in Int
    BY <2>1, BoundsAssumption DEF RowIds
  <2>3. k.row <= cartItems'
    BY <2>1, <2>2 DEF Ages
  <2>4. ASSUME k.pc # "find", row'[k.row] # None PROVE row'[k.row].cart \in {k.cart, None}
    BY <1>3, <2>1, <2>4 DEF CallKnown, Ages
  <2>5. QED BY <2>3, <2>4
<1>4. QED BY <1>2, <1>3 DEF CallKnown

LEMMA KnownGoesOn ==
    ASSUME Inv, Typed, Known, Ages, NEW s \in Callers,
           \A t \in Callers \ {s} : call'[t] = call[t], CallKnown(call[s])'
    PROVE  Known'
<1>1. RowsKnown'
  BY RowsAge DEF Known
<1>2. ASSUME NEW t \in Callers \ {s} PROVE CallKnown(call[t])'
  BY CallAges DEF Known
<1>3. QED BY <1>1, <1>2 DEF Known

-----------------------------------------------------------------------------
\* What goes on while one call moves.
LEMMA ApartGoesOn ==
    ASSUME Apart, NEW s \in Callers, \A t \in Callers \ {s} : call'[t] = call[t],
           disturbed \subseteq disturbed',
           \/ call'[s].cart \in {call[s].cart, None} \cup disturbed'
           \/ \A t \in Callers \ {s} : call[t].cart # call'[s].cart
    PROVE  Apart'
<1> SUFFICES ASSUME NEW t \in Callers, NEW u \in Callers, t # u,
                    call'[t].cart = call'[u].cart, call'[t].cart # None
             PROVE  call'[t].cart \in disturbed'
  BY DEF Apart
<1>1. CASE t # s /\ u # s
  BY <1>1 DEF Apart
<1>2. CASE t = s
  BY <1>2 DEF Apart
<1>3. CASE u = s
  BY <1>3 DEF Apart
<1>4. QED BY <1>1, <1>2, <1>3

\* A step that leaves a cart, its items, and the calls at work on it alone.
KeepsCart(c) ==
    /\ cart'[c] = cart[c]
    /\ RowsOf(c)' = RowsOf(c)
    /\ \A r \in RowsOf(c) : row'[r] = row[r]
    /\ c \in edited' <=> c \in edited

LEMMA SameTotals ==
    ASSUME NEW c, KeepsCart(c)
    PROVE  /\ Rows(c)' = Rows(c) /\ FullTotal(Rows(c))' = FullTotal(Rows(c))
           /\ CartTotal(RowsOf(c))' = CartTotal(RowsOf(c))
<1>1. Rows(c)' = Rows(c)
  BY DEF KeepsCart, Rows
<1>2. FullTotal(Rows(c))' = FullTotal(Rows(c))
  BY <1>1 DEF FullTotal, UnitPrice
<1>3. [r \in RowsOf(c)' |-> Price[row'[r].item] * row'[r].qty]
         = [r \in RowsOf(c) |-> Price[row[r].item] * row[r].qty]
  BY DEF KeepsCart
<1>4. CartTotal(RowsOf(c))' = CartTotal(RowsOf(c))
  BY <1>3 DEF CartTotal
<1>5. QED BY <1>1, <1>2, <1>4

\* An item of a cart that is not in the catalogue any more does not come back.
LEMMA MatchedStays ==
    ASSUME Typed, RowsKnown, Ages, NEW c, KeepsCart(c), Matched(c),
           \A i \in Items : listing'[i] = "listed" => listing[i] \in {"listed", "unused"}
    PROVE  Matched(c)'
<1> SUFFICES ASSUME \A r \in RowsOf(c)' : listing'[row'[r].item] = "listed",
                    c \in edited' => \A r \in RowsOf(c)' : row'[r].variant = None
             PROVE  cart'[c].total = FullTotal(Rows(c))'
  BY DEF Matched, Listed
<1>1. \A r \in RowsOf(c) : r \in RowIds /\ row[r] # None
  BY DEF RowsOf
<1>2. \A r \in RowsOf(c) : row[r].item \in Items /\ listing[row[r].item] # "unused"
  BY <1>1 DEF RowsKnown, Typed, Stored, ItemRow
<1>3. \A r \in RowsOf(c) : listing'[row[r].item] = "listed"
  BY DEF KeepsCart
<1>4. \A r \in RowsOf(c) : Listed(row[r].item)
  BY <1>2, <1>3 DEF Listed
<1>5. c \in edited => \A r \in RowsOf(c) : row[r].variant = None
  BY DEF KeepsCart
<1>6. QED BY <1>4, <1>5, SameTotals DEF Matched, KeepsCart

LEMMA CallTotalStays ==
    ASSUME NEW c, KeepsCart(c), NEW s, call'[s] = call[s], CallTotal(call[s], c)
    PROVE  CallTotal(call[s], c)'
BY SameTotals DEF CallTotal, KeepsCart

\* What every step of a call or a request does to the catalogue, and to disturbed.
Forward ==
    /\ disturbed \subseteq disturbed'
    /\ \A i \in Items : listing'[i] = "listed" => listing[i] \in {"listed", "unused"}

\* A cart that nobody in the step works on.
LEMMA CartStays ==
    ASSUME Typed, TotalsKept, Ages, Forward, NEW c \in filled, KeepsCart(c),
           \A s \in Callers : call'[s].cart = c => call'[s] = call[s],
           \A s \in Callers : call[s].cart = c => call'[s] = call[s] \/ c \in disturbed'
    PROVE  CartOK(c)'
<1> SUFFICES ASSUME cart'[c] # None, c \notin disturbed'
             PROVE  /\ \A s \in Callers : call'[s].cart = c => CallTotal(call[s], c)'
                    /\ c \notin Touched' => Matched(c)'
  BY DEF CartOK
<1>1. cart[c] # None /\ c \notin disturbed
  BY DEF KeepsCart, Forward
<1>2. ASSUME NEW s \in Callers, call'[s].cart = c PROVE CallTotal(call[s], c)'
  <2>1. call'[s] = call[s] /\ CallTotal(call[s], c)
    BY <1>1, <1>2 DEF TotalsKept, CartsOK, CartOK
  <2>2. QED BY <2>1, CallTotalStays
<1>3. ASSUME c \notin Touched' PROVE Matched(c)'
  <2>1. c # None
    BY CollectedAreIds, BoundsAssumption DEF Typed, Stored
  <2>2. ASSUME c \in Touched PROVE FALSE
    <3>1. PICK s \in Callers : call[s].cart = c
      BY <2>2 DEF Touched
    <3>2. call'[s].cart = c
      BY <3>1
    <3>3. QED BY <1>3, <2>1, <3>2 DEF Touched
  <2>3. Matched(c)
    BY <1>1, <2>2 DEF TotalsKept, CartsOK, CartOK
  <2>4. QED BY <2>3, MatchedStays DEF TotalsKept, Known, Forward
<1>4. QED BY <1>2, <1>3

\* The other carts, when one call moves.
LEMMA OtherCartStays ==
    ASSUME Typed, TotalsKept, Ages, Forward, NEW s \in Callers,
           \A t \in Callers \ {s} : call'[t] = call[t],
           NEW c \in filled, KeepsCart(c), c # call[s].cart, c # call'[s].cart
    PROVE  CartOK(c)'
<1>1. \A t \in Callers : call'[t].cart = c => call'[t] = call[t]
  OBVIOUS
<1>2. \A t \in Callers : call[t].cart = c => call'[t] = call[t] \/ c \in disturbed'
  OBVIOUS
<1>3. QED BY <1>1, <1>2, CartStays

\* The cart of the call that moves, which is alone at work on it.
LEMMA OwnCart ==
    ASSUME Apart', NEW s \in Callers, NEW c, c # None, call'[s].cart = c,
           c \notin disturbed' /\ cart'[c] # None => CallTotal(call[s], c)'
    PROVE  CartOK(c)'
<1> SUFFICES ASSUME cart'[c] # None, c \notin disturbed'
             PROVE  /\ \A t \in Callers : call'[t].cart = c => CallTotal(call[t], c)'
                    /\ c \notin Touched' => Matched(c)'
  BY DEF CartOK
<1>1. ASSUME NEW t \in Callers, call'[t].cart = c PROVE CallTotal(call[t], c)'
  <2>1. t = s
    BY <1>1 DEF Apart
  <2>2. QED BY <2>1
<1>2. c \in Touched'
  BY DEF Touched
<1>3. QED BY <1>1, <1>2

\* The cart of a call that ends.
LEMMA LeftCart ==
    ASSUME Typed, Apart, disturbed \subseteq disturbed', NEW s \in Callers, End(s),
           NEW c, c # None, call[s].cart = c,
           c \notin disturbed' /\ cart'[c] # None => Matched(c)'
    PROVE  CartOK(c)'
<1> SUFFICES ASSUME cart'[c] # None, c \notin disturbed'
             PROVE  /\ \A t \in Callers : call'[t].cart = c => CallTotal(call[t], c)'
                    /\ c \notin Touched' => Matched(c)'
  BY DEF CartOK
<1>1. call'[s] = Idle /\ \A t \in Callers \ {s} : call'[t] = call[t]
  BY DEF End, Typed, CallsTyped
<1>2. call'[s].cart = None
  BY <1>1 DEF Idle
<1>3. \A t \in Callers : call'[t].cart # c
  BY <1>1, <1>2 DEF Apart
<1>4. QED BY <1>3

\* A step that leaves the tables alone.
LEMMA NothingStored ==
    ASSUME Typed, UNCHANGED <<listing, cart, row, cartItems, edited>>,
           disturbed \subseteq disturbed'
    PROVE  Ages /\ Forward /\ \A c : KeepsCart(c)
<1>1. cartItems \in Nat
  BY BoundsAssumption DEF Typed, Stored
<1>2. Ages
  BY <1>1 DEF Ages
<1>3. Forward
  BY DEF Forward
<1>4. \A c : KeepsCart(c)
  BY DEF KeepsCart, RowsOf
<1>5. QED BY <1>2, <1>3, <1>4

LEMMA IdleKnown ==
    ASSUME NEW s, call'[s] = Idle
    PROVE  CallKnown(call[s])' /\ call'[s].cart = None
BY DEF CallKnown, Idle

\* A call ends that leaves its cart as it should be, and the others alone.
LEMMA EndsStoring ==
    ASSUME Inv, Typed, TotalsKept, Ages, Forward, NEW s \in Callers, End(s), UNCHANGED filled,
           \A c \in filled : KeepsCart(c) \/ call[s].cart = c,
           \A c \in filled : call[s].cart = c /\ c \notin disturbed' /\ cart'[c] # None
              => Matched(c)'
    PROVE  TotalsKept'
<1>1. call'[s] = Idle /\ \A t \in Callers \ {s} : call'[t] = call[t]
  BY DEF End, Typed, CallsTyped
<1>2. CallKnown(call[s])' /\ call'[s].cart = None
  BY <1>1, IdleKnown
<1>3. Apart'
  BY <1>1, <1>2, ApartGoesOn DEF TotalsKept, Forward
<1>4. Known'
  BY <1>1, <1>2, KnownGoesOn DEF TotalsKept
<1>5. ASSUME NEW c \in filled' PROVE CartOK(c)'
  <2>1. c \in filled /\ c # None
    BY CollectedAreIds, BoundsAssumption
  <2>2. CASE call[s].cart = c
    BY <2>1, <2>2, LeftCart DEF TotalsKept, Forward
  <2>3. CASE call[s].cart # c
    BY <1>1, <1>2, <2>1, <2>3, OtherCartStays
  <2>4. QED BY <2>2, <2>3
<1>6. QED BY <1>3, <1>4, <1>5 DEF TotalsKept, CartsOK

LEMMA EndsKept ==
    ASSUME Inv, Typed, TotalsKept, NEW s \in Callers, End(s), UNCHANGED filled,
           UNCHANGED <<listing, cart, row, cartItems, edited>>, disturbed \subseteq disturbed',
           \A c \in filled : call[s].cart = c /\ c \notin disturbed' /\ cart[c] # None
              => Matched(c)
    PROVE  TotalsKept'
<1>1. Ages /\ Forward /\ \A c : KeepsCart(c)
  BY NothingStored
<1>2. ASSUME NEW c \in filled, call[s].cart = c, c \notin disturbed', cart'[c] # None
      PROVE  Matched(c)'
  BY <1>1, <1>2, MatchedStays DEF TotalsKept, Known, Forward
<1>3. QED BY <1>1, <1>2, EndsStoring

\* A call goes on, on the same cart or on one that is new to it.
LEMMA GoesOnStoring ==
    ASSUME Inv, Typed, TotalsKept, Ages, Forward, NEW s \in Callers, UNCHANGED filled,
           \A t \in Callers \ {s} : call'[t] = call[t],
           \A c \in filled : KeepsCart(c) \/ call'[s].cart = c,
           \/ call'[s].cart = call[s].cart
           \/ /\ call[s].cart = None
              /\ \/ call'[s].cart \in disturbed'
                 \/ \A t \in Callers \ {s} : call[t].cart # call'[s].cart,
           CallKnown(call[s])',
           \A c \in filled : call'[s].cart = c /\ c \notin disturbed' /\ cart'[c] # None
              => CallTotal(call[s], c)'
    PROVE  TotalsKept'
<1>1. Apart'
  BY ApartGoesOn DEF TotalsKept, Forward
<1>2. Known'
  BY KnownGoesOn DEF TotalsKept
<1>3. ASSUME NEW c \in filled' PROVE CartOK(c)'
  <2>1. c \in filled /\ c # None
    BY CollectedAreIds, BoundsAssumption
  <2>2. CASE call'[s].cart = c
    BY <1>1, <2>1, <2>2, OwnCart
  <2>3. CASE call'[s].cart # c
    <3>1. call[s].cart # c
      BY <2>1, <2>3
    <3>2. QED BY <2>1, <2>3, <3>1, OtherCartStays
  <2>4. QED BY <2>2, <2>3
<1>4. QED BY <1>1, <1>2, <1>3 DEF TotalsKept, CartsOK

LEMMA GoesOnKept ==
    ASSUME Inv, Typed, TotalsKept, NEW s \in Callers, UNCHANGED filled,
           \A t \in Callers \ {s} : call'[t] = call[t],
           UNCHANGED <<listing, cart, row, cartItems, edited>>, disturbed \subseteq disturbed',
           \/ call'[s].cart = call[s].cart
           \/ /\ call[s].cart = None
              /\ \/ call'[s].cart \in disturbed'
                 \/ \A t \in Callers \ {s} : call[t].cart # call'[s].cart,
           CallKnown(call[s])',
           \A c \in filled : call'[s].cart = c /\ c \notin disturbed' /\ cart'[c] # None
              => CallTotal(call[s], c)'
    PROVE  TotalsKept'
<1>1. Ages /\ Forward /\ \A c : KeepsCart(c)
  BY NothingStored
<1>2. QED BY <1>1, GoesOnStoring

-----------------------------------------------------------------------------
\* Nobody works on a cart that is not there yet, or else it counts as disturbed.
LEMMA NobodyOnNewCart ==
    ASSUME Inv, Typed, NEW c, c # None, c \notin filled \cup collected, NEW s \in Callers,
           call[s].cart = c
    PROVE  c \in disturbed
BY DEF Inv, CallsFit, CallFits, Typed, CallsTyped, CallTyped, CallOK, CallFlows

\* Cart items are in no cart that is not there yet.
LEMMA NoRowsYet ==
    ASSUME Inv, NEW c, c # None, c \notin filled
    PROVE  RowsOf(c) = {}
BY DEF Inv, RowsOK, RowsOf

\* A new cart leaves the others alone.
LEMMA NewCartKeeps ==
    ASSUME Inv, Typed, NEW x, NEW u, NEW total, NewCart(x, u, total),
           UNCHANGED <<listing, row, cartItems, edited, disturbed>>
    PROVE  /\ Ages /\ Forward /\ carts' \in CartIds /\ carts' # None
           /\ carts' \notin filled \cup collected
           /\ \A c \in filled : c # carts' /\ KeepsCart(c)
<1>1. /\ carts' \in CartIds /\ carts' \notin filled \cup collected
      /\ \A c \in CartIds \ {carts'} : cart'[c] = cart[c]
      /\ filled \subseteq CartIds \ {carts'}
  BY NewCartIsNew
<1>2. carts' # None
  BY <1>1, BoundsAssumption
<1>3. cartItems \in Nat
  BY BoundsAssumption DEF Typed, Stored
<1>4. Ages
  BY <1>3 DEF Ages
<1>5. Forward
  BY DEF Forward
<1>6. \A c \in filled : c # carts' /\ KeepsCart(c)
  BY <1>1 DEF KeepsCart, RowsOf
<1>7. QED BY <1>1, <1>2, <1>4, <1>5, <1>6

\* The cart of an order starts empty, with a total of 0.
LEMMA FillCartKept ==
    ASSUME Inv, Typed, TotalsKept, NEW s \in Callers, NEW op \in {"order", "cart"},
           NEW u \in Customers, NEW b \in Baskets, FillCart(s, op, u, b)
    PROVE  TotalsKept'
<1> DEFINE k == [Idle EXCEPT !.op = op, !.pc = IF b = <<>> THEN "insert" ELSE "price",
                   !.customer = u, !.cart = carts', !.lines = b, !.left = DOMAIN b]
<1>1. /\ NewCart(s, u, 0) /\ filled' = filled \cup {carts'}
      /\ UNCHANGED <<listing, row, cartItems, edited, disturbed>>
      /\ call[s] = Idle /\ call' = [call EXCEPT ![s] = k]
  BY DEF FillCart
<1>2. /\ Ages /\ Forward /\ carts' \in CartIds /\ carts' # None
      /\ carts' \notin filled \cup collected
      /\ \A c \in filled : c # carts' /\ KeepsCart(c)
  BY <1>1, NewCartKeeps
<1>3. /\ k.op = op /\ k.pc \in {"price", "insert"} /\ k.lines = b /\ k.left = DOMAIN b
      /\ k.cart = carts'
  BY DEF Idle
<1> HIDE DEF k
<1>4. call'[s] = k
  BY <1>1 DEF Typed, CallsTyped
<1>5. \A t \in Callers \ {s} : call'[t] = call[t]
  BY <1>1 DEF Typed, CallsTyped
<1>6. call[s].cart = None
  BY <1>1 DEF Idle
<1>7. Apart'
  <2>1. \/ call'[s].cart \in {call[s].cart, None} \cup disturbed'
        \/ \A t \in Callers \ {s} : call[t].cart # call'[s].cart
    BY <1>1, <1>2, <1>3, <1>4, NobodyOnNewCart
  <2>2. QED BY <1>2, <1>5, <2>1, ApartGoesOn DEF TotalsKept, Forward
<1>8. CallKnown(call[s])'
  BY <1>3, <1>4 DEF CallKnown
<1>9. Known'
  BY <1>2, <1>5, <1>8, KnownGoesOn DEF TotalsKept
<1>10. ASSUME NEW c \in filled PROVE CartOK(c)'
  <2>1. c # None /\ c # call[s].cart /\ c # call'[s].cart /\ KeepsCart(c)
    BY <1>2, <1>3, <1>4, <1>6, CollectedAreIds, BoundsAssumption
  <2>2. QED BY <1>2, <1>5, <2>1, OtherCartStays
<1>11. ASSUME NEW c, c = carts' PROVE CartOK(c)'
  <2>1. call'[s].cart = c /\ c # None
    BY <1>2, <1>3, <1>4, <1>11
  <2>2. cart'[c].total = 0
    <3>1. cart'[carts'] = [customer |-> u, total |-> 0]
      BY <1>1, NewCartIsNew
    <3>2. QED BY <1>11, <3>1
  <2>3. RowsOf(c)' = {}
    BY <1>1, <1>2, <1>11, NoRowsYet DEF RowsOf
  <2>4. CallTotal(call[s], c)'
    BY <1>3, <1>4, <2>2, <2>3 DEF CallTotal
  <2>5. QED BY <1>7, <2>1, <2>4, OwnCart
<1>12. CartsOK'
  BY <1>1, <1>10, <1>11 DEF CartsOK
<1>13. QED BY <1>7, <1>9, <1>12 DEF TotalsKept

LEMMA StartCollectKept ==
    ASSUME Inv, Typed, TotalsKept, NEW s \in Callers, NEW u \in Customers, StartCollect(s, u)
    PROVE  TotalsKept'
<1> DEFINE k == [Idle EXCEPT !.op = "collect", !.pc = "find", !.customer = u,
                   !.cart = carts']
<1>1. /\ NewCart(s, u, None)
      /\ UNCHANGED <<listing, row, cartItems, filled, edited, disturbed>>
      /\ call[s] = Idle /\ call' = [call EXCEPT ![s] = k]
  BY DEF StartCollect
<1>2. /\ Ages /\ Forward /\ carts' \in CartIds /\ carts' # None
      /\ carts' \notin filled \cup collected
      /\ \A c \in filled : c # carts' /\ KeepsCart(c)
  BY <1>1, NewCartKeeps
<1>3. k.op = "collect" /\ k.cart = carts'
  BY DEF Idle
<1> HIDE DEF k
<1>4. call'[s] = k
  BY <1>1 DEF Typed, CallsTyped
<1>5. \A t \in Callers \ {s} : call'[t] = call[t]
  BY <1>1 DEF Typed, CallsTyped
<1>6. call[s].cart = None
  BY <1>1 DEF Idle
<1>7. Apart'
  <2>1. \/ call'[s].cart \in {call[s].cart, None} \cup disturbed'
        \/ \A t \in Callers \ {s} : call[t].cart # call'[s].cart
    BY <1>1, <1>2, <1>3, <1>4, NobodyOnNewCart
  <2>2. QED BY <1>2, <1>5, <2>1, ApartGoesOn DEF TotalsKept, Forward
<1>8. CallKnown(call[s])'
  BY <1>3, <1>4 DEF CallKnown
<1>9. Known'
  BY <1>2, <1>5, <1>8, KnownGoesOn DEF TotalsKept
<1>10. ASSUME NEW c \in filled PROVE CartOK(c)'
  <2>1. c # None /\ c # call[s].cart /\ c # call'[s].cart /\ KeepsCart(c)
    BY <1>2, <1>3, <1>4, <1>6, CollectedAreIds, BoundsAssumption
  <2>2. QED BY <1>2, <1>5, <2>1, OtherCartStays
<1>11. QED BY <1>1, <1>7, <1>9, <1>10 DEF TotalsKept, CartsOK

\* Steps that move no call.
LEMMA CallsWaitKept ==
    ASSUME Inv, Typed, TotalsKept, UNCHANGED <<call, filled>>, Ages, Forward,
           \A c \in filled : KeepsCart(c) \/ c \in disturbed' \/ cart'[c] = None
    PROVE  TotalsKept'
<1>1. Apart'
  BY DEF TotalsKept, Apart, Forward
<1>2. Known'
  <2>1. RowsKnown'
    BY RowsAge DEF TotalsKept, Known
  <2>2. \A s \in Callers : CallKnown(call[s])'
    BY CallAges DEF TotalsKept, Known
  <2>3. QED BY <2>1, <2>2 DEF Known
<1>3. ASSUME NEW c \in filled PROVE CartOK(c)'
  <2>1. CASE KeepsCart(c)
    BY <2>1, CartStays
  <2>2. CASE c \in disturbed' \/ cart'[c] = None
    BY <2>2 DEF CartOK
  <2>3. QED BY <2>1, <2>2
<1>4. QED BY <1>1, <1>2, <1>3 DEF TotalsKept, CartsOK

LEMMA OtherStartsKept ==
    ASSUME Inv, Typed, TotalsKept, NEW s \in Callers,
           \/ \E b \in Baskets : StartQuote(s, b)
           \/ \E r \in RowIds, e \in Edits : StartEdit(s, r, e)
           \/ \E c \in CartIds, total \in Amounts : StartPut(s, c, total)
    PROVE  TotalsKept'
<1>1. /\ UNCHANGED <<listing, cart, row, cartItems, filled, edited>>
      /\ disturbed \subseteq disturbed'
      /\ call[s] = Idle
  BY DEF StartQuote, StartEdit, StartPut, history, counters
<1>2. call[s].cart = None
  BY <1>1 DEF Idle
<1>3. ASSUME NEW k, call' = [call EXCEPT ![s] = k],
             call'[s] = k => CallKnown(call[s])',
             k.cart = None \/ k.cart \in disturbed'
      PROVE  TotalsKept'
  <2>1. call'[s] = k
    BY <1>3 DEF Typed, CallsTyped
  <2>2. \A t \in Callers \ {s} : call'[t] = call[t]
    BY <1>3 DEF Typed, CallsTyped
  <2>3. \A c \in filled : call'[s].cart = c => c \in disturbed'
    BY <1>3, <2>1, CollectedAreIds, BoundsAssumption
  <2>4. \/ call'[s].cart = call[s].cart
        \/ call[s].cart = None /\ call'[s].cart \in disturbed'
    BY <1>2, <1>3, <2>1
  <2>5. QED BY <1>1, <1>3, <2>1, <2>2, <2>3, <2>4, GoesOnKept
<1>4. ASSUME NEW b \in Baskets, StartQuote(s, b) PROVE TotalsKept'
  <2>1. CASE UNCHANGED call
    <3>1. Ages /\ Forward /\ \A c : KeepsCart(c)
      BY <1>1, NothingStored
    <3>2. QED BY <1>1, <2>1, <3>1, CallsWaitKept
  <2>2. CASE ~UNCHANGED call
    <3> DEFINE k == [Idle EXCEPT !.op = "quote", !.pc = "quote", !.lines = b,
                       !.left = DOMAIN b]
    <3>1. call' = [call EXCEPT ![s] = k]
      BY <1>4, <2>2 DEF StartQuote
    <3>2. k.op = "quote" /\ k.cart = None
      BY DEF Idle
    <3> HIDE DEF k
    <3>3. call'[s] = k => CallKnown(call[s])'
      BY <3>2 DEF CallKnown
    <3>4. QED BY <1>3, <3>1, <3>2, <3>3
  <2>3. QED BY <2>1, <2>2
<1>5. ASSUME NEW r \in RowIds, NEW e \in Edits, StartEdit(s, r, e) PROVE TotalsKept'
  <2> DEFINE k == [Idle EXCEPT !.op = "edit", !.pc = "find", !.row = r, !.edit = e]
  <2>1. call' = [call EXCEPT ![s] = k] /\ r <= cartItems
    BY <1>5 DEF StartEdit
  <2>2. k.op = "edit" /\ k.cart = None /\ k.pc = "find" /\ k.row = r
    BY DEF Idle
  <2> HIDE DEF k
  <2>3. call'[s] = k => CallKnown(call[s])'
    BY <1>1, <2>1, <2>2 DEF CallKnown
  <2>4. QED BY <1>3, <2>1, <2>2, <2>3
<1>6. ASSUME NEW c \in CartIds, NEW total \in Amounts, StartPut(s, c, total)
      PROVE  TotalsKept'
  <2> DEFINE k == [Idle EXCEPT !.op = "put", !.pc = "findCart", !.cart = c, !.sum = total]
  <2>1. call' = [call EXCEPT ![s] = k] /\ c \in disturbed'
    BY <1>6 DEF StartPut
  <2>2. k.op = "put" /\ k.cart = c
    BY DEF Idle
  <2> HIDE DEF k
  <2>3. call'[s] = k => CallKnown(call[s])'
    BY <2>2 DEF CallKnown
  <2>4. QED BY <1>3, <2>1, <2>2, <2>3
<1>7. QED BY <1>4, <1>5, <1>6

-----------------------------------------------------------------------------
\* An empty cart comes to nothing.
LEMMA EmptyCart ==
    ASSUME NEW c, RowsOf(c) = {}
    PROVE  FullTotal(Rows(c)) = 0
<1> DEFINE w == [r \in DOMAIN Rows(c) |-> UnitPrice(Rows(c)[r]) * Rows(c)[r].qty]
<1>1. DOMAIN Rows(c) = {}
  BY DEF Rows
<1>2. w \in [{} -> Int] /\ \A r \in {} : w[r] = 0
  BY <1>1
<1> HIDE DEF w
<1>3. SumFunction(w) = 0
  BY <1>2, SumOfZeros, FS_EmptySet
<1>4. QED BY <1>3 DEF FullTotal, w

\* A line of an order is in the catalogue when it is charged.
LEMMA PriceLineKept ==
    ASSUME Inv, Typed, TotalsKept, NEW s \in Callers, NEW n \in call[s].left, PriceLine(s, n)
    PROVE  TotalsKept'
<1> DEFINE k == call[s]
<1>1. /\ UNCHANGED <<listing, cart, row, cartItems, filled, edited, disturbed>>
      /\ k.pc = "price" /\ k.op \in {"order", "cart"}
  BY DEF PriceLine, history, counters, At
<1>2. ASSUME NEW c \in filled, k.cart = c, c \notin disturbed, cart[c] # None
      PROVE  cart[c].total = 0 /\ RowsOf(c) = {}
  BY <1>1, <1>2 DEF TotalsKept, CartsOK, CartOK, CallTotal
<1>3. CASE End(s)
  <2>1. ASSUME NEW c \in filled, k.cart = c, c \notin disturbed', cart[c] # None
        PROVE  Matched(c)
    BY <1>1, <1>2, <2>1, EmptyCart DEF Matched
  <2>2. QED BY <1>1, <1>3, <2>1, EndsKept
<1>4. CASE ~End(s)
  <2>1. /\ \A t \in Callers \ {s} : call'[t] = call[t]
        /\ Listed(k.lines[n].item)
        /\ call'[s].left = k.left \ {n}
        /\ call'[s].pc \in {"insert", "price"}
        /\ call'[s].op = k.op /\ call'[s].cart = k.cart /\ call'[s].lines = k.lines
    BY <1>4, PriceLineDoes DEF Typed
  <2>2. CallKnown(k)
    BY DEF TotalsKept, Known
  <2>3. CallKnown(call[s])'
    BY <1>1, <2>1, <2>2 DEF CallKnown, Listed
  <2>4. ASSUME NEW c \in filled, call'[s].cart = c, c \notin disturbed', cart'[c] # None
        PROVE  CallTotal(call[s], c)'
    <3>1. cart'[c].total = 0 /\ RowsOf(c)' = {}
      BY <1>1, <1>2, <2>1, <2>4 DEF RowsOf
    <3>2. QED BY <2>1, <3>1 DEF CallTotal
  <2>5. QED BY <1>1, <2>1, <2>3, <2>4, GoesOnKept
<1>5. QED BY <1>3, <1>4

\* The calls of addToCart work on carts of their own.
LEMMA CollectKept ==
    ASSUME Inv, Typed, TotalsKept, NEW s \in Callers,
           FindLooseRows(s) \/ \E n \in call[s].left : PriceLooseRow(s, n)
    PROVE  TotalsKept'
<1> DEFINE k == call[s]
<1>1. /\ UNCHANGED <<listing, cart, row, cartItems, filled, edited, disturbed>>
      /\ k.op = "collect" /\ DOMAIN k = DOMAIN Idle /\ DOMAIN call = Callers
  BY DEF FindLooseRows, PriceLooseRow, history, counters, Typed, CallsTyped, CallTyped, CallOK
<1>2. k.cart \notin filled
  BY <1>1 DEF Inv, CallsFit, CallFits, Shaped
<1>3. CASE End(s)
  BY <1>1, <1>2, <1>3, EndsKept
<1>4. CASE ~End(s)
  <2>1. /\ \A t \in Callers \ {s} : call'[t] = call[t]
        /\ call'[s].op = k.op /\ call'[s].cart = k.cart
    <3>1. CASE FindLooseRows(s)
      BY <1>1, <3>1 DEF FindLooseRows, Idle
    <3>2. ASSUME NEW n \in k.left, PriceLooseRow(s, n)
          PROVE  /\ \A t \in Callers \ {s} : call'[t] = call[t]
                 /\ call'[s].op = k.op /\ call'[s].cart = k.cart
      <4> DEFINE line == k.lines[n]
      <4> DEFINE charged == IF line.variant # None /\ ~VariantListed(line.variant)
                            THEN [line EXCEPT !.variant = None] ELSE line
      <4> DEFINE total == k.sum + UnitPrice(charged) * line.qty
      <4>1. call' = [call EXCEPT ![s].left = @ \ {n}, ![s].sum = total,
                       ![s].pc = IF k.left = {n} THEN "save" ELSE "price"]
        BY <1>4, <3>2 DEF PriceLooseRow
      <4> HIDE DEF total
      <4>2. QED BY <1>1, <4>1 DEF Idle
    <3>3. QED BY <3>1, <3>2
  <2>2. CallKnown(call[s])'
    BY <1>1, <2>1 DEF CallKnown
  <2>3. QED BY <1>1, <1>2, <2>1, <2>2, GoesOnKept
<1>5. QED BY <1>3, <1>4

LEMMA QuoteLineKept ==
    ASSUME Inv, Typed, TotalsKept, NEW s \in Callers, QuoteLine(s)
    PROVE  TotalsKept'
<1> DEFINE k == call[s]
<1>1. UNCHANGED <<listing, cart, row, cartItems, filled, edited, disturbed>>
  BY DEF QuoteLine, history, counters
<1>2. /\ CallTyped(s) /\ k.op = "quote"
      /\ End(s) \/ (/\ \A t \in Callers \ {s} : call'[t] = call[t]
                    /\ call'[s].op = k.op /\ call'[s].cart = k.cart)
  <2> DEFINE n == Min(call[s].left)
  <2>1. /\ CallTyped(s) /\ k.op = "quote"
        /\ k.left = {n} => End(s)
        /\ k.left # {n} => /\ \A t \in Callers \ {s} : call'[t] = call[t]
                           /\ call'[s].op = k.op /\ call'[s].cart = k.cart
    BY QuoteLineDoes
  <2>2. QED BY <2>1
<1>3. k.cart = None /\ None \notin filled
  BY <1>2, CollectedAreIds, BoundsAssumption DEF CallTyped, CallFlows
<1>4. CASE End(s)
  BY <1>1, <1>3, <1>4, EndsKept
<1>5. CASE ~End(s)
  <2>1. CallKnown(call[s])'
    BY <1>2, <1>5 DEF CallKnown
  <2>2. QED BY <1>1, <1>2, <1>3, <1>5, <2>1, GoesOnKept
<1>6. QED BY <1>4, <1>5

\* The order is placed, or not: its cart has the total of its items.
LEMMA PlaceOrderKept ==
    ASSUME Inv, Typed, TotalsKept, NEW s \in Callers, PlaceOrder(s)
    PROVE  TotalsKept'
<1>1. /\ UNCHANGED <<listing, cart, row, cartItems, filled, edited, disturbed>>
      /\ call[s].pc = "place" /\ End(s)
  BY DEF PlaceOrder, history, counters, At
<1>2. ASSUME NEW c \in filled, call[s].cart = c, c \notin disturbed', cart[c] # None
      PROVE  Matched(c)
  BY <1>1, <1>2 DEF TotalsKept, CartsOK, CartOK, CallTotal, Matched
<1>3. QED BY <1>1, <1>2, EndsKept

\* Nobody else is at work on the cart of the item that an edit has found, or it is disturbed.
LEMMA FindRowKept ==
    ASSUME Inv, Typed, TotalsKept, NEW s \in Callers, FindRow(s)
    PROVE  TotalsKept'
<1> DEFINE k == call[s]
<1>1. /\ UNCHANGED <<listing, cart, row, cartItems, filled, edited>>
      /\ disturbed \subseteq disturbed' /\ k.pc = "find" /\ k.op = "edit"
  BY DEF FindRow, Meets, counters, At
<1>2. k.cart = None /\ None \notin filled
  BY <1>1, CollectedAreIds, BoundsAssumption DEF Typed, CallsTyped, CallTyped, CallFlows
<1>3. CASE row[k.row] = None
  <2>1. End(s)
    BY <1>3 DEF FindRow
  <2>2. QED BY <1>1, <1>2, <2>1, EndsKept
<1>4. CASE row[k.row] # None
  <2> DEFINE copy == row[k.row]
  <2>1. /\ Meets(copy.cart) /\ \A t \in Callers \ {s} : call'[t] = call[t]
        /\ call'[s].cart = copy.cart /\ call'[s].pc = "update"
        /\ call'[s].op = k.op /\ call'[s].row = k.row
    BY <1>4, FindRowDoes
  <2>2. CallKnown(k)
    BY DEF TotalsKept, Known
  <2>3. CallKnown(call[s])'
    BY <1>1, <2>1, <2>2 DEF CallKnown
  <2>4. \/ call'[s].cart = k.cart
        \/ call'[s].cart \in disturbed'
        \/ \A t \in Callers \ {s} : call[t].cart # call'[s].cart
    BY <1>2, <2>1 DEF Meets, Touched
  <2>5. \A c \in filled : call'[s].cart = c => CallTotal(call[s], c)'
    BY <2>1 DEF CallTotal
  <2>6. QED BY <1>1, <1>2, <2>1, <2>3, <2>4, <2>5, GoesOnKept
<1>5. QED BY <1>3, <1>4

\* The sum is that of the cart's items, or an item is gone from the catalogue.
LEMMA RecalculateTotalKept ==
    ASSUME Inv, Typed, TotalsKept, NEW s \in Callers, RecalculateTotal(s)
    PROVE  TotalsKept'
<1> DEFINE k == call[s]
<1>1. /\ UNCHANGED <<listing, cart, row, cartItems, filled, edited, disturbed>>
      /\ k.pc = "recalculate" /\ k.op = "edit"
  BY DEF RecalculateTotal, history, counters, At, Inv, CallsFit, CallFits
<1>2. CASE \E r \in RowsOf(k.cart) : ~Listed(row[r].item)
  <2>1. End(s)
    BY <1>2 DEF RecalculateTotal
  <2>2. \A c : k.cart = c => Matched(c)
    BY <1>2 DEF Matched
  <2>3. QED BY <1>1, <2>1, <2>2, EndsKept
<1>3. CASE ~ \E r \in RowsOf(k.cart) : ~Listed(row[r].item)
  <2>1. ~End(s)
    <3>1. DOMAIN call = Callers /\ DOMAIN k = DOMAIN Idle
      BY DEF Typed, CallsTyped, CallTyped, CallOK
    <3>2. call'[s].pc = "findCart"
      BY <1>3, <3>1 DEF RecalculateTotal, Idle
    <3>3. End(s) => call'[s].pc = "idle"
      BY <3>1 DEF End, Idle
    <3>4. QED BY <3>2, <3>3
  <2>2. /\ \A t \in Callers \ {s} : call'[t] = call[t]
        /\ call'[s].pc = "findCart"
        /\ call'[s].sum = CartTotal(RowsOf(k.cart))
        /\ call'[s].op = k.op /\ call'[s].cart = k.cart /\ call'[s].row = k.row
    BY <2>1, RecalculateTotalDoes
  <2>3. CallKnown(k)
    BY DEF TotalsKept, Known
  <2>4. CallKnown(call[s])'
    BY <1>1, <2>2, <2>3 DEF CallKnown
  <2>5. ASSUME NEW c \in filled, call'[s].cart = c PROVE CallTotal(call[s], c)'
    <3>1. CartTotal(RowsOf(c))' = CartTotal(RowsOf(c))
      BY <1>1 DEF CartTotal, RowsOf
    <3>2. QED BY <2>2, <2>5, <3>1 DEF CallTotal
  <2>6. QED BY <1>1, <2>2, <2>4, <2>5, GoesOnKept
<1>4. QED BY <1>2, <1>3

-----------------------------------------------------------------------------
\* The save of a total leaves the other carts alone.
LEMMA SaveTotalOthers ==
    ASSUME Inv, Typed, NEW c, NEW read, NEW total, SaveTotal(c, read, total),
           UNCHANGED <<listing, row, cartItems, filled, disturbed>>,
           \A d : d # c => (d \in edited' <=> d \in edited)
    PROVE  /\ Ages /\ Forward
           /\ \A d \in filled : d # c => KeepsCart(d)
           /\ \A d \in filled : d = c /\ cart'[d] # None /\ cart[d].total = read
                 => cart[d] # None /\ cart'[d].total = total
<1>1. cartItems \in Nat
  BY BoundsAssumption DEF Typed, Stored
<1>2. Ages /\ Forward
  BY <1>1 DEF Ages, Forward
<1>3. filled \subseteq CartIds /\ \A d \in CartIds : d # c => cart'[d] = cart[d]
  BY SaveTotalKeeps, CollectedAreIds
<1>4. \A d \in filled : d # c => KeepsCart(d)
  BY <1>3 DEF KeepsCart, RowsOf
<1>5. ASSUME NEW d \in filled, d = c, cart'[d] # None, cart[d].total = read
      PROVE  cart[d] # None /\ cart'[d].total = total
  <2>1. cart[d] # None /\ DOMAIN cart[d] = {"customer", "total"} /\ d \in DOMAIN cart
    BY <1>3, <1>5, SaveTotalKeeps DEF Inv, Shaped
  <2>2. QED BY <1>5, <2>1 DEF SaveTotal
<1>6. QED BY <1>2, <1>4, <1>5

\* The total that is saved is that of the items that were inserted.
LEMMA SaveCartKept ==
    ASSUME Inv, Typed, TotalsKept, NEW s \in Callers, SaveCart(s)
    PROVE  TotalsKept'
<1> DEFINE k == call[s]
<1>1. /\ SaveTotal(k.cart, IF k.op = "collect" THEN None ELSE 0, k.sum)
      /\ k.pc = "save"
      /\ (k.op = "order" /\ Goto(s, "place")) \/ (k.op # "order" /\ End(s))
      /\ UNCHANGED <<listing, row, cartItems, filled, edited, disturbed>>
  BY DEF SaveCart, history, counters, At
<1>2. k.op \in {"order", "cart"} \/ (k.op = "collect" /\ k.cart \notin filled)
  BY <1>1 DEF Inv, CallsFit, CallFits, Shaped
<1>3. /\ Ages /\ Forward
      /\ \A c \in filled : k.cart # c => KeepsCart(c)
      /\ \A c \in filled : c = k.cart /\ cart'[c] # None /\ cart[c].total = 0
            => cart[c] # None /\ cart'[c].total = k.sum
  BY <1>1, <1>2, SaveTotalOthers
<1>4. ASSUME NEW c \in filled, k.cart = c, c \notin disturbed', cart'[c] # None
      PROVE  cart'[c].total = FullTotal(Rows(c))'
  <2>1. cart[c] # None
    BY <1>1, <1>4, CollectedAreIds, SaveTotalKeeps
  <2>2. cart[c].total = 0 /\ k.sum = FullTotal(Rows(c))
    BY <1>1, <1>4, <2>1 DEF TotalsKept, CartsOK, CartOK, CallTotal
  <2>3. Rows(c)' = Rows(c)
    BY <1>1 DEF Rows, RowsOf
  <2>4. FullTotal(Rows(c))' = FullTotal(Rows(c))
    BY <2>3 DEF FullTotal, UnitPrice
  <2>5. QED BY <1>3, <1>4, <2>2, <2>4
<1>5. CASE k.op = "order" /\ Goto(s, "place")
  <2>1. /\ \A t \in Callers \ {s} : call'[t] = call[t]
        /\ call'[s].pc = "place" /\ call'[s].op = k.op /\ call'[s].cart = k.cart
        /\ call'[s].lines = k.lines /\ call'[s].left = k.left
    BY <1>5, GotoDoes DEF Typed
  <2>2. CallKnown(k)
    BY DEF TotalsKept, Known
  <2>3. CallKnown(call[s])'
    BY <1>1, <1>5, <2>1, <2>2 DEF CallKnown
  <2>4. ASSUME NEW c \in filled, call'[s].cart = c, c \notin disturbed', cart'[c] # None
        PROVE  CallTotal(call[s], c)'
    BY <1>4, <2>1, <2>4 DEF CallTotal
  <2>5. QED BY <1>1, <1>3, <2>1, <2>3, <2>4, GoesOnStoring
<1>6. CASE End(s)
  <2>1. ASSUME NEW c \in filled, k.cart = c, c \notin disturbed', cart'[c] # None
        PROVE  Matched(c)'
    BY <1>4, <2>1 DEF Matched
  <2>2. QED BY <1>1, <1>3, <1>6, <2>1, EndsStoring
<1>7. QED BY <1>1, <1>5, <1>6

\* The total it read, before it stores the sum.
LEMMA FindCartKept ==
    ASSUME Inv, Typed, TotalsKept, NEW s \in Callers, FindCart(s)
    PROVE  TotalsKept'
<1> DEFINE k == call[s]
<1>1. /\ UNCHANGED <<listing, cart, row, cartItems, filled, edited, disturbed>>
      /\ k.pc = "findCart" /\ k.op \in {"edit", "put"}
  BY DEF FindCart, history, counters, At, Inv, CallsFit, CallFits
<1>2. CASE k.cart = None \/ cart[k.cart] = None
  <2>1. End(s)
    BY <1>2 DEF FindCart
  <2>2. None \notin filled
    BY CollectedAreIds, BoundsAssumption
  <2>3. QED BY <1>1, <1>2, <2>1, <2>2, EndsKept
<1>3. CASE ~(k.cart = None \/ cart[k.cart] = None)
  <2>1. /\ \A t \in Callers \ {s} : call'[t] = call[t]
        /\ call'[s].pc = "store"
        /\ call'[s].sum = k.sum /\ call'[s].seen = cart[k.cart].total
        /\ call'[s].op = k.op /\ call'[s].cart = k.cart /\ call'[s].row = k.row
    <3>1. DOMAIN call = Callers /\ DOMAIN k = DOMAIN Idle
      BY DEF Typed, CallsTyped, CallTyped, CallOK
    <3>2. call' = [call EXCEPT ![s].seen = cart[k.cart].total, ![s].pc = "store"]
      BY <1>3 DEF FindCart
    <3>3. QED BY <3>1, <3>2 DEF Idle
  <2>2. CallKnown(k)
    BY DEF TotalsKept, Known
  <2>3. CallKnown(call[s])'
    BY <1>1, <2>1, <2>2 DEF CallKnown
  <2>4. ASSUME NEW c \in filled, call'[s].cart = c, c \notin disturbed', cart'[c] # None
        PROVE  CallTotal(call[s], c)'
    <3>1. k.sum = CartTotal(RowsOf(c))
      BY <1>1, <2>1, <2>4 DEF TotalsKept, CartsOK, CartOK, CallTotal
    <3>2. CartTotal(RowsOf(c))' = CartTotal(RowsOf(c))
      BY <1>1 DEF CartTotal, RowsOf
    <3>3. QED BY <1>1, <2>1, <2>4, <3>1, <3>2 DEF CallTotal
  <2>5. QED BY <1>1, <2>1, <2>3, <2>4, GoesOnKept
<1>4. QED BY <1>2, <1>3

\* Without variants, the price of the items is all there is.
LEMMA PlainCart ==
    ASSUME Typed, NEW c, \A r \in RowsOf(c) : row[r].variant = None
    PROVE  FullTotal(Rows(c)) = CartTotal(RowsOf(c))
<1>1. /\ DOMAIN Rows(c) = RowsOf(c)
      /\ \A r \in RowsOf(c) : Rows(c)[r] = row[r] /\ row[r].item \in Items
  BY DEF Rows, RowsOf, Typed, Stored, ItemRow
<1>2. ASSUME NEW r \in RowsOf(c)
      PROVE  UnitPrice(Rows(c)[r]) * Rows(c)[r].qty = Price[row[r].item] * row[r].qty
  <2>1. Price[row[r].item] \in Int
    BY <1>1, CatalogueAssumption
  <2>2. UnitPrice(row[r]) = Price[row[r].item]
    BY <2>1 DEF UnitPrice
  <2>3. QED BY <1>1, <2>2
<1>3. [r \in DOMAIN Rows(c) |-> UnitPrice(Rows(c)[r]) * Rows(c)[r].qty]
         = [r \in RowsOf(c) |-> Price[row[r].item] * row[r].qty]
  BY <1>1, <1>2
<1>4. QED BY <1>3 DEF FullTotal, CartTotal

\* An edit stores the total of the items as they are; a total set by hand disturbs.
LEMMA StoreTotalKept ==
    ASSUME Inv, Typed, TotalsKept, NEW s \in Callers, StoreTotal(s)
    PROVE  TotalsKept'
<1> DEFINE k == call[s]
<1>1. /\ SaveTotal(k.cart, k.seen, k.sum)
      /\ k.pc = "store" /\ End(s)
      /\ edited' = IF k.op = "edit" THEN edited \cup {k.cart} ELSE edited
      /\ UNCHANGED <<listing, row, cartItems, filled, disturbed>>
  BY DEF StoreTotal, counters, At
<1>2. k.op = "edit" \/ k.cart \in disturbed
  BY <1>1 DEF Inv, CallsFit, CallFits
<1>3. /\ Ages /\ Forward
      /\ \A c \in filled : c # k.cart => KeepsCart(c)
      /\ \A c \in filled : c = k.cart /\ cart'[c] # None /\ cart[c].total = k.seen
            => cart[c] # None /\ cart'[c].total = k.sum
  BY <1>1, SaveTotalOthers
<1>4. ASSUME NEW c \in filled, k.cart = c, c \notin disturbed', cart'[c] # None
      PROVE  Matched(c)'
  <2>1. cart[c] # None
    BY <1>1, <1>4, CollectedAreIds, SaveTotalKeeps
  <2>2. k.seen = cart[c].total /\ k.sum = CartTotal(RowsOf(c))
    BY <1>1, <1>4, <2>1 DEF TotalsKept, CartsOK, CartOK, CallTotal
  <2>3. cart'[c].total = CartTotal(RowsOf(c)) /\ c \in edited'
    BY <1>1, <1>2, <1>3, <1>4, <2>2
  <2>4. (\A r \in RowsOf(c) : row[r].variant = None)
           => FullTotal(Rows(c)) = CartTotal(RowsOf(c))
    BY PlainCart
  <2>5. RowsOf(c)' = RowsOf(c) /\ Rows(c)' = Rows(c) /\ row' = row
    BY <1>1 DEF Rows, RowsOf
  <2>6. FullTotal(Rows(c))' = FullTotal(Rows(c))
    BY <2>5 DEF FullTotal, UnitPrice
  <2>7. QED BY <2>3, <2>4, <2>5, <2>6 DEF Matched
<1>5. QED BY <1>1, <1>3, <1>4, EndsStoring

-----------------------------------------------------------------------------
\* The items of an order, when they are the first in its cart, come to its lines' total.
LEMMA InsertedTotal ==
    ASSUME Typed, NEW s \in Callers, NEW lines \in Baskets, NEW c,
           call[s].cart = c, c # None, RowsOf(c) = {},
           \A r \in RowIds \ (cartItems + 1 .. cartItems + Len(lines)) : row'[r] = row[r],
           \A i \in 1 .. Len(lines) :
              /\ cartItems + i \in RowIds
              /\ row'[cartItems + i] = NewRow(s, lines[i])
              /\ row'[cartItems + i] # None
    PROVE  FullTotal(Rows(c))' = FullTotal(lines)
<1> DEFINE m == cartItems
<1> DEFINE n == Len(lines)
<1> DEFINE S == DOMAIN lines
<1> DEFINE T == m + 1 .. m + n
<1> DEFINE v == Charges(lines)
<1> DEFINE w == [r \in T |-> UnitPrice(row'[r]) * row'[r].qty]
<1>1. m \in Nat /\ n \in Nat /\ S = 1 .. n
  BY BasketFacts, BoundsAssumption DEF Typed, Stored
<1>2. v \in [S -> Int] /\ \A i \in S : v[i] = UnitPrice(lines[i]) * lines[i].qty
  BY BasketPrices
<1>3. \A r \in T : r - m \in S /\ r = m + (r - m)
  BY <1>1
<1>4. \A i \in S : m + i \in T
  BY <1>1
<1>5. \A i \in S : m + i \in RowIds /\ row'[m + i] = NewRow(s, lines[i]) /\ row'[m + i] # None
  BY <1>1
<1>6. \A r \in RowIds \ T : row'[r] = row[r]
  OBVIOUS
<1> HIDE DEF T, S, v
<1>7. RowsOf(c)' = T
  <2>1. ASSUME NEW r \in T PROVE r \in RowsOf(c)'
    <3>1. r - m \in S /\ r = m + (r - m)
      BY <1>3
    <3>2. r \in RowIds /\ row'[r] # None /\ row'[r] = NewRow(s, lines[r - m])
      BY <1>5, <3>1
    <3>3. row'[r].cart = c
      BY <3>2 DEF NewRow
    <3>4. QED BY <3>2, <3>3 DEF RowsOf
  <2>2. ASSUME NEW r \in RowsOf(c)', r \notin T PROVE FALSE
    <3>1. r \in RowIds /\ row'[r] # None /\ row'[r].cart = c
      BY DEF RowsOf
    <3>2. row'[r] = row[r]
      BY <1>6, <2>2, <3>1
    <3>3. r \in RowsOf(c)
      BY <3>1, <3>2 DEF RowsOf
    <3>4. QED BY <3>3
  <2>3. QED BY <2>1, <2>2
<1>8. ASSUME NEW i \in S PROVE w[m + i] = v[i]
  <2>1. row'[m + i] = NewRow(s, lines[i]) /\ m + i \in T
    BY <1>4, <1>5
  <2>2. /\ row'[m + i].qty = lines[i].qty /\ row'[m + i].item = lines[i].item
        /\ row'[m + i].variant = lines[i].variant
    BY <2>1 DEF NewRow
  <2>3. w[m + i] = UnitPrice(row'[m + i]) * row'[m + i].qty
    BY <2>1
  <2>4. UnitPrice(row'[m + i]) = UnitPrice(lines[i])
    BY <2>2 DEF UnitPrice
  <2>5. QED BY <1>2, <2>2, <2>3, <2>4
<1>9. w \in [T -> Int]
  <2>1. ASSUME NEW r \in T PROVE w[r] \in Int
    <3>1. r - m \in S /\ r = m + (r - m)
      BY <1>3
    <3>2. w[r] = v[r - m]
      BY <1>8, <3>1
    <3>3. QED BY <1>2, <3>1, <3>2
  <2>2. w = [r \in T |-> w[r]]
    OBVIOUS
  <2> HIDE DEF w
  <2>3. QED BY <2>1, <2>2
<1>10. SumFunction(v) = SumFunction(w)
  <2> DEFINE f == [i \in S |-> m + i]
  <2>1. IsFiniteSet(S) /\ IsFiniteSet(T)
    <3>1. IsFiniteSet(1 .. n) /\ IsFiniteSet(m + 1 .. m + n)
      BY <1>1, FS_Interval
    <3>2. QED BY <1>1, <3>1 DEF T
  <2>2. f \in [S -> T]
    BY <1>4
  <2>3. \A x \in S, y \in S : f[x] = f[y] => x = y
    BY <1>1
  <2>4. T = {f[x] : x \in S}
    <3>1. ASSUME NEW r \in T PROVE r \in {f[x] : x \in S}
      <4>1. r - m \in S /\ f[r - m] = r
        BY <1>3
      <4> HIDE DEF f
      <4>2. QED BY <4>1
    <3>2. \A x \in S : f[x] \in T
      BY <2>2
    <3> HIDE DEF f
    <3>3. QED BY <3>1, <3>2
  <2>5. \A x \in S : w[f[x]] = v[x]
    BY <1>8
  <2>6. v \in [S -> Int]
    BY <1>2
  <2> HIDE DEF f, w, m, n
  <2>7. QED BY ONLY <1>9, <2>1, <2>2, <2>3, <2>4, <2>5, <2>6, SumRenamed
<1>11. FullTotal(lines) = SumFunction(v)
  BY DEF FullTotal, v, Charges
<1>12. FullTotal(Rows(c))' = SumFunction(w)
  <2>1. Rows(c)' = [r \in T |-> row'[r]]
    BY <1>7 DEF Rows
  <2>2. [r \in DOMAIN Rows(c)' |-> UnitPrice(Rows(c)'[r]) * Rows(c)'[r].qty] = w
    BY <2>1 DEF UnitPrice
  <2>3. FullTotal(Rows(c))'
           = SumFunction([r \in DOMAIN Rows(c)' |-> UnitPrice(Rows(c)'[r]) * Rows(c)'[r].qty])
    BY DEF FullTotal, UnitPrice
  <2> HIDE DEF w
  <2>4. QED BY <2>2, <2>3
<1> HIDE DEF w
<1>13. QED BY <1>10, <1>11, <1>12

\* The items of an order are inserted, or none is; the cart was empty.
LEMMA InsertRowsKept ==
    ASSUME Inv, Typed, Priced, TotalsKept, NEW s \in Callers, InsertRows(s)
    PROVE  TotalsKept'
<1> DEFINE k == call[s]
<1> DEFINE n == Len(k.lines)
<1> DEFINE new == cartItems + 1 .. cartItems + n
<1>1. UNCHANGED <<listing, cart, filled, edited, disturbed>>
  BY DEF InsertRows, history
<1>2. /\ k.pc = "insert" /\ k.op \in {"order", "cart"} /\ k.lines \in Baskets
      /\ k.cart \in filled /\ k.cart \in CartIds /\ k.left = {}
      /\ \/ End(s) /\ UNCHANGED <<row, cartItems>>
         \/ /\ Goto(s, "save")
            /\ cartItems' = cartItems + n /\ cartItems' \in 0 .. MaxRows
            /\ row' \in [RowIds -> ItemRow \cup {None}]
            /\ \A r \in RowIds \ new : row'[r] = row[r]
            /\ \A i \in 1 .. n :
                  /\ cartItems + i \in RowIds
                  /\ row'[cartItems + i] = NewRow(s, k.lines[i])
                  /\ row'[cartItems + i] # None
  BY InsertRowsDoes
<1>3. ASSUME NEW c \in filled, k.cart = c, c \notin disturbed, cart[c] # None
      PROVE  cart[c].total = 0 /\ RowsOf(c) = {}
  BY <1>2, <1>3 DEF TotalsKept, CartsOK, CartOK, CallTotal
<1>4. CASE End(s) /\ UNCHANGED <<row, cartItems>>
  <2>1. ASSUME NEW c \in filled, k.cart = c, c \notin disturbed', cart[c] # None
        PROVE  Matched(c)
    BY <1>1, <1>3, <2>1, EmptyCart DEF Matched
  <2>2. QED BY <1>1, <1>4, <2>1, EndsKept
<1>5. CASE ~(End(s) /\ UNCHANGED <<row, cartItems>>)
  <2>1. /\ Goto(s, "save")
        /\ cartItems' = cartItems + n /\ cartItems' \in 0 .. MaxRows
        /\ \A r \in RowIds \ new : row'[r] = row[r]
        /\ \A i \in 1 .. n :
              /\ cartItems + i \in RowIds
              /\ row'[cartItems + i] = NewRow(s, k.lines[i])
              /\ row'[cartItems + i] # None
    BY <1>2, <1>5
  <2>2. /\ \A t \in Callers \ {s} : call'[t] = call[t]
        /\ call'[s].pc = "save" /\ call'[s].op = k.op /\ call'[s].cart = k.cart
        /\ call'[s].lines = k.lines /\ call'[s].left = k.left /\ call'[s].sum = k.sum
    BY <2>1, GotoDoes DEF Typed
  <2>3. CallKnown(k) /\ RowsKnown
    BY DEF TotalsKept, Known
  <2>4. /\ cartItems \in Nat /\ n \in Nat /\ cartItems' \in Nat /\ DOMAIN k.lines = 1 .. n
        /\ \A r \in RowIds : r \in Int
    BY <1>2, <2>1, BasketFacts, BoundsAssumption DEF Typed, Stored, RowIds
  <2>5. ASSUME NEW r \in new
        PROVE  /\ r > cartItems /\ r <= cartItems' /\ r \in RowIds /\ row[r] = None
               /\ row'[r].cart = k.cart /\ listing[row'[r].item] # "unused"
    <3>1. r - cartItems \in 1 .. n /\ r = cartItems + (r - cartItems)
      BY <2>4
    <3>2. r \in RowIds /\ row'[r] = NewRow(s, k.lines[r - cartItems])
      BY <2>1, <3>1
    <3>3. row'[r].cart = k.cart /\ row'[r].item = k.lines[r - cartItems].item
      BY <3>2 DEF NewRow
    <3>4. r > cartItems /\ r <= cartItems'
      BY <2>1, <2>4
    <3>5. listing[k.lines[r - cartItems].item] # "unused"
      BY <1>2, <2>3, <2>4, <3>1 DEF CallKnown
    <3>6. row[r] = None
      BY <2>3, <2>4, <3>2, <3>4 DEF RowsKnown
    <3>7. QED BY <3>2, <3>3, <3>4, <3>5, <3>6
  <2> HIDE DEF new
  <2>6. Ages
    <3>1. ASSUME NEW r \in RowIds, r <= cartItems PROVE row'[r] = row[r]
      <4>1. r \notin new
        BY <2>4, <2>5, <3>1
      <4>2. QED BY <2>1, <4>1
    <3>2. ASSUME NEW r \in RowIds, row'[r] # None
          PROVE  row[r] # None \/ (r <= cartItems' /\ listing'[row'[r].item] # "unused")
      <4>1. CASE r \in new
        BY <1>1, <2>5, <4>1
      <4>2. CASE r \notin new
        BY <2>1, <3>2, <4>2
      <4>3. QED BY <4>1, <4>2
    <3>3. cartItems <= cartItems'
      BY <2>1, <2>4
    <3>4. QED BY <1>1, <2>4, <3>1, <3>2, <3>3 DEF Ages
  <2>7. Forward
    BY <1>1 DEF Forward
  <2>8. ASSUME NEW c \in filled, k.cart # c PROVE KeepsCart(c)
    <3>1. RowsOf(c)' = RowsOf(c) /\ \A r \in RowsOf(c) : row'[r] = row[r]
      <4>1. \A r \in RowsOf(c)' : r \in RowIds /\ r \notin new /\ row'[r] = row[r]
        BY <2>1, <2>5, <2>8 DEF RowsOf
      <4>2. \A r \in RowsOf(c) : r \in RowIds /\ r \notin new /\ row'[r] = row[r]
        BY <2>1, <2>5, <2>8 DEF RowsOf
      <4>3. QED BY <4>1, <4>2 DEF RowsOf
    <3>2. QED BY <1>1, <3>1 DEF KeepsCart
  <2>9. CallKnown(call[s])'
    BY <1>1, <1>2, <2>2, <2>3 DEF CallKnown
  <2>10. ASSUME NEW c \in filled, call'[s].cart = c, c \notin disturbed', cart'[c] # None
         PROVE  CallTotal(call[s], c)'
    <3>1. k.cart = c /\ c # None /\ cart[c].total = 0 /\ RowsOf(c) = {}
      BY <1>1, <1>3, <2>2, <2>10, CollectedAreIds, BoundsAssumption
    <3>2. FullTotal(Rows(c))' = FullTotal(k.lines)
      BY <1>2, <2>1, <3>1, InsertedTotal DEF new
    <3>3. k.sum = FullTotal(k.lines)
      <4>1. CallPriced(k) /\ Charges(k.lines) \in [DOMAIN k.lines -> Int]
        BY <1>2, BasketPrices DEF Priced, CallsPriced
      <4>2. k.sum = SumFunction(Charges(k.lines))
        BY <1>2, <4>1, NothingLeft DEF CallPriced
      <4>3. QED BY <4>2 DEF FullTotal, Charges
    <3>4. QED BY <1>1, <2>2, <3>1, <3>2, <3>3 DEF CallTotal
  <2>11. QED BY <1>1, <2>2, <2>6, <2>7, <2>8, <2>9, <2>10, GoesOnStoring
<1>6. QED BY <1>4, <1>5

\* An edit changes its item where it is; the total of the cart comes next.
LEMMA UpdateRowKept ==
    ASSUME Inv, Typed, TotalsKept, NEW s \in Callers, UpdateRow(s)
    PROVE  TotalsKept'
<1> DEFINE k == call[s]
<1>1. UNCHANGED <<listing, cart, cartItems, filled, edited, disturbed>>
  BY DEF UpdateRow, history, counters
<1>2. /\ k.op = "edit" /\ k.pc = "update" /\ k.row \in RowIds
      /\ \A t \in Callers \ {s} : call'[t] = call[t]
      /\ call'[s].pc = "recalculate"
      /\ call'[s].op = k.op /\ call'[s].cart = k.cart /\ call'[s].row = k.row
      /\ \A r \in RowIds \ {k.row} : row'[r] = row[r]
      /\ row[k.row] = None => row'[k.row] = None
      /\ row[k.row] # None =>
            /\ row'[k.row] # None
            /\ row'[k.row].item = row[k.row].item
            /\ row'[k.row].cart = row[k.row].cart
  BY UpdateRowDoes
<1>3. CallKnown(k)
  BY DEF TotalsKept, Known
<1>4. cartItems \in Nat
  BY BoundsAssumption DEF Typed, Stored
<1>5. Ages
  BY <1>1, <1>2, <1>4 DEF Ages
<1>6. Forward
  BY <1>1 DEF Forward
<1>7. ASSUME NEW c \in filled, k.cart # c PROVE KeepsCart(c)
  <2>1. c # None
    BY CollectedAreIds, BoundsAssumption
  <2>2. row[k.row] # None => row[k.row].cart # c
    BY <1>2, <1>3, <1>7, <2>1 DEF CallKnown
  <2>3. RowsOf(c)' = RowsOf(c) /\ \A r \in RowsOf(c) : row'[r] = row[r]
    BY <1>2, <2>2 DEF RowsOf
  <2>4. QED BY <1>1, <2>3 DEF KeepsCart
<1>8. CallKnown(call[s])'
  BY <1>1, <1>2, <1>3 DEF CallKnown
<1>9. \A c : CallTotal(call[s], c)'
  BY <1>2 DEF CallTotal
<1>10. QED BY <1>1, <1>2, <1>5, <1>6, <1>7, <1>8, <1>9, GoesOnStoring

-----------------------------------------------------------------------------
\* A cart that is deleted is gone, and takes nothing of another with it.
LEMMA DeleteCartKept ==
    ASSUME Inv, Typed, TotalsKept, NEW c \in CartIds, DeleteCart(c)
    PROVE  TotalsKept'
<1>1. /\ UNCHANGED <<listing, call, cartItems, filled, edited, disturbed>>
      /\ cart' = [cart EXCEPT ![c] = None]
      /\ \/ row' = [r \in RowIds |-> IF r \in RowsOf(c) THEN None ELSE row[r]]
         \/ row' = [r \in RowIds |-> IF r \in RowsOf(c)
                                     THEN [row[r] EXCEPT !.cart = None] ELSE row[r]]
  BY DEF DeleteCart, counters
<1>2. /\ cartItems \in Nat /\ DOMAIN cart = CartIds
      /\ \A r \in RowIds :
            row[r] # None => DOMAIN row[r] = {"item", "variant", "qty", "cart", "customer"}
  BY BoundsAssumption DEF Typed, Stored, Inv, Shaped
<1>3. \A r \in RowIds \ RowsOf(c) : row'[r] = row[r]
  BY <1>1
<1>4. ASSUME NEW r \in RowsOf(c)
      PROVE  /\ r \in RowIds /\ row[r] # None /\ row[r].cart = c
             /\ row'[r] # None => row'[r].item = row[r].item /\ row'[r].cart = None
  <2>1. r \in RowIds /\ row[r] # None /\ row[r].cart = c
    BY DEF RowsOf
  <2>2. row'[r] = None \/ row'[r] = [row[r] EXCEPT !.cart = None]
    BY <1>1, <2>1
  <2>3. QED BY <1>2, <2>1, <2>2
<1>5. Ages
  <2>1. ASSUME NEW r \in RowIds, row'[r] # None
        PROVE  /\ row[r] # None /\ row'[r].item = row[r].item
               /\ row'[r].cart \in {row[r].cart, None}
    BY <1>3, <1>4, <2>1
  <2>2. QED BY <1>1, <1>2, <2>1 DEF Ages
<1>6. Forward
  BY <1>1 DEF Forward
<1>7. ASSUME NEW d \in filled, d # c PROVE KeepsCart(d)
  <2>1. d \in CartIds /\ d # None
    BY CollectedAreIds, BoundsAssumption
  <2>2. \A r \in RowsOf(d) : r \in RowIds \ RowsOf(c)
    BY <1>7 DEF RowsOf
  <2>3. \A r \in RowsOf(d)' : r \in RowIds \ RowsOf(c)
    BY <1>4, <2>1 DEF RowsOf
  <2>4. RowsOf(d)' = RowsOf(d) /\ \A r \in RowsOf(d) : row'[r] = row[r]
    BY <1>3, <2>2, <2>3 DEF RowsOf
  <2>5. QED BY <1>1, <1>2, <1>7, <2>1, <2>4 DEF KeepsCart
<1>8. cart'[c] = None
  BY <1>1, <1>2
<1>9. QED BY <1>1, <1>5, <1>6, <1>7, <1>8, CallsWaitKept

\* Cart items go one by one, or with what they name; their carts count as disturbed.
LEMMA RowsGoKept ==
    ASSUME Inv, Typed, TotalsKept, Forward, NEW S,
           UNCHANGED <<cart, call, cartItems, filled, edited>>,
           \A i \in Items : listing[i] # "unused" => listing'[i] # "unused",
           row' = [r \in RowIds |-> IF r \in S THEN None ELSE row[r]],
           \A r \in S : r \in RowIds /\ row[r].cart \in disturbed' \cup {None}
    PROVE  TotalsKept'
<1>1. cartItems \in Nat
  BY BoundsAssumption DEF Typed, Stored
<1>2. \A r \in RowIds : row'[r] \in {row[r], None} /\ (r \notin S => row'[r] = row[r])
  OBVIOUS
<1>3. Ages
  BY <1>1, <1>2 DEF Ages
<1>4. ASSUME NEW c \in filled, c \notin disturbed' PROVE KeepsCart(c)
  <2>1. c # None
    BY CollectedAreIds, BoundsAssumption
  <2>2. \A r \in RowIds : row[r] # None /\ row[r].cart = c => row'[r] = row[r]
    BY <1>2, <1>4, <2>1
  <2>3. RowsOf(c)' = RowsOf(c) /\ \A r \in RowsOf(c) : row'[r] = row[r]
    BY <1>2, <2>2 DEF RowsOf
  <2>4. QED BY <2>3 DEF KeepsCart
<1>5. QED BY <1>3, <1>4, CallsWaitKept

LEMMA OneStepKept ==
    ASSUME Inv, Typed, TotalsKept, OneStep
    PROVE  TotalsKept'
<1>1. ASSUME NEW u \in Customers, NEW total \in Amounts, CreateCart(u, total)
      PROVE  TotalsKept'
  <2>1. /\ UNCHANGED <<listing, row, call, cartItems, filled, edited, disturbed>>
        /\ NewCart(None, u, total)
    BY <1>1 DEF CreateCart, history
  <2>2. Ages /\ Forward /\ \A c \in filled : KeepsCart(c)
    BY <2>1, NewCartKeeps
  <2>3. QED BY <2>1, <2>2, CallsWaitKept
<1>2. ASSUME NEW r \in RowIds, DeleteRow(r) PROVE TotalsKept'
  <2>1. /\ UNCHANGED <<listing, cart, call, cartItems, filled, edited>>
        /\ row' = [row EXCEPT ![r] = None]
        /\ disturbed' = disturbed \cup ({row[r].cart} \ {None})
    BY <1>2 DEF DeleteRow, counters
  <2>2. row' = [q \in RowIds |-> IF q \in {r} THEN None ELSE row[q]]
    BY <2>1 DEF Inv, Shaped
  <2>3. Forward
    BY <2>1 DEF Forward
  <2>4. \A q \in {r} : q \in RowIds /\ row[q].cart \in disturbed' \cup {None}
    BY <2>1
  <2>5. QED BY <2>1, <2>2, <2>3, <2>4, RowsGoKept
<1>3. ASSUME NEW i \in Items, RegisterItem(i) PROVE TotalsKept'
  <2>1. /\ UNCHANGED <<cart, row, call, cartItems, filled, edited, disturbed>>
        /\ listing[i] = "unused" /\ listing' = [listing EXCEPT ![i] = "listed"]
    BY <1>3 DEF RegisterItem, history, counters
  <2>2. cartItems \in Nat /\ DOMAIN listing = Items
    BY BoundsAssumption DEF Typed, Stored
  <2>3. Ages
    BY <2>1, <2>2 DEF Ages
  <2>4. Forward
    BY <2>1, <2>2 DEF Forward
  <2>5. \A c : KeepsCart(c)
    BY <2>1 DEF KeepsCart, RowsOf
  <2>6. QED BY <2>1, <2>3, <2>4, <2>5, CallsWaitKept
<1>4. ASSUME NEW S, DeleteItems(S), \A i \in S : i \in Items /\ Listed(i) PROVE TotalsKept'
  <2> DEFINE naming == {r \in RowIds : row[r] # None /\ row[r].item \in S}
  <2>1. /\ UNCHANGED <<cart, call, cartItems, filled, edited>>
        /\ listing' = [i \in Items |-> IF i \in S THEN "deleted" ELSE listing[i]]
        /\ \/ UNCHANGED <<row, disturbed>>
           \/ /\ row' = [r \in RowIds |-> IF r \in naming THEN None ELSE row[r]]
              /\ disturbed' = disturbed \cup ({row[r].cart : r \in naming} \ {None})
    BY <1>4 DEF DeleteItems, counters
  <2>2. Forward
    BY <2>1 DEF Forward
  <2>3. \A i \in Items : listing[i] # "unused" => listing'[i] # "unused"
    BY <2>1
  <2>4. CASE UNCHANGED <<row, disturbed>>
    <3>1. Ages
      BY <2>1, <2>3, <2>4, BoundsAssumption DEF Ages, Typed, Stored
    <3>2. \A c : KeepsCart(c)
      BY <2>1, <2>4 DEF KeepsCart, RowsOf
    <3>3. QED BY <2>1, <2>2, <3>1, <3>2, CallsWaitKept
  <2>5. CASE ~UNCHANGED <<row, disturbed>>
    <3>1. naming \subseteq RowIds
      OBVIOUS
    <3> HIDE DEF naming
    <3>2. \A r \in naming : r \in RowIds /\ row[r].cart \in disturbed' \cup {None}
      BY <2>1, <2>5, <3>1
    <3>3. QED BY <2>1, <2>2, <2>3, <2>5, <3>2, RowsGoKept
  <2>6. QED BY <2>4, <2>5
<1>5. QED BY <1>1, <1>2, <1>3, <1>4, DeleteCartKept DEF OneStep, DeleteItem, DeleteMerchant

\* After a restart nobody is at work; the carts that somebody worked on are disturbed.
LEMMA CrashKept ==
    ASSUME Inv, Typed, TotalsKept, Crash
    PROVE  TotalsKept'
<1>1. /\ UNCHANGED <<listing, cart, row, cartItems, filled, edited>>
      /\ call' = [s \in Callers |-> Idle] /\ disturbed' = disturbed \cup Touched
  BY DEF Crash
<1>2. Ages /\ Forward /\ \A c : KeepsCart(c)
  BY <1>1, NothingStored
<1>3. \A s \in Callers : CallKnown(call[s])' /\ call'[s].cart = None
  BY <1>1, IdleKnown
<1>4. Apart'
  BY <1>3 DEF Apart
<1>5. Known'
  BY <1>2, <1>3, RowsAge DEF TotalsKept, Known
<1>6. ASSUME NEW c \in filled PROVE CartOK(c)'
  <2>1. c # None
    BY CollectedAreIds, BoundsAssumption
  <2>2. \A s \in Callers : call[s].cart = c => c \in disturbed'
    BY <1>1, <2>1 DEF Touched
  <2>3. QED BY <1>2, <1>3, <2>1, <2>2, CartStays
<1>7. QED BY <1>1, <1>4, <1>5, <1>6 DEF TotalsKept, CartsOK

LEMMA InitKept == Init => TotalsKept
BY DEF Init, TotalsKept, Apart, Known, RowsKnown, CallKnown, CartsOK, Idle

LEMMA NextKept == Inv /\ Typed /\ Priced /\ TotalsKept /\ [Next]_vars => TotalsKept'
<1> SUFFICES ASSUME Inv, Typed, Priced, TotalsKept, [Next]_vars PROVE TotalsKept'
  OBVIOUS
<1>1. ASSUME NEW s \in Callers, StartCall(s) PROVE TotalsKept'
  BY <1>1, FillCartKept, StartCollectKept, OtherStartsKept DEF StartCall
<1>2. ASSUME NEW s \in Callers, CallStep(s) PROVE TotalsKept'
  <2>1. CASE \E n \in call[s].left : PriceLine(s, n) \/ PriceLooseRow(s, n)
    BY <2>1, PriceLineKept, CollectKept
  <2>2. CASE InsertRows(s) \/ SaveCart(s) \/ PlaceOrder(s)
    BY <2>2, InsertRowsKept, SaveCartKept, PlaceOrderKept
  <2>3. CASE FindLooseRows(s) \/ QuoteLine(s)
    BY <2>3, CollectKept, QuoteLineKept
  <2>4. CASE FindRow(s) \/ UpdateRow(s) \/ RecalculateTotal(s)
    BY <2>4, FindRowKept, UpdateRowKept, RecalculateTotalKept
  <2>5. CASE FindCart(s) \/ StoreTotal(s)
    BY <2>5, FindCartKept, StoreTotalKept
  <2>6. QED BY <1>2, <2>1, <2>2, <2>3, <2>4, <2>5 DEF CallStep
<1>3. CASE UNCHANGED vars
  <2>1. UNCHANGED <<listing, cart, row, cartItems, edited, call, filled, disturbed>>
    BY <1>3 DEF vars, history, counters
  <2>2. QED BY <2>1, NothingStored, CallsWaitKept
<1>4. QED BY <1>1, <1>2, <1>3, OneStepKept, CrashKept DEF Next, Request

LEMMA KeptImplies == TotalsKept => TotalMatchesItems
<1> SUFFICES ASSUME TotalsKept, NEW c \in filled, Settled(c),
                    \A r \in RowsOf(c) : Listed(row[r].item),
                    c \in edited => \A r \in RowsOf(c) : row[r].variant = None
             PROVE  cart[c].total = FullTotal(Rows(c))
  BY DEF TotalMatchesItems, Rows
<1>1. Matched(c)
  BY DEF TotalsKept, CartsOK, CartOK, Settled
<1>2. QED BY <1>1 DEF Matched

\* A cart that addToCartItem filled, that nobody works on and that only complete calls
\* have changed, one after the other, has the total of its items, unless one of them is
\* gone from the catalogue or an update forgot a variant (cart.service.ts:102, 369).
THEOREM TotalsMatch == Spec => []TotalMatchesItems
<1>1. Init => Inv /\ Typed /\ Priced /\ TotalsKept
  BY InitInv, InitTyped, InitPriced, InitKept
<1>2. Inv /\ Typed /\ Priced /\ TotalsKept /\ [Next]_vars
         => Inv' /\ Typed' /\ Priced' /\ TotalsKept'
  BY NextKeeps, NextTyped, NextPriced, NextKept
<1>3. TotalsKept => TotalMatchesItems
  BY KeptImplies
<1>4. QED BY <1>1, <1>2, <1>3, PTL DEF Spec
===============================================================================
