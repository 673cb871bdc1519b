------------------------------- MODULE Carts --------------------------------
(***************************************************************************)
(* Carts, cart items and the catalogue they are priced from.               *)
(*                                                                         *)
(* An order fills a fresh cart (addToCartItem): the cart is created, its   *)
(* lines are looked up, all items are inserted by one statement, and the   *)
(* total is saved; only then is the order stored.  Meanwhile carts and     *)
(* items can be edited, deleted or collected (addToCart) by other calls,   *)
(* each of which holds what it read across its awaits.  As elsewhere, a    *)
(* save writes the fields that differ from the copy, and nothing when the  *)
(* row is gone.                                                            *)
(***************************************************************************)
EXTENDS Integers, Sequences, FiniteSetsExt

CONSTANTS
    Customers,   \* ids of the customers
    Items,       \* ids the items table gives out
    Merchants,   \* ids of the merchants
    ItemMerchant, \* per item, its merchant
    Variants,    \* ids of the variants
    VariantItem, \* per variant, its item
    Price,       \* per item, items.price
    Additional,  \* per variant, variants.additional_price
    Fees,        \* partnerProfit + merchantProfit
    Baskets,     \* what customers order: sequences of lines
    Edits,       \* what updateCartItem is asked for: [qty, variant]
    Keep,        \* the variant of an edit that does not mention one
    Amounts,     \* totals that PUT and POST carts are asked to store
    Callers,     \* bound: HTTP requests under way at the same time
    MaxCalls,    \* bound: requests made
    MaxCarts,    \* bound: carts created
    MaxRows,     \* bound: cart items created
    MaxCrashes,  \* bound: restarts of the process
    None         \* null, or a local variable that has no value

CartIds == 1 .. MaxCarts
RowIds == 1 .. MaxRows

Line == [item : Items, variant : Variants \cup {None}, qty : Int]

ItemRow == [item : Items, variant : Variants \cup {None}, qty : Int,
            cart : CartIds \cup {None}, customer : Customers]

ASSUME CatalogueAssumption ==
    /\ ItemMerchant \in [Items -> Merchants]
    /\ VariantItem \in [Variants -> Items]
    /\ Price \in [Items -> Nat]
    /\ Additional \in [Variants -> Nat]

ASSUME RequestAssumption ==
    /\ \A b \in Baskets : b \in Seq(Line) /\ Len(b) <= MaxRows
    /\ \A e \in Edits : e.qty \in Int /\ e.variant \in Variants \cup {None, Keep}
    /\ Amounts \subseteq Int /\ Fees \in Nat
    /\ Keep \notin Variants \cup {None}

ASSUME BoundsAssumption ==
    /\ {MaxCalls, MaxCarts, MaxRows, MaxCrashes} \subseteq Nat
    /\ None \notin CartIds \cup ItemRow

VARIABLES
    listing,    \* per item id: "unused", "listed" or "deleted"
    cart,       \* per cart id, [customer, total], or None
    row,        \* per cart item id, its row, or None
    orders,     \* the rows of orders: [cart, basket, amount]
    quotes,     \* history: prices customers were told, [basket, total, missing]
    call,       \* per caller, the call it is executing
    calls,      \* number of requests made
    carts,      \* number of carts created
    cartItems,  \* number of cart items created
    filled,     \* history: carts created by addToCartItem
    collected,  \* history: carts created by addToCart
    edited,     \* history: carts updateCartItem stored a total in
    disturbed,  \* history: carts two calls met on, or set or thinned by hand
    detached,   \* history: customers whose cart was deleted from its items
    crashes     \* history: restarts

books == <<orders, quotes>>
history == <<filled, collected, edited, disturbed, detached>>
counters == <<carts, cartItems, crashes>>
vars == <<listing, cart, row, books, call, calls, history, counters>>

CartRow == [customer : Customers, total : Int \cup {None}]

Idle == [op |-> "idle", pc |-> "idle", customer |-> None, cart |-> None,
         lines |-> <<>>, left |-> {}, missing |-> {}, sum |-> 0, row |-> None,
         copy |-> None, edit |-> None, seen |-> None]

\* op: the handler; pc: what it awaits; lines: what it prices, left: the ones
\* not looked up yet, missing: the ones not found, sum: the total so far; row, copy: the cart item it edits
\* and what it read of it; seen: the total it read before it stores sum
CallOK(s) ==
    /\ DOMAIN call[s] = DOMAIN Idle
    /\ call[s].op \in {"idle", "order", "cart", "collect", "edit", "put", "quote"}
    /\ call[s].pc \in {"idle", "price", "insert", "save", "place", "find",
                       "update", "recalculate", "findCart", "store", "quote"}
    /\ call[s].customer \in Customers \cup {None}
    /\ call[s].cart \in CartIds \cup {None}
    /\ \A k \in DOMAIN call[s].lines : k \in RowIds /\ call[s].lines[k] \in Line
    /\ call[s].left \cup call[s].missing \subseteq DOMAIN call[s].lines
    /\ call[s].sum \in Int
    /\ call[s].row \in RowIds \cup {None}
    /\ call[s].copy \in ItemRow \cup {None}
    /\ call[s].edit \in Edits \cup {None}
    /\ call[s].seen \in Int \cup {None}

TypeOK ==
    /\ listing \in [Items -> {"unused", "listed", "deleted"}]
    /\ cart \in [CartIds -> CartRow \cup {None}]
    /\ row \in [RowIds -> ItemRow \cup {None}]
    /\ orders \subseteq [cart : CartIds, basket : Baskets, amount : Int]
    /\ quotes \subseteq [basket : Baskets, total : Int, missing : SUBSET RowIds]
    /\ DOMAIN call = Callers /\ \A s \in Callers : CallOK(s)
    /\ calls \in 0 .. MaxCalls
    /\ carts \in 0 .. MaxCarts /\ cartItems \in 0 .. MaxRows
    /\ filled \cup collected \cup edited \cup disturbed \subseteq CartIds
    /\ detached \subseteq Customers
    /\ crashes \in 0 .. MaxCrashes

Init ==
    /\ listing \in [Items -> {"unused", "listed"}]
    /\ cart = [c \in CartIds |-> None]
    /\ row = [r \in RowIds |-> None]
    /\ orders = {} /\ quotes = {}
    /\ call = [s \in Callers |-> Idle]
    /\ calls = 0 /\ carts = 0 /\ cartItems = 0 /\ crashes = 0
    /\ filled = {} /\ collected = {} /\ edited = {}
    /\ disturbed = {} /\ detached = {}

-----------------------------------------------------------------------------
Listed(i) == listing[i] = "listed"

\* A variant is deleted with its item (ON DELETE CASCADE).
VariantListed(v) == Listed(VariantItem[v])

RowsOf(c) == {r \in RowIds : row[r] # None /\ row[r].cart = c}

\* Mutant of LooseRows: the rows in carts are taken as well.
AllRows(u) == {r \in RowIds : row[r] # None /\ row[r].customer = u}

\* Items of a customer in no cart: what addToCart collects.
LooseRows(u) ==
    {r \in RowIds : row[r] # None /\ row[r].cart = None /\ row[r].customer = u}

\* Item price and variant price: what addToCartItem and addToCart charge.
UnitPrice(line) ==
    Price[line.item] + (IF line.variant = None THEN 0 ELSE Additional[line.variant])

\* What a set of numbered lines costs.
FullTotal(lines) ==
    SumFunction([k \in DOMAIN lines |-> UnitPrice(lines[k]) * lines[k].qty])

\* Mutant of CartTotal: the quantity is left out.
CartTotalOfOnes(S) == SumFunction([r \in S |-> Price[row[r].item]])

\* calculateCartTotal: the price of the item alone.
CartTotal(S) == SumFunction([r \in S |-> Price[row[r].item] * row[r].qty])

Touched == {call[s].cart : s \in Callers} \ {None}

At(s, pc) == call[s].pc = pc

Goto(s, pc) == call' = [call EXCEPT ![s].pc = pc]

\* The call returns, or throws.
End(s) == call' = [call EXCEPT ![s] = Idle]

NewCart(s, u, total) ==
    /\ carts < MaxCarts
    /\ carts' = carts + 1
    /\ cart' = [cart EXCEPT ![carts'] = [customer |-> u, total |-> total]]

\* The save of a copy in which the total was "read" and is set to "total".
SaveTotal(c, read, total) ==
    cart' = IF cart[c] # None /\ total # read
            THEN [cart EXCEPT ![c].total = total] ELSE cart

-----------------------------------------------------------------------------
\* addToCartItem, for createOrder ("order") or for POST cart-items ("cart"):
\* the cart comes first.  Nobody checks that there are items.
FillCart(s, op, u, basket) ==
    /\ call[s] = Idle
    /\ NewCart(s, u, 0)
    /\ call' = [call EXCEPT ![s] = [Idle EXCEPT !.op = op,
                  !.pc = IF basket = <<>> THEN "insert" ELSE "price",
                  !.customer = u, !.cart = carts', !.lines = basket,
                  !.left = DOMAIN basket]]
    /\ filled' = filled \cup {carts'}
    /\ UNCHANGED <<listing, row, books, cartItems, crashes>>
    /\ UNCHANGED <<collected, edited, disturbed, detached>>

\* The look-ups of the lines run side by side; one that fails makes the call
\* throw, and the cart stays as it is.
PriceLine(s, k) ==
    LET line == call[s].lines[k] IN
    /\ At(s, "price") /\ call[s].op \in {"order", "cart"} /\ k \in call[s].left
    /\ IF Listed(line.item) /\ (line.variant # None => VariantListed(line.variant))
       THEN call' = [call EXCEPT ![s].left = @ \ {k},
                       ![s].sum = @ + UnitPrice(line) * line.qty,
                       ![s].pc = IF call[s].left = {k} THEN "insert" ELSE "price"]
       ELSE End(s)
    /\ UNCHANGED <<listing, cart, row, books, history, counters>>

\* Mutant of NewRow: the customer is left out.
NewRowWithoutCustomer(s, line) ==
    [item |-> line.item, variant |-> line.variant, qty |-> line.qty,
     cart |-> call[s].cart, customer |-> None]

NewRow(s, line) ==
    [item |-> line.item, variant |-> line.variant, qty |-> line.qty,
     cart |-> call[s].cart, customer |-> call[s].customer]

\* bulkCreate.  When the cart or an item has been deleted meanwhile, the
\* table's foreign keys decide whether the rows are accepted.
InsertRows(s) ==
    LET lines == call[s].lines
        dangling == \E k \in DOMAIN lines :
                       cart[call[s].cart] = None \/ ~Listed(lines[k].item)
    IN
    /\ At(s, "insert")
    /\ \/ /\ cartItems + Len(lines) <= MaxRows
          /\ cartItems' = cartItems + Len(lines)
          /\ row' = [r \in RowIds |-> IF r \in cartItems + 1 .. cartItems'
                                      THEN NewRow(s, lines[r - cartItems]) ELSE row[r]]
          /\ Goto(s, "save")
       \/ /\ dangling
          /\ End(s)
          /\ UNCHANGED <<row, cartItems>>
    /\ UNCHANGED <<listing, cart, books, history, carts, crashes>>

\* cart.save(): the end of addToCartItem, and of addToCart.
SaveCart(s) ==
    LET c == call[s].cart IN
    /\ At(s, "save")
    /\ SaveTotal(c, IF call[s].op = "collect" THEN None ELSE 0, call[s].sum)
    /\ IF call[s].op = "order" THEN Goto(s, "place") ELSE End(s)
    /\ UNCHANGED <<listing, row, books, history, counters>>

\* Mutant of PlaceOrder: the cart is read again for the amount.
PlaceOrderFromRow(s) ==
    /\ At(s, "place")
    /\ cart[call[s].cart] # None
    /\ orders' = orders \cup {[cart |-> call[s].cart, basket |-> call[s].lines,
                               amount |-> cart[call[s].cart].total + Fees]}
    /\ End(s)
    /\ UNCHANGED <<listing, cart, row, quotes, history, counters>>

\* createOrder goes on with the cart object addToCartItem returned; an error
\* (the distance, for one) ends it without an order.
PlaceOrder(s) ==
    /\ At(s, "place")
    /\ \/ orders' = orders \cup {[cart |-> call[s].cart, basket |-> call[s].lines,
                                  amount |-> call[s].sum + Fees]}
       \/ UNCHANGED orders
    /\ End(s)
    /\ UNCHANGED <<listing, cart, row, quotes, history, counters>>

-----------------------------------------------------------------------------
\* addToCart: a cart without a total, then the customer's items in no cart.
StartCollect(s, u) ==
    /\ call[s] = Idle
    /\ NewCart(s, u, None)
    /\ call' = [call EXCEPT ![s] = [Idle EXCEPT !.op = "collect", !.pc = "find",
                  !.customer = u, !.cart = carts']]
    /\ collected' = collected \cup {carts'}
    /\ UNCHANGED <<listing, row, books, cartItems, crashes>>
    /\ UNCHANGED <<filled, edited, disturbed, detached>>

FindLooseRows(s) ==
    LET found == LooseRows(call[s].customer) IN
    /\ At(s, "find") /\ call[s].op = "collect"
    /\ call' = [call EXCEPT ![s].left = found,
                  ![s].lines = [r \in found |-> [item |-> row[r].item,
                     variant |-> row[r].variant, qty |-> row[r].qty]],
                  ![s].pc = IF found = {} THEN "save" ELSE "price"]
    /\ UNCHANGED <<listing, cart, row, books, history, counters>>

\* Prices and quantities are validated here; a missing variant costs nothing.
PriceLooseRow(s, k) ==
    LET line == call[s].lines[k]
        charged == IF line.variant # None /\ ~VariantListed(line.variant)
                   THEN [line EXCEPT !.variant = None] ELSE line
    IN
    /\ At(s, "price") /\ call[s].op = "collect" /\ k \in call[s].left
    /\ IF Listed(line.item) /\ Price[line.item] > 0 /\ line.qty > 0
       THEN call' = [call EXCEPT ![s].left = @ \ {k},
                       ![s].sum = @ + UnitPrice(charged) * line.qty,
                       ![s].pc = IF call[s].left = {k} THEN "save" ELSE "price"]
       ELSE End(s)
    /\ UNCHANGED <<listing, cart, row, books, history, counters>>

-----------------------------------------------------------------------------
\* POST cart-items/calculate: what a basket would cost; nothing is stored.
StartQuote(s, basket) ==
    /\ call[s] = Idle
    /\ IF basket = <<>>
       THEN /\ quotes' = quotes \cup {[basket |-> <<>>, total |-> 0, missing |-> {}]}
            /\ UNCHANGED call
       ELSE /\ call' = [call EXCEPT ![s] = [Idle EXCEPT !.op = "quote", !.pc = "quote",
                          !.lines = basket, !.left = DOMAIN basket]]
            /\ UNCHANGED quotes
    /\ UNCHANGED <<listing, cart, row, orders, history, counters>>

\* Mutant of QuoteLine: a quantity of one is taken for granted.
QuoteUnitLine(s) ==
    LET lines == call[s].lines
        k == Min(call[s].left)
        found == Listed(lines[k].item)
        total == call[s].sum + (IF found THEN Price[lines[k].item] ELSE 0)
        missing == call[s].missing \cup (IF found THEN {} ELSE {k})
    IN
    /\ At(s, "quote")
    /\ IF call[s].left = {k}
       THEN /\ quotes' = quotes \cup {[basket |-> lines, total |-> total, missing |-> missing]}
            /\ End(s)
       ELSE /\ call' = [call EXCEPT ![s].left = @ \ {k}, ![s].sum = total,
                                    ![s].missing = missing]
            /\ UNCHANGED quotes
    /\ UNCHANGED <<listing, cart, row, orders, history, counters>>

\* calculateTotalPrice looks the items up one after the other and counts those
\* it does not find, and all variants, for nothing.
QuoteLine(s) ==
    LET lines == call[s].lines
        k == Min(call[s].left)
        found == Listed(lines[k].item)
        total == call[s].sum + (IF found THEN Price[lines[k].item] * lines[k].qty ELSE 0)
        missing == call[s].missing \cup (IF found THEN {} ELSE {k})
    IN
    /\ At(s, "quote")
    /\ IF call[s].left = {k}
       THEN /\ quotes' = quotes \cup {[basket |-> lines, total |-> total, missing |-> missing]}
            /\ End(s)
       ELSE /\ call' = [call EXCEPT ![s].left = @ \ {k}, ![s].sum = total,
                                    ![s].missing = missing]
            /\ UNCHANGED quotes
    /\ UNCHANGED <<listing, cart, row, orders, history, counters>>

-----------------------------------------------------------------------------
StartEdit(s, r, e) ==
    /\ call[s] = Idle
    /\ r <= cartItems
    /\ call' = [call EXCEPT ![s] = [Idle EXCEPT !.op = "edit", !.pc = "find",
                  !.row = r, !.edit = e]]
    /\ UNCHANGED <<listing, cart, row, books, history, counters>>

\* A call that reads a cart, or an item of it, while another call is at work
\* on the cart.
Meets(c) == disturbed' = IF c \in Touched THEN disturbed \cup {c} ELSE disturbed

FindRow(s) ==
    LET r == call[s].row IN
    /\ At(s, "find") /\ call[s].op = "edit"
    /\ IF row[r] = None
       THEN End(s) /\ UNCHANGED disturbed
       ELSE /\ call' = [call EXCEPT ![s].copy = row[r], ![s].cart = row[r].cart,
                          ![s].pc = "update"]
            /\ Meets(row[r].cart)
    /\ UNCHANGED <<listing, cart, row, books, filled, collected, edited>>
    /\ UNCHANGED <<detached, counters>>

\* cartItem.save()
UpdateRow(s) ==
    LET r == call[s].row
        copy == call[s].copy
        e == call[s].edit
    IN
    /\ At(s, "update")
    /\ row' = IF row[r] = None THEN row
              ELSE [row EXCEPT ![r].qty = IF e.qty # copy.qty THEN e.qty ELSE @,
                               ![r].variant = IF e.variant \notin {Keep, copy.variant}
                                              THEN e.variant ELSE @]
    /\ Goto(s, "recalculate")
    /\ UNCHANGED <<listing, cart, books, history, counters>>

\* calculateCartTotal, which fails on an item that is gone.  For an item in no
\* cart it sums such items of all customers.
RecalculateTotal(s) ==
    LET S == RowsOf(call[s].cart) IN
    /\ At(s, "recalculate")
    /\ IF \A r \in S : Listed(row[r].item)
       THEN call' = [call EXCEPT ![s].sum = CartTotal(S), ![s].pc = "findCart"]
       ELSE End(s)
    /\ UNCHANGED <<listing, cart, row, books, history, counters>>

-----------------------------------------------------------------------------
\* PUT carts/:id, the other way into cartService.update
StartPut(s, c, total) ==
    /\ call[s] = Idle
    /\ c <= carts
    /\ call' = [call EXCEPT ![s] = [Idle EXCEPT !.op = "put", !.pc = "findCart",
                  !.cart = c, !.sum = total]]
    /\ disturbed' = disturbed \cup {c}
    /\ UNCHANGED <<listing, cart, row, books, filled, collected, edited>>
    /\ UNCHANGED <<detached, counters>>

\* cartService.update finds the cart, or answers 404: after the item was saved
\* when it is in no cart.
FindCart(s) ==
    LET c == call[s].cart IN
    /\ At(s, "findCart")
    /\ IF c = None THEN End(s)
       ELSE IF cart[c] = None THEN End(s)
       ELSE call' = [call EXCEPT ![s].seen = cart[c].total, ![s].pc = "store"]
    /\ UNCHANGED <<listing, cart, row, books, history, counters>>

StoreTotal(s) ==
    LET c == call[s].cart IN
    /\ At(s, "store")
    /\ SaveTotal(c, call[s].seen, call[s].sum)
    /\ edited' = IF call[s].op = "edit" THEN edited \cup {c} ELSE edited
    /\ End(s)
    /\ UNCHANGED <<listing, row, books, filled, collected, disturbed>>
    /\ UNCHANGED <<detached, counters>>

-----------------------------------------------------------------------------
\* POST carts: any customer, any total.
CreateCart(u, total) ==
    /\ NewCart(None, u, total)
    /\ UNCHANGED <<listing, row, books, call, cartItems, crashes, history>>

\* DELETE carts/:id.  For the items of the cart the foreign key decides: they
\* are deleted too, or they lose their cart, or the deletion is refused.
DeleteCart(c) ==
    /\ cart[c] # None
    /\ cart' = [cart EXCEPT ![c] = None]
    /\ \/ row' = [r \in RowIds |-> IF r \in RowsOf(c) THEN None ELSE row[r]]
          /\ UNCHANGED detached
       \/ /\ RowsOf(c) # {}
          /\ row' = [r \in RowIds |-> IF r \in RowsOf(c)
                                      THEN [row[r] EXCEPT !.cart = None] ELSE row[r]]
          /\ detached' = detached \cup {row[r].customer : r \in RowsOf(c)}
    /\ UNCHANGED <<listing, books, call, counters>>
    /\ UNCHANGED <<filled, collected, edited, disturbed>>

\* DELETE cart-items/:id, "deleteCart": the total of the cart is left alone.
DeleteRow(r) ==
    /\ row[r] # None
    /\ row' = [row EXCEPT ![r] = None]
    /\ disturbed' = disturbed \cup ({row[r].cart} \ {None})
    /\ UNCHANGED <<listing, cart, books, call, counters>>
    /\ UNCHANGED <<filled, collected, edited, detached>>

\* itemService.register: the item and its variants in one transaction.
RegisterItem(i) ==
    /\ listing[i] = "unused"
    /\ listing' = [listing EXCEPT ![i] = "listed"]
    /\ UNCHANGED <<cart, row, books, call, history, counters>>

\* Cart items that name a deleted item are deleted too, or keep a name that is
\* not found any more; or the deletion is refused.
DeleteItems(S) ==
    LET naming == {r \in RowIds : row[r] # None /\ row[r].item \in S} IN
    /\ S # {}
    /\ listing' = [i \in Items |-> IF i \in S THEN "deleted" ELSE listing[i]]
    /\ \/ UNCHANGED <<row, disturbed>>
       \/ /\ row' = [r \in RowIds |-> IF r \in naming THEN None ELSE row[r]]
          /\ disturbed' = disturbed \cup ({row[r].cart : r \in naming} \ {None})
    /\ UNCHANGED <<cart, books, call, counters>>
    /\ UNCHANGED <<filled, collected, edited, detached>>

\* DELETE items/:id
DeleteItem(i) == Listed(i) /\ DeleteItems({i})

\* DELETE merchants/:id: the items of the merchant go with it (ON DELETE CASCADE).
DeleteMerchant(m) == DeleteItems({i \in Items : ItemMerchant[i] = m /\ Listed(i)})

\* The process restarts: the calls under way are gone.
Crash ==
    /\ crashes < MaxCrashes
    /\ crashes' = crashes + 1
    /\ call' = [s \in Callers |-> Idle]
    /\ disturbed' = disturbed \cup Touched
    /\ UNCHANGED <<listing, cart, row, books, filled, collected, edited>>
    /\ UNCHANGED <<detached, carts, cartItems>>

StartCall(s) ==
    \/ \E op \in {"order", "cart"}, u \in Customers, b \in Baskets : FillCart(s, op, u, b)
    \/ \E u \in Customers : StartCollect(s, u)
    \/ \E b \in Baskets : StartQuote(s, b)
    \/ \E r \in RowIds, e \in Edits : StartEdit(s, r, e)
    \/ \E c \in CartIds, total \in Amounts : StartPut(s, c, total)

CallStep(s) ==
    \/ \E k \in call[s].left : PriceLine(s, k) \/ PriceLooseRow(s, k)
    \/ InsertRows(s)
    \/ SaveCart(s)
    \/ PlaceOrder(s)
    \/ FindLooseRows(s)
    \/ QuoteLine(s)
    \/ FindRow(s)
    \/ UpdateRow(s)
    \/ RecalculateTotal(s)
    \/ FindCart(s)
    \/ StoreTotal(s)

\* Requests that are done in one step.
OneStep ==
    \/ \E u \in Customers, total \in Amounts : CreateCart(u, total)
    \/ \E c \in CartIds : DeleteCart(c)
    \/ \E r \in RowIds : DeleteRow(r)
    \/ \E i \in Items : RegisterItem(i) \/ DeleteItem(i)
    \/ \E m \in Merchants : DeleteMerchant(m)

Request ==
    /\ calls < MaxCalls
    /\ calls' = calls + 1
    /\ OneStep \/ \E s \in Callers : StartCall(s)

Next ==
    \/ Request
    \/ (Crash \/ \E s \in Callers : CallStep(s)) /\ UNCHANGED calls

Spec == Init /\ [][Next]_vars

-----------------------------------------------------------------------------
\* Nobody is at work on the cart, and nothing but complete calls, one after
\* the other, has changed it.
Settled(c) ==
    /\ cart[c] # None
    /\ c \notin Touched \cup disturbed

\* An order is charged for what it asked for, at the prices of its items and
\* variants, whatever becomes of its cart while createOrder runs
\* (order.service.ts:76).
OrderChargesItsItems ==
    \A o \in orders : o.amount = FullTotal(o.basket) + Fees

\* Whoever orders what was quoted pays at least the quote (no quantity being
\* negative, which nobody checks), and exactly that (with the fees) unless the
\* quote missed an item or the basket has variants, whatever happens to
\* catalogue and cart in between (cart.service.ts:182).
QuoteHolds ==
    \A q \in quotes, o \in orders : o.basket = q.basket =>
        /\ (\A k \in DOMAIN q.basket : q.basket[k].qty >= 0) => q.total + Fees <= o.amount
        /\ q.missing = {} /\ (\A k \in DOMAIN q.basket : q.basket[k].variant = None)
               => o.amount = q.total + Fees

\* The total of a cart that was filled drifts from its items only for a known
\* reason: two calls met on it, it was changed by hand, an item is gone, or an
\* update forgot the price of a variant (cart.service.ts:102, 369).
TotalMatchesItems ==
    \A c \in filled :
        /\ Settled(c)
        /\ \A r \in RowsOf(c) : Listed(row[r].item)
        /\ c \in edited => \A r \in RowsOf(c) : row[r].variant = None
        => cart[c].total = FullTotal([r \in RowsOf(c) |-> row[r]])

\* addToCart has something to sum only when a cart was deleted from its items:
\* no call creates an item in no cart, and none is in two carts
\* (cart.service.ts:223, "not yet checked out").
CollectedItemsWereDetached ==
    \A c \in collected :
        Settled(c) /\ cart[c].total \notin {None, 0} => cart[c].customer \in detached

\* updateCartItem means to "recalculate the total amount for the cart"
\* (cart.service.ts:368): a settled cart whose items are all there has the
\* total of its items, with their variants.
UpdateKeepsFullPrice ==
    \A c \in edited :
        /\ Settled(c)
        /\ \A r \in RowsOf(c) : Listed(row[r].item)
        => cart[c].total = FullTotal([r \in RowsOf(c) |-> row[r]])
=============================================================================
