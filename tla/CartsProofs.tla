----------------------------- MODULE CartsProofs -----------------------------
(***************************************************************************)
(* Type correctness of Carts, and proof that addToCart has something to    *)
(* charge for only after a deletion took items out of a cart of the        *)
(* customer (CollectedItemsWereDetached).                                  *)
(*                                                                         *)
(* Inv follows the ways into a row's cart and into a cart's total.  A cart *)
(* item is in a cart that addToCartItem made, or has lost it with a        *)
(* deletion (RowsOK).  So a call of addToCart finds something only for a   *)
(* customer who lost a cart, a call that edits an item never works on a    *)
(* cart of addToCart, and nobody else stores a total in one, except by     *)
(* hand (CallFits).                                                        *)
(*                                                                         *)
(* Typed adds the types, among them those of the totals, and which fields  *)
(* of a call its handler has filled by the await it is at (CallFlows).     *)
(*                                                                         *)
(* Totals are sums over sets, which SumFunction computes by recursion.     *)
(* The first section shows what is needed of them, by induction over the   *)
(* subsets of a function's domain: the set of those that have the property *)
(* leaves no smallest one out.                                             *)
(***************************************************************************)
EXTENDS Carts, FiniteSetTheorems, TLAPS

\* The element that a sum takes first.
Pick(s) == CHOOSE x \in s : TRUE

\* One step of a sum: the element that comes next, and the rest.
NextSum(w, h, s) == IF s = {} THEN 0 ELSE w[Pick(s)] + h[s \ {Pick(s)}]

\* What each set of a function's arguments adds up to.
Sums(w) == CHOOSE h : h = [s \in SUBSET DOMAIN w |-> NextSum(w, h, s)]

LEMMA SumIsLastOfSums == ASSUME NEW w PROVE SumFunction(w) = Sums(w)[DOMAIN w]
BY DEF SumFunction, SumFunctionOnSet, FoldFunctionOnSet, MapThenFoldSet, Sums, NextSum, Pick

\* Induction over the subsets of a finite set.
LEMMA SubsetInduction ==
    ASSUME NEW S, IsFiniteSet(S), NEW Good,
           \A s \in SUBSET S : (\A x \in s : s \ {x} \in Good) => s \in Good
    PROVE  SUBSET S \subseteq Good
<1> DEFINE Bad == (SUBSET S) \ Good
<1> SUFFICES ASSUME Bad # {} PROVE FALSE
  OBVIOUS
<1>1. PICK s \in Bad : \A t \in Bad : ~ (<<t, s>> \in StrictSubsetOrdering(S))
  BY FS_StrictSubsetOrderingWellFounded, FS_FiniteSubsetsOfFinite, WFMin
<1>2. PICK x \in s : s \ {x} \notin Good
  OBVIOUS
<1>3. s \ {x} \in Bad /\ <<s \ {x}, s>> \in StrictSubsetOrdering(S)
  BY <1>2 DEF StrictSubsetOrdering
<1>4. QED BY <1>1, <1>3

LEMMA NumberInduction ==
    ASSUME NEW Good, 0 \in Good, \A n \in Nat : n \in Good => n + 1 \in Good
    PROVE  Nat \subseteq Good
<1> DEFINE Bad == Nat \ Good
<1> DEFINE Less == OpToRel(<, Nat)
<1> SUFFICES ASSUME Bad # {} PROVE FALSE
  OBVIOUS
<1>1. PICK n \in Bad : \A m \in Bad : ~ (<<m, n>> \in Less)
  BY NatLessThanWellFounded, WFMin
<1>2. n - 1 \in Bad
  OBVIOUS
<1>3. <<n - 1, n>> \in Less
  BY <1>2 DEF OpToRel
<1>4. QED BY <1>1, <1>2, <1>3

\* The recursion has a solution.
LEMMA SumsExist ==
    ASSUME NEW w, IsFiniteSet(DOMAIN w)
    PROVE  \E h : h = [s \in SUBSET DOMAIN w |-> NextSum(w, h, s)]
<1> DEFINE S == DOMAIN w
<1> DEFINE Small(n) == {s \in SUBSET S : Cardinality(s) <= n}
<1> DEFINE Good == {n \in Nat : \E h : h = [s \in Small(n) |-> NextSum(w, h, s)]}
<1>a. ASSUME NEW s \in SUBSET S
      PROVE  /\ IsFiniteSet(s) /\ Cardinality(s) \in Nat
             /\ Cardinality(s) <= Cardinality(S)
  <2>1. IsFiniteSet(s) /\ Cardinality(s) <= Cardinality(S)
    BY FS_Subset
  <2>2. QED BY <2>1, FS_CardinalityType
<1>b. ASSUME NEW s \in SUBSET S, s # {}
      PROVE  /\ Pick(s) \in s /\ Cardinality(s) > 0
             /\ Cardinality(s \ {Pick(s)}) = Cardinality(s) - 1
  <2>1. Cardinality(s) # 0
    BY <1>a, <1>b, FS_EmptySet
  <2>2. Pick(s) \in s
    BY <1>b DEF Pick
  <2>3. Cardinality(s \ {Pick(s)}) = Cardinality(s) - 1
    BY <1>a, <2>2, FS_RemoveElement
  <2>4. QED BY <1>a, <2>1, <2>2, <2>3
<1>2. \A s \in Small(0) : s = {}
  <2>1. ASSUME NEW s \in SUBSET S, Cardinality(s) <= 0 PROVE s = {}
    <3>1. Cardinality(s) = 0 /\ IsFiniteSet(s)
      BY <1>a, <2>1
    <3>2. QED BY <3>1, FS_EmptySet
  <2>2. QED BY <2>1
<1>3. 0 \in Good
  <2> DEFINE h == [s \in Small(0) |-> 0]
  <2>1. h = [s \in Small(0) |-> NextSum(w, h, s)]
    BY <1>2 DEF NextSum
  <2> HIDE DEF h
  <2>2. QED BY <2>1
<1>4. ASSUME NEW n \in Nat, n \in Good PROVE n + 1 \in Good
  <2>1. PICK h : h = [s \in Small(n) |-> NextSum(w, h, s)]
    BY <1>4
  <2> DEFINE g == [s \in Small(n + 1) |-> NextSum(w, h, s)]
  <2>2. ASSUME NEW s \in Small(n) PROVE s \in Small(n + 1) /\ g[s] = h[s]
    <3>1. s \in Small(n + 1)
      BY <1>a
    <3>2. QED BY <2>1, <3>1
  <2> HIDE DEF g
  <2>3. ASSUME NEW s \in Small(n + 1) PROVE g[s] = NextSum(w, g, s)
    <3>1. CASE s = {}
      BY <3>1 DEF NextSum, g
    <3>2. CASE s # {}
      <4>1. s \ {Pick(s)} \in Small(n)
        BY <1>a, <1>b, <3>2
      <4>2. s \in Small(n + 1) /\ g[s] = NextSum(w, h, s)
        BY DEF g
      <4>3. g[s \ {Pick(s)}] = h[s \ {Pick(s)}]
        BY <2>2, <4>1
      <4>4. QED BY <3>2, <4>2, <4>3 DEF NextSum
    <3>3. QED BY <3>1, <3>2
  <2>4. g = [s \in Small(n + 1) |-> NextSum(w, g, s)]
    <3>1. g = [s \in Small(n + 1) |-> g[s]]
      BY DEF g
    <3>2. QED BY <2>3, <3>1
  <2>5. QED BY <2>4
<1>5. Cardinality(S) \in Good
  <2> HIDE DEF Good
  <2>1. Nat \subseteq Good
    BY <1>3, <1>4, NumberInduction
  <2>2. QED BY <2>1, <1>a
<1>6. SUBSET S = Small(Cardinality(S))
  BY <1>a
<1>7. QED BY <1>5, <1>6
-----------------------------------------------------------------------------
\* The sums obey the recursion.
LEMMA SumsDef ==
    ASSUME NEW w, IsFiniteSet(DOMAIN w), NEW s \in SUBSET DOMAIN w
    PROVE  Sums(w)[s] = NextSum(w, Sums(w), s)
<1>1. Sums(w) = [t \in SUBSET DOMAIN w |-> NextSum(w, Sums(w), t)]
  BY SumsExist DEF Sums
<1>2. QED BY <1>1

LEMMA NoSum == ASSUME NEW w, IsFiniteSet(DOMAIN w) PROVE Sums(w)[{}] = 0
BY SumsDef DEF NextSum

LEMMA SumsType ==
    ASSUME NEW S, IsFiniteSet(S), NEW w \in [S -> Int]
    PROVE  \A s \in SUBSET S : Sums(w)[s] \in Int
<1> DEFINE Good == {s \in SUBSET S : Sums(w)[s] \in Int}
<1>1. ASSUME NEW s \in SUBSET S, \A x \in s : s \ {x} \in Good PROVE s \in Good
  <2>1. CASE s = {}
    BY <2>1, NoSum
  <2>2. CASE s # {}
    <3>1. Pick(s) \in s
      BY <2>2 DEF Pick
    <3>2. Sums(w)[s] = w[Pick(s)] + Sums(w)[s \ {Pick(s)}]
      BY <2>2, SumsDef DEF NextSum
    <3>3. QED BY <1>1, <3>1, <3>2
  <2>3. QED BY <2>1, <2>2
<1>2. SUBSET S \subseteq Good
  <2> HIDE DEF Good
  <2>1. QED BY <1>1, SubsetInduction
<1>3. QED BY <1>2

\* It does not matter which element comes next.
LEMMA SumsSplit ==
    ASSUME NEW S, IsFiniteSet(S), NEW w \in [S -> Int], NEW s \in SUBSET S, NEW x \in s
    PROVE  Sums(w)[s] = w[x] + Sums(w)[s \ {x}]
<1> DEFINE Good == {t \in SUBSET S : \A y \in t : Sums(w)[t] = w[y] + Sums(w)[t \ {y}]}
<1>1. ASSUME NEW t \in SUBSET S, \A y \in t : t \ {y} \in Good PROVE t \in Good
  <2> SUFFICES ASSUME NEW y \in t PROVE Sums(w)[t] = w[y] + Sums(w)[t \ {y}]
    OBVIOUS
  <2> DEFINE p == Pick(t)
  <2>1. p \in t
    BY DEF Pick
  <2>2. Sums(w)[t] = w[p] + Sums(w)[t \ {p}]
    BY SumsDef DEF NextSum
  <2> HIDE DEF p
  <2>3. CASE y = p
    BY <2>2, <2>3
  <2>4. CASE y # p
    <3>1. Sums(w)[t \ {p}] = w[y] + Sums(w)[(t \ {p}) \ {y}]
      BY <1>1, <2>1, <2>4
    <3>2. Sums(w)[t \ {y}] = w[p] + Sums(w)[(t \ {y}) \ {p}]
      BY <1>1, <2>1, <2>4
    <3> DEFINE rest == Sums(w)[(t \ {p}) \ {y}]
    <3>3. (t \ {y}) \ {p} = (t \ {p}) \ {y}
      OBVIOUS
    <3>4. w[y] \in Int /\ w[p] \in Int /\ rest \in Int
      BY <2>1, SumsType
    <3>5. Sums(w)[t] = w[p] + (w[y] + rest) /\ Sums(w)[t \ {y}] = w[p] + rest
      BY <2>2, <3>1, <3>2, <3>3
    <3> HIDE DEF rest
    <3>6. QED BY <3>4, <3>5
  <2>5. QED BY <2>3, <2>4
<1>2. SUBSET S \subseteq Good
  <2> HIDE DEF Good
  <2>1. QED BY <1>1, SubsetInduction
<1>3. QED BY <1>2

LEMMA SumsMonotone ==
    ASSUME NEW S, IsFiniteSet(S), NEW v \in [S -> Int], NEW w \in [S -> Int],
           NEW s \in SUBSET S, \A x \in s : v[x] <= w[x]
    PROVE  Sums(v)[s] <= Sums(w)[s]
<1> DEFINE Good == {t \in SUBSET S : t \subseteq s => Sums(v)[t] <= Sums(w)[t]}
<1>1. ASSUME NEW t \in SUBSET S, \A y \in t : t \ {y} \in Good PROVE t \in Good
  <2> SUFFICES ASSUME t \subseteq s PROVE Sums(v)[t] <= Sums(w)[t]
    OBVIOUS
  <2>1. CASE t = {}
    BY <2>1, NoSum
  <2>2. CASE t # {}
    <3>1. PICK y \in t : TRUE
      BY <2>2
    <3>2. Sums(v)[t] = v[y] + Sums(v)[t \ {y}] /\ Sums(w)[t] = w[y] + Sums(w)[t \ {y}]
      BY SumsSplit
    <3>3. Sums(v)[t \ {y}] <= Sums(w)[t \ {y}] /\ v[y] <= w[y]
      BY <1>1
    <3>4. /\ v[y] \in Int /\ w[y] \in Int
          /\ Sums(v)[t \ {y}] \in Int /\ Sums(w)[t \ {y}] \in Int
      BY SumsType
    <3>5. QED BY <3>2, <3>3, <3>4
  <2>3. QED BY <2>1, <2>2
<1>2. SUBSET S \subseteq Good
  <2> HIDE DEF Good
  <2>1. QED BY <1>1, SubsetInduction
<1>3. QED BY <1>2
\* Sums of what agrees agree.
LEMMA SumsAgree ==
    ASSUME NEW S, IsFiniteSet(S), NEW v \in [S -> Int], NEW w \in [S -> Int],
           NEW s \in SUBSET S, \A x \in s : v[x] = w[x]
    PROVE  Sums(v)[s] = Sums(w)[s]
<1>1. \A x \in s : v[x] <= w[x] /\ w[x] <= v[x]
  OBVIOUS
<1>2. Sums(v)[s] <= Sums(w)[s] /\ Sums(w)[s] <= Sums(v)[s]
  BY <1>1, SumsMonotone
<1>3. Sums(v)[s] \in Int /\ Sums(w)[s] \in Int
  BY SumsType
<1>4. QED BY <1>2, <1>3

-----------------------------------------------------------------------------
\* What the totals of carts need to know about sums.
LEMMA SumType ==
    ASSUME NEW S, IsFiniteSet(S), NEW w \in [S -> Int]
    PROVE  SumFunction(w) \in Int
BY SumIsLastOfSums, SumsType

LEMMA SumMonotone ==
    ASSUME NEW S, IsFiniteSet(S), NEW v \in [S -> Int], NEW w \in [S -> Int],
           \A x \in S : v[x] <= w[x]
    PROVE  SumFunction(v) <= SumFunction(w)
BY SumIsLastOfSums, SumsMonotone

\* One summand changes.
LEMMA SumChanges ==
    ASSUME NEW S, IsFiniteSet(S), NEW v \in [S -> Int], NEW w \in [S -> Int],
           NEW x \in S, \A y \in S \ {x} : v[y] = w[y]
    PROVE  SumFunction(w) = SumFunction(v) - v[x] + w[x]
<1> DEFINE rest == Sums(v)[S \ {x}]
<1>1. rest = Sums(w)[S \ {x}]
  BY SumsAgree
<1>2. Sums(v)[S] = v[x] + Sums(v)[S \ {x}] /\ Sums(w)[S] = w[x] + Sums(w)[S \ {x}]
  BY SumsSplit
<1>3. v[x] \in Int /\ w[x] \in Int /\ rest \in Int
  BY SumsType
<1>4. SumFunction(v) = v[x] + rest /\ SumFunction(w) = w[x] + rest
  BY <1>1, <1>2, SumIsLastOfSums
<1> HIDE DEF rest
<1>5. QED BY <1>3, <1>4

LEMMA SumOfZeros ==
    ASSUME NEW S, IsFiniteSet(S), NEW w \in [S -> Int], \A x \in S : w[x] = 0
    PROVE  SumFunction(w) = 0
<1> DEFINE Good == {s \in SUBSET S : Sums(w)[s] = 0}
<1>1. ASSUME NEW s \in SUBSET S, \A y \in s : s \ {y} \in Good PROVE s \in Good
  <2>1. CASE s = {}
    BY <2>1, NoSum
  <2>2. CASE s # {}
    <3>1. PICK y \in s : TRUE
      BY <2>2
    <3>2. Sums(w)[s] = w[y] + Sums(w)[s \ {y}]
      BY SumsSplit
    <3>3. QED BY <1>1, <3>2
  <2>3. QED BY <2>1, <2>2
<1>2. SUBSET S \subseteq Good
  <2> HIDE DEF Good
  <2>1. QED BY <1>1, SubsetInduction
<1>3. Sums(w)[S] = 0
  BY <1>2
<1>4. QED BY <1>3, SumIsLastOfSums

\* The same summands under other names.
LEMMA SumRenamed ==
    ASSUME NEW S, IsFiniteSet(S), NEW T, IsFiniteSet(T),
           NEW v \in [S -> Int], NEW w \in [T -> Int], NEW f \in [S -> T],
           \A x \in S, y \in S : f[x] = f[y] => x = y,
           T = {f[x] : x \in S}, \A x \in S : w[f[x]] = v[x]
    PROVE  SumFunction(v) = SumFunction(w)
<1> DEFINE Image(t) == {f[x] : x \in t}
<1> DEFINE Good == {t \in SUBSET S : Sums(v)[t] = Sums(w)[Image(t)]}
<1>1. ASSUME NEW t \in SUBSET S, \A y \in t : t \ {y} \in Good PROVE t \in Good
  <2>1. CASE t = {}
    <3>1. Image(t) = {}
      BY <2>1
    <3>2. QED BY <2>1, <3>1, NoSum
  <2>2. CASE t # {}
    <3>1. PICK y \in t : TRUE
      BY <2>2
    <3>2. Image(t) \in SUBSET T /\ f[y] \in Image(t)
      OBVIOUS
    <3>3. Image(t) \ {f[y]} = Image(t \ {y})
      OBVIOUS
    <3>4. Sums(v)[t \ {y}] = Sums(w)[Image(t \ {y})]
      BY <1>1
    <3>5. w[f[y]] = v[y]
      OBVIOUS
    <3> HIDE DEF Image
    <3>6. Sums(v)[t] = v[y] + Sums(v)[t \ {y}]
      BY SumsSplit
    <3>7. Sums(w)[Image(t)] = w[f[y]] + Sums(w)[Image(t) \ {f[y]}]
      BY <3>2, SumsSplit
    <3>8. QED BY <3>3, <3>4, <3>5, <3>6, <3>7
  <2>3. QED BY <2>1, <2>2
<1>2. SUBSET S \subseteq Good
  <2> HIDE DEF Good
  <2>1. QED BY <1>1, SubsetInduction
<1>3. Sums(v)[S] = Sums(w)[T]
  <2>1. S \in Good /\ Image(S) = T
    BY <1>2
  <2>2. QED BY <2>1
<1>4. QED BY <1>3, SumIsLastOfSums

-----------------------------------------------------------------------------
\* Tables and calls have the fields they should have, and carts one origin.
Shaped ==
    /\ DOMAIN cart = CartIds /\ DOMAIN row = RowIds /\ DOMAIN call = Callers
    /\ \A c \in CartIds : cart[c] # None => DOMAIN cart[c] = {"customer", "total"}
    /\ \A r \in RowIds :
          row[r] # None => DOMAIN row[r] = {"item", "variant", "qty", "cart", "customer"}
    /\ carts \in 0 .. MaxCarts
    /\ filled \cup collected \subseteq 1 .. carts
    /\ filled \cap collected = {}

\* An item in no cart has lost it.
RowsOK ==
    \A r \in RowIds : row[r] # None =>
        IF row[r].cart = None THEN row[r].customer \in detached
        ELSE row[r].cart \in filled

\* Nothing but what was detached gets into the total of a collected cart.
TotalsOK ==
    \A c \in collected : cart[c] # None /\ c \notin disturbed =>
        cart[c].total \in {None, 0} \/ cart[c].customer \in detached

\* The carts that the calls work on.
CallFits(k) ==
    /\ DOMAIN k = DOMAIN Idle
    /\ k.op \in {"order", "cart"} => k.cart \in filled
    /\ k.op = "collect" =>
          /\ k.cart \in collected
          /\ cart[k.cart] # None => cart[k.cart].customer = k.customer
          /\ k.customer \in detached \/ (k.sum = 0 /\ k.pc \in {"find", "save"})
    /\ k.op = "edit" => k.cart \in filled \cup {None} /\ k.row \in RowIds
    /\ k.op = "put" => k.cart \in disturbed
    /\ k.pc = "insert" => k.op \in {"order", "cart"}
    /\ k.pc = "save" => k.op \in {"order", "cart", "collect"}
    /\ k.pc \in {"update", "recalculate"} => k.op = "edit"
    /\ k.pc = "findCart" => k.op \in {"edit", "put"}
    /\ k.pc = "store" => k.op \in {"edit", "put"} /\ k.cart # None

CallsFit == \A s \in Callers : CallFits(call[s])

Inv == Shaped /\ RowsOK /\ TotalsOK /\ CallsFit

\* What a step does to the carts as far as the calls care.
Grows ==
    /\ filled \subseteq filled' /\ collected \subseteq collected'
    /\ disturbed \subseteq disturbed' /\ detached \subseteq detached'
    /\ \A c \in collected :
          cart'[c] # None => cart[c] # None /\ cart'[c].customer = cart[c].customer

-----------------------------------------------------------------------------
\* What the invariant says of a call stays true while other calls step.
LEMMA IdleFits == CallFits(Idle) /\ CallFits(Idle)'
BY DEF CallFits, Idle

\* The calls that do not move still fit.
LEMMA OthersFit ==
    ASSUME Inv, Grows, NEW s \in Callers, call'[s] = call[s]
    PROVE  CallFits(call[s])'
BY DEF Inv, CallsFit, CallFits, Grows

\* One call goes on.
LEMMA CallGoesOn ==
    ASSUME Inv, Grows, NEW s \in Callers, DOMAIN call' = Callers,
           \A t \in Callers \ {s} : call'[t] = call[t], CallFits(call[s])'
    PROVE  CallsFit'
BY OthersFit DEF CallsFit

\* One call moves.
LEMMA CallMoves ==
    ASSUME Inv, Grows, NEW s \in Callers, NEW k, call' = [call EXCEPT ![s] = k],
           call'[s] = k => CallFits(call[s])'
    PROVE  CallsFit' /\ DOMAIN call' = Callers
<1>1. DOMAIN call' = Callers /\ call'[s] = k
      /\ \A t \in Callers \ {s} : call'[t] = call[t]
  BY DEF Inv, Shaped
<1>2. QED BY <1>1, OthersFit DEF CallsFit

LEMMA CallEnds ==
    ASSUME Inv, Grows, NEW s \in Callers, End(s)
    PROVE  CallsFit' /\ DOMAIN call' = Callers
<1>1. call'[s] = Idle => CallFits(call[s])'
  BY IdleFits DEF CallFits
<1>2. QED BY <1>1, CallMoves DEF End

LEMMA CallsStay ==
    ASSUME Inv, Grows, UNCHANGED call
    PROVE  CallsFit' /\ DOMAIN call' = Callers
BY OthersFit DEF CallsFit, Inv, Shaped

\* Steps that leave carts and rows alone.
LEMMA TablesStay ==
    ASSUME Inv, UNCHANGED <<cart, row, carts, filled, collected>>,
           disturbed \subseteq disturbed', detached \subseteq detached',
           DOMAIN call' = Callers, CallsFit'
    PROVE  Inv'
<1>1. Shaped'
  BY DEF Inv, Shaped
<1>2. RowsOK' /\ TotalsOK'
  BY DEF Inv, RowsOK, TotalsOK
<1>3. QED BY <1>1, <1>2 DEF Inv

LEMMA InitInv == Init => Inv
<1> SUFFICES ASSUME Init PROVE Inv
  OBVIOUS
<1>1. Shaped /\ RowsOK /\ TotalsOK
  BY BoundsAssumption DEF Init, Shaped, RowsOK, TotalsOK
<1>2. CallsFit
  BY IdleFits DEF Init, CallsFit
<1>3. QED BY <1>1, <1>2 DEF Inv

-----------------------------------------------------------------------------
\* A new cart is nobody's yet.
LEMMA NewCartIsNew ==
    ASSUME Inv, NEW x, NEW u, NEW total, NewCart(x, u, total)
    PROVE  /\ carts' = carts + 1 /\ carts' \in CartIds /\ carts' \in 0 .. MaxCarts
           /\ carts' \notin filled \cup collected
           /\ cart'[carts'] = [customer |-> u, total |-> total]
           /\ \A c \in CartIds \ {carts'} : cart'[c] = cart[c]
           /\ DOMAIN cart' = CartIds
           /\ \A c \in CartIds :
                 cart'[c] # None => DOMAIN cart'[c] = {"customer", "total"}
           /\ filled \cup collected \subseteq CartIds \ {carts'}
           /\ filled \cup collected \cup {carts'} \subseteq 1 .. carts'
<1>1. carts' = carts + 1 /\ carts < MaxCarts /\ carts \in Nat /\ carts' \in CartIds
  BY BoundsAssumption DEF NewCart, Inv, Shaped, CartIds
<1>2. /\ cart' = [cart EXCEPT ![carts'] = [customer |-> u, total |-> total]]
      /\ DOMAIN cart = CartIds
  BY DEF NewCart, Inv, Shaped
<1>3. /\ cart'[carts'] = [customer |-> u, total |-> total]
      /\ \A c \in CartIds \ {carts'} : cart'[c] = cart[c]
      /\ DOMAIN cart' = CartIds
  BY <1>1, <1>2
<1>4. /\ filled \cup collected \subseteq CartIds \ {carts'}
      /\ filled \cup collected \cup {carts'} \subseteq 1 .. carts'
  <2>1. filled \cup collected \subseteq 1 .. carts
    BY DEF Inv, Shaped
  <2>2. 1 .. carts \subseteq CartIds \ {carts'} /\ (1 .. carts) \cup {carts'} \subseteq 1 .. carts'
    BY <1>1, BoundsAssumption DEF CartIds
  <2>3. QED BY <2>1, <2>2
<1>5. \A c \in CartIds : cart'[c] # None => DOMAIN cart'[c] = {"customer", "total"}
  BY <1>3 DEF Inv, Shaped
<1>6. carts' \in 0 .. MaxCarts
  BY <1>1, BoundsAssumption
<1>7. QED BY <1>1, <1>3, <1>4, <1>5, <1>6

LEMMA FillCartKeeps ==
    ASSUME Inv, NEW s \in Callers, NEW op \in {"order", "cart"}, NEW u, NEW b,
           FillCart(s, op, u, b)
    PROVE  Inv'
<1>1. /\ NewCart(s, u, 0) /\ filled' = filled \cup {carts'}
      /\ UNCHANGED <<row, collected, disturbed, detached>>
  BY DEF FillCart
<1>a. /\ carts' \in CartIds /\ carts' \in 0 .. MaxCarts
      /\ carts' \notin filled \cup collected
      /\ cart'[carts'] = [customer |-> u, total |-> 0]
      /\ \A c \in CartIds \ {carts'} : cart'[c] = cart[c]
      /\ DOMAIN cart' = CartIds
      /\ \A c \in CartIds : cart'[c] # None => DOMAIN cart'[c] = {"customer", "total"}
      /\ filled \cup collected \subseteq CartIds \ {carts'}
      /\ filled \cup collected \cup {carts'} \subseteq 1 .. carts'
  BY <1>1, NewCartIsNew
<1>2. Grows
  BY <1>1, <1>a DEF Grows
<1>3. CallsFit' /\ DOMAIN call' = Callers
  <2> DEFINE k == [Idle EXCEPT !.op = op, !.pc = IF b = <<>> THEN "insert" ELSE "price",
                     !.customer = u, !.cart = carts', !.lines = b, !.left = DOMAIN b]
  <2>1. call' = [call EXCEPT ![s] = k]
    BY DEF FillCart
  <2>2. /\ DOMAIN k = DOMAIN Idle /\ k.op = op /\ k.pc \in {"price", "insert"}
        /\ k.cart = carts'
    BY DEF Idle
  <2> HIDE DEF k
  <2>3. call'[s] = k => CallFits(call[s])'
    BY <1>1, <2>2 DEF CallFits
  <2>4. QED BY <1>2, <2>1, <2>3, CallMoves
<1>4. Shaped'
  BY <1>1, <1>3, <1>a DEF Inv, Shaped
<1>5. RowsOK'
  BY <1>1 DEF Inv, RowsOK
<1>6. TotalsOK'
  BY <1>1, <1>a DEF Inv, TotalsOK
<1>7. QED BY <1>3, <1>4, <1>5, <1>6 DEF Inv

LEMMA StartCollectKeeps ==
    ASSUME Inv, NEW s \in Callers, NEW u, StartCollect(s, u)
    PROVE  Inv'
<1>1. /\ NewCart(s, u, None) /\ collected' = collected \cup {carts'}
      /\ UNCHANGED <<row, filled, disturbed, detached>>
  BY DEF StartCollect
<1>a. /\ carts' \in CartIds /\ carts' \in 0 .. MaxCarts
      /\ carts' \notin filled \cup collected
      /\ cart'[carts'] = [customer |-> u, total |-> None]
      /\ \A c \in CartIds \ {carts'} : cart'[c] = cart[c]
      /\ DOMAIN cart' = CartIds
      /\ \A c \in CartIds : cart'[c] # None => DOMAIN cart'[c] = {"customer", "total"}
      /\ filled \cup collected \subseteq CartIds \ {carts'}
      /\ filled \cup collected \cup {carts'} \subseteq 1 .. carts'
  BY <1>1, NewCartIsNew
<1>2. Grows
  BY <1>1, <1>a DEF Grows
<1>3. CallsFit' /\ DOMAIN call' = Callers
  <2> DEFINE k == [Idle EXCEPT !.op = "collect", !.pc = "find", !.customer = u,
                     !.cart = carts']
  <2>1. call' = [call EXCEPT ![s] = k]
    BY DEF StartCollect
  <2>2. /\ DOMAIN k = DOMAIN Idle /\ k.op = "collect" /\ k.pc = "find"
        /\ k.cart = carts' /\ k.customer = u /\ k.sum = 0
    BY DEF Idle
  <2> HIDE DEF k
  <2>3. call'[s] = k => CallFits(call[s])'
    BY <1>1, <2>2, <1>a DEF CallFits
  <2>4. QED BY <1>2, <2>1, <2>3, CallMoves
<1>4. Shaped'
  BY <1>1, <1>3, <1>a DEF Inv, Shaped
<1>5. RowsOK'
  BY <1>1 DEF Inv, RowsOK
<1>6. TotalsOK'
  BY <1>1, <1>a DEF Inv, TotalsOK
<1>7. QED BY <1>3, <1>4, <1>5, <1>6 DEF Inv

\* Calls that start without a cart, or with one that counts as disturbed.
LEMMA OtherStartsKeep ==
    ASSUME Inv, NEW s \in Callers,
           \/ \E b \in Baskets : StartQuote(s, b)
           \/ \E r \in RowIds, e \in Edits : StartEdit(s, r, e)
           \/ \E c \in CartIds, total \in Amounts : StartPut(s, c, total)
    PROVE  Inv'
<1>1. /\ UNCHANGED <<cart, row, carts, filled, collected, detached>>
      /\ disturbed \subseteq disturbed'
  BY DEF StartQuote, StartEdit, StartPut, history, counters
<1>2. Grows
  BY <1>1 DEF Grows
<1>3. ASSUME NEW b \in Baskets, StartQuote(s, b) PROVE CallsFit' /\ DOMAIN call' = Callers
  <2> DEFINE k == [Idle EXCEPT !.op = "quote", !.pc = "quote", !.lines = b,
                     !.left = DOMAIN b]
  <2>1. UNCHANGED call \/ call' = [call EXCEPT ![s] = k]
    BY <1>3 DEF StartQuote
  <2>2. DOMAIN k = DOMAIN Idle /\ k.op = "quote" /\ k.pc = "quote"
    BY DEF Idle
  <2> HIDE DEF k
  <2>3. call'[s] = k => CallFits(call[s])'
    BY <2>2 DEF CallFits
  <2>4. QED BY <1>2, <2>1, <2>3, CallMoves, CallsStay
<1>4. ASSUME NEW r \in RowIds, NEW e \in Edits, StartEdit(s, r, e)
      PROVE  CallsFit' /\ DOMAIN call' = Callers
  <2> DEFINE k == [Idle EXCEPT !.op = "edit", !.pc = "find", !.row = r, !.edit = e]
  <2>1. call' = [call EXCEPT ![s] = k]
    BY <1>4 DEF StartEdit
  <2>2. DOMAIN k = DOMAIN Idle /\ k.op = "edit" /\ k.pc = "find" /\ k.cart = None
        /\ k.row = r
    BY DEF Idle
  <2> HIDE DEF k
  <2>3. call'[s] = k => CallFits(call[s])'
    BY <2>2 DEF CallFits
  <2>4. QED BY <1>2, <2>1, <2>3, CallMoves
<1>5. ASSUME NEW c \in CartIds, NEW total \in Amounts, StartPut(s, c, total)
      PROVE  CallsFit' /\ DOMAIN call' = Callers
  <2> DEFINE k == [Idle EXCEPT !.op = "put", !.pc = "findCart", !.cart = c, !.sum = total]
  <2>1. call' = [call EXCEPT ![s] = k] /\ disturbed' = disturbed \cup {c}
    BY <1>5 DEF StartPut
  <2>2. DOMAIN k = DOMAIN Idle /\ k.op = "put" /\ k.pc = "findCart" /\ k.cart = c
    BY DEF Idle
  <2> HIDE DEF k
  <2>3. call'[s] = k => CallFits(call[s])'
    BY <2>1, <2>2 DEF CallFits
  <2>4. QED BY <1>2, <2>1, <2>3, CallMoves
<1>6. QED BY <1>1, <1>3, <1>4, <1>5, TablesStay

-----------------------------------------------------------------------------
\* The steps of a call that write no table.
LEMMA PricingKeeps ==
    ASSUME Inv, NEW s \in Callers, NEW n \in call[s].left,
           PriceLine(s, n) \/ PriceLooseRow(s, n)
    PROVE  Inv'
<1> DEFINE k == call[s]
<1>1. UNCHANGED <<cart, row, carts, filled, collected, disturbed, detached>>
  BY DEF PriceLine, PriceLooseRow, history, counters
<1>2. Grows
  BY <1>1 DEF Grows
<1>3. CallFits(k) /\ k.pc = "price"
      /\ (k.op \in {"order", "cart"} \/ (k.op = "collect" /\ k.customer \in detached))
  BY DEF Inv, CallsFit, CallFits, PriceLine, PriceLooseRow, At
<1>4. CallsFit' /\ DOMAIN call' = Callers
  <2>1. CASE End(s)
    BY <1>2, <2>1, CallEnds
  <2>2. CASE ~End(s)
    <3>1. /\ DOMAIN call' = Callers
          /\ \A t \in Callers \ {s} : call'[t] = call[t]
          /\ DOMAIN call'[s] = DOMAIN Idle /\ call'[s].op = k.op
          /\ call'[s].cart = k.cart /\ call'[s].customer = k.customer
          /\ \/ call'[s].pc = "price"
             \/ call'[s].pc = "insert" /\ k.op \in {"order", "cart"}
             \/ call'[s].pc = "save" /\ k.op = "collect"
      BY <1>3, <2>2 DEF PriceLine, PriceLooseRow, Inv, Shaped, CallFits, Idle
    <3>2. CallFits(call[s])'
      BY <1>1, <1>3, <3>1 DEF CallFits
    <3>3. QED BY <1>2, <3>1, <3>2, CallGoesOn
  <2>3. QED BY <2>1, <2>2
<1>5. QED BY <1>1, <1>4, TablesStay

LEMMA QuoteLineKeeps ==
    ASSUME Inv, NEW s \in Callers, QuoteLine(s)
    PROVE  Inv'
<1> DEFINE k == call[s]
<1>1. UNCHANGED <<cart, row, carts, filled, collected, disturbed, detached>>
  BY DEF QuoteLine, history, counters
<1>2. Grows
  BY <1>1 DEF Grows
<1>3. CallFits(k) /\ k.pc = "quote"
  BY DEF Inv, CallsFit, QuoteLine, At
<1>4. CallsFit' /\ DOMAIN call' = Callers
  <2>1. CASE End(s)
    BY <1>2, <2>1, CallEnds
  <2>2. CASE ~End(s)
    <3>1. /\ DOMAIN call' = Callers
          /\ \A t \in Callers \ {s} : call'[t] = call[t]
          /\ DOMAIN call'[s] = DOMAIN Idle /\ call'[s].op = k.op /\ call'[s].pc = k.pc
          /\ call'[s].cart = k.cart /\ call'[s].customer = k.customer
          /\ call'[s].row = k.row
      BY <1>3, <2>2 DEF QuoteLine, Inv, Shaped, CallFits, Idle
    <3>2. CallFits(call[s])'
      BY <1>1, <1>3, <3>1 DEF CallFits
    <3>3. QED BY <1>2, <3>1, <3>2, CallGoesOn
  <2>3. QED BY <2>1, <2>2
<1>5. QED BY <1>1, <1>4, TablesStay
\* A customer has items in no cart only after a deletion took a cart from them.
LEMMA FindLooseRowsKeeps ==
    ASSUME Inv, NEW s \in Callers, FindLooseRows(s)
    PROVE  Inv'
<1> DEFINE k == call[s]
<1> DEFINE found == LooseRows(k.customer)
<1>1. UNCHANGED <<cart, row, carts, filled, collected, disturbed, detached>>
  BY DEF FindLooseRows, history, counters
<1>2. Grows
  BY <1>1 DEF Grows
<1>3. CallFits(k) /\ k.op = "collect"
  BY DEF Inv, CallsFit, FindLooseRows
<1>4. found # {} => k.customer \in detached
  BY DEF LooseRows, Inv, RowsOK
<1>5. /\ DOMAIN call' = Callers
      /\ \A t \in Callers \ {s} : call'[t] = call[t]
      /\ DOMAIN call'[s] = DOMAIN Idle /\ call'[s].op = k.op
      /\ call'[s].cart = k.cart /\ call'[s].customer = k.customer
      /\ call'[s].sum = k.sum
      /\ call'[s].pc = IF found = {} THEN "save" ELSE "price"
  <2> HIDE DEF found
  <2>1. QED BY <1>3 DEF found, FindLooseRows, Inv, Shaped, CallFits, Idle
<1>6. CallFits(call[s])'
  BY <1>1, <1>3, <1>4, <1>5 DEF CallFits
<1>7. CallsFit'
  BY <1>2, <1>5, <1>6, CallGoesOn
<1>8. QED BY <1>1, <1>5, <1>7, TablesStay

\* The edit of an item: in the cart of an order, or in none.
LEMMA FindRowKeeps ==
    ASSUME Inv, NEW s \in Callers, FindRow(s)
    PROVE  Inv'
<1> DEFINE k == call[s]
<1>1. /\ UNCHANGED <<cart, row, carts, filled, collected, detached>>
      /\ disturbed \subseteq disturbed'
  BY DEF FindRow, Meets, counters
<1>2. Grows
  BY <1>1 DEF Grows
<1>3. CallFits(k) /\ k.op = "edit" /\ k.row \in RowIds
  BY DEF Inv, CallsFit, CallFits, FindRow
<1>4. CallsFit' /\ DOMAIN call' = Callers
  <2>1. CASE row[k.row] = None
    BY <1>2, <2>1, CallEnds DEF FindRow
  <2>2. CASE row[k.row] # None
    <3>1. /\ DOMAIN call' = Callers
          /\ \A t \in Callers \ {s} : call'[t] = call[t]
          /\ DOMAIN call'[s] = DOMAIN Idle /\ call'[s].op = k.op
          /\ call'[s].row = k.row /\ call'[s].pc = "update"
          /\ call'[s].cart = row[k.row].cart
      BY <1>3, <2>2 DEF FindRow, Inv, Shaped, CallFits, Idle
    <3>2. row[k.row].cart \in filled \cup {None}
      BY <1>3, <2>2 DEF Inv, RowsOK
    <3>3. CallFits(call[s])'
      BY <1>1, <1>3, <3>1, <3>2 DEF CallFits
    <3>4. QED BY <1>2, <3>1, <3>3, CallGoesOn
  <2>3. QED BY <2>1, <2>2
<1>5. QED BY <1>1, <1>4, TablesStay

LEMMA RecalculateTotalKeeps ==
    ASSUME Inv, NEW s \in Callers, RecalculateTotal(s)
    PROVE  Inv'
<1> DEFINE k == call[s]
<1>1. UNCHANGED <<cart, row, carts, filled, collected, disturbed, detached>>
  BY DEF RecalculateTotal, history, counters
<1>2. Grows
  BY <1>1 DEF Grows
<1>3. CallFits(k) /\ k.pc = "recalculate" /\ k.op = "edit"
  BY DEF Inv, CallsFit, CallFits, RecalculateTotal, At
<1>4. CallsFit' /\ DOMAIN call' = Callers
  <2>1. CASE End(s)
    BY <1>2, <2>1, CallEnds
  <2>2. CASE ~End(s)
    <3>1. /\ DOMAIN call' = Callers
          /\ \A t \in Callers \ {s} : call'[t] = call[t]
          /\ DOMAIN call'[s] = DOMAIN Idle /\ call'[s].op = k.op
          /\ call'[s].row = k.row /\ call'[s].pc = "findCart"
          /\ call'[s].cart = k.cart
      BY <1>3, <2>2 DEF RecalculateTotal, Inv, Shaped, CallFits, Idle
    <3>2. CallFits(call[s])'
      BY <1>1, <1>3, <3>1 DEF CallFits
    <3>3. QED BY <1>2, <3>1, <3>2, CallGoesOn
  <2>3. QED BY <2>1, <2>2
<1>5. QED BY <1>1, <1>4, TablesStay

LEMMA FindCartKeeps ==
    ASSUME Inv, NEW s \in Callers, FindCart(s)
    PROVE  Inv'
<1> DEFINE k == call[s]
<1>1. UNCHANGED <<cart, row, carts, filled, collected, disturbed, detached>>
  BY DEF FindCart, history, counters
<1>2. Grows
  BY <1>1 DEF Grows
<1>3. CallFits(k) /\ k.pc = "findCart" /\ k.op \in {"edit", "put"}
  BY DEF Inv, CallsFit, CallFits, FindCart, At
<1>4. CallsFit' /\ DOMAIN call' = Callers
  <2>1. CASE End(s)
    BY <1>2, <2>1, CallEnds
  <2>2. CASE ~End(s)
    <3>1. /\ k.cart # None
          /\ DOMAIN call' = Callers
          /\ \A t \in Callers \ {s} : call'[t] = call[t]
          /\ DOMAIN call'[s] = DOMAIN Idle /\ call'[s].op = k.op
          /\ call'[s].row = k.row /\ call'[s].pc = "store"
          /\ call'[s].cart = k.cart
      BY <1>3, <2>2 DEF FindCart, Inv, Shaped, CallFits, Idle
    <3>2. CallFits(call[s])'
      BY <1>1, <1>3, <3>1 DEF CallFits
    <3>3. QED BY <1>2, <3>1, <3>2, CallGoesOn
  <2>3. QED BY <2>1, <2>2
<1>5. QED BY <1>1, <1>4, TablesStay

LEMMA PlaceOrderKeeps ==
    ASSUME Inv, NEW s \in Callers, PlaceOrder(s)
    PROVE  Inv'
<1>1. /\ UNCHANGED <<cart, row, carts, filled, collected, disturbed, detached>>
      /\ End(s)
  BY DEF PlaceOrder, history, counters
<1>2. Grows
  BY <1>1 DEF Grows
<1>3. QED BY <1>1, <1>2, CallEnds, TablesStay

-----------------------------------------------------------------------------
\* The save of a total changes no cart but one, and nothing but its total.
LEMMA SaveTotalKeeps ==
    ASSUME Inv, NEW c, NEW read, NEW total, SaveTotal(c, read, total)
    PROVE  /\ DOMAIN cart' = CartIds
           /\ \A d \in CartIds : d # c => cart'[d] = cart[d]
           /\ \A d \in CartIds : cart'[d] # None =>
                 /\ cart[d] # None /\ DOMAIN cart'[d] = {"customer", "total"}
                 /\ cart'[d].customer = cart[d].customer
                 /\ cart'[d].total \in {cart[d].total, total}
BY DEF SaveTotal, Inv, Shaped

LEMMA CollectedAreIds ==
    ASSUME Inv
    PROVE  collected \subseteq CartIds /\ filled \subseteq CartIds
<1>1. 1 .. carts \subseteq CartIds
  BY BoundsAssumption DEF Inv, Shaped, CartIds
<1>2. QED BY <1>1 DEF Inv, Shaped

\* Only the call that made a cart of addToCart saves it, with the sum of what
\* its customer has lost.
LEMMA SaveCartKeeps ==
    ASSUME Inv, NEW s \in Callers, SaveCart(s)
    PROVE  Inv'
<1> DEFINE k == call[s]
<1> DEFINE c == call[s].cart
<1>1. /\ SaveTotal(c, IF k.op = "collect" THEN None ELSE 0, k.sum) /\ k.pc = "save"
      /\ UNCHANGED <<row, carts, filled, collected, disturbed, detached>>
  BY DEF SaveCart, history, counters, At
<1>2. /\ DOMAIN cart' = CartIds
      /\ \A d \in CartIds : d # c => cart'[d] = cart[d]
      /\ \A d \in CartIds : cart'[d] # None =>
            /\ cart[d] # None /\ DOMAIN cart'[d] = {"customer", "total"}
            /\ cart'[d].customer = cart[d].customer
            /\ cart'[d].total \in {cart[d].total, k.sum}
  BY <1>1, SaveTotalKeeps
<1>3. Grows
  BY <1>1, <1>2, CollectedAreIds DEF Grows
<1>4. CallFits(k) /\ k.op \in {"order", "cart", "collect"}
  BY <1>1 DEF Inv, CallsFit, CallFits
<1>5. CallsFit' /\ DOMAIN call' = Callers
  <2>1. CASE k.op = "order"
    <3>1. /\ DOMAIN call' = Callers
          /\ \A t \in Callers \ {s} : call'[t] = call[t]
          /\ DOMAIN call'[s] = DOMAIN Idle /\ call'[s].op = "order"
          /\ call'[s].cart = c /\ call'[s].pc = "place"
      BY <1>4, <2>1 DEF SaveCart, Goto, Inv, Shaped, CallFits, Idle
    <3>2. CallFits(call[s])'
      BY <1>1, <1>4, <2>1, <3>1 DEF CallFits
    <3>3. QED BY <1>3, <3>1, <3>2, CallGoesOn
  <2>2. CASE k.op # "order"
    BY <1>3, <2>2, CallEnds DEF SaveCart
  <2>3. QED BY <2>1, <2>2
<1>6. Shaped'
  BY <1>1, <1>2, <1>5 DEF Inv, Shaped
<1>7. RowsOK'
  BY <1>1 DEF Inv, RowsOK
<1>8. TotalsOK'
  <2>1. CASE k.op \in {"order", "cart"}
    <3>1. c \notin collected
      BY <1>4, <2>1 DEF CallFits, Inv, Shaped
    <3>2. QED BY <1>1, <1>2, <3>1, CollectedAreIds DEF Inv, TotalsOK
  <2>2. CASE k.op = "collect"
    <3>1. cart[c] # None => cart[c].customer \in detached \/ k.sum = 0
      BY <1>4, <2>2 DEF CallFits
    <3>2. QED BY <1>1, <1>2, <3>1, CollectedAreIds DEF Inv, TotalsOK
  <2>3. QED BY <1>4, <2>1, <2>2
<1>9. QED BY <1>5, <1>6, <1>7, <1>8 DEF Inv

\* Who stores a total in a cart of addToCart does so by hand.
LEMMA StoreTotalKeeps ==
    ASSUME Inv, NEW s \in Callers, StoreTotal(s)
    PROVE  Inv'
<1> DEFINE k == call[s]
<1> DEFINE c == call[s].cart
<1>1. /\ SaveTotal(c, k.seen, k.sum) /\ k.pc = "store" /\ End(s)
      /\ UNCHANGED <<row, carts, filled, collected, disturbed, detached>>
  BY DEF StoreTotal, counters, At
<1>2. /\ DOMAIN cart' = CartIds
      /\ \A d \in CartIds : d # c => cart'[d] = cart[d]
      /\ \A d \in CartIds : cart'[d] # None =>
            /\ cart[d] # None /\ DOMAIN cart'[d] = {"customer", "total"}
            /\ cart'[d].customer = cart[d].customer
            /\ cart'[d].total \in {cart[d].total, k.sum}
  BY <1>1, SaveTotalKeeps
<1>3. Grows
  BY <1>1, <1>2, CollectedAreIds DEF Grows
<1>4. CallsFit' /\ DOMAIN call' = Callers
  BY <1>1, <1>3, CallEnds
<1>5. Shaped'
  BY <1>1, <1>2, <1>4 DEF Inv, Shaped
<1>6. RowsOK'
  BY <1>1 DEF Inv, RowsOK
<1>7. c \notin collected \/ c \in disturbed
  BY <1>1 DEF Inv, CallsFit, CallFits, Shaped
<1>8. TotalsOK'
  BY <1>1, <1>2, <1>7, CollectedAreIds DEF Inv, TotalsOK
<1>9. QED BY <1>4, <1>5, <1>6, <1>8 DEF Inv

-----------------------------------------------------------------------------
\* The steps that write cart items.
LEMMA InsertRowsKeeps ==
    ASSUME Inv, NEW s \in Callers, InsertRows(s)
    PROVE  Inv'
<1> DEFINE k == call[s]
<1>1. /\ UNCHANGED <<cart, carts, filled, collected, disturbed, detached>>
      /\ k.pc = "insert"
  BY DEF InsertRows, history, At
<1>2. Grows
  BY <1>1 DEF Grows
<1>3. CallFits(k) /\ k.op \in {"order", "cart"} /\ k.cart \in filled /\ k.cart # None
  <2>1. CallFits(k) /\ k.op \in {"order", "cart"} /\ k.cart \in filled
    BY <1>1 DEF Inv, CallsFit, CallFits
  <2>2. QED BY <2>1, CollectedAreIds, BoundsAssumption
<1>4. CASE End(s) /\ UNCHANGED row
  <2>1. CallsFit' /\ DOMAIN call' = Callers
    BY <1>2, <1>4, CallEnds
  <2>2. QED BY <1>1, <1>4, <2>1, TablesStay
<1>5. CASE ~(End(s) /\ UNCHANGED row)
  <2>1. /\ Goto(s, "save") /\ DOMAIN row' = RowIds
        /\ \A r \in RowIds : row'[r] = row[r] \/ \E line : row'[r] = NewRow(s, line)
    BY <1>5 DEF InsertRows
  <2>2. /\ DOMAIN call' = Callers
        /\ \A t \in Callers \ {s} : call'[t] = call[t]
        /\ DOMAIN call'[s] = DOMAIN Idle /\ call'[s].op = k.op
        /\ call'[s].cart = k.cart /\ call'[s].pc = "save"
    BY <1>3, <2>1 DEF Goto, Inv, Shaped, CallFits, Idle
  <2>3. CallFits(call[s])'
    BY <1>1, <1>3, <2>2 DEF CallFits
  <2>4. CallsFit'
    BY <1>2, <2>2, <2>3, CallGoesOn
  <2>5. \A line : /\ NewRow(s, line).cart \in filled /\ NewRow(s, line).cart # None
                  /\ DOMAIN NewRow(s, line) = {"item", "variant", "qty", "cart", "customer"}
    BY <1>3 DEF NewRow
  <2>6. Shaped'
    BY <1>1, <2>1, <2>2, <2>5 DEF Inv, Shaped
  <2>7. RowsOK'
    BY <1>1, <2>1, <2>5 DEF Inv, RowsOK
  <2>8. TotalsOK'
    BY <1>1 DEF Inv, TotalsOK
  <2>9. QED BY <2>4, <2>6, <2>7, <2>8 DEF Inv
<1>6. QED BY <1>4, <1>5

LEMMA UpdateRowKeeps ==
    ASSUME Inv, NEW s \in Callers, UpdateRow(s)
    PROVE  Inv'
<1> DEFINE k == call[s]
<1>1. /\ UNCHANGED <<cart, carts, filled, collected, disturbed, detached>>
      /\ k.pc = "update" /\ Goto(s, "recalculate")
  BY DEF UpdateRow, history, counters, At
<1>2. Grows
  BY <1>1 DEF Grows
<1>3. CallFits(k) /\ k.op = "edit"
  BY <1>1 DEF Inv, CallsFit, CallFits
<1>4. /\ DOMAIN call' = Callers
      /\ \A t \in Callers \ {s} : call'[t] = call[t]
      /\ DOMAIN call'[s] = DOMAIN Idle /\ call'[s].op = k.op
      /\ call'[s].row = k.row /\ call'[s].pc = "recalculate"
      /\ call'[s].cart = k.cart
  BY <1>1, <1>3 DEF Goto, Inv, Shaped, CallFits, Idle
<1>5. CallFits(call[s])'
  BY <1>1, <1>3, <1>4 DEF CallFits
<1>6. CallsFit'
  BY <1>2, <1>4, <1>5, CallGoesOn
<1>7. /\ DOMAIN row' = RowIds
      /\ \A r \in RowIds : row'[r] # None =>
            /\ row[r] # None /\ row'[r].cart = row[r].cart
            /\ row'[r].customer = row[r].customer
            /\ DOMAIN row'[r] = {"item", "variant", "qty", "cart", "customer"}
  BY DEF UpdateRow, Inv, Shaped
<1>8. Shaped'
  BY <1>1, <1>4, <1>7 DEF Inv, Shaped
<1>9. RowsOK'
  BY <1>1, <1>7 DEF Inv, RowsOK
<1>10. TotalsOK'
  BY <1>1 DEF Inv, TotalsOK
<1>11. QED BY <1>6, <1>8, <1>9, <1>10 DEF Inv

-----------------------------------------------------------------------------
\* The requests that are done in one step, and a restart.
LEMMA CreateCartKeeps ==
    ASSUME Inv, NEW u, NEW total, CreateCart(u, total)
    PROVE  Inv'
<1>1. /\ NewCart(None, u, total)
      /\ UNCHANGED <<row, call, filled, collected, disturbed, detached>>
  BY DEF CreateCart, history
<1>2. /\ carts' \in CartIds /\ carts' \in 0 .. MaxCarts
      /\ \A c \in CartIds \ {carts'} : cart'[c] = cart[c]
      /\ DOMAIN cart' = CartIds
      /\ \A c \in CartIds : cart'[c] # None => DOMAIN cart'[c] = {"customer", "total"}
      /\ filled \cup collected \subseteq CartIds \ {carts'}
      /\ filled \cup collected \cup {carts'} \subseteq 1 .. carts'
  BY <1>1, NewCartIsNew
<1>3. Grows
  BY <1>1, <1>2 DEF Grows
<1>4. CallsFit' /\ DOMAIN call' = Callers
  BY <1>1, <1>3, CallsStay
<1>5. Shaped'
  BY <1>1, <1>2, <1>4 DEF Inv, Shaped
<1>6. RowsOK'
  BY <1>1 DEF Inv, RowsOK
<1>7. TotalsOK'
  BY <1>1, <1>2 DEF Inv, TotalsOK
<1>8. QED BY <1>4, <1>5, <1>6, <1>7 DEF Inv

LEMMA DeleteCartKeeps ==
    ASSUME Inv, NEW c \in CartIds, DeleteCart(c)
    PROVE  Inv'
<1>1. /\ cart' = [cart EXCEPT ![c] = None]
      /\ UNCHANGED <<call, carts, filled, collected, disturbed>>
      /\ detached \subseteq detached'
  BY DEF DeleteCart, counters
<1>2. /\ DOMAIN cart' = CartIds
      /\ \A d \in CartIds : cart'[d] # None => cart'[d] = cart[d]
  BY <1>1 DEF Inv, Shaped
<1>3. Grows
  BY <1>1, <1>2, CollectedAreIds DEF Grows
<1>4. CallsFit' /\ DOMAIN call' = Callers
  BY <1>1, <1>3, CallsStay
<1>5. /\ DOMAIN row' = RowIds
      /\ \A r \in RowIds : \/ row'[r] = None
                           \/ row'[r] = row[r]
                           \/ /\ row[r] # None /\ row'[r] = [row[r] EXCEPT !.cart = None]
                              /\ row[r].customer \in detached'
  BY DEF DeleteCart, RowsOf
<1>6. \A r \in RowIds : row'[r] # None =>
         /\ DOMAIN row'[r] = {"item", "variant", "qty", "cart", "customer"}
         /\ row[r] # None
         /\ \/ row'[r] = row[r]
            \/ row'[r].cart = None /\ row'[r].customer \in detached'
  BY <1>5 DEF Inv, Shaped
<1>7. Shaped'
  BY <1>1, <1>2, <1>4, <1>5, <1>6 DEF Inv, Shaped
<1>8. RowsOK'
  BY <1>1, <1>6 DEF Inv, RowsOK
<1>9. TotalsOK'
  BY <1>1, <1>2, CollectedAreIds DEF Inv, TotalsOK
<1>10. QED BY <1>4, <1>7, <1>8, <1>9 DEF Inv

\* Cart items go: one, or all that name deleted items.
LEMMA RowsGo ==
    ASSUME Inv, UNCHANGED <<cart, call, carts, filled, collected, detached>>,
           disturbed \subseteq disturbed', DOMAIN row' = RowIds,
           \A r \in RowIds : row'[r] \in {row[r], None}
    PROVE  Inv'
<1>1. Grows
  BY DEF Grows
<1>2. CallsFit' /\ DOMAIN call' = Callers
  BY <1>1, CallsStay
<1>3. Shaped' /\ RowsOK' /\ TotalsOK'
  BY <1>2 DEF Inv, Shaped, RowsOK, TotalsOK
<1>4. QED BY <1>2, <1>3 DEF Inv

LEMMA DeleteRowKeeps ==
    ASSUME Inv, NEW r \in RowIds, DeleteRow(r)
    PROVE  Inv'
<1>1. /\ UNCHANGED <<cart, call, carts, filled, collected, detached>>
      /\ disturbed \subseteq disturbed' /\ row' = [row EXCEPT ![r] = None]
  BY DEF DeleteRow, counters
<1>2. DOMAIN row' = RowIds /\ \A q \in RowIds : row'[q] \in {row[q], None}
  BY <1>1 DEF Inv, Shaped
<1>3. QED BY <1>1, <1>2, RowsGo

LEMMA CatalogueKeeps ==
    ASSUME Inv, \/ \E i \in Items : RegisterItem(i) \/ DeleteItem(i)
                \/ \E m \in Merchants : DeleteMerchant(m)
    PROVE  Inv'
<1>1. ASSUME NEW S, DeleteItems(S) PROVE Inv'
  <2>1. /\ UNCHANGED <<cart, call, carts, filled, collected, detached>>
        /\ disturbed \subseteq disturbed'
    BY <1>1 DEF DeleteItems, counters
  <2>2. DOMAIN row' = RowIds /\ \A r \in RowIds : row'[r] \in {row[r], None}
    BY <1>1 DEF DeleteItems, Inv, Shaped
  <2>3. QED BY <2>1, <2>2, RowsGo
<1>2. ASSUME NEW i \in Items, RegisterItem(i) PROVE Inv'
  <2>1. UNCHANGED <<cart, row, call, carts, filled, collected, disturbed, detached>>
    BY <1>2 DEF RegisterItem, history, counters
  <2>2. DOMAIN row' = RowIds /\ \A r \in RowIds : row'[r] \in {row[r], None}
    BY <2>1 DEF Inv, Shaped
  <2>3. QED BY <2>1, <2>2, RowsGo
<1>3. QED BY <1>1, <1>2 DEF DeleteItem, DeleteMerchant

LEMMA CrashKeeps ==
    ASSUME Inv, Crash
    PROVE  Inv'
<1>1. /\ UNCHANGED <<cart, row, carts, filled, collected, detached>>
      /\ disturbed \subseteq disturbed' /\ call' = [s \in Callers |-> Idle]
  BY DEF Crash
<1>2. CallsFit' /\ DOMAIN call' = Callers
  <2>1. \A s \in Callers : call'[s] = Idle
    BY <1>1
  <2>2. \A s \in Callers : CallFits(call[s])'
    BY <2>1, IdleFits DEF CallFits
  <2>3. QED BY <1>1, <2>2 DEF CallsFit
<1>3. QED BY <1>1, <1>2, TablesStay

-----------------------------------------------------------------------------
LEMMA NextKeeps == Inv /\ [Next]_vars => Inv'
<1> SUFFICES ASSUME Inv, [Next]_vars PROVE Inv'
  OBVIOUS
<1>1. ASSUME NEW s \in Callers, StartCall(s) PROVE Inv'
  BY <1>1, FillCartKeeps, StartCollectKeeps, OtherStartsKeep DEF StartCall
<1>2. CASE OneStep
  BY <1>2, CreateCartKeeps, DeleteCartKeeps, DeleteRowKeeps, CatalogueKeeps DEF OneStep
<1>3. CASE Crash
  BY <1>3, CrashKeeps
<1>4. ASSUME NEW s \in Callers, CallStep(s) PROVE Inv'
  <2>1. CASE \E n \in call[s].left : PriceLine(s, n) \/ PriceLooseRow(s, n)
    BY <2>1, PricingKeeps
  <2>2. CASE InsertRows(s) \/ SaveCart(s) \/ PlaceOrder(s)
    BY <2>2, InsertRowsKeeps, SaveCartKeeps, PlaceOrderKeeps
  <2>3. CASE FindLooseRows(s) \/ QuoteLine(s)
    BY <2>3, FindLooseRowsKeeps, QuoteLineKeeps
  <2>4. CASE FindRow(s) \/ UpdateRow(s) \/ RecalculateTotal(s)
    BY <2>4, FindRowKeeps, UpdateRowKeeps, RecalculateTotalKeeps
  <2>5. CASE FindCart(s) \/ StoreTotal(s)
    BY <2>5, FindCartKeeps, StoreTotalKeeps
  <2>6. QED BY <1>4, <2>1, <2>2, <2>3, <2>4, <2>5 DEF CallStep
<1>5. CASE UNCHANGED vars
  <2>1. UNCHANGED <<cart, row, call, carts, filled, collected, disturbed, detached>>
    BY <1>5 DEF vars, history, counters
  <2>2. DOMAIN row' = RowIds /\ \A r \in RowIds : row'[r] \in {row[r], None}
    BY <2>1 DEF Inv, Shaped
  <2>3. QED BY <2>1, <2>2, RowsGo
<1>6. QED BY <1>1, <1>2, <1>3, <1>4, <1>5 DEF Next, Request

LEMMA InvImplies == Inv => CollectedItemsWereDetached
BY DEF Inv, TotalsOK, CollectedItemsWereDetached, Settled

\* A cart of addToCart that nobody works on has a total only when its customer
\* lost a cart in a deletion: however calls overlap, fail or are cut short, no
\* item gets into the tables without a cart (cart.service.ts:223).
THEOREM CollectedWereDetached == Spec => []CollectedItemsWereDetached
<1>1. Spec => []Inv
  BY InitInv, NextKeeps, PTL DEF Spec
<1>2. QED BY <1>1, InvImplies, PTL

-----------------------------------------------------------------------------
\* Which fields of a call are filled, by handler and await.
CallFlows(k) ==
    /\ k.op \in {"idle", "quote"} => k.cart = None
    /\ k.op \in {"order", "cart"} =>
          /\ k.pc \in {"price", "insert", "save", "place"}
          /\ k.customer \in Customers /\ k.lines \in Baskets
          /\ k.pc # "price" => k.left = {}
    /\ k.op = "quote" =>
          /\ k.pc = "quote" /\ k.lines \in Baskets
          /\ k.left # {} /\ k.left \cap k.missing = {}
    /\ k.op = "edit" =>
          /\ k.edit \in Edits
          /\ k.pc \in {"find", "update", "recalculate", "findCart", "store"}
          /\ k.pc = "find" => k.cart = None
          /\ k.pc # "find" => k.copy # None
    /\ k.pc = "place" => k.op = "order"
    /\ k.pc = "quote" => k.op = "quote"
    /\ k.op # "quote" => k.missing = {}

\* The type of a call, with that.
CallTyped(s) == CallOK(s) /\ CallFlows(call[s])

\* The types of everything but the calls.
Stored ==
    /\ listing \in [Items -> {"unused", "listed", "deleted"}]
    /\ cart \in [CartIds -> CartRow \cup {None}]
    /\ row \in [RowIds -> ItemRow \cup {None}]
    /\ orders \subseteq [cart : CartIds, basket : Baskets, amount : Int]
    /\ quotes \subseteq [basket : Baskets, total : Int, missing : SUBSET RowIds]
    /\ carts \in 0 .. MaxCarts /\ cartItems \in 0 .. MaxRows
    /\ filled \cup collected \cup edited \cup disturbed \subseteq CartIds
    /\ detached \subseteq Customers
    /\ crashes \in 0 .. MaxCrashes

CallsTyped == DOMAIN call = Callers /\ \A s \in Callers : CallTyped(s)

Typed == Stored /\ CallsTyped

-----------------------------------------------------------------------------
\* What the assumptions say of baskets and prices.
LEMMA BasketFacts ==
    ASSUME NEW b \in Baskets
    PROVE  /\ b \in Seq(Line) /\ Len(b) \in Nat /\ Len(b) <= MaxRows
           /\ DOMAIN b = 1 .. Len(b) /\ DOMAIN b \subseteq RowIds
           /\ \A n \in DOMAIN b : b[n] \in Line
           /\ IsFiniteSet(DOMAIN b)
<1>1. b \in Seq(Line) /\ Len(b) <= MaxRows
  BY RequestAssumption
<1>2. Len(b) \in Nat /\ DOMAIN b = 1 .. Len(b) /\ \A n \in DOMAIN b : b[n] \in Line
  BY <1>1
<1>3. DOMAIN b \subseteq RowIds
  BY <1>1, <1>2, BoundsAssumption DEF RowIds
<1>4. IsFiniteSet(DOMAIN b)
  BY <1>2, FS_Interval
<1>5. QED BY <1>1, <1>2, <1>3, <1>4

\* Prices are whole numbers, and not negative.
LEMMA PriceFacts ==
    ASSUME NEW line, line.item \in Items, line.variant \in Variants \cup {None}
    PROVE  /\ Price[line.item] \in Nat /\ UnitPrice(line) \in Nat
           /\ Price[line.item] <= UnitPrice(line)
           /\ line.variant = None => UnitPrice(line) = Price[line.item]
BY CatalogueAssumption DEF UnitPrice

LEMMA RowIdsFinite ==
    ASSUME NEW S \in SUBSET RowIds
    PROVE  IsFiniteSet(S)
<1>1. IsFiniteSet(RowIds)
  BY BoundsAssumption, FS_Interval DEF RowIds
<1>2. QED BY <1>1, FS_Subset

LEMMA IdleTyped ==
    ASSUME NEW s \in Callers, call'[s] = Idle
    PROVE  CallTyped(s)'
BY DEF CallTyped, CallOK, CallFlows, Idle

\* One call goes on.
LEMMA GoesOnTyped ==
    ASSUME CallsTyped, NEW s \in Callers, DOMAIN call' = Callers,
           \A t \in Callers \ {s} : call'[t] = call[t], CallTyped(s)'
    PROVE  CallsTyped'
<1>1. ASSUME NEW t \in Callers \ {s} PROVE CallTyped(t)'
  BY <1>1 DEF CallsTyped, CallTyped, CallOK, CallFlows
<1>2. QED BY <1>1 DEF CallsTyped

LEMMA EndsTyped ==
    ASSUME CallsTyped, NEW s \in Callers, End(s)
    PROVE  CallsTyped'
<1>1. /\ DOMAIN call' = Callers /\ \A t \in Callers \ {s} : call'[t] = call[t]
      /\ call'[s] = Idle
  BY DEF End, CallsTyped
<1>2. QED BY <1>1, IdleTyped, GoesOnTyped

LEMMA StaysTyped ==
    ASSUME CallsTyped, UNCHANGED call
    PROVE  CallsTyped'
BY DEF CallsTyped, CallTyped, CallOK, CallFlows

LEMMA NewCartTyped ==
    ASSUME Inv, Stored, NEW x, NEW u \in Customers, NEW total \in Int \cup {None},
           NewCart(x, u, total)
    PROVE  cart' \in [CartIds -> CartRow \cup {None}]
<1>1. /\ carts' \in CartIds
      /\ cart' = [cart EXCEPT ![carts'] = [customer |-> u, total |-> total]]
  BY NewCartIsNew DEF NewCart
<1>2. [customer |-> u, total |-> total] \in CartRow
  BY DEF CartRow
<1>3. QED BY <1>1, <1>2 DEF Stored

LEMMA SaveTotalTyped ==
    ASSUME Stored, NEW c, NEW read, NEW total \in Int, SaveTotal(c, read, total)
    PROVE  cart' \in [CartIds -> CartRow \cup {None}]
BY DEF Stored, SaveTotal, CartRow

-----------------------------------------------------------------------------
\* The steps that start a call.
LEMMA FillCartTyped ==
    ASSUME Inv, Typed, NEW s \in Callers, NEW op \in {"order", "cart"},
           NEW u \in Customers, NEW b \in Baskets, FillCart(s, op, u, b)
    PROVE  Typed'
<1>1. /\ NewCart(s, u, 0) /\ filled' = filled \cup {carts'}
      /\ UNCHANGED <<listing, row, orders, quotes, cartItems, crashes>>
      /\ UNCHANGED <<collected, edited, disturbed, detached>>
  BY DEF FillCart, books
<1>2. carts' \in CartIds /\ carts' \in 0 .. MaxCarts
  BY <1>1, NewCartIsNew
<1>3. Stored'
  BY <1>1, <1>2, NewCartTyped DEF Typed, Stored
<1> DEFINE k == [Idle EXCEPT !.op = op, !.pc = IF b = <<>> THEN "insert" ELSE "price",
                   !.customer = u, !.cart = carts', !.lines = b, !.left = DOMAIN b]
<1>4. /\ DOMAIN k = DOMAIN Idle /\ k.op = op /\ k.customer = u /\ k.cart = carts'
      /\ k.pc = IF b = <<>> THEN "insert" ELSE "price"
      /\ k.lines = b /\ k.left = DOMAIN b /\ k.missing = {} /\ k.sum = 0 /\ k.row = None
      /\ k.copy = None /\ k.edit = None /\ k.seen = None
  BY DEF Idle
<1>5. call' = [call EXCEPT ![s] = k]
  BY DEF FillCart
<1> HIDE DEF k
<1>6. /\ DOMAIN call' = Callers /\ \A t \in Callers \ {s} : call'[t] = call[t]
      /\ call'[s] = k
  BY <1>5 DEF Typed, CallsTyped
<1>7. DOMAIN b \subseteq RowIds /\ \A n \in DOMAIN b : b[n] \in Line
  BY BasketFacts
<1>8. CallTyped(s)'
  <2>1. CallOK(s)'
    BY <1>2, <1>4, <1>6, <1>7 DEF CallOK
  <2>2. CallFlows(call[s])'
    BY <1>4, <1>6 DEF CallFlows
  <2>3. QED BY <2>1, <2>2 DEF CallTyped
<1>9. QED BY <1>3, <1>6, <1>8, GoesOnTyped DEF Typed

LEMMA StartCollectTyped ==
    ASSUME Inv, Typed, NEW s \in Callers, NEW u \in Customers, StartCollect(s, u)
    PROVE  Typed'
<1>1. /\ NewCart(s, u, None) /\ collected' = collected \cup {carts'}
      /\ UNCHANGED <<listing, row, orders, quotes, cartItems, crashes>>
      /\ UNCHANGED <<filled, edited, disturbed, detached>>
  BY DEF StartCollect, books
<1>2. carts' \in CartIds /\ carts' \in 0 .. MaxCarts
  BY <1>1, NewCartIsNew
<1>3. Stored'
  BY <1>1, <1>2, NewCartTyped DEF Typed, Stored
<1> DEFINE k == [Idle EXCEPT !.op = "collect", !.pc = "find", !.customer = u,
                   !.cart = carts']
<1>4. /\ DOMAIN k = DOMAIN Idle /\ k.op = "collect" /\ k.customer = u /\ k.cart = carts'
      /\ k.pc = "find" /\ k.lines = <<>> /\ k.left = {} /\ k.missing = {} /\ k.sum = 0
      /\ k.row = None /\ k.copy = None /\ k.edit = None /\ k.seen = None
  BY DEF Idle
<1>5. call' = [call EXCEPT ![s] = k]
  BY DEF StartCollect
<1> HIDE DEF k
<1>6. /\ DOMAIN call' = Callers /\ \A t \in Callers \ {s} : call'[t] = call[t]
      /\ call'[s] = k
  BY <1>5 DEF Typed, CallsTyped
<1>7. CallTyped(s)'
  BY <1>2, <1>4, <1>6 DEF CallTyped, CallOK, CallFlows
<1>8. QED BY <1>3, <1>6, <1>7, GoesOnTyped DEF Typed

LEMMA StartQuoteTyped ==
    ASSUME Typed, NEW s \in Callers, NEW b \in Baskets, StartQuote(s, b)
    PROVE  Typed'
<1>1. UNCHANGED <<listing, cart, row, orders, carts, cartItems, crashes, filled, collected,
                  edited, disturbed, detached>>
  BY DEF StartQuote, history, counters
<1>2. CASE b = <<>>
  <2>1. call' = call /\ quotes' = quotes \cup {[basket |-> b, total |-> 0, missing |-> {}]}
    BY <1>2 DEF StartQuote
  <2>2. [basket |-> b, total |-> 0, missing |-> {}]
           \in [basket : Baskets, total : Int, missing : SUBSET RowIds]
    OBVIOUS
  <2>3. Stored'
    BY <1>1, <2>1, <2>2 DEF Typed, Stored
  <2>4. QED BY <2>1, <2>3, StaysTyped DEF Typed
<1>3. CASE b # <<>>
  <2> DEFINE k == [Idle EXCEPT !.op = "quote", !.pc = "quote", !.lines = b,
                     !.left = DOMAIN b]
  <2>1. call' = [call EXCEPT ![s] = k] /\ quotes' = quotes
    BY <1>3 DEF StartQuote
  <2>2. /\ DOMAIN k = DOMAIN Idle /\ k.op = "quote" /\ k.pc = "quote"
        /\ k.lines = b /\ k.left = DOMAIN b /\ k.missing = {} /\ k.sum = 0
        /\ k.customer = None /\ k.cart = None /\ k.row = None
        /\ k.copy = None /\ k.edit = None /\ k.seen = None
    BY DEF Idle
  <2> HIDE DEF k
  <2>3. /\ DOMAIN call' = Callers /\ \A t \in Callers \ {s} : call'[t] = call[t]
        /\ call'[s] = k
    BY <2>1 DEF Typed, CallsTyped
  <2>4. DOMAIN b \subseteq RowIds /\ \A n \in DOMAIN b : b[n] \in Line
    BY BasketFacts
  <2>5. DOMAIN b # {}
    BY <1>3, BasketFacts
  <2>6. CallTyped(s)'
    BY <2>2, <2>3, <2>4, <2>5 DEF CallTyped, CallOK, CallFlows
  <2>7. CallsTyped'
    BY <2>3, <2>6, GoesOnTyped DEF Typed
  <2>8. QED BY <1>1, <2>1, <2>7 DEF Typed, Stored
<1>4. QED BY <1>2, <1>3

LEMMA StartEditTyped ==
    ASSUME Typed, NEW s \in Callers, NEW r \in RowIds, NEW e \in Edits, StartEdit(s, r, e)
    PROVE  Typed'
<1>1. UNCHANGED <<listing, cart, row, orders, quotes, carts, cartItems, crashes, filled,
                  collected, edited, disturbed, detached>>
  BY DEF StartEdit, history, counters, books
<1> DEFINE k == [Idle EXCEPT !.op = "edit", !.pc = "find", !.row = r, !.edit = e]
<1>2. call' = [call EXCEPT ![s] = k]
  BY DEF StartEdit
<1>3. /\ DOMAIN k = DOMAIN Idle /\ k.op = "edit" /\ k.pc = "find"
      /\ k.row = r /\ k.edit = e /\ k.lines = <<>> /\ k.left = {} /\ k.missing = {}
      /\ k.sum = 0 /\ k.customer = None /\ k.cart = None
      /\ k.copy = None /\ k.seen = None
  BY DEF Idle
<1> HIDE DEF k
<1>4. /\ DOMAIN call' = Callers /\ \A t \in Callers \ {s} : call'[t] = call[t]
      /\ call'[s] = k
  BY <1>2 DEF Typed, CallsTyped
<1>5. CallTyped(s)'
  BY <1>3, <1>4 DEF CallTyped, CallOK, CallFlows
<1>6. CallsTyped'
  BY <1>4, <1>5, GoesOnTyped DEF Typed
<1>7. QED BY <1>1, <1>6 DEF Typed, Stored

LEMMA StartPutTyped ==
    ASSUME Typed, NEW s \in Callers, NEW c \in CartIds, NEW total \in Amounts,
           StartPut(s, c, total)
    PROVE  Typed'
<1>1. /\ UNCHANGED <<listing, cart, row, orders, quotes, carts, cartItems, crashes, filled,
                     collected, edited, detached>>
      /\ disturbed' = disturbed \cup {c}
  BY DEF StartPut, counters, books
<1> DEFINE k == [Idle EXCEPT !.op = "put", !.pc = "findCart", !.cart = c, !.sum = total]
<1>2. call' = [call EXCEPT ![s] = k]
  BY DEF StartPut
<1>3. /\ DOMAIN k = DOMAIN Idle /\ k.op = "put" /\ k.pc = "findCart"
      /\ k.cart = c /\ k.sum = total /\ k.lines = <<>> /\ k.left = {} /\ k.missing = {}
      /\ k.customer = None /\ k.row = None /\ k.edit = None
      /\ k.copy = None /\ k.seen = None
  BY DEF Idle
<1> HIDE DEF k
<1>4. /\ DOMAIN call' = Callers /\ \A t \in Callers \ {s} : call'[t] = call[t]
      /\ call'[s] = k
  BY <1>2 DEF Typed, CallsTyped
<1>5. total \in Int
  BY RequestAssumption
<1>6. CallTyped(s)'
  BY <1>3, <1>4, <1>5 DEF CallTyped, CallOK, CallFlows
<1>7. CallsTyped'
  BY <1>4, <1>6, GoesOnTyped DEF Typed
<1>8. QED BY <1>1, <1>7 DEF Typed, Stored

-----------------------------------------------------------------------------
\* The steps of a call: for each, the fields it writes, and that their types stay.
LEMMA PriceLineDoes ==
    ASSUME CallsTyped, NEW s \in Callers, NEW n \in call[s].left, PriceLine(s, n), ~End(s)
    PROVE  LET k == call[s]
               line == call[s].lines[n]
           IN /\ DOMAIN call' = Callers /\ \A t \in Callers \ {s} : call'[t] = call[t]
              /\ Listed(line.item)
              /\ DOMAIN call'[s] = DOMAIN Idle
              /\ call'[s].left = k.left \ {n}
              /\ call'[s].sum = k.sum + UnitPrice(line) * line.qty
              /\ call'[s].pc = IF k.left = {n} THEN "insert" ELSE "price"
              /\ call'[s].op = k.op /\ call'[s].customer = k.customer
              /\ call'[s].cart = k.cart /\ call'[s].lines = k.lines
              /\ call'[s].missing = k.missing /\ call'[s].row = k.row
              /\ call'[s].copy = k.copy /\ call'[s].edit = k.edit
              /\ call'[s].seen = k.seen
<1>1. DOMAIN call = Callers /\ DOMAIN call[s] = DOMAIN Idle
  BY DEF CallsTyped, CallTyped, CallOK
<1>2. QED BY <1>1 DEF PriceLine, Idle

LEMMA PriceLineTyped ==
    ASSUME Typed, NEW s \in Callers, NEW n \in call[s].left, PriceLine(s, n)
    PROVE  Typed'
<1>1. UNCHANGED <<listing, cart, row, orders, quotes, carts, cartItems, crashes, filled,
                  collected, edited, disturbed, detached>>
  BY DEF PriceLine, history, counters, books
<1>2. CASE End(s)
  BY <1>1, <1>2, EndsTyped DEF Typed, Stored
<1>3. CASE ~End(s)
  <2> DEFINE k == call[s]
  <2> DEFINE line == call[s].lines[n]
  <2>1. CallTyped(s) /\ k.op \in {"order", "cart"} /\ k.pc = "price"
    BY DEF Typed, CallsTyped, PriceLine, At
  <2>2. line \in Line /\ k.sum \in Int
    BY <2>1 DEF CallTyped, CallOK
  <2>3. UnitPrice(line) \in Nat /\ line.qty \in Int
    BY <2>2, PriceFacts DEF Line
  <2>4. k.sum + UnitPrice(line) * line.qty \in Int
    BY <2>2, <2>3
  <2> HIDE DEF line
  <2>5. /\ DOMAIN call' = Callers /\ \A t \in Callers \ {s} : call'[t] = call[t]
        /\ DOMAIN call'[s] = DOMAIN Idle
        /\ call'[s].left = k.left \ {n}
        /\ call'[s].sum = k.sum + UnitPrice(line) * line.qty
        /\ call'[s].pc = IF k.left = {n} THEN "insert" ELSE "price"
        /\ call'[s].op = k.op /\ call'[s].customer = k.customer
        /\ call'[s].cart = k.cart /\ call'[s].lines = k.lines
        /\ call'[s].missing = k.missing /\ call'[s].row = k.row
        /\ call'[s].copy = k.copy /\ call'[s].edit = k.edit
        /\ call'[s].seen = k.seen
    BY <1>3, PriceLineDoes DEF Typed, line
  <2>6. CallOK(s)'
    BY <2>1, <2>4, <2>5 DEF CallTyped, CallOK
  <2>7. CallFlows(call[s])'
    BY <2>1, <2>5 DEF CallTyped, CallFlows
  <2>8. CallsTyped'
    BY <2>5, <2>6, <2>7, GoesOnTyped DEF Typed, CallTyped
  <2>9. QED BY <1>1, <2>8 DEF Typed, Stored
<1>4. QED BY <1>2, <1>3

LEMMA PriceLooseRowTyped ==
    ASSUME Typed, NEW s \in Callers, NEW n \in call[s].left, PriceLooseRow(s, n)
    PROVE  Typed'
<1>1. UNCHANGED <<listing, cart, row, orders, quotes, carts, cartItems, crashes, filled,
                  collected, edited, disturbed, detached>>
  BY DEF PriceLooseRow, history, counters, books
<1>2. CASE End(s)
  BY <1>1, <1>2, EndsTyped DEF Typed, Stored
<1>3. CASE ~End(s)
  <2> DEFINE k == call[s]
  <2> DEFINE line == call[s].lines[n]
  <2> DEFINE charged == IF line.variant # None /\ ~VariantListed(line.variant)
                        THEN [line EXCEPT !.variant = None] ELSE line
  <2>1. CallTyped(s) /\ k.op = "collect" /\ k.pc = "price"
    BY DEF Typed, CallsTyped, PriceLooseRow, At
  <2>2. line \in Line /\ k.sum \in Int
    BY <2>1 DEF CallTyped, CallOK
  <2>3. charged.item \in Items /\ charged.variant \in Variants \cup {None} /\ line.qty \in Int
    BY <2>2 DEF Line
  <2>4. UnitPrice(charged) \in Nat
    <3> HIDE DEF charged
    <3>1. QED BY <2>3, PriceFacts
  <2>5. k.sum + UnitPrice(charged) * line.qty \in Int
    BY <2>2, <2>3, <2>4
  <2>6. /\ DOMAIN call' = Callers /\ \A t \in Callers \ {s} : call'[t] = call[t]
        /\ DOMAIN call'[s] = DOMAIN Idle
        /\ call'[s].left = k.left \ {n}
        /\ call'[s].sum = k.sum + UnitPrice(charged) * line.qty
        /\ call'[s].pc = IF k.left = {n} THEN "save" ELSE "price"
        /\ call'[s].op = k.op /\ call'[s].customer = k.customer
        /\ call'[s].cart = k.cart /\ call'[s].lines = k.lines
        /\ call'[s].missing = k.missing /\ call'[s].row = k.row
        /\ call'[s].copy = k.copy /\ call'[s].edit = k.edit
        /\ call'[s].seen = k.seen
    <3>1. DOMAIN call = Callers /\ DOMAIN call[s] = DOMAIN Idle
      BY DEF Typed, CallsTyped, CallTyped, CallOK
    <3> HIDE DEF charged
    <3>2. QED BY <1>3, <3>1 DEF PriceLooseRow, Idle, charged
  <2> HIDE DEF charged, line
  <2>7. CallOK(s)'
    BY <2>1, <2>5, <2>6 DEF CallTyped, CallOK
  <2>8. CallFlows(call[s])'
    BY <2>1, <2>6 DEF CallTyped, CallFlows
  <2>9. CallsTyped'
    BY <2>6, <2>7, <2>8, GoesOnTyped DEF Typed, CallTyped
  <2>10. QED BY <1>1, <2>9 DEF Typed, Stored
<1>4. QED BY <1>2, <1>3

\* There is a line to look up, and it is one of those left.
LEMMA MinIsLeft ==
    ASSUME NEW S \in SUBSET RowIds, S # {}
    PROVE  Min(S) \in S
<1> DEFINE Less == OpToRel(<, Nat)
<1>1. S \subseteq Nat
  BY BoundsAssumption DEF RowIds
<1>2. PICK e \in S : \A f \in S : ~ (<<f, e>> \in Less)
  BY <1>1, NatLessThanWellFounded, WFMin
<1>3. \A f \in S : ~ (f < e)
  <2> SUFFICES ASSUME NEW f \in S, f < e PROVE <<f, e>> \in Less
    BY <1>2
  <2> QED
    BY <1>1 DEF OpToRel
<1>4. \A f \in S : e <= f
  BY <1>1, <1>3
<1>5. QED BY <1>4 DEF Min

\* What the line of a quote costs.
QuotedPrice(line) == IF Listed(line.item) THEN Price[line.item] * line.qty ELSE 0

LEMMA QuoteLineDoes ==
    ASSUME Typed, NEW s \in Callers, QuoteLine(s)
    PROVE  LET k == call[s]
               n == Min(call[s].left)
               line == k.lines[n]
               total == k.sum + QuotedPrice(line)
               missing == k.missing \cup (IF Listed(line.item) THEN {} ELSE {n})
           IN /\ CallTyped(s) /\ k.op = "quote" /\ n \in k.left /\ n \notin k.missing
              /\ line \in Line /\ total \in Int
              /\ k.left = {n} =>
                    /\ End(s)
                    /\ quotes' = quotes \cup {[basket |-> k.lines, total |-> total,
                                               missing |-> missing]}
              /\ k.left # {n} =>
                    /\ UNCHANGED quotes
                    /\ DOMAIN call' = Callers
                    /\ \A t \in Callers \ {s} : call'[t] = call[t]
                    /\ DOMAIN call'[s] = DOMAIN Idle
                    /\ call'[s].left = k.left \ {n}
                    /\ call'[s].sum = total /\ call'[s].missing = missing
                    /\ call'[s].pc = k.pc
                    /\ call'[s].op = k.op /\ call'[s].customer = k.customer
                    /\ call'[s].cart = k.cart /\ call'[s].lines = k.lines
                    /\ call'[s].row = k.row
                    /\ call'[s].copy = k.copy /\ call'[s].edit = k.edit
                    /\ call'[s].seen = k.seen
<1> DEFINE k == call[s]
<1> DEFINE n == Min(call[s].left)
<1> DEFINE line == k.lines[n]
<1> DEFINE found == Listed(line.item)
<1> DEFINE price == QuotedPrice(line)
<1> DEFINE missing == k.missing \cup (IF found THEN {} ELSE {n})
<1>1. /\ CallTyped(s) /\ k.pc = "quote" /\ k.op = "quote"
      /\ DOMAIN k = DOMAIN Idle /\ DOMAIN call = Callers
      /\ k.sum \in Int /\ k.left # {} /\ k.left \cap k.missing = {}
  BY DEF Typed, CallsTyped, CallTyped, CallOK, CallFlows, QuoteLine, At
<1>2. k.left \subseteq RowIds /\ \A m \in k.left : k.lines[m] \in Line
  BY <1>1 DEF CallTyped, CallOK
<1>3. n \in k.left /\ n \notin k.missing /\ line \in Line
  <2>1. n \in k.left
    BY <1>1, <1>2, MinIsLeft
  <2> HIDE DEF n
  <2>2. QED BY <1>1, <1>2, <2>1
<1> HIDE DEF n, line
<1>4. Price[line.item] \in Nat /\ line.qty \in Int
  BY <1>3, PriceFacts DEF Line
<1>5. price \in Int
  BY <1>4 DEF QuotedPrice
<1>6. k.sum + (IF found THEN Price[line.item] * line.qty ELSE 0) = k.sum + price
  BY DEF QuotedPrice
<1> HIDE DEF price
<1>7. /\ k.left = {n} =>
            /\ End(s)
            /\ quotes' = quotes \cup {[basket |-> k.lines, total |-> k.sum + price,
                                       missing |-> missing]}
      /\ k.left # {n} =>
            /\ UNCHANGED quotes
            /\ call' = [call EXCEPT ![s].left = @ \ {n}, ![s].sum = k.sum + price,
                                    ![s].missing = missing]
  BY <1>6 DEF QuoteLine, n, line
<1> HIDE DEF missing
<1>8. k.left # {n} =>
            /\ DOMAIN call' = Callers
            /\ \A t \in Callers \ {s} : call'[t] = call[t]
            /\ DOMAIN call'[s] = DOMAIN Idle
            /\ call'[s].left = k.left \ {n}
            /\ call'[s].sum = k.sum + price /\ call'[s].missing = missing
            /\ call'[s].pc = k.pc
            /\ call'[s].op = k.op /\ call'[s].customer = k.customer
            /\ call'[s].cart = k.cart /\ call'[s].lines = k.lines
            /\ call'[s].row = k.row
            /\ call'[s].copy = k.copy /\ call'[s].edit = k.edit
            /\ call'[s].seen = k.seen
  BY <1>1, <1>7 DEF Idle
<1>9. k.sum + price \in Int
  BY <1>1, <1>5
<1>10. QED BY <1>1, <1>3, <1>7, <1>8, <1>9 DEF n, line, missing, price

LEMMA QuoteLineTyped ==
    ASSUME Typed, NEW s \in Callers, QuoteLine(s)
    PROVE  Typed'
<1> DEFINE k == call[s]
<1> DEFINE n == Min(call[s].left)
<1> DEFINE line == k.lines[n]
<1> DEFINE total == k.sum + QuotedPrice(line)
<1> DEFINE missing == k.missing \cup (IF Listed(line.item) THEN {} ELSE {n})
<1>1. UNCHANGED <<listing, cart, row, orders, carts, cartItems, crashes, filled,
                  collected, edited, disturbed, detached>>
  BY DEF QuoteLine, history, counters
<1>2. /\ CallTyped(s) /\ k.op = "quote" /\ n \in k.left /\ n \notin k.missing /\ total \in Int
      /\ k.left = {n} =>
            /\ End(s)
            /\ quotes' = quotes \cup {[basket |-> k.lines, total |-> total,
                                       missing |-> missing]}
      /\ k.left # {n} =>
            /\ UNCHANGED quotes
            /\ DOMAIN call' = Callers
            /\ \A t \in Callers \ {s} : call'[t] = call[t]
            /\ DOMAIN call'[s] = DOMAIN Idle
            /\ call'[s].left = k.left \ {n}
            /\ call'[s].sum = total /\ call'[s].missing = missing
            /\ call'[s].pc = k.pc
            /\ call'[s].op = k.op /\ call'[s].customer = k.customer
            /\ call'[s].cart = k.cart /\ call'[s].lines = k.lines
            /\ call'[s].row = k.row
            /\ call'[s].copy = k.copy /\ call'[s].edit = k.edit
            /\ call'[s].seen = k.seen
  BY QuoteLineDoes
<1>3. missing \subseteq k.missing \cup {n}
  OBVIOUS
<1> HIDE DEF n, line, total, missing
<1>4. k.lines \in Baskets /\ missing \subseteq DOMAIN k.lines /\ DOMAIN k.lines \subseteq RowIds
  BY <1>2, <1>3 DEF CallTyped, CallOK, CallFlows
<1>5. CASE k.left = {n}
  <2>1. [basket |-> k.lines, total |-> total, missing |-> missing]
           \in [basket : Baskets, total : Int, missing : SUBSET RowIds]
    BY <1>2, <1>4
  <2>2. Stored'
    BY <1>1, <1>2, <1>5, <2>1 DEF Typed, Stored
  <2>3. QED BY <1>2, <1>5, <2>2, EndsTyped DEF Typed
<1>6. CASE k.left # {n}
  <2>1. CallOK(s)'
    BY <1>2, <1>4, <1>6 DEF CallTyped, CallOK
  <2>2. CallFlows(call[s])'
    BY <1>2, <1>3, <1>6 DEF CallTyped, CallFlows
  <2>3. CallsTyped'
    BY <1>2, <1>6, <2>1, <2>2, GoesOnTyped DEF Typed, CallTyped
  <2>4. QED BY <1>1, <1>2, <1>6, <2>3 DEF Typed, Stored
<1>7. QED BY <1>5, <1>6

LEMMA FindLooseRowsTyped ==
    ASSUME Typed, NEW s \in Callers, FindLooseRows(s)
    PROVE  Typed'
<1> DEFINE k == call[s]
<1> DEFINE found == LooseRows(k.customer)
<1> DEFINE lines == [r \in found |-> [item |-> row[r].item, variant |-> row[r].variant,
                                      qty |-> row[r].qty]]
<1>1. UNCHANGED <<listing, cart, row, orders, quotes, carts, cartItems, crashes, filled,
                  collected, edited, disturbed, detached>>
  BY DEF FindLooseRows, history, counters, books
<1>2. CallTyped(s) /\ k.op = "collect" /\ DOMAIN k = DOMAIN Idle /\ DOMAIN call = Callers
  BY DEF Typed, CallsTyped, CallTyped, CallOK, FindLooseRows
<1>3. found \subseteq RowIds /\ \A r \in found : row[r] \in ItemRow
  BY DEF LooseRows, Typed, Stored
<1>4. DOMAIN lines = found /\ \A r \in found : lines[r] \in Line
  BY <1>3 DEF ItemRow, Line
<1>5. call' = [call EXCEPT ![s].left = found, ![s].lines = lines,
                           ![s].pc = IF found = {} THEN "save" ELSE "price"]
  BY DEF FindLooseRows
<1> HIDE DEF found, lines
<1>6. /\ DOMAIN call' = Callers /\ \A t \in Callers \ {s} : call'[t] = call[t]
      /\ DOMAIN call'[s] = DOMAIN Idle
      /\ call'[s].left = found /\ call'[s].lines = lines
      /\ call'[s].pc = IF found = {} THEN "save" ELSE "price"
      /\ call'[s].op = k.op /\ call'[s].customer = k.customer
      /\ call'[s].cart = k.cart /\ call'[s].sum = k.sum
      /\ call'[s].missing = k.missing /\ call'[s].row = k.row
      /\ call'[s].copy = k.copy /\ call'[s].edit = k.edit
      /\ call'[s].seen = k.seen
  BY <1>2, <1>5 DEF Idle
<1>7. k.missing \subseteq found
  BY <1>2 DEF CallTyped, CallFlows
<1>8. CallOK(s)'
  BY <1>2, <1>3, <1>4, <1>6, <1>7 DEF CallTyped, CallOK
<1>9. CallFlows(call[s])'
  BY <1>2, <1>6 DEF CallTyped, CallFlows
<1>10. CallsTyped'
  BY <1>6, <1>8, <1>9, GoesOnTyped DEF Typed, CallTyped
<1>11. QED BY <1>1, <1>10 DEF Typed, Stored

LEMMA FindRowDoes ==
    ASSUME Inv, Typed, NEW s \in Callers, FindRow(s), row[call[s].row] # None
    PROVE  LET k == call[s]
               copy == row[call[s].row]
           IN /\ copy \in ItemRow /\ Meets(copy.cart)
              /\ DOMAIN call' = Callers /\ \A t \in Callers \ {s} : call'[t] = call[t]
              /\ DOMAIN call'[s] = DOMAIN Idle
              /\ call'[s].copy = copy /\ call'[s].cart = copy.cart
              /\ call'[s].pc = "update"
              /\ call'[s].op = k.op /\ call'[s].customer = k.customer
              /\ call'[s].lines = k.lines /\ call'[s].left = k.left
              /\ call'[s].missing = k.missing /\ call'[s].sum = k.sum
              /\ call'[s].row = k.row /\ call'[s].edit = k.edit
              /\ call'[s].seen = k.seen
<1> DEFINE k == call[s]
<1> DEFINE copy == row[k.row]
<1>1. /\ k.op = "edit" /\ DOMAIN k = DOMAIN Idle /\ DOMAIN call = Callers /\ k.row \in RowIds
  BY DEF Inv, CallsFit, CallFits, Typed, CallsTyped, FindRow
<1>2. copy \in ItemRow
  BY <1>1 DEF Typed, Stored
<1>3. /\ call' = [call EXCEPT ![s].copy = copy, ![s].cart = copy.cart, ![s].pc = "update"]
      /\ Meets(copy.cart)
  BY DEF FindRow
<1> HIDE DEF copy
<1>4. /\ DOMAIN call' = Callers /\ \A t \in Callers \ {s} : call'[t] = call[t]
      /\ DOMAIN call'[s] = DOMAIN Idle
      /\ call'[s].copy = copy /\ call'[s].cart = copy.cart
      /\ call'[s].pc = "update"
      /\ call'[s].op = k.op /\ call'[s].customer = k.customer
      /\ call'[s].lines = k.lines /\ call'[s].left = k.left
      /\ call'[s].missing = k.missing /\ call'[s].sum = k.sum
      /\ call'[s].row = k.row /\ call'[s].edit = k.edit
      /\ call'[s].seen = k.seen
  BY <1>1, <1>3 DEF Idle
<1>5. QED BY <1>2, <1>3, <1>4 DEF copy

LEMMA FindRowTyped ==
    ASSUME Inv, Typed, NEW s \in Callers, FindRow(s)
    PROVE  Typed'
<1> DEFINE k == call[s]
<1> DEFINE copy == row[k.row]
<1>1. UNCHANGED <<listing, cart, row, orders, quotes, carts, cartItems, crashes, filled,
                  collected, edited, detached>>
  BY DEF FindRow, counters, books
<1>2. CallTyped(s) /\ k.op = "edit"
  BY DEF Typed, CallsTyped, FindRow
<1>3. CASE copy = None
  <2>1. End(s) /\ disturbed' = disturbed
    BY <1>3 DEF FindRow
  <2>2. QED BY <1>1, <2>1, EndsTyped DEF Typed, Stored
<1>4. CASE copy # None
  <2>1. /\ copy \in ItemRow /\ Meets(copy.cart)
        /\ DOMAIN call' = Callers /\ \A t \in Callers \ {s} : call'[t] = call[t]
        /\ DOMAIN call'[s] = DOMAIN Idle
        /\ call'[s].copy = copy /\ call'[s].cart = copy.cart
        /\ call'[s].pc = "update"
        /\ call'[s].op = k.op /\ call'[s].customer = k.customer
        /\ call'[s].lines = k.lines /\ call'[s].left = k.left
        /\ call'[s].missing = k.missing /\ call'[s].sum = k.sum
        /\ call'[s].row = k.row /\ call'[s].edit = k.edit
        /\ call'[s].seen = k.seen
    BY <1>4, FindRowDoes
  <2> HIDE DEF copy
  <2>2. copy.cart \in CartIds \cup {None}
    BY <2>1 DEF ItemRow
  <2>3. CallOK(s)'
    BY <1>2, <2>1, <2>2 DEF CallTyped, CallOK
  <2>4. CallFlows(call[s])'
    BY <1>2, <1>4, <2>1 DEF CallTyped, CallFlows
  <2>5. CallsTyped'
    BY <2>1, <2>3, <2>4, GoesOnTyped DEF Typed, CallTyped
  <2>6. disturbed' \subseteq disturbed \cup (CartIds \cup {None}) /\ None \notin disturbed'
    BY <2>1, <2>2, BoundsAssumption DEF Meets, Touched, Typed, Stored
  <2>7. QED BY <1>1, <2>5, <2>6 DEF Typed, Stored
<1>5. QED BY <1>3, <1>4

LEMMA UpdateRowDoes ==
    ASSUME Inv, Typed, NEW s \in Callers, UpdateRow(s)
    PROVE  LET k == call[s] IN
           /\ CallTyped(s) /\ k.op = "edit" /\ k.pc = "update" /\ k.row \in RowIds
           /\ DOMAIN call' = Callers /\ \A t \in Callers \ {s} : call'[t] = call[t]
           /\ DOMAIN call'[s] = DOMAIN Idle /\ call'[s].pc = "recalculate"
           /\ call'[s].op = k.op /\ call'[s].customer = k.customer
           /\ call'[s].cart = k.cart
           /\ call'[s].lines = k.lines /\ call'[s].left = k.left
           /\ call'[s].missing = k.missing /\ call'[s].sum = k.sum
           /\ call'[s].row = k.row /\ call'[s].copy = k.copy
           /\ call'[s].edit = k.edit /\ call'[s].seen = k.seen
           /\ row' \in [RowIds -> ItemRow \cup {None}]
           /\ \A r \in RowIds \ {k.row} : row'[r] = row[r]
           /\ row[k.row] = None => row'[k.row] = None
           /\ row[k.row] # None =>
                 /\ row'[k.row] # None
                 /\ row'[k.row].item = row[k.row].item
                 /\ row'[k.row].cart = row[k.row].cart
                 /\ row'[k.row].customer = row[k.row].customer
<1> DEFINE k == call[s]
<1>1. /\ k.op = "edit" /\ k.pc = "update" /\ k.row \in RowIds /\ CallTyped(s)
      /\ DOMAIN k = DOMAIN Idle /\ DOMAIN call = Callers
  BY DEF Inv, CallsFit, CallFits, Typed, CallsTyped, UpdateRow, At
<1>2. /\ DOMAIN call' = Callers /\ \A t \in Callers \ {s} : call'[t] = call[t]
      /\ DOMAIN call'[s] = DOMAIN Idle /\ call'[s].pc = "recalculate"
      /\ call'[s].op = k.op /\ call'[s].customer = k.customer
      /\ call'[s].cart = k.cart
      /\ call'[s].lines = k.lines /\ call'[s].left = k.left
      /\ call'[s].missing = k.missing /\ call'[s].sum = k.sum
      /\ call'[s].row = k.row /\ call'[s].copy = k.copy
      /\ call'[s].edit = k.edit /\ call'[s].seen = k.seen
  BY <1>1 DEF UpdateRow, Goto, Idle
<1>3. /\ k.copy \in ItemRow /\ k.edit.qty \in Int
      /\ k.edit.variant \in Variants \cup {None, Keep}
  BY <1>1, RequestAssumption DEF CallTyped, CallOK, CallFlows
<1>4. row \in [RowIds -> ItemRow \cup {None}]
  BY DEF Typed, Stored
<1>5. CASE row[k.row] = None
  <2>1. row' = row
    BY <1>5 DEF UpdateRow
  <2>2. QED BY <1>1, <1>2, <1>4, <1>5, <2>1
<1>6. CASE row[k.row] # None
  <2> DEFINE old == row[k.row]
  <2> DEFINE qty == IF k.edit.qty # k.copy.qty THEN k.edit.qty ELSE old.qty
  <2> DEFINE variant == IF k.edit.variant \notin {Keep, k.copy.variant}
                        THEN k.edit.variant ELSE old.variant
  <2>1. old \in ItemRow
    BY <1>1, <1>4, <1>6
  <2>2. qty \in Int /\ variant \in Variants \cup {None}
    BY <1>3, <2>1 DEF ItemRow
  <2>3. row' = [row EXCEPT ![k.row].qty = qty, ![k.row].variant = variant]
    BY <1>6 DEF UpdateRow
  <2> HIDE DEF qty, variant
  <2>4. /\ \A r \in RowIds \ {k.row} : row'[r] = row[r]
        /\ DOMAIN row' = RowIds
        /\ row'[k.row] = [old EXCEPT !.qty = qty, !.variant = variant]
    BY <1>1, <1>4, <2>3
  <2>5. /\ row'[k.row] \in ItemRow
        /\ row'[k.row].item = old.item
        /\ row'[k.row].cart = old.cart
        /\ row'[k.row].customer = old.customer
    BY <2>1, <2>2, <2>4 DEF ItemRow
  <2>6. row'[k.row] # None
    BY <2>5, BoundsAssumption
  <2>7. row' \in [RowIds -> ItemRow \cup {None}]
    <3>1. row' = [r \in RowIds |-> row'[r]]
      BY <1>4, <2>3
    <3>2. \A r \in RowIds : row'[r] \in ItemRow \cup {None}
      BY <1>4, <2>4, <2>5
    <3>3. QED BY <3>1, <3>2
  <2>8. QED BY <1>1, <1>2, <1>6, <2>4, <2>5, <2>6, <2>7
<1>7. QED BY <1>5, <1>6

LEMMA UpdateRowTyped ==
    ASSUME Inv, Typed, NEW s \in Callers, UpdateRow(s)
    PROVE  Typed'
<1> DEFINE k == call[s]
<1>1. UNCHANGED <<listing, cart, orders, quotes, carts, cartItems, crashes, filled,
                  collected, edited, disturbed, detached>>
  BY DEF UpdateRow, counters, books, history
<1>2. /\ CallTyped(s) /\ k.op = "edit" /\ k.pc = "update"
      /\ DOMAIN call' = Callers /\ \A t \in Callers \ {s} : call'[t] = call[t]
      /\ DOMAIN call'[s] = DOMAIN Idle /\ call'[s].pc = "recalculate"
      /\ call'[s].op = k.op /\ call'[s].customer = k.customer
      /\ call'[s].cart = k.cart
      /\ call'[s].lines = k.lines /\ call'[s].left = k.left
      /\ call'[s].missing = k.missing /\ call'[s].sum = k.sum
      /\ call'[s].row = k.row /\ call'[s].copy = k.copy
      /\ call'[s].edit = k.edit /\ call'[s].seen = k.seen
      /\ row' \in [RowIds -> ItemRow \cup {None}]
  BY UpdateRowDoes
<1>3. CallOK(s)'
  BY <1>2 DEF CallTyped, CallOK
<1>4. CallFlows(call[s])'
  BY <1>2 DEF CallTyped, CallFlows
<1>5. CallsTyped'
  BY <1>2, <1>3, <1>4, GoesOnTyped DEF Typed, CallTyped
<1>6. QED BY <1>1, <1>2, <1>5 DEF Typed, Stored

\* What the rows of a cart come to is a number.
LEMMA CartTotalType ==
    ASSUME row \in [RowIds -> ItemRow \cup {None}], NEW c
    PROVE  CartTotal(RowsOf(c)) \in Int
<1> DEFINE S == RowsOf(c)
<1> DEFINE w == [r \in S |-> Price[row[r].item] * row[r].qty]
<1>1. S \subseteq RowIds /\ \A r \in S : row[r] \in ItemRow
  BY DEF RowsOf
<1>2. IsFiniteSet(S)
  BY <1>1, RowIdsFinite
<1>3. ASSUME NEW r \in S PROVE Price[row[r].item] * row[r].qty \in Int
  <2>1. Price[row[r].item] \in Nat /\ row[r].qty \in Int
    BY <1>1, PriceFacts DEF ItemRow
  <2>2. QED BY <2>1
<1> HIDE DEF S
<1>4. w \in [S -> Int]
  BY <1>3
<1> HIDE DEF w
<1>5. SumFunction(w) \in Int
  BY <1>2, <1>4, SumType
<1>6. QED BY <1>5 DEF CartTotal, w, S

LEMMA RecalculateTotalDoes ==
    ASSUME Typed, NEW s \in Callers, RecalculateTotal(s), ~End(s)
    PROVE  LET k == call[s] IN
           /\ DOMAIN call' = Callers /\ \A t \in Callers \ {s} : call'[t] = call[t]
           /\ DOMAIN call'[s] = DOMAIN Idle /\ call'[s].pc = "findCart"
           /\ call'[s].sum = CartTotal(RowsOf(k.cart))
           /\ call'[s].op = k.op /\ call'[s].customer = k.customer
           /\ call'[s].cart = k.cart
           /\ call'[s].lines = k.lines /\ call'[s].left = k.left
           /\ call'[s].missing = k.missing
           /\ call'[s].row = k.row /\ call'[s].copy = k.copy
           /\ call'[s].edit = k.edit /\ call'[s].seen = k.seen
<1> DEFINE total == CartTotal(RowsOf(call[s].cart))
<1>1. DOMAIN call[s] = DOMAIN Idle /\ DOMAIN call = Callers
  BY DEF Typed, CallsTyped, CallTyped, CallOK
<1>2. call' = [call EXCEPT ![s].sum = total, ![s].pc = "findCart"]
  BY DEF RecalculateTotal
<1> HIDE DEF total
<1>3. QED BY <1>1, <1>2 DEF Idle, total

LEMMA RecalculateTotalTyped ==
    ASSUME Inv, Typed, NEW s \in Callers, RecalculateTotal(s)
    PROVE  Typed'
<1> DEFINE k == call[s]
<1> DEFINE total == CartTotal(RowsOf(k.cart))
<1>1. UNCHANGED <<listing, cart, row, orders, quotes, carts, cartItems, crashes, filled,
                  collected, edited, disturbed, detached>>
  BY DEF RecalculateTotal, counters, books, history
<1>2. CallTyped(s) /\ k.op = "edit" /\ k.pc = "recalculate"
  BY DEF Inv, CallsFit, CallFits, Typed, CallsTyped, RecalculateTotal, At
<1>3. CASE End(s)
  BY <1>1, <1>3, EndsTyped DEF Typed, Stored
<1>4. CASE ~End(s)
  <2>1. /\ DOMAIN call' = Callers /\ \A t \in Callers \ {s} : call'[t] = call[t]
        /\ DOMAIN call'[s] = DOMAIN Idle /\ call'[s].pc = "findCart"
        /\ call'[s].sum = total
        /\ call'[s].op = k.op /\ call'[s].customer = k.customer
        /\ call'[s].cart = k.cart
        /\ call'[s].lines = k.lines /\ call'[s].left = k.left
        /\ call'[s].missing = k.missing
        /\ call'[s].row = k.row /\ call'[s].copy = k.copy
        /\ call'[s].edit = k.edit /\ call'[s].seen = k.seen
    BY <1>4, RecalculateTotalDoes
  <2>2. total \in Int
    BY CartTotalType DEF Typed, Stored
  <2> HIDE DEF total
  <2>3. CallOK(s)'
    BY <1>2, <2>1, <2>2 DEF CallTyped, CallOK
  <2>4. CallFlows(call[s])'
    BY <1>2, <2>1 DEF CallTyped, CallFlows
  <2>5. CallsTyped'
    BY <2>1, <2>3, <2>4, GoesOnTyped DEF Typed, CallTyped
  <2>6. QED BY <1>1, <2>5 DEF Typed, Stored
<1>5. QED BY <1>3, <1>4

LEMMA FindCartDoes ==
    ASSUME Inv, Typed, NEW s \in Callers, FindCart(s), ~End(s)
    PROVE  LET k == call[s] IN
           /\ k.cart \in CartIds /\ cart[k.cart] # None
           /\ DOMAIN call' = Callers /\ \A t \in Callers \ {s} : call'[t] = call[t]
           /\ DOMAIN call'[s] = DOMAIN Idle /\ call'[s].pc = "store"
           /\ call'[s].seen = cart[k.cart].total
           /\ call'[s].op = k.op /\ call'[s].customer = k.customer
           /\ call'[s].cart = k.cart
           /\ call'[s].lines = k.lines /\ call'[s].left = k.left
           /\ call'[s].missing = k.missing /\ call'[s].sum = k.sum
           /\ call'[s].row = k.row /\ call'[s].copy = k.copy
           /\ call'[s].edit = k.edit
<1> DEFINE total == cart[call[s].cart].total
<1>1. /\ DOMAIN call[s] = DOMAIN Idle /\ DOMAIN call = Callers
      /\ call[s].cart \in CartIds \cup {None}
  BY DEF Typed, CallsTyped, CallTyped, CallOK
<1>2. /\ call' = [call EXCEPT ![s].seen = total, ![s].pc = "store"]
      /\ call[s].cart # None /\ cart[call[s].cart] # None
  BY DEF FindCart
<1> HIDE DEF total
<1>3. QED BY <1>1, <1>2 DEF Idle, total

LEMMA FindCartTyped ==
    ASSUME Inv, Typed, NEW s \in Callers, FindCart(s)
    PROVE  Typed'
<1> DEFINE k == call[s]
<1> DEFINE total == cart[k.cart].total
<1>1. UNCHANGED <<listing, cart, row, orders, quotes, carts, cartItems, crashes, filled,
                  collected, edited, disturbed, detached>>
  BY DEF FindCart, counters, books, history
<1>2. CallTyped(s) /\ k.op \in {"edit", "put"} /\ k.pc = "findCart"
  BY DEF Inv, CallsFit, CallFits, Typed, CallsTyped, FindCart, At
<1>3. CASE End(s)
  BY <1>1, <1>3, EndsTyped DEF Typed, Stored
<1>4. CASE ~End(s)
  <2>1. /\ k.cart \in CartIds /\ cart[k.cart] # None
        /\ DOMAIN call' = Callers /\ \A t \in Callers \ {s} : call'[t] = call[t]
        /\ DOMAIN call'[s] = DOMAIN Idle /\ call'[s].pc = "store"
        /\ call'[s].seen = total
        /\ call'[s].op = k.op /\ call'[s].customer = k.customer
        /\ call'[s].cart = k.cart
        /\ call'[s].lines = k.lines /\ call'[s].left = k.left
        /\ call'[s].missing = k.missing /\ call'[s].sum = k.sum
        /\ call'[s].row = k.row /\ call'[s].copy = k.copy
        /\ call'[s].edit = k.edit
    BY <1>4, FindCartDoes
  <2>2. total \in Int \cup {None}
    BY <2>1 DEF Typed, Stored, CartRow
  <2> HIDE DEF total
  <2>3. CallOK(s)'
    BY <1>2, <2>1, <2>2 DEF CallTyped, CallOK
  <2>4. CallFlows(call[s])'
    BY <1>2, <2>1 DEF CallTyped, CallFlows
  <2>5. CallsTyped'
    BY <2>1, <2>3, <2>4, GoesOnTyped DEF Typed, CallTyped
  <2>6. QED BY <1>1, <2>5 DEF Typed, Stored
<1>5. QED BY <1>3, <1>4

LEMMA StoreTotalTyped ==
    ASSUME Inv, Typed, NEW s \in Callers, StoreTotal(s)
    PROVE  Typed'
<1> DEFINE k == call[s]
<1>1. /\ UNCHANGED <<listing, row, orders, quotes, carts, cartItems, crashes, filled,
                     collected, disturbed, detached>>
      /\ SaveTotal(k.cart, k.seen, k.sum) /\ edited' \subseteq edited \cup {k.cart} /\ End(s)
      /\ k.pc = "store"
  BY DEF StoreTotal, counters, books, At
<1>2. k.sum \in Int /\ k.cart \in CartIds
  BY <1>1 DEF Inv, CallsFit, CallFits, Typed, CallsTyped, CallTyped, CallOK
<1>3. cart' \in [CartIds -> CartRow \cup {None}]
  BY <1>1, <1>2, SaveTotalTyped DEF Typed
<1>4. CallsTyped'
  BY <1>1, EndsTyped DEF Typed
<1>5. QED BY <1>1, <1>2, <1>3, <1>4 DEF Typed, Stored

\* The call of an order goes on, all but its phase unchanged.
LEMMA GotoDoes ==
    ASSUME CallsTyped, NEW s \in Callers, NEW pc, Goto(s, pc)
    PROVE  LET k == call[s] IN
           /\ DOMAIN call' = Callers /\ \A t \in Callers \ {s} : call'[t] = call[t]
           /\ DOMAIN call'[s] = DOMAIN Idle /\ call'[s].pc = pc
           /\ call'[s].op = k.op /\ call'[s].customer = k.customer
           /\ call'[s].cart = k.cart
           /\ call'[s].lines = k.lines /\ call'[s].left = k.left
           /\ call'[s].missing = k.missing /\ call'[s].sum = k.sum
           /\ call'[s].row = k.row /\ call'[s].copy = k.copy
           /\ call'[s].edit = k.edit /\ call'[s].seen = k.seen
<1>1. DOMAIN call[s] = DOMAIN Idle /\ DOMAIN call = Callers
  BY DEF CallsTyped, CallTyped, CallOK
<1>2. QED BY <1>1 DEF Goto, Idle

LEMMA GotoTyped ==
    ASSUME CallsTyped, NEW s \in Callers, NEW pc, Goto(s, pc),
           call[s].op \in {"order", "cart"}, call[s].pc # "price",
           pc = "save" \/ (pc = "place" /\ call[s].op = "order")
    PROVE  CallsTyped'
<1> DEFINE k == call[s]
<1>1. /\ DOMAIN call' = Callers /\ \A t \in Callers \ {s} : call'[t] = call[t]
      /\ DOMAIN call'[s] = DOMAIN Idle /\ call'[s].pc = pc
      /\ call'[s].op = k.op /\ call'[s].customer = k.customer
      /\ call'[s].cart = k.cart
      /\ call'[s].lines = k.lines /\ call'[s].left = k.left
      /\ call'[s].missing = k.missing /\ call'[s].sum = k.sum
      /\ call'[s].row = k.row /\ call'[s].copy = k.copy
      /\ call'[s].edit = k.edit /\ call'[s].seen = k.seen
  BY GotoDoes
<1>2. CallTyped(s)
  BY DEF CallsTyped
<1>3. CallOK(s)'
  BY <1>1, <1>2 DEF CallTyped, CallOK
<1>4. CallFlows(call[s])'
  BY <1>1, <1>2 DEF CallTyped, CallFlows
<1>5. QED BY <1>1, <1>3, <1>4, GoesOnTyped DEF CallTyped

LEMMA SaveCartTyped ==
    ASSUME Inv, Typed, NEW s \in Callers, SaveCart(s)
    PROVE  Typed'
<1> DEFINE k == call[s]
<1>1. /\ UNCHANGED <<listing, row, orders, quotes, carts, cartItems, crashes, filled,
                     collected, edited, disturbed, detached>>
      /\ SaveTotal(k.cart, IF k.op = "collect" THEN None ELSE 0, k.sum)
      /\ k.pc = "save"
      /\ (k.op = "order" /\ Goto(s, "place")) \/ End(s)
  BY DEF SaveCart, counters, books, history, At
<1>2. k.sum \in Int
  BY DEF Typed, CallsTyped, CallTyped, CallOK
<1>3. cart' \in [CartIds -> CartRow \cup {None}]
  BY <1>1, <1>2, SaveTotalTyped DEF Typed
<1>4. CallsTyped'
  BY <1>1, EndsTyped, GotoTyped DEF Typed
<1>5. QED BY <1>1, <1>3, <1>4 DEF Typed, Stored

LEMMA PlaceOrderTyped ==
    ASSUME Inv, Typed, NEW s \in Callers, PlaceOrder(s)
    PROVE  Typed'
<1> DEFINE k == call[s]
<1> DEFINE order == [cart |-> k.cart, basket |-> k.lines, amount |-> k.sum + Fees]
<1>1. /\ UNCHANGED <<listing, cart, row, quotes, carts, cartItems, crashes, filled,
                     collected, edited, disturbed, detached>>
      /\ orders' \subseteq orders \cup {order}
      /\ k.pc = "place" /\ End(s)
  BY DEF PlaceOrder, counters, history, At
<1>2. k.sum \in Int /\ k.op = "order" /\ k.lines \in Baskets /\ k.cart \in CartIds \cup {None}
  BY <1>1 DEF Typed, CallsTyped, CallTyped, CallOK, CallFlows
<1>3. k.cart \in CartIds
  BY <1>2, CollectedAreIds DEF Inv, CallsFit, CallFits
<1>4. order \in [cart : CartIds, basket : Baskets, amount : Int]
  BY <1>2, <1>3, RequestAssumption
<1>5. CallsTyped'
  BY <1>1, EndsTyped DEF Typed
<1>6. QED BY <1>1, <1>4, <1>5 DEF Typed, Stored

\* The items of an order, as rows of its cart.
LEMMA InsertRowsDoes ==
    ASSUME Inv, Typed, NEW s \in Callers, InsertRows(s)
    PROVE  LET k == call[s]
               n == Len(call[s].lines)
           IN /\ k.pc = "insert" /\ k.op \in {"order", "cart"} /\ k.lines \in Baskets
              /\ k.cart \in filled /\ k.cart \in CartIds /\ k.left = {}
              /\ \/ End(s) /\ UNCHANGED <<row, cartItems>>
                 \/ /\ Goto(s, "save")
                    /\ cartItems' = cartItems + n /\ cartItems' \in 0 .. MaxRows
                    /\ row' \in [RowIds -> ItemRow \cup {None}]
                    /\ \A r \in RowIds \ (cartItems + 1 .. cartItems + n) : row'[r] = row[r]
                    /\ \A i \in 1 .. n :
                          /\ cartItems + i \in RowIds
                          /\ row'[cartItems + i] = NewRow(s, k.lines[i])
                          /\ row'[cartItems + i] # None
<1> DEFINE k == call[s]
<1> DEFINE n == Len(k.lines)
<1> DEFINE new == cartItems + 1 .. cartItems + n
<1>1. CallTyped(s) /\ k.pc = "insert" /\ k.op \in {"order", "cart"} /\ k.cart \in filled
  BY DEF Inv, CallsFit, CallFits, Typed, CallsTyped, InsertRows, At
<1>2. k.cart \in CartIds /\ k.lines \in Baskets /\ k.left = {} /\ k.customer \in Customers
  BY <1>1, CollectedAreIds DEF CallTyped, CallFlows
<1>3. /\ n \in Nat /\ DOMAIN k.lines = 1 .. n
      /\ \A i \in 1 .. n : k.lines[i] \in Line
  BY <1>2, BasketFacts
<1>4. ASSUME NEW i \in 1 .. n PROVE NewRow(s, k.lines[i]) \in ItemRow
  <2> DEFINE line == k.lines[i]
  <2>1. line \in Line
    BY <1>3
  <2> HIDE DEF line
  <2>2. NewRow(s, line) \in ItemRow
    BY <1>2, <2>1 DEF NewRow, Line, ItemRow
  <2>3. QED BY <2>2 DEF line
<1>5. CASE End(s) /\ UNCHANGED <<row, cartItems>>
  BY <1>1, <1>2, <1>5
<1>6. CASE ~(End(s) /\ UNCHANGED <<row, cartItems>>)
  <2>1. /\ cartItems + n <= MaxRows
        /\ cartItems' = cartItems + n
        /\ row' = [r \in RowIds |-> IF r \in cartItems + 1 .. cartItems'
                                    THEN NewRow(s, k.lines[r - cartItems]) ELSE row[r]]
        /\ Goto(s, "save")
    BY <1>6 DEF InsertRows
  <2>2. cartItems \in Nat /\ cartItems' \in 0 .. MaxRows
    BY <1>3, <2>1, BoundsAssumption DEF Typed, Stored
  <2> DEFINE line(r) == k.lines[r - cartItems]
  <2>3. row' = [r \in RowIds |-> IF r \in new THEN NewRow(s, line(r)) ELSE row[r]]
    BY <2>1
  <2>4. ASSUME NEW r \in new PROVE NewRow(s, line(r)) \in ItemRow
    <3>1. r - cartItems \in 1 .. n
      BY <1>3, <2>2
    <3>2. QED BY <1>4, <3>1
  <2>5. ASSUME NEW i \in 1 .. n
        PROVE  cartItems + i \in RowIds /\ cartItems + i \in new
               /\ line(cartItems + i) = k.lines[i]
    <3>1. cartItems + i \in RowIds /\ cartItems + i \in new /\ (cartItems + i) - cartItems = i
      BY <1>3, <2>1, <2>2, BoundsAssumption DEF RowIds
    <3>2. QED BY <3>1
  <2> HIDE DEF n, new, line
  <2>6. row' \in [RowIds -> ItemRow \cup {None}]
    <3>1. \A r \in RowIds : row[r] \in ItemRow \cup {None}
      BY DEF Typed, Stored
    <3>2. ASSUME NEW r \in RowIds
          PROVE  (IF r \in new THEN NewRow(s, line(r)) ELSE row[r]) \in ItemRow \cup {None}
      BY <2>4, <3>1
    <3>3. QED BY <2>3, <3>2
  <2>7. \A r \in RowIds \ new : row'[r] = row[r]
    BY <2>3
  <2>8. ASSUME NEW i \in 1 .. n
        PROVE  /\ cartItems + i \in RowIds
               /\ row'[cartItems + i] = NewRow(s, k.lines[i])
               /\ row'[cartItems + i] # None
    <3>1. /\ cartItems + i \in RowIds
          /\ row'[cartItems + i] = NewRow(s, k.lines[i])
      BY <2>3, <2>5
    <3>2. NewRow(s, k.lines[i]) # None
      BY <1>4, BoundsAssumption DEF n
    <3>3. QED BY <3>1, <3>2
  <2>9. QED BY <1>1, <1>2, <2>1, <2>2, <2>6, <2>7, <2>8 DEF n, new
<1>7. QED BY <1>5, <1>6

LEMMA InsertRowsTyped ==
    ASSUME Inv, Typed, NEW s \in Callers, InsertRows(s)
    PROVE  Typed'
<1>1. UNCHANGED <<listing, cart, orders, quotes, carts, crashes, filled,
                  collected, edited, disturbed, detached>>
  BY DEF InsertRows, books, history
<1>2. call[s].pc = "insert" /\ call[s].op \in {"order", "cart"}
  BY InsertRowsDoes
<1>3. CASE End(s) /\ UNCHANGED <<row, cartItems>>
  BY <1>1, <1>3, EndsTyped DEF Typed, Stored
<1>4. CASE ~(End(s) /\ UNCHANGED <<row, cartItems>>)
  <2>1. /\ Goto(s, "save") /\ cartItems' \in 0 .. MaxRows
        /\ row' \in [RowIds -> ItemRow \cup {None}]
    BY <1>4, InsertRowsDoes
  <2>2. CallsTyped'
    BY <1>2, <2>1, GotoTyped DEF Typed
  <2>3. QED BY <1>1, <2>1, <2>2 DEF Typed, Stored
<1>5. QED BY <1>3, <1>4

-----------------------------------------------------------------------------
\* Requests that are done in one step, a restart, and all steps together.
LEMMA OneStepTyped ==
    ASSUME Inv, Typed, OneStep
    PROVE  Typed'
<1>1. ASSUME NEW u \in Customers, NEW total \in Amounts, CreateCart(u, total) PROVE Typed'
  <2>1. /\ UNCHANGED <<listing, row, orders, quotes, call, cartItems, crashes>>
        /\ UNCHANGED <<filled, collected, edited, disturbed, detached>>
        /\ NewCart(None, u, total)
    BY <1>1 DEF CreateCart, books, history
  <2>2. total \in Int
    BY RequestAssumption
  <2>3. cart' \in [CartIds -> CartRow \cup {None}]
    BY <2>1, <2>2, NewCartTyped DEF Typed
  <2>4. carts' \in 0 .. MaxCarts
    BY <2>1, NewCartIsNew
  <2>5. CallsTyped'
    BY <2>1, StaysTyped DEF Typed
  <2>6. QED BY <2>1, <2>3, <2>4, <2>5 DEF Typed, Stored
<1>2. ASSUME NEW c \in CartIds, DeleteCart(c) PROVE Typed'
  <2>1. /\ UNCHANGED <<listing, orders, quotes, call, carts, cartItems, crashes>>
        /\ UNCHANGED <<filled, collected, edited, disturbed>>
        /\ cart' = [cart EXCEPT ![c] = None]
    BY <1>2 DEF DeleteCart, books, counters
  <2>2. \A r \in RowsOf(c) : r \in RowIds /\ row[r] \in ItemRow
    BY DEF RowsOf, Typed, Stored
  <2>3. \A r \in RowsOf(c) :
           /\ [row[r] EXCEPT !.cart = None] \in ItemRow
           /\ row[r].customer \in Customers
    BY <2>2 DEF ItemRow
  <2>4. row \in [RowIds -> ItemRow \cup {None}] /\ detached \subseteq Customers
    BY DEF Typed, Stored
  <2>5. CASE /\ row' = [r \in RowIds |-> IF r \in RowsOf(c) THEN None ELSE row[r]]
             /\ UNCHANGED detached
    <3>1. row' \in [RowIds -> ItemRow \cup {None}] /\ detached' \subseteq Customers
      BY <2>4, <2>5
    <3>2. QED BY <2>1, <3>1, StaysTyped DEF Typed, Stored
  <2>6. CASE /\ row' = [r \in RowIds |-> IF r \in RowsOf(c)
                                         THEN [row[r] EXCEPT !.cart = None] ELSE row[r]]
             /\ detached' = detached \cup {row[r].customer : r \in RowsOf(c)}
    <3>1. row' \in [RowIds -> ItemRow \cup {None}] /\ detached' \subseteq Customers
      BY <2>3, <2>4, <2>6
    <3>2. QED BY <2>1, <3>1, StaysTyped DEF Typed, Stored
  <2>7. QED BY <1>2, <2>5, <2>6 DEF DeleteCart
<1>3. ASSUME NEW r \in RowIds, DeleteRow(r) PROVE Typed'
  <2>1. /\ UNCHANGED <<listing, cart, orders, quotes, call, carts, cartItems, crashes>>
        /\ UNCHANGED <<filled, collected, edited, detached>>
        /\ row' = [row EXCEPT ![r] = None]
        /\ disturbed' = disturbed \cup ({row[r].cart} \ {None}) /\ row[r] # None
    BY <1>3 DEF DeleteRow, books, counters
  <2>2. row[r].cart \in CartIds \cup {None}
    BY <2>1 DEF Typed, Stored, ItemRow
  <2>3. CallsTyped'
    BY <2>1, StaysTyped DEF Typed
  <2>4. QED BY <2>1, <2>2, <2>3 DEF Typed, Stored
<1>4. ASSUME NEW i \in Items, RegisterItem(i) PROVE Typed'
  <2>1. /\ UNCHANGED <<cart, row, orders, quotes, call, carts, cartItems, crashes>>
        /\ UNCHANGED <<filled, collected, edited, disturbed, detached>>
        /\ listing' = [listing EXCEPT ![i] = "listed"]
    BY <1>4 DEF RegisterItem, books, counters, history
  <2>2. CallsTyped'
    BY <2>1, StaysTyped DEF Typed
  <2>3. QED BY <2>1, <2>2 DEF Typed, Stored
<1>5. ASSUME NEW S, DeleteItems(S) PROVE Typed'
  <2> DEFINE naming == {r \in RowIds : row[r] # None /\ row[r].item \in S}
  <2>1. /\ UNCHANGED <<cart, orders, quotes, call, carts, cartItems, crashes>>
        /\ UNCHANGED <<filled, collected, edited, detached>>
        /\ listing' = [i \in Items |-> IF i \in S THEN "deleted" ELSE listing[i]]
        /\ \/ UNCHANGED <<row, disturbed>>
           \/ /\ row' = [r \in RowIds |-> IF r \in naming THEN None ELSE row[r]]
              /\ disturbed' = disturbed \cup ({row[r].cart : r \in naming} \ {None})
    BY <1>5 DEF DeleteItems, books, counters
  <2>2. \A r \in naming : row[r].cart \in CartIds \cup {None}
    BY DEF Typed, Stored, ItemRow
  <2> HIDE DEF naming
  <2>3. row' \in [RowIds -> ItemRow \cup {None}] /\ disturbed' \subseteq CartIds
    BY <2>1, <2>2 DEF Typed, Stored
  <2>4. listing' \in [Items -> {"unused", "listed", "deleted"}]
    BY <2>1 DEF Typed, Stored
  <2>5. CallsTyped'
    BY <2>1, StaysTyped DEF Typed
  <2>6. QED BY <2>1, <2>3, <2>4, <2>5 DEF Typed, Stored
<1>6. QED BY <1>1, <1>2, <1>3, <1>4, <1>5 DEF OneStep, DeleteItem, DeleteMerchant

LEMMA CrashTyped ==
    ASSUME Typed, Crash
    PROVE  Typed'
<1>1. /\ UNCHANGED <<listing, cart, row, orders, quotes, carts, cartItems, filled, collected,
                     edited, detached>>
      /\ crashes' = crashes + 1 /\ crashes < MaxCrashes
      /\ call' = [s \in Callers |-> Idle] /\ disturbed' = disturbed \cup Touched
  BY DEF Crash, books
<1>2. crashes' \in 0 .. MaxCrashes
  BY <1>1, BoundsAssumption DEF Typed, Stored
<1>3. Touched \subseteq CartIds
  BY DEF Touched, Typed, CallsTyped, CallTyped, CallOK
<1>4. CallsTyped'
  BY <1>1, IdleTyped DEF CallsTyped
<1>5. QED BY <1>1, <1>2, <1>3, <1>4 DEF Typed, Stored

LEMMA InitTyped == Init => Typed
<1> SUFFICES ASSUME Init PROVE Typed
  OBVIOUS
<1>1. Stored
  BY BoundsAssumption DEF Init, Stored
<1>2. \A s \in Callers : CallTyped(s)
  BY DEF Init, CallTyped, CallOK, CallFlows, Idle
<1>3. QED BY <1>1, <1>2 DEF Typed, CallsTyped, Init

LEMMA NextTyped == Inv /\ Typed /\ [Next]_vars => Typed'
<1> SUFFICES ASSUME Inv, Typed, [Next]_vars PROVE Typed'
  OBVIOUS
<1>1. ASSUME NEW s \in Callers, StartCall(s) PROVE Typed'
  BY <1>1, FillCartTyped, StartCollectTyped, StartQuoteTyped, StartEditTyped, StartPutTyped
     DEF StartCall
<1>2. CASE OneStep
  BY <1>2, OneStepTyped
<1>3. CASE Crash
  BY <1>3, CrashTyped
<1>4. ASSUME NEW s \in Callers, CallStep(s) PROVE Typed'
  <2>1. CASE \E n \in call[s].left : PriceLine(s, n) \/ PriceLooseRow(s, n)
    BY <2>1, PriceLineTyped, PriceLooseRowTyped
  <2>2. CASE InsertRows(s) \/ SaveCart(s) \/ PlaceOrder(s)
    BY <2>2, InsertRowsTyped, SaveCartTyped, PlaceOrderTyped
  <2>3. CASE FindLooseRows(s) \/ QuoteLine(s)
    BY <2>3, FindLooseRowsTyped, QuoteLineTyped
  <2>4. CASE FindRow(s) \/ UpdateRow(s) \/ RecalculateTotal(s)
    BY <2>4, FindRowTyped, UpdateRowTyped, RecalculateTotalTyped
  <2>5. CASE FindCart(s) \/ StoreTotal(s)
    BY <2>5, FindCartTyped, StoreTotalTyped
  <2>6. QED BY <1>4, <2>1, <2>2, <2>3, <2>4, <2>5 DEF CallStep
<1>5. CASE UNCHANGED vars
  BY <1>5, StaysTyped DEF vars, books, history, counters, Typed, Stored
<1>6. QED BY <1>1, <1>2, <1>3, <1>4, <1>5 DEF Next, Request

Counted == calls \in 0 .. MaxCalls

LEMMA InitCounted == Init => Counted
BY BoundsAssumption DEF Init, Counted

LEMMA NextCounted == Counted /\ [Next]_vars => Counted'
BY BoundsAssumption DEF Next, Request, vars, Counted

\* Tables and calls are well formed, and every total that addToCartItem, addToCart,
\* calculateCartTotal or a quote computes, and every one that is stored, is a number,
\* or none yet: no call sums up fields it has not filled.
THEOREM CartsTyped == Spec => []TypeOK
<1>1. Init => Inv /\ Typed /\ Counted
  BY InitInv, InitTyped, InitCounted
<1>2. Inv /\ Typed /\ Counted /\ [Next]_vars => Inv' /\ Typed' /\ Counted'
  BY NextKeeps, NextTyped, NextCounted
<1>3. Inv /\ Typed /\ Counted => TypeOK
  BY DEF Typed, Stored, CallsTyped, CallTyped, TypeOK, Counted
<1>4. QED BY <1>1, <1>2, <1>3, PTL DEF Spec
=============================================================================
