------------------------------- MODULE MCCarts -------------------------------
(* Instance of Carts for TLC: two items of one merchant, one with a variant; *)
(* a basket of one line, one of two and an empty one.                        *)
EXTENDS Carts, TLC

MCItemMerchant == ("i1" :> "m1") @@ ("i2" :> "m1")
MCVariantItem == ("v1" :> "i1")
MCPrice == ("i1" :> 3) @@ ("i2" :> 1)
MCAdditional == ("v1" :> 2)

Plain == [item |-> "i1", variant |-> None, qty |-> 1]
Fancy == [item |-> "i1", variant |-> "v1", qty |-> 1]
Other == [item |-> "i2", variant |-> None, qty |-> 2]

MCBaskets == {<<>>, <<Fancy>>, <<Plain, Other>>}
MCEdits == {[qty |-> 2, variant |-> Keep], [qty |-> 2, variant |-> "v1"]}
=============================================================================
