---------------------------- MODULE MCInventory ----------------------------
(* Two orders made of one SKU, the first of which may be scanned as another; a goods *)
(* receipt with two lines of that SKU, and a stocktaking.  MCInventoryRepost: that    *)
(* goods receipt alone, posted twice.                                                *)
EXTENDS Inventory, TLC

CONSTANTS c1, c2, c3, s1, s2, o1, o2

MCOrderSku == (o1 :> s1) @@ (o2 :> s1)
MCOrderQty == (o1 :> 1) @@ (o2 :> 2)

Line(sku, qty) == [sku |-> sku, qty |-> qty]
MCRequests ==
  {[op |-> "in", lines |-> <<Line(s1, 2), Line(s1, 1)>>],
   [op |-> "adjust", lines |-> <<Line(s1, 1)>>],
   [op |-> "scan", order |-> o1, sku |-> s1, rework |-> FALSE],
   [op |-> "scan", order |-> o1, sku |-> s1, rework |-> TRUE],
   [op |-> "scan", order |-> o1, sku |-> s2, rework |-> FALSE]}

MCDelivery == {r \in MCRequests : r.op = "in"}

Slots == Permutations(Calls)
=============================================================================
