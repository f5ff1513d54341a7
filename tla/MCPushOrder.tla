---------------------------- MODULE MCPushOrder ----------------------------
(* Two pushes of one order, the first of which names a second order as well, while *)
(* one edit or cancellation changes the item of an order or the order itself.      *)
EXTENDS PushOrder, TLC

CONSTANTS o1, o2, i1, i2, d1, d2, d3, p1, p2

MCItemsOf == d1 :> {i1} @@ d2 :> {i1} @@ d3 :> {i2}
MCDraftsOf == o1 :> {d1, d2} @@ o2 :> {d3}
MCTargetsOf == p1 :> {o1, o2} @@ p2 :> {o1}
=============================================================================
