--------------------------- MODULE MCSellerLabel ---------------------------
(* One requestId, in two of three calls: a click (p1), a second click in the same  *)
(* dialog after the seller has corrected the weight upwards (p2), and a client     *)
(* that carries the requestId to another seller order (p3).  The wallet holds      *)
(* enough for one label, once staff have topped it up.                             *)
EXTENDS SellerLabel, TLC

CONSTANTS g1, g2, p1, p2, p3, k1

MCGroupOf == p1 :> g1 @@ p2 :> g1 @@ p3 :> g2
MCKeyOf == p1 :> k1 @@ p2 :> k1 @@ p3 :> k1
MCPriceOf == p1 :> 2 @@ p2 :> 3 @@ p3 :> 2

\* Which two of the three are made is open; the third stays away.
TwoCalls == Cardinality({k \in Purchases : bpc[k] # "idle"}) <= 2
=============================================================================
