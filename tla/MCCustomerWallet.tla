-------------------------- MODULE MCCustomerWallet --------------------------
(* Two money requests and two limit changes over two sellers.  The           *)
(* operations make every pair of them meet: a retry with another amount, the  *)
(* same bank reference for another seller, two labels that only fit one at a  *)
(* time, a refund that shares its requestId with the label it refunds.        *)
EXTENDS CustomerWallet, TLC

CONSTANTS s1, s2, r1, r2, e1

MCKinds == {"topup", "adjust", "label", "label_refund"}
MCLimitOps == [cust: {s1}, limit: {0, 5}]

MCOp(c, kind, req, ext, amount) ==
  [cust |-> c, kind |-> kind, req |-> req, ext |-> ext, amount |-> amount,
   strict |-> kind \in {"topup", "adjust"}]

MCOps ==
  { MCOp(s1, "topup", r1, e1, 3),
    MCOp(s1, "topup", r1, NoExt, 8),
    MCOp(s2, "topup", r2, e1, 3),
    MCOp(s1, "label", r1, NoExt, -3),
    MCOp(s1, "label", r2, NoExt, -3),
    MCOp(s1, "label_refund", r1, NoExt, 3) }

CallSymmetry == Permutations(Calls) \cup Permutations(LimitCalls)
=============================================================================
