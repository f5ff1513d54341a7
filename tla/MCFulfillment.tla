--------------------------- MODULE MCFulfillment ---------------------------
(* An order anywhere on its way through a factory, and a few calls.  One factory has no  *)
(* worker for press and sew-out, one only prints and presses, and one does not sew and   *)
(* packs by itself.                                                                      *)
EXTENDS Fulfillment, TLC

CONSTANTS c1, c2

MCFactories ==
  [flowType : {"merged", "press_complete"}, autoPack : {FALSE}]
  \cup {[flowType |-> "no_sew", autoPack |-> TRUE]}

\* Imported, at the designer's for the first time, checked but not at print, finished,
\* waiting or being worked on at any stage, and sent back from any stage to any before it.
MCInitialOrders ==
  [f \in MCFactories |->
    {Imported,
     [Imported EXCEPT !.assignee = TRUE, !.designer = "in-progress", !.note = "error"],
     [Imported EXCEPT !.note = "ok", !.ready = TRUE],
     ArrivedAt("pack", "done")}
    \cup {ArrivedAt(s, st) : s \in FulfillmentStage \ AutoStages[f],
                              st \in {"waiting", "in-progress"}}
    \cup {SentBack(s, t) : <<s, t>> \in {p \in (FulfillmentStage \ AutoStages[f]) \X
                                               (FulfillmentStage \ AutoStages[f]) : Before(p[1], p[2])}}]

Slots == Permutations(Calls)
=============================================================================
