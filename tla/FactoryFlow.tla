---------------------------- MODULE FactoryFlow ----------------------------
(***************************************************************************)
(* The stages an order passes in a factory, and the flows in which some of *)
(* them are completed by the system instead of by a worker.                *)
(***************************************************************************)
EXTENDS Naturals, Sequences

FULFILLMENT_STAGES == <<"print", "press", "qc-post-press", "sew-in", "sew-out", "pack">>
FulfillmentStage == {"print", "press", "qc-post-press", "sew-in", "sew-out", "pack"}

\* FULFILLMENT_STAGE_ORDER, as an order relation.
StageOrder == [s \in FulfillmentStage |->
  CHOOSE i \in 1 .. Len(FULFILLMENT_STAGES) : FULFILLMENT_STAGES[i] = s]
Before(s, t) == StageOrder[s] < StageOrder[t]

FACTORY_FLOW_AUTO_STAGES ==
  [standard       |-> {},
   merged         |-> {"press", "sew-out"},
   no_sew         |-> {"sew-in", "sew-out"},
   press_complete |-> {"qc-post-press", "sew-in", "sew-out", "pack"}]

FactoryFlowType == DOMAIN FACTORY_FLOW_AUTO_STAGES

\* A factory's settings: its flowType, and autoCompletePack.
Factory == [flowType : FactoryFlowType, autoPack : BOOLEAN]

\* isAutoStage: the stages of factory f that no worker has.
AutoStages == [f \in Factory |->
  FACTORY_FLOW_AUTO_STAGES[f.flowType] \cup (IF f.autoPack THEN {"pack"} ELSE {})]

\* mutant: one stage back, whoever works there
redirectAutoTarget_Once == [f \in Factory |-> [target \in FulfillmentStage |->
  IF target \in AutoStages[f] THEN FULFILLMENT_STAGES[StageOrder[target] - 1] ELSE target]]

\* The loop of redirectAutoTarget: back to a stage that somebody works at.
redirectAutoTarget == [f \in Factory |-> [target \in FulfillmentStage |->
  LET workable == {s \in FulfillmentStage \ AutoStages[f] : ~Before(target, s)}
  IN  IF workable = {} THEN "print"
      ELSE CHOOSE s \in workable : \A t \in workable : ~Before(s, t)]]

\* The loop in 'complete': the stages after s that complete themselves with it,
AutoRun == [f \in Factory |-> [s \in FulfillmentStage |->
  {t \in FulfillmentStage : /\ Before(s, t)
                            /\ \A u \in FulfillmentStage :
                                 Before(s, u) /\ ~Before(t, u) => u \in AutoStages[f]}]]

\* and where the order stops next: a set of one stage, or of none after the last.
NextStop == [f \in Factory |-> [s \in FulfillmentStage |->
  LET ahead == {t \in FulfillmentStage \ AutoRun[f][s] : Before(s, t)}
  IN  {t \in ahead : \A u \in ahead : ~Before(u, t)}]]
=============================================================================
