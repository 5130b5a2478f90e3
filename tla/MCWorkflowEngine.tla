-------------------------- MODULE MCWorkflowEngine --------------------------
(* Instances of WorkflowEngine for TLC. *)
EXTENDS WorkflowEngine, TLC

CONSTANTS alice, bob, r1, r2, data, audit, gate, publish, left, award

Plain(n)    == [node |-> n, require |-> "succeeded", outcomes |-> {}]
Accepted(n) == [node |-> n, require |-> "accepted_review", outcomes |-> {}]
Feasible(n) == [node |-> n, require |-> "outcome_in", outcomes |-> {"FEASIBLE"}]

(* r1: dataset -> service -> gate on a feasible result -> accepted export.    *)
(* r2: a service under a ceiling of its own.                                *)
TheStarters == r1 :> alice @@ r2 :> bob
TheOrder   == r1 :> <<data, audit, gate, publish>>
              @@ r2 :> <<left>>
TheType    == [n \in Nodes |-> CASE n = data -> "dataset"
                                 [] n = gate -> "review_gate"
                                 [] n = publish -> "export"
                                 [] OTHER -> "service"]
TheNeeds   == [n \in Nodes |-> CASE n = audit -> <<Plain(data)>>
                                 [] n = gate -> <<Feasible(audit)>>
                                 [] n = publish -> <<Plain(gate), Accepted(audit)>>
                                 [] OTHER -> << >>]
TheInput   == [n \in Nodes |-> audit]
TheOutputs == r1 :> {publish} @@ r2 :> {left}
TheRunCeiling  == r1 :> NoCeiling @@ r2 :> 2
TheNodeCeiling == [n \in Nodes |-> IF n = left THEN 1 ELSE NoCeiling]
TheAmount  == [x \in Refs |-> 1]
TheLevels  == {Root} \cup Runs \cup Nodes \cup Awards
TheRefs    == Nodes \cup Awards
=============================================================================
