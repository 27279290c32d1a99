----------------------------- MODULE MCEvalRunner ------------------------------
(* An instance of EvalRunner for TLC: small datasets made of real cases.      *)
EXTENDS EvalRunner

Call(tool, order, cents) == [tool |-> tool, order |-> order, amount |-> cents]

MCCalls ==
  {Call("refund_request", "ORD-789", 8999), Call("refund_request", "ORD-789", 9000),
   Call("escalate_to_human", "none", 0), Call("file_read", "none", 0),
   Call("code_search", "none", 0)}
MCEscalating == {c \in MCCalls : c.tool = "escalate_to_human"}

Dataset(support, engineering) == [support |-> support, engineering |-> engineering]

\* An expected escalation and a case with an unexpected tool, a case with more
\* forbidden words than required ones, and two cases that want one refund.
MCCatalogs ==
  {Dataset(<<Escalations[2]>>, <<FileReads[2]>>),
   Dataset(<<EligibleRefunds[1]>>, <<>>),
   Dataset(<<EligibleRefunds[2], EligibleRefunds[3]>>, <<>>)}

MCArguments ==
  {[suites |-> <<"support", "engineering">>, filter |-> f] : f \in {"none", "support_006"}}

\* The two cases that run one after the other differ in what they do, not in
\* what they cost.
Pair == {c.case_id : c \in {EligibleRefunds[2], EligibleRefunds[3]}}
MCPricesOf(case) == IF case.case_id \in Pair THEN {13} ELSE {3, 13}
MCLatenciesOf(case) == IF case.case_id \in Pair THEN {1000} ELSE {1000, 90000, 120000}
=============================================================================
