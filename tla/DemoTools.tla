------------------------------- MODULE DemoTools -------------------------------
(* The tools of the two demo agents: demos/support_agent/tools.py and          *)
(* demos/engineering_agent/tools.py.  Their data are module-level tables, so   *)
(* what a tool did lasts as long as the process: it outlives runs, sessions,   *)
(* engines and evaluation cases.  Only one tool changes such data and reads it *)
(* back, refund_request.  Amounts are cents.                                   *)
EXTENDS Integers

\* The definitions: the tools and their permission levels.
SUPPORT_TOOLS ==
  [order_lookup |-> "read", refund_policy_search |-> "read", refund_request |-> "write",
   ticket_create |-> "write", escalate_to_human |-> "escalate"]

ENGINEERING_TOOLS ==
  [code_search |-> "read", file_read |-> "read", pr_review |-> "read",
   dependency_check |-> "read"]

\* _ORDERS: what was paid for each.  Every other id is unknown.
TotalAmount ==
  [o \in {"ORD-789", "ORD-001", "ORD-FRAUD", "ORD-NONREFUND"} |->
     CASE o = "ORD-789" -> 8999
       [] o = "ORD-001" -> 2400
       [] o = "ORD-FRAUD" -> 149999
       [] o = "ORD-NONREFUND" -> 4999]

\* Mutant of RefundApproved: what was refunded is not looked up.
RefundApprovedAgain(order, amount, processed) ==
  order \in DOMAIN TotalAmount /\ amount <= TotalAmount[order]

\* _refund_request approves; anything else is an empty result.  An amount of
\* zero or less is approved as well.
RefundApproved(order, amount, processed) ==
  /\ order \in DOMAIN TotalAmount
  /\ order \notin processed
  /\ amount <= TotalAmount[order]
=============================================================================
