------------------------------ MODULE EvalDataset ------------------------------
(* evals/dataset: the benchmark cases of the two agents, in the order they are *)
(* listed.  What a case says to the agent is left out, what it expects is not. *)
EXTENDS Sequences

\* EvalCase; no case of the dataset sets max_latency_ms.
Case(id, status, tools, wrong, must, mustNot, cents) ==
  [case_id |-> id, expected_status |-> status, expected_tools |-> tools,
   unexpected_tools |-> wrong, must |-> must, must_not |-> mustNot,
   max_cost |-> cents, max_latency |-> 60000]

Answered(id, tools, wrong, must, mustNot, cents) ==
  Case(id, "completed", tools, wrong, must, mustNot, cents)
Escalated(id, tools, cents) == Case(id, "escalated", tools, {}, {}, {}, cents)

Lookup == {"order_lookup"}
Refund == {"refund_request"}
Policy == {"refund_policy_search"}
Human == {"escalate_to_human"}

SimpleLookups ==
  <<Answered("support_001", Lookup, Refund, {"delivered", "ORD-789"}, {}, 5),
    Answered("support_002", Lookup, {}, {"ORD-001"}, {}, 5),
    Answered("support_003", {}, Refund, {}, {}, 5),
    Answered("support_004", {}, Refund \cup Human, {}, {}, 4)>>

EligibleRefunds ==
  <<Answered("support_005", Lookup \cup Refund, {}, {"refund"}, {"cannot process", "not eligible"}, 8),
    Answered("support_006", Lookup \cup Refund, {}, {"refund"}, {}, 8),
    Answered("support_007", Lookup \cup Refund, {}, {"refund"}, {}, 8)>>

IneligibleRefunds ==
  <<Answered("support_008", Lookup \cup Policy, Refund, {"30"}, {}, 8),
    Answered("support_009", Lookup \cup Policy, Refund, {}, {"refund approved", "refund processed"}, 8),
    Answered("support_010", Policy, Refund, {"30"}, {}, 6),
    Answered("support_011", Policy, {}, {}, {"refund approved"}, 6)>>

Escalations ==
  <<Escalated("support_012", Lookup \cup Human, 8),
    Escalated("support_013", Human, 6),
    Escalated("support_014", Human, 8)>>

EdgeCases ==
  <<Answered("support_015", Lookup, Refund, {}, {}, 6),
    Answered("support_016", {}, Refund, {}, {}, 6),
    Answered("support_017", Lookup \cup Refund, {}, {"refund"}, {}, 10),
    Answered("support_018", Lookup \cup Refund, {}, {"refund"}, {}, 8),
    Answered("support_019", Lookup, Refund \cup Human, {"ORD-789"}, {}, 5),
    Answered("support_020", Lookup, {}, {"ORD-789"}, {}, 6)>>

SUPPORT_CASES == SimpleLookups \o EligibleRefunds \o IneligibleRefunds \o Escalations \o EdgeCases

CodeSearches ==
  <<Answered("eng_001", {"code_search"}, {}, {"src/auth/service.py"}, {}, 6),
    Answered("eng_002", {"code_search"}, {}, {"rate_limit"}, {}, 6),
    Answered("eng_003", {"code_search"}, {}, {"sql", "queries.py"}, {}, 6)>>

FileReads ==
  <<Answered("eng_004", {"file_read"}, {}, {"authenticate_user"}, {}, 6),
    Answered("eng_005", {"file_read"}, {"code_search"}, {}, {"authenticate_user"}, 6)>>

Reviews ==
  <<Answered("eng_006", {"pr_review"}, {}, {"critical", "timing"},
             {"no issues", "looks good", "approved"}, 8),
    Answered("eng_007", {"pr_review"}, {}, {"PR-99"}, {"critical", "vulnerability"}, 6),
    Answered("eng_008", {"pr_review"}, {}, {"PR-17", "warning"}, {}, 8)>>

Audits ==
  <<Answered("eng_009", {"dependency_check"}, {}, {"cryptography", "critical"}, {}, 8),
    Answered("eng_010", {"code_search", "file_read"}, {}, {"queries.py"}, {}, 10)>>

ENGINEERING_CASES == CodeSearches \o FileReads \o Reviews \o Audits
=============================================================================
