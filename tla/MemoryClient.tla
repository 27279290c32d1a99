---------------------------- MODULE MemoryClient -----------------------------
(* engine/memory/client.py: what one HTTP call to the memory service does to  *)
(* the caller.  Only ConnectError and status 503 have exceptions of their     *)
(* own; a read timeout or any other error status reaches the caller as an     *)
(* httpx exception that no handler in the engine names.                       *)

CONSTANT Replies    \* the replies the service may give in a run

\* "answer_lost": the service applied the request, the client saw a timeout.
Reply == {"ok", "connect_error", "kv_down", "server_error", "answer_lost"}

ASSUME RepliesAssumption == Replies \subseteq Reply

Applied(r) == r \in {"ok", "answer_lost"}

Unreachable(r) == r = "connect_error"
Unavailable(r) == r = "kv_down"
OtherError(r)  == r \in {"server_error", "answer_lost"}

\* except (MemoryServiceUnavailable, MemoryServiceUnreachable)
Tolerated(r) == Unreachable(r) \/ Unavailable(r)
=============================================================================
