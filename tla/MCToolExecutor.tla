--------------------------- MODULE MCToolExecutor ----------------------------
(* ToolExecutor for TLC: one tool per combination of the policies that steer  *)
(* the executor, with max_retries from the degenerate -1 to 2.                *)
EXTENDS ToolExecutor

MCToolName == (-1..2) \X OnError \X OnTimeout
MCToolDef ==
  [t \in MCToolName |->
     [max_retries |-> t[1], permission_level |-> "write", on_error |-> t[2],
      on_timeout |-> t[3], raw_output |-> FALSE]]
=============================================================================
