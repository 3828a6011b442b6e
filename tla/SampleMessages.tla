--------------------------- MODULE SampleMessages ---------------------------
(* The messages of the small instances: a user message, an assistant that   *)
(* calls a tool, the result in full, in another representation and pruned,  *)
(* a competing answer, and a compaction summary.                            *)
EXTENDS Reconciliation

Msg(role, text, repr, calls, id, summary) ==
  [role |-> role, text |-> text, repr |-> repr, calls |-> calls,
   tool_call_id |-> id, summary |-> summary]

Hello   == Msg("user", "hello", "plain", {}, NoCallId, FALSE)
Calling == Msg("assistant", "hello", "plain", {"c1"}, NoCallId, FALSE)
Res     == Msg("tool", "data", "plain", {}, "c1", FALSE)
Parts   == Msg("tool", "data", "parts", {}, "c1", FALSE)
Pruned  == Msg("tool", PRUNED_TOOL_RESULT, "plain", {}, "c1", FALSE)
Answer  == Msg("assistant", "data", "plain", {}, NoCallId, FALSE)
Summary == Msg("user", "hello", "plain", {}, NoCallId, TRUE)
=============================================================================
