------------------------- MODULE MCConversationStore -------------------------
(* For two sessions: growing histories, a competing                *)
(* answer, a tail that repeats a call, a pruned and a compacted history.    *)
EXTENDS ConversationStore, SampleMessages

MCProjections ==
  {<<Hello>>, <<Hello, Calling>>, <<Hello, Calling, Res>>, <<Hello, Answer>>,
   <<Calling, Pruned, Hello>>, <<Calling, Calling, Res>>,
   <<Summary, Calling, Res, Answer>>}
=============================================================================
