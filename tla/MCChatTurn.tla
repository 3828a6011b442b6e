----------------------------- MODULE MCChatTurn -----------------------------
(* Two requests at a time, three in all: full histories, the tail of one as *)
(* a client with a window sends it, a tool result in full and pruned, a     *)
(* compacted history, and answers that repeat an old one.                   *)
EXTENDS ChatTurn, SampleMessages

MCHistories ==
  {<<Hello>>, <<Hello, Answer, Hello>>, <<Answer, Hello>>,
   <<Hello, Calling, Res>>, <<Hello, Calling, Pruned>>, <<Summary, Answer, Hello>>}
MCReplies == {Answer, Calling}
MCProjections == MCHistories \cup {I \o <<m>> : I \in MCHistories, m \in MCReplies}
=============================================================================
