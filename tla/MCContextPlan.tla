---------------------------- MODULE MCContextPlan ----------------------------
(***************************************************************************)
(* Conversations of short and long messages.  Of the items one restates a   *)
(* message, one is the chunk of a turn, two say the same, one is long and   *)
(* two have no text to compare.                                             *)
(***************************************************************************)
EXTENDS ContextPlan

MCInbound ==
    {[role |-> r, text |-> "short"] : r \in {"system", "user", "assistant"}}
    \cup {[role |-> r, text |-> "long"] : r \in {"user", "assistant"}}

MCCost == [short |-> 1, long |-> 3, fact |-> 1, essay |-> 4]

Memory(id, text, score) ==
    [id |-> id, content |-> <<[role |-> "none", text |-> text]>>, score |-> score]

MCItems ==
    {Memory(11, "short", 9), Memory(12, "fact", 6), Memory(13, "fact", 8),
     Memory(14, "essay", 7),
     [id |-> 15, score |-> 7,
      content |-> <<[role |-> "user", text |-> "short"],
                    [role |-> "assistant", text |-> "short"]>>]}
    \cup {[id |-> id, score |-> 5, content |-> <<>>] : id \in {16, 17}}

(* Neighbouring ids are alike. *)
MCSimilarity == [i \in 11 .. 17 |-> [j \in 11 .. 17 |-> IF i - j \in -1 .. 1 THEN 9 ELSE 0]]
=============================================================================
