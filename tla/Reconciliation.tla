--------------------------- MODULE Reconciliation ---------------------------
(***************************************************************************)
(* The history reconciliation of conversation/reconciliation.py as pure     *)
(* operators: what the proxy does with the history a client sends, given    *)
(* the history it has stored.  Lengths and offsets are the code's: a        *)
(* 0-based index into a list is the number of messages before it.           *)
(***************************************************************************)
EXTENDS Integers, Sequences, FiniteSetsExt

CONSTANTS Texts,      \* message contents, as _text_content normalises them
          Reprs,      \* representations: reasoning fields, text as a list of parts
          CallIds,    \* identifiers of tool calls
          MaxScan     \* max_scan

ASSUME ScanAssumption == MaxScan \in Nat

(* A message carries its tool calls by id; summary says that one of the     *)
(* marks _is_compaction_summary looks for is present.                       *)
PRUNED_TOOL_RESULT == "pruned"
NoCallId == "none"
Message == [role : {"system", "user", "assistant", "tool"},
            text : Texts \cup {PRUNED_TOOL_RESULT},
            repr : Reprs,
            calls : SUBSET CallIds,
            tool_call_id : CallIds \cup {NoCallId},
            summary : BOOLEAN]

canonical_message(m) == <<m.role, m.text, m.calls, m.tool_call_id, m.summary>>

(* a is persisted, b is incoming: only the incoming side may be pruned. *)
equivalent(a, b) ==
  \/ canonical_message(a) = canonical_message(b)
  \/ /\ a.role = "tool" /\ b.role = "tool"
     /\ a.tool_call_id # NoCallId
     /\ a.tool_call_id = b.tool_call_id
     /\ b.text = PRUNED_TOOL_RESULT

(* The first n messages of both sides agree pairwise. *)
PrefixMatches(P, I, n) ==
  /\ n <= Len(P) /\ n <= Len(I)
  /\ \A k \in 1 .. n : equivalent(P[k], I[k])

PrefixLen(P, I) == Max({n \in 0 .. Len(I) : PrefixMatches(P, I, n)})

(* The n messages of P that end at pe and those of I that end at ie agree,  *)
(* without going below floor on either side: the backward loop of           *)
(* _suffix_match and of _anchor_before_tail after n rounds.                 *)
RunMatches(P, I, pe, ie, floor, n) ==
  /\ n <= pe - floor /\ n <= ie - floor
  /\ \A k \in 0 .. n - 1 : equivalent(P[pe - k], I[ie - k])

RunBack(P, I, pe, ie, floor) ==
  Max({n \in 0 .. ie : RunMatches(P, I, pe, ie, floor, n)})

(* Where _anchor_before_tail may find the last persisted message, and what  *)
(* it returns when it finds it: the offsets at which the longest run of     *)
(* matching messages starts in P and in I, and the one at which it ends     *)
(* in I.                                                                    *)
AnchorEnds(P, I, prefix) ==
  {e \in Max({prefix + 1, Len(I) - MaxScan}) .. Len(I) :
     equivalent(P[Len(P)], I[e])}

Anchor(P, I, prefix) ==
  LET e == Max(AnchorEnds(P, I, prefix))
      n == RunBack(P, I, Len(P), e, prefix)
  IN  [persisted_start |-> Len(P) - n, incoming_start |-> e - n,
       incoming_end |-> e]

(* The messages of I from offset a up to offset b hold a compaction summary. *)
SummaryBetween(I, a, b) == \E k \in a + 1 .. b : I[k].summary

(* The result of reconcile_projection.  append_from None and                *)
(* len(incoming) both say that there is nothing to insert, and the store    *)
(* tests for them together: both are Len(I) here.                           *)
Result(mode, from) == [mode |-> mode, append_from |-> from]

-----------------------------------------------------------------------------
(* Mutants: the run itself is inserted again; the tail is taken by position;*)
(* any gap passes for a compaction.                                         *)
AnchoredFromRunStart(P, I, prefix) ==
  IF AnchorEnds(P, I, prefix) = {}
    THEN Result("none", Len(I))
    ELSE Result("compacted", Anchor(P, I, prefix).incoming_start)

AnchoredByPosition(P, I, prefix) ==
  IF AnchorEnds(P, I, prefix) = {} \/ Len(P) > Len(I)
    THEN Result("none", Len(I))
    ELSE Result("truncate_append", Len(P))

AnchoredAcrossAnyGap(P, I, prefix) ==
  IF AnchorEnds(P, I, prefix) = {}
    THEN Result("none", Len(I))
    ELSE Result("compacted", Anchor(P, I, prefix).incoming_end)

(* The anchored part of reconcile_projection; "none" when it falls through. *)
Anchored(P, I, prefix) ==
  LET a == Anchor(P, I, prefix)
  IN  CASE \/ AnchorEnds(P, I, prefix) = {}
           \/ a.persisted_start <= prefix -> Result("none", Len(I))
        [] OTHER ->
             IF SummaryBetween(I, prefix, a.incoming_start)
               THEN Result("compacted", a.incoming_end)
             ELSE IF a.incoming_start = 0
               THEN Result(IF a.incoming_end = Len(I) THEN "truncate"
                                                      ELSE "truncate_append",
                           a.incoming_end)
             ELSE Result("none", Len(I))

(* The incoming history is a proper suffix of the persisted one. *)
IsTail(P, I) ==
  /\ RunBack(P, I, Len(P), Len(I), 0) = Len(I)
  /\ Len(I) < Len(P)

reconcile_projection(P, I) ==
  LET prefix   == PrefixLen(P, I)
      anchored == Anchored(P, I, prefix)
  IN  CASE prefix = Len(I) ->
             Result(IF Len(I) \in {0, Len(P)} THEN "exact" ELSE "truncate",
                    Len(I))
        [] prefix # Len(I) /\ prefix = Len(P) -> Result("append", Len(P))
        [] prefix # Len(I) /\ prefix # Len(P) ->
             IF anchored.mode # "none" THEN anchored
             ELSE Result(IF IsTail(P, I) THEN "truncate" ELSE "conflict",
                         Len(I))

Accepts(P, I) == reconcile_projection(P, I).mode # "conflict"

(* messages[result.append_from :] *)
NewTail(P, I) ==
  SubSeq(I, reconcile_projection(P, I).append_from + 1, Len(I))
-----------------------------------------------------------------------------
(* What reconcile_projection promises of a stored and an incoming history. *)

(* Nothing is merged: new messages are stored only right behind the last    *)
(* persisted message, where the client, too, has that message just before   *)
(* them (reconcile_history: "only a genuinely new incoming tail is          *)
(* appended").                                                              *)
TailContinues(P, I) ==
  (Accepts(P, I) /\ P # << >> /\ NewTail(P, I) # << >>) =>
    LET a == reconcile_projection(P, I).append_from
    IN  a > 0 /\ equivalent(P[Len(P)], I[a])

(* A fork is refused: a history without a compaction summary is accepted    *)
(* only if all of it but the new tail is a run of consecutive persisted     *)
(* messages (reconcile_projection: "a rewritten prefix followed by a valid  *)
(* suffix is a fork and must remain a conflict").                           *)
IsRun(P, I, n) ==
  \E s \in 0 .. Len(P) :
    /\ s + n <= Len(P)
    /\ \A k \in 1 .. n : equivalent(P[s + k], I[k])

NoForkIn(P, I) ==
  (Accepts(P, I) /\ ~SummaryBetween(I, 0, Len(I))) =>
    IsRun(P, I, reconcile_projection(P, I).append_from)
=============================================================================
