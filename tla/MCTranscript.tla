---------------------------- MODULE MCTranscript ----------------------------
(* All histories of up to four messages. *)
EXTENDS Transcript, SampleMessages

CONSTANT MaxTranscript    \* bound on the length of the transcript

MCMessages == {Hello, Res, Parts, Pruned, Summary}
MCProjections == UNION {[1 .. n -> MCMessages] : n \in 0 .. 4}

BoundedNext ==
  \E I \in Projections :
    \/ Sync(I) /\ Len(transcript') <= MaxTranscript
    \/ Reject(I)

BoundedSpec == Empty /\ [][BoundedNext]_transcript
=============================================================================
