----------------------------- MODULE MCSplitOtlp -----------------------------
(* SplitOtlp for TLC: bodies of up to MaxLength children of sizes 1 to      *)
(* MaxSize, chunks of up to Room.                                           *)
EXTENDS SplitOtlp, SequencesExt
CONSTANTS MaxLength, MaxSize, Room

MCSpans == 1..MaxSize
MCBodies == BoundedSeq(MCSpans, MaxLength)
Bytes(batch) == FoldSeq(LAMBDA s, n : s + n, 0, batch)
MCFitting == {b \in MCBodies : Bytes(b) <= Room}
=============================================================================
