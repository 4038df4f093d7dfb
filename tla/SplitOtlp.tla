------------------------------ MODULE SplitOtlp ------------------------------
(***************************************************************************)
(* How recovery splits a trace that is too long for one line: _split_otlp, *)
(* exporter/src/ingestor.py.  The root span is repeated in every chunk,    *)
(* the children are packed in their order, as many as fit.  A chunk is the *)
(* pair of the first and the last child it holds.  The loop of the code is *)
(* the state machine: one step per child.                                  *)
(***************************************************************************)
EXTENDS Integers, Sequences

CONSTANTS
    Spans,     \* child spans
    Bodies,    \* the sequences of children to be split
    Fitting    \* sequences of children whose chunk, root included, is <= max_bytes

ASSUME SplitAssumption == Bodies \subseteq Seq(Spans) /\ Fitting \subseteq Seq(Spans)

VARIABLES
    children,  \* the spans of the body but the root
    shaped,    \* one resource, one scope, one root
    start,     \* first child of the batch
    next,      \* the child looked at
    chunks,    \* <<first, last>> of the finished chunks
    result     \* "splitting", "split", or "dropped" for the empty list

splitVars == <<children, shaped, start, next, chunks, result>>

Fits(first, last) == SubSeq(children, first, last) \in Fitting
BatchEmpty == start = next

\* Finished chunks once the batch is closed.
WithoutBatch == chunks                                  \* mutant: the batch is forgotten
WithBatch == IF BatchEmpty THEN chunks ELSE Append(chunks, <<start, next - 1>>)

SplitInit ==
    /\ children \in Bodies /\ shaped \in BOOLEAN
    /\ start = 1 /\ next = 1 /\ chunks = <<>>
    /\ result = IF shaped /\ <<>> \in Fitting THEN "splitting" ELSE "dropped"

\* The child still fits into the batch.
Extend ==
    /\ result = "splitting" /\ next <= Len(children)
    /\ Fits(start, next)
    /\ next' = next + 1
    /\ UNCHANGED <<children, shaped, start, chunks, result>>

\* It does not: the batch is closed and the child starts the next one.
CloseUnlessAlone ==            \* mutant: a child that does not fit alone is let through
    /\ result = "splitting" /\ next <= Len(children)
    /\ ~ Fits(start, next)
    /\ chunks' = WithBatch
    /\ start' = next /\ next' = next + 1
    /\ UNCHANGED <<children, shaped, result>>

Close ==
    /\ result = "splitting" /\ next <= Len(children)
    /\ ~ Fits(start, next)
    /\ Fits(next, next)
    /\ chunks' = WithBatch
    /\ start' = next /\ next' = next + 1
    /\ UNCHANGED <<children, shaped, result>>

\* It does not fit alone: the whole line is dropped.
DropWhenFull ==                \* mutant: it is dropped when the batch is full
    /\ result = "splitting" /\ next <= Len(children)
    /\ ~ Fits(start, next)
    /\ result' = "dropped"
    /\ UNCHANGED <<children, shaped, start, next, chunks>>

Drop ==
    /\ result = "splitting" /\ next <= Len(children)
    /\ ~ Fits(start, next)
    /\ ~ Fits(next, next)
    /\ result' = "dropped"
    /\ UNCHANGED <<children, shaped, start, next, chunks>>

\* The end of the loop; a body without children is one chunk, the root alone.
FinishSplit ==
    /\ result = "splitting" /\ next > Len(children)
    /\ chunks' = IF WithBatch = <<>> THEN <<<<1, 0>>>> ELSE WithBatch
    /\ start' = next
    /\ result' = "split"
    /\ UNCHANGED <<children, shaped, next>>

SplitNext == Extend \/ Close \/ Drop \/ FinishSplit
SplitSpec == SplitInit /\ [][SplitNext]_splitVars

-----------------------------------------------------------------------------
(* Properties.                                                             *)

Positions == 1..(Len(children) + 1)
TypeOK ==
    /\ children \in Bodies /\ shaped \in BOOLEAN
    /\ start \in Positions /\ next \in Positions /\ start <= next
    /\ chunks \in Seq(Positions \X (0..Len(children)))
    /\ result \in {"splitting", "split", "dropped"}

\* The chunks tile the children before the batch: each follows the one before it.
Tiled ==
    /\ chunks = <<>> => start = 1
    /\ chunks # <<>> => chunks[1][1] = 1 /\ chunks[Len(chunks)][2] = start - 1
    /\ \A k \in 1..(Len(chunks) - 1) : chunks[k + 1][1] = chunks[k][2] + 1

\* Every chunk handed out is short enough to be a line (ingestor.py:216, 222).
ChunksFit ==
    /\ \A k \in DOMAIN chunks : Fits(chunks[k][1], chunks[k][2])
    /\ result = "splitting" => BatchEmpty \/ Fits(start, next - 1)

\* All chunks together hold every child once and in order (ingestor.py:213-228).
SplitKeepsEverySpan == result = "split" => Tiled /\ start = Len(children) + 1

\* The line is dropped only for its shape, or for a span that no chunk can hold.
DroppedOnlyIfHopeless ==
    result = "dropped" =>
        \/ ~ shaped \/ <<>> \notin Fitting
        \/ \E k \in DOMAIN children : ~ Fits(k, k)

=============================================================================
