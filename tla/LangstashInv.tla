----------------------------- MODULE LangstashInv -----------------------------
(***************************************************************************)
(* Why the queue loses nothing that it keeps: the inductive invariant      *)
(* behind the properties of Langstash.  TLC checks it on small instances,  *)
(* TLAPS proves it (LangstashSafety).                                      *)
(*                                                                         *)
(* TraceInv holds whatever happens.  QueueInv and DeliveryInv speak of all *)
(* lines and hold until two ingests overlap or something is exposed.       *)
(* KeptInv is what remains of them afterwards for the lines of kept        *)
(* traces: whatever is still written carries a greater number and lies     *)
(* behind them, so it cannot carry the commit id past them.                *)
(***************************************************************************)
EXTENDS Langstash

-----------------------------------------------------------------------------
(* TraceInv: whose trace a line is, and what the sender holds of the files. *)

\* A trace has one line, and none before its ingester has appended it.
LineOfOneTrace ==
    /\ \A l, m \in Stored : l.trace = m.trace => l = m
    /\ \A l \in Stored : l.trace \in submitted
    /\ \A i \in Ingesters : ipc[i] \in {"oversized", "append"} =>
         \A l \in Stored : l.trace # job[i].trace

\* Ingesters work for traces that were submitted and not yet accepted, each for its own.
WorksOnSubmitted ==
    /\ accepted \subseteq submitted
    /\ \A i \in Ingesters : ipc[i] # "idle" =>
         /\ job[i].trace \in submitted \ accepted
         /\ \A j \in Ingesters : ipc[j] # "idle" /\ job[j].trace = job[i].trace => i = j

KeptIsStored == \A t \in kept : \E l \in Stored : l.trace = t
SavedCommitIsBehind == 0 <= savedCommit /\ savedCommit <= commit

\* The batch holds lines of the files above the commit id, and the reader is past them.
BatchIsPending ==
    spc \in {"read", "post"} =>
        \A j \in DOMAIN batch : batch[j] \in Stored /\ batch[j].seq > commit
BatchIsPassed ==
    spc = "read" =>
        \A j \in DOMAIN batch :
            \/ \E d \in Days : d < rday /\ batch[j] \in StoredOn(d)
            \/ rday \in Days /\ \E k \in DOMAIN pending[rday] : k < ridx /\ batch[j] = pending[rday][k]

\* lastOk is the number of the trace posted last, or the commit id.
LastOkIsPosted ==
    spc = "post" =>
        /\ pos <= Len(batch) + 1
        /\ lastOk = IF pos = 1 THEN commit ELSE batch[pos - 1].seq
        /\ \A k \in DOMAIN batch : k < pos => batch[k].trace \in Settled

UpUntilOutage == outages = 0 => up

TraceInv ==
    /\ LineOfOneTrace /\ WorksOnSubmitted /\ KeptIsStored /\ SavedCommitIsBehind
    /\ BatchIsPending /\ BatchIsPassed /\ LastOkIsPosted /\ UpUntilOutage

-----------------------------------------------------------------------------
(* QueueInv: all lines, until ingests overlap or something is exposed.     *)

\* The lines an ingester has appended and not yet saved the state for.
Unsaved(i) == ipc[i] \in {"entry", "image", "replace"}

\* The number of the next line to be appended.
Reserved == \E i \in Ingesters : ipc[i] \in {"oversized", "append"}
Frontier == IF Reserved THEN nextSeq - 1 ELSE nextSeq

\* Lines are numbered upwards, within a file and from one day to the next.
OrderedInFile ==
    \A d \in Days : \A j, k \in DOMAIN pending[d] :
        j < k => pending[d][j].seq < pending[d][k].seq
OrderedByDay ==
    \A d, e \in Days : d < e =>
        \A l \in StoredOn(d), m \in StoredOn(e) : l.seq < m.seq
BelowFrontier == \A l \in Stored : l.seq < Frontier

\* An ingester at work holds the newest number and writes to the newest file.
JobIsNewest ==
    \A i \in Ingesters : ipc[i] # "idle" =>
        /\ job[i].day <= day
        /\ \A e \in Days : job[i].day < e => pending[e] = <<>>
        /\ job[i].seq = nextSeq - 1
        /\ Unsaved(i) => JobLine(i) \in StoredOn(job[i].day)
        /\ ipc[i] = "replace" => img[i] = [next |-> nextSeq, files |-> files]
NothingBeyondToday == \A e \in Days : day < e => pending[e] = <<>>

\* The index covers every line but the one being ingested, and the saved one names no
\* later file unless it covers all of an earlier one.
IndexCovers ==
    \A d \in Days : \A l \in StoredOn(d) :
        \/ l.seq <= files[d]
        \/ \E i \in Ingesters : ipc[i] = "entry" /\ job[i].day = d /\ l = JobLine(i)
SavedInOrder ==
    \A d, e \in Days : d < e /\ savedFiles[e] > 0 => \A l \in StoredOn(d) : l.seq <= savedFiles[d]

\* An entry is only there for a file that holds lines.
Backed(f) == \A e \in Days : f[e] > 0 => pending[e] # <<>>
IndexBacked == Backed(files) /\ Backed(savedFiles)

CommitIsBehind == commit < Frontier
CommitIsSettled == \A l \in Stored : l.seq <= commit => l.trace \in Settled

InBatch(l) == \E k \in DOMAIN batch : batch[k] = l

\* Once a later file is in the snapshot, the snapshot covers the earlier ones.
SnapshotBacked == Backed(snap)
SnapshotCovers ==
    spc = "read" =>
        \A d, e \in Days : d < e /\ snap[e] > 0 => \A l \in StoredOn(d) : l.seq <= snap[d]
\* What the reader has passed is in the batch, or the batch takes nothing more.
ReaderPassedFiles ==
    spc = "read" =>
        \A d \in Days : d < rday => \A l \in StoredOn(d) :
            l.seq > commit => InBatch(l) \/ \A e \in Days : d < e => snap[e] <= commit
ReaderPassedLines ==
    spc = "read" /\ rday \in Days =>
        /\ ridx <= Len(pending[rday]) + 1
        /\ \A k \in DOMAIN pending[rday] :
             k < ridx /\ pending[rday][k].seq > commit => InBatch(pending[rday][k])

\* The batch is what follows the commit id, without a gap.
BatchHasNoGap ==
    spc \in {"read", "post"} =>
        \A j \in DOMAIN batch : \A l \in Stored :
            commit < l.seq /\ l.seq < batch[j].seq => \E k \in DOMAIN batch : k < j /\ batch[k] = l

\* What was answered is settled, up to lastOk.
PostedIsSettled ==
    spc = "post" =>
        /\ commit <= lastOk /\ lastOk < Frontier
        /\ \A l \in Stored : l.seq <= lastOk => l.trace \in Settled

AcceptedIsIndexed ==
    \A t \in accepted : \E d \in Days : \E l \in StoredOn(d) :
        l.trace = t /\ l.seq < savedNext /\ l.seq <= savedFiles[d]

Numbered ==
    OrderedInFile /\ OrderedByDay /\ BelowFrontier /\ JobIsNewest /\ NothingBeyondToday
Indexed == IndexCovers /\ SavedInOrder /\ IndexBacked
Committed == CommitIsBehind /\ CommitIsSettled
Reading == SnapshotBacked /\ SnapshotCovers /\ ReaderPassedFiles /\ ReaderPassedLines
Batching == BatchHasNoGap /\ PostedIsSettled

OneIngester == \A i, j \in Ingesters : ipc[i] # "idle" /\ ipc[j] # "idle" => i = j
Undamaged == torn = {} /\ kept = accepted

QueueInv ==
    /\ OneIngester /\ Undamaged
    /\ Numbered /\ Indexed /\ Committed /\ Reading /\ Batching /\ AcceptedIsIndexed

\* The batch grows with the sequence numbers.
BatchInOrder ==
    spc \in {"read", "post"} =>
        \A j, k \in DOMAIN batch : j < k => batch[j].seq < batch[k].seq

\* While nothing failed, what was delivered is behind the commit id or lastOk.
DeliveredBehind ==
    crashes = 0 /\ outages = 0 =>
        /\ resent = {}
        /\ \A t \in delivered : \E l \in Stored : l.trace = t
        /\ \A l \in Stored : l.trace \in delivered =>
             l.seq <= commit \/ (spc = "post" /\ l.seq <= lastOk)

DeliveryInv == BatchInOrder /\ DeliveredBehind

-----------------------------------------------------------------------------
(* KeptInv: the line l in the file of day d, once its trace is kept.       *)

\* The ingesters that will give their number back.
Returning == {i \in Ingesters : ipc[i] = "oversized"}

\* Every index covers the line, and no number it has can be given again.
KeptIsIndexed(d, l) ==
    /\ l.seq < savedNext /\ l.seq + Cardinality(Returning) < nextSeq
    /\ l.seq <= savedFiles[d] /\ l.seq <= files[d] /\ d <= day

\* Who ingests now has a greater number, a file not older, and an image that covers the line.
IngestIsAhead(d, l) ==
    \A i \in Ingesters : ipc[i] # "idle" =>
        /\ l.seq < job[i].seq /\ d <= job[i].day
        /\ ipc[i] = "replace" => l.seq < img[i].next /\ l.seq <= img[i].files[d]

\* Smaller numbers lie before the line and greater ones behind it, by file and by day.
KeptInFile(d, l) ==
    \A j, k \in DOMAIN pending[d] : j < k =>
        /\ pending[d][k] = l => pending[d][j].seq < l.seq
        /\ pending[d][j] = l => l.seq < pending[d][k].seq
KeptByDay(d, l) ==
    \A e \in Days : \A m \in StoredOn(e) :
        /\ e < d => m.seq < l.seq
        /\ d < e => l.seq < m.seq

\* The reader does not get past the line without taking it, but to a full batch.
KeptInSnapshot(d, l) == \A e \in Days : d < e /\ snap[e] > 0 => l.seq <= snap[d]
KeptIsRead(d, l) ==
    /\ d < rday /\ l.seq > commit => InBatch(l) \/ \A e \in Days : d < e => snap[e] <= commit
    /\ d = rday /\ l.seq > commit =>
         \A k \in DOMAIN pending[d] : k < ridx /\ pending[d][k] = l => InBatch(l)

\* A batch that holds a greater number holds the line before it.
KeptIsBatched(l) ==
    \A j \in DOMAIN batch :
        /\ commit < l.seq /\ l.seq < batch[j].seq => \E k \in DOMAIN batch : k < j /\ batch[k] = l
        /\ batch[j] = l => \A k \in DOMAIN batch : j < k => l.seq < batch[k].seq

\* Neither the commit id nor lastOk is past the line while it is to be settled.
KeptIsSettled(l) ==
    /\ l.seq <= commit => l.trace \in Settled
    /\ spc = "post" /\ l.seq <= lastOk => l.trace \in Settled
KeptIsDelivered(l) ==
    crashes = 0 /\ outages = 0 =>
        /\ l.trace \notin resent
        /\ l.trace \in delivered => l.seq <= commit \/ (spc = "post" /\ l.seq <= lastOk)

KeptLine(d, l) ==
    /\ KeptIsIndexed(d, l) /\ IngestIsAhead(d, l) /\ KeptInFile(d, l) /\ KeptByDay(d, l)
    /\ spc = "read" => KeptInSnapshot(d, l) /\ KeptIsRead(d, l)
    /\ spc \in {"read", "post"} => KeptIsBatched(l)
    /\ KeptIsSettled(l) /\ KeptIsDelivered(l)

KeptInv == \A d \in Days : \A l \in StoredOn(d) : l.trace \in kept => KeptLine(d, l)

\* The inductive invariant.
Inv == TraceInv /\ KeptInv /\ (~ disturbed => QueueInv /\ DeliveryInv)
=============================================================================
