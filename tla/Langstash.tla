------------------------------ MODULE Langstash ------------------------------
(***************************************************************************)
(* The durable queue at the heart of the langstash daemon                  *)
(* (exporter/src/state.py, ingestor.py, sender.py, main.py).               *)
(*                                                                         *)
(* Ingesters (the server's event loop, the FailedRecovery thread) allocate *)
(* a sequence number, append one line to data/pending/{day}.jsonl and      *)
(* write ingest.json.  The sender thread reads lines above its commit id,  *)
(* posts them one by one to Langfuse and writes the commit id to           *)
(* sender.json.  No lock is shared by the threads.  A crash loses the      *)
(* memory of all of them; a restart reloads the two state files.           *)
(*                                                                         *)
(* A step of the model is a stretch of code no other thread can observe    *)
(* half done.  allocate_seq_id (state.py:191) is one such stretch: CPython *)
(* (>= 3.11 here) switches threads only at calls and backward jumps, and   *)
(* there is none between its read and its write.  Token counts, log lines  *)
(* and last_error are left out: nothing in the queue's control reads them. *)
(* A crash is the death of the process, not of the machine: what was       *)
(* written to a file is still there.                                       *)
(*                                                                         *)
(* Two things put a trace at risk: ingests that overlap (overlapped), and  *)
(* a death or a disk error that leaves more in the files than ingest.json  *)
(* and the commit id account for (exposed).  Both are history, recorded by *)
(* the steps themselves; what was accepted before either is kept.          *)
(***************************************************************************)
EXTENDS Integers, Sequences, FiniteSets

CONSTANTS
    Traces,       \* the OTLP bodies offered to ingest, one delivery each
    Ingesters,    \* threads that call ingest()
    NoTrace,      \* the trace of an idle ingester
    MaxDay,       \* pending files are named by UTC day: days 1..MaxDay
    BatchSize,    \* SenderConfig.batch_size
    Oversized,    \* traces whose line exceeds MAX_BODY_BYTES (413)
    Refused,      \* traces Langfuse answers with 400
    Poison,       \* traces Langfuse answers with another 4xx; one of both gets either
    MaxFailures   \* bound on crashes, errors of the disk and Langfuse outages together

IngestPoints == {"idle", "oversized", "append", "entry", "image", "replace"}

ASSUME LangstashAssumption ==
    /\ NoTrace \notin Traces /\ IsFiniteSet(Ingesters)
    /\ MaxDay \in Nat \ {0}
    /\ BatchSize \in Nat \ {0}
    /\ Oversized \subseteq Traces /\ Refused \subseteq Traces /\ Poison \subseteq Traces
    /\ MaxFailures \in Nat

VARIABLES
    day,          \* the UTC date
    nextSeq,      \* IngestState.next_seq_id, shared by the ingesters
    files,        \* IngestState.files: max_seq by day, 0 when there is no entry
    pending,      \* data/pending/{day}.jsonl: the lines, in file order
    torn,         \* the days whose file ends in the middle of a line
    savedNext,    \* next_seq_id in ingest.json
    savedFiles,   \* files in ingest.json
    savedCommit,  \* commit_id in sender.json
    ipc,          \* where each ingester is
    job,          \* what each ingester is ingesting: trace, seq, day
    img,          \* the dict each ingester is about to write to ingest.json
    spc,          \* where the sender is
    commit,       \* SenderState.commit_id
    snap,         \* files of the ingest.json the sender loaded
    rday, ridx,   \* the file and line the sender reads next
    batch,        \* traces of _send_batch
    pos,          \* the trace of the batch posted next
    lastOk,       \* last_success_seq
    up,           \* Langfuse is reachable
    submitted,    \* history: traces given to an ingester
    accepted,     \* history: traces ingest() returned a seq_id for
    delivered,    \* history: traces Langfuse stored
    skipped,      \* history: traces dropped after a 400
    resent,       \* history: traces posted again after Langfuse had them
    overlapped,   \* history: two calls of ingest() have been under way at once
    exposed,      \* history: a death or an error left a file ahead of its index
    kept,         \* history: traces accepted before either, see ReadFails
    crashes, errors, outages

ingestVars  == <<nextSeq, files, ipc, job, img>>
readVars    == <<snap, rday, ridx, batch>>
senderVars  == <<spc, commit, readVars, pos, lastOk>>
diskVars    == <<pending, torn, savedNext, savedFiles, savedCommit>>
riskVars    == <<overlapped, exposed, kept>>
historyVars == <<submitted, accepted, delivered, skipped, resent, riskVars>>
worldVars   == <<day, up, crashes, errors, outages>>
vars == <<ingestVars, senderVars, diskVars, historyVars, worldVars>>

Days == 1..MaxDay
Line == [seq : Int, trace : Traces]
Idle == [trace |-> NoTrace, seq |-> 0, day |-> 1]
Empty == [d \in Days |-> 0]
NoImage == [next |-> 1, files |-> Empty]
Settled == delivered \cup skipped
Failures == crashes + errors + outages
disturbed == overlapped \/ exposed

StoredOn(d) == {pending[d][k] : k \in DOMAIN pending[d]}
Stored == UNION {StoredOn(d) : d \in Days}

\* ingest.json accounts for every line: a death here takes nothing along.
IndexIsSaved == \A d \in Days : \A l \in StoredOn(d) : l.seq < savedNext /\ l.seq <= savedFiles[d]

\* The line an ingester writes for its trace.
JobLine(i) == [seq |-> job[i].seq, trace |-> job[i].trace]

\* update_file_entry on the greatest number of a file.
FirstSeqOnly(max, seq) == IF max = 0 THEN seq ELSE max          \* mutant: only the first line counts
MaxSeqWith(max, seq) == IF seq > max THEN seq ELSE max

\* _read_pending_traces takes a line above the commit id.
BatchedAgain(l) == IF l.seq >= commit THEN Append(batch, l) ELSE batch       \* mutant: >= for >
BatchedFirst(l) == IF l.seq > commit THEN <<l>> \o batch ELSE batch          \* mutant: newest first
Batched(l) == IF l.seq > commit THEN Append(batch, l) ELSE batch

\* record_commit, made only when the batch got past the commit id.
CommitFailed == IF pos <= Len(batch) THEN batch[pos].seq ELSE lastOk  \* mutant: the failed trace too
CommitReached == IF lastOk > commit THEN lastOk ELSE commit

\* cmd_run corrects a next_seq_id that the commit id has overtaken.
NextSeqAtCommit == savedCommit + 1                              \* mutant: always the commit id's
NextSeqAtStart == IF savedNext <= savedCommit THEN savedCommit + 1 ELSE savedNext

-----------------------------------------------------------------------------
(* Ingestion: ingest() of ingestor.py, one action per step of a thread.    *)

\* allocate_seq_id, then the date that names the file is taken.
Allocate(i) ==
    /\ ipc[i] = "idle"
    /\ \E t \in Traces \ submitted :
         /\ submitted' = submitted \cup {t}
         /\ job' = [job EXCEPT ![i] = [trace |-> t, seq |-> nextSeq, day |-> day]]
         /\ ipc' = [ipc EXCEPT ![i] = IF t \in Oversized THEN "oversized" ELSE "append"]
    /\ nextSeq' = nextSeq + 1
    /\ overlapped' = (overlapped \/ \E j \in Ingesters : ipc[j] # "idle")
    /\ UNCHANGED <<files, img, senderVars, diskVars, worldVars,
                   accepted, delivered, skipped, resent, exposed, kept>>

\* The line is too long: the number is given back and 413 raised.
GiveBack(i) ==
    /\ ipc[i] = "oversized"
    /\ nextSeq' = nextSeq - 1
    /\ ipc' = [ipc EXCEPT ![i] = "idle"]
    /\ job' = [job EXCEPT ![i] = Idle]
    /\ UNCHANGED <<files, img, senderVars, diskVars, historyVars, worldVars>>

\* The line is written under the file's flock.  Behind half a line it is no line:
\* the sender can parse neither of the two.
AppendLine(i) ==
    /\ ipc[i] = "append"
    /\ pending' = [pending EXCEPT ![job[i].day] =
                      IF job[i].day \in torn THEN @ ELSE Append(@, JobLine(i))]
    /\ torn' = torn \ {job[i].day}
    /\ ipc' = [ipc EXCEPT ![i] = "entry"]
    /\ UNCHANGED <<nextSeq, files, job, img, senderVars, savedNext, savedFiles,
                   savedCommit, historyVars, worldVars>>

\* OSError: nothing of the line was written, or a part of it.  The number is spent.
AppendFails(i) ==
    /\ ipc[i] = "append" /\ Failures < MaxFailures
    /\ errors' = errors + 1
    /\ \E half \in SUBSET {job[i].day} :
         /\ torn' = torn \cup half
         /\ exposed' = (exposed \/ half # {})
    /\ ipc' = [ipc EXCEPT ![i] = "idle"]
    /\ job' = [job EXCEPT ![i] = Idle]
    /\ UNCHANGED <<nextSeq, files, img, senderVars, pending, savedNext, savedFiles, savedCommit,
                   submitted, accepted, delivered, skipped, resent, overlapped, kept,
                   day, up, crashes, outages>>

\* update_file_entry.
UpdateEntry(i) ==
    /\ ipc[i] = "entry"
    /\ files' = [files EXCEPT ![job[i].day] = MaxSeqWith(@, job[i].seq)]
    /\ ipc' = [ipc EXCEPT ![i] = "image"]
    /\ UNCHANGED <<nextSeq, job, img, senderVars, diskVars, historyVars, worldVars>>

\* save_ingest_state copies the shared state into a dict ...
TakeImage(i) ==
    /\ ipc[i] = "image"
    /\ img' = [img EXCEPT ![i] = [next |-> nextSeq, files |-> files]]
    /\ ipc' = [ipc EXCEPT ![i] = "replace"]
    /\ UNCHANGED <<nextSeq, files, job, senderVars, diskVars, historyVars, worldVars>>

\* ... and _atomic_write replaces ingest.json by it; ingest() then returns.
ReplaceIngestJson(i) ==
    /\ ipc[i] = "replace"
    /\ savedNext' = img[i].next
    /\ savedFiles' = img[i].files
    /\ accepted' = accepted \cup {job[i].trace}
    /\ kept' = IF disturbed THEN kept ELSE kept \cup {job[i].trace}
    /\ ipc' = [ipc EXCEPT ![i] = "idle"]
    /\ job' = [job EXCEPT ![i] = Idle]
    /\ img' = [img EXCEPT ![i] = NoImage]
    /\ UNCHANGED <<nextSeq, files, senderVars, pending, torn, savedCommit, worldVars,
                   submitted, delivered, skipped, resent, overlapped, exposed>>

\* OSError, or RuntimeError as the index changed while it was copied: ingest() raises,
\* although its line is in the file and in the shared index.
SaveFails(i) ==
    /\ ipc[i] \in {"image", "replace"} /\ Failures < MaxFailures
    /\ errors' = errors + 1
    /\ ipc' = [ipc EXCEPT ![i] = "idle"]
    /\ job' = [job EXCEPT ![i] = Idle]
    /\ img' = [img EXCEPT ![i] = NoImage]
    /\ UNCHANGED <<nextSeq, files, senderVars, diskVars, historyVars, day, up, crashes, outages>>

Ingest(i) ==
    \/ Allocate(i)
    \/ GiveBack(i)
    \/ AppendLine(i)
    \/ AppendFails(i)
    \/ UpdateEntry(i)
    \/ TakeImage(i)
    \/ ReplaceIngestJson(i)
    \/ SaveFails(i)

-----------------------------------------------------------------------------
(* The sender thread: _send_batch and _read_pending_traces of sender.py.   *)

LoadIngestState ==
    /\ spc = "idle"
    /\ spc' = "read"
    /\ snap' = savedFiles
    /\ rday' = 1 /\ ridx' = 1 /\ batch' = <<>>
    /\ UNCHANGED <<ingestVars, diskVars, historyVars, worldVars, commit, pos, lastOk>>

\* One line of a file whose entry says it holds something above the commit id.
ReadLine ==
    /\ spc = "read" /\ rday \in Days
    /\ snap[rday] > commit
    /\ ridx <= Len(pending[rday]) /\ Len(batch) < BatchSize
    /\ batch' = Batched(pending[rday][ridx])
    /\ ridx' = ridx + 1
    /\ UNCHANGED <<ingestVars, diskVars, historyVars, worldVars, spc, commit, snap, rday,
                   pos, lastOk>>

NextFile ==
    /\ spc = "read" /\ rday \in Days /\ Len(batch) < BatchSize
    /\ snap[rday] <= commit \/ ridx > Len(pending[rday])
    /\ rday' = rday + 1
    /\ ridx' = 1
    /\ UNCHANGED <<ingestVars, diskVars, historyVars, worldVars, spc, commit, snap, batch,
                   pos, lastOk>>

\* OSError on a file the index names: it is passed over, and later files are not.
ReadFails ==
    /\ spc = "read" /\ rday \in Days /\ Len(batch) < BatchSize
    /\ snap[rday] > commit
    /\ Failures < MaxFailures
    /\ errors' = errors + 1
    /\ rday' = rday + 1
    /\ ridx' = 1
    /\ exposed' = TRUE
    /\ kept' = kept \ {l.trace : l \in StoredOn(rday)}
    /\ UNCHANGED <<ingestVars, diskVars, submitted, accepted, delivered, skipped, resent, overlapped,
                   day, up, crashes, outages, spc, commit, snap, batch, pos, lastOk>>

\* The batch is full or every file was read; an empty batch ends the round.
EndRead ==
    /\ spc = "read"
    /\ rday \notin Days \/ Len(batch) = BatchSize
    /\ spc' = IF batch = <<>> THEN "idle" ELSE "post"
    /\ pos' = 1
    /\ lastOk' = IF batch = <<>> THEN 0 ELSE commit
    /\ snap' = Empty /\ rday' = 1 /\ ridx' = 1
    /\ UNCHANGED <<ingestVars, diskVars, historyVars, worldVars, commit, batch>>

\* The locals of a round are gone when it ends.
EndRound == batch' = <<>> /\ pos' = 1 /\ lastOk' = 0

\* The post of the trace at pos was answered with 2xx, or with 400, which skips it.
Answered(stored, dropped) ==
    /\ delivered' = delivered \cup stored
    /\ skipped' = skipped \cup dropped
    /\ resent' = resent \cup (stored \cap delivered)
    /\ lastOk' = batch[pos].seq
    /\ pos' = pos + 1
    /\ UNCHANGED <<ingestVars, diskVars, worldVars, submitted, accepted, riskVars, spc, commit,
                   readVars>>

Posting == spc = "post" /\ pos <= Len(batch)

PostOk ==
    /\ Posting /\ up
    /\ batch[pos].trace \notin Refused \cup Poison
    /\ Answered({batch[pos].trace}, {})

PostBadRequest ==
    /\ Posting /\ up
    /\ batch[pos].trace \in Refused
    /\ Answered({}, {batch[pos].trace})

\* Any other status: what was sent before it in the batch is committed.
PostHttpError ==
    /\ Posting
    /\ ~up \/ batch[pos].trace \in Poison
    /\ commit' = CommitReached
    /\ spc' = "save" /\ EndRound
    /\ UNCHANGED <<ingestVars, diskVars, historyVars, worldVars, snap, rday, ridx>>

\* No answer: nothing is committed, although Langfuse may have the trace.
PostNetworkError ==
    /\ Posting /\ ~up
    /\ \E stored \in SUBSET ({batch[pos].trace} \ (Refused \cup Poison)) :
         /\ delivered' = delivered \cup stored
         /\ resent' = resent \cup (stored \cap delivered)
    /\ spc' = "save" /\ EndRound
    /\ UNCHANGED <<ingestVars, diskVars, worldVars, submitted, accepted, skipped, riskVars, commit,
                   snap, rday, ridx>>

EndBatch ==
    /\ spc = "post" /\ pos > Len(batch)
    /\ commit' = CommitReached
    /\ spc' = IF lastOk > commit THEN "save" ELSE "idle"
    /\ EndRound
    /\ UNCHANGED <<ingestVars, diskVars, historyVars, worldVars, snap, rday, ridx>>

\* save_sender_state.
SaveSenderState ==
    /\ spc = "save"
    /\ savedCommit' = commit
    /\ spc' = "idle"
    /\ UNCHANGED <<ingestVars, historyVars, worldVars, pending, torn, savedNext, savedFiles, commit,
                   readVars, pos, lastOk>>

\* OSError: the commit id stays in memory until it is saved after a later batch.
SenderSaveFails ==
    /\ spc = "save" /\ Failures < MaxFailures
    /\ errors' = errors + 1
    /\ spc' = "idle"
    /\ UNCHANGED <<ingestVars, diskVars, historyVars, day, up, crashes, outages, commit, readVars,
                   pos, lastOk>>

Send ==
    \/ LoadIngestState
    \/ ReadLine
    \/ NextFile
    \/ ReadFails
    \/ EndRead
    \/ PostOk
    \/ PostBadRequest
    \/ PostHttpError
    \/ PostNetworkError
    \/ EndBatch
    \/ SaveSenderState
    \/ SenderSaveFails

-----------------------------------------------------------------------------
(* The process and the world around it.                                    *)

\* The process dies and is started again: cmd_run reloads both state files
\* and moves next_seq_id above the commit id.  A line being written may be cut.
Restart ==
    /\ Failures < MaxFailures
    /\ crashes' = crashes + 1
    /\ \E half \in SUBSET {job[i].day : i \in {j \in Ingesters : ipc[j] = "append"}} :
         /\ torn' = torn \cup half
         /\ exposed' = (exposed \/ half # {} \/ ~ IndexIsSaved)
    /\ nextSeq' = NextSeqAtStart
    /\ files' = savedFiles
    /\ ipc' = [i \in Ingesters |-> "idle"]
    /\ job' = [i \in Ingesters |-> Idle]
    /\ img' = [i \in Ingesters |-> NoImage]
    /\ spc' = "idle"
    /\ commit' = savedCommit
    /\ snap' = Empty /\ rday' = 1 /\ ridx' = 1 /\ batch' = <<>>
    /\ pos' = 1 /\ lastOk' = 0
    /\ UNCHANGED <<pending, savedNext, savedFiles, savedCommit, submitted, accepted, delivered,
                   skipped, resent, overlapped, kept, day, up, errors, outages>>

NewDay ==
    /\ day < MaxDay
    /\ day' = day + 1
    /\ UNCHANGED <<ingestVars, senderVars, diskVars, historyVars, up, crashes, errors, outages>>

LangfuseDown ==
    /\ up /\ Failures < MaxFailures
    /\ up' = FALSE
    /\ outages' = outages + 1
    /\ UNCHANGED <<ingestVars, senderVars, diskVars, historyVars, day, crashes, errors>>

LangfuseUp ==
    /\ ~up
    /\ up' = TRUE
    /\ UNCHANGED <<ingestVars, senderVars, diskVars, historyVars, day, crashes, errors, outages>>

Init ==
    /\ day = 1 /\ up = TRUE /\ crashes = 0 /\ errors = 0 /\ outages = 0
    /\ nextSeq = 1 /\ files = Empty
    /\ pending = [d \in Days |-> <<>>] /\ torn = {}
    /\ savedNext = 1 /\ savedFiles = Empty /\ savedCommit = 0
    /\ ipc = [i \in Ingesters |-> "idle"]
    /\ job = [i \in Ingesters |-> Idle]
    /\ img = [i \in Ingesters |-> NoImage]
    /\ spc = "idle" /\ commit = 0
    /\ snap = Empty /\ rday = 1 /\ ridx = 1 /\ batch = <<>>
    /\ pos = 1 /\ lastOk = 0
    /\ submitted = {} /\ accepted = {} /\ delivered = {} /\ skipped = {} /\ resent = {}
    /\ overlapped = FALSE /\ exposed = FALSE /\ kept = {}

Next ==
    \/ \E i \in Ingesters : Ingest(i)
    \/ Send
    \/ Restart
    \/ NewDay
    \/ LangfuseDown
    \/ LangfuseUp

Spec == Init /\ [][Next]_vars

\* The sender's loop keeps running, and an outage ends.  Neither ingests, begun or new,
\* nor crashes, errors, midnights and outages are owed.
Fairness == WF_vars(Send) /\ WF_vars(LangfuseUp)

FairSpec == Spec /\ Fairness

-----------------------------------------------------------------------------
(* Properties.                                                             *)

WorldType ==
    /\ day \in Days /\ up \in BOOLEAN
    /\ crashes \in Nat /\ errors \in Nat /\ outages \in Nat

DiskType ==
    /\ pending \in [Days -> Seq(Line)] /\ torn \subseteq Days
    /\ savedNext \in Int /\ savedFiles \in [Days -> Int] /\ savedCommit \in Int

IngestType ==
    /\ nextSeq \in Int /\ files \in [Days -> Int]
    /\ ipc \in [Ingesters -> IngestPoints]
    /\ job \in [Ingesters -> [trace : Traces \cup {NoTrace}, seq : Int, day : Days]]
    /\ img \in [Ingesters -> [next : Int, files : [Days -> Int]]]
    /\ \A i \in Ingesters : ipc[i] # "idle" => job[i].trace \in Traces

SenderType ==
    /\ spc \in {"idle", "read", "post", "save"} /\ commit \in Int
    /\ snap \in [Days -> Int] /\ rday \in 1..(MaxDay + 1) /\ ridx \in Nat \ {0}
    /\ batch \in Seq(Line) /\ pos \in Nat \ {0} /\ lastOk \in Int

HistoryType ==
    /\ submitted \subseteq Traces /\ accepted \subseteq Traces
    /\ delivered \subseteq Traces /\ skipped \subseteq Traces /\ resent \subseteq delivered
    /\ overlapped \in BOOLEAN /\ exposed \in BOOLEAN /\ kept \subseteq accepted

TypeOK == WorldType /\ DiskType /\ IngestType /\ SenderType /\ HistoryType

\* A line the daemon answers for: any, until it is disturbed, and then those it kept.
Promised(l) == ~ disturbed \/ l.trace \in kept

\* What the commit id means: nothing promised at or below it still has to be sent.
SettledUpToCommit ==
    \A l \in Stored : l.seq <= commit /\ Promised(l) => l.trace \in Settled

\* The at-least-once promise: a trace ingest() accepted is at Langfuse (or was
\* refused by it with 400), or it waits in a pending file above the commit id.
AcceptedStaysAboveCommit ==
    \A t \in accepted \ Settled : \E l \in Stored : l.trace = t /\ l.seq > commit

\* The promise to the letter, for what was accepted before ingests overlapped, a death
\* or an error: whatever happens since, the next batch will open the file it waits in.
NoAcceptedTraceLost ==
    \A t \in kept \ Settled :
        \E d \in Days : \E l \in StoredOn(d) :
            l.trace = t /\ l.seq > commit /\ l.seq <= savedFiles[d]

\* The sequence number of a trace that is kept is that of no other line.
UniqueSeq == \A l, m \in Stored : l.seq = m.seq /\ Promised(l) => l = m

\* A trace that is kept is settled before any with a greater number.
SettledInOrder ==
    [][Settled' # Settled =>
         \A l, m \in Stored : l.trace \in Settled' \ Settled /\ m.seq < l.seq /\ Promised(m)
            => m.trace \in Settled]_vars

\* Without a crash or an outage nothing that is kept is posted twice.
ResentOnlyAfterFailure ==
    (\E l \in Stored : Promised(l) /\ l.trace \in resent) => crashes > 0 \/ outages > 0

\* Again and again nothing that is kept is left to send, but what is, or waits behind, a
\* trace that Langfuse never takes: the sender retries the head of the queue for ever.
Blocked(t) ==
    \E l, m \in Stored :
        l.trace = t /\ m.trace \in Poison /\ commit < m.seq /\ m.seq <= l.seq
AcceptedIsSettled == []<>(\A t \in kept : Blocked(t) \/ t \in Settled)

\* The daemon implements AtLeastOnce: it holds what is above the saved commit id.
Held == {t \in kept : \E l \in Stored : l.trace = t /\ l.seq > savedCommit}
Promise == INSTANCE AtLeastOnce
             WITH accepted <- kept, held <- Held, settled <- Settled, trouble <- disturbed
ImplementsAtLeastOnce == Promise!Spec
=============================================================================
