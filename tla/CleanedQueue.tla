---------------------------- MODULE CleanedQueue ----------------------------
(***************************************************************************)
(* The queue of Langstash with the cleaner thread beside it                *)
(* (exporter/src/cleaner.py).  The cleaner unlinks pending files, deletes  *)
(* their entries from the IngestState the ingesters use, and writes        *)
(* ingest.json from it, all without a lock.  An ingester that has opened a *)
(* pending file writes on to it after the unlink; so does the sender that  *)
(* reads it.                                                               *)
(***************************************************************************)
EXTENDS Langstash, FiniteSetsExt

CONSTANTS
    RetentionDays,  \* StorageConfig.retention_days
    SizeLimited     \* may data/ be over max_size_gb

ASSUME CleanerAssumption == RetentionDays \in Nat /\ SizeLimited \in BOOLEAN

VARIABLES
    cpc,      \* where the cleaner is
    phase,    \* the loop it is in: "retention", "committed", "uncommitted"
    ctodo,    \* files that loop still has to look at
    cday,     \* the file it removes
    ccommit,  \* commit_id of the sender.json it loaded
    removed,  \* it removed a file in this round
    before,   \* history: traces accepted when that loop listed its files
    cimg,     \* the dict it is about to write to ingest.json
    handle,   \* by ingester: no file, an open one, or one unlinked meanwhile
    orphan,   \* lines the sender still has to read of a file unlinked meanwhile
    stale,    \* history: the cleaner's ingest.json is older than ingest()'s
    dropped,  \* history: traces removed before they were sent, to get below the limit
    raced,    \* history: other traces whose line or index entry the cleaner removed
    late      \* history: traces ingested while the file of their day had expired

cleanVars == <<cpc, phase, ctodo, cday, ccommit, removed, before, cimg>>
fileVars == <<handle, orphan>>
lossVars == <<stale, dropped, raced, late>>
cleanedVars == <<vars, cleanVars, fileVars, lossVars>>

Unsent(d) == {l.trace : l \in StoredOn(d)} \ Settled
Listed(d) == files[d] # 0

-----------------------------------------------------------------------------
(* The cleaner: run_cleanup.                                               *)

\* run_cleanup ends: its locals are gone.
Rest ==
    /\ cpc' = "idle" /\ phase' = "retention" /\ ctodo' = {} /\ cday' = 1 /\ ccommit' = 0
    /\ removed' = FALSE /\ before' = {} /\ cimg' = [next |-> 1, files |-> Empty]

StartCleanup ==
    /\ cpc = "idle"
    /\ cpc' = "scan" /\ phase' = "retention" /\ removed' = FALSE
    /\ ccommit' = savedCommit
    /\ ctodo' = {d \in Days : Listed(d)}
    /\ before' = accepted
    /\ UNCHANGED <<vars, cday, cimg, fileVars, lossVars>>

\* The entry is read when the loop gets to it; the date must be old enough.
ExpiredByIndex(d) == files[d] <= ccommit                             \* mutant: no date
Expired(d) == files[d] <= ccommit /\ d <= day - RetentionDays
PickExpired ==
    /\ cpc = "scan" /\ phase = "retention" /\ ctodo # {}
    /\ ctodo' = ctodo \ {Min(ctodo)}
    /\ cday' = Min(ctodo)
    /\ cpc' = IF Expired(Min(ctodo)) THEN "unlink" ELSE "scan"
    /\ UNCHANGED <<vars, phase, ccommit, removed, before, cimg, fileVars, lossVars>>

\* Over the limit, a listed file is removed whatever became of its entry.
PickListed ==
    /\ cpc = "scan" /\ phase # "retention" /\ ctodo # {}
    /\ ctodo' = ctodo \ {Min(ctodo)}
    /\ cday' = Min(ctodo)
    /\ cpc' = "unlink"
    /\ UNCHANGED <<vars, phase, ccommit, removed, before, cimg, fileVars, lossVars>>

\* fpath.unlink(), if the file exists; after a failure one may be there without a line.
Exists(d) ==
    pending[d] # <<>> \/ d \in torn \/ \E i \in Ingesters : handle[i] = "open" /\ job[i].day = d
\* The sender reads the file, or is about to open it.
Opened(d) == spc = "read" /\ rday = d /\ snap[d] > commit
UnlinkPending ==
    /\ cpc = "unlink" /\ cpc' = "delete"
    /\ pending' = [pending EXCEPT ![cday] = <<>>]
    /\ torn' = torn \ {cday}
    /\ removed' \in {removed \/ Exists(cday), removed \/ crashes + errors > 0}
    /\ handle' = [i \in Ingesters |->
                    IF handle[i] = "open" /\ job[i].day = cday THEN "unlinked" ELSE handle[i]]
    /\ IF phase = "uncommitted"
       THEN dropped' = dropped \cup Unsent(cday) /\ UNCHANGED raced
       ELSE raced' = raced \cup Unsent(cday) /\ UNCHANGED dropped
    /\ \/ (Opened(cday) => ridx = 1) /\ UNCHANGED <<orphan, snap>>
       \/ /\ Opened(cday)
          /\ orphan' = SubSeq(pending[cday], ridx, Len(pending[cday]))
          /\ snap' = [snap EXCEPT ![cday] = 0]
    /\ UNCHANGED <<ingestVars, historyVars, worldVars, savedNext, savedFiles, savedCommit, spc,
                   commit, rday, ridx, batch, pos, lastOk, phase, ctodo, cday, ccommit, before,
                   cimg, stale, late>>

\* del ingest_state.files[filename].
DeleteEntry ==
    /\ cpc = "delete" /\ cpc' = "scan"
    /\ files' = [files EXCEPT ![cday] = 0]
    /\ raced' = raced \cup Unsent(cday)
    /\ UNCHANGED <<nextSeq, ipc, job, img, senderVars, diskVars, historyVars, worldVars, phase,
                   ctodo, cday, ccommit, removed, before, cimg, fileVars, stale, dropped, late>>

\* The next loop of _cleanup_size runs while data/ is over the limit.
NextPhase(list, p, q) ==
    /\ cpc = "scan" /\ phase = p /\ SizeLimited
    /\ p = "retention" => ctodo = {}
    /\ phase' = q
    /\ ctodo' = list
    /\ before' = accepted
    /\ UNCHANGED <<vars, cpc, cday, ccommit, removed, cimg, fileVars, lossVars>>

ListAll == NextPhase({d \in Days : Listed(d)}, "retention", "committed")   \* mutant: sent or not
ListCommitted ==
    NextPhase({d \in Days : Listed(d) /\ files[d] <= ccommit}, "retention", "committed")
ListUncommitted ==
    NextPhase({d \in Days : files[d] > ccommit}, "committed", "uncommitted")

\* An entry is added while the list is made: RuntimeError, nothing is saved.
AbortCleanup ==
    /\ cpc = "scan" /\ ctodo = {} /\ phase # "uncommitted" /\ SizeLimited
    /\ \E i \in Ingesters : ipc[i] = "entry" /\ ~ Listed(job[i].day)
    /\ Rest
    /\ UNCHANGED <<vars, fileVars, lossVars>>

\* Below the limit, or nothing left: the index is saved if a file was removed.
EndCleanup ==
    /\ cpc = "scan"
    /\ ctodo = {} \/ phase # "retention"
    /\ IF removed
       THEN /\ cpc' = "image"
            /\ UNCHANGED <<phase, ctodo, cday, ccommit, removed, before, cimg>>
       ELSE Rest
    /\ UNCHANGED <<vars, fileVars, lossVars>>

CleanerTakesImage ==
    /\ cpc = "image" /\ cpc' = "replace"
    /\ cimg' = [next |-> nextSeq, files |-> files]
    /\ UNCHANGED <<vars, phase, ctodo, cday, ccommit, removed, before, fileVars, lossVars>>

CleanerReplaces ==
    /\ cpc = "replace" /\ Rest
    /\ savedNext' = cimg.next /\ savedFiles' = cimg.files
    /\ stale' = (cimg # [next |-> nextSeq, files |-> files])
    /\ UNCHANGED <<ingestVars, senderVars, pending, torn, savedCommit, historyVars, worldVars,
                   fileVars, dropped, raced, late>>

\* OSError, or RuntimeError as the index changed while it was copied: the round is over.
CleanerFails ==
    /\ cpc \in {"unlink", "image", "replace"} /\ Failures < MaxFailures
    /\ errors' = errors + 1
    /\ Rest
    /\ UNCHANGED <<ingestVars, senderVars, diskVars, historyVars, day, up, crashes, outages,
                   fileVars, lossVars>>

Clean ==
    \/ StartCleanup
    \/ PickExpired
    \/ PickListed
    \/ UnlinkPending
    \/ DeleteEntry
    \/ ListCommitted
    \/ ListUncommitted
    \/ AbortCleanup
    \/ EndCleanup
    \/ CleanerTakesImage
    \/ CleanerReplaces
    \/ CleanerFails

-----------------------------------------------------------------------------
(* What the queue does beside a cleaner.                                   *)

\* ingest() opens the file, creating it, and only then writes its line.
OpenPending(i) ==
    /\ ipc[i] = "append" /\ handle[i] = "none"
    /\ handle' = [handle EXCEPT ![i] = "open"]
    /\ UNCHANGED <<vars, cleanVars, orphan, lossVars>>

AppendToOpen(i) ==
    /\ handle[i] = "open" /\ AppendLine(i)
    /\ handle' = [handle EXCEPT ![i] = "none"]
    /\ UNCHANGED <<cleanVars, orphan, lossVars>>

\* The sender may have the same file open.
OpenedUnlinked(d) == spc = "read" /\ rday = d /\ snap[d] = 0 /\ (ridx > 1 \/ orphan # <<>>)
AppendToUnlinked(i) ==
    /\ ipc[i] = "append" /\ handle[i] = "unlinked"
    /\ ipc' = [ipc EXCEPT ![i] = "entry"]
    /\ handle' = [handle EXCEPT ![i] = "none"]
    /\ raced' = raced \cup {job[i].trace}
    /\ \/ UNCHANGED orphan
       \/ OpenedUnlinked(job[i].day) /\ orphan' = Append(orphan, JobLine(i))
    /\ UNCHANGED <<nextSeq, files, job, img, senderVars, diskVars, historyVars, worldVars,
                   cleanVars, stale, dropped, late>>

\* Nothing of the line is seen in a file that is not open, or unlinked.
OpenedFails(i) ==
    /\ AppendFails(i)
    /\ handle[i] # "open" => UNCHANGED torn
    /\ handle' = [handle EXCEPT ![i] = "none"]
    /\ UNCHANGED <<cleanVars, orphan, lossVars>>

\* Who still ingests for a file that is old enough for the retention loop.
Overdue == {i \in Ingesters : ipc[i] # "idle" /\ job[i].day <= day - RetentionDays}
SeeWhoIsLate == late' = late \cup {job'[i].trace : i \in Overdue'}

IngestStep(i) ==
    /\ Allocate(i) \/ GiveBack(i) \/ UpdateEntry(i) \/ TakeImage(i) \/ SaveFails(i)
    /\ SeeWhoIsLate
    /\ UNCHANGED <<cleanVars, fileVars, stale, dropped, raced>>

ReplaceByIngest(i) ==
    /\ ReplaceIngestJson(i)
    /\ stale' = FALSE
    /\ UNCHANGED <<cleanVars, fileVars, dropped, raced, late>>

\* The sender reads an unlinked file to its end.
ReadOrphan ==
    /\ spc = "read" /\ orphan # <<>> /\ Len(batch) < BatchSize
    /\ batch' = Batched(Head(orphan))
    /\ orphan' = Tail(orphan)
    /\ UNCHANGED <<ingestVars, diskVars, historyVars, worldVars, spc, commit, snap, rday, ridx,
                   pos, lastOk, cleanVars, handle, lossVars>>

SendStep ==
    /\ Send
    /\ orphan # <<>> => spc = "read" /\ Len(batch) = BatchSize
    /\ orphan' = <<>>
    /\ UNCHANGED <<cleanVars, handle, lossVars>>

\* Half a line stays in a file only if that is open and still there.
HalfInOpen == torn' \subseteq torn \cup {job[i].day : i \in {j \in Ingesters : handle[j] = "open"}}

CleanedRestart ==
    /\ Restart /\ HalfInOpen
    /\ Rest
    /\ handle' = [i \in Ingesters |-> "none"] /\ orphan' = <<>>
    /\ stale' = FALSE
    /\ UNCHANGED <<dropped, raced, late>>

WorldStep ==
    /\ NewDay \/ LangfuseDown \/ LangfuseUp
    /\ SeeWhoIsLate
    /\ UNCHANGED <<cleanVars, fileVars, stale, dropped, raced>>

CleanedInit ==
    /\ Init
    /\ cpc = "idle" /\ phase = "retention" /\ ctodo = {} /\ cday = 1 /\ ccommit = 0
    /\ removed = FALSE /\ before = {} /\ cimg = [next |-> 1, files |-> Empty]
    /\ handle = [i \in Ingesters |-> "none"] /\ orphan = <<>>
    /\ stale = FALSE /\ dropped = {} /\ raced = {} /\ late = {}

CleanedNext ==
    \/ Clean
    \/ \E i \in Ingesters :
         \/ OpenPending(i)
         \/ AppendToOpen(i)
         \/ AppendToUnlinked(i)
         \/ OpenedFails(i)
         \/ IngestStep(i)
         \/ ReplaceByIngest(i)
    \/ ReadOrphan
    \/ SendStep
    \/ CleanedRestart
    \/ WorldStep

CleanedSpec == CleanedInit /\ [][CleanedNext]_cleanedVars

-----------------------------------------------------------------------------
(* Properties.                                                             *)

\* Until ingests overlap or something is exposed: an accepted trace the cleaner did not
\* drop or race with stays where the sender finds it; only the cleaner's older ingest.json
\* may hide it for a while (cleaner.py:100), and a death in that while exposes it.
KeptBesideCleaner ==
    disturbed \/ \A t \in accepted \ (Settled \cup dropped \cup raced) :
        \E d \in Days : \E l \in StoredOn(d) :
            l.trace = t /\ l.seq > commit /\ (stale \/ l.seq <= savedFiles[d])

\* The retention loop removes no trace that was not sent (cleaner.py:28), but for one that
\* is ingested while its file expires, or the cleaner had raced with before.
RetentionKeepsUnsent ==
    [][cpc = "unlink" /\ cpc' = "delete" /\ phase = "retention"
         => disturbed \/ Unsent(cday) \subseteq raced \cup late]_cleanedVars

\* Beyond what it drops on purpose the cleaner only takes traces that ingest() had not
\* accepted when the loop listed its files (cleaner.py:52).
RacesOnlyWithIngest == [][disturbed \/ (raced' \ raced) \cap before = {}]_cleanedVars
=============================================================================
