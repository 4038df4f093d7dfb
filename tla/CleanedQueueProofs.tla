-------------------------- MODULE CleanedQueueProofs --------------------------
(***************************************************************************)
(* What the queue keeps beside the cleaner, for every number of traces,    *)
(* ingesting threads, days, batch sizes and days of retention, until two   *)
(* ingests overlap or a death or an error leaves a file ahead of its index *)
(* (disturbed).  What is said of the cleaner is said of that time.         *)
(***************************************************************************)
EXTENDS CleanedQueue, LangstashSafety, WellFoundedInduction

-----------------------------------------------------------------------------
(* The inductive invariant.  A trace is excused from the promise when it   *)
(* is settled, or the cleaner dropped it or raced with its ingester.       *)

CleanedTypeOK ==
    /\ cpc \in {"idle", "scan", "unlink", "delete", "image", "replace"}
    /\ phase \in {"retention", "committed", "uncommitted"}
    /\ ctodo \subseteq Days /\ cday \in Days /\ ccommit \in Int
    /\ cimg \in [next : Int, files : [Days -> Int]]
    /\ handle \in [Ingesters -> {"none", "open", "unlinked"}] /\ orphan \in Seq(Line)
    /\ removed \in BOOLEAN /\ stale \in BOOLEAN
    /\ before \subseteq Traces /\ dropped \subseteq Traces /\ raced \subseteq Traces /\ late \subseteq Traces

Excused == Settled \cup dropped \cup raced
Covered(f, d, l) == l.seq <= f[d] \/ l.trace \in Excused

\* An ingester at work holds the newest number and the newest day, and is late once that has expired.
Newest ==
    \A i \in Ingesters :
        /\ handle[i] # "none" => ipc[i] = "append"
        /\ handle[i] = "unlinked" => pending[job[i].day] = <<>>
        /\ ipc[i] # "idle" =>
             /\ job[i].day <= day /\ (job[i].day <= day - RetentionDays => job[i].trace \in late)
             /\ \A e \in Days : job[i].day < e => pending[e] = <<>>
             /\ ipc[i] \in {"oversized", "append"} => job[i].seq = nextSeq - 1
Ordered == OrderedInFile /\ OrderedByDay /\ NothingBeyondToday
LinesInOrder == Ordered /\ BelowFrontier /\ Newest

\* An index names no day that was not written to; one that has a later file covers
\* the earlier ones.
Used(f) == \A e \in Days : f[e] > 0 => e <= day /\ \A i \in Ingesters : ipc[i] # "idle" => e <= job[i].day
CoversEarlier(f) == \A d, e \in Days : d < e /\ f[e] > 0 => \A l \in StoredOn(d) : Covered(f, d, l)
Index(f) == Used(f) /\ CoversEarlier(f)
IndexSet == {files, savedFiles, snap, cimg.files} \cup {img[i].files : i \in Ingesters}
Indexes == \A f \in IndexSet : Index(f)

JobLineOn(i, d, l) == job[i].day = d /\ l = JobLine(i)
Entered == \A d \in Days : \A l \in StoredOn(d) :
    Covered(files, d, l) \/ \E i \in Ingesters : ipc[i] = "entry" /\ JobLineOn(i, d, l)
Saved ==
    ~ stale => \A d \in Days : \A l \in StoredOn(d) : l.trace \in accepted => Covered(savedFiles, d, l)
Imaged ==
    \A i \in Ingesters :
        /\ Unsaved(i) => job[i].trace \in Excused \/ JobLine(i) \in StoredOn(job[i].day)
        /\ ipc[i] = "replace" => \A d \in Days : \A l \in StoredOn(d) : Covered(img[i].files, d, l)

CommitsInOrder == 0 <= savedCommit /\ savedCommit <= commit /\ commit < Frontier
Commits == CommitsInOrder /\ \A l \in Stored : l.seq <= commit => l.trace \in Excused

\* What the reader has passed is in the batch, or the batch takes nothing more.
Passed(l) == l.seq > commit => InBatch(l) \/ l.trace \in Excused
PassedFiles ==
    spc = "read" =>
        \A d \in Days : d < rday =>
            \A l \in StoredOn(d) : Passed(l) \/ \A e \in Days : d < e => snap[e] <= commit
PassedLines ==
    spc = "read" /\ rday \in Days /\ snap[rday] > commit =>
        /\ ridx <= Len(pending[rday]) + 1
        /\ \A k \in DOMAIN pending[rday] : k < ridx => Passed(pending[rday][k])

\* The sender reads a file that was unlinked.
ReadsUnlinked == rday \in Days /\ OpenedUnlinked(rday)
UnlinkedFile ==
    /\ orphan # <<>> => ReadsUnlinked
    /\ ReadsUnlinked =>
         /\ rday <= day /\ \A i \in Ingesters : ipc[i] # "idle" => rday <= job[i].day
         /\ \A d \in Days : d < rday => \A l \in StoredOn(d) : Passed(l)
    /\ \A k \in DOMAIN orphan :
         /\ orphan[k].seq < Frontier
         /\ \A l \in Stored : l.seq # orphan[k].seq
         /\ \A d \in Days : rday <= d => \A l \in StoredOn(d) : orphan[k].seq < l.seq

\* The batch holds what follows the commit id, but for traces that are excused.
BatchNumbers ==
    spc \in {"read", "post"} =>
        \A j \in DOMAIN batch :
            /\ commit < batch[j].seq /\ batch[j].seq < Frontier
            /\ \A l \in Stored : l.seq = batch[j].seq => l = batch[j]
NoGap ==
    spc \in {"read", "post"} =>
        \A j \in DOMAIN batch : \A l \in Stored :
            commit < l.seq /\ l.seq < batch[j].seq =>
                l.trace \in Excused \/ \E k \in DOMAIN batch : k < j /\ batch[k] = l
Posted ==
    spc = "post" =>
        /\ commit <= lastOk /\ lastOk < Frontier
        /\ \A l \in Stored : l.seq <= lastOk => l.trace \in Excused
        /\ \A k \in DOMAIN batch : k < pos => batch[k].trace \in Settled
Reader == PassedFiles /\ PassedLines /\ UnlinkedFile
Batcher == BatchNumbers /\ NoGap /\ Posted

AcceptedIsStored == \A t \in accepted \ Excused : \E l \in Stored : l.trace = t
NotDropped ==
    /\ dropped \subseteq submitted
    /\ \A l \in Stored : l.trace \notin dropped
    /\ \A i \in Ingesters : ipc[i] \in {"oversized", "append"} => job[i].trace \notin dropped
Traced == LineOfOneTrace /\ WorksOnSubmitted /\ AcceptedIsStored /\ NotDropped

CleanedInv == LinesInOrder /\ Indexes /\ Entered /\ Saved /\ Imaged /\ Commits /\ Reader /\ Batcher /\ Traced

\* Nobody else ingests, and the files are as the index says: what ends with a disturbance.
Calm == OneIngester /\ Undamaged

\* What a loop of the cleaner is about to remove: what was sent or raced with before, or
\* in the loop over the listed files what was not accepted when it listed them; what the
\* retention loop removes else is late.
GoneOrLater(d) == \A l \in StoredOn(d) : l.trace \in Settled \cup raced \/ l.trace \notin before
RoundInv ==
    /\ before \subseteq accepted
    /\ ccommit <= savedCommit
    /\ cpc = "unlink" /\ phase = "retention" =>
         /\ cday <= day - RetentionDays
         /\ \A l \in StoredOn(cday) : l.trace \in Settled \cup raced \cup late
    /\ phase = "committed" => \A d \in ctodo : GoneOrLater(d)
    /\ cpc = "unlink" /\ phase # "uncommitted" => GoneOrLater(cday)
    /\ cpc = "delete" => \A l \in StoredOn(cday) : l.trace \notin before

-----------------------------------------------------------------------------
(* Type correctness beside the cleaner, disturbed or not.                  *)

USE LangstashAssumption, CleanerAssumption

\* A nonempty set of days has a first one.
LEMMA FirstDay == ASSUME NEW S, S \subseteq Days, S # {} PROVE Min(S) \in S
<1> DEFINE Less == {p \in Nat \X Nat : p[1] < p[2]}
<1>1. IsWellFoundedOn(Less, Nat)
  BY NatLessThanWellFounded, Zenon DEF OpToRel
<1>2. S \subseteq Nat
  BY DEF Days
<1>3. PICK x \in S : \A y \in S : ~ (<<y, x>> \in Less)
  <2> HIDE DEF Less
  <2>1. QED
    BY <1>1, <1>2, WFMin, Zenon
<1>4. \A y \in S : x <= y
  <2> SUFFICES ASSUME NEW y \in S, ~ (x <= y) PROVE FALSE
    OBVIOUS
  <2>1. x \in Nat /\ y \in Nat /\ y < x
    BY <1>2
  <2>2. <<y, x>> \in Less
    BY <2>1
  <2>3. QED
    BY <1>3, <2>2
<1>5. QED
  BY <1>4 DEF Min

\* The types of what the cleaner keeps, as one fact.
LEMMA CleanerTypesKept ==
    CleanedTypeOK /\ UNCHANGED <<cleanVars, fileVars, lossVars>> => CleanedTypeOK'
  BY DEF CleanedTypeOK, cleanVars, fileVars, lossVars

\* The lines of the files, and what is left of one, are lines.
LEMMA UnsentAreTraces == TypeOK => \A d \in Days : Unsent(d) \subseteq Traces
<1> SUFFICES ASSUME TypeOK, NEW d \in Days, NEW l \in StoredOn(d) PROVE l.trace \in Traces
  BY DEF Unsent
<1>1. QED
  BY LineTypes DEF Line

LEMMA CleanTypesHold == TypeOK /\ CleanedTypeOK /\ Clean => TypeOK' /\ CleanedTypeOK'
<1> SUFFICES ASSUME TypeOK, CleanedTypeOK, Clean PROVE TypeOK' /\ CleanedTypeOK'
  OBVIOUS
<1> USE DEF CleanedTypeOK
<1>a. ASSUME UNCHANGED vars PROVE TypeOK'
  BY <1>a, TypesHold
<1>b. /\ savedCommit \in Int /\ accepted \subseteq Traces /\ nextSeq \in Int
      /\ files \in [Days -> Int] /\ 1 \in Days
  BY DEF TypeOK, DiskType, HistoryType, IngestType, Days
<1>c. ASSUME Rest, UNCHANGED <<fileVars, dropped, raced, late>>, stale' \in BOOLEAN PROVE CleanedTypeOK'
  <2>1. cimg' \in [next : Int, files : [Days -> Int]]
    BY <1>c DEF Rest, Empty
  <2>2. UNCHANGED <<handle, orphan, dropped, raced, late>> /\ stale' \in BOOLEAN
    BY <1>c DEF fileVars
  <2>3. /\ cpc' = "idle" /\ phase' = "retention" /\ ctodo' \subseteq Days /\ cday' \in Days
        /\ ccommit' \in Int /\ removed' \in BOOLEAN /\ before' \subseteq Traces
    <3>1. /\ cpc' = "idle" /\ phase' = "retention" /\ ctodo' = {} /\ cday' = 1
          /\ ccommit' = 0 /\ removed' = FALSE /\ before' = {}
      BY <1>c DEF Rest
    <3>2. removed' \in BOOLEAN
      BY <3>1
    <3>3. QED
      BY <1>b, <3>1, <3>2
  <2>4. QED
    BY <2>1, <2>2, <2>3
<1>d. ASSUME NEW list, list \subseteq Days, NEW p, NEW q \in {"committed", "uncommitted"},
             NextPhase(list, p, q)
      PROVE  CleanedTypeOK' /\ UNCHANGED vars
  BY <1>b, <1>d DEF NextPhase, fileVars, lossVars
<1>1. CASE StartCleanup
  <2>1. UNCHANGED vars /\ CleanedTypeOK'
    BY <1>1, <1>b DEF StartCleanup, fileVars, lossVars
  <2>2. QED
    BY <2>1, <1>a
<1>2. CASE PickExpired
  <2>1. UNCHANGED vars /\ CleanedTypeOK'
    BY <1>2, FirstDay DEF PickExpired, fileVars, lossVars
  <2>2. QED
    BY <2>1, <1>a
<1>3. CASE PickListed
  <2>1. UNCHANGED vars /\ CleanedTypeOK'
    BY <1>3, FirstDay DEF PickListed, fileVars, lossVars
  <2>2. QED
    BY <2>1, <1>a
<1>4. CASE UnlinkPending
  <2>1. UNCHANGED <<ingestVars, historyVars, worldVars, savedNext, savedFiles, savedCommit, spc,
                    commit, rday, ridx, batch, pos, lastOk, phase, ctodo, cday, ccommit, before,
                    cimg, stale, late>>
    BY <1>4 DEF UnlinkPending
  <2>2. DiskType'
    BY <1>4, <2>1 DEF UnlinkPending, TypeOK, DiskType
  <2>3. SenderType'
    <3>1. snap' \in [Days -> Int]
      BY <1>4 DEF UnlinkPending, TypeOK, SenderType
    <3>2. QED
      BY <2>1, <3>1 DEF TypeOK, SenderType
  <2>4. TypeOK'
    BY <2>1, <2>2, <2>3, TypesKept DEF TypeOK
  <2>5. orphan' \in Seq(Line)
    <3>1. CASE UNCHANGED orphan
      BY <3>1
    <3>2. CASE orphan' = SubSeq(pending[cday], ridx, Len(pending[cday]))
      <4>1. pending[cday] \in Seq(Line) /\ ridx \in Nat \ {0}
        BY DEF TypeOK, DiskType, SenderType
      <4>2. QED
        BY <3>2, <4>1
    <3>3. QED
      BY <1>4, <3>1, <3>2 DEF UnlinkPending
  <2>6. handle' \in [Ingesters -> {"none", "open", "unlinked"}]
    BY <1>4 DEF UnlinkPending
  <2>7. dropped' \subseteq Traces /\ raced' \subseteq Traces
    BY <1>4, UnsentAreTraces DEF UnlinkPending
  <2>8. removed' \in BOOLEAN /\ cpc' = "delete"
    <3>1. (removed \/ Exists(cday)) \in BOOLEAN /\ (removed \/ crashes + errors > 0) \in BOOLEAN
      OBVIOUS
    <3>2. QED BY <1>4, <3>1 DEF UnlinkPending
  <2>9. QED
    BY <2>1, <2>4, <2>5, <2>6, <2>7, <2>8
<1>5. CASE DeleteEntry
  <2>1. IngestType'
    BY <1>5 DEF DeleteEntry, TypeOK, IngestType
  <2>2. UNCHANGED <<senderVars, diskVars, historyVars, worldVars>>
    BY <1>5 DEF DeleteEntry
  <2>3. TypeOK'
    BY <2>1, <2>2, TypesKept DEF TypeOK
  <2>4. CleanedTypeOK'
    BY <1>5, UnsentAreTraces DEF DeleteEntry, fileVars
  <2>5. QED
    BY <2>3, <2>4
<1>6. CASE ListCommitted
  BY <1>6, <1>d, <1>a DEF ListCommitted
<1>7. CASE ListUncommitted
  BY <1>7, <1>d, <1>a DEF ListUncommitted
<1>8. CASE AbortCleanup
  BY <1>8, <1>c, <1>a DEF AbortCleanup, lossVars
<1>9. CASE EndCleanup
  <2>1. CASE removed
    BY <1>9, <2>1, <1>a DEF EndCleanup, fileVars, lossVars
  <2>2. CASE ~ removed
    BY <1>9, <2>2, <1>a, <1>c DEF EndCleanup, lossVars
  <2>3. QED
    BY <2>1, <2>2
<1>10. CASE CleanerTakesImage
  <2>1. UNCHANGED vars /\ CleanedTypeOK'
    BY <1>10, <1>b DEF CleanerTakesImage, fileVars, lossVars
  <2>2. QED
    BY <2>1, <1>a
<1>11. CASE CleanerReplaces
  <2>1. DiskType'
    BY <1>11 DEF CleanerReplaces, TypeOK, DiskType
  <2>2. UNCHANGED <<ingestVars, senderVars, historyVars, worldVars, fileVars, dropped, raced, late>>
        /\ Rest /\ stale' \in BOOLEAN
    BY <1>11 DEF CleanerReplaces
  <2>3. QED
    BY <2>1, <2>2, <1>c, TypesKept DEF TypeOK
<1>12. CASE CleanerFails
  <2>1. WorldType'
    BY <1>12 DEF CleanerFails, TypeOK, WorldType
  <2>2. UNCHANGED <<ingestVars, senderVars, diskVars, historyVars, fileVars, lossVars>> /\ Rest
    BY <1>12 DEF CleanerFails
  <2>3. TypeOK'
    BY <2>1, <2>2, TypesKept DEF TypeOK
  <2>4. QED
    BY <2>2, <2>3, <1>c DEF lossVars
<1>13. QED
  BY <1>1, <1>2, <1>3, <1>4, <1>5, <1>6, <1>7, <1>8, <1>9, <1>10, <1>11, <1>12 DEF Clean

\* Who is late is known from what they ingest.
LEMMA LateSeen ==
    ASSUME TypeOK', CleanedTypeOK, SeeWhoIsLate
    PROVE  /\ late \subseteq late' /\ late' \subseteq Traces
           /\ \A i \in Ingesters :
                ipc'[i] # "idle" /\ job'[i].day <= day' - RetentionDays => job'[i].trace \in late'
<1>1. late' = late \cup {job'[i].trace : i \in Overdue'}
  BY DEF SeeWhoIsLate
<1>2. \A i \in Ingesters :
        /\ i \in Overdue' <=> ipc'[i] # "idle" /\ job'[i].day <= day' - RetentionDays
        /\ i \in Overdue' => job'[i].trace \in Traces
  BY DEF Overdue, TypeOK, IngestType
<1>3. Overdue' \subseteq Ingesters
  BY DEF Overdue
<1>4. QED
  BY <1>1, <1>2, <1>3 DEF CleanedTypeOK

\* The types of what a step keeps that only sees who is late.
LEMMA LateTypesKept ==
    ASSUME TypeOK', CleanedTypeOK, SeeWhoIsLate, UNCHANGED <<cleanVars, fileVars, stale, dropped, raced>>
    PROVE  CleanedTypeOK'
  BY LateSeen DEF CleanedTypeOK, cleanVars, fileVars

LEMMA CleanedTypesHold ==
    TypeOK /\ CleanedTypeOK /\ [CleanedNext]_cleanedVars => TypeOK' /\ CleanedTypeOK'
<1> SUFFICES ASSUME TypeOK, CleanedTypeOK, [CleanedNext]_cleanedVars PROVE TypeOK' /\ CleanedTypeOK'
  OBVIOUS
<1>1. CASE Clean
  BY <1>1, CleanTypesHold
<1>2. ASSUME NEW i \in Ingesters, OpenPending(i) PROVE TypeOK' /\ CleanedTypeOK'
  <2>1. TypeOK'
    BY <1>2, TypesHold DEF OpenPending
  <2>2. CleanedTypeOK'
    BY <1>2 DEF OpenPending, CleanedTypeOK, cleanVars, lossVars
  <2>3. QED
    BY <2>1, <2>2
<1>3. ASSUME NEW i \in Ingesters, AppendToOpen(i) PROVE TypeOK' /\ CleanedTypeOK'
  <2>1. TypeOK'
    BY <1>3, TypesHold DEF AppendToOpen, Next, Ingest
  <2>2. CleanedTypeOK'
    BY <1>3 DEF AppendToOpen, CleanedTypeOK, cleanVars, lossVars
  <2>3. QED
    BY <2>1, <2>2
<1>4. ASSUME NEW i \in Ingesters, AppendToUnlinked(i) PROVE TypeOK' /\ CleanedTypeOK'
  <2>1. IngestType' /\ job[i].trace \in Traces /\ JobLine(i) \in Line
    BY <1>4 DEF AppendToUnlinked, TypeOK, IngestType, IngestPoints, JobLine, Line
  <2>2. TypeOK'
    BY <1>4, <2>1, TypesKept DEF AppendToUnlinked, TypeOK
  <2>3. orphan' \in Seq(Line)
    <3>1. orphan' = orphan \/ orphan' = Append(orphan, JobLine(i))
      BY <1>4 DEF AppendToUnlinked
    <3>2. orphan \in Seq(Line)
      BY DEF CleanedTypeOK
    <3>3. QED
      BY <2>1, <3>1, <3>2
  <2>4. CleanedTypeOK'
    BY <1>4, <2>1, <2>3 DEF AppendToUnlinked, CleanedTypeOK, cleanVars
  <2>5. QED
    BY <2>2, <2>4
<1>5. ASSUME NEW i \in Ingesters, IngestStep(i) PROVE TypeOK' /\ CleanedTypeOK'
  <2>1. TypeOK'
    BY <1>5, TypesHold DEF IngestStep, Next, Ingest
  <2>2. QED
    BY <1>5, <2>1, LateTypesKept DEF IngestStep
<1>6. ASSUME NEW i \in Ingesters, ReplaceByIngest(i) PROVE TypeOK' /\ CleanedTypeOK'
  <2>1. TypeOK'
    BY <1>6, TypesHold DEF ReplaceByIngest, Next, Ingest
  <2>2. CleanedTypeOK'
    BY <1>6 DEF ReplaceByIngest, CleanedTypeOK, cleanVars, fileVars
  <2>3. QED
    BY <2>1, <2>2
<1>7. CASE ReadOrphan
  <2>1. Head(orphan) \in Line /\ orphan' \in Seq(Line)
    BY <1>7 DEF ReadOrphan, CleanedTypeOK
  <2>2. batch' \in Seq(Line)
    BY <1>7, <2>1 DEF ReadOrphan, Batched, TypeOK, SenderType
  <2>3. SenderType'
    BY <1>7, <2>2 DEF ReadOrphan, TypeOK, SenderType
  <2>4. TypeOK'
    BY <1>7, <2>3, TypesKept DEF ReadOrphan, TypeOK
  <2>5. CleanedTypeOK'
    BY <1>7, <2>1 DEF ReadOrphan, CleanedTypeOK, cleanVars, lossVars
  <2>6. QED
    BY <2>4, <2>5
<1>8. CASE SendStep
  <2>1. TypeOK'
    BY <1>8, TypesHold DEF SendStep, Next
  <2>2. CleanedTypeOK'
    BY <1>8 DEF SendStep, CleanedTypeOK, cleanVars, lossVars
  <2>3. QED
    BY <2>1, <2>2
<1>9. CASE CleanedRestart
  <2>1. TypeOK'
    BY <1>9, TypesHold DEF CleanedRestart, Next
  <2>2. cimg' \in [next : Int, files : [Days -> Int]] /\ 1 \in Days
    BY <1>9 DEF CleanedRestart, Rest, Empty, Days
  <2>3. /\ handle' \in [Ingesters -> {"none", "open", "unlinked"}] /\ orphan' = <<>>
        /\ stale' = FALSE /\ UNCHANGED <<dropped, raced, late>>
    BY <1>9 DEF CleanedRestart
  <2>4. /\ cpc' = "idle" /\ phase' = "retention" /\ ctodo' \subseteq Days /\ cday' \in Days
        /\ ccommit' \in Int /\ removed' \in BOOLEAN /\ before' \subseteq Traces
    <3>1. /\ cpc' = "idle" /\ phase' = "retention" /\ ctodo' = {} /\ cday' = 1
          /\ ccommit' = 0 /\ removed' = FALSE /\ before' = {}
      BY <1>9 DEF CleanedRestart, Rest
    <3>2. removed' \in BOOLEAN
      BY <3>1
    <3>3. QED
      BY <2>2, <3>1, <3>2
  <2>5. /\ orphan' \in Seq(Line) /\ stale' \in BOOLEAN
        /\ dropped' \subseteq Traces /\ raced' \subseteq Traces /\ late' \subseteq Traces
    <3>1. dropped' \subseteq Traces /\ raced' \subseteq Traces /\ late' \subseteq Traces
      BY <2>3 DEF CleanedTypeOK
    <3>2. orphan' \in Seq(Line)
      BY <2>3
    <3>3. stale' \in BOOLEAN
      BY <2>3
    <3>4. QED
      BY <3>1, <3>2, <3>3
  <2>6. QED
    BY <2>1, <2>2, <2>3, <2>4, <2>5 DEF CleanedTypeOK
<1>10. CASE WorldStep
  <2>1. TypeOK'
    BY <1>10, TypesHold DEF WorldStep, Next
  <2>2. QED
    BY <1>10, <2>1, LateTypesKept DEF WorldStep
<1>11. CASE UNCHANGED cleanedVars
  BY <1>11, TypesHold, CleanerTypesKept DEF cleanedVars
<1>12. ASSUME NEW i \in Ingesters, OpenedFails(i) PROVE TypeOK' /\ CleanedTypeOK'
  <2>1. TypeOK'
    BY <1>12, TypesHold DEF OpenedFails, Next, Ingest
  <2>2. CleanedTypeOK'
    BY <1>12 DEF OpenedFails, CleanedTypeOK, cleanVars, lossVars
  <2>3. QED
    BY <2>1, <2>2
<1>13. QED
  BY <1>1, <1>2, <1>3, <1>4, <1>5, <1>6, <1>7, <1>8, <1>9, <1>10, <1>11, <1>12 DEF CleanedNext

\* What is disturbed stays so.
LEMMA DisturbedStays == [CleanedNext]_cleanedVars /\ ~ disturbed' => ~ disturbed
<1> SUFFICES ASSUME [CleanedNext]_cleanedVars PROVE (overlapped => overlapped') /\ (exposed => exposed')
  BY DEF disturbed
<1>1. ASSUME UNCHANGED <<overlapped, exposed>> PROVE (overlapped => overlapped') /\ (exposed => exposed')
  BY <1>1
<1>2. ASSUME NEW i \in Ingesters, AppendFails(i) PROVE (overlapped => overlapped') /\ (exposed => exposed')
  BY <1>2 DEF AppendFails
<1>3. ASSUME NEW i \in Ingesters, Allocate(i) PROVE (overlapped => overlapped') /\ (exposed => exposed')
  BY <1>3 DEF Allocate
<1>4. CASE Restart \/ ReadFails
  <2>1. UNCHANGED overlapped
    BY <1>4 DEF Restart, ReadFails
  <2>2. CASE Restart
    <3>1. PICK half : exposed' = (exposed \/ half # {} \/ ~ IndexIsSaved)
      BY <2>2 DEF Restart
    <3>2. QED
      BY <2>1, <3>1
  <2>3. CASE ReadFails
    BY <2>1, <2>3 DEF ReadFails
  <2>4. QED
    BY <1>4, <2>2, <2>3
<1>5. ASSUME NEW i \in Ingesters,
             GiveBack(i) \/ AppendLine(i) \/ UpdateEntry(i) \/ TakeImage(i) \/ ReplaceIngestJson(i) \/ SaveFails(i)
      PROVE  UNCHANGED <<overlapped, exposed>>
  BY <1>5 DEF GiveBack, AppendLine, UpdateEntry, TakeImage, ReplaceIngestJson, SaveFails, historyVars, riskVars
<1>6. CASE Send /\ ~ ReadFails
  BY <1>6 DEF Send, LoadIngestState, ReadLine, NextFile, EndRead, PostOk, PostBadRequest, Answered,
     PostHttpError, PostNetworkError, EndBatch, SaveSenderState, SenderSaveFails, historyVars, riskVars
<1>7. CASE NewDay \/ LangfuseDown \/ LangfuseUp
  BY <1>7 DEF NewDay, LangfuseDown, LangfuseUp, historyVars, riskVars
<1>8. CASE Clean
  BY <1>8 DEF Clean, StartCleanup, PickExpired, PickListed, UnlinkPending, DeleteEntry, ListCommitted,
     ListUncommitted, NextPhase, AbortCleanup, EndCleanup, CleanerTakesImage, CleanerReplaces,
     CleanerFails, vars, historyVars, riskVars
<1>9. CASE ReadOrphan \/ (\E i \in Ingesters : AppendToUnlinked(i) \/ OpenPending(i)) \/ UNCHANGED cleanedVars
  BY <1>9 DEF ReadOrphan, AppendToUnlinked, OpenPending, cleanedVars, vars, historyVars, riskVars
<1>10. QED
  BY <1>1, <1>2, <1>3, <1>4, <1>5, <1>6, <1>7, <1>8, <1>9
     DEF CleanedNext, AppendToOpen, OpenedFails, IngestStep, ReplaceByIngest, SendStep, CleanedRestart, WorldStep

\* Calm goes through every step that does not disturb.
LEMMA CalmKept ==
    ASSUME TypeOK, Calm, [CleanedNext]_cleanedVars, ~ disturbed'
    PROVE  Calm'
<1> USE DEF Calm
<1>1. ASSUME UNCHANGED <<ipc, historyVars>>, torn' \subseteq torn PROVE Calm'
  BY <1>1 DEF historyVars, riskVars, disturbed, Undamaged, OneIngester
<1>2. ASSUME NEW i \in Ingesters, Ingest(i) PROVE Calm'
  BY <1>2, Alone, StaysUndamaged DEF Next
<1>3. ASSUME Send \/ Restart \/ NewDay \/ LangfuseDown \/ LangfuseUp PROVE Calm'
  <2>1. Undamaged'
    BY <1>3, StaysUndamaged DEF Next
  <2>2. UNCHANGED ipc \/ \A i \in Ingesters : ipc'[i] = "idle"
    BY <1>3 DEF Send, LoadIngestState, ReadLine, NextFile, ReadFails, EndRead, PostOk, PostBadRequest,
       Answered, PostHttpError, PostNetworkError, EndBatch, SaveSenderState, SenderSaveFails, Restart,
       NewDay, LangfuseDown, LangfuseUp, ingestVars
  <2>3. QED
    BY <2>1, <2>2 DEF OneIngester
<1>4. CASE Clean
  <2>1. UNCHANGED <<ipc, historyVars>> /\ torn' \subseteq torn
    BY <1>4 DEF Clean, StartCleanup, PickExpired, PickListed, UnlinkPending, DeleteEntry, ListCommitted,
       ListUncommitted, NextPhase, AbortCleanup, EndCleanup, CleanerTakesImage, CleanerReplaces,
       CleanerFails, vars, ingestVars, diskVars
  <2>2. QED
    BY <1>1, <2>1
<1>5. ASSUME NEW i \in Ingesters, AppendToUnlinked(i) PROVE Calm'
  <2>1. UNCHANGED historyVars /\ torn' = torn /\ ipc[i] # "idle" /\ \A j \in Ingesters : j # i => ipc'[j] = ipc[j]
    BY <1>5 DEF AppendToUnlinked, diskVars, TypeOK, IngestType
  <2>2. Undamaged'
    BY <2>1 DEF historyVars, riskVars, disturbed, Undamaged
  <2>3. QED
    BY <2>1, <2>2 DEF OneIngester
<1>6. CASE (\E i \in Ingesters : OpenPending(i)) \/ ReadOrphan \/ UNCHANGED cleanedVars
  <2>1. UNCHANGED <<ipc, historyVars, torn>>
    BY <1>6 DEF OpenPending, ReadOrphan, cleanedVars, vars, ingestVars, diskVars
  <2>2. QED
    BY <1>1, <2>1
<1>7. QED
  BY <1>2, <1>3, <1>4, <1>5, <1>6 DEF CleanedNext, AppendToOpen, OpenedFails, IngestStep, ReplaceByIngest,
     Ingest, SendStep, CleanedRestart, WorldStep

-----------------------------------------------------------------------------
(* What a step keeps that adds no line and takes none from the promise.    *)

\* Files shrink, and what goes was excused or is excused now.
Shrinks ==
    /\ \A d \in Days : pending'[d] = pending[d] \/ pending'[d] = <<>>
    /\ \A d \in Days : \A l \in StoredOn(d) : l \in StoredOn(d)' \/ l.trace \in Excused'
    /\ Excused \subseteq Excused' /\ Settled \subseteq Settled'

\* Ingesters start today, or stay with the day they started on.
JobsGoOn ==
    /\ day <= day'
    /\ \A i \in Ingesters : ipc'[i] # "idle" =>
         job'[i].day = day \/ (ipc[i] # "idle" /\ job'[i].day = job[i].day)

LEMMA StoreShrinks ==
    ASSUME Shrinks
    PROVE  /\ \A d \in Days : StoredOn(d)' \subseteq StoredOn(d)
           /\ Stored' \subseteq Stored
<1>1. ASSUME NEW d \in Days PROVE StoredOn(d)' \subseteq StoredOn(d)
  <2>1. pending'[d] = pending[d] \/ pending'[d] = <<>>
    BY DEF Shrinks
  <2>2. QED
    BY <2>1 DEF StoredOn
<1>2. QED
  BY <1>1 DEF Stored

\* The types of what numbers and days are compared with.
LEMMA NumberTypes ==
    ASSUME TypeOK
    PROVE  /\ nextSeq \in Int /\ Frontier \in Int /\ day \in Int /\ commit \in Int /\ rday \in Int
           /\ \A i \in Ingesters : job[i].day \in Days /\ job[i].seq \in Int
           /\ \A f \in IndexSet : CleanedTypeOK => f \in [Days -> Int]
           /\ \A d \in Days : d \in Int /\ pending[d] \in Seq(Line)
           /\ \A d \in Days : \A l \in StoredOn(d) : l \in Line /\ l.seq \in Int
           /\ \A l \in Stored : l \in Line /\ l.seq \in Int
           /\ \A j \in DOMAIN batch : batch[j] \in Line /\ batch[j].seq \in Int
           /\ CleanedTypeOK => \A k \in DOMAIN orphan : orphan[k] \in Line /\ orphan[k].seq \in Int
<1>1. \A f \in IndexSet : CleanedTypeOK => f \in [Days -> Int]
  <2> SUFFICES ASSUME NEW f \in IndexSet, CleanedTypeOK PROVE f \in [Days -> Int]
    OBVIOUS
  <2>1. CASE f \in {files, savedFiles, snap, cimg.files}
    BY <2>1 DEF TypeOK, IngestType, DiskType, SenderType, CleanedTypeOK
  <2>2. CASE f \in {img[i].files : i \in Ingesters}
    BY <2>2 DEF TypeOK, IngestType
  <2>3. QED
    BY <2>1, <2>2 DEF IndexSet
<1>2. \A d \in Days : \A l \in StoredOn(d) : l \in Line /\ l.seq \in Int
  BY LineTypes
<1>3. \A l \in Stored : l \in Line /\ l.seq \in Int
  BY <1>2 DEF Stored
<1>4. \A j \in DOMAIN batch : batch[j] \in Line /\ batch[j].seq \in Int
  <2>1. \A l \in Line : l.seq \in Int
    BY DEF Line
  <2>2. batch \in Seq(Line)
    BY DEF TypeOK, SenderType
  <2>3. QED
    BY <2>1, <2>2
<1>5. ASSUME CleanedTypeOK PROVE \A k \in DOMAIN orphan : orphan[k] \in Line /\ orphan[k].seq \in Int
  <2>1. \A l \in Line : l.seq \in Int
    BY DEF Line
  <2>2. orphan \in Seq(Line)
    BY <1>5 DEF CleanedTypeOK
  <2>3. QED
    BY <2>1, <2>2
<1>6. nextSeq \in Int /\ Frontier \in Int /\ day \in Int /\ commit \in Int /\ rday \in Int
  BY DEF TypeOK, IngestType, WorldType, SenderType, Frontier, Days
<1>7. \A i \in Ingesters : job[i].day \in Days /\ job[i].seq \in Int
  BY DEF TypeOK, IngestType
<1>8. \A d \in Days : d \in Int /\ pending[d] \in Seq(Line)
  BY DEF TypeOK, DiskType, Days
<1>9. QED
  BY <1>1, <1>2, <1>3, <1>4, <1>5, <1>6, <1>7, <1>8

LEMMA FrontierTypes == TypeOK /\ TypeOK' => Frontier \in Int /\ Frontier' \in Int
  BY DEF TypeOK, IngestType, Frontier

LEMMA OrderKept == ASSUME Shrinks, UNCHANGED day, Ordered PROVE Ordered'
<1> USE StoreShrinks
<1>1. OrderedInFile'
  <2> SUFFICES ASSUME NEW d \in Days, NEW j \in DOMAIN pending'[d], NEW k \in DOMAIN pending'[d], j < k
               PROVE  pending'[d][j].seq < pending'[d][k].seq
    BY DEF OrderedInFile
  <2>1. pending'[d] = pending[d]
    BY DEF Shrinks
  <2>2. QED
    BY <2>1 DEF Ordered, OrderedInFile
<1>2. OrderedByDay'
  BY DEF Ordered, OrderedByDay
<1>3. NothingBeyondToday'
  BY DEF Ordered, NothingBeyondToday, Shrinks
<1>4. QED
  BY <1>1, <1>2, <1>3 DEF Ordered

LEMMA IndexKept ==
    ASSUME TypeOK, TypeOK', Shrinks, JobsGoOn, NEW f \in [Days -> Int], Index(f)
    PROVE  Index(f)'
<1>1. Used(f)'
  <2> SUFFICES ASSUME NEW e \in Days, f[e] > 0
               PROVE  /\ e <= day'
                      /\ \A i \in Ingesters : ipc'[i] # "idle" => e <= job'[i].day
    BY DEF Used
  <2>1. e <= day /\ \A i \in Ingesters : ipc[i] # "idle" => e <= job[i].day
    BY DEF Index, Used
  <2>2. day \in Int /\ day' \in Int /\ e \in Int
    BY NumberTypes DEF TypeOK, WorldType, Days
  <2>3. QED
    BY <2>1, <2>2 DEF JobsGoOn
<1>2. CoversEarlier(f)'
  BY StoreShrinks DEF Index, CoversEarlier, Covered, Shrinks
<1>3. QED
  BY <1>1, <1>2 DEF Index

LEMMA FrontierKept ==
    ASSUME TypeOK, TypeOK', Shrinks, Frontier <= Frontier'
    PROVE  /\ BelowFrontier => BelowFrontier'
           /\ Commits /\ UNCHANGED <<commit, savedCommit>> => Commits'
<1> USE StoreShrinks
<1>1. Frontier \in Int /\ Frontier' \in Int /\ commit \in Int
  BY NumberTypes, FrontierTypes
<1>2. BelowFrontier => BelowFrontier'
  BY <1>1, NumberTypes DEF BelowFrontier
<1>3. Commits /\ UNCHANGED <<commit, savedCommit>> => Commits'
  BY <1>1 DEF Commits, CommitsInOrder, Shrinks
<1>4. QED
  BY <1>2, <1>3

LEMMA BatchKept ==
    ASSUME TypeOK, TypeOK', Shrinks, Frontier <= Frontier', UNCHANGED <<spc, batch, commit, pos, lastOk>>
    PROVE  Batcher => Batcher'
<1> SUFFICES ASSUME Batcher PROVE Batcher'
  OBVIOUS
<1> USE StoreShrinks
<1>1. Frontier \in Int /\ Frontier' \in Int /\ commit \in Int /\ lastOk \in Int /\ batch \in Seq(Line)
      /\ \A j \in DOMAIN batch : batch[j].seq \in Int
  BY NumberTypes, FrontierTypes, SenderTypes
<1>2. BatchNumbers'
  BY <1>1 DEF Batcher, BatchNumbers
<1>3. NoGap'
  BY DEF Batcher, NoGap, Shrinks
<1>4. Posted'
  BY <1>1 DEF Batcher, Posted, Shrinks
<1>5. QED
  BY <1>2, <1>3, <1>4 DEF Batcher

LEMMA PassedKept ==
    ASSUME Shrinks, UNCHANGED <<commit, batch>>, NEW l, Passed(l)
    PROVE  Passed(l)'
  BY DEF Shrinks, Passed, InBatch

LEMMA ReaderKept ==
    ASSUME TypeOK, TypeOK', CleanedTypeOK, Shrinks, Frontier <= Frontier', JobsGoOn,
           UNCHANGED <<spc, commit, snap, rday, ridx, batch>>
    PROVE  /\ PassedFiles => PassedFiles'
           /\ PassedLines /\ UNCHANGED pending => PassedLines'
           /\ UnlinkedFile /\ UNCHANGED orphan => UnlinkedFile'
<1> USE StoreShrinks, PassedKept
<1>1. PassedFiles => PassedFiles'
  BY DEF PassedFiles
<1>2. PassedLines /\ UNCHANGED pending => PassedLines'
  BY DEF PassedLines
<1>3. ASSUME UnlinkedFile, UNCHANGED orphan PROVE UnlinkedFile'
  <2>1. ReadsUnlinked' = ReadsUnlinked
    BY <1>3 DEF ReadsUnlinked, OpenedUnlinked
  <2>2. ASSUME ReadsUnlinked
        PROVE  /\ rday' <= day' /\ \A i \in Ingesters : ipc'[i] # "idle" => rday' <= job'[i].day
               /\ \A d \in Days : d < rday' => \A l \in StoredOn(d)' : Passed(l)'
    <3>1. rday <= day /\ \A i \in Ingesters : ipc[i] # "idle" => rday <= job[i].day
      BY <1>3, <2>2 DEF UnlinkedFile
    <3>2. rday \in Int /\ day \in Int /\ day' \in Int
      BY NumberTypes DEF TypeOK, WorldType, Days
    <3>3. rday' <= day' /\ \A i \in Ingesters : ipc'[i] # "idle" => rday' <= job'[i].day
      BY <3>1, <3>2 DEF JobsGoOn
    <3>4. \A d \in Days : d < rday' => \A l \in StoredOn(d)' : Passed(l)'
      BY <1>3, <2>2 DEF UnlinkedFile
    <3>5. QED
      BY <3>3, <3>4
  <2>3. ASSUME NEW k \in DOMAIN orphan
        PROVE  /\ orphan[k].seq < Frontier'
               /\ \A l \in Stored' : l.seq # orphan[k].seq
               /\ \A d \in Days : rday' <= d => \A l \in StoredOn(d)' : orphan[k].seq < l.seq
    <3>1. /\ orphan[k].seq < Frontier
          /\ \A l \in Stored : l.seq # orphan[k].seq
          /\ \A d \in Days : rday <= d => \A l \in StoredOn(d) : orphan[k].seq < l.seq
      BY <1>3 DEF UnlinkedFile
    <3>2. Frontier \in Int /\ Frontier' \in Int /\ orphan[k].seq \in Int
      BY NumberTypes, FrontierTypes
    <3>3. QED
      BY <3>1, <3>2
  <2>4. QED
    BY <1>3, <2>1, <2>2, <2>3 DEF UnlinkedFile
<1>4. QED
  BY <1>1, <1>2, <1>3

LEMMA StoredOrExcused == ASSUME Shrinks PROVE \A l \in Stored : l \in Stored' \/ l.trace \in Excused'
<1> SUFFICES ASSUME NEW d \in Days, NEW l \in StoredOn(d) PROVE l \in Stored' \/ l.trace \in Excused'
  BY DEF Stored
<1>1. l \in StoredOn(d)' \/ l.trace \in Excused'
  BY DEF Shrinks
<1>2. QED
  BY <1>1 DEF Stored

LEMMA AcceptedKept == ASSUME Shrinks, AcceptedIsStored, UNCHANGED accepted PROVE AcceptedIsStored'
<1> SUFFICES ASSUME NEW t \in accepted, t \notin Excused' PROVE \E l \in Stored' : l.trace = t
  BY DEF AcceptedIsStored
<1>1. PICK l \in Stored : l.trace = t
  BY DEF AcceptedIsStored, Shrinks
<1>2. QED
  BY <1>1, StoredOrExcused

LEMMA JobsKept ==
    ASSUME TypeOK, Shrinks, UNCHANGED <<ipc, job>>
    PROVE  /\ Newest /\ UNCHANGED <<handle, nextSeq, day, late>> => Newest'
           /\ Entered /\ UNCHANGED files => Entered'
           /\ Saved /\ UNCHANGED <<stale, savedFiles, accepted>> => Saved'
           /\ Imaged /\ UNCHANGED img => Imaged'
           /\ LineOfOneTrace /\ UNCHANGED submitted => LineOfOneTrace'
           /\ WorksOnSubmitted /\ UNCHANGED <<accepted, submitted>> => WorksOnSubmitted'
           /\ NotDropped /\ UNCHANGED <<dropped, submitted>> => NotDropped'
<1> USE StoreShrinks
<1>j. \A i \in Ingesters : job[i].day \in Days
  BY DEF TypeOK, IngestType
<1>1. ASSUME Newest, UNCHANGED <<handle, nextSeq, day, late>> PROVE Newest'
  <2>1. \A e \in Days : pending[e] = <<>> => pending'[e] = <<>>
    BY DEF Shrinks
  <2>2. QED
    BY <1>1, <1>j, <2>1 DEF Newest
<1>2. Entered /\ UNCHANGED files => Entered'
  BY DEF Entered, Covered, JobLineOn, JobLine, Shrinks
<1>3. Saved /\ UNCHANGED <<stale, savedFiles, accepted>> => Saved'
  BY DEF Saved, Covered, Shrinks
<1>4. ASSUME Imaged, UNCHANGED img PROVE Imaged'
  <2> SUFFICES ASSUME NEW i \in Ingesters
               PROVE  /\ Unsaved(i) => job[i].trace \in Excused' \/ JobLine(i) \in StoredOn(job[i].day)'
                      /\ ipc[i] = "replace" =>
                           \A d \in Days : \A l \in StoredOn(d)' : Covered(img[i].files, d, l)'
    BY <1>4 DEF Imaged, Unsaved, JobLine, Covered, StoredOn
  <2>1. ASSUME Unsaved(i) PROVE job[i].trace \in Excused' \/ JobLine(i) \in StoredOn(job[i].day)'
    <3>1. CASE job[i].trace \in Excused
      BY <3>1 DEF Shrinks
    <3>2. CASE JobLine(i) \in StoredOn(job[i].day)
      <4>1. JobLine(i) \in StoredOn(job[i].day)' \/ JobLine(i).trace \in Excused'
        <5>1. ASSUME NEW d \in Days, d = job[i].day
              PROVE  JobLine(i) \in StoredOn(d)' \/ JobLine(i).trace \in Excused'
          BY <3>2, <5>1 DEF Shrinks
        <5>2. QED
          BY <5>1, <1>j DEF StoredOn
      <4>2. QED
        BY <4>1 DEF JobLine
    <3>3. QED
      BY <1>4, <2>1, <3>1, <3>2 DEF Imaged
  <2>2. ipc[i] = "replace" => \A d \in Days : \A l \in StoredOn(d)' : Covered(img[i].files, d, l)'
    BY <1>4 DEF Imaged, Covered, Shrinks
  <2>3. QED
    BY <2>1, <2>2
<1>5. LineOfOneTrace /\ UNCHANGED submitted => LineOfOneTrace'
  BY DEF LineOfOneTrace
<1>6. WorksOnSubmitted /\ UNCHANGED <<accepted, submitted>> => WorksOnSubmitted'
  BY DEF WorksOnSubmitted
<1>7. NotDropped /\ UNCHANGED <<dropped, submitted>> => NotDropped'
  BY DEF NotDropped
<1>8. QED
  BY <1>1, <1>2, <1>3, <1>4, <1>5, <1>6, <1>7

\* Nothing happens to the files, and what is excused stays so.
LEMMA NothingGone ==
    UNCHANGED pending /\ Excused \subseteq Excused' /\ Settled \subseteq Settled' => Shrinks
  BY StoreKept DEF Shrinks

LEMMA SameExcuses ==
    UNCHANGED <<delivered, skipped, dropped, raced>> => Excused' = Excused /\ Settled' = Settled
  BY DEF Excused, Settled

LEMMA JobsStay == TypeOK /\ UNCHANGED <<day, ipc, job>> => JobsGoOn
  BY DEF JobsGoOn, TypeOK, WorldType, Days

LEMMA SameFrontier ==
    UNCHANGED <<ipc, nextSeq>> => Frontier' = Frontier
  BY DEF Frontier, Reserved

-----------------------------------------------------------------------------
(* CleanedInv through the steps of the cleaner.                            *)

LEMMA IndexesKept ==
    ASSUME TypeOK, TypeOK', CleanedTypeOK, Indexes, Shrinks, JobsGoOn,
           \A f \in IndexSet' : f \in IndexSet \/ f = Empty
    PROVE  Indexes'
<1> SUFFICES ASSUME NEW f \in IndexSet' PROVE Index(f)'
  BY DEF Indexes
<1>1. CASE f \in IndexSet
  <2>1. Index(f) /\ f \in [Days -> Int]
    BY <1>1, NumberTypes DEF Indexes
  <2>2. QED
    BY <2>1, IndexKept
<1>2. CASE f = Empty
  <2>1. \A e \in Days : ~ (f[e] > 0)
    BY <1>2 DEF Empty
  <2>2. QED
    BY <2>1 DEF Index, Used, CoversEarlier
<1>3. QED
  BY <1>1, <1>2

\* An index whose entry of one day is taken out, when nothing there has to be covered.
LEMMA ZeroedIndex ==
    ASSUME NEW f \in [Days -> Int], NEW c \in Days, Index(f)', \A l \in StoredOn(c)' : l.trace \in Excused'
    PROVE  Index([f EXCEPT ![c] = 0])'
<1> DEFINE g == [f EXCEPT ![c] = 0]
<1>1. \A e \in Days : g[e] = IF e = c THEN 0 ELSE f[e]
  OBVIOUS
<1> HIDE DEF g
<1>2. \A e \in Days : g[e] > 0 => f[e] > 0
  BY <1>1
<1>3. Used(g)'
  BY <1>2 DEF Index, Used
<1>4. CoversEarlier(g)'
  <2> SUFFICES ASSUME NEW d \in Days, NEW e \in Days, d < e, g[e] > 0, NEW l \in StoredOn(d)'
               PROVE  Covered(g, d, l)'
    BY DEF CoversEarlier
  <2>1. CASE d = c
    BY <2>1 DEF Covered
  <2>2. CASE d # c
    <3>1. Covered(f, d, l)'
      BY <1>2 DEF Index, CoversEarlier
    <3>2. QED
      BY <1>1, <2>2, <3>1 DEF Covered
  <2>3. QED
    BY <2>1, <2>2
<1>5. Index(g)'
  BY <1>3, <1>4 DEF Index
<1>6. QED
  BY <1>5 DEF g

\* A step that changes nothing of the queue but what the cleaner remembers of an index.
LEMMA QuietKeeps ==
    ASSUME TypeOK, TypeOK', CleanedTypeOK, CleanedInv,
           UNCHANGED <<ingestVars, senderVars, diskVars, historyVars, day, fileVars, lossVars>>,
           cimg'.files \in {cimg.files, files, Empty}
    PROVE  CleanedInv'
<1>2. /\ UNCHANGED <<nextSeq, files, ipc, job, img, spc, commit, snap, rday, ridx, batch, pos, lastOk>>
      /\ UNCHANGED <<pending, savedNext, savedFiles, savedCommit, submitted, accepted>>
      /\ UNCHANGED <<delivered, skipped, day, handle, orphan, stale, dropped, raced, late>>
  BY DEF ingestVars, senderVars, readVars, diskVars, historyVars, fileVars, lossVars
<1>3. Shrinks /\ JobsGoOn /\ Frontier' = Frontier
  BY <1>2, SameExcuses, NothingGone, JobsStay, SameFrontier
<1>4. Frontier <= Frontier'
  BY <1>3, FrontierTypes
<1>5. Indexes'
  BY <1>2, <1>3, IndexesKept DEF IndexSet, CleanedInv
<1>6. Ordered' /\ BelowFrontier' /\ Commits'
  BY <1>2, <1>3, <1>4, OrderKept, FrontierKept DEF CleanedInv, LinesInOrder
<1>7. Newest' /\ Entered' /\ Saved' /\ Imaged'
  BY <1>2, <1>3, JobsKept DEF CleanedInv, LinesInOrder
<1>8. Traced'
  BY <1>2, <1>3, JobsKept, AcceptedKept DEF CleanedInv, Traced
<1>9. Reader' /\ Batcher'
  BY <1>2, <1>3, <1>4, ReaderKept, BatchKept DEF CleanedInv, Reader
<1>10. QED
  BY <1>5, <1>6, <1>7, <1>8, <1>9 DEF CleanedInv, LinesInOrder

LEMMA DeleteKeeps ==
    ASSUME TypeOK, TypeOK', CleanedTypeOK, CleanedInv, DeleteEntry
    PROVE  CleanedInv'
<1>1. /\ UNCHANGED <<nextSeq, ipc, job, img, spc, commit, snap, rday, ridx, batch, pos, lastOk>>
      /\ UNCHANGED <<pending, savedNext, savedFiles, savedCommit, submitted, accepted>>
      /\ UNCHANGED <<delivered, skipped, day, handle, orphan, stale, dropped, cimg, late>>
      /\ files' = [files EXCEPT ![cday] = 0] /\ raced' = raced \cup Unsent(cday)
  BY DEF DeleteEntry, senderVars, readVars, diskVars, historyVars, worldVars, fileVars
<1>2. cday \in Days /\ files \in [Days -> Int]
  BY DEF CleanedTypeOK, TypeOK, IngestType
<1>3. \A l \in StoredOn(cday) : l.trace \in Excused'
  BY <1>1 DEF Excused, Settled, Unsent
<1>4. Shrinks /\ JobsGoOn /\ Frontier' = Frontier
  <2>1. Settled' = Settled /\ Excused \subseteq Excused'
    BY <1>1 DEF Excused, Settled
  <2>2. QED
    BY <1>1, <2>1, NothingGone, JobsStay, SameFrontier
<1>5. Frontier <= Frontier'
  BY <1>4, FrontierTypes
<1>6. Indexes'
  <2> SUFFICES ASSUME NEW f \in IndexSet' PROVE Index(f)'
    BY DEF Indexes
  <2>1. CASE f \in IndexSet
    BY <1>4, <2>1, NumberTypes, IndexKept DEF CleanedInv, Indexes
  <2>2. CASE f \notin IndexSet
    <3>1. f = files'
      BY <1>1, <2>2 DEF IndexSet
    <3>2. PICK g, c : g = files /\ c = cday
      OBVIOUS
    <3>3. Index(g)'
      BY <1>2, <1>4, <3>2, IndexKept DEF CleanedInv, Indexes, IndexSet
    <3>4. \A l \in StoredOn(c)' : l.trace \in Excused'
      BY <1>1, <1>3, <3>2 DEF StoredOn
    <3>5. Index([g EXCEPT ![c] = 0])'
      BY <1>2, <3>2, <3>3, <3>4, ZeroedIndex
    <3>6. f = [g EXCEPT ![c] = 0]
      BY <1>1, <3>1, <3>2
    <3>7. QED
      BY <3>5, <3>6
  <2>3. QED
    BY <2>1, <2>2
<1>7. Entered'
  <2> SUFFICES ASSUME NEW d \in Days, NEW l \in StoredOn(d)
               PROVE  Covered(files, d, l)' \/ \E i \in Ingesters : ipc'[i] = "entry" /\ JobLineOn(i, d, l)'
    BY <1>1, StoreKept DEF Entered, Covered
  <2>1. CASE d = cday
    BY <1>3, <2>1 DEF Covered
  <2>2. CASE d # cday
    <3>1. files'[d] = files[d]
      BY <1>1, <1>2, <2>2
    <3>2. Covered(files, d, l) \/ \E i \in Ingesters : ipc[i] = "entry" /\ JobLineOn(i, d, l)
      BY DEF CleanedInv, Entered
    <3>3. QED
      BY <1>1, <1>4, <3>1, <3>2 DEF Covered, JobLineOn, JobLine, Shrinks
  <2>3. QED
    BY <2>1, <2>2
<1>8. Ordered' /\ BelowFrontier' /\ Commits'
  BY <1>1, <1>4, <1>5, OrderKept, FrontierKept DEF CleanedInv, LinesInOrder
<1>9. Newest' /\ Saved' /\ Imaged'
  BY <1>1, <1>4, JobsKept DEF CleanedInv, LinesInOrder
<1>10. Traced'
  BY <1>1, <1>4, JobsKept, AcceptedKept DEF CleanedInv, Traced
<1>11. Reader' /\ Batcher'
  BY <1>1, <1>4, <1>5, ReaderKept, BatchKept DEF CleanedInv, Reader
<1>12. QED
  BY <1>6, <1>7, <1>8, <1>9, <1>10, <1>11 DEF CleanedInv, LinesInOrder

LEMMA PutBackKeeps ==
    ASSUME TypeOK, TypeOK', CleanedTypeOK, CleanedInv, CleanerReplaces
    PROVE  CleanedInv'
<1>1. /\ UNCHANGED <<nextSeq, files, ipc, job, img, spc, commit, snap, rday, ridx, batch, pos, lastOk>>
      /\ UNCHANGED <<pending, savedCommit, submitted, accepted>>
      /\ UNCHANGED <<delivered, skipped, day, handle, orphan, dropped, raced, late>>
      /\ savedNext' = cimg.next /\ savedFiles' = cimg.files /\ cimg'.files = Empty
      /\ stale' = (cimg # [next |-> nextSeq, files |-> files])
  BY DEF CleanerReplaces, Rest, ingestVars, senderVars, readVars, historyVars, worldVars, fileVars
<1>2. Shrinks /\ JobsGoOn /\ Frontier' = Frontier
  BY <1>1, SameExcuses, NothingGone, JobsStay, SameFrontier
<1>3. Frontier <= Frontier'
  BY <1>2, FrontierTypes
<1>4. Indexes'
  BY <1>1, <1>2, IndexesKept DEF IndexSet, CleanedInv
<1>5. Saved'
  <2> SUFFICES ASSUME ~ stale', NEW d \in Days, NEW l \in StoredOn(d)
               PROVE  l.trace \in accepted => Covered(savedFiles, d, l)'
    BY <1>1, StoreKept DEF Saved, Covered
  <2>1. savedFiles' = files
    <3>1. cimg = [next |-> nextSeq, files |-> files]
      BY <1>1, Zenon
    <3>2. QED
      BY <1>1, <3>1
  <2>2. Covered(files, d, l) \/ \E i \in Ingesters : ipc[i] = "entry" /\ JobLineOn(i, d, l)
    BY DEF CleanedInv, Entered
  <2>3. \A i \in Ingesters : ipc[i] = "entry" /\ JobLineOn(i, d, l) => l.trace \notin accepted
    BY DEF CleanedInv, Traced, WorksOnSubmitted, JobLineOn, JobLine
  <2>4. QED
    BY <1>2, <2>1, <2>2, <2>3 DEF Covered, Shrinks
<1>6. Ordered' /\ BelowFrontier' /\ Commits'
  BY <1>1, <1>2, <1>3, OrderKept, FrontierKept DEF CleanedInv, LinesInOrder
<1>7. Newest' /\ Entered' /\ Imaged'
  BY <1>1, <1>2, JobsKept DEF CleanedInv, LinesInOrder
<1>8. Traced'
  BY <1>1, <1>2, JobsKept, AcceptedKept DEF CleanedInv, Traced
<1>9. Reader' /\ Batcher'
  BY <1>1, <1>2, <1>3, ReaderKept, BatchKept DEF CleanedInv, Reader
<1>10. QED
  BY <1>4, <1>5, <1>6, <1>7, <1>8, <1>9 DEF CleanedInv, LinesInOrder

\* What unlinking a file does: its lines are gone, and their traces settled or excused.
LEMMA UnlinkShrinks ==
    ASSUME TypeOK, CleanedTypeOK, UnlinkPending
    PROVE  /\ cday \in Days
           /\ \A d \in Days : d # cday => pending'[d] = pending[d] /\ StoredOn(d)' = StoredOn(d)
           /\ \A d \in Days : d = cday => pending'[d] = <<>> /\ StoredOn(d)' = {}
           /\ \A l \in StoredOn(cday) : l.trace \in Excused'
           /\ Shrinks /\ JobsGoOn /\ Frontier' = Frontier
<1>1. cday \in Days /\ pending' = [pending EXCEPT ![cday] = <<>>]
  BY DEF CleanedTypeOK, UnlinkPending
<1>2. \A d \in Days : d # cday => pending'[d] = pending[d] /\ StoredOn(d)' = StoredOn(d)
  BY <1>1 DEF TypeOK, DiskType, StoredOn
<1>3. \A d \in Days : d = cday => pending'[d] = <<>> /\ StoredOn(d)' = {}
  BY <1>1 DEF TypeOK, DiskType, StoredOn
<1>4. /\ UNCHANGED <<delivered, skipped, ipc, job, nextSeq, day>>
      /\ dropped \subseteq dropped' /\ raced \subseteq raced'
      /\ Unsent(cday) \subseteq dropped' \cup raced'
  BY DEF UnlinkPending, historyVars, ingestVars, worldVars
<1>5. Settled' = Settled /\ Excused \subseteq Excused' /\ Unsent(cday) \subseteq Excused'
  BY <1>4 DEF Excused, Settled
<1>6. \A l \in StoredOn(cday) : l.trace \in Excused'
  BY <1>5 DEF Unsent, Excused
<1>7. Shrinks
  <2>1. \A d \in Days : pending'[d] = pending[d] \/ pending'[d] = <<>>
    BY <1>2, <1>3
  <2>2. \A d \in Days : \A l \in StoredOn(d) : l \in StoredOn(d)' \/ l.trace \in Excused'
    BY <1>2, <1>6
  <2>3. QED
    BY <1>5, <2>1, <2>2 DEF Shrinks
<1>8. QED
  BY <1>1, <1>2, <1>3, <1>4, <1>6, <1>7, JobsStay, SameFrontier

LEMMA UnlinkKeepsIngest ==
    ASSUME TypeOK, TypeOK', CleanedTypeOK, CleanedInv, UnlinkPending
    PROVE  LinesInOrder' /\ Indexes' /\ Entered' /\ Saved' /\ Imaged' /\ Commits' /\ Batcher' /\ Traced'
<1>1. /\ UNCHANGED <<nextSeq, files, ipc, job, img, spc, commit, rday, ridx, batch, pos, lastOk>>
      /\ UNCHANGED <<savedNext, savedFiles, savedCommit, submitted, accepted>>
      /\ UNCHANGED <<delivered, skipped, day, stale, cimg, late>>
      /\ snap' = snap \/ snap' = [snap EXCEPT ![cday] = 0]
  BY DEF UnlinkPending, ingestVars, historyVars, worldVars
<1>2. Shrinks /\ JobsGoOn /\ Frontier' = Frontier /\ Frontier <= Frontier'
  BY UnlinkShrinks, FrontierTypes
<1>3. cday \in Days /\ snap \in [Days -> Int]
  BY DEF CleanedTypeOK, TypeOK, SenderType
<1>4. Indexes'
  <2> SUFFICES ASSUME NEW f \in IndexSet' PROVE Index(f)'
    BY DEF Indexes
  <2>1. CASE f \in IndexSet
    BY <1>2, <2>1, NumberTypes, IndexKept DEF CleanedInv, Indexes
  <2>2. CASE f \notin IndexSet
    <3>1. f = snap' /\ snap' # snap
      BY <1>1, <2>2 DEF IndexSet
    <3>2. PICK g, c : g = snap /\ c = cday
      OBVIOUS
    <3>3. Index(g)'
      BY <1>2, <1>3, <3>2, IndexKept DEF CleanedInv, Indexes, IndexSet
    <3>4. \A l \in StoredOn(c)' : l.trace \in Excused'
      BY <1>3, <3>2, UnlinkShrinks
    <3>5. Index([g EXCEPT ![c] = 0])'
      BY <1>3, <3>2, <3>3, <3>4, ZeroedIndex
    <3>6. f = [g EXCEPT ![c] = 0]
      BY <1>1, <3>1, <3>2
    <3>7. QED
      BY <3>5, <3>6
  <2>3. QED
    BY <2>1, <2>2
<1>5. Newest'
  <2> SUFFICES ASSUME NEW i \in Ingesters
               PROVE  /\ handle'[i] # "none" => ipc[i] = "append"
                      /\ handle'[i] = "unlinked" => pending'[job[i].day] = <<>>
                      /\ ipc[i] # "idle" =>
                           /\ job[i].day <= day
                           /\ job[i].day <= day - RetentionDays => job[i].trace \in late
                           /\ \A e \in Days : job[i].day < e => pending'[e] = <<>>
                           /\ ipc[i] \in {"oversized", "append"} => job[i].seq = nextSeq - 1
    BY <1>1 DEF Newest
  <2>1. handle'[i] = IF handle[i] = "open" /\ job[i].day = cday THEN "unlinked" ELSE handle[i]
    BY DEF UnlinkPending
  <2>2. job[i].day \in Days /\ \A e \in Days : pending[e] = <<>> => pending'[e] = <<>>
    BY <1>2, NumberTypes DEF Shrinks
  <2>3. pending'[cday] = <<>>
    BY <1>3, UnlinkShrinks
  <2>4. QED
    BY <2>1, <2>2, <2>3 DEF CleanedInv, LinesInOrder, Newest
<1>6. Ordered' /\ BelowFrontier' /\ Commits'
  BY <1>1, <1>2, OrderKept, FrontierKept DEF CleanedInv, LinesInOrder
<1>7. Entered' /\ Saved' /\ Imaged' /\ LineOfOneTrace' /\ WorksOnSubmitted' /\ AcceptedIsStored'
  BY <1>1, <1>2, JobsKept, AcceptedKept DEF CleanedInv, Traced
<1>8. Batcher'
  BY <1>1, <1>2, BatchKept DEF CleanedInv
<1>9. NotDropped'
  <2>1. CASE UNCHANGED dropped
    BY <1>1, <1>2, <2>1, JobsKept DEF CleanedInv, Traced
  <2>2. CASE dropped' = dropped \cup Unsent(cday)
    <3>1. StoredOn(cday) \subseteq Stored /\ \A t \in Unsent(cday) : \E l \in StoredOn(cday) : l.trace = t
      BY <1>3 DEF Stored, Unsent
    <3>2. \A t \in Unsent(cday) : t \in submitted
      BY <3>1 DEF CleanedInv, Traced, LineOfOneTrace
    <3>3. ASSUME NEW l \in Stored', l.trace \in Unsent(cday) PROVE FALSE
      <4>1. PICK m \in StoredOn(cday) : m.trace = l.trace
        BY <3>1, <3>3
      <4>2. PICK d \in Days : l \in StoredOn(d)'
        BY DEF Stored
      <4>3. d # cday /\ l \in StoredOn(d)
        BY <4>2, UnlinkShrinks
      <4>4. l = m
        BY <3>1, <4>1, <4>3 DEF CleanedInv, Traced, LineOfOneTrace, Stored
      <4>5. l.seq \in Int /\ d \in Int /\ cday \in Int
        BY <1>3, <4>3, NumberTypes
      <4>6. d < cday \/ cday < d
        BY <4>3, <4>5
      <4>7. l.seq < l.seq
        BY <1>3, <4>1, <4>3, <4>4, <4>6 DEF CleanedInv, LinesInOrder, Ordered, OrderedByDay
      <4>8. QED
        BY <4>5, <4>7
    <3>4. ASSUME NEW i \in Ingesters, ipc[i] \in {"oversized", "append"} PROVE job[i].trace \notin Unsent(cday)
      BY <3>1, <3>4 DEF CleanedInv, Traced, LineOfOneTrace
    <3>5. Stored' \subseteq Stored
      BY <1>2, StoreShrinks
    <3>6. NotDropped
      BY DEF CleanedInv, Traced
    <3>7. QED
      BY <1>1, <2>2, <3>2, <3>3, <3>4, <3>5, <3>6 DEF NotDropped
  <2>3. QED
    BY <2>1, <2>2 DEF UnlinkPending
<1>10. QED
  BY <1>4, <1>5, <1>6, <1>7, <1>8, <1>9 DEF LinesInOrder, Traced

LEMMA UnlinkKeepsReader ==
    ASSUME TypeOK, TypeOK', CleanedTypeOK, CleanedInv, UnlinkPending
    PROVE  Reader'
<1>1. /\ UNCHANGED <<ipc, job, nextSeq, spc, commit, rday, ridx, batch, day, delivered, skipped>>
      /\ \/ (Opened(cday) => ridx = 1) /\ UNCHANGED <<orphan, snap>>
         \/ /\ Opened(cday)
            /\ orphan' = SubSeq(pending[cday], ridx, Len(pending[cday]))
            /\ snap' = [snap EXCEPT ![cday] = 0]
  BY DEF UnlinkPending, ingestVars, historyVars, worldVars
<1>2. Shrinks /\ JobsGoOn /\ Frontier' = Frontier /\ Frontier <= Frontier'
  BY UnlinkShrinks, FrontierTypes
<1>3. /\ cday \in Days /\ snap \in [Days -> Int] /\ commit \in Int /\ 0 <= commit
      /\ pending[cday] \in Seq(Line) /\ ridx \in Nat \ {0} /\ rday \in Int
  <2>1. commit \in Int /\ savedCommit \in Int /\ 0 <= savedCommit /\ savedCommit <= commit
    BY SenderTypes DEF CleanedInv, Commits, CommitsInOrder
  <2>2. cday \in Days
    BY DEF CleanedTypeOK
  <2>3. QED
    BY <2>1, <2>2, SenderTypes
<1>4. /\ \A d \in Days : d # cday => pending'[d] = pending[d] /\ StoredOn(d)' = StoredOn(d)
      /\ \A d \in Days : d = cday => pending'[d] = <<>> /\ StoredOn(d)' = {}
  BY UnlinkShrinks
<1>5. CASE UNCHANGED <<orphan, snap>> /\ (Opened(cday) => ridx = 1)
  <2>1. PassedFiles' /\ UnlinkedFile'
    BY <1>1, <1>2, <1>5, ReaderKept DEF CleanedInv, Reader
  <2>2. PassedLines'
    <3> SUFFICES ASSUME spc = "read", rday \in Days, snap[rday] > commit
                 PROVE  /\ ridx <= Len(pending'[rday]) + 1
                        /\ \A k \in DOMAIN pending'[rday] : k < ridx => Passed(pending[rday][k])'
      BY <1>1, <1>5 DEF PassedLines
    <3>1. CASE rday = cday
      BY <1>3, <1>4, <1>5, <3>1 DEF Opened
    <3>2. CASE rday # cday
      <4>1. pending'[rday] = pending[rday]
        BY <1>4, <3>2
      <4>2. /\ ridx <= Len(pending[rday]) + 1
            /\ \A k \in DOMAIN pending[rday] : k < ridx => Passed(pending[rday][k])
        BY DEF CleanedInv, Reader, PassedLines
      <4>3. \A k \in DOMAIN pending[rday] : k < ridx => Passed(pending[rday][k])'
        BY <1>1, <1>2, <4>1, <4>2 DEF Passed, InBatch, Shrinks
      <4>4. QED
        BY <4>1, <4>2, <4>3
    <3>3. QED
      BY <3>1, <3>2
  <2>3. QED
    BY <2>1, <2>2 DEF Reader
<1>6. CASE /\ Opened(cday) /\ snap' = [snap EXCEPT ![cday] = 0]
           /\ orphan' = SubSeq(pending[cday], ridx, Len(pending[cday]))
  <2>1. spc = "read" /\ rday = cday /\ snap[rday] > commit /\ snap'[rday] = 0
    BY <1>3, <1>6 DEF Opened
  <2>2. ASSUME NEW d \in Days, d < rday, NEW l \in StoredOn(d)' PROVE Passed(l)'
    <3>1. l \in StoredOn(d)
      BY <1>2, StoreShrinks
    <3>2. Passed(l) \/ \A e \in Days : d < e => snap[e] <= commit
      BY <2>1, <2>2, <3>1 DEF CleanedInv, Reader, PassedFiles
    <3>3. ~ (snap[rday] <= commit) /\ rday \in Days
      BY <1>3, <2>1
    <3>4. Passed(l)
      BY <2>2, <3>2, <3>3
    <3>5. QED
      BY <1>1, <1>2, <3>4, PassedKept
  <2>3. PassedFiles'
    BY <1>1, <2>2 DEF PassedFiles
  <2>4. PassedLines'
    BY <1>1, <1>3, <2>1 DEF PassedLines
  <2>5. /\ rday <= day /\ \A i \in Ingesters : ipc[i] # "idle" => rday <= job[i].day
    <3>1. snap[rday] > 0 /\ snap \in IndexSet
      BY <1>3, <2>1 DEF IndexSet
    <3>2. QED
      BY <1>3, <2>1, <3>1 DEF CleanedInv, Indexes, Index, Used
  <2>6. orphan' # <<>> => ReadsUnlinked'
    BY <1>1, <1>3, <2>1 DEF ReadsUnlinked, OpenedUnlinked
  <2>7. ASSUME NEW k \in DOMAIN orphan'
        PROVE  /\ orphan'[k].seq < Frontier'
               /\ \A l \in Stored' : l.seq # orphan'[k].seq
               /\ \A d \in Days : rday' <= d => \A l \in StoredOn(d)' : orphan'[k].seq < l.seq
    <3>1. PICK n \in DOMAIN pending[cday] : orphan'[k] = pending[cday][n]
      BY <1>3, <1>6
    <3> DEFINE x == pending[cday][n]
    <3>2. x \in StoredOn(cday) /\ x \in Stored
      BY <1>3 DEF StoredOn, Stored
    <3> HIDE DEF x
    <3>3. x.seq \in Int /\ x.seq < Frontier
      BY <3>2, NumberTypes DEF CleanedInv, LinesInOrder, BelowFrontier
    <3>4. ASSUME NEW d \in Days, NEW l \in StoredOn(d)'
          PROVE  l.seq \in Int /\ l.seq # x.seq /\ (rday' <= d => x.seq < l.seq)
      <4>1. d # cday /\ l \in StoredOn(d) /\ l.seq \in Int
        <5>1. StoredOn(d)' \subseteq StoredOn(d)
          BY <1>2, StoreShrinks
        <5>2. l \in StoredOn(d) /\ d # cday
          BY <1>4, <3>4, <5>1
        <5>3. QED
          BY <5>2, NumberTypes
      <4>2. d \in Int /\ cday \in Int /\ rday' = cday
        BY <1>1, <1>3, <2>1, NumberTypes
      <4>3. d < cday => l.seq < x.seq
        BY <1>3, <3>2, <4>1 DEF CleanedInv, LinesInOrder, Ordered, OrderedByDay
      <4>4. cday < d => x.seq < l.seq
        BY <1>3, <3>2, <4>1 DEF CleanedInv, LinesInOrder, Ordered, OrderedByDay
      <4>5. QED
        BY <3>3, <4>1, <4>2, <4>3, <4>4
    <3>5. orphan'[k] = x
      BY <3>1 DEF x
    <3>6. \A l \in Stored' : l.seq # x.seq
      BY <3>4 DEF Stored
    <3>7. QED
      BY <1>2, <3>3, <3>4, <3>5, <3>6
  <2>8. UnlinkedFile'
    BY <1>1, <2>1, <2>2, <2>5, <2>6, <2>7 DEF UnlinkedFile
  <2>9. QED
    BY <2>3, <2>4, <2>8 DEF Reader
<1>7. QED
  BY <1>1, <1>5, <1>6

LEMMA CleanKeeps ==
    ASSUME TypeOK, TypeOK', CleanedTypeOK, CleanedInv, Clean
    PROVE  CleanedInv'
<1>1. CASE StartCleanup \/ PickExpired \/ PickListed
  BY <1>1, QuietKeeps DEF StartCleanup, PickExpired, PickListed, vars, worldVars
<1>2. CASE UnlinkPending
  BY <1>2, UnlinkKeepsIngest, UnlinkKeepsReader DEF CleanedInv
<1>3. CASE DeleteEntry
  BY <1>3, DeleteKeeps
<1>4. CASE ListCommitted \/ ListUncommitted
  BY <1>4, QuietKeeps DEF ListCommitted, ListUncommitted, NextPhase, vars, worldVars
<1>5. CASE AbortCleanup \/ EndCleanup
  BY <1>5, QuietKeeps DEF AbortCleanup, EndCleanup, Rest, vars, worldVars
<1>6. CASE CleanerTakesImage
  BY <1>6, QuietKeeps DEF CleanerTakesImage, vars, worldVars
<1>7. CASE CleanerReplaces
  BY <1>7, PutBackKeeps
<1>8. CASE CleanerFails
  BY <1>8, QuietKeeps DEF CleanerFails, Rest
<1>9. QED
  BY <1>1, <1>2, <1>3, <1>4, <1>5, <1>6, <1>7, <1>8 DEF Clean

-----------------------------------------------------------------------------
(* CleanedInv through the steps of the one ingester at work.               *)

\* Until ingests overlap nobody else is at work, before the step or after it.
LEMMA AloneBeside ==
    ASSUME TypeOK, CleanedInv, OneIngester, ~ disturbed', NEW i \in Ingesters, Ingest(i)
    PROVE  \A j \in Ingesters :
             j = i \/ (ipc[j] = "idle" /\ ipc'[j] = "idle" /\ handle[j] = "none" /\ ~ Unsaved(j) /\ ~ Unsaved(j)')
<1> SUFFICES ASSUME NEW j \in Ingesters, j # i
             PROVE  ipc[j] = "idle" /\ ipc'[j] = "idle" /\ handle[j] = "none" /\ ~ Unsaved(j) /\ ~ Unsaved(j)'
  OBVIOUS
<1>1. ipc[j] = "idle" /\ ipc'[j] = "idle"
  BY Alone
<1>2. handle[j] = "none"
  BY <1>1 DEF CleanedInv, LinesInOrder, Newest
<1>3. QED
  BY <1>1, <1>2 DEF Unsaved

LEMMA OthersKept ==
    ASSUME TypeOK, TypeOK', CleanedTypeOK, CleanedInv, Shrinks, JobsGoOn, Frontier <= Frontier',
           UNCHANGED <<day, pending, commit, savedCommit, spc, snap, rday, ridx, batch, pos, lastOk, orphan>>
    PROVE  Ordered' /\ BelowFrontier' /\ Commits' /\ Batcher' /\ Reader'
<1>1. Ordered' /\ BelowFrontier' /\ Commits'
  BY OrderKept, FrontierKept DEF CleanedInv, LinesInOrder
<1>2. Batcher' /\ Reader'
  BY BatchKept, ReaderKept DEF CleanedInv, Reader
<1>3. QED
  BY <1>1, <1>2

LEMMA OpenKeeps ==
    ASSUME TypeOK, TypeOK', CleanedTypeOK, CleanedInv, NEW i \in Ingesters, OpenPending(i)
    PROVE  CleanedInv'
<1>1. /\ UNCHANGED <<vars, cleanVars, orphan, lossVars>>
      /\ ipc[i] = "append" /\ handle' = [handle EXCEPT ![i] = "open"]
  BY DEF OpenPending
<1>2. /\ UNCHANGED <<nextSeq, files, ipc, job, img, spc, commit, snap, rday, ridx, batch, pos, lastOk>>
      /\ UNCHANGED <<pending, savedNext, savedFiles, savedCommit, submitted, accepted>>
      /\ UNCHANGED <<delivered, skipped, day, orphan, stale, dropped, raced, late, cimg>>
  BY <1>1 DEF vars, ingestVars, senderVars, readVars, diskVars, historyVars, worldVars, cleanVars, lossVars
<1>3. Shrinks /\ JobsGoOn /\ Frontier' = Frontier /\ Frontier <= Frontier'
  BY <1>2, SameExcuses, NothingGone, JobsStay, SameFrontier, FrontierTypes
<1>4. Indexes'
  BY <1>2, <1>3, IndexesKept DEF IndexSet, CleanedInv
<1>5. Ordered' /\ BelowFrontier' /\ Commits' /\ Batcher' /\ Reader'
  BY <1>2, <1>3, OthersKept
<1>6. Newest'
  <2>1. \A j \in Ingesters : handle'[j] = handle[j] \/ (handle'[j] = "open" /\ ipc[j] = "append")
    BY <1>1 DEF CleanedTypeOK
  <2>2. QED
    BY <1>2, <2>1 DEF CleanedInv, LinesInOrder, Newest
<1>7. Entered' /\ Saved' /\ Imaged'
  BY <1>2, <1>3, JobsKept DEF CleanedInv
<1>8. Traced'
  BY <1>2, <1>3, JobsKept, AcceptedKept DEF CleanedInv, Traced
<1>9. QED
  BY <1>4, <1>5, <1>6, <1>7, <1>8 DEF CleanedInv, LinesInOrder

\* What the only ingester's step leaves of the queue and the cleaner.
LEMMA AllocateKeeps ==
    ASSUME TypeOK, TypeOK', CleanedTypeOK, CleanedInv, OneIngester, ~ disturbed', NEW i \in Ingesters,
           Allocate(i), SeeWhoIsLate, UNCHANGED <<cleanVars, fileVars, stale, dropped, raced>>
    PROVE  CleanedInv'
<1>g. Ingest(i)
  BY DEF Ingest
<1>s. \A j \in Ingesters :
        j = i \/ (ipc[j] = "idle" /\ ipc'[j] = "idle" /\ handle[j] = "none" /\ ~ Unsaved(j) /\ ~ Unsaved(j)')
  BY <1>g, AloneBeside
<1>l. \A j \in Ingesters :
        ipc'[j] # "idle" /\ job'[j].day <= day' - RetentionDays => job'[j].trace \in late'
  BY LateSeen
<1>1. /\ UNCHANGED <<files, img, spc, commit, snap, rday, ridx, batch, pos, lastOk>>
      /\ UNCHANGED <<pending, savedNext, savedFiles, savedCommit, accepted, delivered, skipped, day>>
      /\ UNCHANGED <<orphan, stale, dropped, raced, cimg, handle>>
  BY DEF Allocate, senderVars, readVars, diskVars, worldVars, cleanVars, fileVars
<1>2. /\ ipc[i] = "idle" /\ ipc'[i] \in {"oversized", "append"} /\ nextSeq' = nextSeq + 1
      /\ job'[i].seq = nextSeq /\ job'[i].day = day
      /\ job'[i].trace \in Traces \ submitted /\ submitted' = submitted \cup {job'[i].trace}
  BY DEF Allocate, TypeOK, IngestType
<1>3. Shrinks /\ JobsGoOn /\ Frontier <= Frontier'
  <2>1. JobsGoOn
    BY <1>s, <1>1, <1>2 DEF JobsGoOn, TypeOK, WorldType, Days
  <2>2. Frontier' = Frontier
    BY <1>g, <1>s, FrontierSteps
  <2>3. QED
    BY <1>1, <2>1, <2>2, SameExcuses, NothingGone, FrontierTypes
<1>4. Indexes'
  BY <1>1, <1>3, IndexesKept DEF IndexSet, CleanedInv
<1>5. Ordered' /\ BelowFrontier' /\ Commits' /\ Batcher' /\ Reader'
  BY <1>1, <1>3, OthersKept
<1>6. Newest'
  <2>1. handle[i] = "none"
    BY <1>2 DEF CleanedInv, LinesInOrder, Newest
  <2>2. \A e \in Days : day < e => pending[e] = <<>>
    BY DEF CleanedInv, LinesInOrder, Ordered, NothingBeyondToday
  <2>3. day <= day /\ nextSeq = (nextSeq + 1) - 1
    BY NumberTypes
  <2>4. QED
    BY <1>s, <1>l, <1>1, <1>2, <2>1, <2>2, <2>3 DEF Newest
<1>7. Entered' /\ Saved' /\ Imaged'
  <2>1. ~ Unsaved(i) /\ ~ Unsaved(i)' /\ ipc[i] # "entry" /\ ipc'[i] # "replace"
    BY <1>2 DEF Unsaved
  <2>2. Entered'
    BY <1>s, <1>1, <1>3, <2>1, StoreKept DEF CleanedInv, Entered, Covered, Shrinks
  <2>3. Saved'
    BY <1>1, <1>3, StoreKept DEF CleanedInv, Saved, Covered, Shrinks
  <2>4. Imaged'
    BY <1>s, <2>1 DEF Imaged
  <2>5. QED
    BY <2>2, <2>3, <2>4
<1>8. Traced'
  <2>1. LineOfOneTrace'
    BY <1>s, <1>1, <1>2, StoreKept DEF CleanedInv, Traced, LineOfOneTrace
  <2>2. WorksOnSubmitted'
    BY <1>s, <1>1, <1>2 DEF CleanedInv, Traced, WorksOnSubmitted
  <2>3. NotDropped'
    BY <1>s, <1>1, <1>2, StoreKept DEF CleanedInv, Traced, NotDropped
  <2>4. QED
    BY <1>1, <1>3, <2>1, <2>2, <2>3, AcceptedKept DEF CleanedInv, Traced
<1>9. QED
  BY <1>4, <1>5, <1>6, <1>7, <1>8 DEF CleanedInv, LinesInOrder

LEMMA GiveBackKeeps ==
    ASSUME TypeOK, TypeOK', CleanedTypeOK, CleanedInv, OneIngester, ~ disturbed', NEW i \in Ingesters,
           GiveBack(i), SeeWhoIsLate, UNCHANGED <<cleanVars, fileVars, stale, dropped, raced>>
    PROVE  CleanedInv'
<1>g. Ingest(i)
  BY DEF Ingest
<1>s. \A j \in Ingesters :
        j = i \/ (ipc[j] = "idle" /\ ipc'[j] = "idle" /\ handle[j] = "none" /\ ~ Unsaved(j) /\ ~ Unsaved(j)')
  BY <1>g, AloneBeside
<1>l. \A j \in Ingesters :
        ipc'[j] # "idle" /\ job'[j].day <= day' - RetentionDays => job'[j].trace \in late'
  BY LateSeen
<1>1. /\ UNCHANGED <<files, img, spc, commit, snap, rday, ridx, batch, pos, lastOk, submitted>>
      /\ UNCHANGED <<pending, savedNext, savedFiles, savedCommit, accepted, delivered, skipped, day>>
      /\ UNCHANGED <<orphan, stale, dropped, raced, cimg, handle>>
  BY DEF GiveBack, senderVars, readVars, diskVars, historyVars, worldVars, cleanVars, fileVars, lossVars
<1>2. ipc[i] = "oversized" /\ ipc'[i] = "idle"
  BY DEF GiveBack, TypeOK, IngestType
<1>3. Shrinks /\ JobsGoOn /\ Frontier <= Frontier'
  <2>1. JobsGoOn
    BY <1>s, <1>1, <1>2 DEF JobsGoOn, TypeOK, WorldType, Days
  <2>2. Frontier' = Frontier
    BY <1>g, <1>s, FrontierSteps
  <2>3. QED
    BY <1>1, <2>1, <2>2, SameExcuses, NothingGone, FrontierTypes
<1>4. Indexes'
  BY <1>1, <1>3, IndexesKept DEF IndexSet, CleanedInv
<1>5. Ordered' /\ BelowFrontier' /\ Commits' /\ Batcher' /\ Reader'
  BY <1>1, <1>3, OthersKept
<1>6. Newest'
  <2>1. handle[i] = "none"
    BY <1>2 DEF CleanedInv, LinesInOrder, Newest
  <2>2. QED
    BY <1>s, <1>1, <1>2, <2>1 DEF Newest
<1>7. Entered' /\ Saved' /\ Imaged'
  <2>1. ~ Unsaved(i) /\ ~ Unsaved(i)' /\ ipc[i] # "entry" /\ ipc'[i] # "replace"
    BY <1>2 DEF Unsaved
  <2>2. Entered'
    BY <1>s, <1>1, <1>3, <2>1, StoreKept DEF CleanedInv, Entered, Covered, Shrinks
  <2>3. Saved'
    BY <1>1, <1>3, StoreKept DEF CleanedInv, Saved, Covered, Shrinks
  <2>4. Imaged'
    BY <1>s, <2>1 DEF Imaged
  <2>5. QED
    BY <2>2, <2>3, <2>4
<1>8. Traced'
  <2>1. LineOfOneTrace'
    BY <1>s, <1>1, <1>2, StoreKept DEF CleanedInv, Traced, LineOfOneTrace
  <2>2. WorksOnSubmitted'
    BY <1>s, <1>1, <1>2 DEF CleanedInv, Traced, WorksOnSubmitted
  <2>3. NotDropped'
    BY <1>s, <1>1, <1>2, StoreKept DEF CleanedInv, Traced, NotDropped
  <2>4. QED
    BY <1>1, <1>3, <2>1, <2>2, <2>3, AcceptedKept DEF CleanedInv, Traced
<1>9. QED
  BY <1>4, <1>5, <1>6, <1>7, <1>8 DEF CleanedInv, LinesInOrder

\* The line could not be written: its number is spent, and nothing of it is seen.
LEMMA OpenedFailsKeeps ==
    ASSUME TypeOK, TypeOK', CleanedTypeOK, CleanedInv, OneIngester, ~ disturbed', NEW i \in Ingesters,
           OpenedFails(i)
    PROVE  CleanedInv'
<1>g. Ingest(i) /\ AppendFails(i)
  BY DEF Ingest, OpenedFails
<1>s. \A j \in Ingesters :
        j = i \/ (ipc[j] = "idle" /\ ipc'[j] = "idle" /\ handle[j] = "none" /\ ~ Unsaved(j) /\ ~ Unsaved(j)')
  BY <1>g, AloneBeside
<1>1. /\ UNCHANGED <<nextSeq, files, img, spc, commit, snap, rday, ridx, batch, pos, lastOk, submitted>>
      /\ UNCHANGED <<pending, savedNext, savedFiles, savedCommit, accepted, delivered, skipped, day>>
      /\ UNCHANGED <<orphan, stale, dropped, raced, late, cimg>>
  BY <1>g DEF AppendFails, OpenedFails, senderVars, readVars, cleanVars, lossVars
<1>2. ipc[i] = "append" /\ ipc'[i] = "idle" /\ handle'[i] = "none"
  BY <1>g DEF AppendFails, OpenedFails, TypeOK, IngestType, CleanedTypeOK
<1>h. \A j \in Ingesters : ipc'[j] = "idle" /\ handle'[j] = "none"
  BY <1>s, <1>2 DEF OpenedFails, CleanedTypeOK
<1>3. Shrinks /\ JobsGoOn /\ Frontier <= Frontier'
  <2>1. JobsGoOn
    BY <1>s, <1>1, <1>2 DEF JobsGoOn, TypeOK, WorldType, Days
  <2>2. Frontier' = Frontier + 1 /\ Frontier \in Int
    BY <1>g, <1>s, FrontierSteps, FrontierTypes
  <2>3. QED
    BY <1>1, <2>1, <2>2, SameExcuses, NothingGone
<1>4. Indexes'
  BY <1>1, <1>3, IndexesKept DEF IndexSet, CleanedInv
<1>5. Ordered' /\ BelowFrontier' /\ Commits' /\ Batcher' /\ Reader'
  BY <1>1, <1>3, OthersKept
<1>6. Newest'
  BY <1>h DEF Newest
<1>7. Entered' /\ Saved' /\ Imaged'
  <2>1. ~ Unsaved(i) /\ ~ Unsaved(i)' /\ ipc[i] # "entry" /\ ipc'[i] # "replace"
    BY <1>2 DEF Unsaved
  <2>2. Entered'
    BY <1>s, <1>1, <1>3, <2>1, StoreKept DEF CleanedInv, Entered, Covered, Shrinks
  <2>3. Saved'
    BY <1>1, <1>3, StoreKept DEF CleanedInv, Saved, Covered, Shrinks
  <2>4. Imaged'
    BY <1>s, <2>1 DEF Imaged
  <2>5. QED
    BY <2>2, <2>3, <2>4
<1>8. Traced'
  <2>1. LineOfOneTrace'
    BY <1>s, <1>1, <1>2, StoreKept DEF CleanedInv, Traced, LineOfOneTrace
  <2>2. WorksOnSubmitted'
    BY <1>s, <1>1, <1>2 DEF CleanedInv, Traced, WorksOnSubmitted
  <2>3. NotDropped'
    BY <1>s, <1>1, <1>2, StoreKept DEF CleanedInv, Traced, NotDropped
  <2>4. QED
    BY <1>1, <1>3, <2>1, <2>2, <2>3, AcceptedKept DEF CleanedInv, Traced
<1>9. QED
  BY <1>4, <1>5, <1>6, <1>7, <1>8 DEF CleanedInv, LinesInOrder

\* The index was not written: the line is in the file and in the shared index.
LEMMA SaveFailsKeeps ==
    ASSUME TypeOK, TypeOK', CleanedTypeOK, CleanedInv, OneIngester, ~ disturbed', NEW i \in Ingesters,
           SaveFails(i), SeeWhoIsLate, UNCHANGED <<cleanVars, fileVars, stale, dropped, raced>>
    PROVE  CleanedInv'
<1>g. Ingest(i)
  BY DEF Ingest
<1>s. \A j \in Ingesters :
        j = i \/ (ipc[j] = "idle" /\ ipc'[j] = "idle" /\ handle[j] = "none" /\ ~ Unsaved(j) /\ ~ Unsaved(j)')
  BY <1>g, AloneBeside
<1>l. \A j \in Ingesters :
        ipc'[j] # "idle" /\ job'[j].day <= day' - RetentionDays => job'[j].trace \in late'
  BY LateSeen
<1>1. /\ UNCHANGED <<nextSeq, files, spc, commit, snap, rday, ridx, batch, pos, lastOk, submitted>>
      /\ UNCHANGED <<pending, savedNext, savedFiles, savedCommit, accepted, delivered, skipped, day>>
      /\ UNCHANGED <<orphan, stale, dropped, raced, cimg, handle>>
  BY DEF SaveFails, senderVars, readVars, diskVars, historyVars, cleanVars, fileVars
<1>2. /\ ipc[i] \in {"image", "replace"} /\ ipc'[i] = "idle"
      /\ img' = [img EXCEPT ![i] = NoImage]
  BY DEF SaveFails, TypeOK, IngestType
<1>3. Shrinks /\ JobsGoOn /\ Frontier <= Frontier'
  <2>1. JobsGoOn
    BY <1>s, <1>1, <1>2 DEF JobsGoOn, TypeOK, WorldType, Days
  <2>2. Frontier' = Frontier
    BY <1>g, <1>s, FrontierSteps
  <2>3. QED
    BY <1>1, <2>1, <2>2, SameExcuses, NothingGone, FrontierTypes
<1>4. Indexes'
  <2>1. \A f \in IndexSet' : f \in IndexSet \/ f = Empty
    <3>1. \A j \in Ingesters : img'[j].files = img[j].files \/ img'[j].files = Empty
      BY <1>2 DEF TypeOK, IngestType, NoImage
    <3>2. QED
      BY <1>1, <3>1 DEF IndexSet
  <2>2. QED
    BY <1>1, <1>3, <2>1, IndexesKept DEF CleanedInv
<1>5. Ordered' /\ BelowFrontier' /\ Commits' /\ Batcher' /\ Reader'
  BY <1>1, <1>3, OthersKept
<1>6. Newest'
  <2>1. handle[i] = "none"
    BY <1>2 DEF CleanedInv, LinesInOrder, Newest
  <2>2. QED
    BY <1>s, <1>1, <1>2, <2>1 DEF Newest
<1>7. Entered' /\ Saved' /\ Imaged'
  <2>1. ~ Unsaved(i)' /\ ipc[i] # "entry" /\ ipc'[i] # "replace"
    BY <1>2 DEF Unsaved
  <2>2. Entered'
    BY <1>s, <1>1, <1>3, <2>1, StoreKept DEF CleanedInv, Entered, Covered, Shrinks
  <2>3. Saved'
    BY <1>1, <1>3, StoreKept DEF CleanedInv, Saved, Covered, Shrinks
  <2>4. Imaged'
    BY <1>s, <2>1 DEF Imaged
  <2>5. QED
    BY <2>2, <2>3, <2>4
<1>8. Traced'
  <2>1. LineOfOneTrace'
    BY <1>s, <1>1, <1>2, StoreKept DEF CleanedInv, Traced, LineOfOneTrace
  <2>2. WorksOnSubmitted'
    BY <1>s, <1>1, <1>2 DEF CleanedInv, Traced, WorksOnSubmitted
  <2>3. NotDropped'
    BY <1>s, <1>1, <1>2, StoreKept DEF CleanedInv, Traced, NotDropped
  <2>4. QED
    BY <1>1, <1>3, <2>1, <2>2, <2>3, AcceptedKept DEF CleanedInv, Traced
<1>9. QED
  BY <1>4, <1>5, <1>6, <1>7, <1>8 DEF CleanedInv, LinesInOrder

LEMMA TakeImageKeeps ==
    ASSUME TypeOK, TypeOK', CleanedTypeOK, CleanedInv, OneIngester, ~ disturbed', NEW i \in Ingesters,
           TakeImage(i), SeeWhoIsLate, UNCHANGED <<cleanVars, fileVars, stale, dropped, raced>>
    PROVE  CleanedInv'
<1>g. Ingest(i)
  BY DEF Ingest
<1>s. \A j \in Ingesters :
        j = i \/ (ipc[j] = "idle" /\ ipc'[j] = "idle" /\ handle[j] = "none" /\ ~ Unsaved(j) /\ ~ Unsaved(j)')
  BY <1>g, AloneBeside
<1>l. \A j \in Ingesters :
        ipc'[j] # "idle" /\ job'[j].day <= day' - RetentionDays => job'[j].trace \in late'
  BY LateSeen
<1>1. /\ UNCHANGED <<nextSeq, files, job, spc, commit, snap, rday, ridx, batch, pos, lastOk, submitted>>
      /\ UNCHANGED <<pending, savedNext, savedFiles, savedCommit, accepted, delivered, skipped, day>>
      /\ UNCHANGED <<orphan, stale, dropped, raced, cimg, handle>>
  BY DEF TakeImage, senderVars, readVars, diskVars, historyVars, worldVars, cleanVars, fileVars, lossVars
<1>2. /\ ipc[i] = "image" /\ ipc'[i] = "replace"
      /\ img'[i].next = nextSeq /\ img'[i].files = files
  BY DEF TakeImage, TypeOK, IngestType
<1>3. Shrinks /\ JobsGoOn /\ Frontier <= Frontier'
  <2>1. JobsGoOn
    BY <1>s, <1>1, <1>2 DEF JobsGoOn, TypeOK, WorldType, Days
  <2>2. Frontier' = Frontier
    BY <1>g, <1>s, FrontierSteps
  <2>3. QED
    BY <1>1, <2>1, <2>2, SameExcuses, NothingGone, FrontierTypes
<1>4. Indexes'
  <2>1. \A f \in IndexSet' : f \in IndexSet
    <3>1. \A j \in Ingesters : j # i => img'[j] = img[j]
      BY DEF TakeImage, TypeOK, IngestType
    <3>2. \A j \in Ingesters : img'[j].files = img[j].files \/ img'[j].files = files
      BY <1>2, <3>1
    <3>3. QED
      BY <1>1, <3>2 DEF IndexSet
  <2>2. QED
    BY <1>1, <1>3, <2>1, IndexesKept DEF CleanedInv
<1>5. Ordered' /\ BelowFrontier' /\ Commits' /\ Batcher' /\ Reader'
  BY <1>1, <1>3, OthersKept
<1>6. Newest'
  <2>1. handle[i] = "none"
    BY <1>2 DEF CleanedInv, LinesInOrder, Newest
  <2>2. QED
    BY <1>s, <1>l, <1>1, <1>2, <2>1 DEF CleanedInv, LinesInOrder, Newest
<1>7. Entered' /\ Saved' /\ Imaged'
  <2>1. Unsaved(i) /\ Unsaved(i)' /\ ipc[i] # "entry"
    BY <1>2 DEF Unsaved
  <2>2. Entered'
    BY <1>s, <1>1, <1>3, <2>1, StoreKept DEF CleanedInv, Entered, Covered, Shrinks
  <2>3. Saved'
    BY <1>1, <1>3, StoreKept DEF CleanedInv, Saved, Covered, Shrinks
  <2>4. Imaged'
    <3>1. \A d \in Days : \A l \in StoredOn(d)' : Covered(files, d, l)'
      BY <1>s, <1>1, <1>3, <2>1, StoreKept DEF CleanedInv, Entered, Covered, Shrinks
    <3>2. job'[i].trace \in Excused' \/ JobLine(i)' \in StoredOn(job[i].day)'
      BY <1>1, <1>3, <2>1 DEF CleanedInv, Imaged, Shrinks, JobLine, StoredOn
    <3>3. QED
      BY <1>s, <1>1, <1>2, <3>1, <3>2 DEF Imaged, Covered
  <2>5. QED
    BY <2>2, <2>3, <2>4
<1>8. Traced'
  <2>1. LineOfOneTrace'
    BY <1>s, <1>1, <1>2, StoreKept DEF CleanedInv, Traced, LineOfOneTrace
  <2>2. WorksOnSubmitted'
    BY <1>s, <1>1, <1>2 DEF CleanedInv, Traced, WorksOnSubmitted
  <2>3. NotDropped'
    BY <1>s, <1>1, <1>2, StoreKept DEF CleanedInv, Traced, NotDropped
  <2>4. QED
    BY <1>1, <1>3, <2>1, <2>2, <2>3, AcceptedKept DEF CleanedInv, Traced
<1>9. QED
  BY <1>4, <1>5, <1>6, <1>7, <1>8 DEF CleanedInv, LinesInOrder

\* The entry of the newest file rises: no earlier file is left out of the index.
LEMMA UpdateKeeps ==
    ASSUME TypeOK, TypeOK', CleanedTypeOK, CleanedInv, OneIngester, ~ disturbed', NEW i \in Ingesters,
           UpdateEntry(i), SeeWhoIsLate, UNCHANGED <<cleanVars, fileVars, stale, dropped, raced>>
    PROVE  CleanedInv'
<1>g. Ingest(i)
  BY DEF Ingest
<1>s. \A j \in Ingesters :
        j = i \/ (ipc[j] = "idle" /\ ipc'[j] = "idle" /\ handle[j] = "none" /\ ~ Unsaved(j) /\ ~ Unsaved(j)')
  BY <1>g, AloneBeside
<1>l. \A j \in Ingesters :
        ipc'[j] # "idle" /\ job'[j].day <= day' - RetentionDays => job'[j].trace \in late'
  BY LateSeen
<1>1. /\ UNCHANGED <<nextSeq, img, job, spc, commit, snap, rday, ridx, batch, pos, lastOk, submitted>>
      /\ UNCHANGED <<pending, savedNext, savedFiles, savedCommit, accepted, delivered, skipped, day>>
      /\ UNCHANGED <<orphan, stale, dropped, raced, cimg, handle>>
  BY DEF UpdateEntry, senderVars, readVars, diskVars, historyVars, worldVars, cleanVars, fileVars, lossVars
<1>2. ipc[i] = "entry" /\ ipc'[i] = "image"
  BY DEF UpdateEntry, TypeOK, IngestType
<1>3. Shrinks /\ JobsGoOn /\ Frontier <= Frontier'
  <2>1. JobsGoOn
    BY <1>s, <1>1, <1>2 DEF JobsGoOn, TypeOK, WorldType, Days
  <2>2. Frontier' = Frontier
    BY <1>g, <1>s, FrontierSteps
  <2>3. QED
    BY <1>1, <2>1, <2>2, SameExcuses, NothingGone, FrontierTypes
<1>t. /\ job[i].day \in Days /\ job[i].seq \in Int /\ files \in [Days -> Int]
      /\ \A d \in Days : d \in Int /\ files[d] \in Int
  BY NumberTypes DEF TypeOK, IngestType
<1>f. \A d \in Days : /\ d # job[i].day => files'[d] = files[d]
                      /\ d = job[i].day => files'[d] = MaxSeqWith(files[d], job[i].seq)
                      /\ files[d] <= files'[d] /\ files'[d] \in Int
  BY <1>t DEF UpdateEntry, MaxSeqWith
\* What was covered stays so; what the ingester has appended now is covered too.
<1>c. ASSUME NEW d \in Days, NEW l \in StoredOn(d) PROVE Covered(files, d, l)'
  <2>1. l.seq \in Int
    BY NumberTypes
  <2>2. CASE Covered(files, d, l)
    <3>1. l.seq <= files[d] => l.seq <= files'[d]
      BY <1>t, <1>f, <2>1
    <3>2. QED
      BY <1>3, <2>2, <3>1 DEF Covered, Shrinks
  <2>3. CASE job[i].day = d /\ l = JobLine(i)
    <3>1. l.seq = job[i].seq
      BY <2>3 DEF JobLine
    <3>2. l.seq <= files'[d]
      BY <1>t, <1>f, <2>3, <3>1 DEF MaxSeqWith
    <3>3. QED
      BY <3>2 DEF Covered
  <2>4. QED
    BY <1>s, <2>2, <2>3 DEF CleanedInv, Entered, JobLineOn
<1>4. Indexes'
  <2> SUFFICES ASSUME NEW f \in IndexSet' PROVE Index(f)'
    BY DEF Indexes
  <2>1. CASE f \in IndexSet
    BY <1>3, <2>1, NumberTypes, IndexKept DEF CleanedInv, Indexes
  <2>2. CASE f = files'
    <3>u. Used(files) /\ CoversEarlier(files)
      BY DEF CleanedInv, Indexes, Index, IndexSet
    <3>n. job[i].day <= day
      BY <1>2 DEF CleanedInv, LinesInOrder, Newest
    <3>1. Used(f)'
      <4> SUFFICES ASSUME NEW e \in Days, f[e] > 0 PROVE e <= day /\ e <= job[i].day
        BY <1>s, <1>1 DEF Used
      <4>1. CASE e = job[i].day
        BY <1>t, <3>n, <4>1
      <4>2. CASE e # job[i].day
        BY <1>f, <1>2, <2>2, <3>u, <4>2 DEF Used
      <4>3. QED
        BY <4>1, <4>2
    <3>2. CoversEarlier(f)'
      BY <1>1, <1>c, <2>2, StoreKept DEF CoversEarlier, Covered
    <3>3. QED
      BY <3>1, <3>2 DEF Index
  <2>3. QED
    BY <1>1, <2>1, <2>2 DEF IndexSet
<1>5. Ordered' /\ BelowFrontier' /\ Commits' /\ Batcher' /\ Reader'
  BY <1>1, <1>3, OthersKept
<1>6. Newest'
  <2>1. handle[i] = "none"
    BY <1>2 DEF CleanedInv, LinesInOrder, Newest
  <2>2. QED
    BY <1>s, <1>l, <1>1, <1>2, <2>1 DEF CleanedInv, LinesInOrder, Newest
<1>7. Entered' /\ Saved' /\ Imaged'
  <2>1. Unsaved(i) /\ Unsaved(i)' /\ ipc'[i] # "replace"
    BY <1>2 DEF Unsaved
  <2>2. Entered'
    BY <1>1, <1>c, StoreKept DEF Entered
  <2>3. Saved'
    BY <1>1, <1>3, StoreKept DEF CleanedInv, Saved, Covered, Shrinks
  <2>4. Imaged'
    <3>1. job'[i].trace \in Excused' \/ JobLine(i)' \in StoredOn(job[i].day)'
      BY <1>1, <1>3, <2>1 DEF CleanedInv, Imaged, Shrinks, JobLine, StoredOn
    <3>2. QED
      BY <1>s, <2>1, <3>1 DEF Imaged
  <2>5. QED
    BY <2>2, <2>3, <2>4
<1>8. Traced'
  <2>1. LineOfOneTrace'
    BY <1>s, <1>1, <1>2, StoreKept DEF CleanedInv, Traced, LineOfOneTrace
  <2>2. WorksOnSubmitted'
    BY <1>s, <1>1, <1>2 DEF CleanedInv, Traced, WorksOnSubmitted
  <2>3. NotDropped'
    BY <1>s, <1>1, <1>2, StoreKept DEF CleanedInv, Traced, NotDropped
  <2>4. QED
    BY <1>1, <1>3, <2>1, <2>2, <2>3, AcceptedKept DEF CleanedInv, Traced
<1>9. QED
  BY <1>4, <1>5, <1>6, <1>7, <1>8 DEF CleanedInv, LinesInOrder

\* ingest() returns: ingest.json covers its line, and is as new as can be.
LEMMA ReplaceKeeps ==
    ASSUME TypeOK, TypeOK', CleanedTypeOK, CleanedInv, OneIngester, ~ disturbed', NEW i \in Ingesters,
           ReplaceByIngest(i)
    PROVE  CleanedInv'
<1>g. Ingest(i)
  BY DEF Ingest, ReplaceByIngest
<1>s. \A j \in Ingesters :
        j = i \/ (ipc[j] = "idle" /\ ipc'[j] = "idle" /\ handle[j] = "none" /\ ~ Unsaved(j) /\ ~ Unsaved(j)')
  BY <1>g, AloneBeside
<1>1. /\ UNCHANGED <<nextSeq, files, spc, commit, snap, rday, ridx, batch, pos, lastOk, submitted>>
      /\ UNCHANGED <<pending, savedCommit, delivered, skipped, day>>
      /\ UNCHANGED <<orphan, dropped, raced, late, cimg, handle>>
      /\ savedNext' = img[i].next /\ savedFiles' = img[i].files /\ accepted' = accepted \cup {job[i].trace}
      /\ \A j \in Ingesters : img'[j].files \in {img[j].files, Empty}
  <2>1. /\ UNCHANGED <<nextSeq, files, spc, commit, snap, rday, ridx, batch, pos, lastOk, submitted>>
        /\ UNCHANGED <<pending, savedCommit, delivered, skipped, day>>
        /\ savedNext' = img[i].next /\ savedFiles' = img[i].files
        /\ accepted' = accepted \cup {job[i].trace} /\ img' = [img EXCEPT ![i] = NoImage]
    BY DEF ReplaceByIngest, ReplaceIngestJson, senderVars, readVars, worldVars
  <2>2. UNCHANGED <<orphan, dropped, raced, late, cimg, handle>>
    BY DEF ReplaceByIngest, cleanVars, fileVars
  <2>3. \A j \in Ingesters : img'[j].files \in {img[j].files, Empty}
    BY <2>1 DEF TypeOK, IngestType, NoImage
  <2>4. QED
    BY <2>1, <2>2, <2>3
<1>2. ipc[i] = "replace" /\ ipc'[i] = "idle" /\ ReplaceIngestJson(i)
  BY DEF ReplaceByIngest, ReplaceIngestJson, TypeOK, IngestType
<1>3. Shrinks /\ JobsGoOn /\ Frontier <= Frontier'
  <2>1. JobsGoOn
    BY <1>s, <1>1, <1>2 DEF JobsGoOn, TypeOK, WorldType, Days
  <2>2. Frontier' = Frontier
    BY <1>g, <1>s, <1>2, FrontierSteps
  <2>3. QED
    BY <1>1, <2>1, <2>2, SameExcuses, NothingGone, FrontierTypes
<1>4. Indexes'
  <2>1. \A f \in IndexSet' : f \in IndexSet \/ f = Empty
    BY <1>1 DEF IndexSet
  <2>2. QED
    BY <1>1, <1>3, <2>1, IndexesKept DEF CleanedInv
<1>5. Ordered' /\ BelowFrontier' /\ Commits' /\ Batcher' /\ Reader'
  BY <1>1, <1>3, OthersKept
<1>6. Newest'
  <2>1. handle[i] = "none"
    BY <1>2 DEF CleanedInv, LinesInOrder, Newest
  <2>2. QED
    BY <1>s, <1>1, <1>2, <2>1 DEF CleanedInv, LinesInOrder, Newest
<1>7. Entered' /\ Saved' /\ Imaged'
  <2>1. Unsaved(i) /\ ~ Unsaved(i)' /\ ipc[i] # "entry"
    BY <1>2 DEF Unsaved
  <2>2. Entered'
    BY <1>s, <1>1, <1>3, <2>1, StoreKept DEF CleanedInv, Entered, Covered, Shrinks
  <2>3. Saved'
    <3>1. \A d \in Days : \A l \in StoredOn(d) : Covered(img[i].files, d, l)
      BY <1>2 DEF CleanedInv, Imaged
    <3>2. ASSUME NEW d \in Days, NEW l \in StoredOn(d) PROVE Covered(savedFiles, d, l)'
      BY <1>1, <1>3, <3>1 DEF Covered, Shrinks
    <3>3. QED
      BY <1>1, <3>2, StoreKept DEF Saved
  <2>4. Imaged'
    BY <1>s, <1>2, <2>1 DEF Imaged
  <2>5. QED
    BY <2>2, <2>3, <2>4
<1>8. Traced'
  <2>1. LineOfOneTrace'
    BY <1>s, <1>1, <1>2, StoreKept DEF CleanedInv, Traced, LineOfOneTrace
  <2>2. WorksOnSubmitted'
    BY <1>s, <1>1, <1>2 DEF CleanedInv, Traced, WorksOnSubmitted
  <2>3. NotDropped'
    BY <1>s, <1>1, <1>2, StoreKept DEF CleanedInv, Traced, NotDropped
  <2>4. AcceptedIsStored'
    <3> SUFFICES ASSUME NEW t \in accepted', t \notin Excused' PROVE \E l \in Stored' : l.trace = t
      BY DEF AcceptedIsStored
    <3>1. CASE t \in accepted
      BY <1>1, <1>3, <3>1, StoreKept DEF CleanedInv, Traced, AcceptedIsStored, Shrinks
    <3>2. CASE t = job[i].trace
      <4>1. t \notin Excused
        BY <1>3 DEF Shrinks
      <4>2. JobLine(i) \in StoredOn(job[i].day) /\ JobLine(i).trace = t /\ job[i].day \in Days
        BY <1>2, <3>2, <4>1, NumberTypes DEF CleanedInv, Imaged, Unsaved, JobLine
      <4>3. QED
        BY <1>1, <4>2, StoreKept DEF Stored
    <3>3. QED
      BY <1>1, <3>1, <3>2
  <2>5. QED
    BY <2>1, <2>2, <2>3, <2>4 DEF Traced
<1>9. QED
  BY <1>4, <1>5, <1>6, <1>7, <1>8 DEF CleanedInv, LinesInOrder

\* The line is written to a file that was unlinked: its trace is excused, and only the
\* sender that has the file open may see it.
LEMMA LostAppendKeeps ==
    ASSUME TypeOK, TypeOK', CleanedTypeOK, CleanedInv, OneIngester, NEW i \in Ingesters,
           AppendToUnlinked(i)
    PROVE  CleanedInv'
<1>s. \A j \in Ingesters :
        j = i \/ (ipc[j] = "idle" /\ ipc'[j] = "idle" /\ handle[j] = "none" /\ ~ Unsaved(j) /\ ~ Unsaved(j)')
  <2> SUFFICES ASSUME NEW j \in Ingesters, j # i
               PROVE  ipc[j] = "idle" /\ ipc'[j] = "idle" /\ handle[j] = "none" /\ ~ Unsaved(j) /\ ~ Unsaved(j)'
    OBVIOUS
  <2>1. ipc[j] = "idle" /\ ipc'[j] = "idle"
    BY DEF AppendToUnlinked, OneIngester, TypeOK, IngestType
  <2>2. handle[j] = "none"
    BY <2>1 DEF CleanedInv, LinesInOrder, Newest
  <2>3. QED
    BY <2>1, <2>2 DEF Unsaved
<1>1. /\ UNCHANGED <<nextSeq, files, img, job, spc, commit, snap, rday, ridx, batch, pos, lastOk>>
      /\ UNCHANGED <<pending, savedNext, savedFiles, savedCommit, accepted, delivered, skipped, day>>
      /\ UNCHANGED <<stale, dropped, late, cimg, submitted>>
      /\ raced' = raced \cup {job[i].trace}
      /\ orphan' = orphan \/ (OpenedUnlinked(job[i].day) /\ orphan' = Append(orphan, JobLine(i)))
  BY DEF AppendToUnlinked, senderVars, readVars, diskVars, historyVars, worldVars, cleanVars
<1>2. ipc[i] = "append" /\ ipc'[i] = "entry" /\ handle[i] = "unlinked" /\ handle'[i] = "none"
  BY DEF AppendToUnlinked, TypeOK, IngestType, CleanedTypeOK
<1>n. /\ pending[job[i].day] = <<>> /\ \A e \in Days : job[i].day < e => pending[e] = <<>>
      /\ job[i].seq = nextSeq - 1 /\ job[i].day \in Days /\ job[i].seq \in Int
  BY <1>2, NumberTypes DEF CleanedInv, LinesInOrder, Newest
<1>f. Frontier = nextSeq - 1 /\ Frontier' = nextSeq /\ Frontier \in Int /\ nextSeq \in Int
  BY <1>s, <1>1, <1>2, NumberTypes DEF Frontier, Reserved
<1>3. Shrinks /\ JobsGoOn /\ Frontier <= Frontier'
  <2>1. JobsGoOn
    BY <1>s, <1>1, <1>2 DEF JobsGoOn, TypeOK, WorldType, Days
  <2>2. Excused \subseteq Excused' /\ Settled \subseteq Settled'
    BY <1>1 DEF Excused, Settled
  <2>3. QED
    BY <1>1, <1>f, <2>1, <2>2, NothingGone
<1>4. Indexes'
  BY <1>1, <1>3, IndexesKept DEF IndexSet, CleanedInv
<1>5. Ordered' /\ BelowFrontier' /\ Commits' /\ Batcher' /\ PassedFiles' /\ PassedLines'
  BY <1>1, <1>3, OrderKept, FrontierKept, BatchKept, ReaderKept DEF CleanedInv, LinesInOrder, Reader
<1>6. UnlinkedFile'
  <2>1. CASE orphan' = orphan
    BY <1>1, <1>3, <2>1, ReaderKept DEF CleanedInv, Reader
  <2>2. CASE OpenedUnlinked(job[i].day) /\ orphan' = Append(orphan, JobLine(i))
    <3>1. ReadsUnlinked /\ rday = job[i].day /\ UnlinkedFile
      BY <1>n, <2>2 DEF ReadsUnlinked, OpenedUnlinked, CleanedInv, Reader
    <3>2. ReadsUnlinked'
      <4>1. orphan' # <<>>
        BY <2>2 DEF CleanedTypeOK
      <4>2. QED
        BY <1>1, <3>1, <4>1 DEF ReadsUnlinked, OpenedUnlinked
    <3>3. /\ rday <= day /\ \A j \in Ingesters : ipc'[j] # "idle" => rday <= job[j].day
          /\ \A d \in Days : d < rday => \A l \in StoredOn(d)' : Passed(l)'
      <4>1. rday <= day /\ \A d \in Days : d < rday => \A l \in StoredOn(d) : Passed(l)
        BY <3>1 DEF UnlinkedFile
      <4>2. \A j \in Ingesters : ipc'[j] # "idle" => rday <= job[j].day
        <5>1. rday \in Int /\ rday <= job[i].day
          BY <1>n, <3>1, NumberTypes DEF Days
        <5>2. QED
          BY <1>s, <5>1
      <4>3. \A l : Passed(l) => Passed(l)'
        BY <1>1, <1>3, PassedKept
      <4>4. QED
        BY <1>1, <4>1, <4>2, <4>3, StoreKept
    <3>4. ASSUME NEW k \in DOMAIN orphan'
          PROVE  /\ orphan'[k].seq < Frontier'
                 /\ \A l \in Stored' : l.seq # orphan'[k].seq
                 /\ \A d \in Days : rday' <= d => \A l \in StoredOn(d)' : orphan'[k].seq < l.seq
      <4>1. CASE k \in DOMAIN orphan
        <5>1. orphan'[k] = orphan[k] /\ orphan[k].seq \in Int
          BY <2>2, <4>1, NumberTypes DEF CleanedTypeOK
        <5>2. /\ orphan[k].seq < Frontier
              /\ \A l \in Stored : l.seq # orphan[k].seq
              /\ \A d \in Days : rday <= d => \A l \in StoredOn(d) : orphan[k].seq < l.seq
          BY <3>1, <4>1 DEF UnlinkedFile
        <5>3. orphan'[k].seq < Frontier'
          BY <1>f, <5>1, <5>2
        <5>4. QED
          BY <1>1, <5>1, <5>2, <5>3, StoreKept
      <4>2. CASE k \notin DOMAIN orphan
        <5>1. orphan'[k] = JobLine(i)
          BY <2>2, <4>2 DEF CleanedTypeOK
        <5>2. orphan'[k].seq = Frontier
          BY <1>n, <1>f, <5>1 DEF JobLine
        <5>3. \A l \in Stored : l.seq # Frontier
          BY <1>f, NumberTypes DEF CleanedInv, LinesInOrder, BelowFrontier
        <5>4. ASSUME NEW d \in Days, rday <= d PROVE StoredOn(d) = {}
          <6>1. d = job[i].day \/ job[i].day < d
            BY <1>n, <3>1, <5>4, NumberTypes
          <6>2. pending[d] = <<>>
            BY <1>n, <6>1
          <6>3. QED
            BY <6>2 DEF StoredOn
        <5>5. QED
          BY <1>1, <1>f, <5>2, <5>3, <5>4, StoreKept
      <4>3. QED
        BY <4>1, <4>2
    <3>5. QED
      BY <1>1, <3>2, <3>3, <3>4 DEF UnlinkedFile
  <2>3. QED
    BY <1>1, <2>1, <2>2
<1>7. Newest'
  <2>1. \A j \in Ingesters : j # i => handle'[j] = "none"
    BY <1>s DEF AppendToUnlinked, CleanedTypeOK
  <2>2. QED
    BY <1>s, <1>1, <1>2, <2>1 DEF CleanedInv, LinesInOrder, Newest
<1>8. Entered' /\ Saved' /\ Imaged'
  <2>1. ~ Unsaved(i) /\ ipc[i] # "entry" /\ ipc'[i] # "replace"
    BY <1>2 DEF Unsaved
  <2>2. Entered'
    BY <1>s, <1>1, <1>3, <2>1, StoreKept DEF CleanedInv, Entered, Covered, Shrinks
  <2>3. Saved'
    BY <1>1, <1>3, StoreKept DEF CleanedInv, Saved, Covered, Shrinks
  <2>4. job'[i].trace \in Excused'
    BY <1>1 DEF Excused
  <2>5. Imaged'
    BY <1>s, <2>1, <2>4 DEF Imaged
  <2>6. QED
    BY <2>2, <2>3, <2>5
<1>9. Traced'
  <2>1. LineOfOneTrace'
    BY <1>s, <1>1, <1>2, StoreKept DEF CleanedInv, Traced, LineOfOneTrace
  <2>2. WorksOnSubmitted'
    BY <1>s, <1>1, <1>2 DEF CleanedInv, Traced, WorksOnSubmitted
  <2>3. NotDropped'
    BY <1>s, <1>1, <1>2, StoreKept DEF CleanedInv, Traced, NotDropped
  <2>4. QED
    BY <1>1, <1>3, <2>1, <2>2, <2>3, AcceptedKept DEF CleanedInv, Traced
<1>10. QED
  BY <1>4, <1>5, <1>6, <1>7, <1>8, <1>9 DEF CleanedInv, LinesInOrder, Reader

\* The line is appended to the file of the day: it has the newest number, on the newest day.
LEMMA AppendKeeps ==
    ASSUME TypeOK, TypeOK', CleanedTypeOK, CleanedInv, Calm, ~ disturbed', NEW i \in Ingesters,
           AppendToOpen(i)
    PROVE  CleanedInv'
<1> DEFINE new == JobLine(i)
           today == job[i].day
<1>g. Ingest(i)
  BY DEF Ingest, AppendToOpen
<1>s. \A j \in Ingesters :
        j = i \/ (ipc[j] = "idle" /\ ipc'[j] = "idle" /\ handle[j] = "none" /\ ~ Unsaved(j) /\ ~ Unsaved(j)')
  BY <1>g, AloneBeside DEF Calm
<1>1. /\ UNCHANGED <<nextSeq, files, img, job, spc, commit, snap, rday, ridx, batch, pos, lastOk>>
      /\ UNCHANGED <<savedNext, savedFiles, savedCommit, accepted, delivered, skipped, day>>
      /\ UNCHANGED <<orphan, stale, dropped, raced, late, cimg, submitted>>
  BY DEF AppendToOpen, AppendLine, senderVars, readVars, historyVars, worldVars, cleanVars, lossVars
<1>2. ipc[i] = "append" /\ ipc'[i] = "entry" /\ handle'[i] = "none" /\ AppendLine(i)
  BY DEF AppendToOpen, AppendLine, TypeOK, IngestType, CleanedTypeOK
<1>e. Excused' = Excused /\ Settled' = Settled
  BY <1>1, SameExcuses
<1>a. /\ today \in Days /\ new \in Line /\ new.seq = job[i].seq /\ new.trace = job[i].trace
      /\ \A d \in Days : d # today => pending'[d] = pending[d] /\ StoredOn(d)' = StoredOn(d)
      /\ \A d \in Days : d = today => /\ pending'[d] = Append(pending[d], new)
                                      /\ StoredOn(d)' = StoredOn(d) \cup {new}
      /\ Stored' = Stored \cup {new}
  <2>1. new.seq = job[i].seq /\ new.trace = job[i].trace
    BY DEF JobLine
  <2>2. job[i].day \notin torn
    BY DEF Calm, Undamaged
  <2>3. QED
    BY <1>2, <2>1, <2>2, AppendAdds
<1>b. new.seq = Frontier /\ Frontier' = Frontier + 1 /\ Frontier \in Int /\ new.seq \in Int
  <2>1. Frontier = nextSeq - 1 /\ Frontier' = Frontier + 1
    BY <1>g, <1>s, <1>2, FrontierSteps
  <2>2. job[i].seq = nextSeq - 1
    BY <1>2 DEF CleanedInv, LinesInOrder, Newest
  <2>3. QED
    BY <1>a, <2>1, <2>2, NumberTypes
<1>c. \A l \in Stored : l.seq \in Int /\ l.seq < new.seq
  BY <1>b, NumberTypes DEF CleanedInv, LinesInOrder, BelowFrontier
<1>d. /\ today <= day /\ \A e \in Days : today < e => pending[e] = <<>> /\ StoredOn(e) = {}
      /\ \A d \in Days : StoredOn(d) \subseteq Stored
  BY <1>2 DEF CleanedInv, LinesInOrder, Newest, StoredOn, Stored
\* A line on a day is an old one there, or the new one today.
<1>o. ASSUME NEW d \in Days, NEW l \in StoredOn(d)' PROVE l \in StoredOn(d) \/ (l = new /\ d = today)
  BY <1>a
<1>m. \A d \in Days : StoredOn(d) \subseteq StoredOn(d)'
  BY <1>a
<1>i. \A d \in Days : d \in Int
  BY DEF Days
<1>p. \A l : Passed(l) => Passed(l)'
  BY <1>1, <1>e DEF Passed, InBatch
<1> HIDE DEF new, today
<1>3. OrderedInFile'
  <2> SUFFICES ASSUME NEW d \in Days, NEW j \in DOMAIN pending'[d], NEW k \in DOMAIN pending'[d], j < k
               PROVE  pending'[d][j].seq < pending'[d][k].seq
    BY DEF OrderedInFile
  <2>1. CASE d # today
    BY <2>1, <1>a DEF CleanedInv, LinesInOrder, Ordered, OrderedInFile
  <2>2. CASE d = today
    <3>1. pending[d] \in Seq(Line) /\ pending'[d] = Append(pending[d], new)
      BY <1>a, <2>2, NumberTypes
    <3>2. \A m \in DOMAIN pending[d] : pending[d][m] \in Stored
      BY <1>d DEF StoredOn
    <3>3. CASE k \in DOMAIN pending[d]
      BY <3>1, <3>3 DEF CleanedInv, LinesInOrder, Ordered, OrderedInFile
    <3>4. CASE k \notin DOMAIN pending[d]
      <4>1. k = Len(pending[d]) + 1 /\ j \in DOMAIN pending[d]
        BY <3>1, <3>4
      <4>2. pending'[d][k] = new /\ pending'[d][j] = pending[d][j]
        BY <1>a, <3>1, <4>1
      <4>3. QED
        BY <1>c, <3>2, <4>1, <4>2
    <3>5. QED
      BY <3>3, <3>4
  <2>3. QED
    BY <2>1, <2>2
<1>4. OrderedByDay'
  <2> SUFFICES ASSUME NEW d \in Days, NEW e \in Days, d < e, NEW l \in StoredOn(d)', NEW m \in StoredOn(e)'
               PROVE  l.seq < m.seq
    BY DEF OrderedByDay
  <2>1. CASE l \in StoredOn(d) /\ m \in StoredOn(e)
    BY <2>1 DEF CleanedInv, LinesInOrder, Ordered, OrderedByDay
  <2>2. CASE l \in StoredOn(d) /\ m = new
    BY <1>c, <1>d, <2>2
  <2>3. CASE l = new /\ d = today
    <3>1. StoredOn(e) = {} /\ e # today
      BY <1>a, <1>d, <1>i, <2>3
    <3>2. QED
      BY <1>o, <3>1
  <2>4. QED
    BY <1>o, <2>1, <2>2, <2>3
<1>5. BelowFrontier' /\ NothingBeyondToday'
  <2>1. BelowFrontier'
    BY <1>a, <1>b, <1>c DEF BelowFrontier
  <2>2. NothingBeyondToday'
    <3> SUFFICES ASSUME NEW e \in Days, day < e PROVE pending'[e] = <<>>
      BY <1>1 DEF NothingBeyondToday
    <3>1. e # today /\ pending[e] = <<>>
      BY <1>a, <1>d, <1>i, NumberTypes DEF CleanedInv, LinesInOrder, Ordered, NothingBeyondToday
    <3>2. QED
      BY <1>a, <3>1
  <2>3. QED
    BY <2>1, <2>2
<1>6. Newest'
  <2>1. \A e \in Days : job[i].day < e => pending'[e] = <<>>
    BY <1>a, <1>d, <1>i DEF today
  <2>2. job[i].day <= day /\ (job[i].day <= day - RetentionDays => job[i].trace \in late)
    BY <1>2 DEF CleanedInv, LinesInOrder, Newest
  <2>3. handle'[i] = "none" /\ \A j \in Ingesters : j # i => handle'[j] = handle[j]
    BY DEF AppendToOpen, CleanedTypeOK
  <2>4. QED
    BY <1>s, <1>1, <1>2, <2>1, <2>2, <2>3 DEF Newest
\* No index names a day after today.
<1>u. \A f \in IndexSet : \A e \in Days : today < e => ~ (f[e] > 0)
  <2> SUFFICES ASSUME NEW f \in IndexSet, NEW e \in Days, today < e, f[e] > 0 PROVE FALSE
    OBVIOUS
  <2>1. e <= job[i].day
    BY <1>2 DEF CleanedInv, Indexes, Index, Used
  <2>2. QED
    BY <1>a, <1>i, <2>1 DEF today
<1>7. Indexes'
  <2> SUFFICES ASSUME NEW f \in IndexSet' PROVE Index(f)'
    BY DEF Indexes
  <2>1. f \in IndexSet
    BY <1>1 DEF IndexSet
  <2>2. Used(f) /\ CoversEarlier(f)
    BY <2>1 DEF CleanedInv, Indexes, Index
  <2>3. Used(f)'
    BY <1>s, <1>1, <1>2, <2>2 DEF Used
  <2>4. CoversEarlier(f)'
    <3> SUFFICES ASSUME NEW d \in Days, NEW e \in Days, d < e, f[e] > 0, NEW l \in StoredOn(d)'
                 PROVE  Covered(f, d, l)'
      BY DEF CoversEarlier
    <3>1. CASE l \in StoredOn(d)
      <4>1. Covered(f, d, l)
        BY <2>2, <3>1 DEF CoversEarlier
      <4>2. QED
        BY <1>e, <4>1 DEF Covered
    <3>2. CASE d = today
      BY <1>u, <2>1, <3>2
    <3>3. QED
      BY <1>o, <3>1, <3>2
  <2>5. QED
    BY <2>3, <2>4 DEF Index
<1>8. Entered'
  <2> SUFFICES ASSUME NEW d \in Days, NEW l \in StoredOn(d)'
               PROVE  Covered(files, d, l)' \/ \E j \in Ingesters : ipc'[j] = "entry" /\ JobLineOn(j, d, l)'
    BY DEF Entered
  <2>1. CASE l \in StoredOn(d)
    <3>1. Covered(files, d, l)
      BY <1>s, <1>2, <2>1 DEF CleanedInv, Entered
    <3>2. QED
      BY <1>1, <1>e, <3>1 DEF Covered
  <2>2. CASE l = new /\ d = today
    <3>1. JobLineOn(i, d, l)'
      BY <1>1, <2>2 DEF JobLineOn, JobLine, new, today
    <3>2. QED
      BY <1>2, <3>1
  <2>3. QED
    BY <1>o, <2>1, <2>2
<1>9. Saved'
  <2> SUFFICES ASSUME ~ stale, NEW d \in Days, NEW l \in StoredOn(d)'
               PROVE  l.trace \in accepted => Covered(savedFiles, d, l)'
    BY <1>1 DEF Saved
  <2>1. CASE l \in StoredOn(d)
    BY <1>1, <1>e, <2>1 DEF CleanedInv, Saved, Covered
  <2>2. CASE l = new /\ d = today
    BY <1>2, <1>a, <2>2 DEF CleanedInv, Traced, WorksOnSubmitted
  <2>3. QED
    BY <1>o, <2>1, <2>2
<1>10. Imaged'
  <2>1. JobLine(i)' = new /\ job'[i].day = today
    BY <1>1 DEF JobLine, new, today
  <2>2. \A d \in Days : d = today => new \in StoredOn(d)'
    BY <1>a
  <2>3. JobLine(i)' \in StoredOn(job[i].day)'
    <3>1. PICK d \in Days : d = today
      BY <1>a
    <3>2. new \in StoredOn(d)'
      BY <2>2, <3>1
    <3>3. QED
      BY <1>1, <2>1, <3>1, <3>2 DEF StoredOn
  <2>4. QED
    BY <1>s, <1>2, <2>3 DEF Imaged
<1>11. Commits'
  <2>1. CommitsInOrder /\ commit \in Int /\ commit < new.seq /\ CommitsInOrder'
    BY <1>1, <1>b, NumberTypes DEF CleanedInv, Commits, CommitsInOrder
  <2>2. \A l \in Stored' : l.seq <= commit => l.trace \in Excused
    BY <1>a, <1>b, <2>1 DEF CleanedInv, Commits
  <2>3. QED
    BY <1>1, <1>e, <2>1, <2>2 DEF Commits
<1>12. Batcher'
  <2>1. Batcher /\ \A j \in DOMAIN batch : batch[j].seq \in Int
    BY NumberTypes DEF CleanedInv
  <2>2. BatchNumbers'
    BY <1>1, <1>a, <1>b, <2>1 DEF Batcher, BatchNumbers
  <2>3. NoGap'
    <3> SUFFICES ASSUME spc \in {"read", "post"}, NEW j \in DOMAIN batch, NEW l \in Stored',
                        commit < l.seq, l.seq < batch[j].seq
                 PROVE  l.trace \in Excused \/ \E k \in DOMAIN batch : k < j /\ batch[k] = l
      BY <1>1, <1>e DEF NoGap
    <3>1. l # new
      BY <1>b, <2>1 DEF Batcher, BatchNumbers
    <3>2. QED
      BY <1>a, <2>1, <3>1 DEF Batcher, NoGap
  <2>4. Posted'
    <3>1. lastOk \in Int
      BY SenderTypes
    <3>2. QED
      BY <1>1, <1>a, <1>b, <1>e, <2>1, <3>1 DEF Batcher, Posted
  <2>5. QED
    BY <2>2, <2>3, <2>4 DEF Batcher
<1>13. PassedFiles'
  <2> SUFFICES ASSUME spc = "read", NEW d \in Days, d < rday, NEW l \in StoredOn(d)'
               PROVE  Passed(l)' \/ \A e \in Days : d < e => snap[e] <= commit
    BY <1>1 DEF PassedFiles
  <2>1. CASE l \in StoredOn(d)
    BY <1>p, <2>1 DEF CleanedInv, Reader, PassedFiles
  <2>2. CASE d = today
    <3>1. \A e \in Days : today < e => ~ (snap[e] > 0)
      BY <1>u DEF IndexSet
    <3>2. commit \in Int /\ 0 <= commit /\ snap \in [Days -> Int]
      BY SenderTypes DEF CleanedInv, Commits, CommitsInOrder
    <3>3. QED
      BY <2>2, <3>1, <3>2
  <2>3. QED
    BY <1>o, <2>1, <2>2
<1>14. PassedLines'
  <2> SUFFICES ASSUME spc = "read", rday \in Days, snap[rday] > commit
               PROVE  /\ ridx <= Len(pending'[rday]) + 1
                      /\ \A k \in DOMAIN pending'[rday] : k < ridx => Passed(pending[rday][k])'
    BY <1>1 DEF PassedLines
  <2>1. /\ ridx <= Len(pending[rday]) + 1
        /\ \A k \in DOMAIN pending[rday] : k < ridx => Passed(pending[rday][k])
    BY DEF CleanedInv, Reader, PassedLines
  <2>2. pending[rday] \in Seq(Line) /\ ridx \in Int
    BY SenderTypes
  <2>3. \A k \in DOMAIN pending[rday] : pending'[rday][k] = pending[rday][k]
    BY <1>a, <2>2
  <2>4. /\ ridx <= Len(pending'[rday]) + 1
        /\ \A k \in DOMAIN pending'[rday] : k < ridx => k \in DOMAIN pending[rday]
    BY <1>a, <2>1, <2>2
  <2>5. ASSUME NEW k \in DOMAIN pending'[rday], k < ridx PROVE Passed(pending[rday][k])'
    <3>1. Passed(pending[rday][k]) /\ pending'[rday][k] = pending[rday][k]
      BY <2>1, <2>3, <2>4, <2>5
    <3>2. QED
      BY <1>1, <1>e, <3>1 DEF Passed, InBatch
  <2>6. QED
    BY <2>4, <2>5
<1>15. UnlinkedFile'
  <2>1. UnlinkedFile /\ ReadsUnlinked' = ReadsUnlinked
    BY <1>1 DEF CleanedInv, Reader, ReadsUnlinked, OpenedUnlinked
  <2>2. ASSUME ReadsUnlinked
        PROVE  /\ rday <= day /\ \A j \in Ingesters : ipc'[j] # "idle" => rday <= job[j].day
               /\ \A d \in Days : d < rday => \A l \in StoredOn(d)' : Passed(l)'
    <3>1. /\ rday <= day /\ rday <= today
          /\ \A d \in Days : d < rday => \A l \in StoredOn(d) : Passed(l)
      BY <1>2, <2>1, <2>2 DEF UnlinkedFile, today
    <3>2. rday \in Int
      BY NumberTypes
    <3>3. ASSUME NEW d \in Days, d < rday, NEW l \in StoredOn(d)' PROVE Passed(l)'
      <4>1. d # today
        BY <1>a, <1>i, <3>1, <3>2, <3>3
      <4>2. QED
        BY <1>o, <1>p, <3>1, <3>3, <4>1
    <3>4. QED
      BY <1>s, <3>1, <3>3 DEF today
  <2>3. ASSUME NEW k \in DOMAIN orphan
        PROVE  /\ orphan[k].seq < Frontier'
               /\ \A l \in Stored' : l.seq # orphan[k].seq
               /\ \A d \in Days : rday <= d => \A l \in StoredOn(d)' : orphan[k].seq < l.seq
    <3>1. /\ orphan[k].seq < Frontier /\ orphan[k].seq \in Int
          /\ \A l \in Stored : l.seq # orphan[k].seq
          /\ \A d \in Days : rday <= d => \A l \in StoredOn(d) : orphan[k].seq < l.seq
      BY <2>1, NumberTypes DEF UnlinkedFile
    <3>2. orphan[k].seq < Frontier' /\ orphan[k].seq < new.seq
      BY <1>b, <3>1
    <3>3. \A l \in Stored' : l.seq # orphan[k].seq
      BY <1>a, <1>b, <3>1, <3>2
    <3>4. \A d \in Days : rday <= d => \A l \in StoredOn(d)' : orphan[k].seq < l.seq
      BY <1>o, <3>1, <3>2
    <3>5. QED
      BY <3>2, <3>3, <3>4
  <2>4. QED
    BY <1>1, <2>1, <2>2, <2>3 DEF UnlinkedFile
<1>16. Traced'
  <2>1. LineOfOneTrace /\ WorksOnSubmitted /\ AcceptedIsStored /\ NotDropped
    BY DEF CleanedInv, Traced
  <2>2. /\ \A l \in Stored : l.trace # new.trace
        /\ new.trace \in submitted /\ new.trace \notin dropped
    BY <1>2, <1>a, <2>1 DEF LineOfOneTrace, WorksOnSubmitted, NotDropped
  <2>3. LineOfOneTrace'
    BY <1>s, <1>1, <1>2, <1>a, <2>1, <2>2 DEF LineOfOneTrace
  <2>4. WorksOnSubmitted'
    BY <1>s, <1>1, <1>2, <2>1 DEF WorksOnSubmitted
  <2>5. AcceptedIsStored'
    BY <1>1, <1>a, <1>e, <2>1 DEF AcceptedIsStored
  <2>6. NotDropped'
    BY <1>s, <1>1, <1>2, <1>a, <2>1, <2>2 DEF NotDropped
  <2>7. QED
    BY <2>3, <2>4, <2>5, <2>6 DEF Traced
<1>17. QED
  BY <1>3, <1>4, <1>5, <1>6, <1>7, <1>8, <1>9, <1>10, <1>11, <1>12, <1>13, <1>14, <1>15, <1>16
     DEF CleanedInv, LinesInOrder, Ordered, Reader

-----------------------------------------------------------------------------
(* CleanedInv through the steps of the sender.                             *)

LEMMA InOrderUnique == TypeOK /\ Ordered => \A l, m \in Stored : l.seq = m.seq => l = m
<1> SUFFICES ASSUME TypeOK, Ordered, NEW l \in Stored, NEW m \in Stored, l.seq = m.seq
             PROVE  l = m
  OBVIOUS
<1>1. PICK d \in Days, e \in Days : l \in StoredOn(d) /\ m \in StoredOn(e)
  BY DEF Stored
<1>2. l.seq \in Int /\ m.seq \in Int /\ d \in Int /\ e \in Int
  BY <1>1, NumberTypes
<1>3. d = e
  <2>1. ~ (d < e) /\ ~ (e < d)
    BY <1>1, <1>2 DEF Ordered, OrderedByDay
  <2>2. QED
    BY <1>2, <2>1
<1>4. PICK j \in DOMAIN pending[d], k \in DOMAIN pending[d] : l = pending[d][j] /\ m = pending[d][k]
  BY <1>1, <1>3 DEF StoredOn
<1>5. j \in Int /\ k \in Int
  BY <1>4, NumberTypes
<1>6. ~ (j < k) /\ ~ (k < j)
  BY <1>2, <1>4 DEF Ordered, OrderedInFile
<1>7. QED
  BY <1>4, <1>5, <1>6

\* The sender leaves the ingesters, their files and the cleaner alone, and reads no
\* further in a file that was unlinked.
LEMMA SendLeaves ==
    ASSUME TypeOK, TypeOK', CleanedTypeOK, CleanedInv, SendStep, ~ disturbed'
    PROVE  /\ Shrinks /\ Frontier' = Frontier /\ UNCHANGED pending
           /\ LinesInOrder' /\ Indexes' /\ Entered' /\ Saved' /\ Imaged' /\ Traced' /\ UnlinkedFile'
<1>1. /\ UNCHANGED <<nextSeq, files, ipc, job, img, day, pending, savedNext, savedFiles>>
      /\ UNCHANGED <<accepted, submitted, handle, cimg, stale, dropped, raced, late>>
      /\ snap' \in {snap, savedFiles, Empty} /\ orphan' = <<>>
  BY DEF SendStep, Send, LoadIngestState, ReadLine, NextFile, EndRead, PostOk, PostBadRequest, Answered,
         PostHttpError, PostNetworkError, EndBatch, SaveSenderState, SenderSaveFails, ReadFails, cleanVars, lossVars,
         ingestVars, diskVars, historyVars, worldVars, readVars
<1>2. delivered \subseteq delivered' /\ skipped \subseteq skipped'
  BY DEF SendStep, Send, LoadIngestState, ReadLine, NextFile, EndRead, PostOk, PostBadRequest, Answered,
         PostHttpError, PostNetworkError, EndBatch, SaveSenderState, SenderSaveFails, ReadFails, historyVars
<1>3. Shrinks /\ JobsGoOn /\ Frontier' = Frontier
  <2>1. Settled \subseteq Settled' /\ Excused \subseteq Excused'
    BY <1>1, <1>2 DEF Settled, Excused
  <2>2. QED
    BY <1>1, <2>1, NothingGone, JobsStay, SameFrontier
<1>4. Frontier <= Frontier'
  BY <1>3, FrontierTypes
<1>5. Indexes'
  BY <1>1, <1>3, IndexesKept DEF IndexSet, CleanedInv
<1>6. Ordered' /\ BelowFrontier'
  BY <1>1, <1>3, <1>4, OrderKept, FrontierKept DEF CleanedInv, LinesInOrder
<1>7. Newest' /\ Entered' /\ Saved' /\ Imaged'
  BY <1>1, <1>3, JobsKept DEF CleanedInv, LinesInOrder
<1>8. Traced'
  BY <1>1, <1>3, JobsKept, AcceptedKept DEF CleanedInv, Traced
<1>9. ~ ReadsUnlinked'
  <2>1. 0 <= commit /\ commit \in Int
    BY SenderTypes DEF CleanedInv, Commits, CommitsInOrder
  <2>2. CASE LoadIngestState \/ NextFile
    BY <1>1, <2>2 DEF LoadIngestState, NextFile, ReadsUnlinked, OpenedUnlinked
  <2>3. CASE ReadLine
    <3>1. snap'[rday'] > commit
      BY <2>3 DEF ReadLine
    <3>2. QED
      BY <2>1, <3>1 DEF ReadsUnlinked, OpenedUnlinked
  <2>4. CASE EndRead \/ PostOk \/ PostBadRequest \/ PostHttpError \/ PostNetworkError \/ EndBatch \/ SaveSenderState
             \/ SenderSaveFails
    BY <2>4 DEF EndRead, PostOk, PostBadRequest, Answered, Posting, PostHttpError, PostNetworkError, EndBatch,
                SaveSenderState, SenderSaveFails, ReadsUnlinked, OpenedUnlinked
  <2>5. ~ ReadFails
    BY DEF ReadFails, disturbed
  <2>6. QED
    BY <2>2, <2>3, <2>4, <2>5 DEF SendStep, Send
<1>10. UnlinkedFile'
  BY <1>1, <1>9 DEF UnlinkedFile
<1>11. QED
  BY <1>1, <1>3, <1>5, <1>6, <1>7, <1>8, <1>10 DEF LinesInOrder

\* What the steps of the sender have to keep beyond that.
Sent == Commits /\ PassedFiles /\ PassedLines /\ Batcher

LEMMA LoadSends ==
    ASSUME TypeOK, TypeOK', CleanedTypeOK, CleanedInv, SendStep, ~ disturbed', LoadIngestState
    PROVE  Sent'
<1>1. /\ spc' = "read" /\ rday' = 1 /\ ridx' = 1 /\ batch' = <<>>
      /\ UNCHANGED <<pending, commit, savedCommit>>
  BY DEF LoadIngestState, diskVars
<1>2. Commits'
  BY <1>1, SendLeaves, FrontierKept, FrontierTypes DEF CleanedInv
<1>3. PassedFiles'
  BY <1>1 DEF PassedFiles, Days
<1>4. PassedLines'
  <2>1. \A d \in Days : pending[d] \in Seq(Line)
    BY NumberTypes
  <2>2. QED
    BY <1>1, <2>1 DEF PassedLines
<1>5. Batcher'
  BY <1>1 DEF Batcher, BatchNumbers, NoGap, Posted
<1>6. QED
  BY <1>2, <1>3, <1>4, <1>5 DEF Sent

\* A line that joins the batch leaves no gap: the reader has passed what is before it.
LEMMA GrownBatch ==
    ASSUME TypeOK, TypeOK', CleanedInv, UNCHANGED <<pending, commit, spc>>, Shrinks, Frontier' = Frontier,
           spc = "read", NEW new, new.seq \in Int, new.seq > commit => new.seq < Frontier,
           \A k \in DOMAIN batch : k \in DOMAIN batch' /\ batch'[k] = batch[k],
           \A k \in DOMAIN batch' :
               \/ k \in DOMAIN batch
               \/ batch'[k] = new /\ new.seq > commit /\ \A n \in DOMAIN batch : n < k,
           \A l \in Stored : l.seq = new.seq => l = new,
           \A l \in Stored : commit < l.seq /\ l.seq < new.seq => Passed(l)
    PROVE  Batcher' /\ \A l : Passed(l) => Passed(l)'
<1> USE StoreKept
<1>1. commit \in Int
  BY SenderTypes
<1>2. \A l : Passed(l) => Passed(l)'
  BY DEF Passed, InBatch, Shrinks
<1>3. BatchNumbers'
  <2> SUFFICES ASSUME NEW j \in DOMAIN batch'
               PROVE  /\ commit < batch'[j].seq /\ batch'[j].seq < Frontier
                      /\ \A l \in Stored : l.seq = batch'[j].seq => l = batch'[j]
    BY DEF BatchNumbers
  <2>1. CASE j \in DOMAIN batch
    BY <2>1 DEF CleanedInv, Batcher, BatchNumbers
  <2>2. CASE j \notin DOMAIN batch
    BY <1>1, <2>2
  <2>3. QED
    BY <2>1, <2>2
<1>4. NoGap'
  <2> SUFFICES ASSUME NEW j \in DOMAIN batch', NEW l \in Stored, commit < l.seq, l.seq < batch'[j].seq,
                      l.trace \notin Excused'
               PROVE  \E k \in DOMAIN batch' : k < j /\ batch'[k] = l
    BY DEF NoGap
  <2>0. l.trace \notin Excused
    BY DEF Shrinks
  <2>1. CASE j \in DOMAIN batch
    BY <2>0, <2>1 DEF CleanedInv, Batcher, NoGap
  <2>2. CASE j \notin DOMAIN batch
    <3>1. Passed(l) /\ \A n \in DOMAIN batch : n < j
      BY <2>2
    <3>2. l.seq \in Int
      BY NumberTypes
    <3>3. InBatch(l)
      BY <1>1, <2>0, <3>1, <3>2 DEF Passed
    <3>4. QED
      BY <3>1, <3>3 DEF InBatch
  <2>3. QED
    BY <2>1, <2>2
<1>5. Posted'
  BY DEF Posted
<1>6. QED
  BY <1>2, <1>3, <1>4, <1>5 DEF Batcher

LEMMA ReadLineSends ==
    ASSUME TypeOK, TypeOK', CleanedTypeOK, CleanedInv, SendStep, ~ disturbed', ReadLine
    PROVE  Sent'
<1>q. PICK new : new = pending[rday][ridx]
  OBVIOUS
<1>1. UNCHANGED <<pending, spc, commit, savedCommit, snap, rday>>
  BY DEF ReadLine, diskVars
<1>2. /\ spc = "read" /\ rday \in Days /\ snap[rday] > commit /\ ridx \in DOMAIN pending[rday]
      /\ new \in StoredOn(rday) /\ new \in Stored /\ new \in Line /\ ridx' = ridx + 1
      /\ \A k \in DOMAIN batch : k \in DOMAIN batch' /\ batch'[k] = batch[k]
      /\ \A k \in DOMAIN batch' :
           \/ k \in DOMAIN batch
           \/ batch'[k] = new /\ new.seq > commit /\ \A n \in DOMAIN batch : n < k
      /\ new.seq > commit => \E k \in DOMAIN batch' : batch'[k] = new
  BY <1>q, ReadLineExtends
<1>3. rday \in Int /\ ridx \in Nat /\ pending[rday] \in Seq(Line) /\ commit \in Int /\ new.seq \in Int
      /\ snap[rday] \in Int /\ \A d \in Days : d \in Int
  BY <1>2, NumberTypes, SenderTypes
<1>4. \A l \in Stored : commit < l.seq /\ l.seq < new.seq => Passed(l)
  <2> SUFFICES ASSUME NEW d \in Days, NEW l \in StoredOn(d), commit < l.seq, l.seq < new.seq
               PROVE  Passed(l)
    BY DEF Stored
  <2>1. l.seq \in Int
    BY NumberTypes
  <2>2. CASE d < rday
    <3>1. ~ (snap[rday] <= commit)
      BY <1>2, <1>3
    <3>2. QED
      BY <1>2, <2>2, <3>1 DEF CleanedInv, Reader, PassedFiles
  <2>3. CASE d = rday
    <3>1. PICK k \in DOMAIN pending[rday] : l = pending[rday][k]
      BY <2>3 DEF StoredOn
    <3>2. k \in Int
      BY <1>3, <3>1
    <3>3. k # ridx
      BY <1>3, <1>q, <2>1, <3>1
    <3>4. ~ (ridx < k)
      <4>1. ridx < k => new.seq < l.seq
        BY <1>2, <1>q, <3>1 DEF CleanedInv, LinesInOrder, Ordered, OrderedInFile
      <4>2. QED
        BY <1>3, <2>1, <4>1
    <3>5. k < ridx
      BY <1>3, <3>2, <3>3, <3>4
    <3>6. QED
      BY <1>2, <3>1, <3>5 DEF CleanedInv, Reader, PassedLines
  <2>4. CASE rday < d
    <3>1. new.seq < l.seq
      BY <1>2, <2>4 DEF CleanedInv, LinesInOrder, Ordered, OrderedByDay
    <3>2. QED
      BY <1>3, <2>1, <3>1
  <2>5. QED
    BY <1>3, <2>2, <2>3, <2>4
<1>5. \A l \in Stored : l.seq = new.seq => l = new
  BY <1>2, InOrderUnique DEF CleanedInv, LinesInOrder
<1>6. new.seq < Frontier
  BY <1>2 DEF CleanedInv, LinesInOrder, BelowFrontier
<1>7. Batcher' /\ \A l : Passed(l) => Passed(l)'
  BY <1>1, <1>2, <1>3, <1>4, <1>5, <1>6, SendLeaves, GrownBatch
<1>8. PassedFiles'
  BY <1>1, <1>7, StoreKept DEF CleanedInv, Reader, PassedFiles
<1>9. PassedLines'
  <2>1. ridx + 1 <= Len(pending[rday]) + 1
    BY <1>2, <1>3
  <2>2. ASSUME NEW k \in DOMAIN pending[rday], k < ridx + 1 PROVE Passed(pending[rday][k])'
    <3>1. CASE k < ridx
      <4>1. Passed(pending[rday][k])
        BY <1>2, <3>1 DEF CleanedInv, Reader, PassedLines
      <4>2. PICK l : l = pending[rday][k]
        OBVIOUS
      <4>3. Passed(l)'
        BY <1>7, <4>1, <4>2
      <4>4. QED
        BY <1>1, <4>2, <4>3
    <3>2. CASE ~ (k < ridx)
      <4>1. k = ridx
        BY <1>3, <2>2, <3>2
      <4>2. new.seq > commit => InBatch(new)'
        BY <1>2 DEF InBatch
      <4>3. Passed(new)'
        BY <1>1, <4>2 DEF Passed
      <4>4. pending'[rday'][k] = new
        BY <1>1, <1>q, <4>1
      <4>5. QED
        BY <4>3, <4>4
    <3>3. QED
      BY <3>1, <3>2
  <2>3. QED
    BY <1>1, <1>2, <2>1, <2>2 DEF PassedLines
<1>10. Commits'
  BY <1>1, SendLeaves, FrontierKept, FrontierTypes DEF CleanedInv
<1>11. QED
  BY <1>7, <1>8, <1>9, <1>10 DEF Sent

LEMMA NextFileSends ==
    ASSUME TypeOK, TypeOK', CleanedTypeOK, CleanedInv, SendStep, ~ disturbed', NextFile
    PROVE  Sent'
<1>1. /\ spc = "read" /\ rday \in Days /\ rday' = rday + 1 /\ ridx' = 1
      /\ snap[rday] <= commit \/ ridx > Len(pending[rday])
      /\ UNCHANGED <<pending, spc, commit, savedCommit, snap, batch, pos, lastOk>>
  BY DEF NextFile, diskVars
<1>2. /\ rday \in Int /\ ridx \in Nat /\ pending[rday] \in Seq(Line) /\ commit \in Int /\ 0 <= commit
      /\ \A d \in Days : d \in Int /\ snap[d] \in Int
      /\ \A d \in Days : pending[d] \in Seq(Line)
  <2>1. 0 <= savedCommit /\ savedCommit <= commit /\ savedCommit \in Int /\ commit \in Int
    BY SenderTypes DEF CleanedInv, Commits, CommitsInOrder
  <2>2. QED
    BY <1>1, <2>1, NumberTypes, SenderTypes
<1>s. Shrinks /\ Frontier' = Frontier /\ Frontier <= Frontier'
  BY SendLeaves, FrontierTypes
<1>3. Commits' /\ Batcher'
  BY <1>1, <1>s, FrontierKept, BatchKept DEF CleanedInv
<1>4. ASSUME NEW d \in Days, d < rday + 1, NEW l \in StoredOn(d)
      PROVE  Passed(l) \/ \A e \in Days : d < e => snap[e] <= commit
  <2>1. CASE d < rday
    BY <1>1, <2>1 DEF CleanedInv, Reader, PassedFiles
  <2>2. CASE d = rday /\ snap[rday] <= commit
    <3>1. l.seq \in Int
      BY NumberTypes
    <3>2. ASSUME NEW e \in Days, d < e, ~ (snap[e] <= commit) PROVE Passed(l)
      <4>1. snap[e] > 0
        BY <1>2, <3>2
      <4>2. Covered(snap, d, l)
        BY <3>2, <4>1 DEF CleanedInv, Indexes, IndexSet, Index, CoversEarlier
      <4>3. QED
        BY <1>2, <2>2, <3>1, <4>2 DEF Covered, Passed
    <3>3. QED
      BY <3>2
  <2>3. CASE d = rday /\ ~ (snap[rday] <= commit)
    <3>1. PICK k \in DOMAIN pending[rday] : l = pending[rday][k]
      BY <2>3 DEF StoredOn
    <3>2. k < ridx /\ snap[rday] > commit
      BY <1>1, <1>2, <2>3
    <3>3. QED
      BY <1>1, <3>1, <3>2 DEF CleanedInv, Reader, PassedLines
  <2>4. QED
    BY <1>2, <1>4, <2>1, <2>2, <2>3
<1>5. PassedFiles'
  <2> SUFFICES ASSUME NEW d \in Days, d < rday + 1, NEW l \in StoredOn(d)
               PROVE  Passed(l)' \/ \A e \in Days : d < e => snap[e] <= commit
    BY <1>1, StoreKept DEF PassedFiles
  <2>1. QED
    BY <1>1, <1>4, <1>s, PassedKept
<1>6. PassedLines'
  BY <1>1, <1>2 DEF PassedLines
<1>7. QED
  BY <1>3, <1>5, <1>6 DEF Sent

LEMMA EndReadSends ==
    ASSUME TypeOK, TypeOK', CleanedTypeOK, CleanedInv, SendStep, ~ disturbed', EndRead
    PROVE  Sent'
<1>1. /\ spc = "read" /\ spc' \in {"idle", "post"} /\ pos' = 1
      /\ spc' = "post" => lastOk' = commit
      /\ UNCHANGED <<pending, commit, savedCommit, batch>>
  BY DEF EndRead, diskVars, readVars
<1>s. Shrinks /\ Frontier' = Frontier /\ Frontier <= Frontier'
  BY SendLeaves, FrontierTypes
<1>2. Commits' /\ PassedFiles' /\ PassedLines'
  BY <1>1, <1>s, FrontierKept DEF CleanedInv, PassedFiles, PassedLines
<1>3. BatchNumbers' /\ NoGap'
  BY <1>1, <1>s, StoreKept DEF CleanedInv, Batcher, BatchNumbers, NoGap, Shrinks
<1>4. Posted'
  <2>1. commit \in Int /\ batch \in Seq(Line)
    BY SenderTypes
  <2>2. commit < Frontier /\ \A l \in Stored : l.seq <= commit => l.trace \in Excused
    BY DEF CleanedInv, Commits, CommitsInOrder
  <2>3. \A k \in DOMAIN batch : ~ (k < 1)
    BY <2>1
  <2>4. QED
    BY <1>1, <1>s, <2>1, <2>2, <2>3, StoreKept DEF Posted, Shrinks
<1>5. QED
  BY <1>2, <1>3, <1>4 DEF Sent, Batcher

LEMMA AnswerSends ==
    ASSUME TypeOK, TypeOK', CleanedTypeOK, CleanedInv, SendStep, ~ disturbed', PostOk \/ PostBadRequest
    PROVE  Sent'
<1>0. PICK sent : sent = batch[pos]
  OBVIOUS
<1>1. /\ spc = "post" /\ spc' = "post" /\ pos \in DOMAIN batch /\ pos' = pos + 1 /\ lastOk' = sent.seq
      /\ Settled' = Settled \cup {sent.trace}
      /\ UNCHANGED <<pending, commit, savedCommit, batch>>
  <2>1. pos \in Nat \ {0} /\ batch \in Seq(Line)
    BY SenderTypes
  <2>2. QED
    BY <1>0, <2>1 DEF PostOk, PostBadRequest, Answered, Posting, Settled, diskVars, readVars
<1>s. Shrinks /\ Frontier' = Frontier /\ Frontier <= Frontier'
  BY SendLeaves, FrontierTypes
<1>2. Commits' /\ PassedFiles' /\ PassedLines'
  BY <1>1, <1>s, FrontierKept DEF CleanedInv, PassedFiles, PassedLines
<1>3. BatchNumbers' /\ NoGap'
  BY <1>1, <1>s, StoreKept DEF CleanedInv, Batcher, BatchNumbers, NoGap, Shrinks
<1>4. Posted'
  <2>1. /\ sent.seq \in Int /\ commit \in Int /\ commit < sent.seq /\ sent.seq < Frontier
        /\ \A l \in Stored : l.seq \in Int /\ (l.seq = sent.seq => l = sent)
    BY <1>0, <1>1, NumberTypes DEF CleanedInv, Batcher, BatchNumbers
  <2>2. ASSUME NEW l \in Stored, l.seq <= sent.seq PROVE l.trace \in Excused'
    <3>0. Settled' \subseteq Excused' /\ Excused \subseteq Excused'
      BY <1>s DEF Excused, Shrinks
    <3>1. CASE l.seq = sent.seq
      BY <1>1, <2>1, <3>0, <3>1
    <3>2. CASE l.seq <= commit
      BY <3>0, <3>2 DEF CleanedInv, Commits
    <3>3. CASE commit < l.seq /\ l.seq < sent.seq
      <4>1. l.trace \in Excused \/ \E k \in DOMAIN batch : k < pos /\ batch[k] = l
        BY <1>0, <1>1, <3>3 DEF CleanedInv, Batcher, NoGap
      <4>2. \A k \in DOMAIN batch : k < pos => batch[k].trace \in Settled
        BY <1>1 DEF CleanedInv, Batcher, Posted
      <4>3. QED
        BY <1>1, <3>0, <4>1, <4>2
    <3>4. QED
      BY <2>1, <2>2, <3>1, <3>2, <3>3
  <2>3. ASSUME NEW k \in DOMAIN batch, k < pos + 1 PROVE batch[k].trace \in Settled'
    <3>1. CASE k < pos
      BY <1>1, <3>1 DEF CleanedInv, Batcher, Posted
    <3>2. CASE ~ (k < pos)
      <4>1. k \in Int /\ pos \in Int
        BY SenderTypes
      <4>2. k = pos
        BY <2>3, <3>2, <4>1
      <4>3. QED
        BY <1>0, <1>1, <4>2
    <3>3. QED
      BY <3>1, <3>2
  <2>4. commit <= sent.seq
    BY <2>1
  <2>5. QED
    BY <1>1, <1>s, <2>1, <2>2, <2>3, <2>4, StoreKept DEF Posted
<1>5. QED
  BY <1>2, <1>3, <1>4 DEF Sent, Batcher

\* The commit id moves to what the batch reached, which is settled or excused.
LEMMA CommitSends ==
    ASSUME TypeOK, TypeOK', CleanedTypeOK, CleanedInv, SendStep, ~ disturbed', PostHttpError \/ EndBatch
    PROVE  Sent'
<1>1. /\ spc = "post" /\ spc' \in {"idle", "save"} /\ commit' = CommitReached
      /\ UNCHANGED <<pending, savedCommit>>
  BY DEF PostHttpError, EndBatch, Posting, diskVars
<1>s. Shrinks /\ Frontier' = Frontier
  BY SendLeaves
<1>2. commit \in Int /\ savedCommit \in Int /\ lastOk \in Int
  BY SenderTypes
<1>3. commit <= commit' /\ commit' < Frontier /\ \A l \in Stored : l.seq <= commit' => l.trace \in Excused
  BY <1>1, <1>2 DEF CommitReached, CleanedInv, Commits, CommitsInOrder, Batcher, Posted
<1>4. Commits'
  <2>1. 0 <= savedCommit /\ savedCommit <= commit' /\ commit' \in Int
    BY <1>1, <1>2, <1>3 DEF CleanedInv, Commits, CommitsInOrder, CommitReached
  <2>2. QED
    BY <1>1, <1>3, <1>s, <2>1, StoreKept DEF Commits, CommitsInOrder, Shrinks
<1>5. QED
  BY <1>1, <1>4 DEF Sent, PassedFiles, PassedLines, Batcher, BatchNumbers, NoGap, Posted

LEMMA GiveUpSends ==
    ASSUME TypeOK, TypeOK', CleanedTypeOK, CleanedInv, SendStep, ~ disturbed',
           PostNetworkError \/ SaveSenderState \/ SenderSaveFails
    PROVE  Sent'
<1>1. /\ spc' \in {"idle", "save"} /\ savedCommit' \in {savedCommit, commit}
      /\ UNCHANGED <<pending, commit>>
  BY DEF PostNetworkError, SaveSenderState, SenderSaveFails, diskVars
<1>s. Shrinks /\ Frontier' = Frontier
  BY SendLeaves
<1>2. commit \in Int /\ savedCommit \in Int
  BY SenderTypes
<1>3. Commits'
  BY <1>1, <1>2, <1>s, StoreKept DEF CleanedInv, Commits, CommitsInOrder, Shrinks
<1>4. QED
  BY <1>1, <1>3 DEF Sent, PassedFiles, PassedLines, Batcher, BatchNumbers, NoGap, Posted

LEMMA SendStepKeeps ==
    ASSUME TypeOK, TypeOK', CleanedTypeOK, CleanedInv, SendStep, ~ disturbed'
    PROVE  CleanedInv'
<1>0. ~ ReadFails
  BY DEF ReadFails, disturbed
<1>1. Sent'
  BY <1>0, LoadSends, ReadLineSends, NextFileSends, EndReadSends, AnswerSends, CommitSends, GiveUpSends
     DEF SendStep, Send
<1>2. QED
  BY <1>1, SendLeaves DEF CleanedInv, Sent, Reader

\* A line of an unlinked file comes after all that was read and before all that is stored.
LEMMA ReadOrphanKeeps ==
    ASSUME TypeOK, TypeOK', CleanedTypeOK, CleanedInv, ReadOrphan
    PROVE  CleanedInv'
<1>0. PICK new : new = Head(orphan)
  OBVIOUS
<1>1. /\ spc = "read" /\ orphan # <<>> /\ orphan' = Tail(orphan) /\ batch' = Batched(new)
      /\ UNCHANGED <<nextSeq, files, ipc, job, img, day, pending, savedNext, savedFiles, savedCommit>>
      /\ UNCHANGED <<accepted, submitted, delivered, skipped, handle, cimg, stale, dropped, raced, late>>
      /\ UNCHANGED <<spc, commit, snap, rday, ridx, pos, lastOk>>
  BY <1>0 DEF ReadOrphan, ingestVars, diskVars, historyVars, worldVars, cleanVars, lossVars
<1>2. Shrinks /\ JobsGoOn /\ Frontier' = Frontier
  BY <1>1, SameExcuses, NothingGone, JobsStay, SameFrontier
<1>3. Frontier <= Frontier'
  BY <1>2, FrontierTypes
<1>4. orphan \in Seq(Line) /\ commit \in Int /\ batch \in Seq(Line)
  BY SenderTypes DEF CleanedTypeOK
<1>5. 1 \in DOMAIN orphan /\ orphan[1] = new /\ new \in Line /\ new.seq \in Int
  <2>1. 1 \in DOMAIN orphan /\ orphan[1] = new
    BY <1>0, <1>1, <1>4
  <2>2. QED
    BY <2>1, NumberTypes
<1>6. /\ rday \in Days /\ ReadsUnlinked /\ new.seq < Frontier
      /\ \A l \in Stored : l.seq # new.seq
      /\ \A d \in Days : d < rday => \A l \in StoredOn(d) : Passed(l)
      /\ \A d \in Days : rday <= d => \A l \in StoredOn(d) : new.seq < l.seq
  BY <1>1, <1>5 DEF CleanedInv, Reader, UnlinkedFile, ReadsUnlinked
<1>7. \A l \in Stored : commit < l.seq /\ l.seq < new.seq => Passed(l)
  <2> SUFFICES ASSUME NEW d \in Days, NEW l \in StoredOn(d), l.seq < new.seq PROVE Passed(l)
    BY DEF Stored
  <2>1. l.seq \in Int /\ d \in Int /\ rday \in Int
    BY NumberTypes
  <2>2. d < rday
    <3>1. ~ (new.seq < l.seq)
      BY <1>5, <2>1
    <3>2. QED
      BY <1>6, <2>1, <3>1
  <2>3. QED
    BY <1>6, <2>2
<1>8. /\ \A k \in DOMAIN batch : k \in DOMAIN batch' /\ batch'[k] = batch[k]
      /\ \A k \in DOMAIN batch' :
           \/ k \in DOMAIN batch
           \/ batch'[k] = new /\ new.seq > commit /\ \A n \in DOMAIN batch : n < k
  <2>1. CASE new.seq > commit
    <3>1. batch' = Append(batch, new)
      BY <1>1, <2>1 DEF Batched
    <3>2. /\ DOMAIN batch' = DOMAIN batch \cup {Len(batch) + 1}
          /\ \A k \in DOMAIN batch : batch'[k] = batch[k]
          /\ batch'[Len(batch) + 1] = new
          /\ \A n \in DOMAIN batch : n < Len(batch) + 1
      BY <1>4, <1>5, <3>1
    <3>3. QED
      BY <2>1, <3>2
  <2>2. CASE ~ (new.seq > commit)
    BY <1>1, <2>2 DEF Batched
  <2>3. QED
    BY <2>1, <2>2
<1>9. Batcher' /\ \A l : Passed(l) => Passed(l)'
  <2>1. \A l \in Stored : l.seq = new.seq => l = new
    BY <1>6
  <2>2. QED
    BY <1>1, <1>2, <1>5, <1>6, <1>7, <1>8, <2>1, GrownBatch
<1>10. PassedFiles'
  BY <1>1, <1>9, StoreKept DEF CleanedInv, Reader, PassedFiles
<1>11. PassedLines'
  BY <1>1, <1>9 DEF CleanedInv, Reader, PassedLines
<1>12. UnlinkedFile'
  <2>1. ReadsUnlinked' => ReadsUnlinked
    BY <1>6
  <2>2. orphan' # <<>> => ReadsUnlinked'
    BY <1>1, <1>6 DEF ReadsUnlinked, OpenedUnlinked
  <2>3. \A k \in DOMAIN orphan' : \E n \in DOMAIN orphan : orphan'[k] = orphan[n]
    <3> SUFFICES ASSUME NEW k \in DOMAIN orphan' PROVE \E n \in DOMAIN orphan : orphan'[k] = orphan[n]
      OBVIOUS
    <3>1. k + 1 \in DOMAIN orphan /\ orphan'[k] = orphan[k + 1]
      BY <1>1, <1>4
    <3>2. QED
      BY <3>1
  <2>4. /\ rday <= day /\ \A i \in Ingesters : ipc[i] # "idle" => rday <= job[i].day
    BY <1>6 DEF CleanedInv, Reader, UnlinkedFile
  <2>5. \A d \in Days : d < rday => \A l \in StoredOn(d) : Passed(l)'
    BY <1>6, <1>9
  <2>6. ASSUME NEW k \in DOMAIN orphan'
        PROVE  /\ orphan'[k].seq < Frontier
               /\ \A l \in Stored : l.seq # orphan'[k].seq
               /\ \A d \in Days : rday <= d => \A l \in StoredOn(d) : orphan'[k].seq < l.seq
    <3>1. PICK n \in DOMAIN orphan : orphan'[k] = orphan[n]
      BY <2>3
    <3>2. QED
      BY <3>1 DEF CleanedInv, Reader, UnlinkedFile
  <2>7. QED
    BY <1>1, <1>2, <2>2, <2>4, <2>5, <2>6, StoreKept DEF UnlinkedFile
<1>13. Indexes'
  BY <1>1, <1>2, IndexesKept DEF IndexSet, CleanedInv
<1>14. Ordered' /\ BelowFrontier' /\ Commits'
  BY <1>1, <1>2, <1>3, OrderKept, FrontierKept DEF CleanedInv, LinesInOrder
<1>15. Newest' /\ Entered' /\ Saved' /\ Imaged'
  BY <1>1, <1>2, JobsKept DEF CleanedInv, LinesInOrder
<1>16. Traced'
  BY <1>1, <1>2, JobsKept, AcceptedKept DEF CleanedInv, Traced
<1>17. QED
  BY <1>9, <1>10, <1>11, <1>12, <1>13, <1>14, <1>15, <1>16 DEF CleanedInv, LinesInOrder, Reader

-----------------------------------------------------------------------------
(* CleanedInv through a crash and the steps of the world.                  *)

\* Where nothing is exposed ingest.json covers every line: the restart finds them all.
LEMMA RestartKeepsClean ==
    ASSUME TypeOK, TypeOK', CleanedTypeOK, CleanedInv, ~ disturbed', CleanedRestart
    PROVE  CleanedInv'
<1>1. /\ UNCHANGED <<pending, savedNext, savedFiles, savedCommit, submitted, accepted>>
      /\ UNCHANGED <<delivered, skipped, day, dropped, raced>>
      /\ nextSeq' = NextSeqAtStart /\ files' = savedFiles /\ commit' = savedCommit
      /\ spc' = "idle" /\ snap' = Empty /\ cimg'.files = Empty /\ orphan' = <<>>
      /\ \A i \in Ingesters : ipc'[i] = "idle" /\ img'[i].files = Empty /\ handle'[i] = "none"
      /\ ~ stale'
  <2>1. /\ UNCHANGED <<pending, savedNext, savedFiles, savedCommit, submitted, accepted>>
        /\ UNCHANGED <<delivered, skipped, day>>
        /\ nextSeq' = NextSeqAtStart /\ files' = savedFiles /\ commit' = savedCommit
        /\ spc' = "idle" /\ snap' = Empty
    BY DEF CleanedRestart, Restart
  <2>2. UNCHANGED <<dropped, raced>> /\ cimg'.files = Empty /\ orphan' = <<>> /\ ~ stale'
    BY DEF CleanedRestart, Rest
  <2>3. \A i \in Ingesters : ipc'[i] = "idle" /\ img'[i].files = Empty /\ handle'[i] = "none"
    BY DEF CleanedRestart, Restart, NoImage
  <2>4. QED
    BY <2>1, <2>2, <2>3
<1>2. IndexIsSaved
  <2>1. PICK half : exposed' = (exposed \/ half # {} \/ ~ IndexIsSaved)
    BY DEF CleanedRestart, Restart
  <2>2. QED
    BY <2>1 DEF disturbed
<1>3. Shrinks /\ JobsGoOn
  <2>1. Shrinks
    BY <1>1, SameExcuses, NothingGone
  <2>2. JobsGoOn
    BY <1>1, NumberTypes DEF JobsGoOn
  <2>3. QED
    BY <2>1, <2>2
<1>4. /\ savedNext \in Int /\ savedCommit \in Int /\ commit \in Int
      /\ NextSeqAtStart \in Int /\ savedNext <= NextSeqAtStart /\ savedCommit < NextSeqAtStart
      /\ 0 <= savedCommit /\ savedCommit <= commit
  BY SenderTypes DEF TypeOK, DiskType, NextSeqAtStart, CleanedInv, Commits, CommitsInOrder
<1>5. Frontier' = NextSeqAtStart
  BY <1>1 DEF Frontier, Reserved
<1>6. \A d \in Days : \A l \in StoredOn(d) : Covered(savedFiles, d, l) /\ l.seq < savedNext
  BY <1>2 DEF IndexIsSaved, Covered
<1>7. \A d \in Days : \A l \in StoredOn(d) : Covered(savedFiles, d, l)'
  BY <1>1, <1>3, <1>6 DEF Covered, Shrinks
<1>8. Ordered' /\ BelowFrontier' /\ Newest'
  <2>1. Ordered'
    BY <1>1, <1>3, OrderKept DEF CleanedInv, LinesInOrder
  <2>2. BelowFrontier'
    <3>1. \A l \in Stored : l.seq \in Int /\ l.seq < savedNext
      BY <1>6, NumberTypes DEF Stored
    <3>2. QED
      BY <1>1, <1>4, <1>5, <3>1, StoreKept DEF BelowFrontier
  <2>3. Newest'
    BY <1>1 DEF Newest
  <2>4. QED
    BY <2>1, <2>2, <2>3
<1>9. Indexes'
  <2>1. \A f \in IndexSet' : f = savedFiles \/ f = Empty
    BY <1>1 DEF IndexSet
  <2>2. QED
    BY <1>1, <1>3, <2>1, IndexesKept DEF IndexSet, CleanedInv
<1>10. Entered' /\ Saved' /\ Imaged'
  <2>1. Entered'
    BY <1>1, <1>7, StoreKept DEF Entered, Covered
  <2>2. Saved'
    BY <1>1, <1>7, StoreKept DEF Saved, Covered
  <2>3. Imaged'
    BY <1>1 DEF Imaged, Unsaved
  <2>4. QED
    BY <2>1, <2>2, <2>3
<1>11. Commits'
  <2>1. \A l \in Stored : l.seq <= savedCommit => l.trace \in Excused
    <3>1. \A l \in Stored : l.seq <= commit => l.trace \in Excused
      BY DEF CleanedInv, Commits
    <3>2. \A l \in Stored : l.seq <= savedCommit => l.seq <= commit
      BY <1>4, NumberTypes
    <3>3. QED
      BY <3>1, <3>2
  <2>2. QED
    BY <1>1, <1>3, <1>4, <1>5, <2>1, StoreKept DEF Commits, CommitsInOrder, Shrinks
<1>12. Reader' /\ Batcher'
  BY <1>1 DEF Reader, PassedFiles, PassedLines, UnlinkedFile, ReadsUnlinked, OpenedUnlinked,
              Batcher, BatchNumbers, NoGap, Posted
<1>13. Traced'
  <2>1. LineOfOneTrace' /\ WorksOnSubmitted' /\ NotDropped'
    BY <1>1, StoreKept DEF CleanedInv, Traced, LineOfOneTrace, WorksOnSubmitted, NotDropped
  <2>2. QED
    BY <1>1, <1>3, <2>1, AcceptedKept DEF CleanedInv, Traced
<1>14. QED
  BY <1>8, <1>9, <1>10, <1>11, <1>12, <1>13 DEF CleanedInv, LinesInOrder

LEMMA WorldStepKeeps ==
    ASSUME TypeOK, TypeOK', CleanedTypeOK, CleanedInv, WorldStep
    PROVE  CleanedInv'
<1>1. /\ UNCHANGED <<ingestVars, senderVars, diskVars, historyVars, cleanVars, fileVars>>
      /\ UNCHANGED <<stale, dropped, raced>> /\ day' \in {day, day + 1}
  BY DEF WorldStep, NewDay, LangfuseDown, LangfuseUp
<1>l. \A j \in Ingesters :
        ipc'[j] # "idle" /\ job'[j].day <= day' - RetentionDays => job'[j].trace \in late'
  BY LateSeen DEF WorldStep
<1>2. /\ UNCHANGED <<nextSeq, files, ipc, job, img, spc, commit, snap, rday, ridx, batch, pos, lastOk>>
      /\ UNCHANGED <<pending, savedNext, savedFiles, savedCommit, submitted, accepted>>
      /\ UNCHANGED <<delivered, skipped, handle, orphan, stale, dropped, raced, cimg>>
  BY <1>1 DEF ingestVars, senderVars, readVars, diskVars, historyVars, cleanVars, fileVars
<1>3. day \in Int /\ day <= day' /\ \A i \in Ingesters : job[i].day \in Int
  BY <1>1, NumberTypes DEF Days
<1>4. Shrinks /\ Frontier' = Frontier /\ Frontier <= Frontier'
  BY <1>2, SameExcuses, NothingGone, SameFrontier, FrontierTypes
<1>5. JobsGoOn
  BY <1>2, <1>3 DEF JobsGoOn
<1>6. Ordered'
  <2>1. \A e \in Days : day' < e => day < e
    BY <1>1, <1>3 DEF Days
  <2>2. QED
    BY <1>2, <2>1, StoreKept DEF CleanedInv, LinesInOrder, Ordered, OrderedInFile, OrderedByDay, NothingBeyondToday
<1>7. BelowFrontier' /\ Commits' /\ Batcher' /\ Reader'
  BY <1>2, <1>4, <1>5, FrontierKept, BatchKept, ReaderKept DEF CleanedInv, LinesInOrder, Reader
<1>8. Newest'
  <2>1. ASSUME NEW i \in Ingesters, ipc[i] # "idle" PROVE job[i].day <= day'
    <3>1. job[i].day <= day
      BY <2>1 DEF CleanedInv, LinesInOrder, Newest
    <3>2. QED
      BY <1>1, <1>3, <3>1
  <2>2. QED
    BY <1>l, <1>2, <2>1 DEF CleanedInv, LinesInOrder, Newest
<1>9. Indexes'
  BY <1>2, <1>4, <1>5, IndexesKept DEF IndexSet, CleanedInv
<1>10. Entered' /\ Saved' /\ Imaged'
  BY <1>2, <1>4, JobsKept DEF CleanedInv
<1>11. Traced'
  BY <1>2, <1>4, JobsKept, AcceptedKept DEF CleanedInv, Traced
<1>12. QED
  BY <1>6, <1>7, <1>8, <1>9, <1>10, <1>11 DEF CleanedInv, LinesInOrder

LEMMA CleanedInitHolds == CleanedInit => TypeOK /\ CleanedTypeOK /\ Calm /\ CleanedInv
<1> SUFFICES ASSUME CleanedInit PROVE TypeOK /\ CleanedTypeOK /\ Calm /\ CleanedInv
  OBVIOUS
<1>1. Init /\ \A i \in Ingesters : ipc[i] = "idle" /\ handle[i] = "none" /\ img[i].files = Empty
  BY DEF CleanedInit, Init, NoImage
<1>2. /\ \A d \in Days : pending[d] = <<>> /\ StoredOn(d) = {}
      /\ Stored = {}
  BY <1>1 DEF Init, StoredOn, Stored
<1>3. TypeOK
  BY <1>1, InitTypes
<1>4. CleanedTypeOK
  <2>1. 1 \in Days /\ late \subseteq Traces /\ cimg \in [next : Int, files : [Days -> Int]]
    BY LangstashAssumption DEF CleanedInit, Days, Empty
  <2>2. handle \in [Ingesters -> {"none", "open", "unlinked"}] /\ orphan \in Seq(Line)
    BY DEF CleanedInit
  <2>3. removed \in BOOLEAN /\ stale \in BOOLEAN
    BY DEF CleanedInit
  <2>4. QED
    BY <2>1, <2>2, <2>3 DEF CleanedInit, CleanedTypeOK
<1>5. LinesInOrder
  BY <1>1, <1>2 DEF LinesInOrder, Ordered, OrderedInFile, OrderedByDay, NothingBeyondToday, BelowFrontier, Newest
<1>6. Indexes
  <2>1. \A f \in IndexSet : f = Empty
    BY <1>1 DEF IndexSet, Init, CleanedInit
  <2>2. \A f \in IndexSet : \A e \in Days : ~ (f[e] > 0)
    BY <2>1 DEF Empty
  <2>3. QED
    BY <2>2 DEF Indexes, Index, Used, CoversEarlier
<1>7. Entered /\ Saved /\ Imaged
  BY <1>1, <1>2 DEF Entered, Saved, Imaged, Unsaved
<1>8. Commits
  BY <1>1, <1>2 DEF Init, Commits, CommitsInOrder, Frontier, Reserved
<1>9. Reader /\ Batcher
  BY <1>1, <1>2 DEF Init, CleanedInit, Reader, PassedFiles, PassedLines, UnlinkedFile, ReadsUnlinked,
                    OpenedUnlinked, Batcher, BatchNumbers, NoGap, Posted
<1>10. Traced
  BY <1>1, <1>2 DEF Init, CleanedInit, Traced, LineOfOneTrace, WorksOnSubmitted, AcceptedIsStored, NotDropped
<1>11. Calm
  BY <1>1 DEF Init, Calm, OneIngester, Undamaged
<1>12. QED
  BY <1>3, <1>4, <1>5, <1>6, <1>7, <1>8, <1>9, <1>10, <1>11 DEF CleanedInv

-----------------------------------------------------------------------------
(* The theorems.                                                           *)

\* Whatever the cleaner, the ingesters and the sender do, every variable keeps its type.
THEOREM CleanedTypeCorrect == CleanedSpec => [](TypeOK /\ CleanedTypeOK)
<1>1. CleanedInit => TypeOK /\ CleanedTypeOK
  BY CleanedInitHolds
<1>2. QED
  BY <1>1, CleanedTypesHold, PTL DEF CleanedSpec

LEMMA CleanedStepKeeps ==
    ASSUME TypeOK, CleanedTypeOK, Calm, CleanedInv, [CleanedNext]_cleanedVars, ~ disturbed'
    PROVE  CleanedInv'
<1>1. TypeOK' /\ CleanedTypeOK' /\ OneIngester
  BY CleanedTypesHold DEF Calm
<1>2. CASE Clean
  BY <1>1, <1>2, CleanKeeps
<1>3. ASSUME NEW i \in Ingesters,
             OpenPending(i) \/ AppendToOpen(i) \/ AppendToUnlinked(i) \/ OpenedFails(i) \/ ReplaceByIngest(i)
      PROVE  CleanedInv'
  BY <1>1, <1>3, OpenKeeps, AppendKeeps, LostAppendKeeps, OpenedFailsKeeps, ReplaceKeeps
<1>4. ASSUME NEW i \in Ingesters, IngestStep(i) PROVE CleanedInv'
  BY <1>1, <1>4, AllocateKeeps, GiveBackKeeps, UpdateKeeps, TakeImageKeeps, SaveFailsKeeps DEF IngestStep
<1>5. CASE ReadOrphan
  BY <1>1, <1>5, ReadOrphanKeeps
<1>6. CASE SendStep
  BY <1>1, <1>6, SendStepKeeps
<1>7. CASE CleanedRestart
  BY <1>1, <1>7, RestartKeepsClean
<1>8. CASE WorldStep
  BY <1>1, <1>8, WorldStepKeeps
<1>9. CASE UNCHANGED cleanedVars
  BY <1>1, <1>9, QuietKeeps DEF cleanedVars, cleanVars, vars, worldVars
<1>10. QED
  BY <1>1, <1>2, <1>3, <1>4, <1>5, <1>6, <1>7, <1>8, <1>9 DEF CleanedNext

\* The inductive invariant: until ingests overlap or something is exposed, index, commit id,
\* batch and files stand to each other as the queue needs it, the cleaner's work included.
THEOREM CleanedInvariant ==
    CleanedSpec => [](TypeOK /\ CleanedTypeOK /\ (~ disturbed => Calm /\ CleanedInv))
<1>1. CleanedInit => TypeOK /\ CleanedTypeOK /\ (~ disturbed => Calm /\ CleanedInv)
  BY CleanedInitHolds
<1>2. TypeOK /\ CleanedTypeOK /\ (~ disturbed => Calm /\ CleanedInv) /\ [CleanedNext]_cleanedVars
        => (TypeOK /\ CleanedTypeOK /\ (~ disturbed => Calm /\ CleanedInv))'
  <2> SUFFICES ASSUME TypeOK, CleanedTypeOK, ~ disturbed => Calm /\ CleanedInv, [CleanedNext]_cleanedVars
               PROVE  TypeOK' /\ CleanedTypeOK' /\ (~ disturbed' => Calm' /\ CleanedInv')
    OBVIOUS
  <2>1. TypeOK' /\ CleanedTypeOK'
    BY CleanedTypesHold
  <2>2. ~ disturbed' => ~ disturbed
    BY DisturbedStays
  <2>3. ASSUME ~ disturbed' PROVE Calm' /\ CleanedInv'
    BY <2>2, <2>3, CalmKept, CleanedStepKeeps
  <2>4. QED
    BY <2>1, <2>3
<1>3. QED
  BY <1>1, <1>2, PTL DEF CleanedSpec

\* Until ingests overlap or something is exposed, an accepted trace that the cleaner neither
\* dropped nor raced with stays in a pending file above the commit id, and ingest.json covers
\* it unless the cleaner's is the older one.
THEOREM QueueKeptBesideCleaner == CleanedSpec => []KeptBesideCleaner
<1>1. TypeOK /\ (~ disturbed => Calm /\ CleanedInv) => KeptBesideCleaner
  <2> SUFFICES ASSUME TypeOK, CleanedInv, NEW t \in accepted, t \notin Excused
               PROVE  \E d \in Days : \E l \in StoredOn(d) :
                        l.trace = t /\ l.seq > commit /\ (stale \/ l.seq <= savedFiles[d])
    BY DEF KeptBesideCleaner, Excused
  <2>0. PICK d \in Days : \E l \in StoredOn(d) : l.trace = t
    BY DEF CleanedInv, Traced, AcceptedIsStored, Stored
  <2>1. PICK l \in StoredOn(d) : l.trace = t
    BY <2>0
  <2>2. l.seq > commit
    <3>1. l \in Stored /\ l.seq \in Int /\ commit \in Int
      BY NumberTypes DEF Stored
    <3>2. ~ (l.seq <= commit)
      BY <2>1, <3>1 DEF CleanedInv, Commits
    <3>3. QED
      BY <3>1, <3>2
  <2>3. stale \/ l.seq <= savedFiles[d]
    BY <2>1 DEF CleanedInv, Saved, Covered
  <2>4. QED
    BY <2>1, <2>2, <2>3
<1>2. QED
  BY <1>1, CleanedInvariant, PTL

-----------------------------------------------------------------------------
(* What the cleaner removes: RoundInv.                                     *)

\* A line the commit id covers was sent, or raced with; only the one whose entry is still
\* to come is left.
LEMMA CoveredIsSent ==
    ASSUME TypeOK, CleanedTypeOK, CleanedInv, RoundInv, NEW d \in Days, files[d] <= ccommit,
           NEW l \in StoredOn(d)
    PROVE  \/ l.trace \in Settled \cup raced
           \/ \E i \in Ingesters : ipc[i] = "entry" /\ JobLineOn(i, d, l)
<1>1. /\ l.seq \in Int /\ files[d] \in Int /\ ccommit \in Int /\ savedCommit \in Int /\ commit \in Int
      /\ ccommit <= savedCommit /\ savedCommit <= commit
  BY NumberTypes, SenderTypes
     DEF RoundInv, CleanedInv, Commits, CommitsInOrder, CleanedTypeOK, TypeOK, IngestType
<1>2. l \in Stored
  BY DEF Stored
<1>3. l.seq <= files[d] => l.seq <= commit
  BY <1>1
<1>4. Covered(files, d, l) => l.trace \in Excused
  BY <1>2, <1>3 DEF Covered, CleanedInv, Commits
<1>5. l.trace \notin dropped
  BY <1>2 DEF CleanedInv, Traced, NotDropped
<1>6. QED
  BY <1>4, <1>5 DEF CleanedInv, Entered, Excused

LEMMA ExpiresForGood ==
    \A d, today, later, r \in Int : d <= today - r /\ today <= later => d <= later - r
  OBVIOUS

\* A step beside the cleaner adds lines only of traces not yet accepted, and the old
\* files only of who is late.
LEMMA RoundKept ==
    ASSUME TypeOK, TypeOK', CleanedTypeOK, RoundInv,
           UNCHANGED <<cpc, phase, ctodo, cday, ccommit, before>>,
           accepted \subseteq accepted', savedCommit <= savedCommit', day <= day',
           Settled \subseteq Settled', raced \subseteq raced', late \subseteq late',
           \A d \in Days : \A l \in StoredOn(d)' :
               l \in StoredOn(d) \/ (l.trace \notin accepted /\ (d <= day - RetentionDays => l.trace \in late))
    PROVE  RoundInv'
<1>1. /\ day \in Int /\ day' \in Int /\ cday \in Days /\ cday \in Int /\ ctodo \subseteq Days
      /\ ccommit \in Int /\ savedCommit \in Int /\ savedCommit' \in Int /\ RetentionDays \in Int
  BY CleanerAssumption, NumberTypes, SenderTypes DEF CleanedTypeOK, TypeOK, WorldType, DiskType, Days
<1>2. before' \subseteq accepted' /\ ccommit' <= savedCommit'
  BY <1>1 DEF RoundInv
<1>3. ASSUME cpc = "unlink", phase = "retention"
      PROVE  /\ cday <= day' - RetentionDays
             /\ \A l \in StoredOn(cday)' : l.trace \in Settled' \cup raced' \cup late'
  <2>1. \A l \in StoredOn(cday) : l.trace \in Settled \cup raced \cup late
    BY <1>3 DEF RoundInv
  <2>d. cday <= day - RetentionDays
    BY <1>3 DEF RoundInv
  <2>2. PICK c \in Days : c = cday
    BY <1>1
  <2>3. cday <= day' - RetentionDays
    BY <1>1, <2>d, ExpiresForGood
  <2>4. \A l \in StoredOn(c)' : l.trace \in Settled' \cup raced' \cup late'
    BY <2>1, <2>2, <2>d
  <2>5. StoredOn(cday)' = StoredOn(c)'
    BY <2>2 DEF StoredOn
  <2>6. QED
    BY <2>2, <2>3, <2>4, <2>5
<1>4. ASSUME NEW d \in Days, GoneOrLater(d) PROVE GoneOrLater(d)'
  BY <1>4 DEF GoneOrLater, RoundInv
<1>5. ASSUME cpc = "delete" PROVE \A l \in StoredOn(cday)' : l.trace \notin before
  <2>1. PICK c \in Days : c = cday
    BY <1>1
  <2>2. \A l \in StoredOn(c)' : l.trace \notin before
    BY <1>5, <2>1 DEF RoundInv
  <2>3. StoredOn(cday)' = StoredOn(c)'
    BY <2>1 DEF StoredOn
  <2>4. QED
    BY <2>2, <2>3
<1>6. phase = "committed" => \A d \in ctodo : GoneOrLater(d)'
  BY <1>1, <1>4 DEF RoundInv
<1>7. ASSUME cpc = "unlink", phase # "uncommitted" PROVE GoneOrLater(cday)'
  <2>1. PICK c \in Days : c = cday
    BY <1>1
  <2>2. GoneOrLater(c)'
    BY <1>4, <1>7, <2>1 DEF RoundInv
  <2>3. QED
    BY <2>1, <2>2
<1>8. QED
  BY <1>2, <1>3, <1>5, <1>6, <1>7 DEF RoundInv

LEMMA RoundKeptByClean ==
    ASSUME TypeOK, TypeOK', CleanedTypeOK, CleanedInv, RoundInv, Clean
    PROVE  RoundInv'
<1>1. /\ ctodo \subseteq Days /\ cday \in Days /\ 0 <= savedCommit /\ savedCommit \in Int /\ day \in Int
      /\ RetentionDays \in Int
  BY CleanerAssumption, NumberTypes, SenderTypes DEF CleanedTypeOK, CleanedInv, Commits, CommitsInOrder
<1>2. ASSUME NEW i \in Ingesters, ipc[i] = "entry"
      PROVE  job[i].trace \notin accepted /\ (job[i].day <= day - RetentionDays => job[i].trace \in late)
  BY <1>2 DEF CleanedInv, Traced, WorksOnSubmitted, LinesInOrder, Newest
\* The day the loop takes next is one of those left.
<1>3. ctodo # {} => Min(ctodo) \in ctodo
  BY <1>1, FirstDay
<1>4. CASE StartCleanup
  <2>1. cpc' = "scan" /\ phase' = "retention" /\ ccommit' = savedCommit /\ before' = accepted
        /\ UNCHANGED <<accepted, savedCommit>>
    BY <1>4 DEF StartCleanup, vars, diskVars, historyVars
  <2>2. QED
    BY <1>1, <2>1 DEF RoundInv
<1>5. CASE PickExpired
  <2>0. /\ cpc = "scan" /\ phase = "retention" /\ ctodo # {} /\ cday' = Min(ctodo)
        /\ cpc' = IF Expired(Min(ctodo)) THEN "unlink" ELSE "scan"
        /\ UNCHANGED <<pending, delivered, skipped, accepted, savedCommit, day, phase, ccommit, before, raced, late>>
    BY <1>5 DEF PickExpired, vars, diskVars, historyVars, worldVars, lossVars
  <2>1. PICK c \in Days : c = Min(ctodo)
    BY <1>1, <1>3, <2>0
  <2>2. CASE cpc' = "unlink"
    <3>1. files[c] <= ccommit /\ c <= day - RetentionDays
      BY <2>0, <2>1, <2>2 DEF Expired
    <3>2. ASSUME NEW l \in StoredOn(c)
          PROVE  /\ l.trace \in Settled \cup raced \/ l.trace \notin before
                 /\ l.trace \in Settled \cup raced \cup late
      <4>1. \/ l.trace \in Settled \cup raced
            \/ \E i \in Ingesters : ipc[i] = "entry" /\ JobLineOn(i, c, l)
        BY <3>1, CoveredIsSent
      <4>2. ASSUME NEW i \in Ingesters, ipc[i] = "entry", job[i].day = c
            PROVE  job[i].trace \in late /\ job[i].trace \notin before
        BY <1>2, <3>1, <4>2 DEF RoundInv
      <4>3. QED
        BY <4>1, <4>2 DEF JobLineOn, JobLine
    <3>3. StoredOn(cday)' = StoredOn(c) /\ Settled' = Settled
      BY <2>0, <2>1 DEF StoredOn, Settled
    <3>4. GoneOrLater(cday)'
      BY <2>0, <3>2, <3>3 DEF GoneOrLater
    <3>5. QED
      BY <2>0, <2>1, <2>2, <3>1, <3>2, <3>3, <3>4 DEF RoundInv
  <2>3. CASE cpc' = "scan"
    BY <2>0, <2>3 DEF RoundInv
  <2>4. QED
    BY <2>0, <2>2, <2>3
<1>6. CASE PickListed
  <2>0. phase # "retention" /\ ctodo # {} /\ cday' = Min(ctodo) /\ ctodo' \subseteq ctodo /\ cpc' = "unlink"
        /\ UNCHANGED <<pending, delivered, skipped, accepted, savedCommit, phase, ccommit, before, raced>>
    BY <1>6 DEF PickListed, vars, diskVars, historyVars, lossVars
  <2>1. PICK c \in ctodo : c = Min(ctodo)
    BY <1>3, <2>0
  <2>2. \A d \in Days : GoneOrLater(d) => GoneOrLater(d)'
    BY <2>0, StoreKept DEF GoneOrLater, Settled
  <2>3. phase = "committed" => (\A d \in ctodo : GoneOrLater(d)') /\ GoneOrLater(c)'
    BY <1>1, <2>1, <2>2 DEF RoundInv
  <2>5. phase \in {"retention", "committed", "uncommitted"}
    BY DEF CleanedTypeOK
  <2>4. GoneOrLater(cday)' = GoneOrLater(c)'
    BY <2>0, <2>1 DEF GoneOrLater, StoredOn
  <2>6. QED
    BY <2>0, <2>3, <2>4, <2>5 DEF RoundInv
<1>7. CASE UnlinkPending
  <2>0. cpc = "unlink" /\ cpc' = "delete" /\ raced \subseteq raced'
        /\ UNCHANGED <<delivered, skipped, accepted, savedCommit, phase, ccommit, before, ctodo, cday>>
    BY <1>7 DEF UnlinkPending, historyVars
  <2>1. /\ \A d \in Days : StoredOn(d)' \subseteq StoredOn(d)
        /\ \A d \in Days : d = cday => StoredOn(d)' = {}
    BY <1>7, UnlinkShrinks, StoreShrinks
  <2>2. \A d \in Days : GoneOrLater(d) => GoneOrLater(d)'
    BY <2>0, <2>1 DEF GoneOrLater, Settled
  <2>3. PICK c \in Days : c = cday
    BY <1>1
  <2>4. StoredOn(cday)' = {}
    <3>1. StoredOn(cday)' = StoredOn(c)'
      BY <2>0, <2>3 DEF StoredOn
    <3>2. QED
      BY <2>1, <2>3, <3>1
  <2>5. phase = "committed" => \A d \in ctodo : GoneOrLater(d)'
    BY <1>1, <2>2 DEF RoundInv
  <2>6. QED
    BY <2>0, <2>4, <2>5 DEF RoundInv
<1>8. CASE DeleteEntry
  <2>0. cpc' = "scan" /\ raced \subseteq raced'
        /\ UNCHANGED <<pending, delivered, skipped, accepted, savedCommit, phase, ccommit, before, ctodo>>
    BY <1>8 DEF DeleteEntry, diskVars, historyVars
  <2>1. \A d \in Days : GoneOrLater(d) => GoneOrLater(d)'
    BY <2>0, StoreKept DEF GoneOrLater, Settled
  <2>2. phase = "committed" => \A d \in ctodo : GoneOrLater(d)'
    BY <1>1, <2>1 DEF RoundInv
  <2>3. QED
    BY <2>0, <2>2 DEF RoundInv
<1>9. CASE ListCommitted
  <2>0. /\ cpc' = "scan" /\ phase' = "committed" /\ before' = accepted
        /\ ctodo' = {d \in Days : Listed(d) /\ files[d] <= ccommit}
        /\ UNCHANGED <<pending, delivered, skipped, accepted, savedCommit, ccommit, raced>>
    BY <1>9 DEF ListCommitted, NextPhase, vars, diskVars, historyVars, lossVars
  <2>1. ASSUME NEW d \in ctodo' PROVE GoneOrLater(d)'
    <3>1. d \in Days /\ files[d] <= ccommit
      BY <2>0, <2>1
    <3>2. ASSUME NEW l \in StoredOn(d) PROVE l.trace \in Settled \cup raced \/ l.trace \notin accepted
      <4>1. \/ l.trace \in Settled \cup raced
            \/ \E i \in Ingesters : ipc[i] = "entry" /\ JobLineOn(i, d, l)
        BY <3>1, CoveredIsSent
      <4>2. QED
        BY <1>2, <4>1 DEF JobLineOn, JobLine
    <3>3. StoredOn(d)' = StoredOn(d) /\ Settled' = Settled
      BY <2>0 DEF StoredOn, Settled
    <3>4. QED
      BY <2>0, <3>2, <3>3 DEF GoneOrLater
  <2>2. QED
    BY <2>0, <2>1 DEF RoundInv
<1>10. CASE ListUncommitted
  <2>1. cpc' = "scan" /\ phase' = "uncommitted" /\ before' = accepted /\ UNCHANGED <<accepted, savedCommit, ccommit>>
    BY <1>10 DEF ListUncommitted, NextPhase, vars, diskVars, historyVars
  <2>2. QED
    BY <2>1 DEF RoundInv
\* The round is over.
<1>11. ASSUME Rest, UNCHANGED savedCommit PROVE RoundInv'
  <2>1. cpc' = "idle" /\ phase' = "retention" /\ ccommit' = 0 /\ before' = {}
    BY <1>11 DEF Rest
  <2>2. QED
    BY <1>1, <1>11, <2>1 DEF RoundInv
<1>12. CASE AbortCleanup
  BY <1>11, <1>12 DEF AbortCleanup, vars, diskVars
<1>13. ASSUME cpc' \in {"image", "replace"}, UNCHANGED <<pending, delivered, skipped, accepted, savedCommit>>,
              UNCHANGED <<phase, ccommit, before, ctodo, raced>>
       PROVE  RoundInv'
  <2>1. \A d \in Days : GoneOrLater(d) => GoneOrLater(d)'
    BY <1>13, StoreKept DEF GoneOrLater, Settled
  <2>2. phase = "committed" => \A d \in ctodo : GoneOrLater(d)'
    BY <1>1, <2>1 DEF RoundInv
  <2>3. QED
    BY <1>13, <2>2 DEF RoundInv
<1>14. CASE EndCleanup
  <2>1. CASE removed
    BY <1>13, <1>14, <2>1 DEF EndCleanup, vars, diskVars, historyVars, lossVars
  <2>2. CASE ~ removed
    BY <1>11, <1>14, <2>2 DEF EndCleanup, vars, diskVars
  <2>3. QED
    BY <2>1, <2>2
<1>15. CASE CleanerTakesImage
  BY <1>13, <1>15 DEF CleanerTakesImage, vars, diskVars, historyVars, lossVars
<1>16. CASE CleanerReplaces
  BY <1>11, <1>16 DEF CleanerReplaces
<1>17. CASE CleanerFails
  BY <1>11, <1>17 DEF CleanerFails, diskVars
<1>18. QED
  BY <1>4, <1>5, <1>6, <1>7, <1>8, <1>9, <1>10, <1>12, <1>14, <1>15, <1>16, <1>17 DEF Clean

LEMMA RoundStepKeeps ==
    ASSUME TypeOK, TypeOK', CleanedTypeOK, Calm, CleanedInv, RoundInv,
           [CleanedNext]_cleanedVars, ~ disturbed'
    PROVE  RoundInv'
<1>0. /\ savedCommit <= commit /\ 0 <= savedCommit /\ savedCommit \in Int /\ commit \in Int /\ day \in Int
  BY NumberTypes, SenderTypes DEF CleanedInv, Commits, CommitsInOrder
<1>1. CASE Clean
  BY <1>1, RoundKeptByClean
\* A step that leaves the lines and what is excused.
<1>2. ASSUME UNCHANGED <<pending, cpc, phase, ctodo, cday, ccommit, before>>, accepted \subseteq accepted',
             savedCommit' \in {savedCommit, commit}, day' \in {day, day + 1},
             delivered \subseteq delivered', skipped \subseteq skipped', raced \subseteq raced',
             late \subseteq late'
      PROVE  RoundInv'
  <2>1. savedCommit <= savedCommit' /\ day <= day' /\ Settled \subseteq Settled'
    BY <1>0, <1>2 DEF Settled
  <2>2. QED
    BY <1>2, <2>1, StoreKept, RoundKept
<1>3. ASSUME NEW i \in Ingesters, OpenPending(i) \/ AppendToUnlinked(i) \/ OpenedFails(i) \/ ReplaceByIngest(i)
      PROVE  RoundInv'
  BY <1>2, <1>3 DEF OpenPending, AppendToUnlinked, OpenedFails, AppendFails, ReplaceByIngest,
     ReplaceIngestJson, vars, diskVars, historyVars, worldVars, cleanVars, lossVars
<1>4. ASSUME NEW i \in Ingesters, IngestStep(i) PROVE RoundInv'
  <2>1. late \subseteq late'
    BY <1>4, LateSeen DEF IngestStep
  <2>2. QED
    BY <1>2, <1>4, <2>1 DEF IngestStep, Allocate, GiveBack, UpdateEntry, TakeImage, SaveFails, diskVars,
       historyVars, worldVars, cleanVars
<1>5. ASSUME NEW i \in Ingesters, AppendToOpen(i) PROVE RoundInv'
  <2>1. /\ UNCHANGED <<cpc, phase, ctodo, cday, ccommit, before, accepted, savedCommit, day, raced, late>>
        /\ UNCHANGED <<delivered, skipped>> /\ AppendLine(i) /\ ipc[i] = "append"
    BY <1>5 DEF AppendToOpen, AppendLine, historyVars, worldVars, cleanVars, lossVars
  <2>2. job[i].trace \notin accepted /\ (job[i].day <= day - RetentionDays => job[i].trace \in late)
    BY <2>1 DEF CleanedInv, Traced, WorksOnSubmitted, LinesInOrder, Newest
  <2>3. \A d \in Days : \A l \in StoredOn(d)' :
            l \in StoredOn(d) \/ (l = JobLine(i) /\ d = job[i].day)
    BY <2>1, AppendGrows
  <2>4. \A d \in Days : \A l \in StoredOn(d)' :
            l \in StoredOn(d) \/ (l.trace \notin accepted /\ (d <= day - RetentionDays => l.trace \in late))
    BY <2>2, <2>3 DEF JobLine
  <2>5. Settled \subseteq Settled' /\ savedCommit <= savedCommit' /\ day <= day'
    BY <1>0, <2>1 DEF Settled
  <2>6. QED
    BY <2>1, <2>4, <2>5, RoundKept
<1>6. CASE ReadOrphan
  BY <1>2, <1>6 DEF ReadOrphan, diskVars, historyVars, worldVars, cleanVars, lossVars
<1>7. CASE SendStep
  <2>1. UNCHANGED <<pending, day, accepted, cpc, phase, ctodo, cday, ccommit, before, raced, late>>
    BY <1>7 DEF SendStep, Send, LoadIngestState, ReadLine, NextFile, EndRead, PostOk, PostBadRequest, Answered,
       PostHttpError, PostNetworkError, EndBatch, SaveSenderState, SenderSaveFails, ReadFails, diskVars, historyVars, worldVars,
       cleanVars, lossVars
  <2>2. savedCommit' \in {savedCommit, commit} /\ delivered \subseteq delivered' /\ skipped \subseteq skipped'
    BY <1>7 DEF SendStep, Send, LoadIngestState, ReadLine, NextFile, EndRead, PostOk, PostBadRequest, Answered,
       PostHttpError, PostNetworkError, EndBatch, SaveSenderState, SenderSaveFails, ReadFails, diskVars, historyVars
  <2>3. QED
    BY <1>2, <2>1, <2>2
<1>8. CASE CleanedRestart
  <2>1. cpc' = "idle" /\ phase' = "retention" /\ ccommit' = 0 /\ before' = {} /\ UNCHANGED savedCommit
    BY <1>8 DEF CleanedRestart, Restart, Rest, diskVars
  <2>2. QED
    BY <1>0, <2>1 DEF RoundInv
<1>9. CASE WorldStep
  <2>1. late \subseteq late'
    BY <1>9, LateSeen DEF WorldStep
  <2>2. QED
    BY <1>2, <1>9, <2>1 DEF WorldStep, NewDay, LangfuseDown, LangfuseUp, diskVars, historyVars, cleanVars
<1>10. CASE UNCHANGED cleanedVars
  BY <1>2, <1>10 DEF cleanedVars, vars, diskVars, historyVars, worldVars, cleanVars, lossVars
<1>11. QED
  BY <1>1, <1>3, <1>4, <1>5, <1>6, <1>7, <1>8, <1>9, <1>10 DEF CleanedNext

LEMMA RoundInvariant == CleanedSpec => [](~ disturbed => RoundInv)
<1>1. CleanedInit => (~ disturbed => RoundInv)
  BY DEF CleanedInit, Init, RoundInv
<1>2. /\ TypeOK /\ CleanedTypeOK /\ (~ disturbed => Calm /\ CleanedInv)
      /\ ~ disturbed => RoundInv
      /\ [CleanedNext]_cleanedVars
      => (~ disturbed => RoundInv)'
  BY CleanedTypesHold, RoundStepKeeps, DisturbedStays
<1>3. QED
  BY <1>1, <1>2, CleanedInvariant, PTL DEF CleanedSpec

\* Until ingests overlap or something is exposed, the retention loop removes no trace that
\* was not sent, but for one ingested while its file expires, or raced with before.
THEOREM RetentionIsSafe == CleanedSpec => RetentionKeepsUnsent
<1>1. (~ disturbed => RoundInv) /\ [CleanedNext]_cleanedVars
        => [cpc = "unlink" /\ cpc' = "delete" /\ phase = "retention"
              => disturbed \/ Unsent(cday) \subseteq raced \cup late]_cleanedVars
  BY DEF RoundInv, Unsent
<1>2. QED
  BY <1>1, RoundInvariant, PTL DEF CleanedSpec, RetentionKeepsUnsent

\* Until ingests overlap or something is exposed, the cleaner races only with ingesters: it
\* takes no trace, but those it drops on purpose, that was accepted when the loop listed its
\* files.
THEOREM CleanerRacesOnlyWithIngest == CleanedSpec => RacesOnlyWithIngest
<1>1. /\ TypeOK /\ CleanedTypeOK /\ (~ disturbed => Calm /\ CleanedInv)
      /\ ~ disturbed => RoundInv
      /\ [CleanedNext]_cleanedVars
      => disturbed \/ (raced' \ raced) \cap before = {}
  <2> SUFFICES ASSUME TypeOK, CleanedTypeOK, CleanedInv, RoundInv, [CleanedNext]_cleanedVars,
                      NEW t \in raced', t \notin raced
               PROVE  t \notin before
    OBVIOUS
  <2>1. CASE UnlinkPending
    <3>1. /\ cpc = "unlink" /\ phase \in {"retention", "committed", "uncommitted"}
          /\ phase # "uncommitted" /\ t \in Unsent(cday)
      BY <2>1 DEF UnlinkPending, CleanedTypeOK
    <3>2. PICK l \in StoredOn(cday) : l.trace = t /\ t \notin Settled
      BY <3>1 DEF Unsent
    <3>3. QED
      BY <3>1, <3>2 DEF RoundInv, GoneOrLater
  <2>2. CASE DeleteEntry
    <3>1. cpc = "delete" /\ t \in Unsent(cday)
      BY <2>2 DEF DeleteEntry
    <3>2. QED
      BY <3>1 DEF Unsent, RoundInv
  <2>3. ASSUME NEW i \in Ingesters, AppendToUnlinked(i) PROVE t \notin before
    <3>1. ipc[i] = "append" /\ t = job[i].trace
      BY <2>3 DEF AppendToUnlinked
    <3>2. t \notin accepted
      BY <3>1 DEF CleanedInv, Traced, WorksOnSubmitted
    <3>3. QED
      BY <3>2 DEF RoundInv
  <2>4. ~ UNCHANGED raced
    OBVIOUS
  <2>5. Clean => UnlinkPending \/ DeleteEntry
    BY <2>4 DEF Clean, StartCleanup, PickExpired, PickListed, ListCommitted, ListUncommitted, NextPhase,
                AbortCleanup, EndCleanup, CleanerTakesImage, CleanerReplaces, CleanerFails, lossVars
  <2>6. ~ (ReadOrphan \/ SendStep \/ CleanedRestart \/ WorldStep \/ UNCHANGED cleanedVars)
    BY <2>4 DEF ReadOrphan, SendStep, CleanedRestart, WorldStep, cleanedVars, lossVars
  <2>7. \A i \in Ingesters : ~ (OpenPending(i) \/ AppendToOpen(i) \/ OpenedFails(i) \/ IngestStep(i)
                             \/ ReplaceByIngest(i))
    BY <2>4 DEF OpenPending, AppendToOpen, OpenedFails, IngestStep, ReplaceByIngest, lossVars
  <2>8. QED
    BY <2>1, <2>2, <2>3, <2>5, <2>6, <2>7 DEF CleanedNext
<1>2. QED
  BY <1>1, RoundInvariant, CleanedInvariant, PTL DEF CleanedSpec, RacesOnlyWithIngest
=============================================================================
