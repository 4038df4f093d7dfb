--------------------------- MODULE LangstashSafety ---------------------------
(***************************************************************************)
(* What the queue promises, for every number of traces, ingesting threads, *)
(* days and batch sizes, with deaths, disk errors and outages at any time. *)
(* QueueInv and DeliveryInv carry themselves until ingests overlap or      *)
(* something is exposed; what they say of the kept lines outlives that as  *)
(* KeptInv.  From the three follow that nothing kept is lost, settled out  *)
(* of order, or posted twice while nothing fails, and that the queue       *)
(* implements AtLeastOnce.                                                 *)
(***************************************************************************)
EXTENDS LangstashInv, FiniteSetTheorems, TLAPS

-----------------------------------------------------------------------------
(* Type correctness.                                                       *)

\* A group of variables no step changes keeps its types.
LEMMA TypesKept ==
    /\ WorldType /\ UNCHANGED worldVars => WorldType'
    /\ DiskType /\ UNCHANGED diskVars => DiskType'
    /\ IngestType /\ UNCHANGED ingestVars => IngestType'
    /\ SenderType /\ UNCHANGED senderVars => SenderType'
    /\ HistoryType /\ UNCHANGED historyVars => HistoryType'
  BY DEF WorldType, worldVars, DiskType, diskVars, IngestType, ingestVars,
         SenderType, senderVars, readVars, HistoryType, historyVars, riskVars

LEMMA TypesHold == TypeOK /\ [Next]_vars => TypeOK'
<1> USE LangstashAssumption DEF Days, IngestPoints, Idle, Empty
<1> SUFFICES ASSUME WorldType, DiskType, IngestType, SenderType, HistoryType, [Next]_vars
             PROVE  TypeOK'
  BY DEF TypeOK
<1>1. ASSUME NEW i \in Ingesters, Allocate(i) PROVE TypeOK'
  <2>1. UNCHANGED <<worldVars, diskVars, senderVars>>
    BY <1>1 DEF Allocate
  <2>2. PICK t \in Traces \ submitted :
           /\ job' = [job EXCEPT ![i] = [trace |-> t, seq |-> nextSeq, day |-> day]]
           /\ ipc' = [ipc EXCEPT ![i] = IF t \in Oversized THEN "oversized" ELSE "append"]
    BY <1>1 DEF Allocate
  <2>3. job' \in [Ingesters -> [trace : Traces \cup {NoTrace}, seq : Int, day : Days]]
    BY <2>2 DEF IngestType, WorldType
  <2>4. IngestType'
    BY <1>1, <2>2, <2>3 DEF Allocate, IngestType
  <2>5. overlapped' \in BOOLEAN
    BY <1>1 DEF Allocate
  <2>6. HistoryType'
    BY <1>1, <2>5 DEF Allocate, HistoryType
  <2>7. QED BY <2>1, <2>4, <2>6, TypesKept DEF TypeOK
<1>2. ASSUME NEW i \in Ingesters, GiveBack(i) PROVE TypeOK'
  <2>1. UNCHANGED <<worldVars, diskVars, senderVars, historyVars>>
    BY <1>2 DEF GiveBack
  <2>2. IngestType'
    BY <1>2 DEF GiveBack, IngestType
  <2>3. QED BY <2>1, <2>2, TypesKept DEF TypeOK
<1>3. ASSUME NEW i \in Ingesters, AppendLine(i) PROVE TypeOK'
  <2>1. UNCHANGED <<worldVars, senderVars, historyVars>>
    BY <1>3 DEF AppendLine
  <2>2. IngestType'
    BY <1>3 DEF AppendLine, IngestType
  <2>3. DiskType'
    <3>1. JobLine(i) \in Line /\ job[i].day \in Days
      BY <1>3 DEF AppendLine, JobLine, IngestType, Line
    <3>2. pending' \in [Days -> Seq(Line)]
      <4>1. Append(pending[job[i].day], JobLine(i)) \in Seq(Line)
        BY <3>1 DEF DiskType
      <4>2. QED BY <1>3, <3>1, <4>1 DEF AppendLine, DiskType
    <3>3. torn' \subseteq Days /\ UNCHANGED <<savedNext, savedFiles, savedCommit>>
      BY <1>3 DEF AppendLine, DiskType
    <3>4. QED BY <3>2, <3>3 DEF DiskType
  <2>4. QED BY <2>1, <2>2, <2>3, TypesKept DEF TypeOK
<1>4. ASSUME NEW i \in Ingesters, UpdateEntry(i) PROVE TypeOK'
  <2>1. UNCHANGED <<worldVars, diskVars, senderVars, historyVars>>
    BY <1>4 DEF UpdateEntry, MaxSeqWith
  <2>2. IngestType'
    BY <1>4 DEF UpdateEntry, MaxSeqWith, IngestType
  <2>3. QED BY <2>1, <2>2, TypesKept DEF TypeOK
<1>5. ASSUME NEW i \in Ingesters, TakeImage(i) PROVE TypeOK'
  <2>1. UNCHANGED <<worldVars, diskVars, senderVars, historyVars>>
    BY <1>5 DEF TakeImage
  <2>2. IngestType'
    BY <1>5 DEF TakeImage, IngestType
  <2>3. QED BY <2>1, <2>2, TypesKept DEF TypeOK
<1>6. ASSUME NEW i \in Ingesters, ReplaceIngestJson(i) PROVE TypeOK'
  <2>1. UNCHANGED <<worldVars, senderVars>>
    BY <1>6 DEF ReplaceIngestJson
  <2>2. IngestType'
    BY <1>6 DEF ReplaceIngestJson, IngestType, NoImage
  <2>3. DiskType'
    BY <1>6 DEF ReplaceIngestJson, DiskType, IngestType
  <2>4. HistoryType'
    <3>1. job[i].trace \in Traces
      BY <1>6 DEF ReplaceIngestJson, IngestType
    <3>2. kept' \subseteq accepted'
      BY <1>6 DEF ReplaceIngestJson, HistoryType
    <3>3. UNCHANGED <<submitted, delivered, skipped, resent, overlapped, exposed>>
      BY <1>6 DEF ReplaceIngestJson
    <3>4. QED
      BY <1>6, <3>1, <3>2, <3>3 DEF ReplaceIngestJson, HistoryType
  <2>5. QED BY <2>1, <2>2, <2>3, <2>4, TypesKept DEF TypeOK
<1>7. CASE LoadIngestState
  <2>1. UNCHANGED <<worldVars, diskVars, ingestVars, historyVars>>
    BY <1>7 DEF LoadIngestState
  <2>2. SenderType'
    BY <1>7 DEF LoadIngestState, SenderType, DiskType, readVars
  <2>3. QED BY <2>1, <2>2, TypesKept DEF TypeOK
<1>8. CASE ReadLine
  <2>1. UNCHANGED <<worldVars, diskVars, ingestVars, historyVars>>
    BY <1>8 DEF ReadLine, Batched
  <2>2. SenderType'
    <3>1. pending[rday][ridx] \in Line
      BY <1>8 DEF ReadLine, DiskType, SenderType
    <3>2. QED
      BY <1>8, <3>1 DEF ReadLine, Batched, SenderType
  <2>3. QED BY <2>1, <2>2, TypesKept DEF TypeOK
<1>9. CASE NextFile
  <2>1. UNCHANGED <<worldVars, diskVars, ingestVars, historyVars>>
    BY <1>9 DEF NextFile
  <2>2. SenderType'
    BY <1>9 DEF NextFile, SenderType
  <2>3. QED BY <2>1, <2>2, TypesKept DEF TypeOK
<1>10. CASE EndRead
  <2>1. UNCHANGED <<worldVars, diskVars, ingestVars, historyVars>>
    BY <1>10 DEF EndRead
  <2>2. SenderType'
    BY <1>10 DEF EndRead, SenderType, readVars
  <2>3. QED BY <2>1, <2>2, TypesKept DEF TypeOK
<1>11. CASE PostOk
  <2>1. UNCHANGED <<worldVars, diskVars, ingestVars>>
    BY <1>11 DEF PostOk, Posting, Answered
  <2>2. batch[pos] \in Line
    BY <1>11 DEF PostOk, Posting, SenderType
  <2>3. SenderType'
    BY <1>11, <2>2 DEF PostOk, Posting, Answered, SenderType, readVars, Line
  <2>4. HistoryType'
    BY <1>11, <2>2 DEF PostOk, Answered, HistoryType, Line, riskVars
  <2>5. QED BY <2>1, <2>3, <2>4, TypesKept DEF TypeOK
<1>12. CASE PostBadRequest
  <2>1. UNCHANGED <<worldVars, diskVars, ingestVars>>
    BY <1>12 DEF PostBadRequest, Posting, Answered
  <2>2. batch[pos] \in Line
    BY <1>12 DEF PostBadRequest, Posting, SenderType
  <2>3. SenderType'
    BY <1>12, <2>2 DEF PostBadRequest, Posting, Answered, SenderType, readVars, Line
  <2>4. HistoryType'
    BY <1>12, <2>2 DEF PostBadRequest, Answered, HistoryType, Line, riskVars
  <2>5. QED BY <2>1, <2>3, <2>4, TypesKept DEF TypeOK
<1>13. CASE PostHttpError
  <2>1. UNCHANGED <<worldVars, diskVars, ingestVars, historyVars>>
    BY <1>13 DEF PostHttpError, EndRound, Posting, CommitReached
  <2>2. SenderType'
    BY <1>13 DEF PostHttpError, EndRound, Posting, CommitReached, SenderType, readVars
  <2>3. QED BY <2>1, <2>2, TypesKept DEF TypeOK
<1>14. CASE PostNetworkError
  <2>1. UNCHANGED <<worldVars, diskVars, ingestVars>>
    BY <1>14 DEF PostNetworkError, EndRound, Posting
  <2>2. SenderType'
    BY <1>14 DEF PostNetworkError, EndRound, Posting, SenderType, readVars
  <2>3. HistoryType'
    <3>1. batch[pos] \in Line
      BY <1>14 DEF PostNetworkError, EndRound, Posting, SenderType
    <3>2. QED
      BY <1>14, <3>1 DEF PostNetworkError, HistoryType, Line, riskVars
  <2>4. QED BY <2>1, <2>2, <2>3, TypesKept DEF TypeOK
<1>15. CASE EndBatch
  <2>1. UNCHANGED <<worldVars, diskVars, ingestVars, historyVars>>
    BY <1>15 DEF EndBatch, EndRound, CommitReached
  <2>2. SenderType'
    BY <1>15 DEF EndBatch, EndRound, CommitReached, SenderType, readVars
  <2>3. QED BY <2>1, <2>2, TypesKept DEF TypeOK
<1>16. CASE SaveSenderState
  <2>1. UNCHANGED <<worldVars, ingestVars, historyVars>>
    BY <1>16 DEF SaveSenderState
  <2>2. SenderType'
    BY <1>16 DEF SaveSenderState, SenderType, readVars
  <2>3. DiskType'
    BY <1>16 DEF SaveSenderState, DiskType, SenderType
  <2>4. QED BY <2>1, <2>2, <2>3, TypesKept DEF TypeOK
<1>17. CASE Restart
  <2>1. PICK half \in SUBSET {job[i].day : i \in {j \in Ingesters : ipc[j] = "append"}} :
           /\ torn' = torn \cup half
           /\ exposed' = (exposed \/ half # {} \/ ~ IndexIsSaved)
    BY <1>17 DEF Restart
  <2>2. IngestType'
    BY <1>17 DEF Restart, NextSeqAtStart, IngestType, DiskType, NoImage
  <2>3. SenderType'
    BY <1>17 DEF Restart, SenderType, DiskType
  <2>4. WorldType'
    BY <1>17 DEF Restart, WorldType
  <2>5. DiskType'
    <3>1. half \subseteq Days
      BY DEF IngestType
    <3>2. QED BY <1>17, <2>1, <3>1 DEF Restart, DiskType
  <2>6. HistoryType'
    <3>1. exposed' \in BOOLEAN
      BY <2>1
    <3>2. QED BY <1>17, <3>1 DEF Restart, HistoryType
  <2>7. QED BY <2>2, <2>3, <2>4, <2>5, <2>6 DEF TypeOK
<1>18. CASE NewDay
  <2>1. UNCHANGED <<diskVars, ingestVars, senderVars, historyVars>>
    BY <1>18 DEF NewDay
  <2>2. WorldType'
    BY <1>18 DEF NewDay, WorldType
  <2>3. QED BY <2>1, <2>2, TypesKept DEF TypeOK
<1>19. CASE LangfuseDown
  <2>1. UNCHANGED <<diskVars, ingestVars, senderVars, historyVars>>
    BY <1>19 DEF LangfuseDown
  <2>2. up' \in BOOLEAN
    BY <1>19 DEF LangfuseDown
  <2>3. day' \in Days /\ crashes' \in Nat /\ errors' \in Nat /\ outages' \in Nat
    BY <1>19 DEF LangfuseDown, WorldType
  <2>4. QED BY <2>1, <2>2, <2>3, TypesKept DEF TypeOK, WorldType
<1>20. CASE LangfuseUp
  <2>1. UNCHANGED <<diskVars, ingestVars, senderVars, historyVars>>
    BY <1>20 DEF LangfuseUp
  <2>2. WorldType'
    BY <1>20 DEF LangfuseUp, WorldType
  <2>3. QED BY <2>1, <2>2, TypesKept DEF TypeOK
<1>21. CASE UNCHANGED vars
  BY <1>21, TypesKept DEF vars, TypeOK
<1>22. ASSUME NEW i \in Ingesters, AppendFails(i) PROVE TypeOK'
  <2>1. UNCHANGED senderVars
    BY <1>22 DEF AppendFails
  <2>2. PICK half \in SUBSET {job[i].day} :
           torn' = torn \cup half /\ exposed' = (exposed \/ half # {})
    BY <1>22 DEF AppendFails
  <2>3. IngestType'
    BY <1>22 DEF AppendFails, IngestType
  <2>4. DiskType'
    <3>1. job[i].day \in Days /\ torn \subseteq Days
      BY DEF TypeOK, IngestType, DiskType
    <3>2. torn' \subseteq Days
      BY <2>2, <3>1
    <3>3. UNCHANGED <<pending, savedNext, savedFiles, savedCommit>>
      BY <1>22 DEF AppendFails
    <3>4. QED BY <3>2, <3>3 DEF TypeOK, DiskType
  <2>5. WorldType'
    BY <1>22 DEF AppendFails, WorldType
  <2>6. HistoryType'
    <3>1. exposed' \in BOOLEAN
      BY <2>2
    <3>2. QED BY <1>22, <3>1 DEF AppendFails, HistoryType
  <2>7. QED BY <2>1, <2>3, <2>4, <2>5, <2>6, TypesKept DEF TypeOK
<1>23. ASSUME NEW i \in Ingesters, SaveFails(i) PROVE TypeOK'
  <2>1. UNCHANGED <<diskVars, senderVars, historyVars>>
    BY <1>23 DEF SaveFails
  <2>2. IngestType'
    BY <1>23 DEF SaveFails, IngestType, NoImage
  <2>3. WorldType'
    BY <1>23 DEF SaveFails, WorldType
  <2>4. QED BY <2>1, <2>2, <2>3, TypesKept DEF TypeOK
<1>24. CASE ReadFails
  <2>1. UNCHANGED <<diskVars, ingestVars>>
    BY <1>24 DEF ReadFails
  <2>2. SenderType'
    BY <1>24 DEF ReadFails, SenderType
  <2>3. WorldType'
    BY <1>24 DEF ReadFails, WorldType
  <2>4. HistoryType'
    BY <1>24 DEF ReadFails, HistoryType
  <2>5. QED BY <2>1, <2>2, <2>3, <2>4, TypesKept DEF TypeOK
<1>25. CASE SenderSaveFails
  <2>1. UNCHANGED <<diskVars, ingestVars, historyVars>>
    BY <1>25 DEF SenderSaveFails
  <2>2. SenderType'
    BY <1>25 DEF SenderSaveFails, SenderType, readVars
  <2>3. WorldType'
    BY <1>25 DEF SenderSaveFails, WorldType
  <2>4. QED BY <2>1, <2>2, <2>3, TypesKept DEF TypeOK
<1>26. QED
  BY <1>1, <1>2, <1>3, <1>4, <1>5, <1>6, <1>7, <1>8, <1>9, <1>10, <1>11, <1>12, <1>13, <1>14, <1>15,
     <1>16, <1>17, <1>18, <1>19, <1>20, <1>21, <1>22, <1>23, <1>24, <1>25 DEF Next, Ingest, Send

\* The first state.
LEMMA InitTypes == Init => TypeOK
<1> SUFFICES ASSUME Init PROVE TypeOK
  OBVIOUS
<1> USE LangstashAssumption DEF Init, Days
<1>1. WorldType /\ HistoryType
  <2>1. up \in BOOLEAN /\ overlapped \in BOOLEAN /\ exposed \in BOOLEAN
    OBVIOUS
  <2>2. QED BY <2>1 DEF WorldType, HistoryType
<1>2. DiskType /\ SenderType
  BY DEF DiskType, SenderType, Empty
<1>3. IngestType
  BY DEF IngestType, IngestPoints, Idle, Empty, NoImage
<1>4. QED BY <1>1, <1>2, <1>3 DEF TypeOK

\* The variables keep their types through every step of every thread and
\* through every crash and restart of the daemon.
THEOREM TypeCorrect == Spec => []TypeOK
  BY InitTypes, TypesHold, PTL DEF Spec

-----------------------------------------------------------------------------
(* What the steps do to the files.                                         *)

USE LangstashAssumption

\* The elements of a sequence after an append.
LEMMA AppendRange ==
    ASSUME NEW S, NEW q \in Seq(S), NEW e \in S
    PROVE  {Append(q, e)[k] : k \in DOMAIN Append(q, e)} = {q[k] : k \in DOMAIN q} \cup {e}
<1>1. /\ DOMAIN Append(q, e) = DOMAIN q \cup {Len(q) + 1}
      /\ \A k \in DOMAIN q : Append(q, e)[k] = q[k]
      /\ Append(q, e)[Len(q) + 1] = e
  OBVIOUS
<1>2. QED
  BY <1>1

LEMMA LineTypes == TypeOK => \A d \in Days : \A l \in StoredOn(d) : l \in Line /\ l.seq \in Int
<1> SUFFICES ASSUME TypeOK, NEW d \in Days, NEW k \in DOMAIN pending[d] PROVE pending[d][k] \in Line
  BY DEF StoredOn, Line
<1>1. QED
  BY DEF TypeOK, DiskType

\* What an append does to the stored lines: one more, with the newest number.
LEMMA AppendAdds ==
    ASSUME TypeOK, NEW i \in Ingesters, AppendLine(i), job[i].day \notin torn
    PROVE  /\ job[i].day \in Days /\ job' = job
           /\ JobLine(i) \in Line
           /\ pending' = [pending EXCEPT ![job[i].day] = Append(@, JobLine(i))]
           /\ \A d \in Days : d # job[i].day =>
                pending'[d] = pending[d] /\ StoredOn(d)' = StoredOn(d)
           /\ \A d \in Days : d = job[i].day =>
                /\ pending'[d] = Append(pending[d], JobLine(i))
                /\ StoredOn(d)' = StoredOn(d) \cup {JobLine(i)}
           /\ Stored' = Stored \cup {JobLine(i)}
<1>1. job[i].day \in Days /\ JobLine(i) \in Line /\ job' = job
  BY DEF AppendLine, TypeOK, IngestType, JobLine, Line
<1>2. pending' = [pending EXCEPT ![job[i].day] = Append(@, JobLine(i))]
  BY DEF AppendLine, JobLine
<1>3. \A d \in Days : d # job[i].day => pending'[d] = pending[d] /\ StoredOn(d)' = StoredOn(d)
  BY <1>1, <1>2 DEF TypeOK, DiskType, StoredOn
<1>4. ASSUME NEW d \in Days, d = job[i].day
      PROVE  /\ pending'[d] = Append(pending[d], JobLine(i))
             /\ StoredOn(d)' = StoredOn(d) \cup {JobLine(i)}
  <2>1. pending[d] \in Seq(Line)
    BY DEF TypeOK, DiskType
  <2>2. pending'[d] = Append(pending[d], JobLine(i))
    BY <1>1, <1>2, <1>4 DEF TypeOK, DiskType
  <2>3. QED
    BY <1>1, <2>1, <2>2, AppendRange DEF StoredOn
<1>5. Stored' = Stored \cup {JobLine(i)}
  <2>1. \A l : l \in Stored' <=> \E d \in Days : l \in StoredOn(d)'
    BY DEF Stored
  <2>2. \A l : l \in Stored <=> \E d \in Days : l \in StoredOn(d)
    BY DEF Stored
  <2>3. QED
    BY <1>1, <1>3, <1>4, <2>1, <2>2
<1>6. QED
  BY <1>1, <1>2, <1>3, <1>4, <1>5

\* With half a line in the file or without: old lines stay where they are.
LEMMA AppendGrows ==
    ASSUME TypeOK, NEW i \in Ingesters, AppendLine(i)
    PROVE  /\ job[i].day \in Days /\ job' = job /\ JobLine(i) \in Line
           /\ \A d \in Days : \A k \in DOMAIN pending[d] :
                k \in DOMAIN pending'[d] /\ pending'[d][k] = pending[d][k]
           /\ \A d \in Days : \A k \in DOMAIN pending'[d] :
                \/ k \in DOMAIN pending[d]
                \/ d = job[i].day /\ pending'[d][k] = JobLine(i) /\ \A j \in DOMAIN pending[d] : j < k
           /\ \A d \in Days : StoredOn(d) \subseteq StoredOn(d)'
           /\ \A d \in Days : \A l \in StoredOn(d)' :
                l \in StoredOn(d) \/ (d = job[i].day /\ l = JobLine(i))
           /\ Stored \subseteq Stored' /\ Stored' \subseteq Stored \cup {JobLine(i)}
<1>1. job[i].day \in Days /\ JobLine(i) \in Line /\ job' = job
  BY DEF AppendLine, TypeOK, IngestType, JobLine, Line
<1>2. ASSUME NEW d \in Days, NEW k \in DOMAIN pending[d]
      PROVE  k \in DOMAIN pending'[d] /\ pending'[d][k] = pending[d][k]
  <2>1. pending[d] \in Seq(Line)
    BY DEF TypeOK, DiskType
  <2>2. pending'[d] = pending[d] \/ pending'[d] = Append(pending[d], JobLine(i))
    BY <1>1 DEF AppendLine, TypeOK, DiskType
  <2>3. QED BY <1>1, <2>1, <2>2
<1>3. ASSUME NEW d \in Days, NEW k \in DOMAIN pending'[d], k \notin DOMAIN pending[d]
      PROVE  d = job[i].day /\ pending'[d][k] = JobLine(i) /\ \A j \in DOMAIN pending[d] : j < k
  <2>1. pending[d] \in Seq(Line)
    BY DEF TypeOK, DiskType
  <2>2. d = job[i].day /\ pending'[d] = Append(pending[d], JobLine(i))
    BY <1>1, <1>3 DEF AppendLine, TypeOK, DiskType
  <2>3. QED BY <1>1, <1>3, <2>1, <2>2
<1>4. ASSUME NEW d \in Days PROVE StoredOn(d) \subseteq StoredOn(d)'
  <2>1. ASSUME NEW l \in StoredOn(d) PROVE l \in StoredOn(d)'
    <3>1. PICK k \in DOMAIN pending[d] : l = pending[d][k]
      BY DEF StoredOn
    <3>2. k \in DOMAIN pending'[d] /\ l = pending'[d][k]
      BY <1>2, <3>1
    <3>3. QED BY <3>2 DEF StoredOn
  <2>2. QED BY <2>1
<1>5. ASSUME NEW d \in Days, NEW l \in StoredOn(d)'
      PROVE  l \in StoredOn(d) \/ (d = job[i].day /\ l = JobLine(i))
  <2>1. PICK k \in DOMAIN pending'[d] : l = pending'[d][k]
    BY DEF StoredOn
  <2>2. CASE k \in DOMAIN pending[d]
    BY <1>2, <2>1, <2>2 DEF StoredOn
  <2>3. CASE k \notin DOMAIN pending[d]
    BY <1>3, <2>1, <2>3
  <2>4. QED BY <2>2, <2>3
<1>6. Stored \subseteq Stored' /\ Stored' \subseteq Stored \cup {JobLine(i)}
  <2>1. \A l : l \in Stored' <=> \E d \in Days : l \in StoredOn(d)'
    BY DEF Stored
  <2>2. \A l : l \in Stored <=> \E d \in Days : l \in StoredOn(d)
    BY DEF Stored
  <2>3. QED BY <1>4, <1>5, <2>1, <2>2
<1>7. QED
  BY <1>1, <1>2, <1>3, <1>4, <1>5, <1>6

LEMMA StoreKept == UNCHANGED pending => Stored' = Stored /\ \A d \in Days : StoredOn(d)' = StoredOn(d)
  BY DEF Stored, StoredOn

\* Only AppendLine writes to the files.
LEMMA OnlyAppends ==
    [Next]_vars => UNCHANGED pending \/ \E i \in Ingesters : AppendLine(i)
  BY DEF Next, Ingest, Allocate, GiveBack, AppendFails, UpdateEntry, TakeImage, ReplaceIngestJson,
         SaveFails, Send, LoadIngestState, ReadLine, NextFile, ReadFails, EndRead, PostOk,
         PostBadRequest, Answered, PostHttpError, PostNetworkError, EndBatch, SaveSenderState,
         SenderSaveFails, Restart, NewDay, LangfuseDown, LangfuseUp, vars, diskVars

\* The types a step of the sender needs.
LEMMA SenderTypes ==
    ASSUME TypeOK
    PROVE  /\ commit \in Int /\ savedCommit \in Int /\ lastOk \in Int
           /\ rday \in Int /\ ridx \in Nat \ {0} /\ pos \in Nat \ {0}
           /\ snap \in [Days -> Int] /\ batch \in Seq(Line)
           /\ \A d \in Days : pending[d] \in Seq(Line)
  BY DEF TypeOK, SenderType, DiskType

-----------------------------------------------------------------------------
(* TraceInv, whatever happens.                                             *)

\* A conjunct whose variables no step changes is kept.
LEMMA TracePartsKept ==
    /\ LineOfOneTrace /\ UNCHANGED <<pending, submitted, ipc, job>> => LineOfOneTrace'
    /\ WorksOnSubmitted /\ UNCHANGED <<accepted, submitted, ipc, job>> => WorksOnSubmitted'
    /\ KeptIsStored /\ kept' \subseteq kept /\ UNCHANGED pending => KeptIsStored'
    /\ SavedCommitIsBehind /\ UNCHANGED <<savedCommit, commit>> => SavedCommitIsBehind'
    /\ BatchIsPending /\ UNCHANGED <<spc, batch, pending, commit>> => BatchIsPending'
    /\ BatchIsPassed /\ UNCHANGED <<spc, batch, rday, ridx, pending>> => BatchIsPassed'
    /\ LastOkIsPosted /\ UNCHANGED <<spc, batch, pos, lastOk, commit, delivered, skipped>>
         => LastOkIsPosted'
    /\ UpUntilOutage /\ UNCHANGED <<outages, up>> => UpUntilOutage'
<1> USE StoreKept
<1>1. LineOfOneTrace /\ UNCHANGED <<pending, submitted, ipc, job>> => LineOfOneTrace'
  BY DEF LineOfOneTrace
<1>2. WorksOnSubmitted /\ UNCHANGED <<accepted, submitted, ipc, job>> => WorksOnSubmitted'
  BY DEF WorksOnSubmitted
<1>3. KeptIsStored /\ kept' \subseteq kept /\ UNCHANGED pending => KeptIsStored'
  BY DEF KeptIsStored
<1>4. SavedCommitIsBehind /\ UNCHANGED <<savedCommit, commit>> => SavedCommitIsBehind'
  BY DEF SavedCommitIsBehind
<1>5. BatchIsPending /\ UNCHANGED <<spc, batch, pending, commit>> => BatchIsPending'
  BY DEF BatchIsPending
<1>6. BatchIsPassed /\ UNCHANGED <<spc, batch, rday, ridx, pending>> => BatchIsPassed'
  BY DEF BatchIsPassed
<1>7. LastOkIsPosted /\ UNCHANGED <<spc, batch, pos, lastOk, commit, delivered, skipped>>
         => LastOkIsPosted'
  BY DEF LastOkIsPosted, Settled
<1>8. UpUntilOutage /\ UNCHANGED <<outages, up>> => UpUntilOutage'
  BY DEF UpUntilOutage
<1>9. QED
  BY <1>1, <1>2, <1>3, <1>4, <1>5, <1>6, <1>7, <1>8

\* The line an ingester appends is the first of its trace.
LEMMA AppendKeepsTrace ==
    ASSUME TypeOK, TraceInv, NEW i \in Ingesters, AppendLine(i)
    PROVE  TraceInv'
<1> USE DEF TraceInv
<1>1. /\ ipc[i] = "append" /\ ipc' = [ipc EXCEPT ![i] = "entry"]
      /\ UNCHANGED <<job, accepted, submitted, kept, spc, batch, rday, ridx, pos, lastOk, commit,
                     savedCommit, delivered, skipped, outages, up>>
  BY DEF AppendLine, senderVars, readVars, historyVars, riskVars, worldVars
<1>2. /\ \A j \in Ingesters : ipc'[j] # "idle" => ipc[j] # "idle"
      /\ \A j \in Ingesters : ipc'[j] \in {"oversized", "append"} =>
           j # i /\ ipc[j] \in {"oversized", "append"}
  BY <1>1 DEF TypeOK, IngestType
<1>3. JobLine(i).trace = job[i].trace
  BY DEF JobLine
<1>4. Stored \subseteq Stored' /\ \A l \in Stored' : l \in Stored \/ l = JobLine(i)
  BY AppendGrows
<1>5. LineOfOneTrace'
  <2>1. \A l \in Stored : l.trace # job[i].trace
    BY <1>1 DEF LineOfOneTrace
  <2>2. \A l, m \in Stored' : l.trace = m.trace => l = m
    BY <1>3, <1>4, <2>1 DEF LineOfOneTrace
  <2>3. \A l \in Stored' : l.trace \in submitted'
    BY <1>1, <1>3, <1>4 DEF LineOfOneTrace, WorksOnSubmitted
  <2>4. ASSUME NEW j \in Ingesters, ipc'[j] \in {"oversized", "append"}, NEW l \in Stored'
        PROVE  l.trace # job'[j].trace
    <3>1. job[j].trace # job[i].trace
      BY <1>1, <1>2, <2>4 DEF WorksOnSubmitted
    <3>2. QED BY <1>1, <1>2, <1>3, <1>4, <2>4, <3>1 DEF LineOfOneTrace
  <2>5. QED
    BY <2>2, <2>3, <2>4 DEF LineOfOneTrace
<1>6. WorksOnSubmitted'
  BY <1>1, <1>2 DEF WorksOnSubmitted
<1>7. KeptIsStored'
  BY <1>1, <1>4 DEF KeptIsStored
<1>8. BatchIsPending'
  BY <1>1, <1>4 DEF BatchIsPending
<1>9. BatchIsPassed'
  <2>1. \A d \in Days : StoredOn(d) \subseteq StoredOn(d)'
    BY AppendGrows
  <2>2. \A d \in Days : \A k \in DOMAIN pending[d] :
          k \in DOMAIN pending'[d] /\ pending'[d][k] = pending[d][k]
    BY AppendGrows
  <2>3. QED
    BY <1>1, <2>1, <2>2 DEF BatchIsPassed
<1>10. QED
  BY <1>1, <1>5, <1>6, <1>7, <1>8, <1>9, TracePartsKept

LEMMA IngestKeepsTrace ==
    ASSUME TypeOK, TraceInv, ~ disturbed => QueueInv, NEW i \in Ingesters, Ingest(i)
    PROVE  TraceInv'
<1> USE DEF TraceInv
<1>t. /\ ipc \in [Ingesters -> IngestPoints]
      /\ job \in [Ingesters -> [trace : Traces \cup {NoTrace}, seq : Int, day : Days]]
  BY DEF TypeOK, IngestType
<1>1. CASE AppendLine(i)
  BY <1>1, AppendKeepsTrace
<1>2. CASE ~ AppendLine(i)
  <2>1. UNCHANGED <<pending, spc, batch, rday, ridx, pos, lastOk, commit, savedCommit,
                    delivered, skipped, outages, up>>
    BY <1>2 DEF Ingest, Allocate, GiveBack, AppendFails, UpdateEntry, TakeImage, ReplaceIngestJson,
                SaveFails, senderVars, readVars, diskVars, historyVars, worldVars
  <2>2. /\ SavedCommitIsBehind' /\ BatchIsPending' /\ BatchIsPassed' /\ LastOkIsPosted'
        /\ UpUntilOutage'
    BY <2>1, TracePartsKept
  <2>3. LineOfOneTrace' /\ WorksOnSubmitted' /\ KeptIsStored'
    <3>1. CASE Allocate(i)
      <4>1. PICK t \in Traces \ submitted :
              /\ submitted' = submitted \cup {t} /\ accepted' = accepted /\ kept' = kept
              /\ job' = [job EXCEPT ![i] = [trace |-> t, seq |-> nextSeq, day |-> day]]
              /\ \E p \in IngestPoints : ipc' = [ipc EXCEPT ![i] = p]
        BY <3>1 DEF Allocate, IngestPoints
      <4>2. /\ job'[i].trace = t
            /\ \A j \in Ingesters : j # i => ipc'[j] = ipc[j] /\ job'[j] = job[j]
        BY <1>t, <4>1
      <4>3. LineOfOneTrace'
        BY <2>1, <4>1, <4>2, StoreKept DEF LineOfOneTrace
      <4>4. WorksOnSubmitted'
        <5>1. accepted' \subseteq submitted' /\ t \notin accepted
          BY <4>1 DEF WorksOnSubmitted
        <5>2. ASSUME NEW j \in Ingesters, ipc'[j] # "idle"
              PROVE  job'[j].trace \in submitted' \ accepted'
          BY <4>1, <4>2, <5>1, <5>2 DEF WorksOnSubmitted
        <5>3. ASSUME NEW j \in Ingesters, NEW k \in Ingesters, ipc'[j] # "idle", ipc'[k] # "idle",
                     job'[k].trace = job'[j].trace
              PROVE  j = k
          BY <4>1, <4>2, <5>3 DEF WorksOnSubmitted
        <5>4. QED BY <5>1, <5>2, <5>3 DEF WorksOnSubmitted
      <4>5. KeptIsStored'
        BY <2>1, <4>1, TracePartsKept
      <4>6. QED BY <4>3, <4>4, <4>5
    <3>2. CASE GiveBack(i) \/ AppendFails(i) \/ SaveFails(i)
      <4>1. /\ ipc' = [ipc EXCEPT ![i] = "idle"] /\ job' = [job EXCEPT ![i] = Idle]
            /\ UNCHANGED <<submitted, accepted, kept>>
        BY <3>2 DEF GiveBack, AppendFails, SaveFails, historyVars, riskVars
      <4>2. ipc'[i] = "idle" /\ \A j \in Ingesters : j # i => ipc'[j] = ipc[j] /\ job'[j] = job[j]
        BY <1>t, <4>1
      <4>3. QED
        BY <2>1, <4>1, <4>2, StoreKept DEF LineOfOneTrace, WorksOnSubmitted, KeptIsStored
    <3>3. CASE UpdateEntry(i) \/ TakeImage(i)
      <4>1. /\ ipc'[i] \in {"image", "replace"} /\ ipc[i] # "idle"
            /\ \A j \in Ingesters : j # i => ipc'[j] = ipc[j]
            /\ UNCHANGED <<job, submitted, accepted, kept>>
        BY <1>t, <3>3 DEF UpdateEntry, TakeImage, historyVars, riskVars
      <4>2. QED
        BY <2>1, <4>1, StoreKept DEF LineOfOneTrace, WorksOnSubmitted, KeptIsStored
    <3>4. CASE ReplaceIngestJson(i)
      <4>1. /\ ipc[i] = "replace" /\ submitted' = submitted
            /\ accepted' = accepted \cup {job[i].trace}
            /\ kept' \subseteq kept \/ (~ disturbed /\ kept' = kept \cup {job[i].trace})
            /\ ipc' = [ipc EXCEPT ![i] = "idle"] /\ job' = [job EXCEPT ![i] = Idle]
        BY <3>4 DEF ReplaceIngestJson
      <4>2. ipc'[i] = "idle" /\ \A j \in Ingesters : j # i => ipc'[j] = ipc[j] /\ job'[j] = job[j]
        BY <1>t, <4>1
      <4>3. LineOfOneTrace'
        BY <2>1, <4>1, <4>2, StoreKept DEF LineOfOneTrace
      <4>4. WorksOnSubmitted'
        BY <4>1, <4>2 DEF WorksOnSubmitted
      <4>5. CASE kept' \subseteq kept
        BY <2>1, <4>3, <4>4, <4>5, TracePartsKept
      <4>6. CASE ~ disturbed /\ kept' = kept \cup {job[i].trace}
        <5>1. JobLine(i) \in StoredOn(job[i].day) /\ job[i].day \in Days
          BY <1>t, <4>1, <4>6 DEF QueueInv, Numbered, JobIsNewest, Unsaved
        <5>2. JobLine(i) \in Stored /\ JobLine(i).trace = job[i].trace
          BY <5>1 DEF Stored, JobLine
        <5>3. QED
          BY <2>1, <4>3, <4>4, <4>6, <5>2, StoreKept DEF KeptIsStored
      <4>7. QED BY <4>1, <4>5, <4>6
    <3>5. QED BY <1>2, <3>1, <3>2, <3>3, <3>4 DEF Ingest
  <2>4. QED BY <2>2, <2>3
<1>3. QED BY <1>1, <1>2

\* What reading a line does to the batch: it gets the line at its end, or nothing.
LEMMA ReadLineExtends ==
    ASSUME TypeOK, ReadLine, NEW new, new = pending[rday][ridx]
    PROVE  /\ spc = "read" /\ rday \in Days /\ snap[rday] > commit /\ ridx \in DOMAIN pending[rday]
           /\ new \in StoredOn(rday) /\ new \in Stored /\ new \in Line /\ ridx' = ridx + 1
           /\ DOMAIN batch \subseteq DOMAIN batch'
           /\ \A k \in DOMAIN batch : batch'[k] = batch[k]
           /\ \A k \in DOMAIN batch' :
                \/ k \in DOMAIN batch
                \/ batch'[k] = new /\ new.seq > commit /\ \A n \in DOMAIN batch : n < k
           /\ new.seq > commit => \E k \in DOMAIN batch' : batch'[k] = new
           /\ new.seq <= commit => batch' = batch
<1> USE SenderTypes
<1>1. /\ spc = "read" /\ rday \in Days /\ snap[rday] > commit /\ ridx \in DOMAIN pending[rday]
      /\ batch' = Batched(new) /\ ridx' = ridx + 1
  BY DEF ReadLine
<1>2. new \in StoredOn(rday) /\ new \in Stored /\ new \in Line /\ new.seq \in Int
  <2>1. new \in StoredOn(rday)
    BY <1>1 DEF StoredOn
  <2>2. QED
    BY <1>1, <2>1, LineTypes DEF Stored
<1>3. CASE new.seq > commit
  <2>1. batch' = Append(batch, new)
    BY <1>1, <1>3 DEF Batched
  <2>2. /\ DOMAIN batch' = DOMAIN batch \cup {Len(batch) + 1}
        /\ \A k \in DOMAIN batch : batch'[k] = batch[k]
        /\ batch'[Len(batch) + 1] = new
        /\ \A n \in DOMAIN batch : n < Len(batch) + 1
    BY <1>2, <2>1
  <2>3. QED
    BY <1>1, <1>2, <1>3, <2>2
<1>4. CASE ~ (new.seq > commit)
  BY <1>1, <1>2, <1>4 DEF Batched
<1>5. QED
  BY <1>3, <1>4

LEMMA SendKeepsTrace ==
    ASSUME TypeOK, TraceInv, Send
    PROVE  TraceInv'
<1> USE SenderTypes DEF TraceInv
<1>1. /\ UNCHANGED <<pending, submitted, accepted, ipc, job, outages, up>> /\ kept' \subseteq kept
  BY DEF Send, LoadIngestState, ReadLine, NextFile, ReadFails, EndRead, PostOk, PostBadRequest,
         Answered, PostHttpError, PostNetworkError, EndBatch, SaveSenderState, SenderSaveFails,
         ingestVars, diskVars, historyVars, riskVars, worldVars
<1>2. LineOfOneTrace' /\ WorksOnSubmitted' /\ KeptIsStored' /\ UpUntilOutage'
  BY <1>1, TracePartsKept
<1>3. CASE LoadIngestState
  <2>1. /\ spc' = "read" /\ batch' = <<>> /\ UNCHANGED <<savedCommit, commit>>
    BY <1>3 DEF LoadIngestState, diskVars
  <2>2. QED
    BY <1>2, <2>1 DEF SavedCommitIsBehind, BatchIsPending, BatchIsPassed, LastOkIsPosted
<1>4. CASE ReadLine
  <2> DEFINE new == pending[rday][ridx]
  <2>1. /\ spc = "read" /\ spc' = "read" /\ rday \in Days /\ ridx' = ridx + 1
        /\ UNCHANGED <<savedCommit, commit, rday>>
    BY <1>4, ReadLineExtends DEF ReadLine, diskVars
  <2>2. /\ ridx \in DOMAIN pending[rday] /\ new \in Stored
        /\ \A k \in DOMAIN batch' :
             \/ k \in DOMAIN batch /\ batch'[k] = batch[k]
             \/ batch'[k] = new /\ new.seq > commit
    BY <1>4, ReadLineExtends
  <2>3. BatchIsPending'
    BY <1>1, <2>1, <2>2, StoreKept DEF BatchIsPending
  <2>4. BatchIsPassed'
    <3> SUFFICES ASSUME NEW j \in DOMAIN batch'
                 PROVE  \/ \E d \in Days : d < rday /\ batch'[j] \in StoredOn(d)
                        \/ \E k \in DOMAIN pending[rday] : k < ridx + 1 /\ batch'[j] = pending[rday][k]
      BY <1>1, <2>1, StoreKept DEF BatchIsPassed
    <3>1. CASE j \in DOMAIN batch
      <4>1. CASE \E d \in Days : d < rday /\ batch[j] \in StoredOn(d)
        BY <1>4, <3>1, <4>1, ReadLineExtends
      <4>2. CASE \E k \in DOMAIN pending[rday] : k < ridx /\ batch[j] = pending[rday][k]
        <5>1. PICK k \in DOMAIN pending[rday] : k < ridx /\ batch[j] = pending[rday][k]
          BY <4>2
        <5>2. k < ridx + 1 /\ batch'[j] = pending[rday][k]
          BY <1>4, <2>1, <3>1, <5>1, ReadLineExtends
        <5>3. QED BY <5>2
      <4>3. QED BY <2>1, <3>1, <4>1, <4>2 DEF BatchIsPassed
    <3>2. CASE j \notin DOMAIN batch
      <4>1. batch'[j] = new /\ ridx < ridx + 1
        BY <2>2, <3>2
      <4>2. QED BY <2>2, <4>1
    <3>3. QED BY <3>1, <3>2
  <2>5. QED
    BY <1>2, <2>1, <2>3, <2>4, TracePartsKept DEF LastOkIsPosted
<1>5. CASE NextFile \/ ReadFails
  <2>1. /\ spc = "read" /\ spc' = "read" /\ rday \in Days /\ rday' = rday + 1
        /\ UNCHANGED <<savedCommit, commit, batch>>
    BY <1>5 DEF NextFile, ReadFails, diskVars
  <2>2. BatchIsPassed'
    <3> SUFFICES ASSUME NEW j \in DOMAIN batch
                 PROVE  \E d \in Days : d < rday + 1 /\ batch[j] \in StoredOn(d)
      BY <1>1, <2>1, StoreKept DEF BatchIsPassed
    <3>1. CASE \E d \in Days : d < rday /\ batch[j] \in StoredOn(d)
      <4>1. PICK d \in Days : d < rday /\ batch[j] \in StoredOn(d)
        BY <3>1
      <4>2. d < rday + 1
        BY <2>1, <4>1 DEF Days
      <4>3. QED BY <4>1, <4>2
    <3>2. CASE \E k \in DOMAIN pending[rday] : batch[j] = pending[rday][k]
      <4>1. batch[j] \in StoredOn(rday) /\ rday < rday + 1
        BY <3>2 DEF StoredOn
      <4>2. QED BY <2>1, <4>1
    <3>3. QED BY <2>1, <3>1, <3>2 DEF BatchIsPassed
  <2>3. BatchIsPending' /\ SavedCommitIsBehind'
    BY <1>1, <2>1, StoreKept DEF BatchIsPending, SavedCommitIsBehind
  <2>4. QED
    BY <1>2, <2>1, <2>2, <2>3 DEF LastOkIsPosted
<1>6. CASE EndRead
  <2>1. /\ spc = "read" /\ spc' \in {"idle", "post"} /\ pos' = 1 /\ (spc' = "post" => lastOk' = commit)
        /\ UNCHANGED <<savedCommit, commit, batch>>
    BY <1>6 DEF EndRead, diskVars
  <2>2. LastOkIsPosted'
    BY <2>1 DEF LastOkIsPosted
  <2>3. QED
    BY <1>1, <1>2, <2>1, <2>2, StoreKept DEF BatchIsPending, BatchIsPassed, SavedCommitIsBehind
<1>7. CASE PostOk \/ PostBadRequest
  <2>1. /\ spc = "post" /\ spc' = "post" /\ pos \in DOMAIN batch /\ pos' = pos + 1
        /\ lastOk' = batch[pos].seq /\ Settled' = Settled \cup {batch[pos].trace}
        /\ UNCHANGED <<savedCommit, commit, batch>>
    BY <1>7 DEF PostOk, PostBadRequest, Answered, Posting, Settled, diskVars, readVars
  <2>2. LastOkIsPosted'
    <3>1. pos' <= Len(batch') + 1 /\ lastOk' = IF pos' = 1 THEN commit' ELSE batch'[pos' - 1].seq
      BY <2>1
    <3>2. ASSUME NEW k \in DOMAIN batch, k < pos + 1 PROVE batch[k].trace \in Settled'
      <4>1. CASE k < pos
        BY <2>1, <4>1 DEF LastOkIsPosted
      <4>2. CASE k = pos
        BY <2>1, <4>2
      <4>3. QED BY <3>2, <4>1, <4>2
    <3>3. QED BY <2>1, <3>1, <3>2 DEF LastOkIsPosted
  <2>3. QED
    BY <1>1, <1>2, <2>1, <2>2, StoreKept DEF BatchIsPending, BatchIsPassed, SavedCommitIsBehind
<1>8. CASE PostHttpError \/ PostNetworkError \/ EndBatch
  <2>1. /\ spc' \in {"idle", "save"} /\ savedCommit' = savedCommit
        /\ commit' = commit \/ commit' = CommitReached
    BY <1>8 DEF PostHttpError, PostNetworkError, EndBatch, diskVars
  <2>2. commit <= commit' /\ commit' \in Int
    BY <2>1 DEF CommitReached
  <2>3. QED
    BY <1>2, <2>1, <2>2 DEF BatchIsPending, BatchIsPassed, LastOkIsPosted, SavedCommitIsBehind
<1>9. CASE SaveSenderState \/ SenderSaveFails
  <2>1. /\ spc' = "idle" /\ commit' = commit /\ savedCommit' \in {savedCommit, commit}
    BY <1>9 DEF SaveSenderState, SenderSaveFails, diskVars
  <2>2. QED
    BY <1>2, <2>1 DEF BatchIsPending, BatchIsPassed, LastOkIsPosted, SavedCommitIsBehind
<1>10. QED
  BY <1>3, <1>4, <1>5, <1>6, <1>7, <1>8, <1>9 DEF Send

LEMMA WorldKeepsTrace ==
    ASSUME TypeOK, TraceInv, Restart \/ NewDay \/ LangfuseDown \/ LangfuseUp \/ UNCHANGED vars
    PROVE  TraceInv'
<1> USE DEF TraceInv
<1>1. CASE Restart
  <2>1. /\ UNCHANGED <<pending, submitted, accepted, savedCommit, outages, up>> /\ kept' \subseteq kept
        /\ spc' = "idle" /\ commit' = savedCommit /\ \A i \in Ingesters : ipc'[i] = "idle"
    BY <1>1 DEF Restart
  <2>2. LineOfOneTrace' /\ WorksOnSubmitted'
    BY <2>1, StoreKept DEF LineOfOneTrace, WorksOnSubmitted
  <2>3. SavedCommitIsBehind' /\ BatchIsPending' /\ BatchIsPassed' /\ LastOkIsPosted'
    BY <2>1, SenderTypes DEF SavedCommitIsBehind, BatchIsPending, BatchIsPassed, LastOkIsPosted
  <2>4. QED BY <2>1, <2>2, <2>3, TracePartsKept
<1>2. CASE NewDay \/ LangfuseDown \/ LangfuseUp \/ UNCHANGED vars
  <2>1. UNCHANGED <<ingestVars, senderVars, diskVars, historyVars>>
    BY <1>2 DEF NewDay, LangfuseDown, LangfuseUp, vars
  <2>2. UNCHANGED <<ipc, job, spc, commit, rday, ridx, batch, pos, lastOk, pending, savedCommit,
                    submitted, accepted, delivered, skipped, kept>>
    BY <2>1 DEF ingestVars, senderVars, readVars, diskVars, historyVars, riskVars
  <2>3. UpUntilOutage'
    BY <1>2 DEF NewDay, LangfuseDown, LangfuseUp, vars, worldVars, TypeOK, WorldType, UpUntilOutage
  <2>4. QED
    BY <2>2, <2>3, TracePartsKept
<1>3. QED BY <1>1, <1>2

LEMMA TraceKept ==
    ASSUME TypeOK, TraceInv, ~ disturbed => QueueInv, [Next]_vars
    PROVE  TraceInv'
  BY IngestKeepsTrace, SendKeepsTrace, WorldKeepsTrace DEF Next

-----------------------------------------------------------------------------
(* QueueInv, until ingests overlap or something is exposed: one lemma per  *)
(* group of steps.                                                         *)

\* A group of conjuncts whose variables no step changes is kept.
LEMMA PartsKept ==
    /\ Numbered /\ UNCHANGED <<pending, ipc, nextSeq, job, day, img, files>> => Numbered'
    /\ Indexed /\ UNCHANGED <<pending, files, savedFiles, ipc, job>> => Indexed'
    /\ Committed /\ UNCHANGED <<pending, commit, ipc, nextSeq, delivered, skipped>>
         => Committed'
    /\ Reading /\ UNCHANGED <<pending, spc, snap, rday, ridx, batch, commit>> => Reading'
    /\ Batching /\ UNCHANGED <<pending, spc, batch, commit, lastOk, ipc, nextSeq,
                               delivered, skipped>> => Batching'
    /\ AcceptedIsIndexed /\ UNCHANGED <<pending, accepted, savedNext, savedFiles>> => AcceptedIsIndexed'
<1> USE StoreKept
<1>1. Numbered /\ UNCHANGED <<pending, ipc, nextSeq, job, day, img, files>> => Numbered'
  <2> SUFFICES ASSUME Numbered, UNCHANGED <<pending, ipc, nextSeq, job, day, img, files>>
               PROVE  Numbered'
    OBVIOUS
  <2>1. OrderedInFile' /\ OrderedByDay' /\ NothingBeyondToday'
    BY DEF Numbered, OrderedInFile, OrderedByDay, NothingBeyondToday
  <2>2. BelowFrontier'
    BY DEF Numbered, BelowFrontier, Frontier, Reserved
  <2>3. JobIsNewest'
    BY DEF Numbered, JobIsNewest, Unsaved, JobLine, StoredOn
  <2>4. QED
    BY <2>1, <2>2, <2>3 DEF Numbered
<1>2. Indexed /\ UNCHANGED <<pending, files, savedFiles, ipc, job>> => Indexed'
  BY DEF Indexed, IndexCovers, SavedInOrder, IndexBacked, Backed, JobLine
<1>3. Committed /\ UNCHANGED <<pending, commit, ipc, nextSeq, delivered, skipped>>
        => Committed'
  BY DEF Committed, CommitIsBehind, CommitIsSettled, Frontier, Reserved, Settled
<1>4. Reading /\ UNCHANGED <<pending, spc, snap, rday, ridx, batch, commit>> => Reading'
  BY DEF Reading, SnapshotBacked, Backed, SnapshotCovers, ReaderPassedFiles, ReaderPassedLines,
         InBatch
<1>5. Batching /\ UNCHANGED <<pending, spc, batch, commit, lastOk, ipc, nextSeq,
                              delivered, skipped>> => Batching'
  BY DEF Batching, BatchHasNoGap, PostedIsSettled, Frontier, Reserved, Settled
<1>6. AcceptedIsIndexed /\ UNCHANGED <<pending, accepted, savedNext, savedFiles>> => AcceptedIsIndexed'
  BY DEF AcceptedIsIndexed
<1>7. QED
  BY <1>1, <1>2, <1>3, <1>4, <1>5, <1>6

\* Who ingests is alone, nothing is torn, and all that is accepted is kept.
LEMMA Alone ==
    ASSUME TypeOK, OneIngester, NEW i \in Ingesters, Ingest(i), ~ disturbed'
    PROVE  /\ \A j \in Ingesters : j # i => ipc[j] = "idle" /\ ipc'[j] = "idle"
           /\ OneIngester'
<1>1. ASSUME NEW j \in Ingesters, j # i PROVE ipc[j] = "idle" /\ ipc'[j] = "idle"
  <2>1. ipc'[j] = ipc[j]
    <3>1. \E p \in IngestPoints : ipc' = [ipc EXCEPT ![i] = p]
      BY DEF Ingest, Allocate, GiveBack, AppendLine, AppendFails, UpdateEntry, TakeImage,
             ReplaceIngestJson, SaveFails, IngestPoints
    <3>2. QED BY <1>1, <3>1 DEF TypeOK, IngestType
  <2>2. ipc[j] = "idle"
    <3>1. CASE Allocate(i)
      <4>1. ~ \E k \in Ingesters : ipc[k] # "idle"
        BY <3>1 DEF Allocate, disturbed
      <4>2. QED BY <4>1
    <3>2. CASE ~ Allocate(i)
      <4>1. ipc[i] # "idle"
        BY <3>2 DEF Ingest, GiveBack, AppendLine, AppendFails, UpdateEntry, TakeImage,
                    ReplaceIngestJson, SaveFails
      <4>2. QED BY <1>1, <4>1 DEF OneIngester
    <3>3. QED BY <3>1, <3>2
  <2>3. QED BY <2>1, <2>2
<1>2. QED
  BY <1>1 DEF OneIngester

LEMMA StaysUndamaged ==
    ASSUME TypeOK, Undamaged, [Next]_vars, ~ disturbed'
    PROVE  ~ disturbed /\ Undamaged'
<1> USE DEF Undamaged, disturbed
<1>1. CASE \E i \in Ingesters : Allocate(i)
  <2>1. UNCHANGED <<torn, kept, accepted, exposed>> /\ (overlapped => overlapped')
    BY <1>1 DEF Allocate, diskVars
  <2>2. QED BY <2>1
<1>2. CASE \E i \in Ingesters : AppendLine(i)
  BY <1>2 DEF AppendLine, historyVars, riskVars
<1>3. CASE \E i \in Ingesters : AppendFails(i)
  <2>1. PICK half : torn' = torn \cup half /\ exposed' = (exposed \/ half # {})
    BY <1>3 DEF AppendFails
  <2>2. ~ exposed /\ half = {}
    BY <2>1
  <2>3. UNCHANGED <<overlapped, kept, accepted>>
    BY <1>3 DEF AppendFails
  <2>4. QED BY <2>1, <2>2, <2>3
<1>4. CASE \E i \in Ingesters : ReplaceIngestJson(i)
  BY <1>4 DEF ReplaceIngestJson
<1>5. CASE \E i \in Ingesters : GiveBack(i) \/ UpdateEntry(i) \/ TakeImage(i) \/ SaveFails(i)
  BY <1>5 DEF GiveBack, UpdateEntry, TakeImage, SaveFails, diskVars, historyVars, riskVars
<1>6. CASE Send
  BY <1>6 DEF Send, LoadIngestState, ReadLine, NextFile, ReadFails, EndRead, PostOk, PostBadRequest,
     Answered, PostHttpError, PostNetworkError, EndBatch, SaveSenderState, SenderSaveFails,
     diskVars, historyVars, riskVars
<1>7. CASE Restart
  BY <1>7 DEF Restart
<1>8. CASE NewDay \/ LangfuseDown \/ LangfuseUp \/ UNCHANGED vars
  BY <1>8 DEF NewDay, LangfuseDown, LangfuseUp, vars, diskVars, historyVars, riskVars
<1>9. QED
  BY <1>1, <1>2, <1>3, <1>4, <1>5, <1>6, <1>7, <1>8 DEF Next, Ingest

LEMMA FrontierType == TypeOK => Frontier \in Int
  BY DEF TypeOK, IngestType, Frontier

\* Where the frontier is, for an ingester that is alone.
LEMMA FrontierSteps ==
    ASSUME TypeOK, NEW i \in Ingesters, Ingest(i),
           \A j \in Ingesters : j # i => ipc[j] = "idle" /\ ipc'[j] = "idle"
    PROVE  /\ Allocate(i) => Frontier = nextSeq /\ Frontier' = Frontier
           /\ GiveBack(i) => Frontier' = Frontier
           /\ AppendLine(i) \/ AppendFails(i) => Frontier = nextSeq - 1 /\ Frontier' = Frontier + 1
           /\ UpdateEntry(i) \/ TakeImage(i) \/ ReplaceIngestJson(i) \/ SaveFails(i) => Frontier' = Frontier
<1> USE DEF TypeOK, IngestType, Frontier, Reserved
<1>1. ASSUME Allocate(i) PROVE Frontier = nextSeq /\ Frontier' = Frontier
  <2>1. ipc[i] = "idle" /\ ipc'[i] \in {"oversized", "append"} /\ nextSeq' = nextSeq + 1
    BY <1>1 DEF Allocate
  <2>2. ~ Reserved /\ Reserved'
    BY <2>1
  <2>3. Frontier = nextSeq /\ Frontier' = nextSeq' - 1
    BY <2>2
  <2>4. QED BY <2>1, <2>3
<1>2. GiveBack(i) => Frontier' = Frontier
  BY DEF GiveBack
<1>3. AppendLine(i) \/ AppendFails(i) => Frontier = nextSeq - 1 /\ Frontier' = Frontier + 1
  BY DEF AppendLine, AppendFails
<1>4. UpdateEntry(i) \/ TakeImage(i) \/ ReplaceIngestJson(i) \/ SaveFails(i) => Frontier' = Frontier
  BY DEF UpdateEntry, TakeImage, ReplaceIngestJson, SaveFails
<1>5. QED
  BY <1>1, <1>2, <1>3, <1>4

LEMMA IngestKeeps ==
    ASSUME TypeOK, TraceInv, QueueInv, NEW i \in Ingesters, Ingest(i), ~ disturbed'
    PROVE  QueueInv'
<1> USE DEF QueueInv
<1>t. /\ nextSeq \in Int /\ files \in [Days -> Int] /\ ipc \in [Ingesters -> IngestPoints]
      /\ job \in [Ingesters -> [trace : Traces \cup {NoTrace}, seq : Int, day : Days]]
      /\ img \in [Ingesters -> [next : Int, files : [Days -> Int]]]
      /\ day \in Days /\ savedFiles \in [Days -> Int] /\ savedNext \in Int
  BY DEF TypeOK, IngestType, WorldType, DiskType
<1>s. /\ \A j \in Ingesters : j # i => ipc[j] = "idle" /\ ipc'[j] = "idle"
      /\ OneIngester' /\ Undamaged'
  BY Alone, StaysUndamaged DEF Next
<1>f. Frontier \in Int
  BY FrontierType
<1>1. CASE Allocate(i)
  <2>f. Frontier' = Frontier
    BY <1>1, <1>s, FrontierSteps
  <2>1. /\ ipc[i] = "idle" /\ ipc'[i] \in {"oversized", "append"}
        /\ nextSeq' = nextSeq + 1 /\ job'[i].seq = nextSeq /\ job'[i].day = day
        /\ UNCHANGED <<day, pending, files, img, savedNext, savedFiles>>
    BY <1>1, <1>t DEF Allocate, diskVars, worldVars
  <2>2. BelowFrontier'
    BY <2>f, <2>1, StoreKept DEF Numbered, BelowFrontier
  <2>3. JobIsNewest'
    <3>1. \A e \in Days : job'[i].day < e => pending'[e] = <<>>
      BY <2>1 DEF Numbered, NothingBeyondToday
    <3>2. ~ Unsaved(i)' /\ job'[i].day <= day' /\ job'[i].seq = nextSeq' - 1
      BY <2>1, <1>t DEF Unsaved, Days
    <3>3. QED
      BY <2>1, <3>1, <3>2, <1>s DEF JobIsNewest
  <2>4. OrderedInFile' /\ OrderedByDay' /\ NothingBeyondToday'
    BY <2>1, StoreKept DEF Numbered, OrderedInFile, OrderedByDay, NothingBeyondToday
  <2>5. Indexed'
    <3>1. \A d \in Days : \A l \in StoredOn(d) : l.seq <= files[d]
      BY <2>1, <1>s DEF Indexed, IndexCovers
    <3>2. QED
      BY <2>1, <3>1, StoreKept DEF Indexed, IndexCovers, SavedInOrder, IndexBacked, Backed
  <2>6. Committed'
    BY <1>1, <2>f, <2>1, StoreKept DEF Allocate, Committed, CommitIsBehind, CommitIsSettled, Settled,
       senderVars
  <2>7. Batching'
    <3>1. /\ UNCHANGED <<spc, batch, commit, lastOk, pos, delivered, skipped>>
          /\ Stored' = Stored /\ Frontier' = Frontier
      BY <1>1, <2>f, <2>1, StoreKept DEF Allocate, senderVars, readVars
    <3>3. BatchHasNoGap'
      BY <3>1 DEF Batching, BatchHasNoGap
    <3>4. PostedIsSettled'
      BY <3>1 DEF Batching, PostedIsSettled, Settled
    <3>5. QED BY <3>3, <3>4 DEF Batching
  <2>8. Reading' /\ AcceptedIsIndexed'
    BY <1>1, <2>1, PartsKept DEF Allocate, senderVars, readVars
  <2>9. QED
    BY <1>s, <2>2, <2>3, <2>4, <2>5, <2>6, <2>7, <2>8 DEF Numbered
<1>2. CASE GiveBack(i) \/ AppendFails(i) \/ SaveFails(i)
  <2>f. Frontier <= Frontier' /\ Frontier' \in Int
    BY <1>2, <1>s, <1>f, FrontierSteps
  <2>1. /\ ipc[i] \notin {"idle", "entry"} /\ ipc'[i] = "idle"
        /\ UNCHANGED <<day, pending, files, savedNext, savedFiles, accepted, delivered, skipped>>
        /\ UNCHANGED senderVars
    BY <1>2, <1>t DEF GiveBack, AppendFails, SaveFails, diskVars, worldVars, historyVars
  <2>c. commit \in Int /\ lastOk \in Int /\ \A l \in Stored : l.seq \in Int
    BY SenderTypes, LineTypes DEF Stored
  <2>2. BelowFrontier'
    BY <2>1, <2>f, <2>c, <1>f, StoreKept DEF Numbered, BelowFrontier
  <2>3. JobIsNewest'
    BY <2>1, <1>s DEF JobIsNewest
  <2>4. OrderedInFile' /\ OrderedByDay' /\ NothingBeyondToday'
    BY <2>1, StoreKept DEF Numbered, OrderedInFile, OrderedByDay, NothingBeyondToday
  <2>5. Indexed'
    <3>1. \A d \in Days : \A l \in StoredOn(d) : l.seq <= files[d]
      BY <2>1, <1>s DEF Indexed, IndexCovers
    <3>2. QED
      BY <2>1, <3>1, StoreKept DEF Indexed, IndexCovers, SavedInOrder, IndexBacked, Backed
  <2>6. Committed'
    BY <2>1, <2>f, <2>c, <1>f, StoreKept DEF Committed, CommitIsBehind, CommitIsSettled, Settled, senderVars
  <2>7. Batching'
    <3>1. UNCHANGED <<spc, batch, commit, lastOk, delivered, skipped>> /\ Stored' = Stored
      BY <2>1, StoreKept DEF senderVars, readVars
    <3>3. BatchHasNoGap'
      BY <3>1 DEF Batching, BatchHasNoGap
    <3>4. PostedIsSettled'
      BY <3>1, <2>f, <2>c, <1>f DEF Batching, PostedIsSettled, Settled
    <3>5. QED BY <3>3, <3>4 DEF Batching
  <2>8. Reading' /\ AcceptedIsIndexed'
    BY <2>1, PartsKept DEF senderVars, readVars
  <2>9. QED
    BY <1>s, <2>2, <2>3, <2>4, <2>5, <2>6, <2>7, <2>8 DEF Numbered
<1>4. CASE UpdateEntry(i)
  <2>f. Frontier' = Frontier
    BY <1>4, <1>s, FrontierSteps
  <2>1. /\ ipc[i] = "entry" /\ ipc' = [ipc EXCEPT ![i] = "image"]
        /\ files' = [files EXCEPT ![job[i].day] = MaxSeqWith(@, job[i].seq)]
        /\ UNCHANGED <<day, nextSeq, job, img, pending, savedNext, savedFiles>>
    BY <1>4 DEF UpdateEntry, diskVars, worldVars
  <2>2. JobIsNewest'
    <3>1. /\ job[i].day <= day /\ job[i].seq = nextSeq - 1
          /\ \A e \in Days : job[i].day < e => pending[e] = <<>>
          /\ JobLine(i) \in StoredOn(job[i].day)
      BY <2>1 DEF Numbered, JobIsNewest, Unsaved
    <3>2. UNCHANGED JobLine(i) /\ UNCHANGED StoredOn(job[i].day)
      BY <2>1 DEF JobLine, StoredOn
    <3>3. ipc'[i] = "image"
      BY <2>1, <1>t
    <3>4. QED
      BY <2>1, <1>s, <3>1, <3>2, <3>3 DEF JobIsNewest
  <2>3. Numbered'
    BY <2>f, <2>1, <2>2, StoreKept DEF Numbered, OrderedInFile, OrderedByDay, NothingBeyondToday,
       BelowFrontier
  <2>4. JobLine(i) \in StoredOn(job[i].day)
    BY <2>1 DEF Numbered, JobIsNewest, Unsaved
  <2>5. \A d \in Days : /\ files'[d] = IF d = job[i].day /\ job[i].seq > files[d] THEN job[i].seq ELSE files[d]
                        /\ files[d] <= files'[d]
    BY <2>1, <1>t DEF MaxSeqWith
  <2>6. IndexCovers'
    <3> SUFFICES ASSUME NEW d \in Days, NEW l \in StoredOn(d) PROVE l.seq <= files'[d]
      BY <2>1, StoreKept DEF IndexCovers
    <3>1. CASE l.seq <= files[d]
      BY <3>1, <2>5, <1>t, LineTypes
    <3>2. CASE ~ (l.seq <= files[d])
      <4>1. job[i].day = d /\ l = JobLine(i)
        BY <3>2, <1>s DEF Indexed, IndexCovers
      <4>2. QED
        BY <4>1, <2>5, <1>t DEF JobLine
    <3>3. QED
      BY <3>1, <3>2
  <2>7. SavedInOrder'
    BY <2>1, StoreKept DEF Indexed, SavedInOrder
  <2>8. IndexBacked'
    <3>1. pending[job[i].day] # <<>>
      BY <2>4 DEF StoredOn
    <3>2. QED
      <4>1. Backed(files)'
        <5> SUFFICES ASSUME NEW e \in Days, files'[e] > 0 PROVE pending[e] # <<>>
          BY <2>1 DEF Backed
        <5>1. QED
          BY <2>5, <3>1 DEF Indexed, IndexBacked, Backed
      <4>2. Backed(savedFiles)'
        BY <2>1 DEF Indexed, IndexBacked, Backed
      <4>4. QED
        BY <4>1, <4>2 DEF IndexBacked
  <2>9. Committed' /\ Batching'
    BY <1>4, <2>f, <2>1, StoreKept DEF UpdateEntry, Committed, CommitIsBehind, CommitIsSettled, Settled,
       Batching, BatchHasNoGap, PostedIsSettled, senderVars, readVars, diskVars, historyVars
  <2>10. Reading' /\ AcceptedIsIndexed'
    BY <1>4, <2>1, PartsKept DEF UpdateEntry, senderVars, readVars, historyVars
  <2>11. QED
    BY <1>s, <2>3, <2>6, <2>7, <2>8, <2>9, <2>10 DEF Indexed
<1>5. CASE TakeImage(i)
  <2>f. Frontier' = Frontier
    BY <1>5, <1>s, FrontierSteps
  <2>1. /\ ipc[i] = "image" /\ ipc' = [ipc EXCEPT ![i] = "replace"]
        /\ img' = [img EXCEPT ![i] = [next |-> nextSeq, files |-> files]]
        /\ UNCHANGED <<day, nextSeq, job, files, pending, savedNext, savedFiles>>
    BY <1>5 DEF TakeImage, diskVars, worldVars
  <2>2. JobIsNewest'
    <3>1. /\ job[i].day <= day /\ job[i].seq = nextSeq - 1
          /\ \A e \in Days : job[i].day < e => pending[e] = <<>>
          /\ JobLine(i) \in StoredOn(job[i].day)
      BY <2>1 DEF Numbered, JobIsNewest, Unsaved
    <3>2. UNCHANGED JobLine(i) /\ UNCHANGED StoredOn(job[i].day)
      BY <2>1 DEF JobLine, StoredOn
    <3>3. ipc'[i] = "replace" /\ img'[i] = [next |-> nextSeq, files |-> files]
      BY <2>1, <1>t
    <3>4. QED
      BY <2>1, <1>s, <3>1, <3>2, <3>3 DEF JobIsNewest
  <2>3. Numbered'
    BY <2>f, <2>1, <2>2, StoreKept DEF Numbered, OrderedInFile, OrderedByDay, NothingBeyondToday,
       BelowFrontier
  <2>4. Indexed'
    <3>1. \A d \in Days : \A l \in StoredOn(d) : l.seq <= files[d]
      BY <2>1, <1>s DEF Indexed, IndexCovers
    <3>2. QED
      BY <2>1, <3>1, StoreKept DEF Indexed, IndexCovers, SavedInOrder, IndexBacked, Backed
  <2>5. Committed' /\ Batching'
    BY <1>5, <2>f, <2>1, StoreKept DEF TakeImage, Committed, CommitIsBehind, CommitIsSettled, Settled,
       Batching, BatchHasNoGap, PostedIsSettled, senderVars, readVars, diskVars, historyVars
  <2>6. Reading' /\ AcceptedIsIndexed'
    BY <1>5, <2>1, PartsKept DEF TakeImage, senderVars, readVars, historyVars
  <2>7. QED
    BY <1>s, <2>3, <2>4, <2>5, <2>6
<1>6. CASE ReplaceIngestJson(i)
  <2>f. Frontier' = Frontier
    BY <1>6, <1>s, FrontierSteps
  <2>1. /\ ipc[i] = "replace" /\ ipc' = [ipc EXCEPT ![i] = "idle"]
        /\ savedNext' = img[i].next /\ savedFiles' = img[i].files
        /\ accepted' = accepted \cup {job[i].trace}
        /\ UNCHANGED <<day, nextSeq, files, pending, savedCommit>>
    BY <1>6 DEF ReplaceIngestJson, worldVars
  <2>2. savedNext' = nextSeq /\ savedFiles' = files
    BY <2>1 DEF Numbered, JobIsNewest
  <2>3. JobIsNewest'
    BY <2>1, <1>s, <1>t DEF JobIsNewest
  <2>4. Numbered'
    BY <2>f, <2>1, <2>3, StoreKept DEF Numbered, OrderedInFile, OrderedByDay, NothingBeyondToday,
       BelowFrontier
  <2>5. \A d \in Days : \A l \in StoredOn(d) : l.seq <= files[d] /\ l.seq < nextSeq
    BY <2>1, <1>s DEF Indexed, IndexCovers, Numbered, BelowFrontier, Stored, Frontier, Reserved
  <2>6. Indexed'
    BY <2>1, <2>2, <2>5, <1>s, <1>t, StoreKept DEF Indexed, IndexCovers, SavedInOrder, IndexBacked, Backed
  <2>7. Committed' /\ Batching'
    BY <1>6, <2>f, <2>1, StoreKept DEF ReplaceIngestJson, Committed, CommitIsBehind, CommitIsSettled,
       Settled, Batching, BatchHasNoGap, PostedIsSettled, senderVars, readVars
  <2>8. Reading'
    BY <1>6, <2>1, PartsKept DEF ReplaceIngestJson, senderVars, readVars
  <2>9. AcceptedIsIndexed'
    <3>1. JobLine(i) \in StoredOn(job[i].day) /\ job[i].day \in Days /\ JobLine(i).trace = job[i].trace
      BY <2>1, <1>t DEF Numbered, JobIsNewest, Unsaved, JobLine
    <3>2. \A t \in accepted : \E d \in Days : \E l \in StoredOn(d) : l.trace = t
      BY DEF AcceptedIsIndexed
    <3>3. QED
      BY <2>1, <2>2, <2>5, <3>1, <3>2, StoreKept DEF AcceptedIsIndexed
  <2>10. QED
    BY <1>s, <2>4, <2>6, <2>7, <2>8, <2>9
<1>3. CASE AppendLine(i)
  <2> DEFINE new == JobLine(i)
             today == job[i].day
  <2>1. /\ ipc[i] = "append" /\ ipc' = [ipc EXCEPT ![i] = "entry"]
        /\ UNCHANGED <<day, nextSeq, job, img, files, savedNext, savedFiles>>
    BY <1>3 DEF AppendLine, worldVars
  <2>a. /\ today \in Days /\ new \in Line /\ new.seq = job[i].seq
        /\ \A d \in Days : d # today => pending'[d] = pending[d] /\ StoredOn(d)' = StoredOn(d)
        /\ \A d \in Days : d = today => /\ pending'[d] = Append(pending[d], new)
                                        /\ StoredOn(d)' = StoredOn(d) \cup {new}
        /\ Stored' = Stored \cup {new}
    <3>1. new.seq = job[i].seq
      BY DEF JobLine
    <3>2. job[i].day \notin torn
      BY DEF Undamaged
    <3>3. QED
      BY <1>3, <3>1, <3>2, AppendAdds
  <2>b. new.seq = Frontier /\ Frontier' = Frontier + 1 /\ Frontier \in Int
    <3>1. Frontier = nextSeq - 1 /\ Frontier' = Frontier + 1
      BY <1>3, <1>s, FrontierSteps
    <3>2. job[i].seq = nextSeq - 1
      BY <2>1 DEF Numbered, JobIsNewest
    <3>3. QED
      BY <2>a, <3>1, <3>2, <1>t
  <2>c. \A l \in Stored : l \in Line /\ l.seq \in Int /\ l.seq < new.seq
    BY <2>b, LineTypes DEF Numbered, BelowFrontier, Stored
  <2>d. \A e \in Days : today < e => pending[e] = <<>> /\ StoredOn(e) = {}
    BY <2>1 DEF Numbered, JobIsNewest, StoredOn
  <2>e. \A d \in Days : StoredOn(d) \subseteq Stored
    BY DEF Stored
  <2> HIDE DEF new, today
  <2>2. OrderedInFile'
    <3> SUFFICES ASSUME NEW d \in Days, NEW j \in DOMAIN pending'[d], NEW k \in DOMAIN pending'[d], j < k
                 PROVE  pending'[d][j].seq < pending'[d][k].seq
      BY DEF OrderedInFile
    <3>1. CASE d # today
      BY <3>1, <2>a DEF Numbered, OrderedInFile
    <3>2. CASE d = today
      <4>1. pending[d] \in Seq(Line)
        BY DEF TypeOK, DiskType
      <4>2. pending'[d] = Append(pending[d], new)
        BY <3>2, <2>a
      <4>3. \A m \in DOMAIN pending[d] : pending[d][m] \in StoredOn(d)
        BY DEF StoredOn
      <4>4. CASE k \in DOMAIN pending[d]
        BY <4>1, <4>2, <4>4 DEF Numbered, OrderedInFile
      <4>5. CASE k \notin DOMAIN pending[d]
        <5>1. k = Len(pending[d]) + 1 /\ j \in DOMAIN pending[d]
          BY <4>1, <4>2, <4>5
        <5>2. pending'[d][k] = new /\ pending'[d][j] = pending[d][j]
          BY <4>1, <4>2, <5>1
        <5>3. QED
          BY <4>3, <5>1, <5>2, <2>c, <2>e
      <4>6. QED
        BY <4>4, <4>5
    <3>3. QED
      BY <3>1, <3>2
  <2>3. OrderedByDay'
    <3> SUFFICES ASSUME NEW d \in Days, NEW e \in Days, d < e,
                        NEW l \in StoredOn(d)', NEW m \in StoredOn(e)'
                 PROVE  l.seq < m.seq
      BY DEF OrderedByDay
    <3>1. CASE e = today
      BY <3>1, <2>a, <2>c, <2>e DEF Numbered, OrderedByDay, Days
    <3>2. CASE e # today
      <4>1. m \in StoredOn(e)
        BY <3>2, <2>a
      <4>2. d # today
        BY <4>1, <2>d
      <4>3. QED
        BY <4>1, <4>2, <2>a DEF Numbered, OrderedByDay
    <3>3. QED
      BY <3>1, <3>2
  <2>4. BelowFrontier'
    BY <2>a, <2>b, <2>c DEF BelowFrontier
  <2>f. today <= day /\ new = JobLine(i)' /\ job'[i].day = today /\ ipc'[i] = "entry"
    BY <2>1, <1>t DEF Numbered, JobIsNewest, JobLine, new, today
  <2>g. ASSUME NEW e \in Days PROVE pending'[e] = pending[e] \/ pending'[e] # <<>>
    <3>1. pending[e] \in Seq(Line)
      BY DEF TypeOK, DiskType
    <3>2. pending'[e] = pending[e] \/ pending'[e] = Append(pending[e], new)
      BY <2>a
    <3>3. QED
      BY <2>a, <3>1, <3>2
  <2>5. JobIsNewest'
    <3>1. \A e \in Days : today < e => pending'[e] = <<>>
      BY <2>a, <2>d DEF Days
    <3>2. \A d \in Days : d = today => new \in StoredOn(d)'
      BY <2>a
    <3>3. JobLine(i)' \in StoredOn(job[i].day)'
      BY <2>a, <2>f, <3>2
    <3>4. job'[i].seq = nextSeq' - 1
      BY <2>1 DEF Numbered, JobIsNewest
    <3>5. QED
      BY <2>1, <2>f, <3>1, <3>3, <3>4, <1>s DEF JobIsNewest
  <2>6. NothingBeyondToday'
    <3> SUFFICES ASSUME NEW e \in Days, day < e PROVE pending'[e] = <<>>
      BY <2>1 DEF NothingBeyondToday
    <3>1. e # today
      BY <2>a, <2>f, <1>t DEF Days
    <3>2. QED
      BY <2>a, <3>1 DEF Numbered, NothingBeyondToday
  <2>7. Indexed'
    <3>1. ~ Unsaved(i) /\ Unsaved(i)'
      BY <2>1, <2>f DEF Unsaved
    <3>2. IndexCovers'
      <4> SUFFICES ASSUME NEW d \in Days, NEW l \in StoredOn(d)'
                   PROVE  l.seq <= files[d] \/ (d = today /\ l = new)
        BY <2>1, <2>f DEF IndexCovers
      <4>1. \A m \in StoredOn(d) : m.seq <= files[d]
        BY <2>1, <1>s DEF Indexed, IndexCovers
      <4>2. (d = today /\ StoredOn(d)' = StoredOn(d) \cup {new}) \/ StoredOn(d)' = StoredOn(d)
        BY <2>a
      <4>3. QED
        BY <4>1, <4>2
    <3>3. SavedInOrder'
      <4> SUFFICES ASSUME NEW d \in Days, NEW e \in Days, d < e, savedFiles[e] > 0, NEW l \in StoredOn(d)'
                   PROVE  l.seq <= savedFiles[d]
        BY <2>1 DEF SavedInOrder
      <4>1. pending[e] # <<>>
        BY DEF Indexed, IndexBacked, Backed
      <4>2. l \in StoredOn(d)
        BY <4>1, <2>a, <2>d
      <4>3. QED
        BY <4>2 DEF Indexed, SavedInOrder
    <3>4. IndexBacked'
      BY <2>1, <2>g DEF Indexed, IndexBacked, Backed
    <3>5. QED
      BY <3>2, <3>3, <3>4 DEF Indexed
  <2>8. Committed'
    <3>1. UNCHANGED <<commit, delivered, skipped>> /\ commit \in Int
      BY <1>3 DEF AppendLine, senderVars, historyVars, TypeOK, SenderType
    <3>2. CommitIsBehind'
      BY <3>1, <2>b DEF Committed, CommitIsBehind
    <3>3. CommitIsSettled'
      BY <3>1, <2>a, <2>b DEF Committed, CommitIsBehind, CommitIsSettled, Settled
    <3>4. QED
      BY <3>2, <3>3 DEF Committed
  <2>9. Reading'
    <3>1. UNCHANGED <<spc, snap, rday, ridx, batch, commit>>
      BY <1>3 DEF AppendLine, senderVars, readVars
    <3>2. \A e \in Days : today < e => snap[e] <= 0
      BY <2>d DEF Reading, SnapshotBacked, Backed, TypeOK, SenderType
    <3>3. SnapshotBacked'
      BY <3>1, <2>a DEF Reading, SnapshotBacked, Backed
    <3>4. SnapshotCovers'
      BY <3>1, <3>2, <2>a DEF Reading, SnapshotCovers, TypeOK, SenderType
    <3>5. ReaderPassedFiles'
      <4> SUFFICES ASSUME spc = "read", NEW d \in Days, d < rday, NEW l \in StoredOn(d)', l.seq > commit
                   PROVE  InBatch(l) \/ \A e \in Days : d < e => snap[e] <= commit
        BY <3>1 DEF ReaderPassedFiles, InBatch
      <4>1. CASE l \in StoredOn(d)
        BY <4>1 DEF Reading, ReaderPassedFiles
      <4>2. CASE l \notin StoredOn(d)
        <5>1. \A e \in Days : d < e => snap[e] <= 0
          BY <4>2, <2>a, <3>2
        <5>2. 0 <= commit /\ commit \in Int /\ snap \in [Days -> Int]
          BY DEF TraceInv, SavedCommitIsBehind, TypeOK, SenderType, DiskType
        <5>3. QED
          BY <5>1, <5>2
      <4>3. QED
        BY <4>1, <4>2
    <3>6. ReaderPassedLines'
      <4> SUFFICES ASSUME spc = "read", rday \in Days
                   PROVE  /\ ridx <= Len(pending'[rday]) + 1
                          /\ \A k \in DOMAIN pending'[rday] :
                               k < ridx /\ pending'[rday][k].seq > commit => InBatch(pending'[rday][k])
        BY <3>1 DEF ReaderPassedLines, InBatch
      <4>1. pending[rday] \in Seq(Line) /\ ridx \in Nat
        BY DEF TypeOK, DiskType, SenderType
      <4>2. pending'[rday] = pending[rday] \/ pending'[rday] = Append(pending[rday], new)
        BY <2>a
      <4>3. /\ Len(pending[rday]) <= Len(pending'[rday])
            /\ \A k \in DOMAIN pending'[rday] : k <= Len(pending[rday]) =>
                 k \in DOMAIN pending[rday] /\ pending'[rday][k] = pending[rday][k]
        BY <4>1, <4>2, <2>a
      <4>4. ridx <= Len(pending[rday]) + 1
        BY DEF Reading, ReaderPassedLines
      <4>5. \A k \in DOMAIN pending'[rday] : k \in Nat
        BY <4>1, <4>2, <2>a
      <4>6. QED
        BY <4>1, <4>3, <4>4, <4>5 DEF Reading, ReaderPassedLines
    <3>7. QED
      BY <3>3, <3>4, <3>5, <3>6 DEF Reading
  <2>10. Batching'
    <3>1. UNCHANGED <<spc, batch, commit, lastOk, pos, delivered, skipped>>
      BY <1>3 DEF AppendLine, senderVars, readVars, historyVars
    <3>3. BatchHasNoGap'
      BY <3>1, <2>a, <2>b, <2>c DEF Batching, BatchHasNoGap, TraceInv, BatchIsPending
    <3>4. PostedIsSettled'
      BY <3>1, <2>a, <2>b, <2>c DEF Batching, PostedIsSettled, Settled, TypeOK, SenderType
    <3>5. QED
      BY <3>3, <3>4 DEF Batching
  <2>11. AcceptedIsIndexed'
    BY <1>3, <2>1, <2>a DEF AppendLine, AcceptedIsIndexed, historyVars
  <2>12. QED
    BY <1>s, <2>2, <2>3, <2>4, <2>5, <2>6, <2>7, <2>8, <2>9, <2>10, <2>11 DEF Numbered
<1>7. QED
  BY <1>1, <1>2, <1>3, <1>4, <1>5, <1>6 DEF Ingest

\* The order of the lines makes their numbers unique.
LEMMA OrderMakesUnique == TypeOK /\ Numbered => \A l, m \in Stored : l.seq = m.seq => l = m
<1> SUFFICES ASSUME TypeOK, Numbered, NEW l \in Stored, NEW m \in Stored, l.seq = m.seq
             PROVE  l = m
  OBVIOUS
<1>1. PICK d \in Days, e \in Days : l \in StoredOn(d) /\ m \in StoredOn(e)
  BY DEF Stored
<1>2. l.seq \in Int /\ m.seq \in Int
  BY <1>1, LineTypes
<1>3. d = e
  <2>1. ~ (d < e) /\ ~ (e < d)
    BY <1>1, <1>2 DEF Numbered, OrderedByDay
  <2>2. QED
    BY <2>1 DEF Days
<1>4. PICK j \in DOMAIN pending[d], k \in DOMAIN pending[d] : l = pending[d][j] /\ m = pending[d][k]
  BY <1>1, <1>3 DEF StoredOn
<1>5. ~ (j < k) /\ ~ (k < j)
  BY <1>2, <1>4 DEF Numbered, OrderedInFile
<1>6. j \in Int /\ k \in Int
  BY DEF TypeOK, DiskType
<1>7. QED
  BY <1>4, <1>5, <1>6

\* The sender leaves the ingesters and their files alone.
LEMMA SendKeepsIngest ==
    ASSUME Send, QueueInv
    PROVE  /\ Frontier' = Frontier
           /\ OneIngester' /\ Numbered' /\ Indexed' /\ AcceptedIsIndexed'
<1>1. UNCHANGED <<nextSeq, files, ipc, job, img, day, pending, savedNext, savedFiles, accepted>>
  BY DEF Send, LoadIngestState, ReadLine, NextFile, ReadFails, EndRead, PostOk, PostBadRequest,
         Answered, PostHttpError, PostNetworkError, EndBatch, SaveSenderState, SenderSaveFails,
         ingestVars, diskVars, historyVars, worldVars
<1>2. QED
  BY <1>1, PartsKept DEF QueueInv, Frontier, Reserved, OneIngester

LEMMA LoadKeeps ==
    ASSUME TypeOK, TraceInv, QueueInv, LoadIngestState
    PROVE  Committed' /\ Reading' /\ Batching'
<1> USE SenderTypes, FrontierType DEF QueueInv
<1>1. /\ spc' = "read" /\ snap' = savedFiles /\ rday' = 1 /\ ridx' = 1 /\ batch' = <<>>
      /\ UNCHANGED <<pending, commit, savedCommit, ipc, nextSeq, delivered, skipped, job>>
  BY DEF LoadIngestState, ingestVars, diskVars, historyVars
<1>2. Committed'
  BY <1>1, PartsKept
<1>3. SnapshotBacked'
  BY <1>1 DEF Indexed, IndexBacked, SnapshotBacked, Backed
<1>4. SnapshotCovers'
  <2> SUFFICES ASSUME NEW d \in Days, NEW e \in Days, d < e, savedFiles[e] > 0, NEW l \in StoredOn(d)
               PROVE  l.seq <= savedFiles[d]
    BY <1>1, StoreKept DEF SnapshotCovers
  <2>1. QED
    BY DEF Indexed, SavedInOrder
<1>5. ReaderPassedFiles'
  BY <1>1 DEF ReaderPassedFiles, Days
<1>6. ReaderPassedLines'
  BY <1>1 DEF ReaderPassedLines
<1>7. Batching'
  BY <1>1 DEF Batching, BatchHasNoGap, PostedIsSettled
<1>8. QED
  BY <1>2, <1>3, <1>4, <1>5, <1>6, <1>7 DEF Reading

LEMMA ReadLineKeeps ==
    ASSUME TypeOK, TraceInv, QueueInv, ReadLine
    PROVE  Committed' /\ Reading' /\ Batching'
<1> USE SenderTypes, FrontierType DEF QueueInv
<1> DEFINE new == pending[rday][ridx]
<1>1. /\ spc = "read" /\ rday \in Days /\ snap[rday] > commit /\ ridx \in DOMAIN pending[rday]
      /\ batch' = Batched(new) /\ ridx' = ridx + 1
      /\ UNCHANGED <<pending, spc, commit, savedCommit, ipc, nextSeq, delivered, skipped, snap, rday>>
  BY DEF ReadLine, ingestVars, diskVars, historyVars
<1>2. new \in StoredOn(rday) /\ new \in Stored /\ new \in Line
  BY ReadLineExtends
<1>3. /\ DOMAIN batch \subseteq DOMAIN batch'
      /\ \A k \in DOMAIN batch : batch'[k] = batch[k]
      /\ \A k \in DOMAIN batch' : k \in DOMAIN batch
                                  \/ (batch'[k] = new /\ new.seq > commit /\ \A n \in DOMAIN batch : n < k)
      /\ new.seq > commit => \E k \in DOMAIN batch' : batch'[k] = new
  BY ReadLineExtends
<1> HIDE DEF new
<1>4. \A l : InBatch(l) => InBatch(l)'
  BY <1>3 DEF InBatch
<1>5. Committed'
  BY <1>1, PartsKept
<1>6. SnapshotBacked' /\ SnapshotCovers'
  BY <1>1, StoreKept DEF Reading, SnapshotBacked, SnapshotCovers, Backed
<1>7. ReaderPassedFiles'
  BY <1>1, <1>4, StoreKept DEF Reading, ReaderPassedFiles
<1>8. ReaderPassedLines'
  <2> SUFFICES ASSUME NEW k \in DOMAIN pending[rday], k < ridx + 1, pending[rday][k].seq > commit
               PROVE  InBatch(pending[rday][k])'
    BY <1>1 DEF ReaderPassedLines, InBatch
  <2>1. CASE k < ridx
    BY <1>1, <1>4, <2>1 DEF Reading, ReaderPassedLines
  <2>2. CASE ~ (k < ridx)
    <3>1. pending[rday][k] = new
      BY <1>1, <2>2 DEF new
    <3>2. QED
      BY <1>1, <1>3, <3>1 DEF InBatch
  <2>3. QED
    BY <2>1, <2>2
<1>10. \A l \in Stored : commit < l.seq /\ l.seq < new.seq => InBatch(l)
  <2> SUFFICES ASSUME NEW d \in Days, NEW l \in StoredOn(d), commit < l.seq, l.seq < new.seq
               PROVE  InBatch(l)
    BY DEF Stored
  <2>1. l.seq \in Int /\ new.seq \in Int
    BY <1>1, <1>2, LineTypes
  <2>2. CASE d < rday
    <3>1. ~ (snap[rday] <= commit)
      BY <1>1
    <3>2. QED
      BY <1>1, <2>2, <3>1 DEF Reading, ReaderPassedFiles
  <2>3. CASE d = rday
    <3>1. PICK k \in DOMAIN pending[rday] : l = pending[rday][k]
      BY <2>3 DEF StoredOn
    <3>2. k < ridx
      <4>1. ~ (ridx < k) /\ k # ridx
        BY SMTT(30), <1>1, <2>1, <3>1 DEF Numbered, OrderedInFile, new
      <4>2. QED
        BY <1>1, <4>1
    <3>3. QED
      BY <1>1, <3>1, <3>2 DEF Reading, ReaderPassedLines
  <2>4. CASE rday < d
    BY <1>1, <1>2, <2>1, <2>4 DEF Numbered, OrderedByDay
  <2>5. QED
    BY <1>1, <2>2, <2>3, <2>4 DEF Days
<1>11. BatchHasNoGap'
  <2> SUFFICES ASSUME NEW j \in DOMAIN batch', NEW l \in Stored, commit < l.seq, l.seq < batch'[j].seq
               PROVE  \E k \in DOMAIN batch' : k < j /\ batch'[k] = l
    BY <1>1, StoreKept DEF BatchHasNoGap
  <2>1. CASE j \in DOMAIN batch
    BY <1>1, <1>3, <2>1 DEF Batching, BatchHasNoGap
  <2>2. CASE j \notin DOMAIN batch
    BY <1>3, <1>10, <2>2 DEF InBatch
  <2>3. QED
    BY <2>1, <2>2
<1>12. PostedIsSettled'
  BY <1>1 DEF PostedIsSettled
<1>13. QED
  BY <1>5, <1>6, <1>7, <1>8, <1>11, <1>12 DEF Reading, Batching

LEMMA NextFileKeeps ==
    ASSUME TypeOK, TraceInv, QueueInv, NextFile
    PROVE  Committed' /\ Reading' /\ Batching'
<1> USE SenderTypes, FrontierType DEF QueueInv
<1>1. /\ spc = "read" /\ rday \in Days /\ rday' = rday + 1 /\ ridx' = 1
      /\ snap[rday] <= commit \/ ridx > Len(pending[rday])
      /\ UNCHANGED <<pending, spc, commit, savedCommit, ipc, nextSeq, delivered, skipped, snap,
                     batch, pos, lastOk>>
  BY DEF NextFile, ingestVars, diskVars, historyVars
<1>2. Committed' /\ Batching'
  BY <1>1, PartsKept
<1>3. SnapshotBacked' /\ SnapshotCovers'
  BY <1>1, StoreKept DEF Reading, SnapshotBacked, SnapshotCovers, Backed
<1>4. ReaderPassedFiles'
  <2> SUFFICES ASSUME NEW d \in Days, d < rday + 1, NEW l \in StoredOn(d), l.seq > commit
               PROVE  InBatch(l) \/ \A e \in Days : d < e => snap[e] <= commit
    BY <1>1, StoreKept DEF ReaderPassedFiles, InBatch
  <2>1. CASE d < rday
    BY <1>1, <2>1 DEF Reading, ReaderPassedFiles
  <2>2. CASE d = rday /\ snap[rday] <= commit
    <3>1. 0 <= commit /\ l.seq \in Int
      BY LineTypes DEF TraceInv, SavedCommitIsBehind
    <3>2. ASSUME NEW e \in Days, d < e PROVE snap[e] <= commit
      <4>1. snap[e] > 0 => l.seq <= snap[d]
        BY <1>1, <3>2 DEF Reading, SnapshotCovers
      <4>2. QED
        BY <2>2, <3>1, <4>1
    <3>3. QED
      BY <3>2
  <2>3. CASE d = rday /\ ridx > Len(pending[rday])
    <3>1. PICK k \in DOMAIN pending[rday] : l = pending[rday][k]
      BY <2>3 DEF StoredOn
    <3>2. k < ridx
      BY <1>1, <2>3
    <3>3. QED
      BY <1>1, <3>1, <3>2 DEF Reading, ReaderPassedLines
  <2>4. QED
    BY <1>1, <2>1, <2>2, <2>3 DEF Days
<1>5. ReaderPassedLines'
  BY <1>1 DEF ReaderPassedLines
<1>6. QED
  BY <1>2, <1>3, <1>4, <1>5 DEF Reading

LEMMA EndReadKeeps ==
    ASSUME TypeOK, TraceInv, QueueInv, EndRead
    PROVE  Committed' /\ Reading' /\ Batching'
<1> USE SenderTypes, FrontierType DEF QueueInv
<1>1. /\ spc = "read" /\ spc' \in {"idle", "post"} /\ (spc' = "post" => lastOk' = commit)
      /\ snap' = Empty
      /\ UNCHANGED <<pending, commit, ipc, nextSeq, delivered, skipped, batch>>
  BY DEF EndRead, ingestVars, diskVars, historyVars
<1>2. Committed'
  BY <1>1, PartsKept
<1>3. Reading'
  BY <1>1 DEF Reading, SnapshotBacked, SnapshotCovers, ReaderPassedFiles, ReaderPassedLines, Backed, Empty
<1>4. BatchHasNoGap'
  BY <1>1, StoreKept DEF Batching, BatchHasNoGap
<1>5. PostedIsSettled'
  <2> SUFFICES ASSUME spc' = "post" PROVE PostedIsSettled'
    BY DEF PostedIsSettled
  <2>1. commit <= lastOk' /\ lastOk' < Frontier' /\ Frontier' = Frontier
    BY <1>1 DEF Committed, CommitIsBehind, Frontier, Reserved
  <2>2. \A l \in Stored' : l.seq <= lastOk' => l.trace \in Settled'
    BY <1>1, StoreKept DEF Committed, CommitIsSettled, Settled
  <2>3. QED
    BY <1>1, <2>1, <2>2 DEF PostedIsSettled
<1>6. QED
  BY <1>2, <1>3, <1>4, <1>5 DEF Batching

LEMMA AnswerKeeps ==
    ASSUME TypeOK, TraceInv, QueueInv, PostOk \/ PostBadRequest
    PROVE  Committed' /\ Reading' /\ Batching'
<1> USE SenderTypes, FrontierType DEF QueueInv
<1> DEFINE sent == batch[pos]
<1>1. /\ spc = "post" /\ spc' = "post" /\ pos \in DOMAIN batch /\ pos' = pos + 1 /\ lastOk' = sent.seq
      /\ Settled' = Settled \cup {sent.trace}
      /\ UNCHANGED <<pending, commit, savedCommit, ipc, nextSeq, snap, batch>>
  BY DEF PostOk, PostBadRequest, Answered, Posting, Settled, ingestVars, diskVars, readVars
<1>2. sent \in Stored /\ sent.seq > commit
  BY <1>1 DEF TraceInv, BatchIsPending
<1> HIDE DEF sent
<1>3. \A l \in Stored : l.seq \in Int
  BY LineTypes DEF Stored
<1>4. Frontier' = Frontier
  BY <1>1 DEF Frontier, Reserved
<1>5. Committed'
  BY <1>1, <1>4, StoreKept DEF Committed, CommitIsBehind, CommitIsSettled
<1>6. Reading'
  BY <1>1 DEF Reading, SnapshotBacked, SnapshotCovers, ReaderPassedFiles, ReaderPassedLines, Backed
<1>7. BatchHasNoGap'
  BY <1>1, StoreKept DEF Batching, BatchHasNoGap
<1>8. PostedIsSettled'
  <2>1. commit <= lastOk' /\ lastOk' < Frontier'
    BY <1>1, <1>2, <1>3, <1>4 DEF Numbered, BelowFrontier
  <2>2. ASSUME NEW l \in Stored, l.seq <= sent.seq PROVE l.trace \in Settled'
    <3>1. CASE l.seq = sent.seq
      BY <1>1, <1>2, <3>1, OrderMakesUnique
    <3>2. CASE l.seq <= commit
      BY <1>1, <3>2 DEF Committed, CommitIsSettled
    <3>3. CASE commit < l.seq /\ l.seq < sent.seq
      <4>1. PICK k \in DOMAIN batch : k < pos /\ batch[k] = l
        BY <1>1, <3>3 DEF Batching, BatchHasNoGap, sent
      <4>2. QED
        BY <1>1, <4>1 DEF TraceInv, LastOkIsPosted
    <3>4. QED
      BY <2>2, <1>2, <1>3, <3>1, <3>2, <3>3
  <2>3. QED
    BY <1>1, <2>1, <2>2, StoreKept DEF PostedIsSettled
<1>9. QED
  BY <1>5, <1>6, <1>7, <1>8 DEF Batching

\* A step that ends the batch or its round, with the commit id moved to CommitReached or not.
LEMMA EndKeeps ==
    ASSUME TypeOK, TraceInv, QueueInv,
           PostHttpError \/ PostNetworkError \/ EndBatch \/ SaveSenderState \/ SenderSaveFails
    PROVE  Committed' /\ Reading' /\ Batching'
<1> USE SenderTypes, FrontierType DEF QueueInv
<1>1. /\ spc' \in {"idle", "save"}
      /\ commit' = commit \/ (spc = "post" /\ commit' = CommitReached)
      /\ Settled \subseteq Settled' /\ UNCHANGED <<pending, ipc, nextSeq, snap>>
  BY DEF PostHttpError, PostNetworkError, EndBatch, SaveSenderState, SenderSaveFails, Posting, Settled,
         ingestVars, diskVars, historyVars, readVars
<1>2. Frontier' = Frontier
  BY <1>1 DEF Frontier, Reserved
<1>3. commit' < Frontier
  BY <1>1 DEF CommitReached, Committed, CommitIsBehind, Batching, PostedIsSettled
<1>4. \A l \in Stored : l.seq <= commit' => l.trace \in Settled
  BY <1>1 DEF CommitReached, Committed, CommitIsSettled, Batching, PostedIsSettled
<1>5. Committed'
  BY <1>1, <1>2, <1>3, <1>4, StoreKept DEF Committed, CommitIsBehind, CommitIsSettled
<1>6. SnapshotBacked'
  BY <1>1 DEF Reading, SnapshotBacked, Backed
<1>7. SnapshotCovers' /\ ReaderPassedFiles' /\ ReaderPassedLines' /\ BatchHasNoGap' /\ PostedIsSettled'
  BY <1>1 DEF SnapshotCovers, ReaderPassedFiles, ReaderPassedLines, BatchHasNoGap, PostedIsSettled
<1>8. QED
  BY <1>5, <1>6, <1>7 DEF Reading, Batching

LEMMA SendKeeps ==
    ASSUME TypeOK, TraceInv, QueueInv, Send, ~ disturbed'
    PROVE  QueueInv'
<1>1. ~ ReadFails
  BY DEF ReadFails, disturbed
<1>2. Committed' /\ Reading' /\ Batching'
  BY <1>1, LoadKeeps, ReadLineKeeps, NextFileKeeps, EndReadKeeps, AnswerKeeps, EndKeeps DEF Send
<1>3. Undamaged'
  BY StaysUndamaged DEF QueueInv, Next
<1>4. QED
  BY <1>2, <1>3, SendKeepsIngest DEF QueueInv

LEMMA RestartKeeps ==
    ASSUME TypeOK, TraceInv, QueueInv, Restart, ~ disturbed'
    PROVE  QueueInv'
<1> USE SenderTypes, FrontierType DEF QueueInv
<1>1. /\ nextSeq' = NextSeqAtStart /\ files' = savedFiles /\ commit' = savedCommit
      /\ spc' = "idle" /\ snap' = Empty /\ \A i \in Ingesters : ipc'[i] = "idle"
      /\ UNCHANGED <<pending, savedNext, savedFiles, savedCommit, accepted, delivered, skipped, day>>
      /\ OneIngester' /\ Undamaged'
  BY StaysUndamaged DEF Restart, OneIngester, Next
<1>2. IndexIsSaved
  BY DEF Restart, disturbed
<1>3. /\ savedNext \in Int /\ savedFiles \in [Days -> Int]
      /\ NextSeqAtStart \in Int /\ savedNext <= NextSeqAtStart /\ savedCommit < NextSeqAtStart
  BY DEF TypeOK, DiskType, NextSeqAtStart
<1>4. \A d \in Days : \A l \in StoredOn(d) : l.seq \in Int /\ l.seq <= savedFiles[d] /\ l.seq < NextSeqAtStart
  <2>1. \A d \in Days : \A l \in StoredOn(d) : l.seq <= savedFiles[d] /\ l.seq < savedNext
    BY <1>2 DEF IndexIsSaved
  <2>2. QED
    BY <1>3, <2>1, LineTypes
<1>5. Frontier' = NextSeqAtStart
  BY <1>1 DEF Frontier, Reserved
<1>6. Numbered'
  <2>1. OrderedInFile' /\ OrderedByDay' /\ NothingBeyondToday'
    BY <1>1, StoreKept DEF Numbered, OrderedInFile, OrderedByDay, NothingBeyondToday
  <2>2. BelowFrontier' /\ JobIsNewest'
    BY <1>1, <1>4, <1>5, StoreKept DEF BelowFrontier, JobIsNewest, Stored
  <2>3. QED
    BY <2>1, <2>2 DEF Numbered
<1>7. Indexed'
  <2>1. IndexCovers' /\ SavedInOrder'
    BY <1>1, <1>4, StoreKept DEF Indexed, IndexCovers, SavedInOrder
  <2>2. IndexBacked'
    BY <1>1, <1>3 DEF Indexed, IndexBacked, Backed
  <2>3. QED
    BY <2>1, <2>2 DEF Indexed
<1>8. Committed'
  <2>1. CommitIsBehind'
    BY <1>1, <1>3, <1>5 DEF CommitIsBehind
  <2>2. savedCommit <= commit /\ \A l \in Stored : l.seq \in Int
    BY <1>4 DEF TraceInv, SavedCommitIsBehind, Stored
  <2>3. CommitIsSettled'
    BY <1>1, <2>2, StoreKept DEF Committed, CommitIsSettled, Settled
  <2>4. QED
    BY <2>1, <2>3 DEF Committed
<1>9. Reading' /\ Batching'
  BY <1>1 DEF Reading, SnapshotBacked, SnapshotCovers, ReaderPassedFiles, ReaderPassedLines, Backed,
              Batching, BatchHasNoGap, PostedIsSettled, Empty
<1>10. AcceptedIsIndexed'
  BY <1>1, PartsKept
<1>11. QED
  BY <1>1, <1>6, <1>7, <1>8, <1>9, <1>10

LEMMA WorldKeeps ==
    ASSUME TypeOK, TraceInv, QueueInv, NewDay \/ LangfuseDown \/ LangfuseUp \/ UNCHANGED vars
    PROVE  QueueInv'
<1>1. /\ UNCHANGED <<ingestVars, senderVars, diskVars, historyVars>>
      /\ day' \in {day, day + 1}
  BY DEF NewDay, LangfuseDown, LangfuseUp, vars, worldVars
<1>d. OneIngester' /\ Undamaged'
  BY <1>1 DEF QueueInv, OneIngester, Undamaged, ingestVars, diskVars, historyVars, riskVars
<1>2. Indexed' /\ Committed' /\ Reading' /\ Batching' /\ AcceptedIsIndexed'
  BY <1>1, PartsKept DEF QueueInv, ingestVars, senderVars, readVars, diskVars, historyVars
<1>3. UNCHANGED <<pending, ipc, nextSeq, job, img, files>>
  BY <1>1 DEF ingestVars, diskVars
<1>4. \A e \in Days : day' < e => day < e
  BY <1>1 DEF TypeOK, WorldType, Days
<1>5. JobIsNewest'
  <2>1. \A i \in Ingesters : job[i].day \in Days
    BY DEF TypeOK, IngestType
  <2>2. \A i \in Ingesters : job[i].day <= day => job[i].day <= day'
    BY <1>1, <2>1 DEF TypeOK, WorldType, Days
  <2>3. \A i \in Ingesters : Unsaved(i)' = Unsaved(i) /\ JobLine(i)' = JobLine(i)
    BY <1>3 DEF Unsaved, JobLine
  <2>4. \A i \in Ingesters : StoredOn(job[i].day)' = StoredOn(job[i].day)
    BY <1>3 DEF StoredOn
  <2>5. JobIsNewest
    BY DEF QueueInv, Numbered
  <2>6. QED
    BY <1>3, <2>2, <2>3, <2>4, <2>5 DEF JobIsNewest
<1>6. Numbered'
  BY <1>3, <1>4, <1>5, StoreKept DEF QueueInv, Numbered, OrderedInFile, OrderedByDay, NothingBeyondToday,
     BelowFrontier, Frontier, Reserved
<1>7. QED
  BY <1>d, <1>2, <1>6 DEF QueueInv

LEMMA InitHolds == Init => QueueInv
<1> SUFFICES ASSUME Init PROVE QueueInv
  OBVIOUS
<1>1. /\ \A d \in Days : pending[d] = <<>> /\ StoredOn(d) = {}
      /\ Stored = {}
  BY DEF Init, StoredOn, Stored
<1>2. \A i \in Ingesters : ipc[i] = "idle"
  BY DEF Init
<1>3. Numbered
  BY <1>1, <1>2 DEF Numbered, OrderedInFile, OrderedByDay, BelowFrontier, JobIsNewest, NothingBeyondToday
<1>4. Indexed
  BY <1>1 DEF Init, Empty, Indexed, IndexCovers, SavedInOrder, IndexBacked, Backed
<1>5. Committed
  BY <1>1, <1>2 DEF Init, Committed, CommitIsBehind, CommitIsSettled, Frontier, Reserved
<1>6. Reading /\ Batching /\ AcceptedIsIndexed
  BY <1>1 DEF Init, Empty, Reading, SnapshotBacked, SnapshotCovers, ReaderPassedFiles, ReaderPassedLines,
              Backed, Batching, BatchHasNoGap, PostedIsSettled, AcceptedIsIndexed
<1>7. OneIngester /\ Undamaged
  BY DEF Init, OneIngester, Undamaged
<1>8. QED
  BY <1>3, <1>4, <1>5, <1>6, <1>7 DEF QueueInv

LEMMA QueueKept ==
    ASSUME TypeOK, TraceInv, QueueInv, [Next]_vars, ~ disturbed'
    PROVE  QueueInv'
  BY IngestKeeps, SendKeeps, RestartKeeps, WorldKeeps DEF Next

-----------------------------------------------------------------------------
(* DeliveryInv, as long as QueueInv.                                       *)

LEMMA DeliveryPartsKept ==
    /\ BatchInOrder /\ UNCHANGED <<spc, batch>> => BatchInOrder'
    /\ DeliveredBehind /\ UNCHANGED <<crashes, outages, resent, delivered, pending, commit, spc, lastOk>>
         => DeliveredBehind'
  BY StoreKept DEF BatchInOrder, DeliveredBehind

\* The delivery of the line an ingester appends is still to come.
LEMMA IngestKeepsDelivery ==
    ASSUME TypeOK, TraceInv, DeliveryInv, NEW i \in Ingesters, Ingest(i)
    PROVE  DeliveryInv'
<1> USE DEF DeliveryInv
<1>1. UNCHANGED <<spc, batch, lastOk, commit, crashes, outages, resent, delivered>>
  BY DEF Ingest, Allocate, GiveBack, AppendLine, AppendFails, UpdateEntry, TakeImage,
         ReplaceIngestJson, SaveFails, senderVars, readVars, historyVars, worldVars
<1>2. BatchInOrder'
  BY <1>1, DeliveryPartsKept
<1>3. CASE AppendLine(i)
  <2>1. Stored \subseteq Stored' /\ Stored' \subseteq Stored \cup {JobLine(i)}
    BY <1>3, AppendGrows
  <2>2. JobLine(i).trace = job[i].trace /\ \A l \in Stored : l.trace # job[i].trace
    BY <1>3 DEF AppendLine, JobLine, TraceInv, LineOfOneTrace
  <2>3. DeliveredBehind'
    <3> SUFFICES ASSUME crashes = 0, outages = 0
                 PROVE  /\ resent = {}
                        /\ \A t \in delivered : \E l \in Stored' : l.trace = t
                        /\ \A l \in Stored' : l.trace \in delivered =>
                             l.seq <= commit \/ (spc = "post" /\ l.seq <= lastOk)
      BY <1>1 DEF DeliveredBehind
    <3>1. resent = {} /\ \A t \in delivered : \E l \in Stored : l.trace = t
      BY DEF DeliveredBehind
    <3>2. job[i].trace \notin delivered
      BY <2>2, <3>1
    <3>3. QED
      BY <2>1, <2>2, <3>1, <3>2 DEF DeliveredBehind
  <2>4. QED BY <1>2, <2>3
<1>4. CASE ~ AppendLine(i)
  <2>1. UNCHANGED pending
    BY <1>4 DEF Ingest, Allocate, GiveBack, AppendFails, UpdateEntry, TakeImage, ReplaceIngestJson,
                SaveFails, diskVars
  <2>2. QED BY <1>1, <1>2, <2>1, DeliveryPartsKept
<1>5. QED BY <1>3, <1>4

\* Reading a line appends what is above all of the batch, because the reader is past it.
LEMMA ReadLineKeepsDelivery ==
    ASSUME TypeOK, TraceInv, QueueInv, DeliveryInv, ReadLine
    PROVE  DeliveryInv'
<1> USE SenderTypes DEF DeliveryInv
<1> DEFINE new == pending[rday][ridx]
<1>1. /\ spc = "read" /\ spc' = "read" /\ rday \in Days
      /\ UNCHANGED <<pending, commit, lastOk, crashes, outages, resent, delivered>>
  BY ReadLineExtends DEF ReadLine, diskVars, historyVars, worldVars
<1>2. /\ ridx \in DOMAIN pending[rday] /\ new \in StoredOn(rday)
      /\ \A k \in DOMAIN batch : k \in DOMAIN batch' /\ batch'[k] = batch[k]
      /\ \A k \in DOMAIN batch' :
           \/ k \in DOMAIN batch
           \/ batch'[k] = new /\ new.seq > commit /\ \A n \in DOMAIN batch : n < k
  BY ReadLineExtends
<1>3. \A j \in DOMAIN batch : batch[j].seq < new.seq
  <2> SUFFICES ASSUME NEW j \in DOMAIN batch PROVE batch[j].seq < new.seq
    OBVIOUS
  <2>1. CASE \E d \in Days : d < rday /\ batch[j] \in StoredOn(d)
    BY <1>1, <1>2, <2>1 DEF QueueInv, Numbered, OrderedByDay
  <2>2. CASE \E k \in DOMAIN pending[rday] : k < ridx /\ batch[j] = pending[rday][k]
    BY <1>1, <1>2, <2>2 DEF QueueInv, Numbered, OrderedInFile
  <2>3. QED BY <1>1, <2>1, <2>2 DEF TraceInv, BatchIsPassed
<1>4. DOMAIN batch' \subseteq DOMAIN batch \cup {Len(batch) + 1}
  <2>1. batch' = batch \/ batch' = Append(batch, new)
    BY DEF ReadLine, Batched
  <2>2. QED
    BY <2>1
<1>5. BatchInOrder'
  <2> SUFFICES ASSUME NEW j \in DOMAIN batch', NEW k \in DOMAIN batch', j < k
               PROVE  batch'[j].seq < batch'[k].seq
    BY DEF BatchInOrder
  <2>1. j \in DOMAIN batch
    BY <1>4
  <2>2. QED
    BY <1>1, <1>2, <1>3, <2>1 DEF BatchInOrder
<1>6. QED
  BY <1>1, <1>5, DeliveryPartsKept

\* The other steps of a round; a batch that ends takes the commit id to lastOk.
LEMMA RoundKeepsDelivery ==
    ASSUME TypeOK, TraceInv, DeliveryInv,
           \/ LoadIngestState \/ NextFile \/ EndRead \/ PostHttpError \/ PostNetworkError
           \/ EndBatch \/ SaveSenderState \/ SenderSaveFails
    PROVE  DeliveryInv'
<1> USE SenderTypes DEF DeliveryInv
<1>1. UNCHANGED <<pending, crashes, outages>>
  BY DEF LoadIngestState, NextFile, EndRead, PostHttpError, PostNetworkError, EndBatch,
         SaveSenderState, SenderSaveFails, diskVars, worldVars
<1>2. BatchInOrder'
  <2>1. \/ batch' = <<>> \/ spc' \notin {"read", "post"}
        \/ spc = "read" /\ spc' \in {"read", "post", "idle"} /\ batch' = batch
    BY DEF LoadIngestState, NextFile, EndRead, PostHttpError, PostNetworkError, EndBatch, EndRound,
           SaveSenderState, SenderSaveFails
  <2>2. QED BY <2>1 DEF BatchInOrder
<1>3. CASE PostNetworkError
  <2>1. outages # 0
    BY <1>3 DEF PostNetworkError, TraceInv, UpUntilOutage
  <2>2. QED BY <1>1, <1>2, <2>1 DEF DeliveredBehind
<1>4. CASE ~ PostNetworkError
  <2>1. UNCHANGED <<resent, delivered>>
    BY <1>4 DEF LoadIngestState, NextFile, EndRead, PostHttpError, EndBatch, SaveSenderState,
                SenderSaveFails, historyVars
  <2>2. /\ commit' \in Int /\ commit <= commit'
        /\ spc = "post" => lastOk <= commit'
    BY <1>4 DEF LoadIngestState, NextFile, EndRead, PostHttpError, EndBatch, Posting, CommitReached,
                SaveSenderState, SenderSaveFails
  <2>3. \A l \in Stored : l.seq \in Int
    BY LineTypes DEF Stored
  <2>4. DeliveredBehind'
    BY <1>1, <2>1, <2>2, <2>3, StoreKept DEF DeliveredBehind
  <2>5. QED BY <1>2, <2>4
<1>5. QED BY <1>3, <1>4

\* The trace an answer is about lies above everything settled before: its number is
\* above lastOk, which is the number of the trace before it, or the commit id.
LEMMA PostsAboveLastOk ==
    ASSUME TypeOK, TraceInv, Posting
    PROVE  /\ spc = "post" /\ pos \in DOMAIN batch
           /\ batch[pos] \in Stored /\ batch[pos].seq \in Int
           /\ commit < batch[pos].seq
           /\ BatchInOrder => lastOk < batch[pos].seq
<1> USE SenderTypes
<1>1. spc = "post" /\ pos \in DOMAIN batch
  BY DEF Posting
<1>2. batch[pos] \in Stored /\ commit < batch[pos].seq /\ batch[pos].seq \in Int
  BY <1>1, LineTypes DEF TraceInv, BatchIsPending, Stored
<1>3. ASSUME BatchInOrder PROVE lastOk < batch[pos].seq
  <2>1. CASE pos = 1
    BY <1>1, <1>2, <2>1 DEF TraceInv, LastOkIsPosted
  <2>2. CASE pos # 1
    <3>1. pos - 1 \in DOMAIN batch /\ pos - 1 < pos
      BY <1>1, <2>2
    <3>2. lastOk = batch[pos - 1].seq
      BY <1>1, <2>2 DEF TraceInv, LastOkIsPosted
    <3>3. QED
      BY <1>1, <1>3, <3>1, <3>2 DEF BatchInOrder
  <2>3. QED BY <2>1, <2>2
<1>4. QED BY <1>1, <1>2, <1>3

LEMMA AnswerKeepsDelivery ==
    ASSUME TypeOK, TraceInv, DeliveryInv, PostOk \/ PostBadRequest
    PROVE  DeliveryInv'
<1> USE SenderTypes DEF DeliveryInv
<1> DEFINE sent == batch[pos]
<1>1. /\ Posting /\ spc' = "post" /\ lastOk' = sent.seq
      /\ UNCHANGED <<pending, commit, batch, crashes, outages>>
  BY DEF PostOk, PostBadRequest, Answered, Posting, diskVars, readVars, worldVars
<1>2. \E stored \in SUBSET {sent.trace} :
        delivered' = delivered \cup stored /\ resent' = resent \cup (stored \cap delivered)
  BY DEF PostOk, PostBadRequest, Answered
<1>3. /\ spc = "post" /\ sent \in Stored /\ sent.seq \in Int
      /\ commit < sent.seq /\ lastOk < sent.seq
  BY <1>1, PostsAboveLastOk
<1>5. BatchInOrder'
  BY <1>1, <1>3 DEF BatchInOrder
<1> HIDE DEF sent
<1>7. DeliveredBehind'
  <2> SUFFICES ASSUME crashes = 0, outages = 0
               PROVE  /\ resent' = {}
                      /\ \A t \in delivered' : \E l \in Stored : l.trace = t
                      /\ \A l \in Stored : l.trace \in delivered' => l.seq <= sent.seq
    BY <1>1, StoreKept DEF DeliveredBehind
  <2>1. /\ resent = {}
        /\ \A t \in delivered : \E l \in Stored : l.trace = t
        /\ \A l \in Stored : l.trace \in delivered => l.seq <= commit \/ l.seq <= lastOk
    BY DEF DeliveredBehind
  <2>2. \A l \in Stored : l.seq \in Int
    BY LineTypes DEF Stored
  <2>3. \A l \in Stored : l.trace = sent.trace => l = sent
    BY <1>3 DEF TraceInv, LineOfOneTrace
  <2>4. sent.trace \notin delivered
    BY <1>3, <2>1
  <2>5. resent' = {}
    BY <1>2, <2>1, <2>4
  <2>6. \A t \in delivered' : \E l \in Stored : l.trace = t
    BY <1>2, <1>3, <2>1
  <2>7. \A l \in Stored : l.trace \in delivered' => l.seq <= sent.seq
    BY <1>2, <1>3, <2>1, <2>2, <2>3
  <2>8. QED BY <2>5, <2>6, <2>7
<1>8. QED
  BY <1>5, <1>7

LEMMA WorldKeepsDelivery ==
    ASSUME TypeOK, DeliveryInv, Restart \/ NewDay \/ LangfuseDown \/ LangfuseUp \/ UNCHANGED vars
    PROVE  DeliveryInv'
<1> USE DEF DeliveryInv
<1>1. CASE Restart
  <2>1. spc' = "idle" /\ crashes' # 0
    BY <1>1 DEF Restart, TypeOK, WorldType
  <2>2. QED
    BY <2>1 DEF BatchInOrder, DeliveredBehind
<1>2. CASE NewDay \/ LangfuseDown \/ LangfuseUp \/ UNCHANGED vars
  <2>1. UNCHANGED <<senderVars, diskVars, historyVars>> /\ crashes' = crashes
    BY <1>2 DEF NewDay, LangfuseDown, LangfuseUp, vars, worldVars
  <2>2. outages' = outages \/ outages' # 0
    BY <1>2 DEF NewDay, LangfuseDown, LangfuseUp, vars, worldVars, TypeOK, WorldType
  <2>3. UNCHANGED <<spc, commit, batch, lastOk, pending, delivered, resent>>
    BY <2>1 DEF senderVars, readVars, diskVars, historyVars
  <2>4. DeliveredBehind'
    BY <2>1, <2>2, <2>3, StoreKept DEF DeliveredBehind
  <2>5. QED
    BY <2>3, <2>4, DeliveryPartsKept
<1>3. QED BY <1>1, <1>2

LEMMA DeliveryKept ==
    ASSUME TypeOK, TraceInv, QueueInv, DeliveryInv, [Next]_vars, ~ disturbed'
    PROVE  DeliveryInv'
<1>1. ~ ReadFails
  BY DEF ReadFails, disturbed
<1>2. QED
  BY <1>1, IngestKeepsDelivery, ReadLineKeepsDelivery, RoundKeepsDelivery, AnswerKeepsDelivery,
     WorldKeepsDelivery DEF Next, Send

-----------------------------------------------------------------------------
(* KeptInv, from QueueInv and DeliveryInv while they hold.                 *)

\* The ingesters that will give their number back are few.
LEMMA ReturningType ==
    TypeOK => IsFiniteSet(Returning) /\ Cardinality(Returning) \in Nat
<1>1. Returning \subseteq Ingesters
  BY DEF Returning
<1>2. IsFiniteSet(Returning)
  BY <1>1, FS_Subset
<1>3. QED
  BY <1>2, FS_CardinalityType

LEMMA KeptFromQueue ==
    ASSUME TypeOK, TraceInv, QueueInv, DeliveryInv
    PROVE  KeptInv
<1> USE DEF QueueInv
<1> SUFFICES ASSUME NEW d \in Days, NEW l \in StoredOn(d), l.trace \in kept PROVE KeptLine(d, l)
  BY DEF KeptInv
<1>t. /\ nextSeq \in Int /\ files \in [Days -> Int] /\ ipc \in [Ingesters -> IngestPoints]
      /\ job \in [Ingesters -> [trace : Traces \cup {NoTrace}, seq : Int, day : Days]]
      /\ day \in Days /\ d \in Int /\ Frontier \in Int
  BY FrontierType DEF TypeOK, IngestType, WorldType, Days
<1>1. l \in Stored /\ l.seq \in Int /\ l.trace \in accepted /\ pending[d] # <<>>
  BY LineTypes DEF Stored, Undamaged, StoredOn
<1>2. l.seq < Frontier /\ Frontier <= nextSeq
  BY <1>1, <1>t DEF Numbered, BelowFrontier, Frontier
<1>3. ASSUME NEW i \in Ingesters, ipc[i] # "idle" PROVE JobLine(i) # l
  BY <1>1, <1>3 DEF TraceInv, WorksOnSubmitted, JobLine
<1>4. KeptIsIndexed(d, l)
  <2>1. l.seq < savedNext /\ l.seq <= savedFiles[d]
    <3>1. PICK e \in Days : \E m \in StoredOn(e) :
            m.trace = l.trace /\ m.seq < savedNext /\ m.seq <= savedFiles[e]
      BY <1>1 DEF AcceptedIsIndexed
    <3>2. l \in StoredOn(e) /\ l.seq < savedNext /\ l.seq <= savedFiles[e]
      BY <1>1, <3>1 DEF TraceInv, LineOfOneTrace, Stored
    <3>3. ~ (d < e) /\ ~ (e < d)
      BY <1>1, <3>2 DEF Numbered, OrderedByDay
    <3>4. e = d
      BY <3>3 DEF Days
    <3>5. QED BY <3>2, <3>4
  <2>2. l.seq + Cardinality(Returning) < nextSeq
    <3>1. CASE Returning = {}
      <4>1. Cardinality(Returning) = 0
        BY <3>1, FS_EmptySet
      <4>2. QED BY <1>1, <1>2, <1>t, <4>1
    <3>2. CASE Returning # {}
      <4>1. PICK i \in Ingesters : ipc[i] = "oversized"
        BY <3>2 DEF Returning
      <4>2. Returning = {i}
        BY <4>1 DEF Returning, OneIngester
      <4>3. Cardinality(Returning) = 1
        BY <4>2, FS_Singleton
      <4>4. Frontier = nextSeq - 1
        BY <4>1 DEF Frontier, Reserved
      <4>5. QED BY <1>1, <1>2, <1>t, <4>3, <4>4
    <3>3. QED BY <3>1, <3>2
  <2>3. l.seq <= files[d]
    BY <1>3 DEF Indexed, IndexCovers
  <2>4. d <= day
    BY <1>1, <1>t DEF Numbered, NothingBeyondToday, Days
  <2>5. QED BY <2>1, <2>2, <2>3, <2>4 DEF KeptIsIndexed
<1>5. IngestIsAhead(d, l)
  <2> SUFFICES ASSUME NEW i \in Ingesters, ipc[i] # "idle"
               PROVE  /\ l.seq < job[i].seq /\ d <= job[i].day
                      /\ ipc[i] = "replace" => l.seq < img[i].next /\ l.seq <= img[i].files[d]
    BY DEF IngestIsAhead
  <2>1. job[i].seq = nextSeq - 1 /\ job[i].day \in Days
    BY <1>t DEF Numbered, JobIsNewest
  <2>2. d <= job[i].day
    <3>1. ~ (job[i].day < d)
      BY <1>1 DEF Numbered, JobIsNewest
    <3>2. QED BY <2>1, <3>1, <1>t DEF Days
  <2>3. l.seq < job[i].seq
    <3>1. CASE ipc[i] \in {"oversized", "append"}
      BY <1>1, <1>2, <1>t, <2>1, <3>1 DEF Frontier, Reserved
    <3>2. CASE Unsaved(i)
      <4>1. JobLine(i) \in Stored /\ JobLine(i).seq = job[i].seq
        BY <2>1, <3>2 DEF Numbered, JobIsNewest, Stored, JobLine
      <4>2. l.seq # job[i].seq
        BY <1>1, <1>3, <4>1, OrderMakesUnique
      <4>3. QED BY <1>1, <1>2, <1>t, <2>1, <4>2
    <3>3. QED BY <1>t, <3>1, <3>2 DEF Unsaved, IngestPoints
  <2>4. ASSUME ipc[i] = "replace" PROVE l.seq < img[i].next /\ l.seq <= img[i].files[d]
    <3>1. img[i].next = nextSeq /\ img[i].files = files
      BY <2>4 DEF Numbered, JobIsNewest
    <3>2. l.seq <= files[d]
      BY <1>3 DEF Indexed, IndexCovers
    <3>3. QED BY <1>1, <1>2, <1>t, <3>1, <3>2
  <2>5. QED BY <2>2, <2>3, <2>4
<1>6. KeptInFile(d, l) /\ KeptByDay(d, l)
  BY DEF Numbered, OrderedInFile, OrderedByDay, KeptInFile, KeptByDay
<1>7. ASSUME spc = "read" PROVE KeptInSnapshot(d, l) /\ KeptIsRead(d, l)
  <2>1. KeptInSnapshot(d, l)
    BY <1>7 DEF Reading, SnapshotCovers, KeptInSnapshot
  <2>2. KeptIsRead(d, l)
    BY <1>7 DEF Reading, ReaderPassedFiles, ReaderPassedLines, KeptIsRead
  <2>3. QED BY <2>1, <2>2
<1>8. ASSUME spc \in {"read", "post"} PROVE KeptIsBatched(l)
  BY <1>1, <1>8 DEF Batching, BatchHasNoGap, DeliveryInv, BatchInOrder, KeptIsBatched
<1>9. KeptIsSettled(l)
  BY <1>1 DEF Committed, CommitIsSettled, Batching, PostedIsSettled, KeptIsSettled
<1>10. KeptIsDelivered(l)
  BY <1>1 DEF DeliveryInv, DeliveredBehind, KeptIsDelivered
<1>11. QED
  BY <1>4, <1>5, <1>6, <1>7, <1>8, <1>9, <1>10 DEF KeptLine

-----------------------------------------------------------------------------
(* KeptInv, whatever happens: one kept line, one lemma per group of steps. *)

\* A group of parts whose variables no step changes is kept.
LEMMA KeptPartsKept ==
    ASSUME NEW d \in Days, NEW l \in StoredOn(d), KeptLine(d, l)
    PROVE  /\ UNCHANGED <<savedNext, savedFiles, nextSeq, files, ipc, job, img, day>>
                => KeptIsIndexed(d, l)' /\ IngestIsAhead(d, l)'
           /\ UNCHANGED pending => KeptInFile(d, l)' /\ KeptByDay(d, l)'
           /\ UNCHANGED <<pending, spc, snap, rday, ridx, batch, commit>>
                => (spc' = "read" => KeptInSnapshot(d, l)' /\ KeptIsRead(d, l)')
           /\ UNCHANGED <<spc, batch, commit>> => (spc' \in {"read", "post"} => KeptIsBatched(l)')
           /\ UNCHANGED <<spc, commit, lastOk>> /\ Settled \subseteq Settled' => KeptIsSettled(l)'
           /\ UNCHANGED <<spc, commit, lastOk, crashes, outages, resent, delivered>>
                => KeptIsDelivered(l)'
<1> USE DEF KeptLine
<1>1. UNCHANGED <<savedNext, savedFiles, nextSeq, files, ipc, job, img, day>>
        => KeptIsIndexed(d, l)' /\ IngestIsAhead(d, l)'
  BY DEF KeptIsIndexed, Returning, IngestIsAhead
<1>2. UNCHANGED pending => KeptInFile(d, l)' /\ KeptByDay(d, l)'
  BY StoreKept DEF KeptInFile, KeptByDay
<1>3. UNCHANGED <<pending, spc, snap, rday, ridx, batch, commit>>
        => (spc' = "read" => KeptInSnapshot(d, l)' /\ KeptIsRead(d, l)')
  BY DEF KeptInSnapshot, KeptIsRead, InBatch
<1>4. UNCHANGED <<spc, batch, commit>> => (spc' \in {"read", "post"} => KeptIsBatched(l)')
  BY DEF KeptIsBatched
<1>5. UNCHANGED <<spc, commit, lastOk>> /\ Settled \subseteq Settled' => KeptIsSettled(l)'
  BY DEF KeptIsSettled
<1>6. UNCHANGED <<spc, commit, lastOk, crashes, outages, resent, delivered>> => KeptIsDelivered(l)'
  BY DEF KeptIsDelivered
<1>7. QED
  BY <1>1, <1>2, <1>3, <1>4, <1>5, <1>6

\* A kept line has its number for itself.
LEMMA KeptIsUnique ==
    ASSUME TypeOK, NEW d \in Days, NEW l \in StoredOn(d), KeptInFile(d, l), KeptByDay(d, l),
           NEW e \in Days, NEW m \in StoredOn(e)
    PROVE  /\ m.seq = l.seq => m = l
           /\ m = l => e = d
<1>1. l.seq \in Int /\ m.seq \in Int
  BY LineTypes
<1>2. m.seq = l.seq => e = d
  BY <1>1 DEF KeptByDay, Days
<1>3. ASSUME m.seq = l.seq PROVE m = l
  <2>1. PICK j \in DOMAIN pending[d], k \in DOMAIN pending[d] : l = pending[d][j] /\ m = pending[d][k]
    BY <1>2, <1>3 DEF StoredOn
  <2>2. ~ (j < k) /\ ~ (k < j)
    BY <1>1, <1>3, <2>1 DEF KeptInFile
  <2>3. j \in Int /\ k \in Int
    BY SenderTypes
  <2>4. QED BY <2>1, <2>2, <2>3
<1>4. QED BY <1>2, <1>3

\* The line an ingester appends comes behind every kept line, with a greater number.
LEMMA AppendKeepsKept ==
    ASSUME TypeOK, TraceInv, NEW d \in Days, NEW l \in StoredOn(d), l.trace \in kept, KeptLine(d, l),
           NEW i \in Ingesters, AppendLine(i)
    PROVE  KeptLine(d, l)'
<1> USE SenderTypes
<1>1. /\ ipc[i] = "append" /\ ipc' = [ipc EXCEPT ![i] = "entry"]
      /\ UNCHANGED <<savedNext, savedFiles, nextSeq, files, job, img, day, spc, snap, rday, ridx,
                     batch, commit, lastOk, crashes, outages, resent, delivered, skipped>>
  BY DEF AppendLine, senderVars, readVars, historyVars, worldVars
<1>2. KeptIsIndexed(d, l)'
  <2>1. Returning' = Returning
    BY <1>1 DEF Returning, TypeOK, IngestType
  <2>2. QED BY <1>1, <2>1 DEF KeptLine, KeptIsIndexed
<1>3. IngestIsAhead(d, l)'
  <2>1. ipc'[i] = "entry" /\ \A j \in Ingesters : j # i => ipc'[j] = ipc[j]
    BY <1>1 DEF TypeOK, IngestType
  <2>2. QED BY <1>1, <2>1 DEF KeptLine, IngestIsAhead
<1> DEFINE new == JobLine(i)
<1>4. new # l /\ l.seq < new.seq /\ d <= job[i].day /\ job[i].day \in Days
  <2>1. l.seq < job[i].seq /\ d <= job[i].day
    BY <1>1 DEF KeptLine, IngestIsAhead
  <2>2. l.seq \in Int /\ new.seq = job[i].seq /\ job[i].seq \in Int /\ job[i].day \in Days
    BY LineTypes DEF JobLine, TypeOK, IngestType
  <2>3. QED BY <2>1, <2>2
<1>5. /\ \A e \in Days : \A k \in DOMAIN pending[e] :
           k \in DOMAIN pending'[e] /\ pending'[e][k] = pending[e][k]
      /\ \A e \in Days : \A k \in DOMAIN pending'[e] :
           k \in DOMAIN pending[e] \/ (pending'[e][k] = new /\ \A j \in DOMAIN pending[e] : j < k)
      /\ \A e \in Days : \A m \in StoredOn(e)' :
           m \in StoredOn(e) \/ (e = job[i].day /\ m = new)
      /\ \A e \in Days : \A k \in DOMAIN pending[e] : k \in Int
  BY AppendGrows
<1> HIDE DEF new
<1>6. KeptInFile(d, l)'
  <2> SUFFICES ASSUME NEW j \in DOMAIN pending'[d], NEW k \in DOMAIN pending'[d], j < k
               PROVE  /\ pending'[d][k] = l => pending'[d][j].seq < l.seq
                      /\ pending'[d][j] = l => l.seq < pending'[d][k].seq
    BY DEF KeptInFile
  <2>1. CASE k \in DOMAIN pending[d]
    <3>1. j \in DOMAIN pending[d]
      <4>1. \A n \in DOMAIN pending'[d] : n \in Int
        BY DEF TypeOK, DiskType, AppendLine
      <4>2. ~ (k < j)
        BY <2>1, <1>5, <4>1
      <4>3. QED BY <2>1, <1>5, <4>2
    <3>2. QED BY <1>5, <2>1, <3>1 DEF KeptLine, KeptInFile
  <2>2. CASE k \notin DOMAIN pending[d]
    BY <1>4, <1>5, <2>2
  <2>3. QED BY <2>1, <2>2
<1>7. KeptByDay(d, l)'
  <2> SUFFICES ASSUME NEW e \in Days, NEW m \in StoredOn(e)'
               PROVE  /\ e < d => m.seq < l.seq
                      /\ d < e => l.seq < m.seq
    BY DEF KeptByDay
  <2>1. CASE m \in StoredOn(e)
    BY <2>1 DEF KeptLine, KeptByDay
  <2>2. CASE e = job[i].day /\ m = new
    BY <1>4, <2>2 DEF Days
  <2>3. QED BY <1>5, <2>1, <2>2
<1>8. ASSUME spc' = "read" PROVE KeptInSnapshot(d, l)' /\ KeptIsRead(d, l)'
  <2>1. KeptInSnapshot(d, l)'
    BY <1>1, <1>8 DEF KeptLine, KeptInSnapshot
  <2>2. KeptIsRead(d, l)'
    BY <1>1, <1>4, <1>5, <1>8 DEF KeptLine, KeptIsRead, InBatch
  <2>3. QED BY <2>1, <2>2
<1>9. /\ spc' \in {"read", "post"} => KeptIsBatched(l)'
      /\ KeptIsSettled(l)' /\ KeptIsDelivered(l)'
  BY <1>1, KeptPartsKept DEF Settled
<1>10. QED
  BY <1>2, <1>3, <1>6, <1>7, <1>8, <1>9 DEF KeptLine

\* How the numbers still to be given back change.
LEMMA ReturningSteps ==
    ASSUME TypeOK, NEW i \in Ingesters, NEW p \in IngestPoints, ipc' = [ipc EXCEPT ![i] = p]
    PROVE  /\ ipc[i] # "oversized" /\ p # "oversized" => Returning' = Returning
           /\ ipc[i] # "oversized" => Cardinality(Returning') <= Cardinality(Returning) + 1
           /\ ipc[i] = "oversized" /\ p # "oversized" => Cardinality(Returning') = Cardinality(Returning) - 1
<1>1. ipc'[i] = p /\ \A j \in Ingesters : j # i => ipc'[j] = ipc[j]
  BY DEF TypeOK, IngestType
<1>2. IsFiniteSet(Returning) /\ Cardinality(Returning) \in Nat
  BY ReturningType
<1>3. ipc[i] # "oversized" /\ p # "oversized" => Returning' = Returning
  BY <1>1 DEF Returning
<1>4. ASSUME ipc[i] # "oversized" PROVE Cardinality(Returning') <= Cardinality(Returning) + 1
  <2>1. CASE p = "oversized"
    <3>1. Returning' = Returning \cup {i} /\ i \notin Returning
      BY <1>1, <1>4, <2>1 DEF Returning
    <3>2. Cardinality(Returning') = Cardinality(Returning) + 1
      BY <1>2, <3>1, FS_AddElement
    <3>3. QED BY <1>2, <3>2
  <2>2. CASE p # "oversized"
    BY <1>2, <1>3, <1>4, <2>2
  <2>3. QED BY <2>1, <2>2
<1>5. ASSUME ipc[i] = "oversized", p # "oversized"
      PROVE  Cardinality(Returning') = Cardinality(Returning) - 1
  <2>1. Returning' = Returning \ {i} /\ i \in Returning
    BY <1>1, <1>5 DEF Returning
  <2>2. QED BY <1>2, <2>1, FS_RemoveElement
<1>6. QED BY <1>3, <1>4, <1>5

\* The other steps of ingest(): whoever takes a number takes a greater one, and whatever
\* is written to ingest.json was read after the line had got its entry.
LEMMA IngestKeepsKept ==
    ASSUME TypeOK, TraceInv, NEW d \in Days, NEW l \in StoredOn(d), l.trace \in kept, KeptLine(d, l),
           NEW i \in Ingesters, Ingest(i)
    PROVE  KeptLine(d, l)'
<1>t. /\ nextSeq \in Int /\ files \in [Days -> Int] /\ ipc \in [Ingesters -> IngestPoints]
      /\ job \in [Ingesters -> [trace : Traces \cup {NoTrace}, seq : Int, day : Days]]
      /\ img \in [Ingesters -> [next : Int, files : [Days -> Int]]]
      /\ day \in Days /\ l.seq \in Int
      /\ Cardinality(Returning) \in Nat /\ Cardinality(Returning') \in Nat
  <2>1. TypeOK'
    BY TypesHold DEF Next
  <2>2. Cardinality(Returning') \in Nat
    <3>1. Returning' \subseteq Ingesters
      BY DEF Returning
    <3>2. IsFiniteSet(Returning')
      BY <3>1, FS_Subset
    <3>3. QED BY <3>2, FS_CardinalityType
  <2>3. QED BY <2>2, ReturningType, LineTypes DEF TypeOK, IngestType, WorldType
<1>o. /\ l.seq < savedNext /\ l.seq + Cardinality(Returning) < nextSeq
      /\ l.seq <= savedFiles[d] /\ l.seq <= files[d] /\ d <= day
  BY DEF KeptLine, KeptIsIndexed
<1>a. \A j \in Ingesters : ipc[j] # "idle" =>
        /\ l.seq < job[j].seq /\ d <= job[j].day
        /\ ipc[j] = "replace" => l.seq < img[j].next /\ l.seq <= img[j].files[d]
  BY DEF KeptLine, IngestIsAhead
<1>1. CASE AppendLine(i)
  BY <1>1, AppendKeepsKept
<1>2. CASE ~ AppendLine(i)
  <2>1. UNCHANGED <<pending, spc, snap, rday, ridx, batch, commit, lastOk, crashes, outages, resent,
                    delivered, skipped, day>>
    BY <1>2 DEF Ingest, Allocate, GiveBack, AppendFails, UpdateEntry, TakeImage, ReplaceIngestJson,
                SaveFails, senderVars, readVars, diskVars, historyVars, worldVars
  <2>2. /\ KeptInFile(d, l)' /\ KeptByDay(d, l)'
        /\ spc' = "read" => KeptInSnapshot(d, l)' /\ KeptIsRead(d, l)'
        /\ spc' \in {"read", "post"} => KeptIsBatched(l)'
        /\ KeptIsSettled(l)' /\ KeptIsDelivered(l)'
    BY <2>1, KeptPartsKept DEF Settled
  <2>3. KeptIsIndexed(d, l)' /\ IngestIsAhead(d, l)'
    <3>1. CASE Allocate(i)
      <4>1. /\ ipc[i] = "idle" /\ nextSeq' = nextSeq + 1
            /\ job'[i].seq = nextSeq /\ job'[i].day = day
            /\ \A j \in Ingesters : j # i => job'[j] = job[j]
            /\ UNCHANGED <<savedNext, savedFiles, files, img>>
        BY <1>t, <3>1 DEF Allocate, diskVars
      <4>2. PICK p \in IngestPoints : ipc' = [ipc EXCEPT ![i] = p] /\ p # "replace"
        BY <3>1 DEF Allocate, IngestPoints
      <4>3. Cardinality(Returning') <= Cardinality(Returning) + 1
        BY <4>1, <4>2, ReturningSteps
      <4>4. l.seq + Cardinality(Returning') < nextSeq'
        BY <1>t, <1>o, <4>1, <4>3
      <4>5. KeptIsIndexed(d, l)'
        BY <1>o, <2>1, <4>1, <4>4 DEF KeptIsIndexed
      <4>6. l.seq < nextSeq
        BY <1>t, <1>o
      <4>7. ipc'[i] # "replace" /\ \A j \in Ingesters : j # i => ipc'[j] = ipc[j]
        BY <1>t, <4>2
      <4>8. IngestIsAhead(d, l)'
        BY <1>o, <1>a, <4>1, <4>6, <4>7 DEF IngestIsAhead
      <4>9. QED BY <4>5, <4>8
    <3>2. CASE GiveBack(i) \/ AppendFails(i) \/ SaveFails(i)
      <4>1. /\ ipc' = [ipc EXCEPT ![i] = "idle"]
            /\ \A j \in Ingesters : j # i => job'[j] = job[j] /\ img'[j] = img[j]
            /\ UNCHANGED <<savedNext, savedFiles, files>>
        BY <1>t, <3>2 DEF GiveBack, AppendFails, SaveFails, diskVars
      <4>2. ipc'[i] = "idle" /\ \A j \in Ingesters : j # i => ipc'[j] = ipc[j]
        BY <1>t, <4>1
      <4>3. IngestIsAhead(d, l)'
        BY <1>a, <4>1, <4>2 DEF IngestIsAhead
      <4>4. l.seq + Cardinality(Returning') < nextSeq'
        <5>1. CASE GiveBack(i)
          <6>1. ipc[i] = "oversized" /\ nextSeq' = nextSeq - 1
            BY <5>1 DEF GiveBack
          <6>2. Cardinality(Returning') = Cardinality(Returning) - 1
            BY <4>1, <6>1, ReturningSteps DEF IngestPoints
          <6>3. QED BY <1>t, <1>o, <6>1, <6>2
        <5>2. CASE AppendFails(i) \/ SaveFails(i)
          <6>1. ipc[i] # "oversized" /\ nextSeq' = nextSeq
            BY <5>2 DEF AppendFails, SaveFails
          <6>2. Returning' = Returning
            BY <4>1, <6>1, ReturningSteps DEF IngestPoints
          <6>3. QED BY <1>o, <6>1, <6>2
        <5>3. QED BY <3>2, <5>1, <5>2
      <4>5. QED BY <1>o, <2>1, <4>1, <4>3, <4>4 DEF KeptIsIndexed
    <3>3. CASE UpdateEntry(i) \/ TakeImage(i)
      <4>1. PICK p \in {"image", "replace"} : ipc' = [ipc EXCEPT ![i] = p] /\ ipc[i] \notin {"idle", "oversized"}
        BY <3>3 DEF UpdateEntry, TakeImage
      <4>2. Returning' = Returning
        BY <4>1, ReturningSteps DEF IngestPoints
      <4>3. UNCHANGED <<savedNext, savedFiles, nextSeq, job>>
        BY <3>3 DEF UpdateEntry, TakeImage, diskVars
      <4>4. l.seq <= files'[d]
        <5>1. CASE UpdateEntry(i)
          <6>1. files'[d] = files[d] \/ (files'[d] = job[i].seq /\ job[i].seq > files[d])
            BY <1>t, <5>1 DEF UpdateEntry, MaxSeqWith
          <6>2. files[d] \in Int /\ job[i].seq \in Int
            BY <1>t
          <6>3. QED BY <1>t, <1>o, <6>1, <6>2
        <5>2. CASE TakeImage(i)
          BY <1>o, <5>2 DEF TakeImage
        <5>3. QED BY <3>3, <5>1, <5>2
      <4>5. \A j \in Ingesters : j # i => ipc'[j] = ipc[j] /\ img'[j] = img[j]
        BY <1>t, <3>3, <4>1 DEF UpdateEntry, TakeImage
      <4>6. ipc'[i] = "replace" => l.seq < img'[i].next /\ l.seq <= img'[i].files[d]
        <5>1. CASE UpdateEntry(i)
          BY <1>t, <5>1 DEF UpdateEntry
        <5>2. CASE TakeImage(i)
          <6>1. img'[i] = [next |-> nextSeq, files |-> files]
            BY <1>t, <5>2 DEF TakeImage
          <6>2. l.seq < nextSeq
            BY <1>t, <1>o
          <6>3. QED BY <1>o, <6>1, <6>2
        <5>3. QED BY <3>3, <5>1, <5>2
      <4>7. KeptIsIndexed(d, l)'
        BY <1>o, <2>1, <4>2, <4>3, <4>4 DEF KeptIsIndexed
      <4>8. IngestIsAhead(d, l)'
        BY <1>a, <4>1, <4>3, <4>5, <4>6 DEF IngestIsAhead
      <4>9. QED BY <4>7, <4>8
    <3>4. CASE ReplaceIngestJson(i)
      <4>1. /\ ipc[i] = "replace" /\ ipc' = [ipc EXCEPT ![i] = "idle"]
            /\ savedNext' = img[i].next /\ savedFiles' = img[i].files
            /\ \A j \in Ingesters : j # i => job'[j] = job[j] /\ img'[j] = img[j]
            /\ UNCHANGED <<nextSeq, files>>
        BY <1>t, <3>4 DEF ReplaceIngestJson
      <4>2. ipc'[i] = "idle" /\ \A j \in Ingesters : j # i => ipc'[j] = ipc[j]
        BY <1>t, <4>1
      <4>3. Returning' = Returning
        BY <4>1, ReturningSteps DEF IngestPoints
      <4>4. KeptIsIndexed(d, l)'
        BY <1>o, <1>a, <2>1, <4>1, <4>3 DEF KeptIsIndexed
      <4>5. IngestIsAhead(d, l)'
        BY <1>a, <4>1, <4>2 DEF IngestIsAhead
      <4>6. QED BY <4>4, <4>5
    <3>5. QED BY <1>2, <3>1, <3>2, <3>3, <3>4 DEF Ingest
  <2>4. QED BY <2>2, <2>3 DEF KeptLine
<1>3. QED BY <1>1, <1>2

\* Reading a line takes a kept one along, and nothing greater before it.
LEMMA ReadLineKeepsKept ==
    ASSUME TypeOK, TraceInv, NEW d \in Days, NEW l \in StoredOn(d), l.trace \in kept, KeptLine(d, l),
           ReadLine, KeptIsIndexed(d, l)', IngestIsAhead(d, l)', KeptInFile(d, l)', KeptByDay(d, l)'
    PROVE  KeptLine(d, l)'
<1> USE SenderTypes
<1> DEFINE new == pending[rday][ridx]
<1>1. /\ spc = "read" /\ spc' = "read" /\ rday \in Days /\ snap[rday] > commit
      /\ ridx \in DOMAIN pending[rday] /\ ridx' = ridx + 1 /\ new \in StoredOn(rday)
      /\ UNCHANGED <<pending, commit, snap, rday, lastOk, crashes, outages, resent, delivered, skipped>>
  BY ReadLineExtends DEF ReadLine, diskVars, historyVars, worldVars
<1>2. /\ \A k \in DOMAIN batch : k \in DOMAIN batch' /\ batch'[k] = batch[k]
      /\ \A k \in DOMAIN batch' :
           \/ k \in DOMAIN batch
           \/ batch'[k] = new /\ new.seq > commit /\ \A n \in DOMAIN batch : n < k
      /\ new.seq > commit => \E k \in DOMAIN batch' : batch'[k] = new
  BY ReadLineExtends
<1>3. /\ l.seq \in Int /\ new.seq \in Int /\ d \in Int /\ rday \in Int
      /\ \A k \in DOMAIN pending[d] : k \in Int
      /\ \A k \in DOMAIN batch : k \in Int
      /\ \A k \in DOMAIN batch' : k \in Int
  <2>1. l.seq \in Int /\ new.seq \in Int
    BY <1>1, LineTypes
  <2>2. batch' \in Seq(Line)
    BY TypesHold DEF Next, Send, TypeOK, SenderType
  <2>3. QED BY <2>1, <2>2 DEF Days
<1>4. KeptInFile(d, l) /\ KeptByDay(d, l) /\ KeptInSnapshot(d, l) /\ KeptIsRead(d, l) /\ KeptIsBatched(l)
  BY <1>1 DEF KeptLine
<1>5. InBatch(l) => InBatch(l)'
  BY <1>2 DEF InBatch
<1>6. \A k \in DOMAIN pending[d] : pending[d][k] = l /\ d = rday =>
        /\ k < ridx => l.seq < new.seq
        /\ ridx < k => new.seq < l.seq
  BY <1>1, <1>4 DEF KeptInFile
<1> HIDE DEF new
<1>7. KeptInSnapshot(d, l)' /\ KeptIsRead(d, l)'
  <2>1. KeptInSnapshot(d, l)'
    BY <1>1, <1>4 DEF KeptInSnapshot
  <2>2. d < rday /\ l.seq > commit => InBatch(l)' \/ \A e \in Days : d < e => snap[e] <= commit
    BY <1>4, <1>5 DEF KeptIsRead
  <2>3. ASSUME d = rday, l.seq > commit, NEW k \in DOMAIN pending[d], k < ridx + 1, pending[d][k] = l
        PROVE  InBatch(l)'
    <3>1. CASE k < ridx
      BY <1>4, <1>5, <2>3, <3>1 DEF KeptIsRead
    <3>2. CASE k = ridx
      <4>1. l = new
        BY <2>3, <3>2 DEF new
      <4>2. QED BY <1>2, <2>3, <4>1 DEF InBatch
    <3>3. QED BY <1>3, <2>3, <3>1, <3>2
  <2>4. QED
    BY <1>1, <2>1, <2>2, <2>3 DEF KeptIsRead
<1>8. ASSUME commit < l.seq, l.seq < new.seq PROVE InBatch(l)
  <2>1. CASE d < rday
    BY <1>1, <1>4, <1>8, <2>1 DEF KeptIsRead
  <2>2. CASE d = rday
    <3>1. PICK k \in DOMAIN pending[d] : l = pending[d][k]
      BY DEF StoredOn
    <3>2. k # ridx /\ ~ (ridx < k)
      BY <1>3, <1>6, <1>8, <2>2, <3>1 DEF new
    <3>3. k < ridx
      BY <1>3, <3>2
    <3>4. QED BY <1>4, <1>8, <2>2, <3>1, <3>3 DEF KeptIsRead
  <2>3. CASE rday < d
    BY <1>1, <1>3, <1>4, <1>8, <2>3 DEF KeptByDay
  <2>4. QED BY <1>3, <2>1, <2>2, <2>3
<1>9. ASSUME NEW j \in DOMAIN batch, batch[j] = l PROVE l.seq < new.seq
  <2>1. CASE \E e \in Days : e < rday /\ batch[j] \in StoredOn(e)
    <3>1. PICK e \in Days : e < rday /\ l \in StoredOn(e)
      BY <1>9, <2>1
    <3>2. e = d
      BY <1>4, <3>1, KeptIsUnique
    <3>3. QED BY <1>1, <1>4, <3>1, <3>2 DEF KeptByDay
  <2>2. CASE \E k \in DOMAIN pending[rday] : k < ridx /\ batch[j] = pending[rday][k]
    <3>1. PICK k \in DOMAIN pending[rday] : k < ridx /\ l = pending[rday][k]
      BY <1>9, <2>2
    <3>2. l \in StoredOn(rday)
      BY <3>1 DEF StoredOn
    <3>3. rday = d
      BY <1>1, <1>4, <3>2, KeptIsUnique
    <3>4. QED BY <1>6, <3>1, <3>3
  <2>3. QED BY <1>1, <2>1, <2>2 DEF TraceInv, BatchIsPassed
<1>10. KeptIsBatched(l)'
  <2>1. ASSUME NEW j \in DOMAIN batch', commit < l.seq, l.seq < batch'[j].seq
        PROVE  \E k \in DOMAIN batch' : k < j /\ batch'[k] = l
    <3>1. CASE j \in DOMAIN batch
      BY <1>2, <1>4, <2>1, <3>1 DEF KeptIsBatched
    <3>2. CASE j \notin DOMAIN batch
      BY <1>2, <1>8, <2>1, <3>2 DEF InBatch
    <3>3. QED BY <3>1, <3>2
  <2>2. ASSUME NEW j \in DOMAIN batch', batch'[j] = l, NEW k \in DOMAIN batch', j < k
        PROVE  l.seq < batch'[k].seq
    <3>1. j \in DOMAIN batch
      <4>1. CASE k \in DOMAIN batch
        <5>1. ~ (k < j)
          BY <1>3, <2>2
        <5>2. QED BY <1>2, <4>1, <5>1
      <4>2. CASE k \notin DOMAIN batch
        <5>1. k \in DOMAIN batch' /\ j \in DOMAIN batch' /\ DOMAIN batch' \subseteq DOMAIN batch \cup {Len(batch) + 1}
          <6>1. batch' = batch \/ batch' = Append(batch, new)
            BY DEF ReadLine, Batched, new
          <6>2. QED BY <6>1, <2>2
        <5>2. QED BY <2>2, <4>2, <5>1, <1>3
      <4>3. QED BY <4>1, <4>2
    <3>2. CASE k \in DOMAIN batch
      BY <1>2, <1>4, <2>2, <3>1, <3>2 DEF KeptIsBatched
    <3>3. CASE k \notin DOMAIN batch
      BY <1>2, <1>9, <2>2, <3>1, <3>3
    <3>4. QED BY <3>2, <3>3
  <2>3. QED BY <1>1, <2>1, <2>2 DEF KeptIsBatched
<1>11. KeptIsSettled(l)' /\ KeptIsDelivered(l)'
  BY <1>1, KeptPartsKept DEF Settled
<1>12. QED
  BY <1>7, <1>10, <1>11 DEF KeptLine

\* The rest of the reading: the snapshot taken, a file left, the batch closed.  A file
\* that cannot be read takes its traces out of what is kept.
LEMMA ReadKeepsKept ==
    ASSUME TypeOK, TraceInv, NEW d \in Days, NEW l \in StoredOn(d), l.trace \in kept', KeptLine(d, l),
           LoadIngestState \/ NextFile \/ ReadFails \/ EndRead,
           KeptIsIndexed(d, l)', IngestIsAhead(d, l)', KeptInFile(d, l)', KeptByDay(d, l)'
    PROVE  KeptLine(d, l)'
<1> USE SenderTypes
<1>1. UNCHANGED <<pending, commit, crashes, outages, resent, delivered, skipped>>
  BY DEF LoadIngestState, NextFile, ReadFails, EndRead, diskVars, historyVars, worldVars
<1>2. l.seq \in Int /\ 0 <= commit
  BY LineTypes DEF TraceInv, SavedCommitIsBehind
<1>3. spc # "post" /\ (spc' = "post" => lastOk' = commit)
  BY DEF LoadIngestState, NextFile, ReadFails, EndRead
<1>4. KeptIsSettled(l)' /\ KeptIsDelivered(l)'
  <2>1. KeptIsSettled(l) /\ KeptIsDelivered(l)
    BY DEF KeptLine
  <2>2. KeptIsSettled(l)'
    BY <1>1, <1>3, <2>1 DEF KeptIsSettled, Settled
  <2>3. KeptIsDelivered(l)'
    BY <1>1, <1>3, <2>1 DEF KeptIsDelivered
  <2>4. QED BY <2>2, <2>3
<1>5. CASE LoadIngestState
  <2>1. spc' = "read" /\ snap' = savedFiles /\ rday' = 1 /\ ridx' = 1 /\ batch' = <<>>
    BY <1>5 DEF LoadIngestState
  <2>2. l.seq <= savedFiles[d]
    BY DEF KeptLine, KeptIsIndexed
  <2>3. KeptInSnapshot(d, l)' /\ KeptIsBatched(l)'
    BY <2>1, <2>2 DEF KeptInSnapshot, KeptIsBatched
  <2>4. KeptIsRead(d, l)'
    BY <1>1, <2>1 DEF KeptIsRead, Days
  <2>5. QED BY <1>4, <2>3, <2>4 DEF KeptLine
<1>6. CASE NextFile \/ ReadFails
  <2>1. /\ spc = "read" /\ spc' = "read" /\ rday \in Days /\ rday' = rday + 1 /\ ridx' = 1
        /\ UNCHANGED <<snap, batch>>
    BY <1>6 DEF NextFile, ReadFails
  <2>2. KeptInSnapshot(d, l) /\ KeptIsRead(d, l) /\ KeptIsBatched(l)
    BY <2>1 DEF KeptLine
  <2>3. KeptInSnapshot(d, l)' /\ KeptIsBatched(l)'
    BY <1>1, <2>1, <2>2 DEF KeptInSnapshot, KeptIsBatched
  <2>4. ASSUME d = rday, l.seq > commit
        PROVE  InBatch(l) \/ \A e \in Days : d < e => snap[e] <= commit
    <3>1. ~ ReadFails
      BY <2>4 DEF ReadFails
    <3>2. CASE snap[rday] <= commit
      <4>1. ASSUME NEW e \in Days, d < e PROVE snap[e] <= commit
        <5>1. snap[e] > 0 => l.seq <= snap[d]
          BY <2>2, <4>1 DEF KeptInSnapshot
        <5>2. QED BY <1>2, <2>4, <3>2, <5>1
      <4>2. QED BY <4>1
    <3>3. CASE ridx > Len(pending[rday])
      <4>1. PICK k \in DOMAIN pending[d] : l = pending[d][k]
        BY DEF StoredOn
      <4>2. k < ridx
        BY <2>1, <2>4, <3>3
      <4>3. QED BY <2>2, <2>4, <4>1, <4>2 DEF KeptIsRead
    <3>4. QED BY <1>6, <3>1, <3>2, <3>3 DEF NextFile
  <2>5. KeptIsRead(d, l)'
    <3>1. d < rday + 1 => d < rday \/ d = rday
      BY <2>1 DEF Days
    <3>2. \A k \in DOMAIN pending[d] : ~ (k < 1)
      OBVIOUS
    <3>3. QED BY <1>1, <2>1, <2>2, <2>4, <3>1, <3>2 DEF KeptIsRead, InBatch
  <2>6. QED BY <1>4, <2>1, <2>3, <2>5 DEF KeptLine
<1>7. CASE EndRead
  <2>1. spc = "read" /\ spc' \in {"idle", "post"} /\ batch' = batch
    BY <1>7 DEF EndRead
  <2>2. KeptIsBatched(l)'
    BY <1>1, <2>1 DEF KeptLine, KeptIsBatched
  <2>3. QED BY <1>4, <2>1, <2>2 DEF KeptLine
<1>8. QED BY <1>5, <1>6, <1>7

\* Nothing kept lies between the trace being posted and lastOk.
LEMMA KeptIsPosted ==
    ASSUME TypeOK, TraceInv, NEW d \in Days, NEW l \in StoredOn(d), KeptLine(d, l),
           Posting, commit < l.seq, l.seq <= lastOk
    PROVE  l.seq < batch[pos].seq
<1> USE SenderTypes
<1>1. /\ spc = "post" /\ pos \in DOMAIN batch /\ l.seq \in Int
      /\ KeptInFile(d, l) /\ KeptByDay(d, l) /\ KeptIsBatched(l)
  BY LineTypes DEF Posting, KeptLine
<1>2. pos # 1 /\ lastOk = batch[pos - 1].seq
  BY <1>1 DEF TraceInv, LastOkIsPosted
<1>3. pos - 1 \in DOMAIN batch /\ pos - 1 < pos /\ \A k \in DOMAIN batch : k < pos - 1 => k < pos
  BY <1>1, <1>2
<1>4. PICK m \in Stored : m = batch[pos - 1]
  BY <1>1, <1>3 DEF TraceInv, BatchIsPending
<1>5. PICK e \in Days : m \in StoredOn(e)
  BY DEF Stored
<1>6. m.seq \in Int /\ l.seq <= m.seq
  BY <1>2, <1>4, <1>5, LineTypes
<1>7. \E k \in DOMAIN batch : k < pos /\ batch[k] = l
  <2>1. CASE l.seq < m.seq
    BY <1>1, <1>3, <1>4, <2>1 DEF KeptIsBatched
  <2>2. CASE l.seq = m.seq
    <3>1. m = l
      BY <1>1, <1>5, <2>2, KeptIsUnique
    <3>2. QED BY <1>3, <1>4, <3>1
  <2>3. QED BY <1>1, <1>6, <2>1, <2>2
<1>8. QED BY <1>1, <1>7 DEF KeptIsBatched

LEMMA AnswerKeepsKept ==
    ASSUME TypeOK, TraceInv, NEW d \in Days, NEW l \in StoredOn(d), l.trace \in kept, KeptLine(d, l),
           PostOk \/ PostBadRequest,
           KeptIsIndexed(d, l)', IngestIsAhead(d, l)', KeptInFile(d, l)', KeptByDay(d, l)'
    PROVE  KeptLine(d, l)'
<1> USE SenderTypes
<1> DEFINE sent == batch[pos]
<1>1. /\ Posting /\ spc = "post" /\ spc' = "post" /\ lastOk' = sent.seq
      /\ Settled' = Settled \cup {sent.trace}
      /\ UNCHANGED <<pending, commit, batch, crashes, outages>>
  BY DEF PostOk, PostBadRequest, Answered, Posting, Settled, diskVars, readVars, worldVars
<1>2. \E stored \in SUBSET {sent.trace} :
        delivered' = delivered \cup stored /\ resent' = resent \cup (stored \cap delivered)
  BY DEF PostOk, PostBadRequest, Answered
<1>3. /\ pos \in DOMAIN batch /\ sent \in Stored /\ sent.seq \in Int /\ commit < sent.seq
      /\ l \in Stored /\ l.seq \in Int
  BY <1>1, PostsAboveLastOk, LineTypes DEF Stored
<1>4. /\ KeptInFile(d, l) /\ KeptByDay(d, l) /\ KeptIsBatched(l) /\ KeptIsSettled(l) /\ KeptIsDelivered(l)
  BY <1>1 DEF KeptLine
<1>5. PICK e \in Days : sent \in StoredOn(e)
  BY <1>3 DEF Stored
<1>6. l.seq = sent.seq => l = sent
  BY <1>4, <1>5, KeptIsUnique
<1>7. l.trace = sent.trace => l = sent
  BY <1>3 DEF TraceInv, LineOfOneTrace
<1>8. commit < l.seq /\ l.seq <= lastOk => l.seq < sent.seq
  BY <1>1, KeptIsPosted
<1>9. commit < l.seq /\ l.seq < sent.seq => l.trace \in Settled
  <2> SUFFICES ASSUME commit < l.seq, l.seq < sent.seq PROVE l.trace \in Settled
    OBVIOUS
  <2>1. PICK k \in DOMAIN batch : k < pos /\ batch[k] = l
    BY <1>3, <1>4 DEF KeptIsBatched
  <2>2. QED BY <1>1, <2>1 DEF TraceInv, LastOkIsPosted
<1>10. KeptIsBatched(l)'
  BY <1>1, <1>4 DEF KeptIsBatched
<1> HIDE DEF sent
<1>11. KeptIsSettled(l)'
  <2>1. l.seq <= commit => l.trace \in Settled
    BY <1>4 DEF KeptIsSettled
  <2>2. l.seq <= sent.seq => l.trace \in Settled'
    BY <1>1, <1>3, <1>6, <1>9, <2>1
  <2>3. QED BY <1>1, <2>1, <2>2 DEF KeptIsSettled
<1>12. KeptIsDelivered(l)'
  <2> SUFFICES ASSUME crashes = 0, outages = 0
               PROVE  /\ l.trace \notin resent'
                      /\ l.trace \in delivered' => l.seq <= commit \/ l.seq <= sent.seq
    BY <1>1 DEF KeptIsDelivered
  <2>1. /\ l.trace \notin resent
        /\ l.trace \in delivered => l.seq <= commit \/ l.seq <= lastOk
    BY <1>4 DEF KeptIsDelivered
  <2>2. l.trace = sent.trace => l.trace \notin delivered
    BY <1>3, <1>7, <1>8, <2>1
  <2>3. l.trace \notin resent'
    BY <1>2, <2>1, <2>2
  <2>4. ASSUME l.trace \in delivered', ~ (l.seq <= commit) PROVE l.seq <= sent.seq
    <3>1. CASE l.trace = sent.trace
      BY <1>3, <1>7, <3>1
    <3>2. CASE l.trace \in delivered
      BY <1>3, <1>8, <2>1, <2>4, <3>2
    <3>3. QED BY <1>2, <2>4, <3>1, <3>2
  <2>5. QED BY <2>3, <2>4
<1>13. QED
  BY <1>1, <1>10, <1>11, <1>12 DEF KeptLine

\* A batch that ends takes the commit id to lastOk; what is kept is settled up to there.
LEMMA EndKeepsKept ==
    ASSUME TypeOK, TraceInv, NEW d \in Days, NEW l \in StoredOn(d), l.trace \in kept, KeptLine(d, l),
           PostHttpError \/ PostNetworkError \/ EndBatch \/ SaveSenderState \/ SenderSaveFails,
           KeptIsIndexed(d, l)', IngestIsAhead(d, l)', KeptInFile(d, l)', KeptByDay(d, l)'
    PROVE  KeptLine(d, l)'
<1> USE SenderTypes
<1>1. /\ spc' \in {"idle", "save"} /\ Settled \subseteq Settled' /\ UNCHANGED <<crashes, outages>>
  BY DEF PostHttpError, PostNetworkError, EndBatch, SaveSenderState, SenderSaveFails, Settled,
         historyVars, worldVars
<1>2. KeptIsSettled(l) /\ KeptIsDelivered(l) /\ l.seq \in Int
  BY LineTypes DEF KeptLine
<1>3. \/ commit' = commit
      \/ spc = "post" /\ commit' = CommitReached
  BY DEF PostHttpError, PostNetworkError, EndBatch, SaveSenderState, SenderSaveFails, Posting
<1>4. KeptIsSettled(l)'
  BY <1>1, <1>2, <1>3 DEF KeptIsSettled, CommitReached
<1>5. KeptIsDelivered(l)'
  <2>1. CASE PostNetworkError
    <3>1. outages # 0
      BY <2>1 DEF PostNetworkError, TraceInv, UpUntilOutage
    <3>2. QED BY <1>1, <3>1 DEF KeptIsDelivered
  <2>2. CASE ~ PostNetworkError
    <3>1. /\ UNCHANGED <<resent, delivered>> /\ commit <= commit' /\ (spc = "post" => lastOk <= commit')
          /\ commit' \in Int
      BY <2>2 DEF PostHttpError, EndBatch, Posting, CommitReached, SaveSenderState, SenderSaveFails,
                  historyVars
    <3>2. QED BY <1>1, <1>2, <3>1 DEF KeptIsDelivered
  <2>3. QED BY <2>1, <2>2
<1>6. QED
  BY <1>1, <1>4, <1>5 DEF KeptLine

LEMMA SendKeepsKept ==
    ASSUME TypeOK, TraceInv, NEW d \in Days, NEW l \in StoredOn(d), l.trace \in kept', KeptLine(d, l), Send
    PROVE  KeptLine(d, l)'
<1>1. /\ UNCHANGED <<pending, savedNext, savedFiles, nextSeq, files, ipc, job, img, day>>
      /\ l.trace \in kept
  BY DEF Send, LoadIngestState, ReadLine, NextFile, ReadFails, EndRead, PostOk, PostBadRequest,
         Answered, PostHttpError, PostNetworkError, EndBatch, SaveSenderState, SenderSaveFails,
         ingestVars, diskVars, historyVars, riskVars, worldVars
<1>2. KeptIsIndexed(d, l)' /\ IngestIsAhead(d, l)' /\ KeptInFile(d, l)' /\ KeptByDay(d, l)'
  BY <1>1, KeptPartsKept
<1>3. QED
  BY <1>1, <1>2, ReadLineKeepsKept, ReadKeepsKept, AnswerKeepsKept, EndKeepsKept DEF Send

LEMMA WorldKeepsKept ==
    ASSUME TypeOK, TraceInv, NEW d \in Days, NEW l \in StoredOn(d), l.trace \in kept, KeptLine(d, l),
           Restart \/ NewDay \/ LangfuseDown \/ LangfuseUp \/ UNCHANGED vars
    PROVE  KeptLine(d, l)'
<1>1. CASE Restart
  <2>1. /\ nextSeq' = NextSeqAtStart /\ files' = savedFiles /\ commit' = savedCommit
        /\ spc' = "idle" /\ \A i \in Ingesters : ipc'[i] = "idle"
        /\ crashes' = crashes + 1
        /\ UNCHANGED <<pending, savedNext, savedFiles, delivered, skipped, day>>
    BY <1>1 DEF Restart
  <2>2. KeptInFile(d, l)' /\ KeptByDay(d, l)'
    BY <2>1, KeptPartsKept
  <2>3. KeptIsIndexed(d, l)' /\ IngestIsAhead(d, l)'
    <3>1. Returning' = {}
      BY <2>1 DEF Returning
    <3>2. Cardinality(Returning') = 0
      BY <3>1, FS_EmptySet
    <3>3. l.seq \in Int /\ savedNext \in Int /\ savedCommit \in Int
      BY LineTypes DEF TypeOK, DiskType
    <3>4. l.seq < savedNext /\ l.seq <= savedFiles[d] /\ d <= day
      BY DEF KeptLine, KeptIsIndexed
    <3>5. l.seq + Cardinality(Returning') < nextSeq'
      BY <2>1, <3>2, <3>3, <3>4 DEF NextSeqAtStart
    <3>6. QED BY <2>1, <3>4, <3>5 DEF KeptIsIndexed, IngestIsAhead
  <2>4. KeptIsSettled(l)'
    <3>1. l.seq \in Int /\ savedCommit <= commit /\ commit \in Int /\ savedCommit \in Int
      BY LineTypes, SenderTypes DEF TraceInv, SavedCommitIsBehind
    <3>2. QED BY <2>1, <3>1 DEF KeptLine, KeptIsSettled, Settled
  <2>5. KeptIsDelivered(l)'
    BY <2>1 DEF KeptIsDelivered, TypeOK, WorldType
  <2>6. QED BY <2>1, <2>2, <2>3, <2>4, <2>5 DEF KeptLine
<1>2. CASE NewDay \/ LangfuseDown \/ LangfuseUp \/ UNCHANGED vars
  <2>1. UNCHANGED <<ingestVars, senderVars, diskVars, historyVars>>
    BY <1>2 DEF NewDay, LangfuseDown, LangfuseUp, vars
  <2>2. /\ UNCHANGED <<nextSeq, files, ipc, job, img, spc, commit, snap, rday, ridx, batch, lastOk,
                       pending, savedNext, savedFiles, delivered, skipped, resent>>
        /\ crashes' = crashes
    BY <1>2, <2>1 DEF ingestVars, senderVars, readVars, diskVars, historyVars, NewDay, LangfuseDown,
                      LangfuseUp, vars, worldVars
  <2>3. KeptIsIndexed(d, l)' /\ IngestIsAhead(d, l)'
    <3>1. d <= day'
      <4>1. d <= day /\ d \in Int /\ day \in Int
        BY DEF KeptLine, KeptIsIndexed, TypeOK, WorldType, Days
      <4>2. day' = day \/ day' = day + 1
        BY <1>2 DEF NewDay, LangfuseDown, LangfuseUp, vars, worldVars
      <4>3. QED BY <4>1, <4>2
    <3>2. Returning' = Returning
      BY <2>2 DEF Returning
    <3>3. QED BY <2>2, <3>1, <3>2 DEF KeptLine, KeptIsIndexed, IngestIsAhead
  <2>4. KeptIsDelivered(l)'
    <3>1. outages' = outages \/ outages' # 0
      BY <1>2 DEF NewDay, LangfuseDown, LangfuseUp, vars, worldVars, TypeOK, WorldType
    <3>2. QED BY <2>2, <3>1 DEF KeptLine, KeptIsDelivered
  <2>5. /\ KeptInFile(d, l)' /\ KeptByDay(d, l)'
        /\ spc' = "read" => KeptInSnapshot(d, l)' /\ KeptIsRead(d, l)'
        /\ spc' \in {"read", "post"} => KeptIsBatched(l)'
        /\ KeptIsSettled(l)'
    BY <2>2, KeptPartsKept DEF Settled
  <2>6. QED BY <2>3, <2>4, <2>5 DEF KeptLine
<1>3. QED BY <1>1, <1>2

LEMMA KeptKept ==
    ASSUME TypeOK, TraceInv, KeptInv, kept' \subseteq kept, [Next]_vars
    PROVE  KeptInv'
<1> SUFFICES ASSUME NEW d \in Days, NEW l \in StoredOn(d)', l.trace \in kept' PROVE KeptLine(d, l)'
  BY DEF KeptInv
<1>1. l \in StoredOn(d)
  <2>1. CASE UNCHANGED pending
    BY <2>1, StoreKept
  <2>2. CASE \E i \in Ingesters : AppendLine(i)
    <3>1. PICK i \in Ingesters : AppendLine(i)
      BY <2>2
    <3>2. JobLine(i).trace \notin accepted
      BY <3>1 DEF AppendLine, JobLine, TraceInv, WorksOnSubmitted
    <3>3. l # JobLine(i)
      BY <3>2 DEF TypeOK, HistoryType
    <3>4. QED BY <3>1, <3>3, AppendGrows
  <2>3. QED BY <2>1, <2>2, OnlyAppends
<1>2. KeptLine(d, l) /\ l.trace \in kept
  BY <1>1 DEF KeptInv
<1>3. CASE \E i \in Ingesters : Ingest(i)
  BY <1>1, <1>2, <1>3, IngestKeepsKept
<1>4. CASE Send
  BY <1>1, <1>2, <1>4, SendKeepsKept
<1>5. CASE Restart \/ NewDay \/ LangfuseDown \/ LangfuseUp \/ UNCHANGED vars
  BY <1>1, <1>2, <1>5, WorldKeepsKept
<1>6. QED BY <1>3, <1>4, <1>5 DEF Next

-----------------------------------------------------------------------------
(* The invariant and what follows from it.                                 *)

\* What is at risk stays at risk, and then nothing more is kept.
LEMMA RiskStays ==
    ASSUME TypeOK, [Next]_vars
    PROVE  /\ disturbed => disturbed'
           /\ disturbed' => kept' \subseteq kept
<1> USE DEF disturbed
<1>1. CASE \E i \in Ingesters : Allocate(i)
  <2>1. UNCHANGED <<exposed, kept>> /\ (overlapped => overlapped')
    BY <1>1 DEF Allocate
  <2>2. QED BY <2>1
<1>2. CASE \E i \in Ingesters : AppendFails(i)
  <2>1. UNCHANGED <<overlapped, kept>> /\ (exposed => exposed')
    BY <1>2 DEF AppendFails
  <2>2. QED BY <2>1
<1>3. CASE \E i \in Ingesters : ReplaceIngestJson(i)
  BY <1>3 DEF ReplaceIngestJson
<1>4. CASE \E i \in Ingesters : GiveBack(i) \/ AppendLine(i) \/ UpdateEntry(i) \/ TakeImage(i) \/ SaveFails(i)
  BY <1>4 DEF GiveBack, AppendLine, UpdateEntry, TakeImage, SaveFails, historyVars, riskVars
<1>5. CASE Send
  BY <1>5 DEF Send, LoadIngestState, ReadLine, NextFile, ReadFails, EndRead, PostOk, PostBadRequest,
     Answered, PostHttpError, PostNetworkError, EndBatch, SaveSenderState, SenderSaveFails,
     historyVars, riskVars
<1>6. CASE Restart
  BY <1>6 DEF Restart
<1>7. CASE NewDay \/ LangfuseDown \/ LangfuseUp \/ UNCHANGED vars
  BY <1>7 DEF NewDay, LangfuseDown, LangfuseUp, vars, historyVars, riskVars
<1>8. QED
  BY <1>1, <1>2, <1>3, <1>4, <1>5, <1>6, <1>7 DEF Next, Ingest

\* The inductive invariant: all lines until ingests overlap or something is exposed
\* (ingestor.py:115-168, sender.py:71-150), and what is kept for ever.
THEOREM QueueInvariant == Spec => [](TypeOK /\ Inv)
<1>1. Init => TraceInv /\ (~ disturbed => QueueInv /\ DeliveryInv)
  <2> SUFFICES ASSUME Init PROVE TraceInv /\ QueueInv /\ DeliveryInv
    OBVIOUS
  <2>1. Stored = {} /\ batch = <<>> /\ spc = "idle" /\ \A i \in Ingesters : ipc[i] = "idle"
    BY DEF Init, StoredOn, Stored
  <2>2. TraceInv
    BY <2>1 DEF Init, TraceInv, LineOfOneTrace, WorksOnSubmitted, KeptIsStored, SavedCommitIsBehind,
                BatchIsPending, BatchIsPassed, LastOkIsPosted, UpUntilOutage
  <2>3. DeliveryInv
    BY <2>1 DEF Init, DeliveryInv, BatchInOrder, DeliveredBehind
  <2>4. QED
    BY <2>2, <2>3, InitHolds
<1>2. TypeOK /\ TraceInv /\ QueueInv /\ DeliveryInv => KeptInv
  BY KeptFromQueue
<1>3. TypeOK /\ TraceInv /\ (~ disturbed => QueueInv /\ DeliveryInv) /\ [Next]_vars
        => TraceInv' /\ (~ disturbed' => QueueInv' /\ DeliveryInv')
  <2> SUFFICES ASSUME TypeOK, TraceInv, ~ disturbed => QueueInv /\ DeliveryInv, [Next]_vars
               PROVE  TraceInv' /\ (~ disturbed' => QueueInv' /\ DeliveryInv')
    OBVIOUS
  <2>1. TraceInv'
    BY TraceKept
  <2>2. ASSUME ~ disturbed' PROVE QueueInv' /\ DeliveryInv'
    <3>1. ~ disturbed
      BY <2>2, RiskStays
    <3>2. QED BY <2>2, <3>1, QueueKept, DeliveryKept
  <2>3. QED BY <2>1, <2>2
<1>4. TypeOK /\ TraceInv /\ KeptInv /\ [Next]_vars => (disturbed' => KeptInv')
  BY RiskStays, KeptKept
<1>5. Spec => [](TypeOK /\ TraceInv /\ (~ disturbed => QueueInv /\ DeliveryInv))
  BY <1>1, <1>3, TypeCorrect, PTL DEF Spec
<1>6. Init => KeptInv
  BY DEF Init, KeptInv
<1>7. Spec => []KeptInv
  BY <1>2, <1>4, <1>5, <1>6, PTL DEF Spec
<1>8. QED
  BY <1>5, <1>7, PTL DEF Inv

\* Nothing promised at or below the commit id is still to be sent, whoever ingests and
\* whatever fails (record_commit, state.py:197).
THEOREM CommitIsSafe == Spec => []SettledUpToCommit
<1>1. TypeOK /\ Inv => SettledUpToCommit
  <2> SUFFICES ASSUME Inv, NEW d \in Days, NEW l \in StoredOn(d), l.seq <= commit, Promised(l)
               PROVE  l.trace \in Settled
    BY DEF SettledUpToCommit, Stored
  <2>1. CASE ~ disturbed
    BY <2>1 DEF Inv, QueueInv, Committed, CommitIsSettled, Stored
  <2>2. CASE l.trace \in kept
    BY <2>2 DEF Inv, KeptInv, KeptLine, KeptIsSettled
  <2>3. QED BY <2>1, <2>2 DEF Promised
<1>2. QED
  BY <1>1, QueueInvariant, PTL

\* What was accepted before ingests overlapped, a death or a disk error is settled, or
\* waits above the commit id in a file the next batch will open.
THEOREM NoTraceLost == Spec => []NoAcceptedTraceLost
<1>1. TypeOK /\ Inv => NoAcceptedTraceLost
  <2> SUFFICES ASSUME TypeOK, Inv, NEW t \in kept, t \notin Settled
               PROVE  \E d \in Days : \E l \in StoredOn(d) :
                        l.trace = t /\ l.seq > commit /\ l.seq <= savedFiles[d]
    BY DEF NoAcceptedTraceLost
  <2>1. PICK l \in Stored : l.trace = t
    BY DEF Inv, TraceInv, KeptIsStored
  <2>2. PICK d \in Days : l \in StoredOn(d)
    BY DEF Stored
  <2>3. KeptLine(d, l) /\ l.seq \in Int /\ commit \in Int
    BY <2>1, <2>2, LineTypes, SenderTypes DEF Inv, KeptInv
  <2>4. l.seq > commit /\ l.seq <= savedFiles[d]
    BY <2>1, <2>3 DEF KeptLine, KeptIsIndexed, KeptIsSettled
  <2>5. QED BY <2>1, <2>2, <2>4
<1>2. QED
  BY <1>1, QueueInvariant, PTL

\* No line has the number of a promised one (allocate_seq_id, state.py:191), though the
\* threads that ingest share the counter without a lock and one of them may take a
\* number back.
THEOREM NumbersAreUnique == Spec => []UniqueSeq
<1>1. TypeOK /\ Inv => UniqueSeq
  <2> SUFFICES ASSUME TypeOK, Inv, NEW l \in Stored, NEW m \in Stored, l.seq = m.seq, Promised(l)
               PROVE  l = m
    BY DEF UniqueSeq
  <2>1. CASE ~ disturbed
    BY <2>1, OrderMakesUnique DEF Inv, QueueInv
  <2>2. CASE l.trace \in kept
    <3>1. PICK d \in Days, e \in Days : l \in StoredOn(d) /\ m \in StoredOn(e)
      BY DEF Stored
    <3>2. KeptInFile(d, l) /\ KeptByDay(d, l)
      BY <2>2, <3>1 DEF Inv, KeptInv, KeptLine
    <3>3. QED BY <3>1, <3>2, KeptIsUnique
  <2>3. QED BY <2>1, <2>2 DEF Promised
<1>2. QED
  BY <1>1, QueueInvariant, PTL

\* What a post settles, and that no other step settles anything: at most the trace
\* the sender is at.
LEMMA SettlesOnlyAtPos ==
    ASSUME TypeOK, [Next]_vars
    PROVE  \/ Settled' = Settled
           \/ /\ Posting /\ UNCHANGED <<pending, savedCommit, riskVars>>
              /\ Settled' = Settled \cup {batch[pos].trace}
<1>1. CASE PostOk \/ PostBadRequest \/ PostNetworkError
  <2>1. /\ Posting /\ UNCHANGED <<pending, savedCommit, riskVars>>
        /\ Settled' \subseteq Settled \cup {batch[pos].trace} /\ Settled \subseteq Settled'
    BY <1>1 DEF PostOk, PostBadRequest, PostNetworkError, Answered, Settled, diskVars
  <2>2. QED BY <2>1
<1>2. CASE Send /\ ~ (PostOk \/ PostBadRequest \/ PostNetworkError)
  BY <1>2 DEF Send, LoadIngestState, ReadLine, NextFile, ReadFails, EndRead, PostHttpError, EndBatch,
              SaveSenderState, SenderSaveFails, historyVars, Settled
<1>3. CASE ~ Send
  BY <1>3 DEF Next, Ingest, Allocate, GiveBack, AppendLine, AppendFails, UpdateEntry, TakeImage,
              ReplaceIngestJson, SaveFails, Restart, NewDay, LangfuseDown, LangfuseUp, vars,
              historyVars, Settled
<1>4. QED BY <1>1, <1>2, <1>3

\* Promised traces reach Langfuse, or are refused by it, before any with a greater number
\* (the loop over batch in _send_batch, sender.py).
THEOREM InOrder == Spec => SettledInOrder
<1>1. ASSUME TypeOK, Inv, [Next]_vars, NEW l \in Stored, NEW m \in Stored,
             l.trace \in Settled' \ Settled, m.seq < l.seq, Promised(m)
      PROVE  m.trace \in Settled
  <2>1. Posting /\ l.trace = batch[pos].trace
    BY <1>1, SettlesOnlyAtPos
  <2>2. spc = "post" /\ pos \in DOMAIN batch /\ batch[pos] \in Stored
    BY <1>1, <2>1, PostsAboveLastOk DEF Inv
  <2>3. l = batch[pos]
    BY <1>1, <2>1, <2>2 DEF Inv, TraceInv, LineOfOneTrace
  <2>4. m.seq \in Int /\ commit \in Int
    BY <1>1, LineTypes, SenderTypes DEF Stored
  <2>5. PICK d \in Days : m \in StoredOn(d)
    BY DEF Stored
  <2>6. m.trace \in kept => KeptLine(d, m)
    BY <1>1, <2>5 DEF Inv, KeptInv
  <2>7. CASE m.seq <= commit
    <3>1. CASE ~ disturbed
      BY <1>1, <2>7, <3>1 DEF Inv, QueueInv, Committed, CommitIsSettled
    <3>2. CASE m.trace \in kept
      BY <2>6, <2>7, <3>2 DEF KeptLine, KeptIsSettled
    <3>3. QED BY <1>1, <3>1, <3>2 DEF Promised
  <2>8. CASE commit < m.seq
    <3>1. \E k \in DOMAIN batch : k < pos /\ batch[k] = m
      <4>1. CASE ~ disturbed
        BY <1>1, <2>2, <2>3, <2>8, <4>1 DEF Inv, QueueInv, Batching, BatchHasNoGap
      <4>2. CASE m.trace \in kept
        BY <1>1, <2>2, <2>3, <2>6, <2>8, <4>2 DEF KeptLine, KeptIsBatched
      <4>3. QED BY <1>1, <4>1, <4>2 DEF Promised
    <3>2. QED
      BY <1>1, <2>2, <3>1 DEF Inv, TraceInv, LastOkIsPosted
  <2>9. QED BY <2>4, <2>7, <2>8
<1>2. TypeOK /\ Inv /\ [Next]_vars =>
        [Settled' # Settled =>
           \A l, m \in Stored : l.trace \in Settled' \ Settled /\ m.seq < l.seq /\ Promised(m)
              => m.trace \in Settled]_vars
  BY <1>1
<1>3. QED
  BY <1>2, QueueInvariant, PTL DEF Spec, SettledInOrder

\* Without a crash or an outage nothing promised is posted twice: the commit id and lastOk
\* keep the sender from what it has sent, though errors of the disk repeat its rounds.
THEOREM ResentAfterFailure == Spec => []ResentOnlyAfterFailure
<1>1. TypeOK /\ Inv => ResentOnlyAfterFailure
  <2> SUFFICES ASSUME Inv, NEW d \in Days, NEW l \in StoredOn(d), Promised(l), l.trace \in resent,
                      crashes = 0, outages = 0
               PROVE  FALSE
    BY DEF ResentOnlyAfterFailure, Stored, TypeOK, WorldType
  <2>1. CASE ~ disturbed
    BY <2>1 DEF Inv, DeliveryInv, DeliveredBehind
  <2>2. CASE l.trace \in kept
    BY <2>2 DEF Inv, KeptInv, KeptLine, KeptIsDelivered
  <2>3. QED BY <2>1, <2>2 DEF Promised
<1>2. QED
  BY <1>1, QueueInvariant, PTL

-----------------------------------------------------------------------------
(* The queue implements AtLeastOnce.                                       *)

\* A step that leaves files, commit id and deliveries alone takes the promise nowhere,
\* but perhaps into trouble.
LEMMA QuietRefines ==
    ASSUME UNCHANGED <<pending, savedCommit>>, Settled' = Settled,
           UNCHANGED riskVars \/ (disturbed' /\ kept' \subseteq kept)
    PROVE  Promise!Next \/ UNCHANGED Promise!vars
<1>1. CASE UNCHANGED riskVars
  <2>1. kept' = kept /\ disturbed' = disturbed
    BY <1>1 DEF riskVars, disturbed
  <2>2. Held' = Held
    BY <2>1, StoreKept DEF Held
  <2>3. QED BY <2>1, <2>2 DEF Promise!vars
<1>2. CASE disturbed' /\ kept' \subseteq kept
  <2>1. Held' = Held \cap kept'
    BY <1>2, StoreKept DEF Held
  <2>2. disturbed' = TRUE
    BY <1>2 DEF disturbed
  <2>3. Promise!GetIntoTrouble
    BY <1>2, <2>1, <2>2 DEF Promise!GetIntoTrouble
  <2>4. QED BY <2>3 DEF Promise!Next
<1>3. QED BY <1>1, <1>2

\* An ingester changes what is promised when it puts ingest.json in its place: the line
\* it appended before is not held, because nobody was told that its trace is accepted.
LEMMA IngestRefines ==
    ASSUME TypeOK, Inv, NEW i \in Ingesters, Ingest(i)
    PROVE  Promise!Next \/ UNCHANGED Promise!vars
<1>1. Settled' = Settled /\ savedCommit' = savedCommit
  BY DEF Ingest, Allocate, GiveBack, AppendLine, AppendFails, UpdateEntry, TakeImage,
         ReplaceIngestJson, SaveFails, senderVars, diskVars, historyVars, Settled
<1>2. CASE AppendLine(i)
  <2>1. /\ Stored \subseteq Stored' /\ Stored' \subseteq Stored \cup {JobLine(i)}
        /\ JobLine(i).trace = job[i].trace /\ UNCHANGED <<kept, overlapped, exposed>>
    BY <1>2, AppendGrows DEF AppendLine, JobLine, historyVars, riskVars
  <2>2. job[i].trace \notin kept
    BY <1>2 DEF AppendLine, Inv, TraceInv, WorksOnSubmitted, TypeOK, HistoryType
  <2>3. Held' = Held
    BY <1>1, <2>1, <2>2 DEF Held
  <2>4. disturbed' = disturbed
    BY <2>1 DEF disturbed
  <2>5. QED
    BY <1>1, <2>1, <2>3, <2>4 DEF Promise!vars
<1>3. CASE ReplaceIngestJson(i) /\ ~ disturbed
  <2> DEFINE t == job[i].trace
  <2>1. /\ kept' = kept \cup {t} /\ UNCHANGED <<pending, overlapped, exposed>>
        /\ Unsaved(i) /\ JobLine(i).trace = t
    BY <1>3 DEF ReplaceIngestJson, Unsaved, JobLine
  <2>2. t \in Traces \ kept
    BY <1>3 DEF ReplaceIngestJson, Inv, TraceInv, WorksOnSubmitted, TypeOK, IngestType, HistoryType
  <2>3. JobLine(i) \in Stored /\ JobLine(i).seq \in Int /\ savedCommit \in Int /\ commit \in Int
    <3>1. job[i].day \in Days /\ JobLine(i) \in StoredOn(job[i].day)
      BY <1>3, <2>1 DEF Unsaved, Inv, QueueInv, Numbered, JobIsNewest, TypeOK, IngestType
    <3>2. QED
      BY <3>1, LineTypes, SenderTypes DEF Stored
  <2>4. \A l \in Stored : l.trace = t => l = JobLine(i)
    BY <2>1, <2>3 DEF Inv, TraceInv, LineOfOneTrace
  <2>5. disturbed' = disturbed
    BY <2>1 DEF disturbed
  <2>6. Stored' = Stored
    BY <2>1, StoreKept
  <2> HIDE DEF t
  <2>7. CASE JobLine(i).seq > savedCommit
    <3>1. Held' = Held \cup {t}
      BY <1>1, <2>1, <2>3, <2>6, <2>7 DEF Held
    <3>2. QED
      BY <1>1, <1>3, <2>1, <2>2, <2>5, <3>1 DEF Promise!Next, Promise!Accept
  <2>8. CASE JobLine(i).seq <= savedCommit
    <3>1. t \in Settled
      <4>1. JobLine(i).seq <= commit
        BY <2>3, <2>8 DEF Inv, TraceInv, SavedCommitIsBehind
      <4>2. QED BY <1>3, <2>1, <2>3, <4>1 DEF Inv, QueueInv, Committed, CommitIsSettled
    <3>2. Held' = Held
      <4>1. \A l \in Stored : l.trace = t => ~ (l.seq > savedCommit)
        BY <2>3, <2>4, <2>8
      <4>2. QED
        BY <1>1, <2>1, <2>6, <4>1 DEF Held
    <3>3. QED
      BY <1>1, <1>3, <2>1, <2>2, <2>5, <3>1, <3>2 DEF Promise!Next, Promise!Accept
  <2>9. QED BY <2>3, <2>7, <2>8
<1>4. CASE ~ AppendLine(i) /\ ~ (ReplaceIngestJson(i) /\ ~ disturbed)
  <2>1. UNCHANGED pending
    BY <1>4 DEF Ingest, Allocate, GiveBack, AppendFails, UpdateEntry, TakeImage, ReplaceIngestJson,
                SaveFails, diskVars
  <2>2. UNCHANGED riskVars \/ (disturbed' /\ kept' \subseteq kept)
    <3>1. CASE Allocate(i)
      <4>1. UNCHANGED <<exposed, kept>> /\ overlapped' \in BOOLEAN /\ (overlapped => overlapped')
        BY <3>1 DEF Allocate
      <4>2. overlapped' = overlapped \/ overlapped'
        BY <4>1 DEF TypeOK, HistoryType
      <4>3. QED BY <4>1, <4>2 DEF riskVars, disturbed
    <3>2. CASE AppendFails(i)
      <4>1. UNCHANGED <<overlapped, kept>> /\ exposed' \in BOOLEAN /\ (exposed => exposed')
        BY <3>2 DEF AppendFails
      <4>2. exposed' = exposed \/ exposed'
        BY <4>1 DEF TypeOK, HistoryType
      <4>3. QED BY <4>1, <4>2 DEF riskVars, disturbed
    <3>3. CASE ReplaceIngestJson(i)
      BY <1>4, <3>3 DEF ReplaceIngestJson, riskVars
    <3>4. CASE GiveBack(i) \/ UpdateEntry(i) \/ TakeImage(i) \/ SaveFails(i)
      BY <3>4 DEF GiveBack, UpdateEntry, TakeImage, SaveFails, historyVars
    <3>5. QED BY <1>4, <3>1, <3>2, <3>3, <3>4 DEF Ingest
  <2>3. QED BY <1>1, <2>1, <2>2, QuietRefines
<1>5. QED BY <1>2, <1>3, <1>4

\* The sender settles one trace at a time, and lets traces go when it writes sender.json.
LEMMA SendRefines ==
    ASSUME TypeOK, Inv, Send
    PROVE  Promise!Next \/ UNCHANGED Promise!vars
<1>1. UNCHANGED pending
  BY DEF Send, LoadIngestState, ReadLine, NextFile, ReadFails, EndRead, PostOk, PostBadRequest,
         Answered, PostHttpError, PostNetworkError, EndBatch, SaveSenderState, SenderSaveFails, diskVars
<1>2. CASE SaveSenderState
  <2>1. savedCommit' = commit /\ Settled' = Settled /\ UNCHANGED <<kept, overlapped, exposed>>
    BY <1>2 DEF SaveSenderState, historyVars, riskVars, Settled
  <2>2. savedCommit \in Int /\ commit \in Int /\ savedCommit <= commit
    BY SenderTypes DEF Inv, TraceInv, SavedCommitIsBehind
  <2>3. \A l \in Stored : l.seq \in Int
    BY LineTypes DEF Stored
  <2>4. ASSUME NEW t \in Held, t \notin Held' PROVE t \in Settled
    <3>1. PICK l \in Stored : l.trace = t /\ t \in kept
      BY <2>4 DEF Held
    <3>2. ~ (l.seq > commit)
      BY <1>1, <2>1, <2>4, <3>1, StoreKept DEF Held
    <3>3. PICK d \in Days : l \in StoredOn(d)
      BY DEF Stored
    <3>4. QED
      BY <2>2, <2>3, <3>1, <3>2, <3>3 DEF Inv, KeptInv, KeptLine, KeptIsSettled
  <2>5. Held' \subseteq Held
    BY <1>1, <2>1, <2>2, <2>3, StoreKept DEF Held
  <2>6. disturbed' = disturbed
    BY <2>1 DEF disturbed
  <2>7. Promise!Release
    BY <2>1, <2>4, <2>5, <2>6 DEF Promise!Release
  <2>8. QED
    BY <2>7 DEF Promise!Next
<1>3. CASE ~ SaveSenderState
  <2>1. savedCommit' = savedCommit
    BY <1>3 DEF Send, LoadIngestState, ReadLine, NextFile, ReadFails, EndRead, PostOk, PostBadRequest,
                Answered, PostHttpError, PostNetworkError, EndBatch, SenderSaveFails, diskVars
  <2>2. CASE Settled' = Settled
    <3>1. UNCHANGED riskVars \/ (disturbed' /\ kept' \subseteq kept)
      BY DEF Send, LoadIngestState, ReadLine, NextFile, ReadFails, EndRead, PostOk, PostBadRequest,
             Answered, PostHttpError, PostNetworkError, EndBatch, SaveSenderState, SenderSaveFails,
             historyVars, disturbed
    <3>2. QED BY <1>1, <2>1, <2>2, <3>1, QuietRefines
  <2>3. CASE Settled' # Settled
    <3>1. Posting /\ UNCHANGED <<kept, overlapped, exposed>> /\ Settled' = Settled \cup {batch[pos].trace}
      BY <2>3, SettlesOnlyAtPos DEF Next, riskVars
    <3>2. batch[pos].trace \in Traces
      BY <3>1, PostsAboveLastOk, LineTypes DEF Inv, Stored, Line
    <3>3. Held' = Held /\ disturbed' = disturbed
      BY <1>1, <2>1, <3>1, StoreKept DEF Held, disturbed
    <3>4. QED
      BY <3>1, <3>2, <3>3 DEF Promise!Next, Promise!Settle
  <2>4. QED BY <2>2, <2>3
<1>4. QED BY <1>2, <1>3

\* The daemon implements AtLeastOnce: every step of it accepts, settles or lets go of
\* traces as the promise allows, gets into trouble, or is none of the hook's business.
\* A crash is a stutter, or trouble: what is held is on disk, and stays held.
THEOREM QueueImplementsAtLeastOnce == Spec => ImplementsAtLeastOnce
<1>1. Init => Promise!Init
  BY DEF Init, Promise!Init, Held, Settled, disturbed
<1>2. TypeOK /\ Inv /\ [Next]_vars => [Promise!Next]_Promise!vars
  <2> SUFFICES ASSUME TypeOK, Inv, [Next]_vars
               PROVE  Promise!Next \/ UNCHANGED Promise!vars
    OBVIOUS
  <2>1. CASE \E i \in Ingesters : Ingest(i)
    BY <2>1, IngestRefines
  <2>2. CASE Send
    BY <2>2, SendRefines
  <2>3. CASE Restart
    <3>1. UNCHANGED <<pending, savedCommit, overlapped, kept>> /\ Settled' = Settled
      BY <2>3 DEF Restart, Settled
    <3>2. PICK half : exposed' = (exposed \/ half # {} \/ ~ IndexIsSaved)
      BY <2>3 DEF Restart
    <3>3. exposed' \in BOOLEAN /\ (exposed => exposed')
      BY <3>2
    <3>4. exposed' = exposed \/ exposed'
      BY <3>3 DEF TypeOK, HistoryType
    <3>5. QED BY <3>1, <3>4, QuietRefines DEF riskVars, disturbed
  <2>4. CASE NewDay \/ LangfuseDown \/ LangfuseUp \/ UNCHANGED vars
    <3>1. UNCHANGED <<pending, savedCommit, riskVars>> /\ Settled' = Settled
      BY <2>4 DEF NewDay, LangfuseDown, LangfuseUp, vars, diskVars, historyVars, Settled
    <3>2. QED
      BY <3>1, QuietRefines
  <2>5. QED
    BY <2>1, <2>2, <2>3, <2>4 DEF Next
<1>3. QED
  BY <1>1, <1>2, QueueInvariant, PTL DEF Spec, ImplementsAtLeastOnce, Promise!Spec
=============================================================================
