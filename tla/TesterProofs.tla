---------------------------- MODULE TesterProofs ----------------------------
(***************************************************************************)
(* Proofs about Tester, for any jobs and branches, any of them silent, and *)
(* any number of deaths of the service.                                    *)
(***************************************************************************)
EXTENDS Tester, SequenceTheorems, TLAPS

Queued == Range(queue)

AtWork == {"take", "begin", "start", "prepare", "spawned", "look", "read", "decide", "record"}

TypeOK ==
    /\ policy \in Policies
    /\ status \in [Jobs -> Status] /\ notified \in [Jobs -> Status]
    /\ queue \in Seq(Jobs) /\ tracked \subseteq Jobs
    /\ {running, wjob, hjob} \subseteq Jobs \cup {NoJob}
    /\ wpc # "idle" => wjob \in Jobs
    /\ hpc # "idle" => hjob \in Jobs
    /\ wpc \in AtWork \cup {"idle", "left", "clear", "complete", "notify"}
    /\ wpc = "record" => verdict \in Final

\* The server brings a new job to the queue.
Coming == hpc \in {"enqueue", "replace", "callback"}

\* A job is in one place: waiting, with the worker, or on its way to the queue.
PlaceInv ==
    /\ \A m, n \in 1..Len(queue) : queue[m] = queue[n] => m = n
    /\ wjob \notin Queued
    /\ running \in {NoJob, wjob} /\ (wpc \in {"idle", "notify"} => running = NoJob)
    /\ wpc = "idle" => wjob = NoJob
    /\ Coming => hjob \notin Queued \cup {wjob} /\ status[hjob] # "none"
    /\ \A j \in Queued \cup ({wjob} \ {NoJob}) : status[j] # "none"
    /\ hpc = "callback" => running \in Same(hjob) /\ policy = "replace"
    /\ hpc = "replace" => policy = "replace"

QueueInv == TypeOK /\ PlaceInv /\ TrackedIsQueuedOrRunning

\* The branch map has one job of a branch, and without replacing the worker's
\* job stays the running one.
BranchInv ==
    /\ policy # "queue" => \A j, k \in tracked : Branch[j] = Branch[k] => j = k
    /\ policy = "reject" /\ wpc \notin {"idle", "notify"} => running = wjob

\* A job that waits or is worked on has not ended, unless by a cancel; when the
\* worker lets go of it, its end is in its row, and its process is gone.
Unended == {"pending", "running", "cancelled"}

EndInv ==
    /\ \A j \in Queued : status[j] \in Unended /\ notified[j] = "none"
    /\ wpc \in AtWork => status[wjob] \in Unended
    /\ wpc \in {"clear", "complete", "notify"} => status[wjob] \in Final
    /\ wpc # "idle" => notified[wjob] = "none"
    /\ Coming => status[hjob] = "pending" /\ notified[hjob] = "none"
    /\ \A j \in Jobs : status[j] = "none" => notified[j] = "none"
    /\ proc = "alive" => wpc \in {"spawned", "look", "read"}

-----------------------------------------------------------------------------
(* Sequences without repetition.                                           *)

LEMMA AppendDistinct ==
  ASSUME NEW S, NEW q \in Seq(S), NEW e \in S, e \notin Range(q),
         \A m, n \in 1..Len(q) : q[m] = q[n] => m = n
  PROVE  /\ Append(q, e) \in Seq(S) /\ Range(Append(q, e)) = Range(q) \cup {e}
         /\ \A m, n \in 1..Len(Append(q, e)) : Append(q, e)[m] = Append(q, e)[n] => m = n
<1> DEFINE p == Append(q, e)
<1>1. /\ p \in Seq(S) /\ Len(q) \in Nat /\ Len(p) = Len(q) + 1
      /\ \A n \in 1..Len(q) : p[n] = q[n]
      /\ p[Len(q) + 1] = e
  BY AppendProperties, LenProperties
<1> HIDE DEF p
<1>2. Range(p) = {p[n] : n \in 1..Len(p)} /\ Range(q) = {q[n] : n \in 1..Len(q)}
  BY <1>1, RangeEquality
<1>3. Range(p) = Range(q) \cup {e}
  <2>1. 1..Len(p) = 1..Len(q) \cup {Len(q) + 1}
    BY <1>1
  <2>2. QED BY <1>1, <1>2, <2>1
<1>4. \A m, n \in 1..Len(p) : p[m] = p[n] => m = n
  BY <1>1, <1>2
<1>5. QED BY <1>1, <1>3, <1>4 DEF p

LEMMA TailDistinct ==
  ASSUME NEW S, NEW q \in Seq(S), q # <<>>,
         \A m, n \in 1..Len(q) : q[m] = q[n] => m = n
  PROVE  /\ Head(q) \in Range(q) /\ Head(q) \in S
         /\ Tail(q) \in Seq(S) /\ Range(Tail(q)) = Range(q) \ {Head(q)}
         /\ \A m, n \in 1..Len(Tail(q)) : Tail(q)[m] = Tail(q)[n] => m = n
<1> DEFINE p == Tail(q)
<1>1. /\ p \in Seq(S) /\ Len(q) \in Nat /\ Len(q) >= 1 /\ Len(p) = Len(q) - 1 /\ Head(q) = q[1] /\ Head(q) \in S
      /\ \A n \in 1..Len(p) : p[n] = q[n + 1]
  BY HeadTailProperties, LenProperties, EmptySeq
<1> HIDE DEF p
<1>2. Range(p) = {p[n] : n \in 1..Len(p)} /\ Range(q) = {q[n] : n \in 1..Len(q)}
  BY <1>1, RangeEquality
<1>3. Range(p) = Range(q) \ {Head(q)}
  <2>1. Range(p) \subseteq Range(q) \ {Head(q)}
    BY <1>1, <1>2
  <2>2. ASSUME NEW n \in 1..Len(q), q[n] # q[1] PROVE q[n] \in Range(p)
    <3>1. n - 1 \in 1..Len(p) /\ p[n - 1] = q[n]
      BY <1>1, <2>2
    <3>2. QED BY <1>2, <3>1
  <2>3. ASSUME NEW x \in Range(q) \ {Head(q)} PROVE x \in Range(p)
    <3>1. PICK n \in 1..Len(q) : x = q[n]
      BY <1>2
    <3>2. QED BY <1>1, <2>2, <3>1
  <2>4. QED BY <2>1, <2>3
<1>4. \A m, n \in 1..Len(p) : p[m] = p[n] => m = n
  <2> SUFFICES ASSUME NEW m \in 1..Len(p), NEW n \in 1..Len(p), p[m] = p[n] PROVE m = n
    OBVIOUS
  <2>1. m + 1 \in 1..Len(q) /\ n + 1 \in 1..Len(q) /\ q[m + 1] = q[n + 1]
    BY <1>1
  <2>2. QED BY <2>1
<1>5. Head(q) \in Range(q)
  BY <1>1, <1>2
<1>6. QED BY <1>1, <1>3, <1>4, <1>5 DEF p

LEMMA RemoveDistinct ==
  ASSUME NEW S, NEW q \in Seq(S), NEW i \in 1..Len(q),
         \A m, n \in 1..Len(q) : q[m] = q[n] => m = n
  PROVE  /\ RemoveAt(q, i) \in Seq(S) /\ Range(RemoveAt(q, i)) = Range(q) \ {q[i]}
         /\ \A m, n \in 1..Len(RemoveAt(q, i)) : RemoveAt(q, i)[m] = RemoveAt(q, i)[n] => m = n
<1> DEFINE a == SubSeq(q, 1, i - 1)
           b == SubSeq(q, i + 1, Len(q))
           p == RemoveAt(q, i)
<1>1. Len(q) \in Nat /\ \A n \in 1..Len(q) : q[n] \in S
  BY LenProperties, ElementOfSeq
<1>2. /\ a \in Seq(S) /\ Len(a) = i - 1 /\ \A n \in 1..(i - 1) : a[n] = q[n]
  <2>1. \A n \in 1..(i - 1) : q[n] \in S
    BY <1>1
  <2>2. 1 \in Int /\ i - 1 \in Int
    BY <1>1
  <2> HIDE DEF p
  <2>3. /\ SubSeq(q, 1, i - 1) \in Seq(S)
        /\ Len(SubSeq(q, 1, i - 1)) = IF 1 <= i - 1 THEN (i - 1) - 1 + 1 ELSE 0
        /\ \A n \in 1..((i - 1) - 1 + 1) : SubSeq(q, 1, i - 1)[n] = q[1 + n - 1]
    BY <2>1, <2>2, SubSeqProperties
  <2>4. QED BY <1>1, <2>3
<1>3. /\ b \in Seq(S) /\ Len(b) = Len(q) - i /\ \A n \in 1..(Len(q) - i) : b[n] = q[i + n]
  <2>1. \A n \in (i + 1)..Len(q) : q[n] \in S
    BY <1>1
  <2>2. i + 1 \in Int /\ Len(q) \in Int
    BY <1>1
  <2>3. /\ SubSeq(q, i + 1, Len(q)) \in Seq(S)
        /\ Len(SubSeq(q, i + 1, Len(q))) = IF i + 1 <= Len(q) THEN Len(q) - (i + 1) + 1 ELSE 0
        /\ \A n \in 1..(Len(q) - (i + 1) + 1) : SubSeq(q, i + 1, Len(q))[n] = q[(i + 1) + n - 1]
    BY <2>1, <2>2, SubSeqProperties
  <2>4. QED BY <1>1, <2>3
<1>4. p = a \o b
  BY DEF RemoveAt
<1> HIDE DEF a, b, p
<1>5. /\ p \in Seq(S) /\ Len(p) = Len(q) - 1
      /\ \A n \in 1..Len(p) : p[n] = IF n < i THEN q[n] ELSE q[n + 1]
  <2>0. a \in Seq(S) /\ b \in Seq(S)
    BY <1>2, <1>3
  <2>1. /\ a \o b \in Seq(S) /\ Len(a \o b) = Len(a) + Len(b)
        /\ \A n \in 1..(Len(a) + Len(b)) : (a \o b)[n] = IF n <= Len(a) THEN a[n] ELSE b[n - Len(a)]
    BY ONLY <2>0, ConcatProperties
  <2>2. p \in Seq(S) /\ Len(p) = Len(q) - 1
    BY <1>1, <1>2, <1>3, <1>4, <2>1
  <2>3. ASSUME NEW n \in 1..Len(p) PROVE p[n] = IF n < i THEN q[n] ELSE q[n + 1]
    <3>1. p[n] = IF n <= i - 1 THEN a[n] ELSE b[n - (i - 1)]
      BY <1>1, <1>2, <1>3, <1>4, <2>1, <2>2
    <3>2. CASE n < i
      BY <1>1, <1>2, <3>1, <3>2
    <3>3. CASE n >= i
      <4>1. n - (i - 1) \in 1..(Len(q) - i)
        BY <1>1, <2>2, <3>3
      <4>2. b[n - (i - 1)] = q[i + (n - (i - 1))] /\ i + (n - (i - 1)) = n + 1
        BY <1>1, <1>3, <4>1
      <4>3. QED BY <1>1, <2>2, <3>1, <3>3, <4>2
    <3>4. QED BY <1>1, <2>2, <3>2, <3>3
  <2>4. QED BY <2>2, <2>3
<1>6. Range(p) = {p[n] : n \in 1..Len(p)} /\ Range(q) = {q[n] : n \in 1..Len(q)}
  BY <1>5, RangeEquality
<1>7. Range(p) = Range(q) \ {q[i]}
  <2>1. ASSUME NEW n \in 1..Len(p) PROVE p[n] \in Range(q) \ {q[i]}
    <3>1. CASE n < i
      BY <1>1, <1>5, <1>6, <3>1
    <3>2. CASE n >= i
      <4>1. n + 1 \in 1..Len(q) /\ n + 1 # i /\ p[n] = q[n + 1]
        BY <1>1, <1>5, <3>2
      <4>2. QED BY <1>1, <1>6, <4>1
    <3>3. QED BY <1>1, <3>1, <3>2
  <2>2. ASSUME NEW n \in 1..Len(q), n # i PROVE q[n] \in Range(p)
    <3>1. CASE n < i
      BY <1>1, <1>5, <1>6, <3>1
    <3>2. CASE n > i
      <4>1. n - 1 \in 1..Len(p) /\ p[n - 1] = q[n]
        BY <1>1, <1>5, <3>2
      <4>2. QED BY <1>6, <4>1
    <3>3. QED BY <1>1, <2>2, <3>1, <3>2
  <2>3. ASSUME NEW x \in Range(q) \ {q[i]} PROVE x \in Range(p)
    <3>1. PICK n \in 1..Len(q) : x = q[n]
      BY <1>6
    <3>2. QED BY <2>2, <3>1
  <2>4. ASSUME NEW x \in Range(p) PROVE x \in Range(q) \ {q[i]}
    <3>1. PICK n \in 1..Len(p) : x = p[n]
      BY <1>6
    <3>2. QED BY <2>1, <3>1
  <2>5. QED BY ONLY <2>3, <2>4
<1>8. \A m, n \in 1..Len(p) : p[m] = p[n] => m = n
  BY <1>1, <1>5
<1>9. QED BY <1>5, <1>7, <1>8 DEF p

-----------------------------------------------------------------------------
(* One place for a job: the steps.                                         *)

\* Steps of the worker on the job it has.
LEMMA WorkKeepsQueue ==
  ASSUME QueueInv, UNCHANGED <<serverVars, queueVars, wjob, policy, notified>>,
         wpc \notin {"idle", "notify"}, wpc' \in AtWork \cup {"left", "clear", "complete"},
         wpc' = "record" => verdict' \in Final,
         status' \in [Jobs -> Status], \A j \in Jobs : status[j] # "none" => status'[j] # "none"
  PROVE  QueueInv'
<1> USE DEF serverVars, queueVars
<1>1. TypeOK'
  BY DEF QueueInv, TypeOK
<1>2. PlaceInv'
  <2>1. Queued \subseteq Jobs
    BY RangeOfSeq DEF QueueInv, TypeOK, Queued
  <2>2. QED BY <2>1 DEF QueueInv, TypeOK, PlaceInv, Coming, Queued, Same, AtWork
<1>3. TrackedIsQueuedOrRunning'
  BY DEF QueueInv, TrackedIsQueuedOrRunning
<1>4. QED BY <1>1, <1>2, <1>3 DEF QueueInv

LEMMA WorkSteps ==
  ASSUME QueueInv,
         \/ Leave \/ Take \/ BeginCancelled \/ Begin \/ MarkRunning \/ PrepareFails \/ Spawn \/ KeepProcess
         \/ LookStopped \/ LookTimedOut \/ Look \/ ReadLine \/ ReadEnd \/ Decide \/ Record \/ ClearCurrent
  PROVE  QueueInv'
<1> USE DEF ToWorker, AtWork, Final, Status, otherVars
<1>1. status \in [Jobs -> Status] /\ (wpc # "idle" => wjob \in Jobs) /\ (wpc = "record" => verdict \in Final)
  BY DEF QueueInv, TypeOK
<1>2. CASE Leave \/ Take \/ BeginCancelled \/ Begin
  BY <1>1, <1>2, WorkKeepsQueue DEF Leave, Take, BeginCancelled, Begin
<1>3. CASE MarkRunning \/ Record
  BY <1>1, <1>3, WorkKeepsQueue DEF MarkRunning, Record, Mark
<1>4. CASE PrepareFails \/ Spawn \/ KeepProcess
  BY <1>1, <1>4, WorkKeepsQueue DEF PrepareFails, Spawn, KeepProcess
<1>5. CASE LookStopped \/ LookTimedOut \/ Look \/ ReadLine \/ ReadEnd
  BY <1>1, <1>5, WorkKeepsQueue DEF LookStopped, LookTimedOut, Look, ReadLine, ReadEnd
<1>6. CASE Decide \/ ClearCurrent
  BY <1>1, <1>6, WorkKeepsQueue DEF Decide, ClearCurrent
<1>7. QED BY <1>2, <1>3, <1>4, <1>5, <1>6

LEMMA DequeueStep ==
  ASSUME QueueInv, Dequeue PROVE QueueInv'
<1> USE DEF Dequeue, ToWorker, serverVars, otherVars
<1>1. /\ Head(queue) \in Queued /\ Head(queue) \in Jobs /\ queue' \in Seq(Jobs)
      /\ Queued' = Queued \ {Head(queue)}
      /\ \A m, n \in 1..Len(queue') : queue'[m] = queue'[n] => m = n
  <2>1. /\ queue \in Seq(Jobs) /\ queue # <<>> /\ queue' = Tail(queue)
        /\ \A m, n \in 1..Len(queue) : queue[m] = queue[n] => m = n
    BY DEF QueueInv, TypeOK, PlaceInv
  <2>2. /\ Head(queue) \in Range(queue) /\ Head(queue) \in Jobs
        /\ Tail(queue) \in Seq(Jobs) /\ Range(Tail(queue)) = Range(queue) \ {Head(queue)}
        /\ \A m, n \in 1..Len(Tail(queue)) : Tail(queue)[m] = Tail(queue)[n] => m = n
    BY ONLY <2>1, TailDistinct
  <2>3. QED BY ONLY <2>1, <2>2 DEF Queued
<1>2. TypeOK'
  BY <1>1 DEF QueueInv, TypeOK, AtWork
<1>3. ~ Coming' \/ hpc = "enqueue"
  BY DEF Coming, Locked
<1>4. PlaceInv'
  BY <1>1, <1>3 DEF QueueInv, PlaceInv, Coming, Locked
<1>5. TrackedIsQueuedOrRunning'
  BY <1>1, TesterAssumption DEF QueueInv, PlaceInv, TrackedIsQueuedOrRunning, Queued
<1>6. QED BY <1>2, <1>4, <1>5 DEF QueueInv

LEMMA CompleteStep ==
  ASSUME QueueInv, Complete \/ Notify PROVE QueueInv'
<1> USE DEF Complete, Notify, ToWorker, serverVars, queueVars, otherVars
<1>1. Queued \subseteq Jobs
  BY RangeOfSeq DEF QueueInv, TypeOK, Queued
<1>2. TypeOK'
  BY DEF QueueInv, TypeOK, AtWork
<1>3. PlaceInv'
  BY <1>1, TesterAssumption DEF QueueInv, PlaceInv, TypeOK, Coming, Locked, Queued, Same
<1>4. TrackedIsQueuedOrRunning'
  BY <1>1, TesterAssumption DEF QueueInv, PlaceInv, TrackedIsQueuedOrRunning, Queued
<1>5. QED BY <1>2, <1>3, <1>4 DEF QueueInv

\* A job leaves the queue and the branch map.
LEMMA RemoveEffect ==
  ASSUME QueueInv, NEW j, RemoveFromQueue(j)
  PROVE  /\ queue' \in Seq(Jobs) /\ Queued' = Queued \ {j} /\ j \in Queued
         /\ \A m, n \in 1..Len(queue') : queue'[m] = queue'[n] => m = n
<1>1. PICK n \in 1..Len(queue) : queue[n] = j /\ queue' = RemoveAt(queue, n)
  BY DEF RemoveFromQueue
<1>2. j \in Queued
  BY <1>1, RangeEquality DEF QueueInv, TypeOK, Queued
<1>3. QED BY <1>1, <1>2, RemoveDistinct DEF QueueInv, TypeOK, PlaceInv, Queued

LEMMA ReplaceSteps ==
  ASSUME QueueInv, ReplaceQueued \/ ReplaceRunning \/ KillReplaced PROVE QueueInv'
<1> USE TesterAssumption DEF workerVars, otherVars, queueVars
<1>1. Queued \subseteq Jobs
  BY RangeOfSeq DEF QueueInv, TypeOK, Queued
<1>2. CASE ReplaceQueued
  <2>1. PICK j \in Same(hjob) \ {running} :
          /\ IF j \in Queued THEN RemoveFromQueue(j) ELSE UNCHANGED queue
          /\ tracked' = tracked \ {j}
    BY <1>2 DEF ReplaceQueued, Queued
  <2>2. j \in Queued
    BY <2>1, <1>1 DEF Same, QueueInv, TrackedIsQueuedOrRunning, Queued
  <2>3. /\ queue' \in Seq(Jobs) /\ Queued' = Queued \ {j}
        /\ \A m, n \in 1..Len(queue') : queue'[m] = queue'[n] => m = n
    BY <2>1, <2>2, RemoveEffect
  <2>4. TypeOK'
    BY <1>2, <2>1, <2>3 DEF ReplaceQueued, Replacing, QueueInv, TypeOK
  <2>5. PlaceInv'
    BY <1>2, <2>3 DEF ReplaceQueued, Replacing, QueueInv, PlaceInv, Coming
  <2>6. TrackedIsQueuedOrRunning'
    BY <1>2, <2>1, <2>3 DEF ReplaceQueued, QueueInv, TrackedIsQueuedOrRunning, Queued
  <2>7. QED BY <2>4, <2>5, <2>6 DEF QueueInv
<1>3. CASE ReplaceRunning
  <2>1. TypeOK'
    BY <1>3 DEF ReplaceRunning, Replacing, QueueInv, TypeOK
  <2>2. PlaceInv'
    BY <1>3 DEF ReplaceRunning, Replacing, QueueInv, PlaceInv, Coming, Same, Queued
  <2>3. TrackedIsQueuedOrRunning'
    BY <1>3 DEF ReplaceRunning, QueueInv, TrackedIsQueuedOrRunning
  <2>4. QED BY <2>1, <2>2, <2>3 DEF QueueInv
<1>4. CASE KillReplaced
  <2>1. TypeOK'
    BY <1>4 DEF KillReplaced, QueueInv, TypeOK
  <2>2. PlaceInv'
    BY <1>4 DEF KillReplaced, QueueInv, PlaceInv, Coming, Queued
  <2>3. running \notin Queued
    BY <1>1 DEF QueueInv, PlaceInv
  <2>4. TrackedIsQueuedOrRunning'
    BY <1>4, <2>3 DEF KillReplaced, QueueInv, TrackedIsQueuedOrRunning, Queued
  <2>5. QED BY <2>1, <2>2, <2>4 DEF QueueInv
<1>5. QED BY <1>2, <1>3, <1>4

LEMMA EnqueueStep ==
  ASSUME QueueInv, Enqueue PROVE QueueInv'
<1> USE DEF Enqueue, Answer, workerVars, otherVars
<1>1. Coming /\ hjob \in Jobs
  BY DEF Coming, QueueInv, TypeOK
<1>2. /\ queue' \in Seq(Jobs) /\ Queued' = Queued \cup {hjob}
      /\ \A m, n \in 1..Len(queue') : queue'[m] = queue'[n] => m = n
  BY <1>1, AppendDistinct DEF QueueInv, TypeOK, PlaceInv, Queued
<1>3. TypeOK'
  BY <1>1, <1>2 DEF QueueInv, TypeOK
<1>4. PlaceInv'
  BY <1>1, <1>2 DEF QueueInv, PlaceInv, Coming
<1>5. TrackedIsQueuedOrRunning'
  BY <1>2 DEF QueueInv, TrackedIsQueuedOrRunning, Queued
<1>6. QED BY <1>3, <1>4, <1>5 DEF QueueInv

\* The other steps of the server's handlers.
LEMMA HandlerSteps ==
  ASSUME QueueInv,
         \/ \E j \in Jobs : Create(j) \/ StartCancel(j)
         \/ Refuse \/ CancelQueued \/ CancelRunning \/ KillCancelled \/ CancelTooLate \/ MarkCancelled
  PROVE  QueueInv'
<1> USE DEF Answer, workerVars, otherVars, queueVars
<1>1. Queued \subseteq Jobs
  BY RangeOfSeq DEF QueueInv, TypeOK, Queued
<1>2. ASSUME NEW j \in Jobs, Create(j) PROVE QueueInv'
  <2>1. TypeOK'
    BY <1>2 DEF Create, Mark, QueueInv, TypeOK, Status
  <2>2. j \notin Queued \cup {wjob}
    BY <1>2, TesterAssumption DEF Create, QueueInv, PlaceInv
  <2>3. PlaceInv'
    BY <1>1, <1>2, <2>2 DEF Create, Mark, QueueInv, TypeOK, PlaceInv, Coming, Queued, Same
  <2>4. TrackedIsQueuedOrRunning'
    BY <1>2 DEF Create, QueueInv, TrackedIsQueuedOrRunning
  <2>5. QED BY <2>1, <2>3, <2>4 DEF QueueInv
<1>3. ASSUME NEW j \in Jobs, StartCancel(j) PROVE QueueInv'
  BY <1>3 DEF StartCancel, QueueInv, TypeOK, PlaceInv, Coming, Queued, Same, TrackedIsQueuedOrRunning
<1>4. CASE Refuse \/ CancelRunning \/ KillCancelled \/ CancelTooLate
  BY <1>4 DEF Refuse, CancelRunning, KillCancelled, CancelTooLate, QueueInv, TypeOK, PlaceInv, Coming,
              Queued, Same, TrackedIsQueuedOrRunning
<1>5. CASE MarkCancelled
  <2>1. TypeOK'
    BY <1>5 DEF MarkCancelled, Mark, QueueInv, TypeOK, Status, Final
  <2>2. PlaceInv'
    BY <1>1, <1>5 DEF MarkCancelled, Mark, QueueInv, TypeOK, PlaceInv, Coming, Queued
  <2>3. TrackedIsQueuedOrRunning'
    BY <1>5 DEF MarkCancelled, QueueInv, TrackedIsQueuedOrRunning
  <2>4. QED BY <2>1, <2>2, <2>3 DEF QueueInv
<1>6. CASE CancelQueued
  <2>1. /\ queue' \in Seq(Jobs) /\ Queued' = Queued \ {hjob} /\ hjob \in Queued
        /\ \A m, n \in 1..Len(queue') : queue'[m] = queue'[n] => m = n
    BY <1>6, RemoveEffect DEF CancelQueued
  <2>2. running # hjob
    BY <1>1, <2>1, TesterAssumption DEF QueueInv, PlaceInv
  <2>3. TypeOK'
    BY <1>6, <2>1 DEF CancelQueued, QueueInv, TypeOK
  <2>4. PlaceInv'
    BY <1>6, <2>1 DEF CancelQueued, QueueInv, PlaceInv, Coming
  <2>5. TrackedIsQueuedOrRunning'
    BY <1>6, <2>1, <2>2 DEF CancelQueued, QueueInv, TrackedIsQueuedOrRunning, Queued
  <2>6. QED BY <2>3, <2>4, <2>5 DEF QueueInv
<1>7. QED BY <1>2, <1>3, <1>4, <1>5, <1>6

Empty ==
    /\ queue \in Seq(Jobs) /\ tracked = {} /\ {running, wjob, hjob} = {NoJob}
    /\ wpc = "idle" /\ hpc = "idle"
    /\ PlaceInv /\ TrackedIsQueuedOrRunning

LEMMA FreshQueue == Fresh => Empty
  BY RangeEquality, EmptySeq DEF Fresh, Empty, PlaceInv, TrackedIsQueuedOrRunning, Coming, Queued, Range

LEMMA InitQueue == Init => QueueInv
<1> SUFFICES ASSUME Init PROVE QueueInv
  OBVIOUS
<1>1. TypeOK
  BY FreshQueue DEF Init, Empty, TypeOK, Status
<1>2. QED BY <1>1, FreshQueue DEF Init, Empty, QueueInv

LEMMA NextQueue == QueueInv /\ [Next]_vars => QueueInv'
<1> SUFFICES ASSUME QueueInv, [Next]_vars PROVE QueueInv'
  OBVIOUS
<1>1. CASE Handle \/ \E j \in Jobs : Create(j) \/ StartCancel(j)
  BY <1>1, EnqueueStep, ReplaceSteps, HandlerSteps DEF Handle
<1>2. CASE Work
  BY <1>2, WorkSteps, DequeueStep, CompleteStep DEF Work
<1>3. CASE TestEnds \/ Stop \/ UNCHANGED vars
  BY <1>3 DEF TestEnds, Stop, vars, serverVars, queueVars, workerVars, otherVars, QueueInv, TypeOK, PlaceInv,
              TrackedIsQueuedOrRunning, Coming, Queued, Same
<1>4. CASE Restart
  <2>1. Fresh'
    BY <1>4 DEF Restart, Fresh
  <2>2. Empty'
    BY <2>1, FreshQueue, PTL
  <2>3. TypeOK'
    BY <1>4, <2>2 DEF Restart, Empty, QueueInv, TypeOK
  <2>4. QED BY <2>2, <2>3 DEF Empty, QueueInv
<1>5. QED BY <1>1, <1>2, <1>3, <1>4 DEF Next

LEMMA QueueInductive == Spec => []QueueInv
  BY InitQueue, NextQueue, PTL DEF Spec

-----------------------------------------------------------------------------
(* One job of a branch.                                                    *)

LEMMA InitBranch == Init => BranchInv
  BY DEF Init, Fresh, BranchInv

LEMMA NextBranch == QueueInv /\ BranchInv /\ [Next]_vars => BranchInv'
<1> SUFFICES ASSUME QueueInv, BranchInv, [Next]_vars PROVE BranchInv'
  OBVIOUS
<1> USE DEF BranchInv
<1>1. CASE UNCHANGED <<policy, tracked, running, wjob, wpc>>
  BY <1>1
<1>2. CASE (\E j \in Jobs : Create(j) \/ StartCancel(j)) \/ TestEnds \/ Stop \/ UNCHANGED vars
  BY <1>1, <1>2 DEF Create, StartCancel, TestEnds, Stop, vars, queueVars, workerVars, otherVars
<1>3. CASE Handle
  <2>1. CASE Enqueue
    <3>1. hjob \in Jobs
      BY <2>1 DEF Enqueue, QueueInv, TypeOK
    <3>2. policy # "queue" => \A j \in tracked : Branch[j] # Branch[hjob]
      BY <2>1 DEF Enqueue, Same
    <3>3. UNCHANGED <<policy, running, wjob, wpc>> /\ tracked' = tracked \cup {hjob}
      BY <2>1 DEF Enqueue, workerVars, otherVars
    <3>4. QED BY <3>2, <3>3
  <2>2. CASE ReplaceQueued \/ KillReplaced
    BY <2>2 DEF ReplaceQueued, Replacing, KillReplaced, QueueInv, PlaceInv, workerVars, otherVars
  <2>3. CASE CancelQueued
    BY <2>3 DEF CancelQueued, workerVars, otherVars
  <2>4. CASE Refuse \/ ReplaceRunning \/ CancelRunning \/ KillCancelled \/ CancelTooLate \/ MarkCancelled
    BY <1>1, <2>4 DEF Refuse, ReplaceRunning, CancelRunning, KillCancelled, CancelTooLate, MarkCancelled,
                      queueVars, workerVars, otherVars
  <2>5. QED BY <1>3, <2>1, <2>2, <2>3, <2>4 DEF Handle
<1>4. CASE Work
  <2>1. CASE Dequeue \/ Complete \/ Notify
    BY <2>1 DEF Dequeue, Complete, Notify, ToWorker, queueVars, otherVars
  <2>2. CASE Leave \/ Take \/ BeginCancelled \/ Begin \/ MarkRunning \/ PrepareFails \/ Spawn \/ KeepProcess
    BY <2>2 DEF Leave, Take, BeginCancelled, Begin, MarkRunning, PrepareFails, Spawn, KeepProcess, ToWorker,
                queueVars, otherVars
  <2>3. CASE LookStopped \/ LookTimedOut \/ Look \/ ReadLine \/ ReadEnd \/ Decide \/ Record \/ ClearCurrent
    BY <2>3 DEF LookStopped, LookTimedOut, Look, ReadLine, ReadEnd, Decide, Record, ClearCurrent, ToWorker,
                queueVars, otherVars
  <2>4. QED BY <1>4, <2>1, <2>2, <2>3 DEF Work
<1>5. CASE Restart
  BY <1>5 DEF Restart
<1>6. QED BY <1>2, <1>3, <1>4, <1>5 DEF Next

\* For any jobs and branches, whatever is created, cancelled or replaced while
\* the worker goes on: the branch map holds the waiting jobs and the running one,
\* no more and no fewer (queue.py:27-37).
THEOREM MapIsExact == Spec => []TrackedIsQueuedOrRunning
<1>1. QueueInv => TrackedIsQueuedOrRunning
  BY DEF QueueInv
<1>2. QED BY <1>1, QueueInductive, PTL

\* Under "reject" and "replace" two jobs of a branch are only ever in the service
\* together when the older one has been told to stop and is with the worker.
THEOREM BranchesExclude == Spec => []BranchExclusive
<1>1. QueueInv /\ BranchInv => BranchExclusive
  <2> SUFFICES ASSUME QueueInv, BranchInv, policy # "queue", wpc \notin {"complete", "notify"},
                      NEW j \in Queued \cup ({wjob} \ {NoJob}), NEW k \in Queued \cup ({wjob} \ {NoJob}),
                      j # k, Branch[j] = Branch[k]
               PROVE  policy = "replace" /\ wjob \in {j, k} /\ running # wjob
    BY DEF BranchExclusive, Queued
  <2>1. tracked = Queued \cup ({running} \ {NoJob})
    BY DEF QueueInv, TrackedIsQueuedOrRunning, Queued
  <2>2. j \notin tracked \/ k \notin tracked
    BY DEF BranchInv
  <2>3. wjob \in {j, k} /\ wjob # NoJob /\ running # wjob
    BY <2>1, <2>2
  <2>4. policy = "replace"
    BY <2>3 DEF BranchInv, QueueInv, PlaceInv, TypeOK, Policies
  <2>5. QED BY <2>3, <2>4
<1>2. Spec => []BranchInv
  BY QueueInductive, InitBranch, NextBranch, PTL DEF Spec
<1>3. QED BY <1>1, <1>2, QueueInductive, PTL

-----------------------------------------------------------------------------
(* What a job ends as.                                                     *)

LEMMA InitEnd == Init => EndInv
  BY RangeEquality, EmptySeq DEF Init, Fresh, EndInv, Queued, Coming, AtWork, Range

\* The server's steps change the row of a new job, or write that one is cancelled.
LEMMA HandleKeepsEnd ==
  ASSUME QueueInv, EndInv, Handle \/ \E j \in Jobs : Create(j) \/ StartCancel(j) PROVE EndInv'
<1> USE DEF Answer, workerVars, otherVars, queueVars, procVars
<1>1. Queued \subseteq Jobs /\ status \in [Jobs -> Status] /\ notified \in [Jobs -> Status]
      /\ (hpc # "idle" => hjob \in Jobs) /\ (wpc # "idle" => wjob \in Jobs)
  BY RangeOfSeq DEF QueueInv, TypeOK, Queued
<1>2. ASSUME NEW j \in Jobs, Create(j) PROVE EndInv'
  <2>1. j \notin Queued \cup {wjob}
    BY <1>2, TesterAssumption DEF Create, QueueInv, PlaceInv
  <2>2. Queued' = Queued
    BY <1>2 DEF Create, Queued
  <2>3. status' = [status EXCEPT ![j] = "pending"] /\ notified[j] = "none"
    BY <1>2 DEF Create, Mark, EndInv
  <2>4. QED BY <1>1, <1>2, <2>1, <2>2, <2>3 DEF Create, EndInv, Coming, Unended, AtWork
<1>3. ASSUME NEW j \in Jobs, StartCancel(j) PROVE EndInv'
  BY <1>3 DEF StartCancel, EndInv, Coming, Queued
<1>4. CASE Enqueue
  <2>1. Coming /\ hjob \in Jobs /\ hjob \notin Queued
    BY <1>4 DEF Enqueue, Coming, QueueInv, TypeOK, PlaceInv
  <2>2. Queued' = Queued \cup {hjob}
    BY <1>4, <2>1, AppendDistinct DEF Enqueue, QueueInv, TypeOK, PlaceInv, Queued
  <2>3. QED BY <1>4, <2>1, <2>2 DEF Enqueue, EndInv, Coming, Unended
<1>5. CASE ReplaceQueued
  <2>1. PICK j : IF j \in Queued THEN RemoveFromQueue(j) ELSE UNCHANGED queue
    BY <1>5 DEF ReplaceQueued, Queued
  <2>2. Queued' \subseteq Queued
    BY <2>1, RemoveEffect DEF Queued
  <2>3. QED BY <1>5, <2>2 DEF ReplaceQueued, Replacing, EndInv, Coming
<1>6. CASE ReplaceRunning \/ Refuse \/ CancelRunning \/ CancelTooLate
  BY <1>6 DEF ReplaceRunning, Replacing, Refuse, CancelRunning, CancelTooLate, EndInv, Coming, Queued
<1>7. CASE KillReplaced \/ KillCancelled
  <2>1. proc' = "alive" => proc = "alive"
    BY <1>7 DEF KillReplaced, KillCancelled, KillProcess
  <2>2. QED BY <1>7, <2>1 DEF KillReplaced, KillCancelled, EndInv, Coming, Queued
<1>8. CASE CancelQueued
  <2>1. Queued' \subseteq Queued
    BY <1>8, RemoveEffect DEF CancelQueued
  <2>2. QED BY <1>8, <2>1 DEF CancelQueued, EndInv, Coming
<1>9. CASE MarkCancelled
  <2>1. status' = [status EXCEPT ![hjob] = "cancelled"] /\ hjob \in Jobs /\ Queued' = Queued
    BY <1>1, <1>9 DEF MarkCancelled, Mark, Queued
  <2>2. \A j \in Jobs : status[j] \in Unended => status'[j] \in Unended
    BY <1>1, <2>1 DEF Unended
  <2>3. \A j \in Jobs : status[j] \in Final => status'[j] \in Final
    BY <1>1, <2>1 DEF Final
  <2>4. \A j \in Jobs : status'[j] = "none" => status[j] = "none"
    BY <1>1, <2>1
  <2>5. ~ Coming' /\ UNCHANGED <<notified, wpc, wjob, proc>>
    BY <1>9 DEF MarkCancelled, Coming
  <2>6. wpc \in AtWork \cup {"clear", "complete", "notify"} => wjob \in Jobs
    BY <1>1 DEF AtWork
  <2>7. QED BY <1>1, <2>1, <2>2, <2>3, <2>4, <2>5, <2>6 DEF EndInv
<1>10. QED BY <1>2, <1>3, <1>4, <1>5, <1>6, <1>7, <1>8, <1>9 DEF Handle

LEMMA WorkKeepsEnd ==
  ASSUME QueueInv, EndInv, Work PROVE EndInv'
<1> USE DEF ToWorker, serverVars, otherVars, queueVars, procVars
<1>1. Queued \subseteq Jobs /\ status \in [Jobs -> Status] /\ notified \in [Jobs -> Status]
      /\ (wpc # "idle" => wjob \in Jobs /\ wjob \notin Queued)
      /\ (wpc # "idle" /\ Coming => hjob # wjob)
  BY RangeOfSeq DEF QueueInv, TypeOK, Queued, PlaceInv
<1>2. CASE Dequeue
  <2>1. /\ queue \in Seq(Jobs) /\ queue # <<>> /\ queue' = Tail(queue)
        /\ \A m, n \in 1..Len(queue) : queue[m] = queue[n] => m = n
    BY <1>2 DEF Dequeue, QueueInv, TypeOK, PlaceInv
  <2>2. Head(queue) \in Range(queue) /\ Range(Tail(queue)) = Range(queue) \ {Head(queue)}
    BY ONLY <2>1, TailDistinct
  <2>3. Head(queue) \in Queued /\ Queued' \subseteq Queued
    BY <2>1, <2>2 DEF Queued
  <2>4. QED BY <1>2, <2>3 DEF Dequeue, EndInv, Coming, AtWork
<1>3. CASE Leave \/ Take \/ BeginCancelled \/ Begin \/ PrepareFails \/ Spawn \/ KeepProcess
  BY <1>3 DEF Leave, Take, BeginCancelled, Begin, PrepareFails, Spawn, KeepProcess, EndInv, Coming, AtWork, Queued
<1>4. CASE LookStopped \/ LookTimedOut \/ Look \/ ReadLine \/ ReadEnd
  BY <1>4 DEF LookStopped, LookTimedOut, Look, ReadLine, ReadEnd, EndInv, Coming, AtWork, Queued
<1>5. CASE Decide \/ ClearCurrent \/ Complete
  BY <1>5 DEF Decide, ClearCurrent, Complete, EndInv, Coming, AtWork, Queued
<1>6. CASE MarkRunning \/ Record
  <2>1. PICK s : /\ status' = [status EXCEPT ![wjob] = s]
                 /\ \/ wpc = "start" /\ s = "running"
                    \/ wpc = "record" /\ s = verdict
    BY <1>6 DEF MarkRunning, Record, Mark
  <2>2. wjob \in Jobs /\ wpc # "idle" /\ UNCHANGED <<notified, wjob, hpc, hjob, proc>> /\ Queued' = Queued
    BY <1>1, <1>6 DEF MarkRunning, Record, Queued
  <2>3. status'[wjob] = s /\ \A j \in Jobs \ {wjob} : status'[j] = status[j]
    BY <1>1, <2>1, <2>2
  <2>4. wpc' \in AtWork => status'[wjob] \in Unended
    BY <1>6, <1>1, <2>2 DEF MarkRunning, Record, Mark, AtWork, Unended
  <2>5. wpc' \notin AtWork => status'[wjob] \in Final
    BY <1>6, <1>1, <2>2 DEF MarkRunning, Record, Mark, AtWork, QueueInv, TypeOK
  <2>6. wpc \in {"start", "record"} /\ wpc' \in {"prepare", "clear"} /\ s # "none"
    BY <1>6, <2>1 DEF MarkRunning, Record, QueueInv, TypeOK, Final
  <2>7. Coming => hjob \in Jobs
    BY DEF Coming, QueueInv, TypeOK
  <2>8. QED
    BY <1>1, <2>2, <2>3, <2>4, <2>5, <2>6, <2>7 DEF EndInv, Coming, AtWork
<1>7. CASE Notify
  <2>1. /\ wpc = "notify" /\ wpc' = "idle" /\ notified' = [notified EXCEPT ![wjob] = status[wjob]]
        /\ UNCHANGED <<status, queue, hpc, hjob, proc>>
    BY <1>7 DEF Notify
  <2>2. \A j \in Jobs \ {wjob} : notified'[j] = notified[j]
    BY <1>1, <2>1
  <2>3. status[wjob] # "none"
    BY <2>1 DEF EndInv, Final
  <2>4. Coming => hjob \in Jobs
    BY DEF Coming, QueueInv, TypeOK
  <2>5. QED BY <1>1, <2>1, <2>2, <2>3, <2>4 DEF EndInv, Coming, AtWork, Queued
<1>8. QED BY <1>2, <1>3, <1>4, <1>5, <1>6, <1>7 DEF Work

LEMMA NextEnd == QueueInv /\ EndInv /\ [Next]_vars => EndInv'
<1> SUFFICES ASSUME QueueInv, EndInv, [Next]_vars PROVE EndInv'
  OBVIOUS
<1>1. CASE Handle \/ \E j \in Jobs : Create(j) \/ StartCancel(j)
  BY <1>1, HandleKeepsEnd
<1>2. CASE Work
  BY <1>2, WorkKeepsEnd
<1>3. CASE TestEnds \/ Stop \/ UNCHANGED vars
  BY <1>3 DEF TestEnds, Stop, vars, serverVars, queueVars, workerVars, procVars, EndInv, Coming, Queued
<1>4. CASE Restart
  <2>1. queue' = <<>> /\ wpc' = "idle" /\ hpc' = "idle" /\ proc' = "none" /\ UNCHANGED <<status, notified>>
    BY <1>4 DEF Restart
  <2>2. Queued' = {}
    BY <2>1 DEF Queued, Range
  <2>3. QED BY <2>1, <2>2 DEF EndInv, Coming, AtWork
<1>5. QED BY <1>1, <1>2, <1>3, <1>4 DEF Next

\* A step changes the end of a job only to or from "cancelled", and tells an end
\* once, from a row that has one, when no process of the job is left.
LEMMA StepEnd ==
  ASSUME QueueInv, EndInv, [Next]_vars, NEW j \in Jobs
  PROVE  /\ status[j] \in Final /\ status'[j] # status[j] => "cancelled" \in {status[j], status'[j]}
         /\ notified'[j] # notified[j] =>
              notified[j] = "none" /\ notified'[j] \in Final /\ proc # "alive"
<1>1. status \in [Jobs -> Status] /\ notified \in [Jobs -> Status] /\ "none" \notin Final
  BY DEF QueueInv, TypeOK, Final
<1>2. CASE UNCHANGED <<status, notified>>
  BY <1>2
<1>3. ASSUME NEW k \in Jobs, Create(k)
      PROVE  UNCHANGED notified /\ (status[j] # "none" => status'[j] = status[j])
  BY <1>1, <1>3 DEF Create, Mark
<1>4. CASE MarkCancelled
  <2>1. UNCHANGED notified /\ (status'[j] # status[j] => status'[j] = "cancelled")
    BY <1>1, <1>4 DEF MarkCancelled, Mark
  <2>2. QED BY <2>1
<1>5. CASE MarkRunning \/ Record
  <2>1. UNCHANGED notified /\ status[wjob] \in Unended
    BY <1>5 DEF MarkRunning, Record, EndInv, AtWork
  <2>2. status'[j] # status[j] => j = wjob
    BY <1>1, <1>5 DEF MarkRunning, Record, Mark
  <2>3. QED BY <2>1, <2>2 DEF Unended, Final
<1>6. CASE Notify
  <2>1. /\ UNCHANGED status /\ notified' = [notified EXCEPT ![wjob] = status[wjob]]
        /\ status[wjob] \in Final /\ notified[wjob] = "none" /\ proc # "alive"
    BY <1>6 DEF Notify, EndInv
  <2>2. QED BY <1>1, <2>1
<1>7. CASE Restart \/ TestEnds \/ Stop \/ UNCHANGED vars \/ \E k \in Jobs : StartCancel(k)
  BY <1>2, <1>7 DEF Restart, TestEnds, Stop, vars, StartCancel
<1>8. CASE Handle
  <2>1. CASE Enqueue \/ Refuse \/ ReplaceQueued \/ ReplaceRunning \/ KillReplaced
    BY <1>2, <2>1 DEF Enqueue, Refuse, ReplaceQueued, ReplaceRunning, KillReplaced
  <2>2. CASE CancelQueued \/ CancelRunning \/ KillCancelled \/ CancelTooLate
    BY <1>2, <2>2 DEF CancelQueued, CancelRunning, KillCancelled, CancelTooLate
  <2>3. QED BY <1>4, <1>8, <2>1, <2>2 DEF Handle
<1>9. CASE Work
  <2>1. CASE Dequeue \/ Leave \/ Take \/ BeginCancelled \/ Begin \/ PrepareFails \/ Spawn \/ KeepProcess
    BY <1>2, <2>1 DEF Dequeue, Leave, Take, BeginCancelled, Begin, PrepareFails, Spawn, KeepProcess
  <2>2. CASE LookStopped \/ LookTimedOut \/ Look \/ ReadLine \/ ReadEnd \/ Decide \/ ClearCurrent \/ Complete
    BY <1>2, <2>2 DEF LookStopped, LookTimedOut, Look, ReadLine, ReadEnd, Decide, ClearCurrent, Complete
  <2>3. QED BY <1>5, <1>6, <1>9, <2>1, <2>2 DEF Work
<1>10. QED BY <1>1, <1>3, <1>7, <1>8, <1>9 DEF Next

\* For any jobs, cancels and deaths of the service: an end that is written stays,
\* but for a cancel, and the callback hears one end of a job, once, after its
\* process is gone (worker.py:70-75).
THEOREM EndsAreKept == Spec => EndChangesOnlyByCancel
<1>1. QueueInv /\ EndInv /\ [Next]_vars =>
        [\A j \in Jobs :
           /\ status[j] \in Final /\ status'[j] # status[j] => "cancelled" \in {status[j], status'[j]}
           /\ notified'[j] # notified[j] =>
                notified[j] = "none" /\ notified'[j] \in Final /\ proc # "alive"]_vars
  BY StepEnd
<1>2. Spec => []EndInv
  BY QueueInductive, InitEnd, NextEnd, PTL DEF Spec
<1>3. QED BY <1>1, <1>2, QueueInductive, PTL DEF Spec, EndChangesOnlyByCancel
=============================================================================
