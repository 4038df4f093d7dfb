------------------------------- MODULE Tester -------------------------------
(***************************************************************************)
(* The end-to-end test service (test-service/src: queue.py, worker.py,     *)
(* server.py, store.py, main.py).  The event loop of the HTTP server       *)
(* creates and cancels jobs, one worker thread runs them, both update one  *)
(* job table.  The queue has a lock of its own; a handler of the server    *)
(* has no await between its steps, so the handlers exclude one another and *)
(* interleave with the worker only.  Git and the test command are any of   *)
(* their outcomes; progress, logs and the answers' text are left out.      *)
(***************************************************************************)
EXTENDS Integers, Sequences, SequencesExt

CONSTANTS
    Jobs,         \* ids of the jobs that may be created
    Branch,       \* by job: its branch
    NoJob,
    Silent,       \* jobs whose test command neither prints a line nor ends
    MaxRestarts   \* bound on deaths of the service

Policies == {"replace", "queue", "reject"}
Final == {"success", "failed", "conflict", "cancelled", "timeout"}
Status == {"none", "pending", "running"} \cup Final

ASSUME TesterAssumption == NoJob \notin Jobs /\ Silent \subseteq Jobs /\ MaxRestarts \in Nat

VARIABLES
    policy,      \* same_branch_policy of the configuration
    status,      \* the job table; "none" before a job's row
    queue,       \* JobQueue._queue
    running,     \* JobQueue._running
    tracked,     \* the keys of JobQueue._branch_map
    cancelReq,   \* Worker._cancel_requested
    hpc, hjob,   \* the server's handler and its job
    hseen,       \* the status the handler has read
    wpc, wjob,   \* the worker thread and the job it took
    current,     \* Worker._current_job_id
    proc,        \* the test process of the job
    known,       \* it is Worker._current_process
    timedOut,
    verdict,     \* the status the worker is about to write
    stop,        \* Worker._stop_event
    restarts,
    notified,    \* history: the status each callback told
    replaced,    \* history: jobs a newer one pushed out of the queue
    forgotten    \* history: jobs not ended when the service died

serverVars == <<hpc, hjob, hseen>>
queueVars == <<queue, running, tracked>>
workerVars == <<wpc, wjob, current, timedOut, verdict>>
procVars == <<proc, known>>
otherVars == <<policy, stop, restarts, forgotten>>
vars == <<status, cancelReq, serverVars, queueVars, workerVars, procVars, otherVars, notified,
          replaced>>

\* The server holds the queue's lock over the steps of a replacement and of a
\* cancel, and calls the cancel callback under it.
Locked == hpc \in {"replace", "callback", "kill"}

\* JobQueue._find_same_branch.
SameQueued(j) == {k \in Range(queue) : Branch[k] = Branch[j]}   \* mutant: the running job is missed
Same(j) == {k \in tracked : Branch[k] = Branch[j]}

Mark(j, s) == status' = [status EXCEPT ![j] = s]

\* A handler ends.
Answer == hpc' = "idle" /\ hjob' = NoJob /\ hseen' = "none"

-----------------------------------------------------------------------------
(* POST /e2e/jobs: the row, then JobQueue.enqueue.                         *)

Create(j) ==
    /\ hpc = "idle" /\ status[j] = "none"
    /\ Mark(j, "pending")
    /\ hjob' = j /\ hpc' = "enqueue"
    /\ UNCHANGED <<cancelReq, hseen, queueVars, workerVars, procVars, otherVars, notified, replaced>>

\* Nothing of the branch is left to be looked at.
Enqueue ==
    /\ \/ hpc = "enqueue" /\ (policy = "queue" \/ Same(hjob) = {})
       \/ hpc = "replace" /\ Same(hjob) = {}
    /\ queue' = Append(queue, hjob)
    /\ tracked' = tracked \cup {hjob}
    /\ Answer
    /\ UNCHANGED <<status, cancelReq, running, workerVars, procVars, otherVars,
                   notified, replaced>>

Refuse ==
    /\ hpc = "enqueue" /\ policy = "reject" /\ Same(hjob) # {}
    /\ hpc' = "refused"
    /\ UNCHANGED <<status, cancelReq, hjob, hseen, queueVars, workerVars, procVars, otherVars,
                   notified, replaced>>

Replacing == policy = "replace" /\ hpc \in {"enqueue", "replace"}

\* deque.remove: the first j goes.
RemoveFromQueue(j) ==
    \E n \in 1..Len(queue) :
        /\ queue[n] = j /\ \A m \in 1..(n - 1) : queue[m] # j
        /\ queue' = RemoveAt(queue, n)

\* A queued job of the branch is taken out; its row is not touched.
ReplaceQueued ==
    /\ Replacing
    /\ \E j \in Same(hjob) \ {running} :
         /\ IF j \in Range(queue) THEN RemoveFromQueue(j) ELSE UNCHANGED queue
         /\ replaced' = replaced \cup ({j} \cap Range(queue))
         /\ tracked' = tracked \ {j}
    /\ hpc' = "replace"
    /\ UNCHANGED <<status, cancelReq, hjob, hseen, running, workerVars, procVars, otherVars, notified>>

\* A running one is cancelled through the callback.
ReplaceRunning ==
    /\ Replacing /\ running \in Same(hjob)
    /\ cancelReq' = cancelReq \cup {running}
    /\ hpc' = "callback"
    /\ UNCHANGED <<status, hjob, hseen, queueVars, workerVars, procVars, otherVars, notified, replaced>>

\* _handle_cancel: the process group is killed if the worker has it.
KillProcess(j) == proc' = IF current = j /\ known THEN "dead" ELSE proc

KillReplaced ==
    /\ hpc = "callback"
    /\ KillProcess(running)
    /\ running' = NoJob /\ tracked' = tracked \ {running}
    /\ hpc' = "replace"
    /\ UNCHANGED <<status, cancelReq, hjob, hseen, queue, workerVars, known, otherVars, notified, replaced>>

-----------------------------------------------------------------------------
(* POST /e2e/jobs/{id}/cancel: read the row, JobQueue.cancel, write it.    *)

StartCancel(j) ==
    /\ hpc = "idle" /\ status[j] \in {"pending", "running"}
    /\ hpc' = "cancel" /\ hjob' = j /\ hseen' = status[j]
    /\ UNCHANGED <<status, cancelReq, queueVars, workerVars, procVars, otherVars, notified, replaced>>

CancelAndStayTracked ==                          \* mutant: the branch map keeps the job
    /\ hpc = "cancel" /\ hjob \in Range(queue)
    /\ RemoveFromQueue(hjob)
    /\ hpc' = "cancelled"
    /\ UNCHANGED <<status, cancelReq, hjob, hseen, running, tracked, workerVars, procVars, otherVars,
                   notified, replaced>>

CancelQueued ==
    /\ hpc = "cancel" /\ hjob \in Range(queue)
    /\ RemoveFromQueue(hjob)
    /\ tracked' = tracked \ {hjob}
    /\ hpc' = "cancelled"
    /\ UNCHANGED <<status, cancelReq, hjob, hseen, running, workerVars, procVars, otherVars,
                   notified, replaced>>

CancelWithoutFlag ==                             \* mutant: the worker is not told
    /\ hpc = "cancel" /\ hjob = running
    /\ hpc' = "kill"
    /\ UNCHANGED <<status, cancelReq, hjob, hseen, queueVars, workerVars, procVars, otherVars,
                   notified, replaced>>

CancelRunning ==
    /\ hpc = "cancel" /\ hjob = running
    /\ cancelReq' = cancelReq \cup {hjob}
    /\ hpc' = "kill"
    /\ UNCHANGED <<status, hjob, hseen, queueVars, workerVars, procVars, otherVars, notified, replaced>>

KillCancelled ==
    /\ hpc = "kill"
    /\ KillProcess(hjob)
    /\ hpc' = "cancelled"
    /\ UNCHANGED <<status, cancelReq, hjob, hseen, queueVars, workerVars, known, otherVars,
                   notified, replaced>>

\* The queue no longer has it; it is still marked if it was read as pending.
CancelTooLate ==
    /\ hpc = "cancel" /\ hjob \notin Range(queue) \cup {running}
    /\ IF hseen = "pending" THEN hpc' = "cancelled" /\ UNCHANGED <<hjob, hseen>> ELSE Answer
    /\ UNCHANGED <<status, cancelReq, queueVars, workerVars, procVars, otherVars, notified, replaced>>

MarkCancelled ==
    /\ hpc \in {"cancelled", "refused"}
    /\ Mark(hjob, "cancelled")
    /\ Answer
    /\ UNCHANGED <<cancelReq, queueVars, workerVars, procVars, otherVars, notified, replaced>>

Handle ==
    \/ Enqueue
    \/ Refuse
    \/ ReplaceQueued
    \/ ReplaceRunning
    \/ KillReplaced
    \/ CancelQueued
    \/ CancelRunning
    \/ KillCancelled
    \/ CancelTooLate
    \/ MarkCancelled

-----------------------------------------------------------------------------
(* The worker: _run_loop, _execute_job, _run_tests.                        *)

ToWorker(p) == wpc' = p /\ UNCHANGED <<serverVars, otherVars, replaced>>

DequeueByPeek ==                                 \* mutant: the job stays in the queue
    /\ wpc = "idle" /\ ~ stop /\ ~ Locked /\ queue # <<>>
    /\ wjob' = Head(queue) /\ running' = Head(queue)
    /\ ToWorker("take")
    /\ UNCHANGED <<status, cancelReq, queue, tracked, current, timedOut, verdict, procVars, notified>>

Dequeue ==
    /\ wpc = "idle" /\ ~ stop /\ ~ Locked /\ queue # <<>>
    /\ wjob' = Head(queue) /\ running' = Head(queue) /\ queue' = Tail(queue)
    /\ ToWorker("take")
    /\ UNCHANGED <<status, cancelReq, tracked, current, timedOut, verdict, procVars, notified>>

\* A stopping worker drops the job it has just taken.
Leave ==
    /\ wpc = "take" /\ stop
    /\ ToWorker("left")
    /\ UNCHANGED <<status, cancelReq, queueVars, wjob, current, timedOut, verdict, procVars, notified>>

Take ==
    /\ wpc = "take" /\ ~ stop
    /\ current' = wjob
    /\ ToWorker("begin")
    /\ UNCHANGED <<status, cancelReq, queueVars, wjob, timedOut, verdict, procVars, notified>>

BeginCancelled ==
    /\ wpc = "begin" /\ wjob \in cancelReq
    /\ cancelReq' = cancelReq \ {wjob}
    /\ verdict' = "cancelled"
    /\ ToWorker("record")
    /\ UNCHANGED <<status, queueVars, wjob, current, timedOut, procVars, notified>>

Begin ==
    /\ wpc = "begin" /\ wjob \notin cancelReq
    /\ ToWorker("start")
    /\ UNCHANGED <<status, cancelReq, queueVars, wjob, current, timedOut, verdict, procVars, notified>>

MarkRunning ==
    /\ wpc = "start"
    /\ Mark(wjob, "running")
    /\ ToWorker("prepare")
    /\ UNCHANGED <<cancelReq, queueVars, wjob, current, timedOut, verdict, procVars, notified>>

\* git fails, the merge conflicts, or there is nothing to run.
PrepareFails ==
    /\ wpc = "prepare"
    /\ verdict' \in {"failed", "conflict"}
    /\ ToWorker("record")
    /\ UNCHANGED <<status, cancelReq, queueVars, wjob, current, timedOut, procVars, notified>>

Spawn ==
    /\ wpc = "prepare"
    /\ proc' = "alive" /\ timedOut' = FALSE
    /\ ToWorker("spawned")
    /\ UNCHANGED <<status, cancelReq, queueVars, wjob, current, verdict, known, notified>>

KeepProcess ==
    /\ wpc = "spawned"
    /\ known' = TRUE
    /\ ToWorker("look")
    /\ UNCHANGED <<status, cancelReq, queueVars, wjob, current, timedOut, verdict, proc, notified>>

\* The head of the reading loop.
LookStopped ==
    /\ wpc = "look" /\ (stop \/ wjob \in cancelReq)
    /\ proc' = "dead"
    /\ ToWorker("decide")
    /\ UNCHANGED <<status, cancelReq, queueVars, wjob, current, timedOut, verdict, known, notified>>

\* The clock is looked at between two lines only, and at the first line it is at zero.
LookTimedOut ==
    /\ wpc = "look" /\ ~ (stop \/ wjob \in cancelReq) /\ wjob \notin Silent
    /\ proc' = "dead" /\ timedOut' = TRUE
    /\ ToWorker("decide")
    /\ UNCHANGED <<status, cancelReq, queueVars, wjob, current, verdict, known, notified>>

Look ==
    /\ wpc = "look" /\ ~ (stop \/ wjob \in cancelReq)
    /\ ToWorker("read")
    /\ UNCHANGED <<status, cancelReq, queueVars, wjob, current, timedOut, verdict, procVars, notified>>

\* readline() returns a line, or the end of a process that is gone.
ReadLine ==
    /\ wpc = "read" /\ proc = "alive" /\ wjob \notin Silent
    /\ ToWorker("look")
    /\ UNCHANGED <<status, cancelReq, queueVars, wjob, current, timedOut, verdict, procVars, notified>>

ReadEnd ==
    /\ wpc = "read" /\ proc = "dead"
    /\ ToWorker("decide")
    /\ UNCHANGED <<status, cancelReq, queueVars, wjob, current, timedOut, verdict, procVars, notified>>

\* A cancel request goes before the exit code.
Decide ==
    /\ wpc = "decide"
    /\ \/ wjob \in cancelReq /\ verdict' = "cancelled"
       \/ wjob \notin cancelReq /\ timedOut /\ verdict' = "timeout"
       \/ wjob \notin cancelReq /\ ~ timedOut /\ verdict' \in {"success", "failed"}
    /\ cancelReq' = cancelReq \ {wjob}
    /\ timedOut' = FALSE
    /\ ToWorker("record")
    /\ UNCHANGED <<status, queueVars, wjob, current, procVars, notified>>

RecordSuccessOnly ==                             \* mutant: an error leaves the row as it is
    /\ wpc = "record"
    /\ IF verdict = "failed" THEN UNCHANGED status ELSE Mark(wjob, verdict)
    /\ verdict' = "none"
    /\ ToWorker("clear")
    /\ UNCHANGED <<cancelReq, queueVars, wjob, current, timedOut, procVars, notified>>

Record ==
    /\ wpc = "record"
    /\ Mark(wjob, verdict)
    /\ verdict' = "none"
    /\ ToWorker("clear")
    /\ UNCHANGED <<cancelReq, queueVars, wjob, current, timedOut, procVars, notified>>

ClearCurrent ==
    /\ wpc = "clear"
    /\ current' = NoJob /\ known' = FALSE
    /\ proc' = IF proc = "dead" THEN "none" ELSE proc
    /\ ToWorker("complete")
    /\ UNCHANGED <<status, cancelReq, queueVars, wjob, timedOut, verdict, notified>>

\* JobQueue.complete; a replaced job is no longer the running one.
Complete ==
    /\ wpc = "complete" /\ ~ Locked
    /\ running' = IF running = wjob THEN NoJob ELSE running
    /\ tracked' = tracked \ {wjob}
    /\ ToWorker("notify")
    /\ UNCHANGED <<status, cancelReq, queue, wjob, current, timedOut, verdict, procVars, notified>>

\* on_complete tells the callback what the row says now.
Notify ==
    /\ wpc = "notify"
    /\ notified' = [notified EXCEPT ![wjob] = status[wjob]]
    /\ wjob' = NoJob
    /\ ToWorker("idle")
    /\ UNCHANGED <<status, cancelReq, queueVars, current, timedOut, verdict, procVars>>

Work ==
    \/ Dequeue
    \/ Leave
    \/ Take
    \/ BeginCancelled
    \/ Begin
    \/ MarkRunning
    \/ PrepareFails
    \/ Spawn
    \/ KeepProcess
    \/ LookStopped
    \/ LookTimedOut
    \/ Look
    \/ ReadLine
    \/ ReadEnd
    \/ Decide
    \/ Record
    \/ ClearCurrent
    \/ Complete
    \/ Notify

-----------------------------------------------------------------------------
(* The test process, the clock and the service itself.                     *)

TestEnds ==
    /\ proc = "alive" /\ wjob \notin Silent
    /\ proc' = "dead"
    /\ UNCHANGED <<status, cancelReq, serverVars, queueVars, workerVars, known, otherVars, notified, replaced>>

\* Worker.stop on SIGTERM.
Stop ==
    /\ ~ stop /\ restarts < MaxRestarts
    /\ stop' = TRUE
    /\ proc' = IF known THEN "dead" ELSE proc
    /\ UNCHANGED <<status, cancelReq, serverVars, queueVars, workerVars, known, policy, restarts,
                   forgotten, notified, replaced>>

\* The service ends, after a stop or at once, and starts with an empty queue.
Fresh ==
    /\ queue = <<>> /\ running = NoJob /\ tracked = {} /\ cancelReq = {}
    /\ hpc = "idle" /\ hjob = NoJob /\ hseen = "none"
    /\ wpc = "idle" /\ wjob = NoJob /\ current = NoJob
    /\ timedOut = FALSE /\ verdict = "none" /\ proc = "none" /\ known = FALSE
    /\ stop = FALSE

Restart ==
    /\ restarts < MaxRestarts
    /\ restarts' = restarts + 1
    /\ forgotten' = {j \in Jobs : status[j] \in {"pending", "running"}}
    /\ queue' = <<>> /\ running' = NoJob /\ tracked' = {} /\ cancelReq' = {}
    /\ hpc' = "idle" /\ hjob' = NoJob /\ hseen' = "none"
    /\ wpc' = "idle" /\ wjob' = NoJob /\ current' = NoJob
    /\ timedOut' = FALSE /\ verdict' = "none" /\ proc' = "none" /\ known' = FALSE
    /\ stop' = FALSE
    /\ UNCHANGED <<policy, status, notified, replaced>>

Init ==
    /\ policy \in Policies
    /\ status = [j \in Jobs |-> "none"]
    /\ Fresh
    /\ restarts = 0 /\ forgotten = {}
    /\ notified = [j \in Jobs |-> "none"] /\ replaced = {}

Next ==
    \/ \E j \in Jobs : Create(j) \/ StartCancel(j)
    \/ Handle
    \/ Work
    \/ TestEnds
    \/ Stop
    \/ Restart

Spec == Init /\ [][Next]_vars

\* Handlers and the worker run on; a test that is not silent ends, and a stopped
\* service is started again.  Requests and deaths are never owed.
Fairness ==
    /\ WF_vars(Handle)
    /\ WF_vars(Work)
    /\ WF_vars(TestEnds)
    /\ WF_vars(Restart /\ stop)

FairSpec == Spec /\ Fairness

-----------------------------------------------------------------------------
(* Properties.                                                             *)

\* The branch map knows exactly the queued jobs and the running one: a policy never
\* overlooks a job and never meets one that is gone (queue.py:27-37).
TrackedIsQueuedOrRunning == tracked = Range(queue) \cup ({running} \ {NoJob})

\* Two jobs of a branch wait or run together only under "queue", or when the older one
\* was told to stop.
BranchExclusive ==
    policy # "queue" =>
        \A j, k \in Range(queue) \cup ({wjob} \ {NoJob}) :
            j # k /\ Branch[j] = Branch[k] /\ wpc \notin {"complete", "notify"} =>
                /\ policy = "replace" /\ wjob \in {j, k}
                /\ running # wjob

\* What a job ended as changes only because of a cancel: a cancel that came too late
\* overwrites it, or a cancelled job that was already on its way ends otherwise.  A
\* callback tells an end, once, when the process of the job is gone (worker.py:70-75).
EndChangesOnlyByCancel ==
    [][\A j \in Jobs :
         /\ status[j] \in Final /\ status'[j] # status[j] => "cancelled" \in {status[j], status'[j]}
         /\ notified'[j] # notified[j] =>
              notified[j] = "none" /\ notified'[j] \in Final /\ proc # "alive"]_vars

\* The worker lets go of a job whose cancel callback was called, wherever it was with it
\* and even if the test would never end by itself (worker.py:201, 230).
CancelStopsTests == \A j \in Jobs : hpc \in {"callback", "kill"} /\ running = j ~> wjob # j

\* Every job ends but those a newer one pushed out of the queue and those the service
\* forgot when it died; a silent test holds the others back.
Held == wpc = "read" /\ wjob \in Silent /\ proc = "alive"
EveryJobEnds ==
    \/ <>[]Held
    \/ \A j \in Jobs : status[j] = "pending" ~>
         status[j] \in Final \/ j \in replaced \cup forgotten
=============================================================================
