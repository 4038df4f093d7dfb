------------------------------ MODULE FailedLog ------------------------------
(***************************************************************************)
(* The failed log: hooks that reach neither langstash nor Langfuse append  *)
(* their trace to data/failed/{day}.jsonl (langstash-deliver), and the     *)
(* FailedRecovery thread of the daemon ingests the lines again             *)
(* (recover_failed, exporter/src/ingestor.py).                             *)
(*                                                                         *)
(* A name and the file it leads to are kept apart: a hook that opened a    *)
(* file goes on writing to it after recovery has unlinked the name.  The   *)
(* Python hooks take the file's flock, the TypeScript hooks do not.  What  *)
(* ingest() does beyond queueing a line is the module Langstash.           *)
(***************************************************************************)
EXTENDS Integers, Sequences, Functions

CONSTANTS
    Traces,         \* the traces hooks could not deliver, one call each
    Unlocked,       \* those whose hook appends without the flock (TypeScript)
    Pieces,         \* by trace: the lines it is queued as, up to the first that
                    \* ingest() rejects; 0 if it cannot be parsed, split or accepted
    Raising,        \* traces on which ingest() raises neither IngestError nor OSError:
                    \* validate_otlp before the append (a scope that is no object),
                    \* _accumulate_tokens after it (a token count that is null)
    MaxDay,         \* failed files are named by UTC day: days 1..MaxDay
    MaxDiskErrors,  \* bound on errors of the disk and of the shared index
    MaxCrashes      \* bound on deaths of the daemon

Days == 1..MaxDay

ASSUME FailedLogAssumption ==
    /\ MaxDay \in Nat \ {0} /\ MaxDiskErrors \in Nat /\ MaxCrashes \in Nat
    /\ Unlocked \subseteq Traces /\ Raising \subseteq Traces /\ Pieces \in [Traces -> Nat]

VARIABLES
    day,        \* the UTC date
    name,       \* the file each day's name leads to, 0 if there is none
    content,    \* by file, ever created: its lines
    hpc, hfile, \* by trace: where its hook is, the file it opened
    rpc,        \* where the recovery thread is
    todo,       \* days of the files it still has to open in this round
    rday, rfile,\* the name and the file it works on
    lines,      \* lines of that file still to be ingested
    piece,      \* the chunk of the first of them that comes next
    kept,       \* lines to be retried next round
    diskErrors, crashes,
    saved,      \* history: traces whose append to the failed log returned
    queued,     \* history: <<trace, chunk>> appended to data/pending
    again,      \* history: those appended more than once
    exposed     \* history: traces saved, or dropped, where the code does not keep them

hookVars == <<hpc, hfile>>
fileVars == <<name, content>>
recoveryVars == <<rpc, todo, rday, rfile, lines, piece, kept>>
historyVars == <<saved, queued, again, exposed>>
worldVars == <<day, diskErrors, crashes>>
vars == <<hookVars, fileVars, recoveryVars, historyVars, worldVars>>

\* Recovery has the flock from the read to the rewrite.
RecoveryHolds(f) == rfile = f /\ rpc \in {"line", "rewrite"}

\* What is written to f now is truncated away, overwritten, or unlinked.
Doomed(f) ==
    \/ RecoveryHolds(f)
    \/ rfile = f /\ rpc = "unlink"
    \/ \A d \in Days : name[d] # f

-----------------------------------------------------------------------------
(* Hooks: append_failed_trace (Python), appendFailedTrace (TypeScript).    *)

HookOpen(t) ==
    /\ hpc[t] = "idle"
    /\ hpc' = [hpc EXCEPT ![t] = "open"]
    /\ IF name[day] # 0
       THEN /\ hfile' = [hfile EXCEPT ![t] = name[day]]
            /\ UNCHANGED fileVars
       ELSE /\ hfile' = [hfile EXCEPT ![t] = Len(content) + 1]
            /\ name' = [name EXCEPT ![day] = Len(content) + 1]
            /\ content' = Append(content, <<>>)
    /\ UNCHANGED <<recoveryVars, historyVars, worldVars>>

TakesFlock(t) == t \notin Unlocked

AppendIgnoringLock(t) ==                             \* mutant: no flock at all
    /\ hpc[t] = "open"
    /\ content' = [content EXCEPT ![hfile[t]] = Append(@, t)]
    /\ hpc' = [hpc EXCEPT ![t] = "done"]
    /\ saved' = saved \cup {t}
    /\ UNCHANGED <<hfile, name, recoveryVars, queued, again, exposed, worldVars>>

HookAppend(t) ==
    /\ hpc[t] = "open"
    /\ TakesFlock(t) => ~ RecoveryHolds(hfile[t])
    /\ content' = [content EXCEPT ![hfile[t]] = Append(@, t)]
    /\ hpc' = [hpc EXCEPT ![t] = "done"]
    /\ saved' = saved \cup {t}
    /\ exposed' = IF Doomed(hfile[t]) THEN exposed \cup {t} ELSE exposed
    /\ UNCHANGED <<hfile, name, recoveryVars, queued, again, worldVars>>

-----------------------------------------------------------------------------
(* The recovery thread: one round of recover_failed.                       *)

StartRound ==
    /\ rpc = "idle"
    /\ rpc' = "next"
    /\ todo' = {d \in Days : name[d] # 0}
    /\ UNCHANGED <<hookVars, fileVars, historyVars, worldVars, rday, rfile, lines, piece, kept>>

OpenFailed ==
    /\ rpc = "next"
    /\ \E d \in todo :
         /\ \A e \in todo : d <= e
         /\ rday' = d /\ rfile' = name[d]
         /\ todo' = todo \ {d}
    /\ rpc' = "lock"
    /\ UNCHANGED <<hookVars, fileVars, historyVars, worldVars, lines, piece, kept>>

EndRound ==
    /\ rpc = "next" /\ todo = {}
    /\ rpc' = "idle"
    /\ UNCHANGED <<hookVars, fileVars, historyVars, worldVars, todo, rday, rfile, lines, piece,
                   kept>>

ReadFailed ==
    /\ rpc = "lock"
    /\ rpc' = "line"
    /\ lines' = content[rfile]
    /\ piece' = 1
    /\ kept' = <<>>
    /\ UNCHANGED <<hookVars, fileVars, historyVars, worldVars, todo, rday, rfile>>

\* A line that cannot be parsed, split or accepted is logged and dropped.
DropLine ==
    /\ rpc = "line" /\ lines # <<>>
    /\ Pieces[Head(lines)] = 0
    /\ lines' = Tail(lines)
    /\ UNCHANGED <<hookVars, fileVars, historyVars, worldVars, rpc, todo, rday, rfile, piece, kept>>

Queue(p) ==
    /\ queued' = queued \cup {p}
    /\ again' = IF p \in queued THEN again \cup {p} ELSE again

QueuePieceAndKeep ==                     \* mutant: a recovered line is kept as well
    /\ rpc = "line" /\ lines # <<>> /\ Head(lines) \notin Raising
    /\ piece <= Pieces[Head(lines)]
    /\ Queue(<<Head(lines), piece>>)
    /\ IF piece = Pieces[Head(lines)]
       THEN lines' = Tail(lines) /\ piece' = 1 /\ kept' = Append(kept, Head(lines))
       ELSE piece' = piece + 1 /\ UNCHANGED <<lines, kept>>
    /\ UNCHANGED <<hookVars, fileVars, worldVars, rpc, todo, rday, rfile, saved, exposed>>

\* One ingest() call of _recover_line.
QueuePiece ==
    /\ rpc = "line" /\ lines # <<>> /\ Head(lines) \notin Raising
    /\ piece <= Pieces[Head(lines)]
    /\ Queue(<<Head(lines), piece>>)
    /\ IF piece = Pieces[Head(lines)]
       THEN lines' = Tail(lines) /\ piece' = 1
       ELSE piece' = piece + 1 /\ UNCHANGED lines
    /\ UNCHANGED <<hookVars, fileVars, worldVars, rpc, todo, rday, rfile, kept, saved, exposed>>

\* ingest() fails with an OSError, before or after its append: the line is kept for
\* the next round if it was the first chunk, and given up if it was a later one.
DiskError ==
    /\ rpc = "line" /\ lines # <<>>
    /\ piece <= Pieces[Head(lines)] /\ diskErrors < MaxDiskErrors
    /\ diskErrors' = diskErrors + 1
    /\ Queue(<<Head(lines), piece>>) \/ UNCHANGED <<queued, again>>
    /\ lines' = Tail(lines)
    /\ piece' = 1
    /\ IF piece = 1
       THEN kept' = Append(kept, Head(lines)) /\ UNCHANGED exposed
       ELSE exposed' = exposed \cup {Head(lines)} /\ UNCHANGED kept
    /\ UNCHANGED <<hookVars, fileVars, day, crashes, rpc, todo, rday, rfile, saved>>

TruncateAndForget ==                     \* mutant: the lines to be retried are forgotten
    /\ rpc = "line" /\ lines = <<>>
    /\ content' = [content EXCEPT ![rfile] = <<>>]
    /\ rpc' = "unlink"
    /\ UNCHANGED <<hookVars, name, historyVars, worldVars, todo, rday, rfile, lines, piece, kept>>

DiskFails ==
    /\ diskErrors < MaxDiskErrors
    /\ diskErrors' = diskErrors + 1

\* The exception ends the round: the flock is released and the file stays as it was.
\* Any line may meet it: the index grows shorter while it is saved (state.py:101).
AbortRound ==
    /\ rpc = "line" /\ lines # <<>>
    /\ piece <= Pieces[Head(lines)]
    /\ (Head(lines) \in Raising /\ UNCHANGED diskErrors) \/ DiskFails
    /\ Queue(<<Head(lines), piece>>) \/ UNCHANGED <<queued, again>>
    /\ rpc' = "idle"
    /\ UNCHANGED <<hookVars, fileVars, day, crashes, todo, rday, rfile, lines, piece, kept, saved,
                   exposed>>

\* So does an OSError when the file is opened, locked, read or emptied.
RoundError ==
    /\ rpc \in {"next", "lock"} \/ (rpc = "line" /\ lines = <<>>)
    /\ rpc = "next" => todo # {}
    /\ DiskFails
    /\ rpc' = "idle"
    /\ UNCHANGED <<hookVars, fileVars, historyVars, day, crashes, todo, rday, rfile, lines, piece,
                   kept>>

\* The file is emptied; if nothing is to be kept the flock is released here.
TruncateFailed ==
    /\ rpc = "line" /\ lines = <<>>
    /\ content' = [content EXCEPT ![rfile] = <<>>]
    /\ rpc' = IF kept = <<>> THEN "unlink" ELSE "rewrite"
    /\ UNCHANGED <<hookVars, name, historyVars, worldVars, todo, rday, rfile, lines, piece, kept>>

\* The kept lines are written from the start of the file, over one or more of the
\* lines a hook without the flock has appended since; the flock is released.
RewriteFailed ==
    /\ rpc = "rewrite"
    /\ \E k \in 2..(Len(content[rfile]) + 2) :
         content' = [content EXCEPT ![rfile] = kept \o SubSeq(@, k, Len(@))]
    /\ rpc' = "next"
    /\ UNCHANGED <<hookVars, name, historyVars, worldVars, todo, rday, rfile, lines, piece, kept>>

\* The write fails: what it did not get to is gone, and the round ends.
RewriteError ==
    /\ rpc = "rewrite" /\ DiskFails
    /\ \E n \in 0..Len(kept), k \in 1..(Len(content[rfile]) + 2) :
         /\ n > 0 => k > 1
         /\ content' = [content EXCEPT ![rfile] = SubSeq(kept, 1, n) \o SubSeq(@, k, Len(@))]
    /\ exposed' = exposed \cup (Range(kept) \ Range(content'[rfile]))
    /\ rpc' = "idle"
    /\ UNCHANGED <<hookVars, name, saved, queued, again, day, crashes, todo, rday, rfile, lines,
                   piece, kept>>

\* The empty file goes; an OSError is passed over.
UnlinkFailed ==
    /\ rpc = "unlink"
    /\ \/ name' = [name EXCEPT ![rday] = 0] /\ UNCHANGED diskErrors
       \/ DiskFails /\ UNCHANGED name
    /\ rpc' = "next"
    /\ UNCHANGED <<hookVars, content, historyVars, day, crashes, todo, rday, rfile, lines, piece, kept>>

Recover ==
    \/ StartRound
    \/ OpenFailed
    \/ EndRound
    \/ ReadFailed
    \/ DropLine
    \/ QueuePiece
    \/ DiskError
    \/ AbortRound
    \/ RoundError
    \/ TruncateFailed
    \/ RewriteFailed
    \/ RewriteError
    \/ UnlinkFailed

\* The daemon dies and starts again; the kernel releases its flock.
Crash ==
    /\ crashes < MaxCrashes
    /\ crashes' = crashes + 1
    /\ rpc' = "idle" /\ todo' = {} /\ rday' = 1 /\ rfile' = 0
    /\ lines' = <<>> /\ piece' = 1 /\ kept' = <<>>
    /\ exposed' = IF rpc = "rewrite" THEN exposed \cup Range(kept) ELSE exposed
    /\ UNCHANGED <<hookVars, fileVars, saved, queued, again, day, diskErrors>>

NewDay ==
    /\ day < MaxDay
    /\ day' = day + 1
    /\ UNCHANGED <<hookVars, fileVars, recoveryVars, historyVars, diskErrors, crashes>>

Init ==
    /\ day = 1 /\ diskErrors = 0 /\ crashes = 0
    /\ name = [d \in Days |-> 0] /\ content = <<>>
    /\ hpc = [t \in Traces |-> "idle"] /\ hfile = [t \in Traces |-> 0]
    /\ rpc = "idle" /\ todo = {} /\ rday = 1 /\ rfile = 0
    /\ lines = <<>> /\ piece = 1 /\ kept = <<>>
    /\ saved = {} /\ queued = {} /\ again = {} /\ exposed = {}

Next ==
    \/ \E t \in Traces : HookOpen(t) \/ HookAppend(t)
    \/ Recover
    \/ Crash
    \/ NewDay

Spec == Init /\ [][Next]_vars

\* The recovery thread wakes up every RECOVER_INTERVAL and goes on; a hook that
\* opened the file appends.  Errors, crashes and midnights are never owed.
Fairness ==
    /\ WF_vars(Recover)
    /\ \A t \in Traces : WF_vars(HookAppend(t))

FairSpec == Spec /\ Fairness

-----------------------------------------------------------------------------
(* Properties.                                                             *)

Recovered(t) == \A k \in 1..Pieces[t] : <<t, k>> \in queued
Kept(t) ==
    \/ \E d \in Days : name[d] # 0 /\ t \in Range(content[name[d]])
    \/ rpc = "rewrite" /\ t \in Range(kept)

\* The only ways to lose a saved trace: its hook appends where recovery is about to
\* truncate, overwrite or unlink (ingestor.py:294, 298, 307), an error after the
\* first chunk (265), or a death or an error between the truncation and the end of the
\* rewrite (294-296).
LostOnlyWhenExposed == \A t \in saved \ exposed : Recovered(t) \/ Kept(t)

\* No chunk is queued twice unless the daemon died, the disk failed, or a line makes
\* ingest() raise.
QueuedTwiceOnlyAfterFailure ==
    again # {} => crashes > 0 \/ diskErrors > 0 \/ saved \cap Raising # {}

\* A saved trace is recovered in the end, through errors and crashes, unless a line
\* that makes ingest() raise was saved.
SavedIsRecovered ==
    \A t \in Traces : t \in saved ~> Recovered(t) \/ t \in exposed \/ saved \cap Raising # {}
=============================================================================
