------------------------------ MODULE CursorHook ------------------------------
(***************************************************************************)
(* The Cursor hook (hooks/cursor): every event is a process of its own.    *)
(* Most append one record to the file of their conversation; stop delivers *)
(* the file turn by turn and deletes it; sessionStart does so with files   *)
(* of other conversations nobody wrote to for six hours.  Nothing orders   *)
(* the processes of one conversation.                                      *)
(***************************************************************************)
EXTENDS Integers, Sequences, FiniteSets, SequencesExt

CONSTANTS
    Conversations, HookProcs, NoConversation,
    MaxRecords, MaxFailures      \* bounds

ASSUME CursorAssumption == NoConversation \notin Conversations /\ MaxRecords \in Nat

VARIABLES
    records,    \* by conversation: its state file, <<>> when there is none
    orphan,     \* conversations whose file is six hours old
    hook,       \* by process: its locals
    written,    \* records ever written
    failures,
    reported,   \* history: by record, how many traces of it were taken
    waiver      \* history: <<record, what the hook does not make up for>>

cursorVars == <<records, orphan, hook, written, failures, reported, waiver>>

NoHook == [kind |-> "none", conv |-> NoConversation, read |-> {}, turns |-> <<>>, ok |-> TRUE, todo |-> {}]

Numbers(S) == {r.n : r \in S}
Waive(S, what) == Numbers(S) \X {what}
Fails == failures < MaxFailures /\ failures' = failures + 1

-----------------------------------------------------------------------------
(* splitTurns: at prompts; without any, where the generation id changes.   *)

Opens(last, r, prompts) == IF prompts THEN r.kind = "prompt" ELSE r.kind # last.kind

\* The turns once a record was added to them.
Add(ts, r, prompts) ==
    IF ts # <<>> /\ ~ Opens(Last(Last(ts)), r, prompts)
    THEN [ts EXCEPT ![Len(ts)] = Append(@, r)] ELSE Append(ts, <<r>>)

\* The turns after each record.
Splits(rs, prompts) ==
    LET turns[k \in 0..Len(rs)] == IF k = 0 THEN <<>> ELSE Add(turns[k - 1], rs[k], prompts)
    IN  turns

SplitAt(rs, prompts) == Splits(rs, prompts)[Len(rs)]

SplitDropsTail(rs) == Front(SplitAt(rs, TRUE))      \* mutant: the last turn is not closed
SplitTurns(rs) == SplitAt(rs, \E r \in ToSet(rs) : r.kind = "prompt")

-----------------------------------------------------------------------------
(* Events that append a record, and time.                                  *)

\* A record is a prompt, or of one of two generations.
HandleEvent(c) ==
    /\ written < MaxRecords /\ written' = written + 1
    /\ \E kind \in {"prompt", "generation 1", "generation 2"} :
         records' = [records EXCEPT ![c] = Append(@, [n |-> written', kind |-> kind])]
    /\ orphan' = orphan \ {c}
    /\ UNCHANGED <<hook, failures, reported, waiver>>

\* Six hours pass without an event of c; its stop is not so slow.
SixHours(c) ==
    /\ c \notin orphan /\ records[c] # <<>>
    /\ \A p \in HookProcs : hook[p].kind = "stop" => hook[p].conv # c
    /\ orphan' = orphan \cup {c}
    /\ UNCHANGED <<records, hook, written, failures, reported, waiver>>

-----------------------------------------------------------------------------
(* Delivering a file.                                                      *)

\* Records that another process has read and not yet finished with.
ReadByOthers(p, c) == UNION {hook[q].read : q \in {x \in HookProcs \ {p} : hook[x].conv = c}}

Reads(p, c, kind, todo) ==
    /\ hook' = [hook EXCEPT ![p] = [kind |-> kind, conv |-> c, read |-> ToSet(records[c]),
                                    turns |-> SplitTurns(records[c]), ok |-> TRUE, todo |-> todo]]
    /\ waiver' = waiver \cup Waive(ToSet(records[c]) \cap ReadByOthers(p, c), "read twice")

\* It deletes the file also when it read no record.
HandleStop(p, c) ==
    /\ hook[p] = NoHook
    /\ Reads(p, c, "stop", {})
    /\ UNCHANGED <<records, orphan, written, failures, reported>>

\* sessionStart of conversation c.
HandleSessionStart(p, c) ==
    /\ hook[p] = NoHook
    /\ \E d \in Conversations \ {c} : records[d] # <<>>
    /\ hook' = [hook EXCEPT ![p] = [NoHook EXCEPT !.kind = "recovery",
                                                  !.todo = {d \in Conversations \ {c} : records[d] # <<>>}]]
    /\ UNCHANGED <<records, orphan, written, failures, reported, waiver>>

RecoverFile(p) ==
    /\ hook[p].kind = "recovery" /\ hook[p].conv = NoConversation
    /\ \E d \in hook[p].todo :
         IF d \in orphan /\ records[d] # <<>> THEN Reads(p, d, "recovery", hook[p].todo \ {d})
         ELSE hook' = [hook EXCEPT ![p].todo = @ \ {d}] /\ UNCHANGED waiver
    /\ UNCHANGED <<records, orphan, written, failures, reported>>

Recovered(p) ==
    /\ hook[p].kind = "recovery" /\ hook[p].conv = NoConversation /\ hook[p].todo = {}
    /\ hook' = [hook EXCEPT ![p] = NoHook]
    /\ UNCHANGED <<records, orphan, written, failures, reported, waiver>>

\* deliverTrace: whether it says it was delivered, and how many tiers took the trace.
\* The failed log alone is no delivery (index.ts:127).
Answers == {[ok |-> TRUE, times |-> 1], [ok |-> TRUE, times |-> 2], [ok |-> FALSE, times |-> 1],
            [ok |-> FALSE, times |-> 2], [ok |-> FALSE, times |-> 0]}

DeliverTurn(p) ==
    LET turn == Head(hook[p].turns)
    IN  /\ hook[p].turns # <<>>
        /\ \E a \in Answers :
             /\ IF a = [ok |-> TRUE, times |-> 1] THEN UNCHANGED failures ELSE Fails
             /\ reported' = [n \in DOMAIN reported |->
                               IF n \in Numbers(ToSet(turn)) THEN reported[n] + a.times ELSE reported[n]]
             /\ hook' = [hook EXCEPT ![p].turns = Tail(@), ![p].ok = @ /\ a.ok]
             /\ waiver' = waiver
                  \cup (IF a.times = 2 THEN Waive(ToSet(turn), "answer lost") ELSE {})
                  \cup (IF a.times = 0 THEN Waive(ToSet(turn), "not taken") ELSE {})
                  \cup (IF a.ok \/ hook[p].kind = "stop" THEN {} ELSE Waive(hook[p].read, "kept"))
        /\ UNCHANGED <<records, orphan, written>>

AfterFile(p) == IF hook[p].kind = "stop" THEN NoHook
                ELSE [hook[p] EXCEPT !.conv = NoConversation, !.read = {}, !.ok = TRUE]

\* A stop deletes the file whatever came of its turns, the recovery when all were delivered.
Deletes(p) == hook[p].kind = "stop" \/ hook[p].ok

DeleteStateFile(p) ==
    LET c == hook[p].conv
        deletes == Deletes(p)
    IN  /\ c # NoConversation /\ hook[p].turns = <<>>
        /\ records' = IF deletes THEN [records EXCEPT ![c] = <<>>] ELSE records
        /\ orphan' = IF deletes THEN orphan \ {c} ELSE orphan
        /\ waiver' = waiver \cup (IF deletes THEN Waive(ToSet(records[c]) \ hook[p].read, "late") ELSE {})
        /\ hook' = [hook EXCEPT ![p] = AfterFile(p)]
        /\ UNCHANGED <<written, failures, reported>>

\* The trace of a turn cannot be built: the file stays, the recovery goes on to the next.
BuildFails(p) ==
    /\ hook[p].turns # <<>> /\ Fails
    /\ hook' = [hook EXCEPT ![p] = [AfterFile(p) EXCEPT !.turns = <<>>]]
    /\ waiver' = waiver \cup Waive(hook[p].read, "kept")
    /\ UNCHANGED <<records, orphan, written, reported>>

\* The file cannot be deleted, which is passed over (state.ts:56).
UnlinkFails(p) ==
    /\ hook[p].conv # NoConversation /\ hook[p].turns = <<>> /\ Deletes(p) /\ Fails
    /\ hook' = [hook EXCEPT ![p] = AfterFile(p)]
    /\ waiver' = waiver \cup Waive(hook[p].read, "kept")
    /\ UNCHANGED <<records, orphan, written, reported>>

Dies(p) ==
    /\ hook[p] # NoHook /\ Fails
    /\ hook' = [hook EXCEPT ![p] = NoHook]
    /\ waiver' = waiver \cup Waive(hook[p].read, "kept")
    /\ UNCHANGED <<records, orphan, written, reported>>

CursorNext ==
    \/ \E c \in Conversations : HandleEvent(c) \/ SixHours(c)
    \/ \E p \in HookProcs :
         \/ \E c \in Conversations : HandleStop(p, c) \/ HandleSessionStart(p, c)
         \/ RecoverFile(p) \/ Recovered(p) \/ DeliverTurn(p) \/ DeleteStateFile(p)
         \/ BuildFails(p) \/ UnlinkFails(p) \/ Dies(p)

CursorInit ==
    /\ records = [c \in Conversations |-> <<>>] /\ orphan = {}
    /\ hook = [p \in HookProcs |-> NoHook] /\ written = 0 /\ failures = 0
    /\ reported = [n \in 1..MaxRecords |-> 0] /\ waiver = {}

CursorSpec == CursorInit /\ [][CursorNext]_cursorVars

-----------------------------------------------------------------------------
\* Every record is in its file or in a trace, and in one trace only: but one appended while
\* stop or the recovery delivers what came before it goes with the file (index.ts:43,
\* recovery.ts:75); what no tier took is gone with a stop; two processes that read one file
\* both deliver it; and so does the next one when the file was kept after a failure, also
\* when the failed log had taken the turn, or could not be deleted.
RecordsReported ==
    \A n \in 1..written :
        LET why == {w[2] : w \in {x \in waiver : x[1] = n}}
            filed == \E c \in Conversations : n \in Numbers(ToSet(records[c]))
        IN  /\ filed \/ reported[n] > 0 \/ why \cap {"late", "not taken"} # {}
            /\ reported[n] > 1 => why \cap {"read twice", "kept", "answer lost"} # {}
=============================================================================
