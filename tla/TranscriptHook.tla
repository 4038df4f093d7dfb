---------------------------- MODULE TranscriptHook ----------------------------
(***************************************************************************)
(* The hooks of Claude Code, Qoder and QoderWork (langfuse_hook.py): at    *)
(* the end of a turn a process reads what was appended to a transcript     *)
(* since the offset in the state file, delivers a trace for every turn in  *)
(* it (langstash_deliver) and saves the offset.  Processes of all sessions *)
(* share the state file and its lock: one file per agent in the user's     *)
(* home, one per transcript directory for QoderWork.                       *)
(*                                                                         *)
(* Offsets count half rows: a row may be read while only its first half is *)
(* written.  The agent waits for its Stop hook, and kills it after a time. *)
(***************************************************************************)
EXTENDS Turns

CONSTANTS
    Sessions,       \* transcripts whose offsets are in one state file
    Procs,          \* hook processes that may run at the same time
    None,
    MaxRows,        \* bound on rows ever written and upgrades, all transcripts together
    MaxFaults,      \* bound on deaths, disk and delivery errors, truncations and long pauses
    MaxUpgrades,    \* bound on upgrades of the hook
    MaxEvents       \* bound on both together

ASSUME HookAssumption == MaxRows \in Nat /\ MaxFaults \in Nat /\ MaxUpgrades \in Nat /\ MaxEvents \in Nat
                          /\ None \notin Sessions \cup Procs

VARIABLES
    agent,      \* whose hook this is
    rows,       \* by session: its complete rows
    written,    \* by session: rows ever written, the half one included
    half,       \* by session: the number of the row written by half, 0 if none is
    over,       \* by session: its turn is over, a prompt comes next
    state,      \* the state file: by session it knows, [offset, buffer, count, old]
    upgrades,   \* of the hook: each removes the lock file, the next process makes a new one
    lock,       \* by lock file: the holder of its flock
    proc,       \* by process: its locals
    faults,
    delivered,  \* history: by session, rows in a trace that is queued, stored or logged
    twice,      \* history: by session, prompts delivered more than once
    numbers,    \* history: by session, <<turn number, prompt>> delivered
    failed,     \* history: by session, rows of turns no tier took, or not built
    cut,        \* history: by session, prompts whose turn was read while it went on
    excuse      \* history: by session, what the hooks do not make up for

worldVars == <<rows, written, half, over>>
historyVars == <<delivered, twice, numbers, failed, cut, excuse>>
vars == <<agent, worldVars, state, upgrades, lock, proc, faults, historyVars>>

NoEntry == [offset |-> 0, buffer |-> 0, count |-> 0, old |-> FALSE]
Idle == [pc |-> "idle", session |-> None, stop |-> FALSE, file |-> 0, state |-> <<>>,
         ss |-> NoEntry, turns |-> <<>>, emitted |-> 0]

At(p, pc) == proc[p].pc = pc
Ends(p) == proc' = [proc EXCEPT ![p] = Idle]
Fault == faults < MaxFaults /\ faults + upgrades < MaxEvents /\ faults' = faults + 1
Unlocked(p) == [g \in DOMAIN lock |-> IF lock[g] = p THEN None ELSE lock[g]]
Excuse(S, what) == excuse' = [s \in Sessions |-> IF s \in S THEN excuse[s] \cup {what} ELSE excuse[s]]

-----------------------------------------------------------------------------
(* The agent.                                                              *)

AgentWaits(s) == \E p \in Procs : proc[p].session = s /\ proc[p].stop

MoreRows == MapThenSumSet(LAMBDA t : written[t], Sessions) + upgrades < MaxRows

\* A row is half written when a process reads; else nobody can tell.
WriteHalf(s) ==
    /\ ~ AgentWaits(s) /\ half[s] = 0 /\ MoreRows
    /\ \E p \in Procs : At(p, "lock") /\ proc[p].session = s
    /\ half' = [half EXCEPT ![s] = written[s] + 1]
    /\ written' = [written EXCEPT ![s] = @ + 1]
    /\ UNCHANGED <<agent, rows, over, state, upgrades, lock, proc, faults, historyVars>>

WriteRow(s) ==
    /\ ~ AgentWaits(s) /\ (half[s] # 0 \/ MoreRows)
    /\ \E kind \in {"user", "assistant"} :
         /\ over[s] => kind = "user"
         /\ LET n == IF half[s] # 0 THEN half[s] ELSE written[s] + 1
            IN  /\ rows' = [rows EXCEPT ![s] = Append(@, [kind |-> kind, n |-> n])]
                /\ written' = [written EXCEPT ![s] = n]
    /\ half' = [half EXCEPT ![s] = 0] /\ over' = [over EXCEPT ![s] = FALSE]
    /\ UNCHANGED <<agent, state, upgrades, lock, proc, faults, historyVars>>

\* A conversation is rewound: the transcript keeps its first k rows.
Truncate(s) ==
    /\ Fault /\ ~ AgentWaits(s)
    /\ \E k \in 0..(Len(rows[s]) - 1) : rows' = [rows EXCEPT ![s] = SubSeq(@, 1, k)]
    /\ half' = [half EXCEPT ![s] = 0] /\ over' = [over EXCEPT ![s] = TRUE]
    /\ Excuse({s}, "truncated")
    /\ UNCHANGED <<agent, written, state, upgrades, lock, proc, delivered, twice, numbers, failed, cut>>

-----------------------------------------------------------------------------
(* Which transcript a hook reads: own is the subagent's, if the payload    *)
(* has one.                                                                *)

ClaudeTranscript(main, own, event) == IF own # None THEN own ELSE main
QoderTranscript(main, own, event) == IF event = "SubagentStop" THEN own ELSE main
QoderWorkTranscript(main, own, event) == QoderTranscript(main, own, event)

Transcript(main, own, event) ==
    CASE agent = "claude-code" -> ClaudeTranscript(main, own, event)
      [] agent = "qoder" -> QoderTranscript(main, own, event)
      [] agent = "qoderwork" -> QoderWorkTranscript(main, own, event)

\* A turn of s is over: the agent calls the hook and waits.
Stopped(s) == ~ over[s] /\ half[s] = 0 /\ Last(rows[s]).kind = "assistant"

\* Stop at the end of a turn; SubagentStop while the main agent's turn goes on.  A
\* subagent's own transcript is a session like the others, over when its hook is called.
Start(p, s) ==
    /\ At(p, "idle")
    /\ \E own \in Sessions \cup {None}, event \in {"Stop", "SubagentStop"} :
         LET t == Transcript(s, own, event)
         IN  /\ own # s /\ (event = "Stop" => own = None)
             /\ event = "Stop" => Stopped(s)
             /\ own # None => Stopped(own)
             /\ t # None
             /\ proc' = [proc EXCEPT ![p] = [Idle EXCEPT !.pc = "lock", !.session = t, !.file = upgrades,
                                                         !.stop = (event = "Stop" \/ t = own)]]
             /\ over' = [over EXCEPT ![t] = @ \/ event = "Stop" \/ t = own]
    /\ UNCHANGED <<agent, rows, written, half, state, upgrades, lock, faults, historyVars>>

-----------------------------------------------------------------------------
(* main(), from the lock on.                                               *)

LockIgnored(p) == TRUE                               \* mutant: the lock is not waited for

LockFree(p) == lock[proc[p].file] = None

\* Two seconds without the lock: the process ends, the rows wait for the next hook.
GiveUp(p) ==
    /\ At(p, "lock") /\ ~ LockFree(p)
    /\ Ends(p)
    /\ UNCHANGED <<agent, worldVars, state, upgrades, lock, faults, historyVars>>

\* The prompt of the turn that the first k rows of s end with (a history's helper).
Prompt(s, k) == Max({0} \cup {rows[s][i].n : i \in {j \in 1..k : rows[s][j].kind = "user"}})

RowsBehind(s, k) ==
    [i \in 1..(Len(rows[s]) - k) |->
        [kind |-> rows[s][k + i].kind, id |-> NoId, tool |-> NoTool, bare |-> FALSE,
         ts |-> rows[s][k + i].n, n |-> rows[s][k + i].n]]

NewRowsNoBuffer(s, ss) ==                            \* mutant: the partial line is dropped
    RowsBehind(s, Min({(ss.offset + 1) \div 2, Len(rows[s])}))

\* The rows of session s that end behind offset, complete and not torn.  A row whose
\* first half was read before is joined with the buffer.
NewRows(s, ss) ==
    LET k == ss.offset \div 2
        torn == ss.offset % 2 = 1 /\ k < Len(rows[s]) /\ rows[s][k + 1].n # ss.buffer
    IN  RowsBehind(s, IF torn THEN k + 1 ELSE k)

Size(s) == 2 * Len(rows[s]) + (IF half[s] # 0 THEN 1 ELSE 0)

\* A transcript that shrank is read from its beginning.
FromStart(s, ss) ==
    IF Size(s) < ss.offset THEN [ss EXCEPT !.offset = 0, !.buffer = 0] ELSE ss

ReadNewJsonl(s, ss) == [ss EXCEPT !.offset = Size(s), !.buffer = half[s]]

\* The state file, or nothing when it cannot be read.
LoadState == {state, <<>>}

LoadSession(m, s) == IF s \in DOMAIN m THEN m[s] ELSE NoEntry

\* The lock is taken, the state loaded, the new rows read.
ReadRows(p) ==
    /\ At(p, "lock") /\ LockFree(p)
    /\ lock' = [lock EXCEPT ![proc[p].file] = p]
    /\ \E m \in LoadState :
         LET s == proc[p].session
             ss == FromStart(s, LoadSession(m, s))
         IN  /\ IF m = state THEN UNCHANGED <<faults, excuse>>
                ELSE Fault /\ Excuse(DOMAIN state, "forgot")
             /\ proc' = [proc EXCEPT ![p].pc = "emit", ![p].state = m,
                                     ![p].ss = ReadNewJsonl(s, ss),
                                     ![p].turns = BuildTurns(agent, NewRows(s, ss))]
             /\ cut' = [cut EXCEPT ![s] = IF proc[p].stop THEN @ ELSE @ \cup {Prompt(s, Len(rows[s]))}]
    /\ UNCHANGED <<agent, worldVars, state, upgrades, delivered, twice, numbers, failed>>

-----------------------------------------------------------------------------
(* langstash_deliver: how many tiers hold a trace after deliver_trace, and *)
(* whether one of them did take it although the hook got no answer.        *)

Answer == [stored : BOOLEAN, ok : {FALSE}] \cup {[stored |-> TRUE, ok |-> TRUE]}
Refused == [stored |-> FALSE, ok |-> FALSE]

PostLangstash(enabled) == IF enabled THEN Answer ELSE {Refused}
PostLangfuseOtel(configured) == IF configured THEN Answer ELSE {Refused}
AppendFailedTrace == {[stored |-> TRUE, ok |-> TRUE], Refused}

Result(tried) ==
    [copies |-> Cardinality({i \in DOMAIN tried : tried[i].stored}),
     unanswered |-> \E i \in DOMAIN tried : tried[i].stored /\ ~ tried[i].ok]

DeliverToAll(enabled, configured) ==                 \* mutant: no return after a success
    {Result(<<a, b, c>>) : a \in PostLangstash(enabled), b \in PostLangfuseOtel(configured),
                           c \in AppendFailedTrace}

\* The tiers are tried until one takes the trace.
Tiers(a, b, c) == Result(IF a.ok THEN <<a>> ELSE IF b.ok THEN <<a, b>> ELSE <<a, b, c>>)

DeliverTrace(enabled, configured) ==
    {Tiers(a, b, c) : a \in PostLangstash(enabled), b \in PostLangfuseOtel(configured), c \in AppendFailedTrace}

\* Building a trace may raise: the turn counts as emitted all the same.
BuildRaises == [copies |-> 0, unanswered |-> FALSE]

RowsOf(turn) == {turn.user.n} \cup {b.n : b \in UNION {ToSet(turn.msgs[i].blocks) : i \in DOMAIN turn.msgs}}

EmitTurn(p) ==
    /\ At(p, "emit") /\ proc[p].emitted < Len(proc[p].turns)
    /\ LET s == proc[p].session
           turn == proc[p].turns[proc[p].emitted + 1]
           num == proc[p].ss.count + proc[p].emitted + 1
       IN  \E r \in DeliverTrace(TRUE, TRUE) \cup {BuildRaises} :
             /\ IF r.copies = 1 THEN UNCHANGED faults ELSE Fault
             /\ delivered' = [delivered EXCEPT ![s] = IF r.copies = 0 THEN @ ELSE @ \cup RowsOf(turn)]
             /\ failed' = [failed EXCEPT ![s] = IF r.copies > 0 THEN @ ELSE @ \cup RowsOf(turn)]
             /\ twice' = [twice EXCEPT ![s] =
                    IF r.copies > 1 \/ (r.copies = 1 /\ turn.user.n \in delivered[s])
                    THEN @ \cup {turn.user.n} ELSE @]
             /\ numbers' = [numbers EXCEPT ![s] = @ \cup {<<num, turn.user.n>>}]
             /\ IF r.copies > 1 /\ r.unanswered THEN Excuse({s}, "repeat") ELSE UNCHANGED excuse
    /\ proc' = [proc EXCEPT ![p].emitted = @ + 1]
    /\ UNCHANGED <<agent, worldVars, state, upgrades, lock, cut>>

WrittenUncounted(p) ==                               \* mutant: the turns are not counted
    With(proc[p].state, proc[p].session, [proc[p].ss EXCEPT !.old = FALSE])

\* The session's entry, written over what the process loaded.
Written(p) ==
    With(proc[p].state, proc[p].session, [proc[p].ss EXCEPT !.count = @ + proc[p].emitted, !.old = FALSE])

\* Claude Code and Qoder drop the entries not written for 30 days.
SaveState(m) == [s \in {x \in DOMAIN m : ~ m[x].old} |-> m[s]]

SaveBeside(m) == m                                   \* QoderWork does not

\* The turns are out: the file is replaced and the lock released.
Save(p) ==
    /\ At(p, "emit") /\ proc[p].emitted = Len(proc[p].turns)
    /\ state' = IF agent = "qoderwork" THEN SaveBeside(Written(p)) ELSE SaveState(Written(p))
    /\ Excuse(DOMAIN Written(p) \ DOMAIN state', "forgot")
    /\ lock' = Unlocked(p)
    /\ Ends(p)
    /\ UNCHANGED <<agent, worldVars, upgrades, faults, delivered, twice, numbers, failed, cut>>

\* Writing the file fails; the error is logged and that is all.
SaveFails(p) ==
    /\ At(p, "emit") /\ proc[p].emitted = Len(proc[p].turns)
    /\ Fault
    /\ IF proc[p].emitted > 0 THEN Excuse({proc[p].session}, "repeat") ELSE UNCHANGED excuse
    /\ lock' = Unlocked(p)
    /\ Ends(p)
    /\ UNCHANGED <<agent, worldVars, state, upgrades, delivered, twice, numbers, failed, cut>>

\* The agent kills a hook that takes too long, or it dies; the kernel drops its lock.
Die(p) ==
    /\ ~ At(p, "idle")
    /\ Fault
    /\ IF proc[p].emitted > 0 THEN Excuse({proc[p].session}, "repeat") ELSE UNCHANGED excuse
    /\ lock' = Unlocked(p)
    /\ Ends(p)
    /\ UNCHANGED <<agent, worldVars, state, upgrades, delivered, twice, numbers, failed, cut>>

\* Thirty days pass without a hook.
MonthPasses ==
    /\ Fault /\ \A p \in Procs : At(p, "idle")
    /\ state' = [s \in DOMAIN state |-> [state[s] EXCEPT !.old = TRUE]]
    /\ UNCHANGED <<agent, worldVars, upgrades, lock, proc, historyVars>>

\* An upgrade runs the hook's uninstall.sh, which removes the state file and the lock
\* file, also under the processes that hold or wait for it, then install.sh.
UpgradeHook ==
    /\ upgrades < MaxUpgrades /\ faults + upgrades < MaxEvents /\ MoreRows
    /\ upgrades' = upgrades + 1
    /\ state' = <<>>
    /\ Excuse(Sessions, "forgot")
    /\ UNCHANGED <<agent, worldVars, lock, proc, faults, delivered, twice, numbers, failed, cut>>

-----------------------------------------------------------------------------
Init ==
    /\ agent \in Agents
    /\ rows = [s \in Sessions |-> <<>>]
    /\ written = [s \in Sessions |-> 0] /\ half = [s \in Sessions |-> 0]
    /\ state = <<>> /\ upgrades = 0 /\ lock = [g \in 0..MaxUpgrades |-> None]
    /\ proc = [p \in Procs |-> Idle] /\ faults = 0
    /\ delivered = [s \in Sessions |-> {}] /\ twice = [s \in Sessions |-> {}]
    /\ numbers = [s \in Sessions |-> {}] /\ failed = [s \in Sessions |-> {}]
    /\ over = [s \in Sessions |-> TRUE]
    /\ cut = [s \in Sessions |-> {}] /\ excuse = [s \in Sessions |-> {}]

Next ==
    \/ \E s \in Sessions : WriteHalf(s) \/ WriteRow(s) \/ Truncate(s)
    \/ \E p \in Procs, s \in Sessions : Start(p, s)
    \/ \E p \in Procs : GiveUp(p) \/ ReadRows(p) \/ EmitTurn(p)
                        \/ Save(p) \/ SaveFails(p) \/ Die(p)
    \/ MonthPasses \/ UpgradeHook

Spec == Init /\ [][Next]_vars

-----------------------------------------------------------------------------
(* Properties.                                                             *)

PastLock(p) == At(p, "emit")

\* Two processes are past the lock at a time only if an upgrade removed the lock file
\* of one of them (FileLock): nobody else's death, timeout or end lets a second one in.
OneProcessPerLock ==
    \A p, q \in Procs :
        PastLock(p) /\ PastLock(q) /\ proc[p].file = proc[q].file => p = q

\* The rows of s the state file says are done.
Done(s) ==
    {rows[s][k].n : k \in {k \in DOMAIN rows[s] : s \in DOMAIN state /\ 2 * k <= state[s].offset}}

\* An answer behind which the saved offset has moved is in a delivered trace together
\* with its prompt, whatever processes of other sessions did, died or gave up: unless no
\* tier took the trace, the transcript was rewound, or - Claude Code only, which reads the
\* main transcript when a SubagentStop brings no other - that turn was cut in two.
DoneIsDelivered ==
    \A s \in Sessions : \A k \in DOMAIN rows[s] :
        LET n == rows[s][k].n
        IN  n \in Done(s) /\ rows[s][k].kind = "assistant" /\ "truncated" \notin excuse[s] =>
              \/ {n, Prompt(s, k)} \subseteq delivered[s]
              \/ n \in failed[s]
              \/ Prompt(s, k) \in cut[s] /\ agent = "claude-code"

\* A turn is delivered twice only after a process of the same session died or could not
\* save behind a delivery, an answer was lost, the transcript was rewound, or the entry
\* was dropped from the state file or removed by an upgrade: no process undoes what one
\* of another session saved.
RepeatedOnlyAfterFault ==
    \A s \in Sessions : twice[s] # {} => excuse[s] # {}

\* Only new turns are emitted: no prompt is delivered twice (hooks/qoder/README.md:74).
OnlyNewTurns == \A s \in Sessions : twice[s] = {}

\* A turn number stands for one prompt, and a prompt that is delivered again keeps its
\* number, as long as the session's entry is not lost or its transcript rewound: a
\* process that repeats the turns of one that died counts them as that one did.
NumbersStable ==
    \A s \in Sessions : excuse[s] \cap {"forgot", "truncated"} = {} =>
        \A a, b \in numbers[s] : a[1] = b[1] <=> a[2] = b[2]
=============================================================================
