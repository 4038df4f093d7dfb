------------------------------- MODULE PiHook -------------------------------
(***************************************************************************)
(* The Pi extension (hooks/pi): one trace per agent run, delivered when    *)
(* the run ends or its session shuts down.  A checkpoint file per session  *)
(* holds the run up to its last finished turn; the next process that loads *)
(* the extension delivers the checkpoints it finds.                        *)
(*                                                                         *)
(* A run is its number and the turns recorded in it (PiRun has what is in  *)
(* a turn).  Handlers wait for deliveries, and Pi is not assumed to wait   *)
(* for them before its next event; what goes wrong only then is excused.   *)
(***************************************************************************)
EXTENDS Integers, Sequences, FiniteSets, SequencesExt, FiniteSetsExt

CONSTANTS
    Procs,          \* Pi processes that may run at the same time
    Sessions,       \* session ids; "" (no session file) is one of them
    NoSession,
    MaxRuns, MaxTurns, MaxStarts, MaxFaults    \* bounds

VARIABLES
    pi,         \* by process: its stage, the recovery's locals, sessions and waiting handlers
    file,       \* by session: the run in its checkpoint file
    turnsOf,    \* by run: turns its agent has finished, -1 before it starts
    got,        \* history: by run, its traces that some tier took
    scored,     \* history: <<run, its turns in the trace, the count in it, the score sent>>
    excuse,     \* history: <<run, what the hook does not make up for>>
    starts, faults

vars == <<pi, file, turnsOf, got, scored, excuse, starts, faults>>

Runs == 1..MaxRuns
NoRun == [id |-> 0, turns |-> 0, emitted |-> FALSE]
NoState == [run |-> NoRun, turnCount |-> 0]
NotHeld == [session |-> NoSession, run |-> NoRun]
Off == [stage |-> "off", names |-> {}, held |-> NotHeld, found |-> <<>>,
        agent |-> [s \in Sessions |-> 0], state |-> [s \in Sessions |-> NoState], calls |-> {}]

Fault == faults < MaxFaults /\ faults' = faults + 1
NoFault == UNCHANGED faults
TurnsLeft == MapThenSumSet(LAMBDA r : Max({0, turnsOf[r]}), Runs) < MaxTurns
Excuse(S, what) == (S \ {0}) \X {what}
NoExcuse == UNCHANGED excuse
Excused(r, whats) == \E w \in whats : <<r, w>> \in excuse

\* Runs of other processes than p that are under way or being delivered.
InHandOf(q) == {pi[q].agent[s] : s \in Sessions} \cup {c.run.id : c \in pi[q].calls}
                 \cup {pi[q].held.run.id} \cup {f.id : f \in ToSet(pi[q].found)}
InHand(p) == UNION {InHandOf(q) : q \in Procs \ {p}}

\* Runs whose delivery p's handlers of session s wait for.
Waiting(p, s) == {c.run.id : c \in {x \in pi[p].calls : x.session = s}}

-----------------------------------------------------------------------------
(* deliverTrace: a tier takes the trace; or two do, when the answer of the *)
(* first is lost; or none, when the failed log cannot be written.          *)

Taken(r, times) ==
    /\ got' = [got EXCEPT ![r.id] = @ \o [k \in 1..times |-> r.turns]]
    /\ IF times = 1 THEN NoFault ELSE Fault

DeliveryExcuse(r, times) ==
    excuse' = excuse \cup (IF times = 1 THEN {} ELSE {<<r.id, IF times = 0 THEN "refused" ELSE "answer lost">>})

-----------------------------------------------------------------------------
(* Loading the extension: every checkpoint is read, removed and delivered. *)

Load(p) ==
    /\ pi[p].stage = "off" /\ starts < MaxStarts
    /\ pi' = [pi EXCEPT ![p] = [Off EXCEPT !.stage = "loading", !.names = {s \in Sessions : file[s] # NoRun}]]
    /\ starts' = starts + 1
    /\ UNCHANGED <<file, turnsOf, got, scored, excuse, faults>>

\* A file that is gone by now is an unreadable one.  Nothing says whose it is.
ReadCheckpoint(p) ==
    /\ pi[p].stage = "loading" /\ pi[p].held = NotHeld
    /\ \E s \in pi[p].names :
         /\ pi' = [pi EXCEPT ![p].names = @ \ {s}, ![p].held = [session |-> s, run |-> file[s]]]
         /\ excuse' = excuse \cup Excuse({file[s].id} \cap InHand(p), "raced")
    /\ UNCHANGED <<file, turnsOf, got, scored, starts, faults>>

ForgetCheckpoint(p) ==                    \* mutant: removed and not delivered
    /\ pi[p].held # NotHeld
    /\ file' = [file EXCEPT ![pi[p].held.session] = NoRun]
    /\ pi' = [pi EXCEPT ![p].held = NotHeld]
    /\ excuse' = excuse \cup Excuse({file[pi[p].held.session].id} \ {pi[p].held.run.id}, "raced")
    /\ UNCHANGED <<turnsOf, got, scored, starts, faults>>

KeepCheckpoint(p) ==                      \* mutant: delivered and not removed
    /\ pi[p].held # NotHeld
    /\ pi' = [pi EXCEPT ![p].held = NotHeld,
                        ![p].found = IF pi[p].held.run = NoRun THEN @ ELSE Append(@, pi[p].held.run)]
    /\ UNCHANGED <<file, turnsOf, got, scored, excuse, starts, faults>>

RemoveCheckpoint(p) ==
    LET held == pi[p].held
    IN  /\ held # NotHeld
        /\ file' = [file EXCEPT ![held.session] = NoRun]
        /\ pi' = [pi EXCEPT ![p].held = NotHeld,
                            ![p].found = IF held.run = NoRun THEN @ ELSE Append(@, held.run)]
        /\ excuse' = excuse \cup Excuse({file[held.session].id} \ {held.run.id}, "raced")
        /\ UNCHANGED <<turnsOf, got, scored, starts, faults>>

Recover(p) ==
    /\ pi[p].stage = "loading" /\ pi[p].names = {} /\ pi[p].held = NotHeld /\ pi[p].found # <<>>
    /\ \E times \in 0..2 : Taken(Head(pi[p].found), times) /\ DeliveryExcuse(Head(pi[p].found), times)
    /\ pi' = [pi EXCEPT ![p].found = Tail(@)]
    /\ UNCHANGED <<file, turnsOf, scored, starts>>

Loaded(p) ==
    /\ pi[p].stage = "loading" /\ pi[p].names = {} /\ pi[p].held = NotHeld /\ pi[p].found = <<>>
    /\ pi' = [pi EXCEPT ![p].stage = "up"]
    /\ UNCHANGED <<file, turnsOf, got, scored, excuse, starts, faults>>

-----------------------------------------------------------------------------
(* The checkpoint file of a session.                                       *)

Write(s, run) == file' = [file EXCEPT ![s] = [run EXCEPT !.emitted = FALSE]]
Clear(s) == file' = [file EXCEPT ![s] = NoRun]

\* Writing or clearing it when another run than r is in it.
Replaced(s, r) == {file[s].id} \ {0, r}

-----------------------------------------------------------------------------
(* Events of a session.                                                    *)

Up(p) == pi[p].stage = "up"

SessionStart(p, s) ==
    /\ Up(p) /\ pi[p].agent[s] = 0
    /\ pi' = [pi EXCEPT ![p].state[s] = NoState]
    /\ excuse' = excuse \cup Excuse(Waiting(p, s), "overtaken")
    /\ UNCHANGED <<file, turnsOf, got, scored, starts, faults>>

\* startAgentRun: a run that is not emitted goes on.
RunOrNew(run, r) ==
    IF run # NoRun /\ ~ run.emitted THEN run ELSE [id |-> r, turns |-> 0, emitted |-> FALSE]

BeforeAgentStart(p, s) ==
    /\ Up(p) /\ pi[p].agent[s] = 0
    /\ \E r \in Runs :
         /\ \A q \in Runs : turnsOf[q] = -1 <=> q >= r
         /\ turnsOf' = [turnsOf EXCEPT ![r] = 0]
         /\ pi' = [pi EXCEPT ![p].agent[s] = r, ![p].state[s].run = RunOrNew(@, r)]
         /\ excuse' = excuse \cup Excuse(IF Waiting(p, s) = {} THEN {} ELSE {r}, "overtaken")
    /\ UNCHANGED <<file, got, scored, starts, faults>>

\* The second event of the same start.
AgentStart(p, s) ==
    /\ Up(p) /\ pi[p].agent[s] # 0
    /\ pi' = [pi EXCEPT ![p].state[s].run = RunOrNew(@, pi[p].agent[s])]
    /\ UNCHANGED <<file, turnsOf, got, scored, excuse, starts, faults>>

CheckpointBeforeTurn(run) == [run EXCEPT !.turns = @ - 1]    \* mutant: without the turn that ends
CheckpointOf(run) == run

\* The turn is counted by the session, too; a failed write is only logged.
TurnEnd(p, s) ==
    LET r == pi[p].agent[s]
        run == [pi[p].state[s].run EXCEPT !.turns = @ + 1]
    IN  /\ Up(p) /\ r # 0 /\ TurnsLeft
        /\ turnsOf' = [turnsOf EXCEPT ![r] = @ + 1]
        /\ pi' = [pi EXCEPT ![p].state[s] = [run |-> IF @.run = NoRun THEN NoRun ELSE run,
                                             turnCount |-> @.turnCount + 1]]
        /\ \E written \in (IF run.id = 0 THEN {FALSE} ELSE BOOLEAN) :
             /\ IF written THEN Write(s, CheckpointOf(run)) ELSE UNCHANGED file
             /\ excuse' = excuse \cup Excuse(Waiting(p, s), "overtaken")
                           \cup (IF written THEN Excuse(Replaced(s, run.id), "replaced")
                                            ELSE Excuse({run.id}, "not written"))
        /\ UNCHANGED <<got, scored, starts, faults>>

\* Marked emitted, the run is handed to a handler of kind that waits for its delivery.
Call(s, kind, st) ==
    [session |-> s, kind |-> kind, run |-> [st.run EXCEPT !.emitted = TRUE], count |-> st.turnCount, sent |-> FALSE]
Emitting(p, s, kind) ==
    [pi EXCEPT ![p].calls = @ \cup {Call(s, kind, pi[p].state[s])},
               ![p].agent[s] = 0, ![p].state[s].run.emitted = TRUE]

\* finishAgentRun; the checkpoint goes before the run is delivered.
AgentEnd(p, s) ==
    LET run == pi[p].state[s].run
    IN  /\ Up(p) /\ pi[p].agent[s] # 0
        /\ Clear(s)
        /\ excuse' = excuse \cup Excuse(Replaced(s, run.id), "replaced") \cup Excuse(Waiting(p, s), "overtaken")
        /\ pi' = IF run # NoRun /\ ~ run.emitted THEN Emitting(p, s, "end")
                 ELSE [pi EXCEPT ![p].agent[s] = 0, ![p].state[s] = NoState]
        /\ UNCHANGED <<turnsOf, got, scored, starts, faults>>

\* A run that did not end is delivered as cancelled; else nothing is.
Shutdown(p, s) ==
    LET run == pi[p].state[s].run
    IN  /\ Up(p)
        /\ excuse' = excuse \cup Excuse(Waiting(p, s), "overtaken")
        /\ pi' = IF run # NoRun /\ ~ run.emitted THEN Emitting(p, s, "shutdown")
                 ELSE [pi EXCEPT ![p].agent[s] = 0, ![p].state[s] = NoState]
        /\ UNCHANGED <<file, turnsOf, got, scored, starts, faults>>

\* The trace is taken; the scores are collected from what the session counts now.
Emit(p, c) ==
    /\ ~ c.sent
    /\ \E times \in 0..2 : Taken(c.run, times) /\ DeliveryExcuse(c.run, times)
    /\ scored' = scored \cup {<<c.run.id, c.run.turns, c.count, pi[p].state[c.session].turnCount>>}
    /\ pi' = [pi EXCEPT ![p].calls = (@ \ {c}) \cup {[c EXCEPT !.sent = TRUE]}]
    /\ UNCHANGED <<file, turnsOf, starts>>

ResetAll(p, s) == [x \in Sessions |-> NoState]      \* mutant: the state of every session goes
ResetRunState(p, s) == [pi[p].state EXCEPT ![s] = NoState]

\* The handler goes on after the scores: what began in the session meanwhile is dropped.
Finish(p, c) ==
    LET s == c.session
        run == pi[p].state[s].run
    IN  /\ c.sent
        /\ pi' = [pi EXCEPT ![p].calls = @ \ {c}, ![p].state = ResetRunState(p, s)]
        /\ IF c.kind = "shutdown" THEN Clear(s) ELSE UNCHANGED file
        /\ excuse' = excuse \cup Excuse(IF run.emitted THEN {} ELSE {run.id}, "reset")
                      \cup Excuse(Waiting(p, s) \ {c.run.id}, "overtaken")
                      \cup (IF c.kind = "shutdown" THEN Excuse(Replaced(s, c.run.id), "replaced") ELSE {})
        /\ UNCHANGED <<turnsOf, got, scored, starts, faults>>

-----------------------------------------------------------------------------
(* The end of a process.                                                   *)

Quit(p) ==
    /\ Up(p) /\ pi[p].calls = {} /\ \A s \in Sessions : pi[p].agent[s] = 0
    /\ pi' = [pi EXCEPT ![p] = Off]
    /\ UNCHANGED <<file, turnsOf, got, scored, excuse, starts, faults>>

\* Killed, or gone while a handler waits.
Kill(p) ==
    LET last(kind, sent) == {c.run.id : c \in {x \in pi[p].calls : x.kind = kind /\ x.sent = sent}}
    IN  /\ pi[p].stage # "off" /\ Fault
        /\ pi' = [pi EXCEPT ![p] = Off]
        /\ excuse' = excuse \cup Excuse(last("end", FALSE) \cup {f.id : f \in ToSet(pi[p].found)}, "cleared")
                      \cup Excuse(last("shutdown", TRUE), "not cleared")
                      \cup Excuse({r \in InHandOf(p) \ {0} : turnsOf[r] = 0}, "first turn")
        /\ UNCHANGED <<file, turnsOf, got, scored, starts>>

Next ==
    \E p \in Procs :
      \/ Load(p) \/ ReadCheckpoint(p) \/ RemoveCheckpoint(p) \/ Recover(p) \/ Loaded(p)
      \/ \E s \in Sessions : SessionStart(p, s) \/ BeforeAgentStart(p, s) \/ AgentStart(p, s)
                              \/ TurnEnd(p, s) \/ AgentEnd(p, s) \/ Shutdown(p, s)
      \/ \E c \in pi[p].calls : Emit(p, c) \/ Finish(p, c)
      \/ Quit(p) \/ Kill(p)

Init ==
    /\ pi = [p \in Procs |-> Off] /\ file = [s \in Sessions |-> NoRun]
    /\ turnsOf = [r \in Runs |-> -1] /\ got = [r \in Runs |-> <<>>]
    /\ scored = {} /\ excuse = {} /\ starts = 0 /\ faults = 0

Spec == Init /\ [][Next]_vars

-----------------------------------------------------------------------------
(* Properties.                                                             *)

\* Where a run still is, or where it went, as far as it was recorded there.
Copies(r) ==
    ToSet(got[r]) \cup
    {c.turns : c \in {x \in {file[s] : s \in Sessions}
                        \cup (UNION {{pi[p].state[s].run : s \in Sessions} : p \in Procs})
                        \cup (UNION {ToSet(pi[p].found) \cup {k.run : k \in pi[p].calls} : p \in Procs})
                     : x.id = r}}

\* "At most the last unfinished turn is lost, never the whole trace" (hooks/pi/README.md:89),
\* with its exceptions: a run has all its finished turns in a trace, a checkpoint or in memory,
\* unless a process died in the recovery or in agent_end before the delivery (the checkpoint is
\* cleared first), another process's recovery took the checkpoint of a live run, another run
\* was written to the session's checkpoint, the run was reset, or nothing could be written.
RunsReported ==
    \A r \in Runs :
        turnsOf[r] >= 0 =>
            \/ turnsOf[r] \in Copies(r)
            \/ Excused(r, {"cleared", "raced", "replaced", "reset", "not written", "refused", "first turn"})

\* A run is one trace, unless a process loads the extension while the run is alive or being
\* recovered (index.ts:49), dies between the delivery and the clearing, or lost an answer.
RunsReportedOnce ==
    \A r \in Runs : Len(got[r]) > 1 => Excused(r, {"raced", "not cleared", "answer lost"})

\* The count in a trace and the score sent after it are the turns of its run, unless other
\* events of the session came during the delivery (score.ts:38 counts when it is over).
ScoresAreOfTheRun ==
    \A x \in scored : ~ Excused(x[1], {"overtaken"}) => x[2] = x[3] /\ x[3] = x[4]

\* "The same run must not be emitted and recovered as a second trace"
\* (docs/specs/20260731-pi-trace-delivery.md:70).
OneTracePerRun == \A r \in Runs : Len(got[r]) <= 1
=============================================================================
