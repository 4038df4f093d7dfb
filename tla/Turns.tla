-------------------------------- MODULE Turns --------------------------------
(***************************************************************************)
(* What the Python hooks make of transcript rows: turns (build_turns), the *)
(* times of their spans (build_otlp_json) and, for Qoder, the token        *)
(* records of the IDE's database (match_db_token).                         *)
(*                                                                         *)
(* A row is a record: its kind, the id of its message, the tool its one    *)
(* content block uses or answers, whether the content is at the top level  *)
(* of the row (bare) and not under "message", its timestamp and its place  *)
(* n in the transcript, which also stands for the block.  Texts, models,   *)
(* attributes and truncation are left out.                                 *)
(***************************************************************************)
EXTENDS Integers, Sequences, FiniteSets, TLC, SequencesExt, FiniteSetsExt

CONSTANTS
    NoId, NoTool,   \* a row without message id; a block that is no tool use or result
    Now,            \* the hook's clock, later than every timestamp
    Window          \* match_db_token's tolerance

Agents == {"claude-code", "qoder", "qoderwork"}

\* Python's `a or b` of two times, 0 standing for None.
Or(a, b) == IF a # 0 THEN a ELSE b

\* Python's d[k] = v.
With(d, k, v) == [x \in DOMAIN d \cup {k} |-> IF x = k THEN v ELSE d[x]]

-----------------------------------------------------------------------------
(* build_turns: one pass over the rows just read.  st holds its locals.    *)

NoUser == [n |-> 0]

Locals == [user |-> NoUser, order |-> <<>>, msgs |-> <<>>, results |-> <<>>,
           group |-> 0, noid |-> FALSE, turns |-> <<>>]

Message(r) == [blocks |-> <<r>>, bare |-> r.bare, ts |-> r.ts, end |-> 0]

FlushTurn(st) ==
    IF st.user = NoUser \/ st.order = <<>> THEN st.turns
    ELSE Append(st.turns, [user |-> st.user, results |-> st.results,
                           msgs |-> [i \in DOMAIN st.order |-> st.msgs[st.order[i]]]])

ToolResult(st, r) ==
    [st EXCEPT !.noid = FALSE,
               !.results = IF r.tool = NoTool THEN @ ELSE With(@, r.tool, r.ts)]

UserRowKeepingResults(st, r) ==                       \* mutant: no reset of the results
    [Locals EXCEPT !.user = r, !.turns = FlushTurn(st), !.results = st.results]

UserRow(st, r) == [Locals EXCEPT !.user = r, !.turns = FlushTurn(st)]

Put(st, mid, m) ==
    [st EXCEPT !.order = IF mid \in DOMAIN st.msgs THEN @ ELSE Append(@, mid),
               !.msgs = With(@, mid, m)]

\* Claude Code: the latest row of a message id wins, every row without id is a message.
LatestRow(st, r) ==
    Put(st, IF r.id # NoId THEN <<r.id, 0>> ELSE <<NoId, Len(st.order)>>, Message(r))

\* Qoder: a row of a known message adds its block, unless the first row's
\* content is not under "message"; then only the end time is kept.
MergeAssistantContent(m, r) ==
    [m EXCEPT !.blocks = IF m.bare THEN @ ELSE Append(@, r), !.end = Or(r.ts, @)]

MergedByLastId(st, r) ==                             \* mutant: groups are not separated
    LET mid == <<r.id, 0>>
    IN  Put(st, mid, IF mid \in DOMAIN st.msgs THEN MergeAssistantContent(st.msgs[mid], r)
                     ELSE Message(r))

MergedRow(st, r) ==
    LET group == IF r.id = NoId /\ ~st.noid THEN st.group + 1 ELSE st.group
        mid == IF r.id # NoId THEN <<r.id, 0>> ELSE <<NoId, group>>
    IN  Put([st EXCEPT !.group = group, !.noid = (r.id = NoId)], mid,
            IF mid \in DOMAIN st.msgs THEN MergeAssistantContent(st.msgs[mid], r)
            ELSE Message(r))

NextRow(st, r, merges) ==
    CASE r.kind = "result" -> ToolResult(st, r)
      [] r.kind = "user" -> UserRow(st, r)
      [] r.kind = "assistant" /\ st.user # NoUser -> IF merges THEN MergedRow(st, r) ELSE LatestRow(st, r)
      [] OTHER -> st

\* The locals after each row.
Pass(rows, merges) ==
    LET locals[k \in 0..Len(rows)] == IF k = 0 THEN Locals ELSE NextRow(locals[k - 1], rows[k], merges)
    IN  locals

ClaudeTurns(rows) == FlushTurn(Pass(rows, FALSE)[Len(rows)])

QoderTurns(rows) == FlushTurn(Pass(rows, TRUE)[Len(rows)])

\* QoderWork's copy of the function, line for line.
QoderWorkTurns(rows) == QoderTurns(rows)

BuildTurns(agent, rows) ==
    CASE agent = "claude-code" -> ClaudeTurns(rows)
      [] agent = "qoder" -> QoderTurns(rows)
      [] agent = "qoderwork" -> QoderWorkTurns(rows)

-----------------------------------------------------------------------------
(* build_otlp_json: the root span of a turn, a generation for each message *)
(* and under it a span for each tool the message uses.                     *)

ToolsOf(m) == {b.tool : b \in ToSet(m.blocks)} \ {NoTool}

ResultTs(turn, tool) == IF tool \in DOMAIN turn.results THEN turn.results[tool] ELSE 0

\* batch_end: when the results of the message's tools came
BatchEnd(turn, m) == {ResultTs(turn, t) : t \in ToolsOf(m)} \ {0}

\* When a message ended: only Qoder's hook reads the time of its last row.
LastTs(agent, m) == IF agent = "qoder" THEN Or(m.end, m.ts) ELSE m.ts

RootSpan(agent, turn) ==
    LET last == LastTs(agent, Last(turn.msgs))
        ends == ({last} \cup {turn.results[t] : t \in DOMAIN turn.results}) \ {0}
        start == Or(turn.user.ts, Now)
        turnEnd == IF ends = {} THEN 0 ELSE Max(ends)
    IN  [start |-> start, end |-> Or(Or(turnEnd, turn.user.ts), start)]

PrevIsStart(agent, turn) ==                      \* mutant: prev_ts ignores tool results
    LET prev[k \in 0..Len(turn.msgs)] ==
          IF k = 0 THEN turn.user.ts ELSE Or(turn.msgs[k].ts, prev[k - 1])
    IN  prev

\* prev_ts when the message k + 1 is reached
PrevTs(agent, turn) ==
    LET prev[k \in 0..Len(turn.msgs)] ==
          IF k = 0 THEN turn.user.ts
          ELSE LET ends == BatchEnd(turn, turn.msgs[k])
               IN  IF ends # {} THEN Max(ends) ELSE Or(LastTs(agent, turn.msgs[k]), prev[k - 1])
    IN  prev

GenerationSpan(agent, turn, k) ==
    LET m == turn.msgs[k]
        prev == PrevTs(agent, turn)[k - 1]
        ends == BatchEnd(turn, m)
        start == Or(Or(prev, m.ts), RootSpan(agent, turn).start)
        end == Or(Or(IF ends # {} THEN Max(ends) ELSE LastTs(agent, m), Or(m.ts, prev)), start)
        toolStart == Or(m.ts, start)
    IN  [start |-> start, end |-> end,
         tools |-> [t \in ToolsOf(m) |->
                      [start |-> toolStart, end |-> Or(Or(ResultTs(turn, t), m.ts), toolStart)]]]

TurnSpans(agent, turn) ==
    [root |-> RootSpan(agent, turn),
     gens |-> [k \in DOMAIN turn.msgs |-> GenerationSpan(agent, turn, k)]]

ClaudeOtlp(turn) == TurnSpans("claude-code", turn)
QoderOtlp(turn) == TurnSpans("qoder", turn)
QoderWorkOtlp(turn) == TurnSpans("qoderwork", turn)

Otlp(agent, turn) ==
    CASE agent = "claude-code" -> ClaudeOtlp(turn)
      [] agent = "qoder" -> QoderOtlp(turn)
      [] agent = "qoderwork" -> QoderWorkOtlp(turn)

-----------------------------------------------------------------------------
(* Qoder's database: one record of token counts for each answer of the     *)
(* model, here the time it was created.                                    *)

\* A record behind all that are not later.
InsertByTime(db, t) == InsertAt(db, Cardinality({i \in DOMAIN db : db[i] <= t}) + 1, t)

\* The records as the query orders them.
QuerySessionTokens(chat) ==
    LET db[k \in 0..Len(chat)] == IF k = 0 THEN <<>> ELSE InsertByTime(db[k - 1], chat[k])
    IN  db[Len(chat)]

Distance(a, b) == IF a < b THEN b - a ELSE a - b

MatchAnyToken(db, ts, used) ==                       \* mutant: `used` is not looked at
    LET near == {i \in DOMAIN db : Distance(db[i], ts) < Window}
        least == Min({Distance(db[i], ts) : i \in near})
    IN  IF ts = 0 \/ near = {} THEN 0 ELSE Min({i \in near : Distance(db[i], ts) = least})

\* The record nearest in time, the first of equals; 0 if there is none in the window.
MatchDbToken(db, ts, used) ==
    LET near == {i \in DOMAIN db \ used : Distance(db[i], ts) < Window}
        least == Min({Distance(db[i], ts) : i \in near})
    IN  IF ts = 0 \/ near = {} THEN 0 ELSE Min({i \in near : Distance(db[i], ts) = least})

\* The record each message of a run gets, in the order main() builds the turns.
EnrichTurns(db, msgs) ==
    LET got[k \in 0..Len(msgs)] ==
          IF k = 0 THEN <<>>
          ELSE Append(got[k - 1], MatchDbToken(db, msgs[k].ts, ToSet(got[k - 1]) \ {0}))
    IN  got[Len(msgs)]
=============================================================================
