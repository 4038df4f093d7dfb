------------------------------- MODULE MCTurns -------------------------------
(***************************************************************************)
(* Every transcript of up to MaxTranscript rows of the kinds in RowKinds,  *)
(* and every database of up to MaxChat records, against definitions that   *)
(* do not go row by row.  Row n is stamped n, or not at all.               *)
(***************************************************************************)
EXTENDS Turns

CONSTANTS
    RowIds, RowTools,           \* message ids and tools that rows name
    RowKinds,                   \* what a row may be, but for its place and time
    MaxTranscript, MaxChat      \* bounds

ASSUME TurnsAssumption ==
    /\ RowKinds \subseteq [kind : {"user", "result", "assistant", "system"}, id : RowIds, tool : RowTools,
                           bare : BOOLEAN, stamped : BOOLEAN]
    /\ MaxTranscript \in Nat

VARIABLES transcript, chat

TurnsInit == transcript = <<>> /\ chat = <<>>

AgentWrites ==
    /\ Len(transcript) + Len(chat) < MaxTranscript
    /\ \E r \in RowKinds :
         LET n == Len(transcript) + 1
         IN  transcript' = Append(transcript, [kind |-> r.kind, id |-> r.id, tool |-> r.tool, bare |-> r.bare,
                                               n |-> n, ts |-> IF r.stamped THEN n ELSE 0])
    /\ UNCHANGED chat

IdeWrites ==
    /\ Len(chat) < MaxChat /\ transcript = <<>>
    /\ \E t \in 1..MaxTranscript : chat' = Append(chat, t)
    /\ UNCHANGED transcript

TurnsNext == AgentWrites \/ IdeWrites

turnsVars == <<transcript, chat>>
TurnsSpec == TurnsInit /\ [][TurnsNext]_turnsVars

-----------------------------------------------------------------------------
\* Rows listed by place.
Lists(s, S) == ToSet(s) = S /\ \A i, j \in DOMAIN s : i < j => s[i].n < s[j].n

Between(i, j) == {x \in ToSet(transcript) : (i < x.n /\ x.n < j) \/ (j < x.n /\ x.n < i)}

\* The rows of a kind that belong to a prompt: those up to the next prompt.
Following(u, kind) ==
    {r \in ToSet(transcript) : r.kind = kind /\ r.n > u.n /\ \A x \in Between(u.n, r.n) : x.kind # "user"}

AnswersOf(u) == Following(u, "assistant")
ResultsOf(u) == {r \in Following(u, "result") : r.tool # NoTool}

\* Two rows are of one message: Claude Code goes by the id only, the others
\* also join answers without id that no result, prompt or answer with an id separates.
OneMessage(agent, r, s) ==
    \/ r = s
    \/ r.id = s.id /\ r.id # NoId
    \/ /\ agent # "claude-code" /\ r.id = NoId /\ s.id = NoId
       /\ \A x \in Between(r.n, s.n) : x.kind = "system" \/ (x.kind = "assistant" /\ x.id = NoId)

\* The rows of a message whose blocks are kept.
Kept(agent, message) ==
    LET latest == {r \in message : \A s \in message : s.n <= r.n}
        earliest == {r \in message : \A s \in message : r.n <= s.n}
    IN  IF agent = "claude-code" THEN latest
        ELSE IF \E r \in earliest : r.bare THEN earliest ELSE message

MessageOf(agent, u, r) == {s \in AnswersOf(u) : OneMessage(agent, r, s)}

\* A turn has all answers of its prompt, message by message, and the last result of every tool.
TurnByDefinition(agent, turn) ==
    LET Of(m) == MessageOf(agent, turn.user, m.blocks[1])
        results == ResultsOf(turn.user)
    IN  /\ \A r \in AnswersOf(turn.user) : \E k \in DOMAIN turn.msgs : r \in Of(turn.msgs[k])
        /\ \A k \in DOMAIN turn.msgs : Lists(turn.msgs[k].blocks, Kept(agent, Of(turn.msgs[k])))
        /\ \A j, k \in DOMAIN turn.msgs :
             j < k => \E r \in Of(turn.msgs[j]) : \A s \in Of(turn.msgs[k]) : r.n < s.n
        /\ DOMAIN turn.results = {r.tool : r \in results}
        /\ \A r \in results :
             (\A s \in results : s.tool = r.tool => s.n <= r.n) => turn.results[r.tool] = r.ts

\* Every prompt that got an answer is one such turn (build_turns in the three hooks): no
\* row is taken twice, moved to another turn or lost, but what the code overwrites.
TurnsByDefinition ==
    \A agent \in Agents :
        LET turns == BuildTurns(agent, transcript)
        IN  /\ Lists([i \in DOMAIN turns |-> turns[i].user],
                     {u \in ToSet(transcript) : u.kind = "user" /\ AnswersOf(u) # {}})
            /\ \A i \in DOMAIN turns : TurnByDefinition(agent, turns[i])

\* The rows from the first prompt among them on.
FromPrompt(rs) ==
    LET prompts == {i \in DOMAIN rs : rs[i].kind = "user"}
    IN  IF prompts = {} THEN <<>> ELSE SubSeq(rs, Min(prompts), Len(rs))

\* Rows read by two calls of the hook make the turns that would be there if the rows
\* between the cut and the next prompt had never been written: the later call ignores
\* answers whose prompt an earlier one consumed, and changes no other turn
\* (main: the offset moves to the end of what was read, whole turn or not).
CutLosesOnlyTail ==
    \A agent \in Agents, cut \in 0..Len(transcript) :
        LET head == SubSeq(transcript, 1, cut)
            tail == SubSeq(transcript, cut + 1, Len(transcript))
        IN  BuildTurns(agent, head) \o BuildTurns(agent, tail) = BuildTurns(agent, head \o FromPrompt(tail))

\* The order rows have in a transcript of the agent: all are stamped, a message has ended
\* (as its hook has it) before the next begins, and so have its tools.
InOrder(agent, turn) ==
    /\ \A r \in ToSet(transcript) : r.ts # 0
    /\ \A k \in DOMAIN turn.msgs :
         /\ k > 1 => LastTs(agent, turn.msgs[k - 1]) < turn.msgs[k].ts
         /\ \A t \in ToolsOf(turn.msgs[k]) :
              ResultTs(turn, t) # 0 =>
                  /\ turn.msgs[k].ts < ResultTs(turn, t)
                  /\ k < Len(turn.msgs) => ResultTs(turn, t) < turn.msgs[k + 1].ts

\* Then the spans of a turn nest: no span ends before it starts, tools lie in their
\* generation, generations follow each other and lie in the root (build_otlp_json).
SpansNest ==
    \A agent \in Agents : \A turn \in ToSet(BuildTurns(agent, transcript)) :
        InOrder(agent, turn) =>
            LET s == Otlp(agent, turn)
                Inside(a, b) == b.start <= a.start /\ a.start <= a.end /\ a.end <= b.end
            IN  \A k \in DOMAIN s.gens :
                  /\ Inside(s.gens[k], s.root)
                  /\ k > 1 => s.gens[k - 1].end <= s.gens[k].start
                  /\ \A t \in DOMAIN s.gens[k].tools : Inside(s.gens[k].tools[t], s.gens[k])

\* In one run of the Qoder hook no token record is counted twice, none is given to a
\* message outside the window, and a message stays without one only when every record
\* in its window went to another message (match_db_token, qoder/langfuse_hook.py:101).
TokensCountedOnce ==
    LET db == QuerySessionTokens(chat)
        msgs == FlattenSeq([i \in DOMAIN BuildTurns("qoder", transcript) |-> BuildTurns("qoder", transcript)[i].msgs])
        got == EnrichTurns(db, msgs)
    IN  \A k \in DOMAIN got :
          /\ \A j \in 1..(k - 1) : got[k] # 0 => got[j] # got[k]
          /\ got[k] # 0 => Distance(db[got[k]], msgs[k].ts) < Window
          /\ got[k] = 0 /\ msgs[k].ts # 0 =>
               {i \in DOMAIN db : Distance(db[i], msgs[k].ts) < Window} \subseteq ToSet(got)
=============================================================================
