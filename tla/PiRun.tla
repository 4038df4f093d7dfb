-------------------------------- MODULE PiRun --------------------------------
(***************************************************************************)
(* The span records of one Pi agent run (hooks/pi/src/handlers, state.ts): *)
(* what the handlers of its events make of them, from the root that        *)
(* startAgentRun registers to the closing in finishAgentRun.  Pi sends the *)
(* start and the end of a tool twice each, a request with a key or none,   *)
(* and may repeat a request that got no answer or an error.                *)
(***************************************************************************)
EXTENDS Integers, Sequences, FiniteSets, SequencesExt, FiniteSetsExt

CONSTANTS
    Tools,          \* ids of tool calls
    Keys,           \* ids of provider requests
    NoKey,          \* an event without one
    MaxPiTurns, MaxRequests     \* bounds

VARIABLES
    spans,          \* the records, in the order they began; the first is the root
    activeTurn,     \* the place of the turn's record, 0 if there is none
    generations,    \* in order: [key, span, open]
    activeTools,    \* by tool call under way: its record
    toolCallCount, errorCount,
    requests,       \* provider requests Pi made
    said,           \* history: by turn, [message came, it found an open request, others were open]
    toolStage,      \* by tool: how far Pi is with it
    runOver

piRunVars == <<spans, activeTurn, generations, activeTools, toolCallCount, errorCount,
               requests, said, toolStage, runOver>>

Span(kind, parent, of, out, ended) ==
    [kind |-> kind, parent |-> parent, of |-> of, out |-> out, level |-> "DEFAULT", ended |-> ended]

Ended(ss, S) == [i \in DOMAIN ss |-> IF i \in S THEN [ss[i] EXCEPT !.ended = TRUE] ELSE ss[i]]

Cancelled(ss, S) ==
    [i \in DOMAIN ss |-> IF i \in S THEN [ss[i] EXCEPT !.ended = TRUE, !.level = "WARNING"] ELSE ss[i]]

Parent == IF activeTurn = 0 THEN 1 ELSE activeTurn

-----------------------------------------------------------------------------
(* Turns.                                                                  *)

TurnNo == Len(said)

\* A turn that is still active is closed.
StartTurnObservation ==
    /\ ~ runOver /\ TurnNo < MaxPiTurns
    /\ spans' = Append(Ended(spans, {activeTurn}), Span("turn", 1, NoKey, 0, FALSE))
    /\ activeTurn' = Len(spans) + 1
    /\ said' = Append(said, [came |-> FALSE, asked |-> FALSE, others |-> FALSE])
    /\ UNCHANGED <<generations, activeTools, toolCallCount, errorCount, requests, toolStage, runOver>>

RecordSessionCompact ==
    /\ ~ runOver /\ \A i \in DOMAIN spans : spans[i].kind # "session_compact"
    /\ spans' = Append(spans, Span("session_compact", Parent, NoKey, 0, TRUE))
    /\ UNCHANGED <<activeTurn, generations, activeTools, toolCallCount, errorCount, requests, said, toolStage, runOver>>

-----------------------------------------------------------------------------
(* Generations: one for every request whose key is new.                    *)

Open == {i \in DOMAIN generations : generations[i].open}
OpenGeneration == Max(Open)

StartGeneration ==
    /\ ~ runOver /\ activeTurn # 0 /\ ~ said[TurnNo].came /\ requests < MaxRequests
    /\ requests' = requests + 1
    /\ \E key \in Keys \cup {NoKey} :
         IF key # NoKey /\ \E i \in DOMAIN generations : generations[i].key = key
         THEN UNCHANGED <<spans, generations>>
         ELSE /\ spans' = Append(spans, Span("generation", Parent, key, 0, FALSE))
              /\ generations' = Append(generations, [key |-> key, span |-> Len(spans) + 1, open |-> TRUE])
    /\ UNCHANGED <<activeTurn, activeTools, toolCallCount, errorCount, said, toolStage, runOver>>

\* A response that is an error ends the generation of its key, else the newest open one.
UpdateGenerationMetadata ==
    /\ ~ runOver
    /\ \E key \in Keys \cup {NoKey} :
         LET same == {i \in DOMAIN generations : key # NoKey /\ generations[i].key = key}
             tracks == IF same # {} THEN same ELSE IF Open # {} THEN {OpenGeneration} ELSE {}
         IN  \E i \in tracks :
               /\ spans' = [Ended(spans, {generations[i].span}) EXCEPT ![generations[i].span].level = "ERROR"]
               /\ generations' = [generations EXCEPT ![i].open = FALSE]
    /\ UNCHANGED <<activeTurn, activeTools, toolCallCount, errorCount, requests, said, toolStage, runOver>>

\* finishGenerationFromMessage: message m is the output of the newest open generation.
FinishGeneration(ss, gs, m) ==
    LET open == {i \in DOMAIN gs : gs[i].open}
        track == Max(open)
    IN  IF open = {} THEN [spans |-> ss, generations |-> gs]
        ELSE [spans |-> [Ended(ss, {gs[track].span}) EXCEPT ![gs[track].span].out = m],
              generations |-> [gs EXCEPT ![track].open = FALSE]]

\* message_end: the assistant's message of the turn, by the number of the turn.
MessageEnd ==
    /\ ~ runOver /\ activeTurn # 0 /\ ~ said[TurnNo].came
    /\ LET f == FinishGeneration(spans, generations, TurnNo)
       IN  spans' = f.spans /\ generations' = f.generations
    /\ said' = [said EXCEPT ![TurnNo] = [came |-> TRUE, asked |-> Open # {}, others |-> Cardinality(Open) > 1]]
    /\ UNCHANGED <<activeTurn, activeTools, toolCallCount, errorCount, requests, toolStage, runOver>>

\* createFallbackGenerationFromTurn: for a run without any generation.
FallbackAlways(ss, gs, m) ==               \* mutant: for a turn that had a generation, too
    [spans |-> Append(ss, Span("generation", Parent, NoKey, m, TRUE)),
     generations |-> Append(gs, [key |-> NoKey, span |-> Len(ss) + 1, open |-> FALSE])]
Fallback(ss, gs, m) ==
    IF gs # <<>> THEN [spans |-> ss, generations |-> gs]
    ELSE [spans |-> Append(ss, Span("generation", Parent, NoKey, m, TRUE)),
          generations |-> <<[key |-> NoKey, span |-> Len(ss) + 1, open |-> FALSE]>>]

\* turn_end brings the message again.
TurnEnds ==
    /\ ~ runOver /\ activeTurn # 0
    /\ LET fallback == IF said[TurnNo].came THEN Fallback(spans, generations, TurnNo)
                       ELSE [spans |-> spans, generations |-> generations]
           f == IF said[TurnNo].came THEN FinishGeneration(fallback.spans, fallback.generations, TurnNo)
                ELSE fallback
       IN  spans' = Ended(f.spans, {activeTurn}) /\ generations' = f.generations
    /\ activeTurn' = 0
    /\ UNCHANGED <<activeTools, toolCallCount, errorCount, requests, said, toolStage, runOver>>

-----------------------------------------------------------------------------
(* Tools: tool_execution_start and tool_call, tool_result and              *)
(* tool_execution_end.                                                     *)

StartToolTwice(t) ==                       \* mutant: the second event counts again
    /\ ~ runOver /\ said # <<>> /\ toolStage[t] \in {"none", "started"}
    /\ spans' = Append(spans, Span("tool", Parent, t, 0, FALSE))
    /\ activeTools' = [x \in DOMAIN activeTools \cup {t} |-> IF x = t THEN Len(spans) + 1 ELSE activeTools[x]]
    /\ toolCallCount' = toolCallCount + 1
    /\ toolStage' = [toolStage EXCEPT ![t] = IF @ = "none" THEN "started" ELSE "called"]
    /\ UNCHANGED <<activeTurn, generations, errorCount, requests, said, runOver>>

StartToolObservation(t) ==
    /\ ~ runOver /\ said # <<>> /\ toolStage[t] \in {"none", "started"}
    /\ toolStage' = [toolStage EXCEPT ![t] = IF @ = "none" THEN "started" ELSE "called"]
    /\ IF t \in DOMAIN activeTools THEN UNCHANGED <<spans, activeTools, toolCallCount>>
       ELSE /\ spans' = Append(spans, Span("tool", Parent, t, 0, FALSE))
            /\ activeTools' = [x \in DOMAIN activeTools \cup {t} |->
                                 IF x = t THEN Len(spans) + 1 ELSE activeTools[x]]
            /\ toolCallCount' = toolCallCount + 1
    /\ UNCHANGED <<activeTurn, generations, errorCount, requests, said, runOver>>

FinishToolObservation(t) ==
    /\ ~ runOver /\ toolStage[t] \in {"called", "answered"}
    /\ toolStage' = [toolStage EXCEPT ![t] = IF @ = "called" THEN "answered" ELSE "done"]
    /\ \E isError \in BOOLEAN :
         IF t \notin DOMAIN activeTools THEN UNCHANGED <<spans, activeTools, errorCount>>
         ELSE /\ spans' = [Ended(spans, {activeTools[t]}) EXCEPT
                             ![activeTools[t]].level = IF isError THEN "ERROR" ELSE @]
              /\ activeTools' = [x \in DOMAIN activeTools \ {t} |-> activeTools[x]]
              /\ errorCount' = errorCount + (IF isError THEN 1 ELSE 0)
    /\ UNCHANGED <<activeTurn, generations, toolCallCount, requests, said, runOver>>

-----------------------------------------------------------------------------
(* agent_end, or a shutdown before it.                                     *)

CloseToolsOnly ==                          \* mutant: open generations are forgotten
    Cancelled(spans, {activeTools[t] : t \in DOMAIN activeTools})
CloseDanglingObservations ==
    Cancelled(spans, {activeTools[t] : t \in DOMAIN activeTools} \cup {generations[i].span : i \in Open})

FinishAgentRun ==
    /\ ~ runOver /\ runOver' = TRUE
    /\ spans' = Ended(CloseDanglingObservations, {activeTurn, 1})
    /\ generations' = [i \in DOMAIN generations |-> [generations[i] EXCEPT !.open = FALSE]]
    /\ activeTurn' = 0 /\ activeTools' = <<>>
    /\ UNCHANGED <<toolCallCount, errorCount, requests, said, toolStage>>

RunNext ==
    \/ StartTurnObservation \/ RecordSessionCompact \/ TurnEnds
    \/ StartGeneration \/ UpdateGenerationMetadata \/ MessageEnd
    \/ \E t \in Tools : StartToolObservation(t) \/ FinishToolObservation(t)
    \/ FinishAgentRun

RunInit ==
    /\ spans = <<Span("agent", 0, NoKey, 0, FALSE)>> /\ activeTurn = 0
    /\ generations = <<>> /\ activeTools = <<>> /\ toolCallCount = 0 /\ errorCount = 0
    /\ requests = 0 /\ said = <<>> /\ toolStage = [t \in Tools |-> "none"] /\ runOver = FALSE

RunSpec == RunInit /\ [][RunNext]_piRunVars

-----------------------------------------------------------------------------
(* Properties.                                                             *)

\* The trace of a finished run: every record is closed and hangs under a turn or the root,
\* every tool call is one record however often its events come, and the counts sent as
\* scores are those of the records (tool.ts, score.ts:38).
TraceIsWhole ==
    LET tools == {i \in DOMAIN spans : spans[i].kind = "tool"}
    IN  runOver =>
          /\ \A i \in DOMAIN spans : spans[i].ended
          /\ \A i \in 2..Len(spans) : spans[spans[i].parent].kind \in {"agent", "turn"}
          /\ {spans[i].of : i \in tools} = {t \in Tools : toolStage[t] # "none"}
          /\ Cardinality(tools) = toolCallCount
          /\ toolCallCount = Cardinality({t \in Tools : toolStage[t] # "none"})
          /\ errorCount = Cardinality({i \in tools : spans[i].level = "ERROR"})

\* A message is the output of exactly one generation when one request was waiting for it, and
\* of at most one when none was: then turn_end makes one up for it if the run has none at all
\* (generation.ts:117, 163).  With two waiting, turn_end gives it to the second, too.
MessageInOneGeneration ==
    \A m \in DOMAIN said :
        LET of == {i \in DOMAIN spans : spans[i].kind = "generation" /\ spans[i].out = m}
        IN  /\ said[m].came /\ said[m].asked /\ ~ said[m].others => Cardinality(of) = 1
            /\ ~ said[m].others => Cardinality(of) <= 1
=============================================================================
