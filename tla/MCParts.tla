------------------------------- MODULE MCParts -------------------------------
(***************************************************************************)
(* Parts that share nothing with each other, checked side by side: a       *)
(* behaviour picks one and the others rest.                                *)
(***************************************************************************)
EXTENDS MCSplitOtlp, MCTurns, PiRun, PiHook, CursorHook, OpencodeHook, TLC

VARIABLE part

\* The kinds of rows: prompts, answers with and without id, split answers,
\* tool uses and results, rows of other types, one without time, one bare.
MCRowKinds ==
    LET Row(kind, id, tool, bare, stamped) ==
          [kind |-> kind, id |-> id, tool |-> tool, bare |-> bare, stamped |-> stamped]
    IN  {Row("user", NoId, NoTool, FALSE, TRUE), Row("result", NoId, "t", FALSE, TRUE),
         Row("assistant", "a", "t", FALSE, TRUE), Row("assistant", "a", NoTool, FALSE, FALSE),
         Row("assistant", "b", NoTool, FALSE, TRUE), Row("assistant", NoId, NoTool, FALSE, TRUE),
         Row("assistant", NoId, NoTool, TRUE, TRUE), Row("system", NoId, NoTool, FALSE, TRUE)}

PartsInit ==
    /\ part \in {"split", "transcripts", "run", "pi", "cursor", "opencode"}
    /\ SplitInit /\ (part # "split" => children = <<>> /\ ~ shaped)
    /\ TurnsInit /\ RunInit /\ Init /\ CursorInit /\ OpencodeInit

PartsNext ==
    /\ \/ part = "split" /\ SplitNext /\ UNCHANGED <<turnsVars, piRunVars, vars, cursorVars, opencodeVars>>
       \/ part = "transcripts" /\ TurnsNext /\ UNCHANGED <<splitVars, piRunVars, vars, cursorVars, opencodeVars>>
       \/ part = "run" /\ RunNext /\ UNCHANGED <<splitVars, turnsVars, vars, cursorVars, opencodeVars>>
       \/ part = "pi" /\ Next /\ UNCHANGED <<splitVars, turnsVars, piRunVars, cursorVars, opencodeVars>>
       \/ part = "cursor" /\ CursorNext /\ UNCHANGED <<splitVars, turnsVars, piRunVars, vars, opencodeVars>>
       \/ part = "opencode" /\ OpencodeNext /\ UNCHANGED <<splitVars, turnsVars, piRunVars, vars, cursorVars>>
    /\ UNCHANGED part

PartsSpec == PartsInit /\ [][PartsNext]_<<part, splitVars, turnsVars, piRunVars, vars, cursorVars, opencodeVars>>

\* The parts have their processes, and their sessions, in common here.
Symmetry == Permutations(Procs) \cup Permutations(Sessions)

=============================================================================
