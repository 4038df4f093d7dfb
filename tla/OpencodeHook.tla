----------------------------- MODULE OpencodeHook -----------------------------
(***************************************************************************)
(* The OpenCode plugin (hooks/opencode): when a session falls idle it      *)
(* fetches all its messages, delivers the turns behind the count it keeps  *)
(* in memory and then sets the count to the number of messages fetched.    *)
(* OpenCode does not wait for it: events of a session may overlap, and the *)
(* user goes on.                                                           *)
(***************************************************************************)
EXTENDS Integers, Sequences, FiniteSets, SequencesExt

CONSTANTS ChatSessions, Events,    \* Events: handlers that may run at the same time
          NoChat, MaxMessages, MaxTroubles     \* bounds; MaxMessages is each session's

ASSUME OpencodeAssumption == NoChat \notin ChatSessions /\ MaxMessages \in Nat

VARIABLES
    messages,        \* by session: [role, whole], kept by OpenCode
    resting,         \* sessions that were called idle since the last prompt
    processedCounts, \* by session, in the plugin's memory
    event,           \* by handler: its locals
    troubles,
    emitted,         \* history: by session and message, how many traces have the whole of it
    pardon           \* history: <<session, message, what the plugin does not make up for>>

opencodeVars == <<messages, resting, processedCounts, event, troubles, emitted, pardon>>

NoEvent == [session |-> NoChat, fetched |-> <<>>, busy |-> FALSE, turns |-> <<>>]
Trouble == troubles < MaxTroubles /\ troubles' = troubles + 1
Pardon(s, S, what) == {<<s, n, what>> : n \in S}

-----------------------------------------------------------------------------
(* OpenCode.                                                               *)

Answering(s) == messages[s] # <<>> /\ ~ Last(messages[s]).whole

\* The user asks, also before the answer is whole (it is aborted then).
Prompt(s) ==
    /\ Len(messages[s]) < MaxMessages
    /\ messages' = [messages EXCEPT ![s] =
         Append([i \in DOMAIN @ |-> [@[i] EXCEPT !.whole = TRUE]], [role |-> "user", whole |-> TRUE])]
    /\ resting' = resting \ {s}
    /\ UNCHANGED <<processedCounts, event, troubles, emitted, pardon>>

AnswerBegins(s) ==
    /\ messages[s] # <<>> /\ ~ Answering(s) /\ s \notin resting
    /\ Len(messages[s]) < MaxMessages
    /\ messages' = [messages EXCEPT ![s] = Append(@, [role |-> "assistant", whole |-> FALSE])]
    /\ UNCHANGED <<resting, processedCounts, event, troubles, emitted, pardon>>

AnswerEnds(s) ==
    /\ Answering(s)
    /\ messages' = [messages EXCEPT ![s][Len(messages[s])].whole = TRUE]
    /\ UNCHANGED <<resting, processedCounts, event, troubles, emitted, pardon>>

-----------------------------------------------------------------------------
(* processSession.                                                         *)

\* The places of a user's message and of the answers right behind it.
Turn(ms, u) ==
    {u} \cup {i \in (u + 1)..Len(ms) : \A j \in (u + 1)..i : ms[j].role = "assistant"}

\* The turns that begin behind the first prev messages and have an answer, after each message.
Answered(ms, prev) ==
    LET turns[k \in 0..Len(ms)] ==
          IF k = 0 THEN <<>>
          ELSE IF k > prev /\ ms[k].role = "user" /\ Turn(ms, k) # {k} THEN Append(turns[k - 1], Turn(ms, k))
          ELSE turns[k - 1]
    IN  turns

NewTurns(ms, prev) == Answered(ms, prev)[Len(ms)]

\* A session is idle, the plugin is called and asks for the messages.
Idle(e, s) ==
    /\ event[e] = NoEvent /\ messages[s] # <<>> /\ ~ Answering(s)
    /\ resting' = resting \cup {s}
    /\ event' = [event EXCEPT ![e] = [NoEvent EXCEPT !.session = s]]
    /\ UNCHANGED <<messages, processedCounts, troubles, emitted, pardon>>

Overlaps(e, s) == \E x \in Events \ {e} : event[x].session = s /\ event[x].fetched # <<>>

\* They come, as they are by now, and the count is read; or the request fails.
Fetch(e) ==
    LET s == event[e].session
        ms == messages[s]
        new == [session |-> s, fetched |-> ms, busy |-> s \notin resting,
                turns |-> NewTurns(ms, processedCounts[s])]
    IN  /\ s # NoChat /\ event[e].fetched = <<>>
        /\ \/ /\ Len(ms) > processedCounts[s]
              /\ event' = [event EXCEPT ![e] = new]
              /\ pardon' = pardon \cup (IF Overlaps(e, s) THEN Pardon(s, DOMAIN ms, "overlap") ELSE {})
           \/ event' = [event EXCEPT ![e] = NoEvent] /\ UNCHANGED pardon
        /\ UNCHANGED <<messages, resting, processedCounts, troubles, emitted>>

\* A turn is built and delivered; an error is only logged.
EmitTurn(e) ==
    LET s == event[e].session
        turn == Head(event[e].turns)
        whole == {n \in turn : event[e].fetched[n].whole}
    IN  /\ event[e].turns # <<>>
        /\ \E times \in 0..2 :
             /\ IF times = 1 THEN UNCHANGED troubles ELSE Trouble
             /\ emitted' = [emitted EXCEPT ![s] = [n \in DOMAIN @ |-> IF n \in whole THEN @[n] + times ELSE @[n]]]
             /\ pardon' = pardon \cup (CASE times = 0 -> Pardon(s, turn, "not taken")
                                         [] times = 1 -> {}
                                         [] times = 2 -> Pardon(s, turn, "answer lost"))
        /\ event' = [event EXCEPT ![e].turns = Tail(@)]
        /\ UNCHANGED <<messages, resting, processedCounts>>

CountOfNow(e) == Len(messages[event[e].session])     \* mutant: messages that came since count, too
CountOfFetched(e) == Len(event[e].fetched)

\* The count passes a turn that is not over: it is written, or its answer has not begun.
Cut(e) == IF event[e].busy THEN {Len(event[e].fetched)} ELSE {}

SetCount(e) ==
    LET s == event[e].session
    IN  /\ s # NoChat /\ event[e].fetched # <<>> /\ event[e].turns = <<>>
        /\ processedCounts' = [processedCounts EXCEPT ![s] = CountOfFetched(e)]
        /\ pardon' = pardon \cup Pardon(s, Cut(e), "cut")
                       \cup (IF CountOfFetched(e) < processedCounts[s]
                             THEN Pardon(s, (CountOfFetched(e) + 1)..processedCounts[s], "overlap") ELSE {})
        /\ event' = [event EXCEPT ![e] = NoEvent]
        /\ UNCHANGED <<messages, resting, troubles, emitted>>

\* OpenCode stops, the plugin forgets its counts; messages stay.
Restart ==
    /\ Trouble
    /\ processedCounts' = [s \in ChatSessions |-> 0]
    /\ event' = [e \in Events |-> NoEvent]
    /\ messages' = [s \in ChatSessions |-> [i \in DOMAIN messages[s] |-> [messages[s][i] EXCEPT !.whole = TRUE]]]
    /\ pardon' = pardon \cup UNION {Pardon(s, DOMAIN messages[s], "restart") : s \in ChatSessions}
    /\ resting' = ChatSessions
    /\ UNCHANGED emitted

OpencodeNext ==
    \/ \E s \in ChatSessions : Prompt(s) \/ AnswerBegins(s) \/ AnswerEnds(s)
    \/ \E e \in Events : \/ \E s \in ChatSessions : Idle(e, s)
                         \/ Fetch(e) \/ EmitTurn(e) \/ SetCount(e)
    \/ Restart

OpencodeInit ==
    /\ messages = [s \in ChatSessions |-> <<>>] /\ processedCounts = [s \in ChatSessions |-> 0]
    /\ event = [e \in Events |-> NoEvent] /\ troubles = 0
    /\ emitted = [s \in ChatSessions |-> [n \in 1..MaxMessages |-> 0]] /\ pardon = {} /\ resting = {}

OpencodeSpec == OpencodeInit /\ [][OpencodeNext]_opencodeVars

-----------------------------------------------------------------------------
\* An answer behind the count was delivered whole, unless the plugin fetched the messages
\* while its turn went on (langfuse-exporter.mjs:475), or no tier took the turn; and delivered
\* once, unless two events of the session overlapped (line 417), OpenCode was restarted
\* (README.md:104) or a tier's answer was lost.
AnswersReported ==
    \A s \in ChatSessions : \A n \in DOMAIN messages[s] :
        LET why == {p[3] : p \in {x \in pardon : x[1] = s /\ x[2] = n}}
            cut == \E m \in 1..n : /\ <<s, m, "cut">> \in pardon
                                  /\ \A j \in (m + 1)..n : messages[s][j].role = "assistant"
        IN  /\ messages[s][n].role = "assistant" /\ n <= processedCounts[s] =>
                  emitted[s][n] > 0 \/ cut \/ "not taken" \in why
            /\ emitted[s][n] > 1 => why \cap {"overlap", "restart", "answer lost"} # {}
=============================================================================
