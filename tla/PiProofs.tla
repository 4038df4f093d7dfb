------------------------------- MODULE PiProofs -------------------------------
(***************************************************************************)
(* Proofs about the pi hook.  PiRun: the records of a run form a tree that *)
(* is closed when the run is, and a message has one generation, for any    *)
(* tools, keys, numbers of turns and requests.  PiHook: for any number of  *)
(* processes, sessions, runs, turns, starts and faults.                    *)
(***************************************************************************)
EXTENDS PiRun, PiHook, FiniteSetTheorems, SequenceTheorems, WellFoundedInduction, TLAPS

-----------------------------------------------------------------------------
(* PiRun.                                                                  *)

Kinds == {"agent", "turn", "session_compact", "generation", "tool"}
Levels == {"DEFAULT", "WARNING", "ERROR"}
RunTypeOK ==
    /\ spans \in Seq([kind : Kinds, parent : Nat, of : Tools \cup Keys \cup {NoKey}, out : Nat,
                      level : Levels, ended : BOOLEAN])
    /\ generations \in Seq([key : Keys \cup {NoKey}, span : Nat, open : BOOLEAN])
    /\ said \in Seq([came : BOOLEAN, asked : BOOLEAN, others : BOOLEAN])
    /\ DOMAIN activeTools \subseteq Tools
    /\ toolStage \in [Tools -> {"none", "started", "called", "answered", "done"}]
    /\ activeTurn \in Nat /\ toolCallCount \in Nat /\ errorCount \in Nat /\ requests \in Nat
    /\ runOver \in BOOLEAN

\* The records hang under the root or a turn.
Tree ==
    /\ spans # <<>> /\ spans[1].kind = "agent"
    /\ \A i \in DOMAIN spans \ {1} :
         spans[i].parent \in DOMAIN spans /\ spans[spans[i].parent].kind \in {"agent", "turn"}
    /\ activeTurn # 0 => activeTurn \in DOMAIN spans /\ spans[activeTurn].kind = "turn"

ToolSpans == {i \in DOMAIN spans : spans[i].kind = "tool"}
ErrorSpans == {i \in ToolSpans : spans[i].level = "ERROR"}
Called == {t \in Tools : toolStage[t] # "none"}

\* A tool call under way has its record, and a call has one record.
OneRecordPerCall ==
    /\ \A t \in DOMAIN activeTools :
         /\ activeTools[t] \in ToolSpans
         /\ spans[activeTools[t]].of = t /\ spans[activeTools[t]].level = "DEFAULT"
    /\ \A i \in ToolSpans : spans[i].of \in Called
    /\ \A i, j \in ToolSpans : spans[i].of = spans[j].of => i = j
    /\ \A t \in Called : \E i \in ToolSpans : spans[i].of = t
    /\ ~ runOver => \A t \in Tools : t \in DOMAIN activeTools <=> toolStage[t] \in {"started", "called"}
Counted ==
    /\ IsFiniteSet(Called) /\ Cardinality(Called) = toolCallCount
    /\ Cardinality(ToolSpans) = toolCallCount
    /\ Cardinality(ErrorSpans) = errorCount

\* Each generation that is tracked has a record of its own, without output while it is open.
Tracked ==
    /\ \A g \in DOMAIN generations :
         /\ generations[g].span \in DOMAIN spans
         /\ spans[generations[g].span].kind = "generation"
         /\ generations[g].open => spans[generations[g].span].out = 0
    /\ \A g, h \in DOMAIN generations : generations[g].span = generations[h].span => g = h

\* What is not ended will be: the root, the turn, and what is under way.
UnderWay(i) ==
    \/ i \in {1, activeTurn}
    \/ \E t \in DOMAIN activeTools : activeTools[t] = i
    \/ \E g \in Open : generations[g].span = i
Closed == \A i \in DOMAIN spans : spans[i].ended \/ (~ runOver /\ UnderWay(i))

OutputOf(m) == {i \in DOMAIN spans : spans[i].kind = "generation" /\ spans[i].out = m}
Messages ==
    /\ \A i \in DOMAIN spans : spans[i].out \in 0..TurnNo
    /\ activeTurn # 0 => TurnNo > 0
    /\ \A m \in DOMAIN said :
         /\ ~ said[m].came => OutputOf(m) = {} /\ ~ said[m].asked /\ ~ said[m].others
         /\ said[m].asked => generations # <<>>
         /\ said[m].asked /\ ~ said[m].others => OutputOf(m) # {}
         /\ ~ said[m].others => \A i, j \in OutputOf(m) : i = j
    /\ activeTurn # 0 /\ said[TurnNo].came /\ ~ said[TurnNo].others =>
         Open = {} /\ (~ said[TurnNo].asked => OutputOf(TurnNo) = {})

RunInv == RunTypeOK /\ Tree /\ OneRecordPerCall /\ Counted /\ Tracked /\ Closed /\ Messages

-----------------------------------------------------------------------------
\* A nonempty set of places has a last one.
LEMMA LastPlace ==
    ASSUME NEW n \in Nat, NEW S, S \subseteq 1..n, S # {}
    PROVE  Max(S) \in S /\ \A x \in S : x <= Max(S)
<1> DEFINE Less == {p \in Nat \X Nat : p[1] < p[2]}
<1> DEFINE Above == {k \in Nat : \A x \in S : x <= k}
<1>1. IsWellFoundedOn(Less, Nat)
  BY NatLessThanWellFounded, Zenon DEF OpToRel
<1>2. n \in Above
  OBVIOUS
<1>3. PICK k \in Above : \A y \in Above : ~ (<<y, k>> \in Less)
  <2> HIDE DEF Less
  <2>1. Above \subseteq Nat /\ Above # {}
    BY <1>2
  <2> HIDE DEF Above
  <2>2. QED
    BY <1>1, <2>1, WFMin, Zenon
<1>4. k \in S
  <2> SUFFICES ASSUME k \notin S PROVE FALSE
    OBVIOUS
  <2>1. \A x \in S : x < k /\ x \in 1..n
    OBVIOUS
  <2>2. k > 0
    <3>1. PICK x \in S : TRUE
      OBVIOUS
    <3>2. QED
      BY <2>1, <3>1
  <2>3. k - 1 \in Above
    BY <2>1, <2>2
  <2>4. <<k - 1, k>> \in Less
    BY <2>2
  <2>5. QED
    BY <1>3, <2>3, <2>4
<1>5. QED
  BY <1>4 DEF Max

LEMMA NewestOpen ==
    ASSUME RunTypeOK, Open # {}
    PROVE  OpenGeneration \in Open
<1>1. Len(generations) \in Nat /\ Open \subseteq 1..Len(generations)
  BY DEF RunTypeOK, Open
<1>2. QED
  BY <1>1, LastPlace DEF OpenGeneration

\* What records have whatever happens to them.
Kept(i) == spans'[i].kind = spans[i].kind /\ spans'[i].parent = spans[i].parent /\ spans'[i].of = spans[i].of
KeptWith(i, out, level, ended) ==
    Kept(i) /\ spans'[i].out = out /\ spans'[i].level = level /\ (spans'[i].ended <=> ended)
New(i, span) == spans'[i] = span
SpanSet == [kind : Kinds, parent : Nat, of : Tools \cup Keys \cup {NoKey}, out : Nat, level : Levels, ended : BOOLEAN]

GenSet == [key : Keys \cup {NoKey}, span : Nat, open : BOOLEAN]

LEMMA EndedFacts ==
    ASSUME NEW ss \in Seq(SpanSet), NEW S
    PROVE  /\ Ended(ss, S) \in Seq(SpanSet) /\ Len(Ended(ss, S)) = Len(ss)
           /\ \A i \in 1..Len(ss) :
                Ended(ss, S)[i] = [ss[i] EXCEPT !.ended = (i \in S) \/ ss[i].ended]
<1>1. \A i \in 1..Len(ss) : ss[i] \in SpanSet
  OBVIOUS
<1>2. \A i \in 1..Len(ss) :
        (IF i \in S THEN [ss[i] EXCEPT !.ended = TRUE] ELSE ss[i]) = [ss[i] EXCEPT !.ended = (i \in S) \/ ss[i].ended]
  BY <1>1 DEF SpanSet
<1>3. \A i \in 1..Len(ss) : [ss[i] EXCEPT !.ended = (i \in S) \/ ss[i].ended] \in SpanSet
  BY <1>1 DEF SpanSet
<1>4. Ended(ss, S) = [i \in 1..Len(ss) |-> [ss[i] EXCEPT !.ended = (i \in S) \/ ss[i].ended]]
  BY <1>2 DEF Ended
<1>5. QED
  BY <1>3, <1>4

LEMMA SpanFacts ==
    ASSUME NEW kind \in Kinds, NEW parent \in Nat, NEW of \in Tools \cup Keys \cup {NoKey}, NEW out \in Nat,
           NEW ended \in BOOLEAN
    PROVE  Span(kind, parent, of, out, ended) \in SpanSet
  BY DEF Span, SpanSet, Levels

-----------------------------------------------------------------------------
(* What each step does to the records.                                     *)

\* A record is added, some are ended.
LEMMA AddFacts ==
    ASSUME RunTypeOK, NEW ss \in Seq(SpanSet), NEW span \in SpanSet, spans' = Append(ss, span),
           Len(ss) = Len(spans)
    PROVE  /\ spans' \in Seq(SpanSet) /\ DOMAIN spans' = 1..(Len(spans) + 1)
           /\ DOMAIN spans = 1..Len(spans) /\ Len(spans) \in Nat
           /\ spans'[Len(spans) + 1] = span
           /\ \A i \in DOMAIN spans : spans'[i] = ss[i]
  BY DEF RunTypeOK, SpanSet

LEMMA StartTurnFacts ==
    ASSUME RunTypeOK, StartTurnObservation
    PROVE  /\ spans' \in Seq(SpanSet) /\ DOMAIN spans' = 1..(Len(spans) + 1)
           /\ DOMAIN spans = 1..Len(spans) /\ Len(spans) \in Nat
           /\ spans'[Len(spans) + 1] = Span("turn", 1, NoKey, 0, FALSE)
           /\ \A i \in DOMAIN spans : KeptWith(i, spans[i].out, spans[i].level, i = activeTurn \/ spans[i].ended)
<1>1. spans \in Seq(SpanSet)
  BY DEF RunTypeOK, SpanSet
<1>2. Span("turn", 1, NoKey, 0, FALSE) \in SpanSet
  BY SpanFacts DEF Kinds
<1>3. /\ Ended(spans, {activeTurn}) \in Seq(SpanSet) /\ Len(Ended(spans, {activeTurn})) = Len(spans)
      /\ \A i \in 1..Len(spans) :
           Ended(spans, {activeTurn})[i] = [spans[i] EXCEPT !.ended = (i \in {activeTurn}) \/ spans[i].ended]
  BY <1>1, EndedFacts
<1>4. spans' = Append(Ended(spans, {activeTurn}), Span("turn", 1, NoKey, 0, FALSE))
  BY DEF StartTurnObservation
<1>5. /\ spans' \in Seq(SpanSet) /\ DOMAIN spans' = 1..(Len(spans) + 1)
      /\ DOMAIN spans = 1..Len(spans) /\ Len(spans) \in Nat
      /\ spans'[Len(spans) + 1] = Span("turn", 1, NoKey, 0, FALSE)
      /\ \A i \in DOMAIN spans : spans'[i] = Ended(spans, {activeTurn})[i]
  <2> HIDE DEF Ended, Span
  <2>1. QED BY <1>2, <1>3, <1>4, AddFacts
<1>6. \A i \in DOMAIN spans : spans[i] \in SpanSet
  BY <1>1
<1>7. ASSUME NEW i \in DOMAIN spans
      PROVE  KeptWith(i, spans[i].out, spans[i].level, i = activeTurn \/ spans[i].ended)
  <2>1. spans'[i] = [spans[i] EXCEPT !.ended = (i \in {activeTurn}) \/ spans[i].ended]
    BY <1>3, <1>5
  <2>2. QED
    BY <2>1, <1>6 DEF KeptWith, Kept, SpanSet
<1>8. QED
  BY <1>5, <1>7

-----------------------------------------------------------------------------
(* What keeps each part of the invariant.                                  *)

\* The records stay, with others behind them.
Grows ==
    /\ spans' \in Seq(SpanSet) /\ Len(spans) <= Len(spans')
    /\ \A i \in DOMAIN spans : Kept(i)
NewSpans == DOMAIN spans' \ DOMAIN spans

LEMMA TreeKept ==
    ASSUME RunTypeOK, Tree, Grows,
           \A i \in NewSpans : spans'[i].parent \in {1, Parent},
           activeTurn' # 0 => activeTurn' = activeTurn
                              \/ (activeTurn' \in DOMAIN spans' /\ spans'[activeTurn'].kind = "turn")
    PROVE  Tree'
<1>1. DOMAIN spans = 1..Len(spans) /\ DOMAIN spans' = 1..Len(spans') /\ Len(spans) \in Nat /\ Len(spans') \in Nat
  BY DEF RunTypeOK, Grows
<1>2. spans # <<>> => Len(spans) > 0
  BY DEF RunTypeOK
<1>3. 1 \in DOMAIN spans /\ DOMAIN spans \subseteq DOMAIN spans'
  BY <1>1, <1>2 DEF Tree, Grows
<1>4. spans' # <<>> /\ spans'[1].kind = "agent"
  BY <1>1, <1>3 DEF Grows, Kept, Tree
<1>5. ASSUME NEW i \in DOMAIN spans' \ {1}
      PROVE  spans'[i].parent \in DOMAIN spans' /\ spans'[spans'[i].parent].kind \in {"agent", "turn"}
  <2>1. CASE i \in DOMAIN spans
    BY <2>1, <1>3 DEF Grows, Kept, Tree
  <2>2. CASE i \notin DOMAIN spans
    <3>1. spans'[i].parent \in {1, activeTurn} /\ (spans'[i].parent = activeTurn => activeTurn # 0 \/ spans'[i].parent = 1)
      BY <2>2 DEF NewSpans, Parent
    <3>2. QED
      BY <3>1, <1>3 DEF Grows, Kept, Tree
  <2>3. QED
    BY <2>1, <2>2
<1>6. activeTurn' # 0 => activeTurn' \in DOMAIN spans' /\ spans'[activeTurn'].kind = "turn"
  BY <1>3 DEF Grows, Kept, Tree
<1>7. QED
  BY <1>4, <1>5, <1>6 DEF Tree

LEMMA CallsKept ==
    ASSUME RunTypeOK, OneRecordPerCall, Counted, Grows,
           UNCHANGED <<activeTools, toolStage, toolCallCount, errorCount, runOver>>,
           \A i \in NewSpans : spans'[i].kind # "tool",
           \A i \in ToolSpans : spans'[i].level = spans[i].level
    PROVE  OneRecordPerCall' /\ Counted'
<1>1. DOMAIN spans = 1..Len(spans) /\ DOMAIN spans' = 1..Len(spans') /\ Len(spans) \in Nat /\ Len(spans') \in Nat
  BY DEF RunTypeOK, Grows
<1>2. DOMAIN spans \subseteq DOMAIN spans'
  BY <1>1 DEF Grows
<1>3. ToolSpans' = ToolSpans
  BY <1>2 DEF ToolSpans, Grows, Kept, NewSpans
<1>4. ErrorSpans' = ErrorSpans
  BY <1>3 DEF ErrorSpans
<1>5. Called' = Called
  BY DEF Called
<1>6. \A i \in ToolSpans : spans'[i].of = spans[i].of
  BY DEF Grows, Kept, ToolSpans
<1>7. OneRecordPerCall'
  BY <1>3, <1>5, <1>6 DEF OneRecordPerCall
<1>8. QED
  BY <1>3, <1>4, <1>5, <1>7 DEF Counted

LEMMA TrackedKept ==
    ASSUME RunTypeOK, Tracked, Grows, UNCHANGED generations,
           \A i \in DOMAIN spans : spans'[i].out = spans[i].out
    PROVE  Tracked'
<1>1. DOMAIN spans = 1..Len(spans) /\ DOMAIN spans' = 1..Len(spans')
  BY DEF RunTypeOK, Grows
<1>2. DOMAIN spans \subseteq DOMAIN spans'
  BY <1>1 DEF Grows, RunTypeOK
<1>3. QED
  BY <1>2 DEF Tracked, Grows, Kept

LEMMA OutputsKept ==
    ASSUME RunTypeOK, Grows,
           \A i \in DOMAIN spans : spans'[i].out = spans[i].out,
           \A i \in NewSpans : spans'[i].out = 0
    PROVE  \A m : m # 0 => OutputOf(m)' = OutputOf(m)
<1>1. DOMAIN spans = 1..Len(spans) /\ DOMAIN spans' = 1..Len(spans')
  BY DEF RunTypeOK, Grows
<1>2. DOMAIN spans \subseteq DOMAIN spans'
  BY <1>1 DEF Grows, RunTypeOK
<1>3. QED
  BY <1>2 DEF OutputOf, Grows, Kept, NewSpans

\* No message comes, no turn ends, and the open generations are among those before.
LEMMA MessagesKept ==
    ASSUME RunTypeOK, Messages, Grows,
           \A i \in DOMAIN spans : spans'[i].out = spans[i].out,
           \A i \in NewSpans : spans'[i].out = 0,
           UNCHANGED said, activeTurn' \in {0, activeTurn}, generations = <<>> \/ generations' # <<>>,
           activeTurn' # 0 /\ said[TurnNo].came => Open' \subseteq Open
    PROVE  Messages'
<1>1. DOMAIN spans = 1..Len(spans) /\ DOMAIN spans' = 1..Len(spans')
  BY DEF RunTypeOK, Grows
<1>2. TurnNo' = TurnNo /\ TurnNo \in Nat /\ DOMAIN said = 1..TurnNo
  BY DEF TurnNo, RunTypeOK
<1>3. \A m : m # 0 => OutputOf(m)' = OutputOf(m)
  BY OutputsKept
<1>4. \A i \in DOMAIN spans' : spans'[i].out \in 0..TurnNo'
  BY <1>2 DEF Messages, NewSpans
<1>5. activeTurn' # 0 => activeTurn' = activeTurn /\ TurnNo' > 0 /\ TurnNo \in DOMAIN said
  BY <1>2 DEF Messages
<1>6. ASSUME NEW m \in DOMAIN said'
      PROVE  /\ ~ said'[m].came => OutputOf(m)' = {} /\ ~ said'[m].asked /\ ~ said'[m].others
             /\ said'[m].asked => generations' # <<>>
             /\ said'[m].asked /\ ~ said'[m].others => OutputOf(m)' # {}
             /\ ~ said'[m].others => \A i, j \in OutputOf(m)' : i = j
  <2>1. m \in DOMAIN said /\ m # 0
    BY <1>2
  <2>2. OutputOf(m)' = OutputOf(m)
    BY <1>3, <2>1
  <2>3. QED
    BY <2>1, <2>2 DEF Messages
<1>9. DOMAIN spans \subseteq DOMAIN spans'
  BY <1>1 DEF Grows, RunTypeOK
<1>8. (activeTurn # 0 /\ said[TurnNo].came /\ ~ said[TurnNo].others =>
         Open = {} /\ (~ said[TurnNo].asked => OutputOf(TurnNo) = {}))'
  <2> SUFFICES ASSUME activeTurn' # 0, said[TurnNo].came, ~ said[TurnNo].others
               PROVE  Open' = {} /\ (~ said[TurnNo].asked => OutputOf(TurnNo)' = {})
    BY <1>2
  <2>1. Open = {} /\ (~ said[TurnNo].asked => OutputOf(TurnNo) = {})
    BY <1>5 DEF Messages
  <2>2. OutputOf(TurnNo)' = OutputOf(TurnNo)
    <3>1. TurnNo # 0 
      BY <1>5, <1>2
    <3>2. OutputOf(TurnNo)' = {i \in DOMAIN spans' : spans'[i].kind = "generation" /\ spans'[i].out = TurnNo}
      BY <1>2 DEF OutputOf
    <3>3. QED
      BY <3>1, <3>2, <1>1, <1>9 DEF OutputOf, Grows, Kept, NewSpans
  <2>3. QED
    BY <2>1, <2>2
<1>10. QED
  BY <1>4, <1>5, <1>6, <1>8, Zenon DEF Messages

-----------------------------------------------------------------------------
(* The steps.                                                              *)

LEMMA SaidFacts ==
    ASSUME RunTypeOK
    PROVE  /\ spans \in Seq(SpanSet) /\ DOMAIN spans = 1..Len(spans) /\ Len(spans) \in Nat
           /\ \A i \in DOMAIN spans : spans[i] \in SpanSet
           /\ TurnNo \in Nat /\ DOMAIN said = 1..TurnNo /\ Len(said) = TurnNo
           /\ DOMAIN generations = 1..Len(generations) /\ Len(generations) \in Nat
           /\ (generations = <<>> <=> Len(generations) = 0)
<1>1. spans \in Seq(SpanSet)
  BY DEF RunTypeOK, SpanSet
<1>2. DOMAIN spans = 1..Len(spans) /\ Len(spans) \in Nat /\ \A i \in DOMAIN spans : spans[i] \in SpanSet
  BY <1>1
<1>3. TurnNo \in Nat /\ DOMAIN said = 1..TurnNo /\ Len(said) = TurnNo
  BY DEF RunTypeOK, TurnNo
<1>4. DOMAIN generations = 1..Len(generations) /\ Len(generations) \in Nat /\ (generations = <<>> <=> Len(generations) = 0)
  BY DEF RunTypeOK
<1>5. QED
  BY <1>1, <1>2, <1>3, <1>4

LEMMA TurnStep ==
    ASSUME RunInv, StartTurnObservation
    PROVE  RunInv'
<1> USE DEF RunInv
<1>1. /\ spans' \in Seq(SpanSet) /\ DOMAIN spans' = 1..(Len(spans) + 1)
      /\ DOMAIN spans = 1..Len(spans) /\ Len(spans) \in Nat
      /\ spans'[Len(spans) + 1] = Span("turn", 1, NoKey, 0, FALSE)
      /\ \A i \in DOMAIN spans : KeptWith(i, spans[i].out, spans[i].level, i = activeTurn \/ spans[i].ended)
  BY StartTurnFacts
<1>2. /\ activeTurn' = Len(spans) + 1 /\ ~ runOver
      /\ said' = Append(said, [came |-> FALSE, asked |-> FALSE, others |-> FALSE])
      /\ UNCHANGED <<generations, activeTools, toolCallCount, errorCount, requests, toolStage, runOver>>
  BY DEF StartTurnObservation
<1>3. Grows /\ NewSpans = {Len(spans) + 1} /\ Len(spans') = Len(spans) + 1
  BY <1>1 DEF Grows, NewSpans, KeptWith
<1>4. /\ spans'[Len(spans) + 1].kind = "turn" /\ spans'[Len(spans) + 1].parent = 1
      /\ spans'[Len(spans) + 1].out = 0 /\ spans'[Len(spans) + 1].ended = FALSE
  BY <1>1 DEF Span
<1>5. RunTypeOK'
  BY <1>1, <1>2 DEF RunTypeOK, SpanSet
<1>6. Tree'
  <2>1. \A i \in NewSpans : spans'[i].parent \in {1, Parent}
    BY <1>3, <1>4
  <2>2. Len(spans) + 1 \in DOMAIN spans'
    BY <1>1
  <2>3. activeTurn' # 0 => activeTurn' = activeTurn
                           \/ (activeTurn' \in DOMAIN spans' /\ spans'[activeTurn'].kind = "turn")
    BY <1>2, <1>4, <2>2
  <2>4. QED
    BY <1>3, <2>1, <2>3, TreeKept
<1>7. OneRecordPerCall' /\ Counted'
  BY <1>1, <1>2, <1>3, <1>4, CallsKept DEF KeptWith, ToolSpans
<1>8. Tracked'
  BY <1>1, <1>2, <1>3, TrackedKept DEF KeptWith
<1>9. Closed'
  <2>1. SUFFICES ASSUME NEW i \in DOMAIN spans', ~ spans'[i].ended PROVE UnderWay(i)'
    BY <1>2 DEF Closed
  <2>2. CASE i \in DOMAIN spans
    <3>1. i # activeTurn /\ ~ spans[i].ended
      BY <1>1, <2>1, <2>2 DEF KeptWith
    <3>2. UnderWay(i)
      BY <3>1, <2>2 DEF Closed
    <3>3. QED
      BY <1>2, <3>1, <3>2 DEF UnderWay, Open
  <2>3. CASE i \notin DOMAIN spans
    BY <1>1, <1>2, <2>3 DEF UnderWay
  <2>4. QED
    BY <2>2, <2>3
<1>10. Messages'
  <2>1. /\ TurnNo \in Nat /\ DOMAIN said = 1..TurnNo /\ TurnNo' = TurnNo + 1 /\ DOMAIN said' = 1..(TurnNo + 1)
        /\ said'[TurnNo + 1].came = FALSE /\ said'[TurnNo + 1].asked = FALSE /\ said'[TurnNo + 1].others = FALSE
        /\ \A m \in DOMAIN said : said'[m] = said[m]
    BY <1>2, SaidFacts DEF TurnNo, RunTypeOK
  <2>2. \A i \in DOMAIN spans' : spans'[i].out \in 0..TurnNo
    <3>1. \A i \in DOMAIN spans : spans'[i].out = spans[i].out /\ spans[i].out \in 0..TurnNo
      BY <1>1 DEF KeptWith, Messages
    <3>2. \A i \in DOMAIN spans' : i \in DOMAIN spans \/ i = Len(spans) + 1
      BY <1>1
    <3>3. 0 \in 0..TurnNo
      BY <2>1
    <3>4. QED
      BY <1>4, <3>1, <3>2, <3>3
  <2>3. \A m : m # 0 => OutputOf(m)' = OutputOf(m)
    BY <1>1, <1>3, <1>4, OutputsKept DEF KeptWith
  <2>4. \A m : m = TurnNo + 1 => OutputOf(m)' = {}
    <3>1. \A i \in DOMAIN spans' : spans'[i].out # TurnNo + 1
      BY <2>1, <2>2
    <3>2. QED
      BY <3>1 DEF OutputOf
  <2>5. ASSUME NEW m \in DOMAIN said'
        PROVE  /\ ~ said'[m].came => OutputOf(m)' = {} /\ ~ said'[m].asked /\ ~ said'[m].others
               /\ said'[m].asked => generations' # <<>>
               /\ said'[m].asked /\ ~ said'[m].others => OutputOf(m)' # {}
               /\ ~ said'[m].others => \A i, j \in OutputOf(m)' : i = j
    <3>1. CASE m = TurnNo + 1
      <4>1. OutputOf(m)' = {}
        BY <2>4, <3>1
      <4>2. QED
        BY <2>1, <3>1, <4>1
    <3>2. CASE m # TurnNo + 1
      <4>1. m \in DOMAIN said /\ m # 0 /\ said'[m] = said[m]
        BY <2>1, <3>2
      <4>2. OutputOf(m)' = OutputOf(m)
        BY <2>3, <4>1
      <4>3. QED
        BY <1>2, <4>1, <4>2 DEF Messages
    <3>3. QED
      BY <3>1, <3>2
  <2>6. (activeTurn # 0 /\ said[TurnNo].came /\ ~ said[TurnNo].others =>
           Open = {} /\ (~ said[TurnNo].asked => OutputOf(TurnNo) = {}))'
    BY <2>1
  <2>7. (activeTurn # 0 => TurnNo > 0)' /\ (\A i \in DOMAIN spans : spans[i].out \in 0..TurnNo)'
    BY <2>1, <2>2
  <2>8. QED
    BY <2>5, <2>6, <2>7, Zenon DEF Messages
<1>11. QED
  BY <1>5, <1>6, <1>7, <1>8, <1>9, <1>10

LEMMA CompactStep ==
    ASSUME RunInv, RecordSessionCompact
    PROVE  RunInv'
<1> USE DEF RunInv
<1> DEFINE new == Span("session_compact", Parent, NoKey, 0, TRUE)
<1>1. spans' = Append(spans, new) /\ ~ runOver
      /\ UNCHANGED <<activeTurn, generations, activeTools, toolCallCount, errorCount, requests, said, toolStage, runOver>>
  BY DEF RecordSessionCompact
<1>2. new \in SpanSet /\ new.kind = "session_compact" /\ new.parent = Parent /\ new.out = 0 /\ new.ended = TRUE
  <2>1. Parent \in Nat
    BY DEF Parent, RunTypeOK
  <2>2. QED
    BY <2>1, SpanFacts DEF Kinds, Span
<1> HIDE DEF new
<1>3. /\ spans' \in Seq(SpanSet) /\ DOMAIN spans' = 1..(Len(spans) + 1)
      /\ DOMAIN spans = 1..Len(spans) /\ Len(spans) \in Nat
      /\ spans'[Len(spans) + 1] = new
      /\ \A i \in DOMAIN spans : spans'[i] = spans[i]
  BY <1>1, <1>2, AddFacts, SaidFacts
<1>4. Grows /\ NewSpans = {Len(spans) + 1} /\ Len(spans') = Len(spans) + 1
  BY <1>3 DEF Grows, NewSpans, Kept
<1>5. RunTypeOK'
  BY <1>1, <1>3 DEF RunTypeOK, SpanSet
<1>6. Tree'
  <2>1. \A i \in NewSpans : spans'[i].parent \in {1, Parent}
    BY <1>2, <1>3, <1>4
  <2>2. activeTurn' # 0 => activeTurn' = activeTurn
                           \/ (activeTurn' \in DOMAIN spans' /\ spans'[activeTurn'].kind = "turn")
    <3>1. activeTurn' = activeTurn
      BY <1>1
    <3>2. QED
      BY <3>1
  <2>3. QED
    BY <1>4, <2>1, <2>2, TreeKept
<1>7. OneRecordPerCall' /\ Counted'
  BY <1>1, <1>2, <1>3, <1>4, CallsKept DEF ToolSpans
<1>8. Tracked'
  BY <1>1, <1>3, <1>4, TrackedKept
<1>9. Closed'
  BY <1>1, <1>2, <1>3 DEF Closed, UnderWay, Open
<1>10. Messages'
  BY <1>1, <1>2, <1>3, <1>4, MessagesKept DEF Open
<1>11. QED
  BY <1>5, <1>6, <1>7, <1>8, <1>9, <1>10

\* A request whose key is known changes nothing but its count.
LEMMA RequestStep ==
    ASSUME RunInv, StartGeneration
    PROVE  RunInv'
<1> USE DEF RunInv
<1>1. /\ ~ runOver /\ activeTurn # 0 /\ ~ said[TurnNo].came /\ requests' = requests + 1
      /\ UNCHANGED <<activeTurn, activeTools, toolCallCount, errorCount, said, toolStage, runOver>>
  BY DEF StartGeneration
<1>2. ASSUME UNCHANGED <<spans, generations>> PROVE RunInv'
  <2>1. RunTypeOK'
    BY <1>1, <1>2 DEF RunTypeOK
  <2>2. Tree' /\ OneRecordPerCall' /\ Counted' /\ Tracked' /\ Closed'
    BY <1>1, <1>2 DEF Tree, OneRecordPerCall, Counted, ToolSpans, ErrorSpans, Called, Tracked, Closed, UnderWay, Open
  <2>3. Messages'
    BY <1>1, <1>2 DEF Messages, OutputOf, TurnNo, Open
  <2>4. QED
    BY <2>1, <2>2, <2>3
<1>3. ASSUME NEW key \in Keys \cup {NoKey},
             spans' = Append(spans, Span("generation", Parent, key, 0, FALSE)),
             generations' = Append(generations, [key |-> key, span |-> Len(spans) + 1, open |-> TRUE])
      PROVE RunInv'
  <2> DEFINE new == Span("generation", Parent, key, 0, FALSE)
  <2> DEFINE g == Len(generations) + 1
  <2>1. new \in SpanSet /\ new.kind = "generation" /\ new.parent = Parent /\ new.out = 0
    <3>1. Parent \in Nat
      BY DEF Parent, RunTypeOK
    <3>2. QED
      BY <3>1, SpanFacts DEF Kinds, Span
  <2>2. spans' = Append(spans, new)
    BY <1>3
  <2> HIDE DEF new
  <2>3. /\ spans' \in Seq(SpanSet) /\ DOMAIN spans' = 1..(Len(spans) + 1)
        /\ DOMAIN spans = 1..Len(spans) /\ Len(spans) \in Nat
        /\ spans'[Len(spans) + 1] = new
        /\ \A i \in DOMAIN spans : spans'[i] = spans[i]
    BY <2>1, <2>2, AddFacts, SaidFacts
  <2>4. Grows /\ NewSpans = {Len(spans) + 1} /\ Len(spans') = Len(spans) + 1
    BY <2>3 DEF Grows, NewSpans, Kept
  <2>5. /\ generations' \in Seq([key : Keys \cup {NoKey}, span : Nat, open : BOOLEAN])
        /\ DOMAIN generations = 1..Len(generations) /\ DOMAIN generations' = 1..g /\ Len(generations) \in Nat
        /\ generations'[g].span = Len(spans) + 1 /\ generations'[g].open = TRUE
        /\ \A h \in DOMAIN generations : generations'[h] = generations[h]
        /\ generations' # <<>>
    BY <1>3, <2>3 DEF RunTypeOK
  <2>6. RunTypeOK'
    BY <1>1, <2>3, <2>5 DEF RunTypeOK, SpanSet
  <2>7. Tree'
    <3>1. \A i \in NewSpans : spans'[i].parent \in {1, Parent}
      BY <2>1, <2>3, <2>4
    <3>2. activeTurn' = activeTurn
      BY <1>1
    <3>3. activeTurn' # 0 => activeTurn' = activeTurn
                           \/ (activeTurn' \in DOMAIN spans' /\ spans'[activeTurn'].kind = "turn")
      BY <3>2
    <3>4. QED
      BY <2>4, <3>1, <3>3, TreeKept
  <2>8. OneRecordPerCall' /\ Counted'
    BY <1>1, <2>1, <2>3, <2>4, CallsKept DEF ToolSpans
  <2>9. Tracked'
    <3>1. \A h \in DOMAIN generations' : h \in DOMAIN generations \/ h = g
      BY <2>5
    <3>2. \A h \in DOMAIN generations : generations'[h].span \in 1..Len(spans)
      BY <2>3, <2>5 DEF Tracked
    <3>3. ASSUME NEW h \in DOMAIN generations'
          PROVE  /\ generations'[h].span \in DOMAIN spans'
                 /\ spans'[generations'[h].span].kind = "generation"
                 /\ generations'[h].open => spans'[generations'[h].span].out = 0
      <4>1. CASE h \in DOMAIN generations
        BY <2>3, <2>5, <4>1 DEF Tracked
      <4>2. CASE h = g
        BY <2>1, <2>3, <2>5, <4>2
      <4>3. QED
        BY <3>1, <4>1, <4>2
    <3>4. ASSUME NEW h \in DOMAIN generations', NEW k \in DOMAIN generations', generations'[h].span = generations'[k].span
          PROVE  h = k
      <4>1. Len(spans) + 1 \notin 1..Len(spans)
        BY <2>3
      <4>2. QED
        BY <2>5, <3>1, <3>2, <3>4, <4>1 DEF Tracked
    <3>5. QED
      BY <3>3, <3>4 DEF Tracked
  <2>10. Closed'
    <3>1. SUFFICES ASSUME NEW i \in DOMAIN spans', ~ spans'[i].ended PROVE UnderWay(i)'
      BY <1>1 DEF Closed
    <3>2. CASE i \in DOMAIN spans
      <4>1. UnderWay(i)
        BY <2>3, <3>1, <3>2 DEF Closed
      <4>2. Open \subseteq Open' /\ \A h \in Open : generations'[h].span = generations[h].span
        BY <2>5 DEF Open
      <4>3. QED
        BY <1>1, <4>1, <4>2 DEF UnderWay
    <3>3. CASE i \notin DOMAIN spans
      <4>1. i = Len(spans) + 1 /\ g \in Open'
        BY <2>3, <2>5, <3>1, <3>3 DEF Open
      <4>2. QED
        BY <2>5, <4>1 DEF UnderWay
    <3>4. QED
      BY <3>2, <3>3
  <2>11. Messages'
    BY <1>1, <2>1, <2>3, <2>4, <2>5, MessagesKept
  <2>12. QED
    BY <2>6, <2>7, <2>8, <2>9, <2>10, <2>11
<1>4. QED
  BY <1>2, <1>3, Zenon DEF StartGeneration

\* A record ends with a level.
WithLevel(ss, n, level) == [Ended(ss, {n}) EXCEPT ![n].level = level]

\* One record ended, with a level.
Levelled(f, ss, n, level) ==
    /\ f \in Seq(SpanSet) /\ Len(f) = Len(ss)
    /\ \A i \in 1..Len(ss) :
         /\ f[i].kind = ss[i].kind /\ f[i].parent = ss[i].parent /\ f[i].of = ss[i].of
         /\ f[i].out = ss[i].out
         /\ f[i].level = (IF i = n THEN level ELSE ss[i].level)
         /\ f[i].ended <=> (i = n \/ ss[i].ended)

LEMMA LevelFacts ==
    ASSUME NEW ss \in Seq(SpanSet), NEW n \in 1..Len(ss), NEW level \in Levels, NEW f,
           f = WithLevel(ss, n, level)
    PROVE  Levelled(f, ss, n, level)
<1>1. /\ Ended(ss, {n}) \in Seq(SpanSet) /\ Len(Ended(ss, {n})) = Len(ss)
      /\ \A i \in 1..Len(ss) : Ended(ss, {n})[i] = [ss[i] EXCEPT !.ended = (i \in {n}) \/ ss[i].ended]
  BY EndedFacts
<1> DEFINE e == Ended(ss, {n})
<1>2. f = [e EXCEPT ![n].level = level]
  BY DEF WithLevel
<1>3. /\ e \in Seq(SpanSet) /\ Len(e) = Len(ss) /\ DOMAIN e = 1..Len(ss)
      /\ \A i \in 1..Len(ss) : e[i] \in SpanSet /\ e[i] = [ss[i] EXCEPT !.ended = (i \in {n}) \/ ss[i].ended]
      /\ \A i \in 1..Len(ss) : ss[i] \in SpanSet
  <2>1. e \in Seq(SpanSet) /\ Len(e) = Len(ss)
    BY <1>1
  <2>2. DOMAIN e = 1..Len(ss) /\ \A i \in 1..Len(ss) : e[i] \in SpanSet
    <3> HIDE DEF e
    <3>1. QED
      BY <2>1
  <2>3. \A i \in 1..Len(ss) : e[i] = [ss[i] EXCEPT !.ended = (i \in {n}) \/ ss[i].ended]
    BY <1>1
  <2>4. \A i \in 1..Len(ss) : ss[i] \in SpanSet
    OBVIOUS
  <2>5. QED
    BY <2>1, <2>2, <2>3, <2>4
<1> HIDE DEF e
<1>4. [e[n] EXCEPT !.level = level] \in SpanSet
  BY <1>3 DEF SpanSet
<1>5. f \in Seq(SpanSet) /\ Len(f) = Len(ss)
  BY <1>2, <1>3, <1>4
<1>6. \A i \in 1..Len(ss) : f[i] = IF i = n THEN [e[n] EXCEPT !.level = level] ELSE e[i]
  BY <1>2, <1>3
<1>7. ASSUME NEW i \in 1..Len(ss)
      PROVE  /\ f[i].kind = ss[i].kind /\ f[i].parent = ss[i].parent /\ f[i].of = ss[i].of
             /\ f[i].out = ss[i].out
             /\ f[i].level = (IF i = n THEN level ELSE ss[i].level)
             /\ f[i].ended <=> (i = n \/ ss[i].ended)
  <2>1. ss[i] \in SpanSet /\ e[i] = [ss[i] EXCEPT !.ended = (i \in {n}) \/ ss[i].ended]
    BY <1>3
  <2>2. /\ e[i].kind = ss[i].kind /\ e[i].parent = ss[i].parent /\ e[i].of = ss[i].of /\ e[i].out = ss[i].out
        /\ e[i].level = ss[i].level /\ (e[i].ended <=> (i = n \/ ss[i].ended)) /\ e[i] \in SpanSet
    BY <1>3, <2>1 DEF SpanSet
  <2>3. f[i] = IF i = n THEN [e[i] EXCEPT !.level = level] ELSE e[i]
    BY <1>6
  <2>4. QED
    BY <2>2, <2>3 DEF SpanSet
<1>8. QED
  BY <1>5, <1>7 DEF Levelled

\* A response is an error: the record of its generation ends.
LEMMA ErrorStep ==
    ASSUME RunInv, UpdateGenerationMetadata
    PROVE  RunInv'
<1> USE DEF RunInv
<1>1. PICK g \in DOMAIN generations :
        /\ spans' = [Ended(spans, {generations[g].span}) EXCEPT ![generations[g].span].level = "ERROR"]
        /\ generations' = [generations EXCEPT ![g].open = FALSE]
  <2>1. Open # {} => OpenGeneration \in DOMAIN generations
    BY NewestOpen DEF Open
  <2>2. QED
    BY <2>1, Zenon DEF UpdateGenerationMetadata
<1>2. ~ runOver /\ UNCHANGED <<activeTurn, activeTools, toolCallCount, errorCount, requests, said, toolStage, runOver>>
  BY DEF UpdateGenerationMetadata
<1> DEFINE n == generations[g].span
<1>3. n \in DOMAIN spans /\ spans[n].kind = "generation"
  BY DEF Tracked
<1>5. /\ spans' \in Seq(SpanSet) /\ Len(spans') = Len(spans)
      /\ \A i \in DOMAIN spans : /\ Kept(i) /\ spans'[i].out = spans[i].out
                                 /\ spans'[i].level = (IF i = n THEN "ERROR" ELSE spans[i].level)
                                 /\ spans'[i].ended <=> (i = n \/ spans[i].ended)
  <2>1. spans \in Seq(SpanSet) /\ DOMAIN spans = 1..Len(spans) /\ n \in 1..Len(spans)
    BY <1>3, SaidFacts
  <2>2. spans' = WithLevel(spans, n, "ERROR") /\ "ERROR" \in Levels
    BY <1>1 DEF WithLevel, Levels
  <2> HIDE DEF n
  <2>3. Levelled(spans', spans, n, "ERROR")
    BY <2>1, <2>2, LevelFacts
  <2>4. QED
    BY <2>1, <2>3 DEF Levelled, Kept
<1>6. Grows /\ NewSpans = {} /\ DOMAIN spans' = DOMAIN spans
  BY <1>5, SaidFacts DEF Grows, NewSpans
<1>7. /\ generations' \in Seq(GenSet)
      /\ DOMAIN generations' = DOMAIN generations
      /\ \A h \in DOMAIN generations :
           generations'[h].span = generations[h].span /\ (generations'[h].open <=> h # g /\ generations[h].open)
      /\ generations' # <<>>
  <2>0. generations \in Seq(GenSet) /\ DOMAIN generations = 1..Len(generations)
    BY DEF RunTypeOK, GenSet
  <2>1. \A h \in DOMAIN generations : generations[h] \in GenSet
    BY <2>0
  <2>2. DOMAIN generations' = DOMAIN generations
    BY <1>1
  <2>3. \A h \in DOMAIN generations : generations'[h] = IF h = g THEN [generations[g] EXCEPT !.open = FALSE] ELSE generations[h]
    BY <1>1
  <2>4. [generations[g] EXCEPT !.open = FALSE] \in GenSet
    BY <2>1 DEF GenSet
  <2>5. generations' \in Seq(GenSet)
    BY <1>1, <2>0, <2>4
  <2>6. \A h \in DOMAIN generations :
           generations'[h].span = generations[h].span /\ (generations'[h].open <=> h # g /\ generations[h].open)
    BY <2>1, <2>3 DEF GenSet
  <2>7. generations' # <<>>
    BY <2>2, <2>5, SaidFacts
  <2>8. QED
    BY <2>2, <2>5, <2>6, <2>7
<1>8. Open' = Open \ {g}
  BY <1>7 DEF Open
<1>9. RunTypeOK'
  BY <1>2, <1>5, <1>7 DEF RunTypeOK, SpanSet, GenSet
<1>10. Tree'
  BY <1>2, <1>6, TreeKept
<1>11. OneRecordPerCall' /\ Counted'
  BY <1>2, <1>3, <1>5, <1>6, CallsKept DEF ToolSpans
<1>12. Tracked'
  <2>1. \A h \in DOMAIN generations : /\ generations[h].span \in DOMAIN spans
                                       /\ spans'[generations[h].span].kind = "generation"
                                       /\ spans'[generations[h].span].out = spans[generations[h].span].out
    BY <1>5 DEF Tracked, Kept
  <2>2. QED
    BY <1>6, <1>7, <2>1 DEF Tracked
<1>13. Closed'
  <2>1. SUFFICES ASSUME NEW i \in DOMAIN spans', ~ spans'[i].ended PROVE UnderWay(i)'
    BY <1>2 DEF Closed
  <2>2. i # n /\ UnderWay(i)
    BY <1>5, <1>6, <2>1 DEF Closed
  <2>3. QED
    BY <1>2, <1>7, <1>8, <2>2 DEF UnderWay, Open
<1>14. Messages'
  BY <1>2, <1>5, <1>6, <1>7, <1>8, MessagesKept
<1>15. QED
  BY <1>9, <1>10, <1>11, <1>12, <1>13, <1>14

LEMMA WithItem ==
    ASSUME NEW S, NEW q \in Seq(S), NEW n \in 1..Len(q), NEW x \in S
    PROVE  [q EXCEPT ![n] = x] \in Seq(S) /\ Len([q EXCEPT ![n] = x]) = Len(q)
  OBVIOUS

\* A generation's record ends with output m.
WithOutput(ss, n, m) == [Ended(ss, {n}) EXCEPT ![n].out = m]
LEMMA OutputFacts ==
    ASSUME NEW ss \in Seq(SpanSet), NEW n \in 1..Len(ss), NEW m \in Nat, NEW f,
           f = WithOutput(ss, n, m)
    PROVE  /\ f \in Seq(SpanSet) /\ Len(f) = Len(ss)
           /\ \A i \in 1..Len(ss) :
                /\ f[i].kind = ss[i].kind /\ f[i].parent = ss[i].parent /\ f[i].of = ss[i].of
                /\ f[i].level = ss[i].level
                /\ f[i].out = (IF i = n THEN m ELSE ss[i].out)
                /\ f[i].ended <=> (i = n \/ ss[i].ended)
<1> DEFINE e == Ended(ss, {n})
<1>0. /\ e \in Seq(SpanSet) /\ Len(e) = Len(ss)
      /\ \A i \in 1..Len(ss) : e[i] = [ss[i] EXCEPT !.ended = (i \in {n}) \/ ss[i].ended]
  BY EndedFacts
<1>2. f = [e EXCEPT ![n].out = m]
  BY DEF WithOutput
<1> HIDE DEF e
<1>1. /\ e \in Seq(SpanSet) /\ Len(e) = Len(ss) /\ DOMAIN e = 1..Len(ss)
      /\ \A i \in 1..Len(ss) : e[i] = [ss[i] EXCEPT !.ended = (i \in {n}) \/ ss[i].ended]
  BY <1>0
<1>3. \A i \in 1..Len(ss) : e[i] \in SpanSet /\ ss[i] \in SpanSet
  BY <1>1
<1>4. [e[n] EXCEPT !.out = m] \in SpanSet
  BY <1>3 DEF SpanSet
<1>5. f \in Seq(SpanSet) /\ Len(f) = Len(ss)
  <2>1. f = [e EXCEPT ![n] = [e[n] EXCEPT !.out = m]]
    BY <1>2
  <2>2. n \in 1..Len(e)
    BY <1>1
  <2>3. f \in Seq(SpanSet) /\ Len(f) = Len(e)
    <3> DEFINE x == [e[n] EXCEPT !.out = m]
    <3>1. x \in SpanSet /\ f = [e EXCEPT ![n] = x] /\ e \in Seq(SpanSet)
      BY <1>1, <1>4, <2>1
    <3> HIDE DEF x
    <3>2. QED
      BY <2>2, <3>1, WithItem
  <2>4. QED
    BY <1>1, <2>3
<1>6. \A i \in 1..Len(ss) : f[i] = IF i = n THEN [e[n] EXCEPT !.out = m] ELSE e[i]
  BY <1>1, <1>2
<1>7. ASSUME NEW i \in 1..Len(ss)
      PROVE  /\ f[i].kind = ss[i].kind /\ f[i].parent = ss[i].parent /\ f[i].of = ss[i].of
             /\ f[i].level = ss[i].level
             /\ f[i].out = (IF i = n THEN m ELSE ss[i].out)
             /\ f[i].ended <=> (i = n \/ ss[i].ended)
  <2>1. /\ e[i].kind = ss[i].kind /\ e[i].parent = ss[i].parent /\ e[i].of = ss[i].of
        /\ e[i].level = ss[i].level /\ e[i].out = ss[i].out
        /\ e[i].ended <=> (i = n \/ ss[i].ended)
    <3>1. ss[i] \in SpanSet /\ e[i] = [ss[i] EXCEPT !.ended = (i \in {n}) \/ ss[i].ended]
      BY <1>1, <1>3
    <3>2. QED
      BY <3>1 DEF SpanSet
  <2>2. CASE i = n
    <3>1. f[i] = [e[i] EXCEPT !.out = m] /\ e[i] \in SpanSet
      BY <1>3, <1>6, <2>2
    <3>2. /\ f[i].kind = e[i].kind /\ f[i].parent = e[i].parent /\ f[i].of = e[i].of
          /\ f[i].level = e[i].level /\ f[i].out = m /\ f[i].ended = e[i].ended
      BY <3>1 DEF SpanSet
    <3>3. QED
      BY <2>1, <2>2, <3>2
  <2>3. CASE i # n
    BY <1>6, <2>1, <2>3
  <2>4. QED
    BY <2>2, <2>3
<1>8. QED
  BY <1>5, <1>7

\* The same with FinishGeneration: nothing without an open generation.
LEMMA FinishFacts ==
    ASSUME RunInv, NEW m
    PROVE  \/ Open = {} /\ FinishGeneration(spans, generations, m).spans = spans /\ FinishGeneration(spans, generations, m).generations = generations
           \/ \E g \in Open :
                /\ FinishGeneration(spans, generations, m).spans = WithOutput(spans, generations[g].span, m)
                /\ FinishGeneration(spans, generations, m).generations = [generations EXCEPT ![g].open = FALSE]
<1>1. CASE Open = {}
  BY <1>1 DEF FinishGeneration, Open
<1>2. CASE Open # {}
  <2> DEFINE g == OpenGeneration
  <2>1. g \in Open
    BY <1>2, NewestOpen DEF RunInv
  <2>2. FinishGeneration(spans, generations, m) = [spans |-> WithOutput(spans, generations[g].span, m),
             generations |-> [generations EXCEPT ![g].open = FALSE]]
    BY <1>2 DEF FinishGeneration, Open, OpenGeneration, WithOutput
  <2> HIDE DEF g
  <2>3. /\ FinishGeneration(spans, generations, m).spans = WithOutput(spans, generations[g].span, m)
        /\ FinishGeneration(spans, generations, m).generations = [generations EXCEPT ![g].open = FALSE]
    BY <2>2
  <2>4. QED
    BY <2>1, <2>3
<1>3. QED
  BY <1>1, <1>2

LEMMA ClosesOne ==
    ASSUME RunTypeOK, NEW g \in DOMAIN generations, generations' = [generations EXCEPT ![g].open = FALSE]
    PROVE  /\ generations' \in Seq(GenSet) /\ DOMAIN generations' = DOMAIN generations
           /\ \A h \in DOMAIN generations :
                generations'[h].span = generations[h].span /\ (generations'[h].open <=> h # g /\ generations[h].open)
           /\ generations' # <<>> /\ Open' = Open \ {g}
<1>0. generations \in Seq(GenSet) /\ DOMAIN generations = 1..Len(generations)
  BY DEF RunTypeOK, GenSet
<1>1. \A h \in DOMAIN generations : generations[h] \in GenSet
  BY <1>0
<1>2. DOMAIN generations' = DOMAIN generations
  OBVIOUS
<1>3. \A h \in DOMAIN generations : generations'[h] = IF h = g THEN [generations[g] EXCEPT !.open = FALSE] ELSE generations[h]
  OBVIOUS
<1>4. [generations[g] EXCEPT !.open = FALSE] \in GenSet
  BY <1>1 DEF GenSet
<1>5. generations' \in Seq(GenSet)
  BY <1>0, <1>4
<1>6. \A h \in DOMAIN generations :
         generations'[h].span = generations[h].span /\ (generations'[h].open <=> h # g /\ generations[h].open)
  BY <1>1, <1>3 DEF GenSet
<1>7. generations' # <<>>
  BY <1>2, <1>5, SaidFacts
<1>8. QED
  BY <1>2, <1>5, <1>6, <1>7 DEF Open

\* One record gets output m, which is not any other's doing.
LEMMA OneOutput ==
    ASSUME RunTypeOK, Grows, NEW n \in DOMAIN spans', NEW m \in Nat \ {0},
           spans'[n].kind = "generation", spans'[n].out = m, n \in DOMAIN spans => spans[n].out = 0,
           \A i \in DOMAIN spans \ {n} : spans'[i].out = spans[i].out,
           \A i \in NewSpans \ {n} : spans'[i].out = 0
    PROVE  \A k : k # 0 => OutputOf(k)' = OutputOf(k) \cup (IF k = m THEN {n} ELSE {})
<1>1. DOMAIN spans \subseteq DOMAIN spans'
  BY SaidFacts DEF Grows
<1>2. QED
  BY <1>1 DEF OutputOf, Grows, Kept, NewSpans

LEMMA OnlyOpen ==
    ASSUME RunTypeOK, NEW g \in Open, ~ (Cardinality(Open) > 1)
    PROVE  Open = {g}
<1>1. Open \subseteq 1..Len(generations) /\ Len(generations) \in Nat
  BY SaidFacts DEF Open
<1>2. IsFiniteSet(Open)
  <2>1. IsFiniteSet(1..Len(generations))
    BY <1>1, FS_Interval
  <2>2. QED
    BY <1>1, <2>1, FS_Subset
<1>3. IsFiniteSet(Open \ {g}) /\ Cardinality(Open \ {g}) = Cardinality(Open) - 1 /\ Cardinality(Open) \in Nat
  BY <1>2, FS_RemoveElement, FS_CardinalityType
<1>4. Cardinality(Open \ {g}) \in Nat
  BY <1>3, FS_CardinalityType
<1>5. Cardinality(Open \ {g}) = 0
  BY <1>3, <1>4
<1>6. Open \ {g} = {}
  BY <1>3, <1>5, FS_EmptySet
<1>7. QED
  BY <1>6

\* What stays when an output is set: no tool, no place in the tree.
LEMMA OutputKeepsTree ==
    ASSUME RunInv, Grows, NewSpans = {}, activeTurn' \in {0, activeTurn},
           \A i \in DOMAIN spans : spans'[i].level = spans[i].level,
           UNCHANGED <<activeTools, toolStage, toolCallCount, errorCount, runOver>>
    PROVE  Tree' /\ OneRecordPerCall' /\ Counted'
<1>1. Tree'
  BY TreeKept DEF RunInv
<1>2. OneRecordPerCall' /\ Counted'
  BY CallsKept DEF RunInv, ToolSpans
<1>3. QED
  BY <1>1, <1>2

LEMMA MessageStep ==
    ASSUME RunInv, MessageEnd
    PROVE  RunInv'
<1> DEFINE m == TurnNo
<1>1. /\ ~ runOver /\ activeTurn # 0 /\ ~ said[m].came
      /\ said' = [said EXCEPT ![m] = [came |-> TRUE, asked |-> Open # {}, others |-> Cardinality(Open) > 1]]
      /\ UNCHANGED <<activeTurn, activeTools, toolCallCount, errorCount, requests, toolStage, runOver>>
  BY DEF MessageEnd
<1>2. m \in Nat /\ m \in DOMAIN said /\ m > 0 /\ TurnNo' = m /\ DOMAIN said' = DOMAIN said /\ DOMAIN said = 1..m
  <2>1. m \in Nat /\ DOMAIN said = 1..m /\ m > 0
    BY <1>1, SaidFacts DEF RunInv, Messages
  <2>2. Len(said') = Len(said) /\ DOMAIN said' = DOMAIN said
    BY <1>1, <2>1 DEF RunInv, RunTypeOK
  <2>3. QED
    BY <2>1, <2>2 DEF TurnNo
<1>3. /\ said' \in Seq([came : BOOLEAN, asked : BOOLEAN, others : BOOLEAN])
      /\ \A k \in DOMAIN said \ {m} : said'[k] = said[k]
      /\ said'[m].came /\ (said'[m].asked <=> Open # {}) /\ (said'[m].others <=> Cardinality(Open) > 1)
  <2> DEFINE x == [came |-> TRUE, asked |-> Open # {}, others |-> Cardinality(Open) > 1]
  <2>1. x \in [came : BOOLEAN, asked : BOOLEAN, others : BOOLEAN] /\ said' = [said EXCEPT ![m] = x] /\ said \in Seq([came : BOOLEAN, asked : BOOLEAN, others : BOOLEAN])
    BY <1>1 DEF RunInv, RunTypeOK
  <2>2. m \in 1..Len(said)
    BY <1>2, SaidFacts DEF RunInv
  <2>3. x.came /\ (x.asked <=> Open # {}) /\ (x.others <=> Cardinality(Open) > 1)
    OBVIOUS
  <2> HIDE DEF x
  <2>4. said' \in Seq([came : BOOLEAN, asked : BOOLEAN, others : BOOLEAN])
    BY <2>1, <2>2, WithItem, Zenon
  <2>5. QED
    BY <1>2, <2>1, <2>3, <2>4
<1>4. OutputOf(m) = {} /\ \A k \in DOMAIN said : k # 0
  BY <1>1, <1>2 DEF RunInv, Messages
<1> DEFINE f == FinishGeneration(spans, generations, m)
<1>5. spans' = f.spans /\ generations' = f.generations
  BY DEF MessageEnd
<1> HIDE DEF f
<1>6. ASSUME Open = {}, UNCHANGED <<spans, generations>> PROVE RunInv'
  <2>1. RunTypeOK'
    BY <1>1, <1>3, <1>6 DEF RunInv, RunTypeOK
  <2>2. Tree' /\ OneRecordPerCall' /\ Counted' /\ Tracked' /\ Closed'
    BY <1>1, <1>6 DEF RunInv, Tree, OneRecordPerCall, Counted, ToolSpans, ErrorSpans, Called, Tracked, Closed, UnderWay, Open
  <2>3. Open' = {} /\ \A k : OutputOf(k)' = OutputOf(k)
    BY <1>6 DEF Open, OutputOf
  <2>4. ASSUME NEW k \in DOMAIN said'
        PROVE  /\ ~ said'[k].came => OutputOf(k)' = {} /\ ~ said'[k].asked /\ ~ said'[k].others
               /\ said'[k].asked => generations' # <<>>
               /\ said'[k].asked /\ ~ said'[k].others => OutputOf(k)' # {}
               /\ ~ said'[k].others => \A i, j \in OutputOf(k)' : i = j
    <3>1. CASE k = m
      <4>1. OutputOf(k)' = {}
        BY <1>4, <2>3, <3>1
      <4>2. QED
        BY <1>3, <1>6, <3>1, <4>1
    <3>2. CASE k # m
      BY <1>2, <1>3, <1>6, <2>3, <3>2 DEF RunInv, Messages
    <3>3. QED
      BY <3>1, <3>2
  <2>5. (\A i \in DOMAIN spans : spans[i].out \in 0..TurnNo)' /\ (activeTurn # 0 => TurnNo > 0)'
    BY <1>2, <1>6 DEF RunInv, Messages
  <2>6. (activeTurn # 0 /\ said[TurnNo].came /\ ~ said[TurnNo].others =>
           Open = {} /\ (~ said[TurnNo].asked => OutputOf(TurnNo) = {}))'
    <3>1. OutputOf(TurnNo)' = {}
      BY <1>2, <1>4, <1>6 DEF OutputOf
    <3>2. QED
      BY <2>3, <3>1
  <2>7. Messages'
    BY <2>4, <2>5, <2>6, Zenon DEF Messages
  <2>8. QED
    BY <2>1, <2>2, <2>7 DEF RunInv
<1>7. ASSUME NEW g \in Open,
             f.spans = WithOutput(spans, generations[g].span, m),
             f.generations = [generations EXCEPT ![g].open = FALSE]
      PROVE RunInv'
  <2> DEFINE n == generations[g].span
  <2>1. n \in DOMAIN spans /\ spans[n].kind = "generation" /\ spans[n].out = 0 /\ g \in DOMAIN generations
    BY DEF RunInv, Tracked, Open
  <2>2. /\ spans' \in Seq(SpanSet) /\ Len(spans') = Len(spans) /\ spans \in Seq(SpanSet)
        /\ \A i \in DOMAIN spans :
             /\ Kept(i) /\ spans'[i].level = spans[i].level
             /\ spans'[i].out = (IF i = n THEN m ELSE spans[i].out)
             /\ spans'[i].ended <=> (i = n \/ spans[i].ended)
    <3>1. spans \in Seq(SpanSet) /\ n \in 1..Len(spans)
      BY <2>1, SaidFacts DEF RunInv
    <3>2. spans' = WithOutput(spans, n, m) /\ m \in Nat
      BY <1>2, <1>5, <1>7
    <3>3. /\ spans' \in Seq(SpanSet) /\ Len(spans') = Len(spans)
          /\ \A i \in 1..Len(spans) :
               /\ spans'[i].kind = spans[i].kind /\ spans'[i].parent = spans[i].parent /\ spans'[i].of = spans[i].of
               /\ spans'[i].level = spans[i].level
               /\ spans'[i].out = (IF i = n THEN m ELSE spans[i].out)
               /\ spans'[i].ended <=> (i = n \/ spans[i].ended)
      <4> HIDE DEF n, m
      <4>1. QED
        BY <3>1, <3>2, OutputFacts
    <3>4. QED
      BY <3>1, <3>3 DEF Kept
  <2>3. Grows /\ NewSpans = {} /\ DOMAIN spans' = DOMAIN spans
    BY <2>2, SaidFacts DEF Grows, NewSpans, RunInv
  <2>4. /\ generations' \in Seq(GenSet) /\ DOMAIN generations' = DOMAIN generations
        /\ \A h \in DOMAIN generations :
             generations'[h].span = generations[h].span /\ (generations'[h].open <=> h # g /\ generations[h].open)
        /\ generations' # <<>> /\ Open' = Open \ {g}
    BY <1>5, <1>7, <2>1, ClosesOne DEF RunInv
  <2>5. RunTypeOK'
    BY <1>1, <1>3, <2>2, <2>4 DEF RunInv, RunTypeOK, SpanSet, GenSet
  <2>6. Tree' /\ OneRecordPerCall' /\ Counted'
    BY <1>1, <2>2, <2>3, OutputKeepsTree
  <2>7. Tracked'
    <3>1. \A h \in DOMAIN generations : h # g => generations[h].span # n
      BY <2>1 DEF RunInv, Tracked
    <3>2. \A h \in DOMAIN generations :
            /\ generations[h].span \in DOMAIN spans
            /\ spans'[generations[h].span].kind = "generation"
            /\ h # g => spans'[generations[h].span].out = spans[generations[h].span].out
      BY <2>2, <3>1 DEF RunInv, Tracked, Kept
    <3>3. ASSUME NEW h \in DOMAIN generations'
          PROVE  /\ generations'[h].span \in DOMAIN spans'
                 /\ spans'[generations'[h].span].kind = "generation"
                 /\ generations'[h].open => spans'[generations'[h].span].out = 0
      <4>1. h \in DOMAIN generations /\ generations'[h].span = generations[h].span
        BY <2>4
      <4>2. generations'[h].open => h # g /\ spans[generations[h].span].out = 0
        BY <2>4, <4>1 DEF RunInv, Tracked
      <4>0. /\ generations[h].span \in DOMAIN spans /\ spans'[generations[h].span].kind = "generation"
            /\ h # g => spans'[generations[h].span].out = spans[generations[h].span].out
        BY <3>2, <4>1
      <4>3. /\ generations'[h].span \in DOMAIN spans' /\ spans'[generations'[h].span].kind = "generation"
            /\ h # g => spans'[generations'[h].span].out = spans[generations[h].span].out
        BY <2>3, <4>0, <4>1
      <4>4. QED
        BY <4>2, <4>3
    <3>4. \A h, k \in DOMAIN generations' : generations'[h].span = generations'[k].span => h = k
      BY <2>4 DEF RunInv, Tracked
    <3>5. QED
      BY <3>3, <3>4 DEF Tracked
  <2>8. Closed'
    <3>1. SUFFICES ASSUME NEW i \in DOMAIN spans', ~ spans'[i].ended PROVE UnderWay(i)'
      BY <1>1 DEF Closed
    <3>2. i # n /\ UnderWay(i)
      BY <2>2, <2>3, <3>1 DEF RunInv, Closed
    <3>3. QED
      BY <1>1, <2>4, <3>2 DEF UnderWay, Open
  <2>9. Messages'
    <3>1. \A k : k # 0 => OutputOf(k)' = OutputOf(k) \cup (IF k = m THEN {n} ELSE {})
      BY <1>2, <2>1, <2>2, <2>3, OneOutput DEF RunInv, Kept
    <3>2. \A k : k # 0 => OutputOf(k)' = (IF k = m THEN {n} ELSE OutputOf(k))
      BY <1>2, <1>4, <3>1
    <3>3. ~ said'[m].others => Open' = {}
      BY <1>3, <2>4, OnlyOpen DEF RunInv
    <3>4. ASSUME NEW k \in DOMAIN said'
          PROVE  /\ ~ said'[k].came => OutputOf(k)' = {} /\ ~ said'[k].asked /\ ~ said'[k].others
                 /\ said'[k].asked => generations' # <<>>
                 /\ said'[k].asked /\ ~ said'[k].others => OutputOf(k)' # {}
                 /\ ~ said'[k].others => \A i, j \in OutputOf(k)' : i = j
      <4>1. CASE k = m
        <5>1. k # 0
          BY <1>2, <4>1
        <5>2. OutputOf(k)' = {n}
          BY <3>2, <4>1, <5>1
        <5>3. said'[k].came /\ generations' # <<>>
          BY <1>3, <2>4, <4>1
        <5>4. QED
          BY <5>2, <5>3
      <4>2. CASE k # m
        <5>1. said'[k] = said[k] /\ OutputOf(k)' = OutputOf(k) /\ k \in DOMAIN said
          BY <1>2, <1>3, <1>4, <3>2, <4>2
        <5>2. QED
          BY <2>4, <5>1 DEF RunInv, Messages
      <4>3. QED
        BY <4>1, <4>2
    <3>5. (\A i \in DOMAIN spans : spans[i].out \in 0..TurnNo)'
      <4>1. \A i \in DOMAIN spans : spans'[i].out \in 0..m
        BY <1>2, <2>2 DEF RunInv, Messages
      <4>2. QED
        BY <1>2, <2>3, <4>1
    <3>6. (activeTurn # 0 => TurnNo > 0)'
      BY <1>2
    <3>7. (activeTurn # 0 /\ said[TurnNo].came /\ ~ said[TurnNo].others =>
             Open = {} /\ (~ said[TurnNo].asked => OutputOf(TurnNo) = {}))'
      <4>1. said'[m].asked
        BY <1>3
      <4>2. QED
        BY <1>2, <3>3, <4>1
    <3>8. QED
      BY <3>4, <3>5, <3>6, <3>7, Zenon DEF Messages
  <2>10. QED
    BY <2>5, <2>6, <2>7, <2>8, <2>9 DEF RunInv
<1>8. QED
  <2>2. \/ Open = {} /\ f.spans = spans /\ f.generations = generations
        \/ \E g \in Open :
             /\ f.spans = WithOutput(spans, generations[g].span, m)
             /\ f.generations = [generations EXCEPT ![g].open = FALSE]
    BY FinishFacts DEF f
  <2>3. QED
    BY <1>5, <1>6, <1>7, <2>2

\* A turn ends; before that its message may come again.
LEMMA EndedTurnFacts ==
    ASSUME NEW ss \in Seq(SpanSet), spans' = Ended(ss, {activeTurn})
    PROVE  /\ spans' \in Seq(SpanSet) /\ Len(spans') = Len(ss)
           /\ \A i \in 1..Len(ss) :
                /\ spans'[i].kind = ss[i].kind /\ spans'[i].parent = ss[i].parent /\ spans'[i].of = ss[i].of
                /\ spans'[i].level = ss[i].level /\ spans'[i].out = ss[i].out
                /\ spans'[i].ended <=> (i = activeTurn \/ ss[i].ended)
<1>1. /\ spans' \in Seq(SpanSet) /\ Len(spans') = Len(ss)
      /\ \A i \in 1..Len(ss) : spans'[i] = [ss[i] EXCEPT !.ended = (i \in {activeTurn}) \/ ss[i].ended]
  BY EndedFacts
<1>2. \A i \in 1..Len(ss) : ss[i] \in SpanSet
  OBVIOUS
<1>3. ASSUME NEW i \in 1..Len(ss)
      PROVE  /\ spans'[i].kind = ss[i].kind /\ spans'[i].parent = ss[i].parent /\ spans'[i].of = ss[i].of
             /\ spans'[i].level = ss[i].level /\ spans'[i].out = ss[i].out
             /\ spans'[i].ended <=> (i = activeTurn \/ ss[i].ended)
  <2>1. ss[i] \in SpanSet /\ spans'[i] = [ss[i] EXCEPT !.ended = (i \in {activeTurn}) \/ ss[i].ended]
    BY <1>1, <1>2
  <2>2. QED
    BY <2>1 DEF SpanSet
<1>4. QED
  BY <1>1, <1>3

LEMMA RunTurnEndStep ==
    ASSUME RunInv, TurnEnds
    PROVE  RunInv'
<1> DEFINE m == TurnNo
<1>1. /\ ~ runOver /\ activeTurn # 0 /\ activeTurn' = 0
      /\ UNCHANGED <<activeTools, toolCallCount, errorCount, requests, said, toolStage, runOver>>
  BY DEF TurnEnds
<1>2. m \in Nat /\ m \in DOMAIN said /\ m > 0 /\ TurnNo' = m /\ DOMAIN said = 1..m
  BY <1>1, SaidFacts DEF RunInv, Messages, TurnNo
<1>3. spans \in Seq(SpanSet) /\ DOMAIN spans = 1..Len(spans) /\ Len(spans) \in Nat
  BY SaidFacts DEF RunInv
\* Without a message, or with no generation waiting for it.
<1>4. ASSUME spans' = Ended(spans, {activeTurn}), generations' = generations PROVE RunInv'
  <2>1. /\ spans' \in Seq(SpanSet) /\ Len(spans') = Len(spans)
        /\ \A i \in DOMAIN spans :
             /\ Kept(i) /\ spans'[i].level = spans[i].level /\ spans'[i].out = spans[i].out
             /\ spans'[i].ended <=> (i = activeTurn \/ spans[i].ended)
    BY <1>3, <1>4, EndedTurnFacts DEF Kept
  <2>2. Grows /\ NewSpans = {} /\ DOMAIN spans' = DOMAIN spans
    BY <1>3, <2>1 DEF Grows, NewSpans
  <2>3. RunTypeOK'
    BY <1>1, <1>4, <2>1 DEF RunInv, RunTypeOK, SpanSet
  <2>4. Tree' /\ OneRecordPerCall' /\ Counted'
    BY <1>1, <2>1, <2>2, OutputKeepsTree
  <2>5. Tracked'
    BY <1>4, <2>1, <2>2, TrackedKept DEF RunInv
  <2>6. Closed'
    <3>1. SUFFICES ASSUME NEW i \in DOMAIN spans', ~ spans'[i].ended PROVE UnderWay(i)'
      BY <1>1 DEF Closed
    <3>2. i # activeTurn /\ UnderWay(i)
      BY <2>1, <2>2, <3>1 DEF RunInv, Closed
    <3>3. QED
      BY <1>1, <1>4, <3>2 DEF UnderWay, Open
  <2>7. Messages'
    <3>1. Open' = Open
      BY <1>4 DEF Open
    <3>2. QED
      BY <1>1, <1>4, <2>1, <2>2, <3>1, MessagesKept DEF RunInv
  <2>8. QED
    BY <2>3, <2>4, <2>5, <2>6, <2>7 DEF RunInv
\* The message goes to a second generation.
<1>5. ASSUME said[m].came, NEW g \in Open,
             spans' = Ended(WithOutput(spans, generations[g].span, m), {activeTurn}),
             generations' = [generations EXCEPT ![g].open = FALSE]
      PROVE RunInv'
  <2> DEFINE n == generations[g].span
  <2> DEFINE ss == WithOutput(spans, n, m)
  <2>1. n \in DOMAIN spans /\ spans[n].kind = "generation" /\ spans[n].out = 0 /\ g \in DOMAIN generations
    BY DEF RunInv, Tracked, Open
  <2>2. /\ ss \in Seq(SpanSet) /\ Len(ss) = Len(spans)
        /\ \A i \in 1..Len(spans) :
               /\ ss[i].kind = spans[i].kind /\ ss[i].parent = spans[i].parent /\ ss[i].of = spans[i].of
               /\ ss[i].level = spans[i].level
               /\ ss[i].out = (IF i = n THEN m ELSE spans[i].out)
               /\ ss[i].ended <=> (i = n \/ spans[i].ended)
    <3>1. n \in 1..Len(spans)
      BY <1>3, <2>1
    <3> HIDE DEF n, m
    <3>2. QED
      BY <1>2, <1>3, <3>1, OutputFacts
  <2>3. spans' = Ended(ss, {activeTurn})
    BY <1>5
  <2> HIDE DEF ss
  <2>4. /\ spans' \in Seq(SpanSet) /\ Len(spans') = Len(spans)
        /\ \A i \in DOMAIN spans :
             /\ Kept(i) /\ spans'[i].level = spans[i].level
             /\ spans'[i].out = (IF i = n THEN m ELSE spans[i].out)
             /\ spans'[i].ended <=> (i = activeTurn \/ i = n \/ spans[i].ended)
    <3> HIDE DEF n, m
    <3>1. /\ spans' \in Seq(SpanSet) /\ Len(spans') = Len(ss)
          /\ \A i \in 1..Len(ss) :
               /\ spans'[i].kind = ss[i].kind /\ spans'[i].parent = ss[i].parent /\ spans'[i].of = ss[i].of
               /\ spans'[i].level = ss[i].level /\ spans'[i].out = ss[i].out
               /\ spans'[i].ended <=> (i = activeTurn \/ ss[i].ended)
      BY <2>2, <2>3, EndedTurnFacts
    <3>2. QED
      BY <1>3, <2>2, <3>1 DEF Kept
  <2>5. Grows /\ NewSpans = {} /\ DOMAIN spans' = DOMAIN spans
    BY <1>3, <2>4 DEF Grows, NewSpans
  <2>6. /\ generations' \in Seq(GenSet) /\ DOMAIN generations' = DOMAIN generations
        /\ \A h \in DOMAIN generations :
             generations'[h].span = generations[h].span /\ (generations'[h].open <=> h # g /\ generations[h].open)
        /\ generations' # <<>> /\ Open' = Open \ {g}
    BY <1>5, <2>1, ClosesOne DEF RunInv
  <2>7. RunTypeOK'
    BY <1>1, <2>4, <2>6 DEF RunInv, RunTypeOK, SpanSet, GenSet
  <2>8. Tree' /\ OneRecordPerCall' /\ Counted'
    BY <1>1, <2>4, <2>5, OutputKeepsTree
  <2>9. Tracked'
    <3>1. \A h \in DOMAIN generations : h # g => generations[h].span # n
      BY <2>1 DEF RunInv, Tracked
    <3>2. \A h \in DOMAIN generations :
            /\ generations[h].span \in DOMAIN spans
            /\ spans'[generations[h].span].kind = "generation"
            /\ h # g => spans'[generations[h].span].out = spans[generations[h].span].out
      BY <2>4, <3>1 DEF RunInv, Tracked, Kept
    <3>3. ASSUME NEW h \in DOMAIN generations'
          PROVE  /\ generations'[h].span \in DOMAIN spans'
                 /\ spans'[generations'[h].span].kind = "generation"
                 /\ generations'[h].open => spans'[generations'[h].span].out = 0
      <4>1. h \in DOMAIN generations /\ generations'[h].span = generations[h].span
        BY <2>6
      <4>2. generations'[h].open => h # g /\ spans[generations[h].span].out = 0
        BY <2>6, <4>1 DEF RunInv, Tracked
      <4>3. QED
        BY <2>5, <3>2, <4>1, <4>2
    <3>4. \A h, k \in DOMAIN generations' : generations'[h].span = generations'[k].span => h = k
      BY <2>6 DEF RunInv, Tracked
    <3>5. QED
      BY <3>3, <3>4 DEF Tracked
  <2>10. Closed'
    <3>1. SUFFICES ASSUME NEW i \in DOMAIN spans', ~ spans'[i].ended PROVE UnderWay(i)'
      BY <1>1 DEF Closed
    <3>2. i # n /\ i # activeTurn /\ UnderWay(i)
      BY <2>4, <2>5, <3>1 DEF RunInv, Closed
    <3>3. QED
      BY <1>1, <2>6, <3>2 DEF UnderWay, Open
  <2>11. Messages'
    <3>1. \A k : k # 0 => OutputOf(k)' = OutputOf(k) \cup (IF k = m THEN {n} ELSE {})
      BY <1>2, <2>1, <2>4, <2>5, OneOutput DEF RunInv, Kept
    <3>2. said[m].others
      BY <1>1, <1>5 DEF RunInv, Messages
    <3>3. ASSUME NEW k \in DOMAIN said'
          PROVE  /\ ~ said'[k].came => OutputOf(k)' = {} /\ ~ said'[k].asked /\ ~ said'[k].others
                 /\ said'[k].asked => generations' # <<>>
                 /\ said'[k].asked /\ ~ said'[k].others => OutputOf(k)' # {}
                 /\ ~ said'[k].others => \A i, j \in OutputOf(k)' : i = j
      <4>1. said' = said /\ k \in DOMAIN said /\ k # 0
        BY <1>1, <1>2
      <4>2. CASE k = m
        BY <1>5, <2>6, <3>2, <4>1, <4>2
      <4>3. CASE k # m
        <5>1. OutputOf(k)' = OutputOf(k)
          BY <3>1, <4>1, <4>3
        <5>2. QED
          BY <2>6, <4>1, <5>1 DEF RunInv, Messages
      <4>4. QED
        BY <4>2, <4>3
    <3>4. (\A i \in DOMAIN spans : spans[i].out \in 0..TurnNo)'
      <4>1. \A i \in DOMAIN spans : spans'[i].out \in 0..m
        BY <1>2, <2>4 DEF RunInv, Messages
      <4>2. QED
        BY <1>2, <2>5, <4>1
    <3>5. activeTurn' = 0
      BY <1>1
    <3>6. QED
      BY <3>3, <3>4, <3>5, Zenon DEF Messages
  <2>12. QED
    BY <2>7, <2>8, <2>9, <2>10, <2>11 DEF RunInv
\* The run has no generation at all: one is made up for the message.
<1>6. ASSUME said[m].came, generations = <<>>,
             spans' = Ended(Append(spans, Span("generation", Parent, NoKey, m, TRUE)), {activeTurn}),
             generations' = <<[key |-> NoKey, span |-> Len(spans) + 1, open |-> FALSE]>>
      PROVE RunInv'
  <2> DEFINE new == Span("generation", Parent, NoKey, m, TRUE)
  <2> DEFINE n == Len(spans) + 1
  <2> DEFINE ss == Append(spans, new)
  <2>1. new \in SpanSet /\ new.kind = "generation" /\ new.parent = Parent /\ new.out = m /\ new.ended
    <3>1. Parent \in Nat
      BY DEF Parent, RunInv, RunTypeOK
    <3>2. QED
      BY <1>2, <3>1, SpanFacts DEF Kinds, Span
  <2>2. spans' = Ended(ss, {activeTurn})
    BY <1>6
  <2> HIDE DEF new, m
  <2>3. ss \in Seq(SpanSet) /\ Len(ss) = n /\ ss[n] = new /\ \A i \in DOMAIN spans : ss[i] = spans[i]
    BY <1>3, <2>1
  <2>4. n # activeTurn /\ n \notin DOMAIN spans /\ n \in 1..n
    BY <1>1, <1>3 DEF RunInv, Tree
  <2> HIDE DEF ss
  <2>5. /\ spans' \in Seq(SpanSet) /\ Len(spans') = n
        /\ \A i \in 1..n :
             /\ spans'[i].kind = ss[i].kind /\ spans'[i].parent = ss[i].parent /\ spans'[i].of = ss[i].of
             /\ spans'[i].level = ss[i].level /\ spans'[i].out = ss[i].out
             /\ spans'[i].ended <=> (i = activeTurn \/ ss[i].ended)
    BY <2>2, <2>3, EndedTurnFacts
  <2>6. /\ \A i \in DOMAIN spans :
             /\ Kept(i) /\ spans'[i].level = spans[i].level /\ spans'[i].out = spans[i].out
             /\ spans'[i].ended <=> (i = activeTurn \/ spans[i].ended)
        /\ spans'[n].kind = "generation" /\ spans'[n].parent = Parent /\ spans'[n].out = m /\ spans'[n].ended
    <3>1. DOMAIN spans \subseteq 1..n
      BY <1>3
    <3>2. QED
      BY <2>1, <2>3, <2>4, <2>5, <3>1 DEF Kept
  <2>7. Grows /\ NewSpans = {n} /\ DOMAIN spans' = 1..n
    BY <1>3, <2>5, <2>6 DEF Grows, NewSpans
  <2>8. /\ DOMAIN generations' = {1} /\ generations'[1].span = n /\ ~ generations'[1].open /\ generations' # <<>>
        /\ generations' \in Seq(GenSet)
    BY <1>3, <1>6 DEF GenSet
  <2>9. Open = {} /\ Open' = {}
    BY <1>6, <2>8 DEF Open
  <2>10. RunTypeOK'
    BY <1>1, <2>5, <2>8 DEF RunInv, RunTypeOK, SpanSet, GenSet
  <2>11. Tree'
    <3>1. \A i \in NewSpans : spans'[i].parent \in {1, Parent}
      BY <2>6, <2>7
    <3>2. activeTurn' # 0 => activeTurn' = activeTurn
                           \/ (activeTurn' \in DOMAIN spans' /\ spans'[activeTurn'].kind = "turn")
      BY <1>1
    <3>3. QED
      BY <2>7, <3>1, <3>2, TreeKept DEF RunInv
  <2>12. OneRecordPerCall' /\ Counted'
    <3>1. \A i \in NewSpans : spans'[i].kind # "tool"
      BY <2>6, <2>7
    <3>2. \A i \in ToolSpans : spans'[i].level = spans[i].level
      BY <2>6 DEF ToolSpans
    <3>3. QED
      BY <1>1, <2>7, <3>1, <3>2, CallsKept DEF RunInv
  <2>13. Tracked'
    BY <2>6, <2>7, <2>8, <1>3 DEF Tracked
  <2>14. Closed'
    <3>1. SUFFICES ASSUME NEW i \in DOMAIN spans', ~ spans'[i].ended PROVE UnderWay(i)'
      BY <1>1 DEF Closed
    <3>2. i \in DOMAIN spans
      BY <1>3, <2>6, <2>7, <3>1
    <3>3. i # activeTurn /\ UnderWay(i)
      BY <2>6, <3>1, <3>2 DEF RunInv, Closed
    <3>4. QED
      BY <1>1, <2>9, <3>3 DEF UnderWay
  <2>15. Messages'
    <3>1. \A k : k # 0 => OutputOf(k)' = OutputOf(k) \cup (IF k = m THEN {n} ELSE {})
      BY <1>2, <2>4, <2>6, <2>7, OneOutput DEF RunInv
    <3>2. ~ said[m].asked /\ (~ said[m].others => OutputOf(m) = {})
      BY <1>1, <1>2, <1>6 DEF RunInv, Messages, m
    <3>3. ASSUME NEW k \in DOMAIN said'
          PROVE  /\ ~ said'[k].came => OutputOf(k)' = {} /\ ~ said'[k].asked /\ ~ said'[k].others
                 /\ said'[k].asked => generations' # <<>>
                 /\ said'[k].asked /\ ~ said'[k].others => OutputOf(k)' # {}
                 /\ ~ said'[k].others => \A i, j \in OutputOf(k)' : i = j
      <4>1. said' = said /\ k \in DOMAIN said /\ k # 0
        BY <1>1, <1>2
      <4>2. CASE k = m
        <5>1. OutputOf(k)' = OutputOf(m) \cup {n}
          BY <3>1, <4>1, <4>2
        <5>2. QED
          BY <1>6, <2>8, <3>2, <4>1, <4>2, <5>1
      <4>3. CASE k # m
        <5>1. OutputOf(k)' = OutputOf(k)
          BY <3>1, <4>1, <4>3
        <5>2. QED
          BY <2>8, <4>1, <5>1 DEF RunInv, Messages
      <4>4. QED
        BY <4>2, <4>3
    <3>4. (\A i \in DOMAIN spans : spans[i].out \in 0..TurnNo)'
      <4>1. \A i \in DOMAIN spans : spans'[i].out \in 0..m
        BY <1>2, <2>6 DEF RunInv, Messages, m
      <4>2. \A i \in 1..n : i \in DOMAIN spans \/ i = n
        BY <1>3
      <4>3. QED
        BY <1>2, <2>6, <2>7, <4>1, <4>2
    <3>5. activeTurn' = 0
      BY <1>1
    <3>6. QED
      BY <3>3, <3>4, <3>5, Zenon DEF Messages
  <2>16. QED
    BY <2>10, <2>11, <2>12, <2>13, <2>14, <2>15 DEF RunInv
<1>7. CASE ~ said[m].came
  <2>1. spans' = Ended(spans, {activeTurn}) /\ generations' = generations
    BY <1>7 DEF TurnEnds
  <2>2. QED
    BY <1>4, <2>1
<1>8. CASE said[m].came /\ generations # <<>>
  <2> DEFINE f == FinishGeneration(spans, generations, m)
  <2>1. spans' = Ended(f.spans, {activeTurn}) /\ generations' = f.generations
    BY <1>8 DEF TurnEnds, Fallback
  <2> HIDE DEF f
  <2>2. \/ Open = {} /\ f.spans = spans /\ f.generations = generations
        \/ \E g \in Open :
             /\ f.spans = WithOutput(spans, generations[g].span, m)
             /\ f.generations = [generations EXCEPT ![g].open = FALSE]
    BY FinishFacts DEF f
  <2>3. CASE Open = {} /\ f.spans = spans /\ f.generations = generations
    BY <1>4, <2>1, <2>3
  <2>4. ASSUME NEW g \in Open,
               f.spans = WithOutput(spans, generations[g].span, m),
               f.generations = [generations EXCEPT ![g].open = FALSE]
        PROVE RunInv'
    <3>1. spans' = Ended(WithOutput(spans, generations[g].span, m), {activeTurn})
      BY <2>1, <2>4
    <3>2. generations' = [generations EXCEPT ![g].open = FALSE]
      BY <2>1, <2>4
    <3>3. QED
      BY <1>5, <1>8, <3>1, <3>2
  <2>5. QED
    BY <2>2, <2>3, <2>4
<1>9. CASE said[m].came /\ generations = <<>>
  <2> DEFINE ss == Append(spans, Span("generation", Parent, NoKey, m, TRUE))
  <2> DEFINE gs == <<[key |-> NoKey, span |-> Len(spans) + 1, open |-> FALSE]>>
  <2>1. Fallback(spans, generations, m) = [spans |-> ss, generations |-> gs]
    BY <1>9 DEF Fallback
  <2>2. {i \in DOMAIN gs : gs[i].open} = {}
    OBVIOUS
  <2>3. FinishGeneration(ss, gs, m) = [spans |-> ss, generations |-> gs]
    <3> HIDE DEF ss, gs, m
    <3>1. QED
      BY <2>2, Zenon DEF FinishGeneration
  <2> HIDE DEF ss, gs
  <2>4. spans' = Ended(ss, {activeTurn}) /\ generations' = gs
    BY <1>9, <2>1, <2>3 DEF TurnEnds
  <2>5. spans' = Ended(Append(spans, Span("generation", Parent, NoKey, m, TRUE)), {activeTurn})
    BY <2>4 DEF ss
  <2>6. generations' = <<[key |-> NoKey, span |-> Len(spans) + 1, open |-> FALSE]>>
    BY <2>4 DEF gs
  <2>7. QED
    BY <1>6, <1>9, <2>5, <2>6
<1>10. QED
  BY <1>7, <1>8, <1>9

LEMMA ToolSpansFinite ==
    ASSUME RunTypeOK
    PROVE  IsFiniteSet(ToolSpans) /\ IsFiniteSet(ErrorSpans)
<1>1. ToolSpans \in SUBSET (1..Len(spans)) /\ ErrorSpans \in SUBSET ToolSpans /\ Len(spans) \in Nat
  BY SaidFacts DEF ToolSpans, ErrorSpans
<1>2. IsFiniteSet(1..Len(spans))
  BY <1>1, FS_Interval
<1>3. IsFiniteSet(ToolSpans)
  BY <1>1, <1>2, FS_Subset
<1>4. QED
  BY <1>1, <1>3, FS_Subset

\* The first event of a call begins its record; the second finds it under way.
LEMMA ToolStartStep ==
    ASSUME RunInv, NEW t \in Tools, StartToolObservation(t)
    PROVE  RunInv'
<1> USE DEF RunInv
<1>1. /\ ~ runOver /\ toolStage[t] \in {"none", "started"}
      /\ toolStage' = [toolStage EXCEPT ![t] = IF @ = "none" THEN "started" ELSE "called"]
      /\ UNCHANGED <<activeTurn, generations, errorCount, requests, said, runOver>>
  BY DEF StartToolObservation
<1>2. /\ toolStage' \in [Tools -> {"none", "started", "called", "answered", "done"}]
      /\ toolStage'[t] = (IF toolStage[t] = "none" THEN "started" ELSE "called")
      /\ \A u \in Tools : u # t => toolStage'[u] = toolStage[u]
  BY <1>1 DEF RunTypeOK
<1>3. Called' = Called \cup {t}
  BY <1>2 DEF Called
<1>4. t \in DOMAIN activeTools <=> toolStage[t] = "started"
  BY <1>1 DEF OneRecordPerCall
<1>5. CASE t \in DOMAIN activeTools
  <2>1. UNCHANGED <<spans, activeTools, toolCallCount>>
    BY <1>5 DEF StartToolObservation
  <2>2. Called' = Called
    BY <1>3, <1>4, <1>5 DEF Called
  <2>3. RunTypeOK'
    BY <1>1, <1>2, <2>1 DEF RunTypeOK
  <2>4. Tree' /\ Tracked' /\ Closed' /\ Counted'
    BY <1>1, <2>1, <2>2 DEF Tree, Tracked, Closed, UnderWay, Open, Counted, ToolSpans, ErrorSpans
  <2>5. OneRecordPerCall'
    <3>1. \A u \in Tools : u \in DOMAIN activeTools <=> toolStage'[u] \in {"started", "called"}
      BY <1>1, <1>2, <1>4, <1>5 DEF OneRecordPerCall
    <3>2. ToolSpans' = ToolSpans
      BY <2>1 DEF ToolSpans
    <3>3. QED
      BY <2>1, <2>2, <3>1, <3>2 DEF OneRecordPerCall
  <2>6. Messages'
    BY <1>1, <2>1 DEF Messages, OutputOf, TurnNo, Open
  <2>7. QED
    BY <2>3, <2>4, <2>5, <2>6
<1>6. CASE t \notin DOMAIN activeTools
  <2> DEFINE new == Span("tool", Parent, t, 0, FALSE)
  <2> DEFINE n == Len(spans) + 1
  <2>1. /\ spans' = Append(spans, new) /\ toolCallCount' = toolCallCount + 1
        /\ DOMAIN activeTools' = DOMAIN activeTools \cup {t} /\ activeTools'[t] = n
        /\ \A u \in DOMAIN activeTools : activeTools'[u] = activeTools[u]
    BY <1>6 DEF StartToolObservation
  <2>2. /\ new \in SpanSet /\ new.kind = "tool" /\ new.parent = Parent /\ new.of = t /\ new.out = 0
        /\ new.level = "DEFAULT"
    <3>1. Parent \in Nat
      BY DEF Parent, RunTypeOK
    <3>2. QED
      BY <3>1, SpanFacts DEF Kinds, Span
  <2> HIDE DEF new
  <2>3. /\ spans' \in Seq(SpanSet) /\ DOMAIN spans' = 1..n
        /\ DOMAIN spans = 1..Len(spans) /\ Len(spans) \in Nat
        /\ spans'[n] = new
        /\ \A i \in DOMAIN spans : spans'[i] = spans[i]
    BY <2>1, <2>2, AddFacts, SaidFacts
  <2>4. Grows /\ NewSpans = {n} /\ n \notin DOMAIN spans /\ DOMAIN spans \subseteq DOMAIN spans'
    BY <2>3 DEF Grows, NewSpans, Kept
  <2> HIDE DEF n
  <2>5. ToolSpans' = ToolSpans \cup {n} /\ n \notin ToolSpans
    BY <2>2, <2>3, <2>4 DEF ToolSpans, NewSpans
  <2>6. ErrorSpans' = ErrorSpans
    <3>1. \A i \in ToolSpans : spans'[i].level = spans[i].level
      BY <2>3 DEF ToolSpans
    <3>2. spans'[n].level # "ERROR"
      BY <2>2, <2>3
    <3>3. QED
      BY <2>5, <3>1, <3>2 DEF ErrorSpans
  <2>7. t \notin Called /\ toolStage'[t] = "started"
    BY <1>1, <1>2, <1>4, <1>6 DEF Called
  <2>8. RunTypeOK'
    <3>1. toolCallCount' \in Nat /\ DOMAIN activeTools' \subseteq Tools
      BY <2>1 DEF RunTypeOK
    <3>2. QED
      BY <1>1, <1>2, <2>3, <3>1 DEF RunTypeOK, SpanSet
  <2>9. Tree'
    <3>1. \A i \in NewSpans : spans'[i].parent \in {1, Parent}
      BY <2>2, <2>3, <2>4
    <3>2. activeTurn' # 0 => activeTurn' = activeTurn
                           \/ (activeTurn' \in DOMAIN spans' /\ spans'[activeTurn'].kind = "turn")
      BY <1>1
    <3>3. QED
      BY <2>4, <3>1, <3>2, TreeKept
  <2>10. OneRecordPerCall'
    <3>0. /\ \A i \in ToolSpans : spans'[i] = spans[i] /\ spans[i].of \in Called
          /\ spans'[n].of = t /\ spans'[n].level = "DEFAULT"
      BY <2>2, <2>3 DEF ToolSpans, OneRecordPerCall
    <3>1. ASSUME NEW u \in DOMAIN activeTools'
          PROVE  activeTools'[u] \in ToolSpans' /\ spans'[activeTools'[u]].of = u
                 /\ spans'[activeTools'[u]].level = "DEFAULT"
      <4>1. CASE u = t
        BY <2>1, <2>5, <3>0, <4>1 DEF n
      <4>2. CASE u \in DOMAIN activeTools
        <5>1. activeTools'[u] = activeTools[u] /\ activeTools[u] \in ToolSpans
              /\ spans[activeTools[u]].of = u /\ spans[activeTools[u]].level = "DEFAULT"
          BY <2>1, <4>2 DEF OneRecordPerCall
        <5>2. QED
          BY <2>5, <3>0, <5>1
      <4>3. QED
        BY <2>1, <4>1, <4>2
    <3>2. \A i \in ToolSpans' : spans'[i].of \in Called'
      BY <1>3, <2>5, <3>0
    <3>3. \A i, j \in ToolSpans' : spans'[i].of = spans'[j].of => i = j
      <4>1. \A i, j \in ToolSpans : spans[i].of = spans[j].of => i = j
        BY DEF OneRecordPerCall
      <4>2. QED
        BY <2>5, <2>7, <3>0, <4>1
    <3>4. \A u \in Called' : \E i \in ToolSpans' : spans'[i].of = u
      <4>1. \A u \in Called : \E i \in ToolSpans : spans[i].of = u
        BY DEF OneRecordPerCall
      <4>2. QED
        BY <1>3, <2>5, <3>0, <4>1
    <3>5. \A u \in Tools : u \in DOMAIN activeTools' <=> toolStage'[u] \in {"started", "called"}
      BY <1>1, <1>2, <2>1, <2>7 DEF OneRecordPerCall
    <3>6. QED
      BY <3>1, <3>2, <3>3, <3>4, <3>5 DEF OneRecordPerCall
  <2>11. Counted'
    <3>1. IsFiniteSet(ToolSpans) /\ IsFiniteSet(Called) /\ Cardinality(Called) = toolCallCount
          /\ Cardinality(ToolSpans) = toolCallCount
      BY ToolSpansFinite DEF Counted
    <3>2. Cardinality(ToolSpans') = toolCallCount + 1
      BY <2>5, <3>1, FS_AddElement
    <3>3. IsFiniteSet(Called') /\ Cardinality(Called') = toolCallCount + 1
      BY <1>3, <2>7, <3>1, FS_AddElement
    <3>4. Cardinality(ErrorSpans') = errorCount'
      BY <1>1, <2>6 DEF Counted
    <3>5. QED
      BY <2>1, <3>2, <3>3, <3>4 DEF Counted
  <2>12. Tracked'
    BY <1>1, <2>3, <2>4, TrackedKept
  <2>13. Closed'
    <3>1. SUFFICES ASSUME NEW i \in DOMAIN spans', ~ spans'[i].ended PROVE UnderWay(i)'
      BY <1>1 DEF Closed
    <3>2. CASE i \in DOMAIN spans
      <4>1. UnderWay(i)
        BY <2>3, <3>1, <3>2 DEF Closed
      <4>2. Open' = Open
        BY <1>1 DEF Open
      <4>3. QED
        BY <1>1, <2>1, <4>1, <4>2 DEF UnderWay
    <3>3. CASE i = n
      BY <2>1, <3>3 DEF UnderWay, n
    <3>4. QED
      BY <2>4, <3>1, <3>2, <3>3 DEF NewSpans
  <2>14. Messages'
    <3>1. Open' = Open
      BY <1>1 DEF Open
    <3>2. \A i \in NewSpans : spans'[i].out = 0
      BY <2>2, <2>3, <2>4
    <3>3. QED
      BY <1>1, <2>3, <2>4, <3>1, <3>2, MessagesKept
  <2>15. QED
    BY <2>8, <2>9, <2>10, <2>11, <2>12, <2>13, <2>14
<1>7. QED
  BY <1>5, <1>6

\* The first result ends the record; the second finds nothing under way.
LEMMA ToolEndStep ==
    ASSUME RunInv, NEW t \in Tools, FinishToolObservation(t)
    PROVE  RunInv'
<1> USE DEF RunInv
<1>1. /\ ~ runOver /\ toolStage[t] \in {"called", "answered"}
      /\ toolStage' = [toolStage EXCEPT ![t] = IF @ = "called" THEN "answered" ELSE "done"]
      /\ UNCHANGED <<activeTurn, generations, toolCallCount, requests, said, runOver>>
  BY DEF FinishToolObservation
<1>2. /\ toolStage' \in [Tools -> {"none", "started", "called", "answered", "done"}]
      /\ toolStage'[t] = (IF toolStage[t] = "called" THEN "answered" ELSE "done")
      /\ \A u \in Tools : u # t => toolStage'[u] = toolStage[u]
  BY <1>1 DEF RunTypeOK
<1>3. Called' = Called
  BY <1>1, <1>2 DEF Called
<1>4. t \in DOMAIN activeTools <=> toolStage[t] = "called"
  BY <1>1 DEF OneRecordPerCall
<1>5. Open' = Open
  BY <1>1 DEF Open
<1>6. CASE t \notin DOMAIN activeTools
  <2>1. UNCHANGED <<spans, activeTools, errorCount>>
    BY <1>6 DEF FinishToolObservation
  <2>2. RunTypeOK'
    BY <1>1, <1>2, <2>1 DEF RunTypeOK
  <2>3. Tree' /\ Tracked' /\ Closed' /\ Counted'
    BY <1>1, <1>3, <2>1 DEF Tree, Tracked, Closed, UnderWay, Open, Counted, ToolSpans, ErrorSpans
  <2>4. OneRecordPerCall'
    <3>1. \A u \in Tools : u \in DOMAIN activeTools <=> toolStage'[u] \in {"started", "called"}
      BY <1>1, <1>2, <1>4, <1>6 DEF OneRecordPerCall
    <3>2. ToolSpans' = ToolSpans
      BY <2>1 DEF ToolSpans
    <3>3. QED
      BY <1>3, <2>1, <3>1, <3>2 DEF OneRecordPerCall
  <2>5. Messages'
    BY <1>1, <2>1 DEF Messages, OutputOf, TurnNo, Open
  <2>6. QED
    BY <2>2, <2>3, <2>4, <2>5
<1>7. CASE t \in DOMAIN activeTools
  <2> DEFINE n == activeTools[t]
  <2>1. n \in ToolSpans /\ spans[n].of = t /\ spans[n].level = "DEFAULT"
    BY <1>7 DEF OneRecordPerCall
  <2>2. spans \in Seq(SpanSet) /\ DOMAIN spans = 1..Len(spans) /\ n \in 1..Len(spans)
    BY <2>1, SaidFacts DEF ToolSpans
  <2>3. PICK isError \in BOOLEAN :
          /\ spans' = [Ended(spans, {n}) EXCEPT ![n].level = IF isError THEN "ERROR" ELSE @]
          /\ activeTools' = [x \in DOMAIN activeTools \ {t} |-> activeTools[x]]
          /\ errorCount' = errorCount + (IF isError THEN 1 ELSE 0)
    BY <1>7 DEF FinishToolObservation
  <2> DEFINE level == IF isError THEN "ERROR" ELSE "DEFAULT"
  <2>4. spans' = WithLevel(spans, n, level) /\ level \in Levels
    <3>1. /\ Ended(spans, {n}) \in Seq(SpanSet)
          /\ Ended(spans, {n})[n] = [spans[n] EXCEPT !.ended = (n \in {n}) \/ spans[n].ended]
      <4> HIDE DEF n
      <4>1. QED
        BY <2>2, EndedFacts
    <3>2. spans[n] \in SpanSet
      BY <2>2
    <3>3. Ended(spans, {n})[n].level = "DEFAULT"
      <4> HIDE DEF n
      <4>1. QED
        BY <2>1, <3>1, <3>2 DEF SpanSet
    <3> HIDE DEF n
    <3>4. CASE isError
      BY <2>3, <3>4 DEF WithLevel, Levels
    <3>5. CASE ~ isError
      BY <2>3, <3>3, <3>5 DEF WithLevel, Levels
    <3>6. QED
      BY <3>4, <3>5
  <2>5. DOMAIN activeTools' = DOMAIN activeTools \ {t} /\ \A u \in DOMAIN activeTools' : activeTools'[u] = activeTools[u]
    BY <2>3
  <2> HIDE DEF n, level
  <2>6. /\ spans' \in Seq(SpanSet) /\ Len(spans') = Len(spans)
        /\ \A i \in DOMAIN spans : /\ Kept(i) /\ spans'[i].out = spans[i].out
                                   /\ spans'[i].level = (IF i = n THEN level ELSE spans[i].level)
                                   /\ spans'[i].ended <=> (i = n \/ spans[i].ended)
    <3>1. Levelled(spans', spans, n, level)
      BY <2>2, <2>4, LevelFacts
    <3>2. QED
      BY <2>2, <3>1 DEF Levelled, Kept
  <2>7. Grows /\ NewSpans = {} /\ DOMAIN spans' = DOMAIN spans
    BY <2>2, <2>6 DEF Grows, NewSpans
  <2>8. ToolSpans' = ToolSpans
    BY <2>6, <2>7 DEF ToolSpans, Kept
  <2>9. ErrorSpans' = (IF isError THEN ErrorSpans \cup {n} ELSE ErrorSpans) /\ n \notin ErrorSpans
    <3>1. \A i \in ToolSpans : spans'[i].level = (IF i = n THEN level ELSE spans[i].level)
      BY <2>6 DEF ToolSpans
    <3>2. QED
      BY <2>1, <2>8, <3>1 DEF ErrorSpans, level
  <2>10. RunTypeOK'
    <3>1. errorCount' \in Nat /\ DOMAIN activeTools' \subseteq Tools
      BY <2>3, <2>5 DEF RunTypeOK
    <3>2. QED
      BY <1>1, <1>2, <2>6, <3>1 DEF RunTypeOK, SpanSet
  <2>11. Tree'
    BY <1>1, <2>7, TreeKept
  <2>12. OneRecordPerCall'
    <3>1. \A i \in ToolSpans : spans'[i].of = spans[i].of /\ (i # n => spans'[i].level = spans[i].level)
      BY <2>6 DEF ToolSpans, Kept
    <3>2. ASSUME NEW u \in DOMAIN activeTools'
          PROVE  activeTools'[u] \in ToolSpans /\ spans'[activeTools'[u]].of = u
                 /\ spans'[activeTools'[u]].level = "DEFAULT"
      <4>1. activeTools'[u] = activeTools[u] /\ activeTools[u] \in ToolSpans /\ u # t
            /\ spans[activeTools[u]].of = u /\ spans[activeTools[u]].level = "DEFAULT"
        BY <2>5 DEF OneRecordPerCall
      <4>2. activeTools[u] # n
        BY <2>1, <4>1
      <4>3. QED
        BY <3>1, <4>1, <4>2
    <3>3. /\ \A i \in ToolSpans : spans'[i].of \in Called
          /\ \A i, j \in ToolSpans : spans'[i].of = spans'[j].of => i = j
          /\ \A u \in Called : \E i \in ToolSpans : spans'[i].of = u
      BY <3>1 DEF OneRecordPerCall
    <3>4. \A u \in Tools : u \in DOMAIN activeTools' <=> toolStage'[u] \in {"started", "called"}
      BY <1>1, <1>2, <2>5 DEF OneRecordPerCall
    <3>5. QED
      BY <1>3, <2>8, <3>2, <3>3, <3>4 DEF OneRecordPerCall
  <2>13. Counted'
    <3>1. Cardinality(ErrorSpans') = errorCount'
      <4>1. IsFiniteSet(ErrorSpans) /\ Cardinality(ErrorSpans) = errorCount /\ errorCount \in Nat
        BY ToolSpansFinite DEF Counted, RunTypeOK
      <4>2. Cardinality(ErrorSpans \cup {n}) = errorCount + 1
        BY <2>9, <4>1, FS_AddElement
      <4>3. CASE isError
        BY <2>3, <2>9, <4>2, <4>3
      <4>4. CASE ~ isError
        BY <2>3, <2>9, <4>1, <4>4
      <4>5. QED
        BY <4>3, <4>4
    <3>2. QED
      BY <1>1, <1>3, <2>8, <3>1 DEF Counted
  <2>14. Tracked'
    BY <1>1, <2>6, <2>7, TrackedKept
  <2>15. Closed'
    <3>1. SUFFICES ASSUME NEW i \in DOMAIN spans', ~ spans'[i].ended PROVE UnderWay(i)'
      BY <1>1 DEF Closed
    <3>2. i # n /\ UnderWay(i)
      BY <2>6, <2>7, <3>1 DEF Closed
    <3>3. QED
      BY <1>1, <1>5, <2>5, <3>2 DEF UnderWay, n
  <2>16. Messages'
    BY <1>1, <1>5, <2>6, <2>7, MessagesKept
  <2>17. QED
    BY <2>10, <2>11, <2>12, <2>13, <2>14, <2>15, <2>16
<1>8. QED
  BY <1>6, <1>7

LEMMA CancelledFacts ==
    ASSUME NEW ss \in Seq(SpanSet), NEW S, NEW f, f = Cancelled(ss, S)
    PROVE  /\ f \in Seq(SpanSet) /\ Len(f) = Len(ss)
           /\ \A i \in 1..Len(ss) :
                /\ f[i].kind = ss[i].kind /\ f[i].parent = ss[i].parent /\ f[i].of = ss[i].of
                /\ f[i].out = ss[i].out
                /\ f[i].level = (IF i \in S THEN "WARNING" ELSE ss[i].level)
                /\ f[i].ended <=> (i \in S \/ ss[i].ended)
<1>1. \A i \in 1..Len(ss) : ss[i] \in SpanSet
  OBVIOUS
<1>2. \A i \in 1..Len(ss) : [ss[i] EXCEPT !.ended = TRUE, !.level = "WARNING"] \in SpanSet
  BY <1>1 DEF SpanSet, Levels
<1>3. f = [i \in 1..Len(ss) |-> IF i \in S THEN [ss[i] EXCEPT !.ended = TRUE, !.level = "WARNING"] ELSE ss[i]]
  <2>1. DOMAIN ss = 1..Len(ss)
    OBVIOUS
  <2>2. QED
    BY <2>1 DEF Cancelled
<1> DEFINE el(i) == IF i \in S THEN [ss[i] EXCEPT !.ended = TRUE, !.level = "WARNING"] ELSE ss[i]
<1>4. f \in Seq(SpanSet) /\ Len(f) = Len(ss)
  <2>1. \A i \in 1..Len(ss) : el(i) \in SpanSet
    BY <1>1, <1>2
  <2>2. f = [i \in 1..Len(ss) |-> el(i)]
    BY <1>3, Zenon
  <2>0. Len(ss) \in Nat
    OBVIOUS
  <2> HIDE DEF el
  <2>3. QED
    BY <2>0, <2>1, <2>2
<1>5. ASSUME NEW i \in 1..Len(ss)
      PROVE  /\ f[i].kind = ss[i].kind /\ f[i].parent = ss[i].parent /\ f[i].of = ss[i].of
             /\ f[i].out = ss[i].out
             /\ f[i].level = (IF i \in S THEN "WARNING" ELSE ss[i].level)
             /\ f[i].ended <=> (i \in S \/ ss[i].ended)
  <2>1. ss[i] \in SpanSet /\ f[i] = IF i \in S THEN [ss[i] EXCEPT !.ended = TRUE, !.level = "WARNING"] ELSE ss[i]
    BY <1>1, <1>3
  <2>2. QED
    BY <2>1 DEF SpanSet
<1>6. QED
  BY <1>4, <1>5

\* The end of the run closes what is under way.
LEMMA RunEndStep ==
    ASSUME RunInv, FinishAgentRun
    PROVE  RunInv'
<1> USE DEF RunInv
<1> DEFINE S == {activeTools[t] : t \in DOMAIN activeTools} \cup {generations[i].span : i \in Open}
<1> DEFINE ss == Cancelled(spans, S)
<1>1. /\ ~ runOver /\ runOver' = TRUE /\ spans' = Ended(ss, {activeTurn, 1})
      /\ generations' = [i \in DOMAIN generations |-> [generations[i] EXCEPT !.open = FALSE]]
      /\ activeTurn' = 0 /\ activeTools' = <<>>
      /\ UNCHANGED <<toolCallCount, errorCount, requests, said, toolStage>>
  BY DEF FinishAgentRun, CloseDanglingObservations
<1>2. spans \in Seq(SpanSet) /\ DOMAIN spans = 1..Len(spans) /\ \A i \in DOMAIN spans : spans[i] \in SpanSet
  BY SaidFacts
<1>3. /\ ss \in Seq(SpanSet) /\ Len(ss) = Len(spans)
      /\ \A i \in DOMAIN spans :
           /\ ss[i].kind = spans[i].kind /\ ss[i].parent = spans[i].parent /\ ss[i].of = spans[i].of
           /\ ss[i].out = spans[i].out
           /\ ss[i].level = (IF i \in S THEN "WARNING" ELSE spans[i].level)
           /\ ss[i].ended <=> (i \in S \/ spans[i].ended)
  <2> HIDE DEF S
  <2>1. QED
    BY <1>2, CancelledFacts
<1>4. \A i \in DOMAIN spans : (i \in S => ~ (spans[i].kind = "tool" /\ spans[i].level = "ERROR"))
  BY DEF OneRecordPerCall, Tracked, Open, ToolSpans
<1>5. \A i \in DOMAIN spans : UnderWay(i) <=> i \in S \cup {activeTurn, 1}
  BY DEF UnderWay
<1> HIDE DEF S, ss
<1>6. /\ spans' \in Seq(SpanSet) /\ Len(spans') = Len(spans)
      /\ \A i \in DOMAIN spans :
           /\ Kept(i) /\ spans'[i].out = spans[i].out
           /\ spans'[i].level = (IF i \in S THEN "WARNING" ELSE spans[i].level)
           /\ spans'[i].ended <=> (i \in {activeTurn, 1} \/ i \in S \/ spans[i].ended)
  <2>1. /\ spans' \in Seq(SpanSet) /\ Len(spans') = Len(ss)
        /\ \A i \in 1..Len(ss) : spans'[i] = [ss[i] EXCEPT !.ended = (i \in {activeTurn, 1}) \/ ss[i].ended]
    BY <1>1, <1>3, EndedFacts
  <2>2. ASSUME NEW i \in DOMAIN spans
        PROVE  /\ spans'[i].kind = ss[i].kind /\ spans'[i].parent = ss[i].parent /\ spans'[i].of = ss[i].of
               /\ spans'[i].out = ss[i].out /\ spans'[i].level = ss[i].level
               /\ spans'[i].ended <=> (i \in {activeTurn, 1} \/ ss[i].ended)
    <3>1. ss[i] \in SpanSet /\ spans'[i] = [ss[i] EXCEPT !.ended = (i \in {activeTurn, 1}) \/ ss[i].ended]
      BY <1>2, <1>3, <2>1
    <3>2. QED
      BY <3>1 DEF SpanSet
  <2>3. QED
    BY <1>3, <2>1, <2>2 DEF Kept
<1>7. Grows /\ NewSpans = {} /\ DOMAIN spans' = DOMAIN spans
  BY <1>2, <1>6 DEF Grows, NewSpans
<1>8. /\ generations' \in Seq(GenSet) /\ DOMAIN generations' = DOMAIN generations
      /\ \A g \in DOMAIN generations : generations'[g].span = generations[g].span /\ ~ generations'[g].open
      /\ generations = <<>> \/ generations' # <<>>
  <2>1. generations \in Seq(GenSet) /\ DOMAIN generations = 1..Len(generations) /\ Len(generations) \in Nat
    BY SaidFacts DEF RunTypeOK, GenSet
  <2>2. \A g \in DOMAIN generations : generations[g] \in GenSet /\ generations'[g] = [generations[g] EXCEPT !.open = FALSE]
    BY <1>1, <2>1
  <2>3. \A g \in DOMAIN generations : generations'[g] \in GenSet
    BY <2>2 DEF GenSet
  <2>4. generations' \in Seq(GenSet) /\ DOMAIN generations' = DOMAIN generations
    BY <1>1, <2>1, <2>3
  <2>5. \A g \in DOMAIN generations : generations'[g].span = generations[g].span /\ ~ generations'[g].open
    BY <2>2 DEF GenSet
  <2>6. QED
    BY <2>4, <2>5
<1>9. Open' = {}
  BY <1>8 DEF Open
<1>10. DOMAIN activeTools' = {}
  BY <1>1
<1>11. ToolSpans' = ToolSpans /\ ErrorSpans' = ErrorSpans /\ Called' = Called
  <2>1. ToolSpans' = ToolSpans
    BY <1>6, <1>7 DEF ToolSpans, Kept
  <2>2. \A i \in ToolSpans : spans'[i].level = "ERROR" <=> spans[i].level = "ERROR"
    BY <1>4, <1>6 DEF ToolSpans
  <2>3. QED
    BY <1>1, <2>1, <2>2 DEF ErrorSpans, Called
<1>12. RunTypeOK'
  BY <1>1, <1>6, <1>8, <1>10 DEF RunTypeOK, SpanSet, GenSet
<1>13. Tree'
  BY <1>1, <1>7, TreeKept
<1>14. OneRecordPerCall' /\ Counted'
  <2>1. \A i \in ToolSpans : spans'[i].of = spans[i].of
    BY <1>6 DEF ToolSpans, Kept
  <2>2. OneRecordPerCall'
    <3>1. /\ \A i \in ToolSpans : spans'[i].of \in Called
          /\ \A i, j \in ToolSpans : spans'[i].of = spans'[j].of => i = j
          /\ \A t \in Called : \E i \in ToolSpans : spans'[i].of = t
      BY <2>1 DEF OneRecordPerCall
    <3>2. QED
      BY <1>1, <1>10, <1>11, <3>1 DEF OneRecordPerCall
  <2>3. QED
    BY <1>1, <1>11, <2>2 DEF Counted
<1>15. Tracked'
  <2>1. \A g \in DOMAIN generations : generations[g].span \in DOMAIN spans /\ spans'[generations[g].span].kind = "generation"
    BY <1>6 DEF Tracked, Kept
  <2>2. QED
    BY <1>7, <1>8, <2>1 DEF Tracked
<1>16. Closed'
  BY <1>5, <1>6, <1>7 DEF Closed
<1>17. Messages'
  BY <1>1, <1>6, <1>7, <1>8, MessagesKept
<1>18. QED
  BY <1>12, <1>13, <1>14, <1>15, <1>16, <1>17

LEMMA RunStep ==
    ASSUME RunInv, [RunNext]_piRunVars
    PROVE  RunInv'
<1>1. CASE UNCHANGED piRunVars
  <2>1. RunTypeOK' /\ Tree' /\ OneRecordPerCall' /\ Counted' /\ Tracked' /\ Closed'
    BY <1>1 DEF piRunVars, RunInv, RunTypeOK, Tree, OneRecordPerCall, Counted, ToolSpans, ErrorSpans, Called,
                Tracked, Closed, UnderWay, Open
  <2>2. Messages'
    BY <1>1 DEF piRunVars, RunInv, Messages, OutputOf, TurnNo, Open
  <2>3. QED
    BY <2>1, <2>2 DEF RunInv
<1>2. CASE RunNext
  <2>1. ASSUME NEW t \in Tools, StartToolObservation(t) \/ FinishToolObservation(t)
        PROVE  RunInv'
    BY <2>1, ToolStartStep, ToolEndStep
  <2>2. QED
    BY <1>2, <2>1, TurnStep, CompactStep, RunTurnEndStep, RequestStep, ErrorStep, MessageStep, RunEndStep DEF RunNext
<1>3. QED
  BY <1>1, <1>2

LEMMA RunBegins ==
    ASSUME RunInit
    PROVE  RunInv
<1> DEFINE root == Span("agent", 0, NoKey, 0, FALSE)
<1>0. spans = <<root>> /\ root.kind = "agent" /\ root.out = 0 /\ root \in SpanSet
  BY SpanFacts DEF RunInit, Span, Kinds
<1> HIDE DEF root
<1>1. spans \in Seq(SpanSet) /\ DOMAIN spans = {1} /\ spans[1] = root
  BY <1>0
<1>2. spans[1].kind = "agent" /\ spans[1].out = 0
  BY <1>0, <1>1
<1>3. RunTypeOK
  <2>2. DOMAIN activeTools = {} /\ generations = <<>> /\ said = <<>> /\ toolStage = [t \in Tools |-> "none"]
        /\ activeTurn = 0 /\ toolCallCount = 0 /\ errorCount = 0 /\ requests = 0 /\ runOver = FALSE
    BY DEF RunInit
  <2>3. /\ generations \in Seq(GenSet) /\ said \in Seq([came : BOOLEAN, asked : BOOLEAN, others : BOOLEAN])
        /\ toolStage \in [Tools -> {"none", "started", "called", "answered", "done"}]
    BY <2>2
  <2>4. QED
    BY <1>1, <2>2, <2>3 DEF RunTypeOK, SpanSet, GenSet
<1>4. Tree
  <2>1. spans # <<>> /\ activeTurn = 0
    BY <1>0 DEF RunInit
  <2>2. QED
    BY <1>1, <1>2, <2>1 DEF Tree
<1>5. ToolSpans = {} /\ ErrorSpans = {} /\ Called = {} /\ Open = {}
  <2>1. ToolSpans = {}
    BY <1>1, <1>2 DEF ToolSpans
  <2>2. \A t \in Tools : toolStage[t] = "none"
    BY DEF RunInit
  <2>3. DOMAIN generations = {}
    BY DEF RunInit
  <2>4. QED
    BY <2>1, <2>2, <2>3 DEF ErrorSpans, Called, Open
<1>6. OneRecordPerCall /\ Counted
  BY <1>5, FS_EmptySet DEF RunInit, OneRecordPerCall, Counted
<1>7. Tracked /\ Closed
  BY <1>1 DEF RunInit, Tracked, Closed, UnderWay
<1>8. Messages
  <2>1. said = <<>> /\ DOMAIN said = {} /\ TurnNo = 0 /\ activeTurn = 0
    BY DEF RunInit, TurnNo
  <2>2. 0 \in 0..0 /\ \A i \in DOMAIN spans : spans[i].out = 0
    BY <1>1, <1>2
  <2>3. QED
    BY <2>1, <2>2 DEF Messages
<1>9. QED
  BY <1>3, <1>4, <1>6, <1>7, <1>8 DEF RunInv

\* What the handlers of a run keep true (state.ts, handlers/turn.ts, generation.ts, tool.ts):
\* the records form a tree under the root; each tool call that Pi announced has one record,
\* each tracked generation one of its own; whatever is not ended is the root, the active turn
\* or something the run still tracks.
THEOREM RunInvariant == RunSpec => []RunInv
<1>1. RunInit => RunInv
  BY RunBegins
<1>2. RunInv /\ [RunNext]_piRunVars => RunInv'
  BY RunStep
<1>3. QED
  BY <1>1, <1>2, PTL DEF RunSpec

\* Whatever finishAgentRun (handlers/agent.ts) finds under way, the trace it leaves is whole: every record
\* is ended and hangs under a turn or the root, a call is one record however often Pi sends its
\* start and its end, and the counts sent as scores are those of the records.
THEOREM TraceIsWholeAlways == RunSpec => []TraceIsWhole
<1>1. RunInv => TraceIsWhole
  <2>1. SUFFICES ASSUME RunInv, runOver PROVE TraceIsWhole
    BY DEF TraceIsWhole
  <2>2. \A i \in DOMAIN spans : spans[i].ended
    BY <2>1 DEF RunInv, Closed
  <2>3. \A i \in 2..Len(spans) : spans[spans[i].parent].kind \in {"agent", "turn"}
    BY <2>1, SaidFacts DEF RunInv, Tree
  <2>4. {spans[i].of : i \in ToolSpans} = {t \in Tools : toolStage[t] # "none"}
    BY <2>1 DEF RunInv, OneRecordPerCall, Called
  <2>5. Cardinality(ToolSpans) = toolCallCount /\ Cardinality(Called) = toolCallCount
        /\ Cardinality(ErrorSpans) = errorCount
    BY <2>1 DEF RunInv, Counted
  <2>6. QED
    BY <2>2, <2>3, <2>4, <2>5 DEF TraceIsWhole, ToolSpans, ErrorSpans, Called
<1>2. QED
  BY <1>1, RunInvariant, PTL

\* A message that found one open request is the output of that generation and no other, and one
\* that found none is the output of at most one: the one turn_end makes up when the run has no
\* generation at all (generation.ts:117, 163).  Neither the second delivery of the message by
\* turn_end nor a repeated request can give it to two.
THEOREM OneGenerationPerMessage == RunSpec => []MessageInOneGeneration
<1>1. ASSUME RunInv, NEW m \in DOMAIN said, ~ said[m].others
      PROVE  /\ said[m].came /\ said[m].asked => Cardinality(OutputOf(m)) = 1
             /\ Cardinality(OutputOf(m)) <= 1
  <2>1. \A i, j \in OutputOf(m) : i = j
    BY <1>1 DEF RunInv, Messages
  <2>2. CASE OutputOf(m) = {}
    BY <1>1, <2>2, FS_EmptySet DEF RunInv, Messages
  <2>3. CASE OutputOf(m) # {}
    <3>1. PICK i : OutputOf(m) = {i}
      BY <2>1, <2>3
    <3>2. Cardinality(OutputOf(m)) = 1
      BY <3>1, FS_Singleton
    <3>3. QED
      BY <3>2
  <2>4. QED
    BY <2>2, <2>3
<1>2. RunInv => MessageInOneGeneration
  BY <1>1 DEF MessageInOneGeneration, OutputOf
<1>3. QED
  BY <1>2, RunInvariant, PTL

-----------------------------------------------------------------------------
(* PiHook.                                                                 *)

-----------------------------------------------------------------------------
(* Types, and the stages of a process.                                     *)

Recorded == [id : Runs, turns : Int, emitted : BOOLEAN]
Run == Recorded \cup {NoRun}
SessionState == [run : Run, turnCount : Int]
Handler == [session : Sessions, kind : {"end", "shutdown"}, run : Recorded, count : Int, sent : BOOLEAN]
Process ==
    [stage : {"off", "loading", "up"}, names : SUBSET Sessions,
     held : [session : Sessions, run : Run] \cup {NotHeld}, found : Seq(Recorded),
     agent : [Sessions -> Runs \cup {0}], state : [Sessions -> SessionState], calls : SUBSET Handler]

TypeOK ==
    /\ pi \in [Procs -> Process] /\ file \in [Sessions -> Run]
    /\ turnsOf \in [Runs -> Int] /\ got \in [Runs -> Seq(Int)]

\* Only a process that loads has checkpoints in hand, only one that is up has sessions.
Stages ==
    \A p \in Procs :
        /\ pi[p].stage # "loading" => pi[p].names = {} /\ pi[p].held = NotHeld /\ pi[p].found = <<>>
        /\ pi[p].stage # "up" =>
             pi[p].calls = {} /\ \A s \in Sessions : pi[p].agent[s] = 0 /\ pi[p].state[s] = NoState

-----------------------------------------------------------------------------
(* Where a run is.                                                         *)

Alive(r, p, s) == pi[p].agent[s] = r
Held(r, p) == pi[p].held.run.id = r
Found(r, p) == \E f \in ToSet(pi[p].found) : f.id = r
CallsOf(r, p) == {c \in pi[p].calls : c.run.id = r}

\* Where it is in a process, and in its checkpoint: in the session it began in.
AtProcess(r, p, s) ==
    \/ Alive(r, p, s)
    \/ Held(r, p) /\ pi[p].held.session = s
    \/ \E c \in pi[p].calls : c.run.id = r /\ c.session = s
Home(r, s) == file[s].id = r \/ \E p \in Procs : AtProcess(r, p, s)

\* A run that did not begin is nowhere.
FreshNowhere ==
    \A r \in Runs :
        /\ turnsOf[r] >= -1
        /\ turnsOf[r] = -1 =>
             /\ got[r] = <<>>
             /\ \A s \in Sessions : ~ Home(r, s)
             /\ \A p \in Procs : ~ Found(r, p)

\* An agent or one handler has the run in memory.
OneOwner ==
    \A r \in Runs : \A p, q \in Procs :
        /\ \A s, t \in Sessions : Alive(r, p, s) /\ Alive(r, q, t) => p = q /\ s = t
        /\ \A s \in Sessions : Alive(r, p, s) => \A c \in pi[q].calls : c.run.id # r
        /\ \A c \in pi[p].calls, d \in pi[q].calls : c.run.id = r /\ d.run.id = r => p = q /\ c = d
OneHome ==
    \A r \in Runs : \A s, t \in Sessions : Home(r, s) /\ Home(r, t) => s = t

\* The state of a session is its agent's, unless its last handler reset it.
StateOfAgent ==
    \A p \in Procs : \A s \in Sessions :
        LET r == pi[p].agent[s]
            st == pi[p].state[s]
        IN  /\ r = 0 => \/ st = NoState
                        \/ st.run.emitted /\ \E c \in pi[p].calls : c.session = s
            /\ r # 0 => \/ st.run = NoRun
                        \/ st.run.id = r /\ ~ st.run.emitted

PlacesInv == TypeOK /\ Stages /\ FreshNowhere /\ OneOwner /\ OneHome /\ StateOfAgent

-----------------------------------------------------------------------------
(* The scores of a run count its turns.                                    *)

ScoreInv ==
    /\ \A p \in Procs : \A s \in Sessions : \A r \in Runs :
         Alive(r, p, s) /\ ~ Excused(r, {"overtaken"}) =>
             /\ Waiting(p, s) = {}
             /\ pi[p].state[s].run.id = r
             /\ pi[p].state[s].run.turns = pi[p].state[s].turnCount
    /\ \A p \in Procs : \A c \in pi[p].calls :
         ~ c.sent /\ ~ Excused(c.run.id, {"overtaken"}) =>
             c.run.turns = c.count /\ c.count = pi[p].state[c.session].turnCount
    /\ ScoresAreOfTheRun

-----------------------------------------------------------------------------
(* A run is one trace.                                                     *)

NoFile(r) == \A s \in Sessions : file[s].id # r
FoundOnce(r, p) ==
    \A j, k \in DOMAIN pi[p].found : pi[p].found[j].id = r /\ pi[p].found[k].id = r => j = k

\* It is in one hand; it is in no checkpoint any more when it is to be sent by its end or by
\* a recovery; and when it was sent, only the handler that did has it.
Once(r) ==
    /\ Len(got[r]) <= 1
    /\ \A p, q \in Procs :
         /\ Held(r, p) /\ Held(r, q) => p = q
         /\ Found(r, p) /\ Found(r, q) => p = q
         /\ Held(r, p) => ~ Found(r, q)
         /\ Held(r, p) \/ Found(r, p) => CallsOf(r, q) = {} /\ \A s \in Sessions : ~ Alive(r, q, s)
    /\ \A p \in Procs :
         /\ FoundOnce(r, p)
         /\ Found(r, p) => NoFile(r)
         /\ \A c \in CallsOf(r, p) : c.kind = "end" => NoFile(r)
    /\ got[r] # <<>> =>
         /\ \A p \in Procs : /\ ~ Held(r, p) /\ ~ Found(r, p) /\ \A s \in Sessions : ~ Alive(r, p, s)
                             /\ \A c \in CallsOf(r, p) : c.sent
         /\ NoFile(r) \/ \E p \in Procs : CallsOf(r, p) # {}

Twice == {"raced", "not cleared", "answer lost"}
OnceInv == \A r \in Runs : ~ Excused(r, Twice) => Once(r)

-----------------------------------------------------------------------------
(* A run is reported with all its finished turns.                          *)

InFile(r, s) == file[s].id = r /\ file[s].turns = turnsOf[r]

\* Each that has it has all its turns, and can lose it to nobody but the checkpoint.
AgentHas(r, p, s) ==
    Alive(r, p, s) =>
        /\ pi[p].state[s].run.id = r /\ pi[p].state[s].run.turns = turnsOf[r]
        /\ turnsOf[r] > 0 => InFile(r, s)
        /\ \A q \in Procs : ~ Held(r, q) /\ ~ Found(r, q)
CallHas(r, c) ==
    /\ c.sent => turnsOf[r] \in ToSet(got[r])
    /\ ~ c.sent => c.run.turns = turnsOf[r]
    /\ ~ c.sent /\ c.kind = "shutdown" /\ turnsOf[r] > 0 => InFile(r, c.session)
    /\ \A q \in Procs : ~ Held(r, q)
HandHas(r, p) ==
    Held(r, p) =>
        /\ pi[p].held.run.turns = turnsOf[r] /\ InFile(r, pi[p].held.session)
        /\ \A q \in Procs : Held(r, q) => p = q
Somewhere(r) ==
    \/ \E p \in Procs : CallsOf(r, p) # {} \/ Found(r, p) \/ \E s \in Sessions : Alive(r, p, s)
    \/ ~ NoFile(r)
    \/ turnsOf[r] \in ToSet(got[r])

Reported(r) ==
    /\ \A p \in Procs :
         /\ \A s \in Sessions : AgentHas(r, p, s)
         /\ \A c \in CallsOf(r, p) : CallHas(r, c)
         /\ HandHas(r, p)
         /\ \A f \in ToSet(pi[p].found) : f.id = r => f.turns = turnsOf[r]
    /\ \A s \in Sessions : file[s].id = r => InFile(r, s)
    /\ Somewhere(r)

Lost == {"cleared", "raced", "replaced", "reset", "not written", "refused", "first turn"}
ReportedInv == \A r \in Runs : turnsOf[r] >= 0 /\ ~ Excused(r, Lost) => Reported(r)

-----------------------------------------------------------------------------
(* What a step does to a process, field by field.                          *)

Only(p) == pi' \in [Procs -> Process] /\ \A q \in Procs : q # p => pi'[q] = pi[q]
SameLoading(p) ==
    /\ pi'[p].stage = pi[p].stage /\ pi'[p].names = pi[p].names
    /\ pi'[p].held = pi[p].held /\ pi'[p].found = pi[p].found
SameSessions(p) ==
    pi'[p].agent = pi[p].agent /\ pi'[p].state = pi[p].state /\ pi'[p].calls = pi[p].calls

\* A step changes one process, and keeps it one.
LEMMA Becomes ==
  ASSUME TypeOK, NEW p \in Procs, NEW x \in Process, pi' = [pi EXCEPT ![p] = x]
  PROVE  Only(p) /\ pi'[p] = x
  BY DEF TypeOK, Only

LEMMA ZeroIsNoRun == 0 \notin Runs /\ \A r \in Runs : r \in Int
  BY DEF Runs

\* What Off is.
LEMMA OffFields ==
  /\ Off \in Process /\ NoRun \in Run /\ NoState \in SessionState
  /\ Off.stage = "off" /\ Off.names = {} /\ Off.held = NotHeld /\ Off.found = <<>> /\ Off.calls = {}
  /\ \A s \in Sessions : Off.agent[s] = 0 /\ Off.state[s] = NoState
  BY DEF Off, Process, NotHeld, NoState, NoRun, SessionState, Run

LEMMA ProcessTypes ==
  ASSUME TypeOK, NEW p \in Procs
  PROVE  /\ pi[p] \in Process /\ pi[p].calls \in SUBSET Handler /\ pi[p].found \in Seq(Recorded)
         /\ pi[p].held = NotHeld \/ pi[p].held \in [session : Sessions, run : Run]
         /\ pi[p].held.run \in Run
         /\ pi[p].held.run # NoRun => pi[p].held.run \in Recorded /\ pi[p].held.session \in Sessions
         /\ \A s \in Sessions :
              /\ pi[p].agent[s] \in Runs \cup {0} /\ pi[p].state[s] \in SessionState
              /\ pi[p].state[s].run \in Run /\ pi[p].state[s].turnCount \in Int
              /\ pi[p].agent[s] # 0 => pi[p].agent[s] \in Runs
              /\ pi[p].state[s].run # NoRun => pi[p].state[s].run \in Recorded
<1>1. pi[p] \in Process
  BY DEF TypeOK
<1>2. \A s \in Sessions : pi[p].agent[s] \in Runs \cup {0} /\ pi[p].state[s] \in SessionState
  BY <1>1 DEF Process
<1>3. \A s \in Sessions : pi[p].state[s].run \in Run /\ pi[p].state[s].turnCount \in Int
  BY <1>2 DEF SessionState
<1>4. /\ pi[p].calls \in SUBSET Handler /\ pi[p].found \in Seq(Recorded)
      /\ pi[p].held = NotHeld \/ pi[p].held \in [session : Sessions, run : Run]
  BY <1>1 DEF Process
<1>5. NotHeld.run = NoRun /\ NoRun \in Run
  BY DEF NotHeld, Run
<1>6. pi[p].held.run \in Run /\ (pi[p].held.run # NoRun => pi[p].held.session \in Sessions)
  BY <1>4, <1>5
<1>7. QED BY <1>1, <1>2, <1>3, <1>4, <1>6 DEF Run

LEMMA LoadStep ==
  ASSUME TypeOK, Stages, NEW p \in Procs, Load(p)
  PROVE  /\ Only(p) /\ pi[p].stage = "off" /\ pi'[p].stage = "loading"
         /\ pi'[p].held = NotHeld /\ pi'[p].found = <<>> /\ pi'[p].calls = {}
         /\ \A s \in Sessions : pi'[p].agent[s] = 0 /\ pi'[p].state[s] = NoState
<1> DEFINE x == [Off EXCEPT !.stage = "loading", !.names = {s \in Sessions : file[s] # NoRun}]
<1>1. x \in Process
  BY OffFields DEF Process
<1>2. pi' = [pi EXCEPT ![p] = x] /\ pi[p].stage = "off"
  BY DEF Load
<1>3. /\ x.stage = "loading" /\ x.held = NotHeld /\ x.found = <<>> /\ x.calls = {}
      /\ x.agent = Off.agent /\ x.state = Off.state
  BY OffFields DEF Process
<1> HIDE DEF x
<1>4. Only(p) /\ pi'[p] = x
  BY <1>1, <1>2, Becomes
<1>5. QED BY <1>2, <1>3, <1>4, OffFields

LEMMA ReadStep ==
  ASSUME TypeOK, NEW p \in Procs, ReadCheckpoint(p)
  PROVE  /\ Only(p) /\ SameSessions(p) /\ pi[p].stage = "loading" /\ pi'[p].stage = "loading"
         /\ pi[p].held = NotHeld /\ pi'[p].found = pi[p].found
         /\ \E s \in Sessions : /\ s \in pi[p].names
                                /\ pi'[p].held = [session |-> s, run |-> file[s]]
                                /\ excuse' = excuse \cup Excuse({file[s].id} \cap InHand(p), "raced")
<1>1. PICK s \in pi[p].names :
        /\ pi' = [pi EXCEPT ![p].names = @ \ {s}, ![p].held = [session |-> s, run |-> file[s]]]
        /\ excuse' = excuse \cup Excuse({file[s].id} \cap InHand(p), "raced")
  BY DEF ReadCheckpoint
<1>2. pi[p].stage = "loading" /\ pi[p].held = NotHeld
  BY DEF ReadCheckpoint
<1>3. pi[p] \in Process /\ s \in Sessions /\ file[s] \in Run
  BY DEF TypeOK, Process
<1> DEFINE x == [pi[p] EXCEPT !.names = @ \ {s}, !.held = [session |-> s, run |-> file[s]]]
<1>4. pi' = [pi EXCEPT ![p] = x]
  BY <1>1 DEF TypeOK
<1>5. x \in Process
  BY <1>3 DEF Process
<1>6. /\ x.stage = pi[p].stage /\ x.held = [session |-> s, run |-> file[s]] /\ x.found = pi[p].found
      /\ x.agent = pi[p].agent /\ x.state = pi[p].state /\ x.calls = pi[p].calls
  BY <1>3 DEF Process
<1> HIDE DEF x
<1>7. QED BY <1>1, <1>2, <1>3, <1>4, <1>5, <1>6, Becomes DEF SameSessions

LEMMA RemoveStep ==
  ASSUME TypeOK, Stages, NEW p \in Procs, RemoveCheckpoint(p)
  PROVE  /\ Only(p) /\ SameSessions(p) /\ pi[p].stage = "loading" /\ pi'[p].stage = "loading"
         /\ pi[p].held # NotHeld /\ pi'[p].held = NotHeld
         /\ pi'[p].found = IF pi[p].held.run = NoRun THEN pi[p].found ELSE Append(pi[p].found, pi[p].held.run)
         /\ pi[p].held.run # NoRun => pi[p].held.run \in Recorded
<1>1. pi[p] \in Process /\ pi[p].held # NotHeld
  BY DEF TypeOK, RemoveCheckpoint
<1>2. pi[p].stage = "loading"
  BY <1>1 DEF Stages
<1>3. pi[p].held.run # NoRun => pi[p].held.run \in Recorded
  BY ProcessTypes DEF Run
<1> DEFINE found == IF pi[p].held.run = NoRun THEN pi[p].found ELSE Append(pi[p].found, pi[p].held.run)
<1>5. found \in Seq(Recorded)
  BY <1>1, <1>3 DEF Process
<1> DEFINE x == [pi[p] EXCEPT !.held = NotHeld, !.found = found]
<1>6. pi' = [pi EXCEPT ![p] = x]
  BY DEF RemoveCheckpoint, TypeOK
<1> HIDE DEF found
<1>7. x \in Process
  BY <1>1, <1>5 DEF Process
<1>8. /\ x.stage = pi[p].stage /\ x.held = NotHeld /\ x.found = found
      /\ x.agent = pi[p].agent /\ x.state = pi[p].state /\ x.calls = pi[p].calls
  BY <1>1 DEF Process
<1> HIDE DEF x
<1>9. QED BY <1>1, <1>2, <1>3, <1>6, <1>7, <1>8, Becomes DEF SameSessions, found

LEMMA RecoverStep ==
  ASSUME TypeOK, NEW p \in Procs, Recover(p)
  PROVE  /\ Only(p) /\ SameSessions(p) /\ pi[p].stage = "loading" /\ pi'[p].stage = "loading"
         /\ pi'[p].held = pi[p].held /\ pi[p].found # <<>> /\ pi'[p].found = Tail(pi[p].found)
         /\ Head(pi[p].found) \in Recorded
<1>1. pi[p] \in Process /\ pi[p].found # <<>> /\ pi[p].stage = "loading"
  BY DEF TypeOK, Recover
<1>2. Tail(pi[p].found) \in Seq(Recorded) /\ Head(pi[p].found) \in Recorded
  BY <1>1 DEF Process
<1> DEFINE x == [pi[p] EXCEPT !.found = Tail(@)]
<1>3. pi' = [pi EXCEPT ![p] = x]
  BY DEF Recover, TypeOK
<1>4. x \in Process
  BY <1>1, <1>2 DEF Process
<1>5. /\ x.stage = pi[p].stage /\ x.held = pi[p].held /\ x.found = Tail(pi[p].found)
      /\ x.agent = pi[p].agent /\ x.state = pi[p].state /\ x.calls = pi[p].calls
  BY <1>1 DEF Process
<1> HIDE DEF x
<1>6. QED BY <1>1, <1>2, <1>3, <1>4, <1>5, Becomes DEF SameSessions

LEMMA LoadedStep ==
  ASSUME TypeOK, NEW p \in Procs, Loaded(p)
  PROVE  /\ Only(p) /\ SameSessions(p) /\ pi'[p].stage = "up"
         /\ pi'[p].held = pi[p].held /\ pi'[p].found = pi[p].found /\ pi'[p].names = pi[p].names
         /\ pi[p].held = NotHeld /\ pi[p].found = <<>> /\ pi[p].names = {}
<1>1. pi[p] \in Process
  BY DEF TypeOK
<1> DEFINE x == [pi[p] EXCEPT !.stage = "up"]
<1>2. pi' = [pi EXCEPT ![p] = x] /\ pi[p].held = NotHeld /\ pi[p].found = <<>> /\ pi[p].names = {}
  BY DEF Loaded, TypeOK
<1>3. x \in Process
  BY <1>1 DEF Process
<1>4. /\ x.stage = "up" /\ x.held = pi[p].held /\ x.found = pi[p].found /\ x.names = pi[p].names
      /\ x.agent = pi[p].agent /\ x.state = pi[p].state /\ x.calls = pi[p].calls
  BY <1>1 DEF Process
<1> HIDE DEF x
<1>5. QED BY <1>2, <1>3, <1>4, Becomes DEF SameSessions

\* The sessions of p after a step that is one of session s.
OnlySession(p, s) ==
    /\ Only(p) /\ SameLoading(p)
    /\ \A t \in Sessions : t # s => pi'[p].agent[t] = pi[p].agent[t] /\ pi'[p].state[t] = pi[p].state[t]

LEMMA SessionStartStep ==
  ASSUME TypeOK, NEW p \in Procs, NEW s \in Sessions, SessionStart(p, s)
  PROVE  /\ OnlySession(p, s) /\ pi[p].stage = "up" /\ pi[p].agent[s] = 0 /\ pi'[p].agent[s] = 0
         /\ pi'[p].state[s] = NoState /\ pi'[p].calls = pi[p].calls
<1>1. pi[p] \in Process /\ pi[p].stage = "up" /\ pi[p].agent[s] = 0
  BY DEF TypeOK, SessionStart, Up
<1> DEFINE x == [pi[p] EXCEPT !.state = [@ EXCEPT ![s] = NoState]]
<1>2. pi' = [pi EXCEPT ![p] = x]
  BY DEF SessionStart, TypeOK
<1>3. x \in Process
  BY <1>1, OffFields DEF Process
<1>4. /\ x.stage = pi[p].stage /\ x.names = pi[p].names /\ x.held = pi[p].held /\ x.found = pi[p].found
      /\ x.agent = pi[p].agent /\ x.state = [pi[p].state EXCEPT ![s] = NoState] /\ x.calls = pi[p].calls
  BY <1>1 DEF Process
<1> HIDE DEF x
<1>5. Only(p) /\ pi'[p] = x
  BY <1>2, <1>3, Becomes
<1>6. SameLoading(p) /\ pi'[p].agent = pi[p].agent /\ pi'[p].state = [pi[p].state EXCEPT ![s] = NoState]
  BY <1>4, <1>5 DEF SameLoading
<1>7. QED BY <1>1, <1>4, <1>5, <1>6, ProcessTypes DEF Process, OnlySession

\* A new run begins.
Begins(p, s, r) ==
    /\ turnsOf[r] = -1 /\ turnsOf' = [turnsOf EXCEPT ![r] = 0]
    /\ excuse' = excuse \cup Excuse(IF Waiting(p, s) = {} THEN {} ELSE {r}, "overtaken")
    /\ pi'[p].agent[s] = r
    /\ pi'[p].state[s] = [pi[p].state[s] EXCEPT !.run = RunOrNew(pi[p].state[s].run, r)]

LEMMA BeforeAgentStartStep ==
  ASSUME TypeOK, NEW p \in Procs, NEW s \in Sessions, BeforeAgentStart(p, s)
  PROVE  /\ OnlySession(p, s) /\ pi[p].stage = "up" /\ pi[p].agent[s] = 0
         /\ pi'[p].calls = pi[p].calls /\ UNCHANGED <<file, got, scored>>
         /\ \E r \in Runs : Begins(p, s, r)
<1>1. pi[p] \in Process /\ pi[p].stage = "up" /\ pi[p].agent[s] = 0 /\ pi[p].state[s] \in SessionState
  BY ProcessTypes DEF BeforeAgentStart, Up
<1>r. PICK r \in Runs :
         /\ \A q \in Runs : turnsOf[q] = -1 <=> q >= r
         /\ turnsOf' = [turnsOf EXCEPT ![r] = 0]
         /\ pi' = [pi EXCEPT ![p].agent[s] = r, ![p].state[s].run = RunOrNew(@, r)]
         /\ excuse' = excuse \cup Excuse(IF Waiting(p, s) = {} THEN {} ELSE {r}, "overtaken")
  BY Zenon DEF BeforeAgentStart
<1>2. turnsOf[r] = -1
  BY <1>r, ZeroIsNoRun
<1> DEFINE new == [pi[p].state[s] EXCEPT !.run = RunOrNew(pi[p].state[s].run, r)]
           x == [pi[p] EXCEPT !.agent = [@ EXCEPT ![s] = r], !.state = [@ EXCEPT ![s] = new]]
<1>3. new \in SessionState
  <2>1. RunOrNew(pi[p].state[s].run, r) \in Run
    BY <1>1, ProcessTypes DEF RunOrNew, Run, Recorded
  <2>2. QED BY <1>1, <2>1 DEF SessionState
<1>4. pi' = [pi EXCEPT ![p] = x]
  BY <1>r DEF TypeOK
<1> HIDE DEF new
<1>5. x \in Process
  BY <1>1, <1>3 DEF Process
<1>6. /\ x.stage = pi[p].stage /\ x.names = pi[p].names /\ x.held = pi[p].held /\ x.found = pi[p].found
      /\ x.agent = [pi[p].agent EXCEPT ![s] = r] /\ x.state = [pi[p].state EXCEPT ![s] = new]
      /\ x.calls = pi[p].calls
  BY <1>1 DEF Process
<1> HIDE DEF x
<1>7. Only(p) /\ pi'[p] = x
  BY <1>4, <1>5, Becomes
<1>8. SameLoading(p) /\ pi'[p].agent = [pi[p].agent EXCEPT ![s] = r] /\ pi'[p].state = [pi[p].state EXCEPT ![s] = new]
  BY <1>6, <1>7 DEF SameLoading
<1>9. OnlySession(p, s) /\ pi'[p].agent[s] = r /\ pi'[p].state[s] = new
  BY <1>7, <1>8, ProcessTypes DEF Process, OnlySession
<1>10. Begins(p, s, r)
  BY <1>r, <1>2, <1>9 DEF Begins, new
<1>11. UNCHANGED <<file, got, scored>>
  BY DEF BeforeAgentStart
<1>12. QED BY <1>1, <1>6, <1>7, <1>9, <1>10, <1>11

LEMMA AgentStartStep ==
  ASSUME TypeOK, NEW p \in Procs, NEW s \in Sessions, AgentStart(p, s)
  PROVE  /\ OnlySession(p, s) /\ pi[p].stage = "up" /\ pi[p].agent[s] \in Runs
         /\ pi'[p].agent[s] = pi[p].agent[s] /\ pi'[p].calls = pi[p].calls
         /\ pi'[p].state[s] = [pi[p].state[s] EXCEPT !.run = RunOrNew(pi[p].state[s].run, pi[p].agent[s])]
<1>1. /\ pi[p] \in Process /\ pi[p].stage = "up" /\ pi[p].agent[s] # 0 /\ pi[p].state[s] \in SessionState
      /\ pi[p].agent[s] \in Runs
  BY ProcessTypes DEF AgentStart, Up
<1> DEFINE new == [pi[p].state[s] EXCEPT !.run = RunOrNew(pi[p].state[s].run, pi[p].agent[s])]
           x == [pi[p] EXCEPT !.state = [@ EXCEPT ![s] = new]]
<1>2. new \in SessionState
  <2>1. RunOrNew(pi[p].state[s].run, pi[p].agent[s]) \in Run
    BY <1>1, ProcessTypes DEF RunOrNew, Run, Recorded
  <2>2. QED BY <1>1, <2>1 DEF SessionState
<1>3. pi' = [pi EXCEPT ![p] = x]
  BY DEF AgentStart, TypeOK
<1> HIDE DEF new
<1>4. x \in Process
  BY <1>1, <1>2 DEF Process
<1>5. /\ x.stage = pi[p].stage /\ x.names = pi[p].names /\ x.held = pi[p].held /\ x.found = pi[p].found
      /\ x.agent = pi[p].agent /\ x.state = [pi[p].state EXCEPT ![s] = new] /\ x.calls = pi[p].calls
  BY <1>1 DEF Process
<1> HIDE DEF x
<1>6. Only(p) /\ pi'[p] = x
  BY <1>3, <1>4, Becomes
<1>7. SameLoading(p) /\ pi'[p].agent = pi[p].agent /\ pi'[p].state = [pi[p].state EXCEPT ![s] = new]
  BY <1>5, <1>6 DEF SameLoading
<1>8. OnlySession(p, s) /\ pi'[p].agent[s] = pi[p].agent[s] /\ pi'[p].state[s] = new
  BY <1>6, <1>7, ProcessTypes DEF Process, OnlySession
<1>9. QED BY <1>1, <1>5, <1>6, <1>8, ProcessTypes DEF new

\* The state of a session after one more turn.
OneMoreTurn(st) ==
    [run |-> IF st.run = NoRun THEN NoRun ELSE [st.run EXCEPT !.turns = @ + 1], turnCount |-> st.turnCount + 1]

LEMMA TurnEndStep ==
  ASSUME TypeOK, NEW p \in Procs, NEW s \in Sessions, TurnEnd(p, s)
  PROVE  /\ OnlySession(p, s) /\ pi[p].stage = "up" /\ pi[p].agent[s] \in Runs
         /\ pi'[p].agent[s] = pi[p].agent[s] /\ pi'[p].calls = pi[p].calls
         /\ pi'[p].state[s] = OneMoreTurn(pi[p].state[s])
<1>1. pi[p] \in Process /\ pi[p].stage = "up" /\ pi[p].agent[s] # 0 /\ pi[p].state[s] \in SessionState
  BY ProcessTypes DEF TurnEnd, Up
<1> DEFINE new == OneMoreTurn(pi[p].state[s])
           x == [pi[p] EXCEPT !.state = [@ EXCEPT ![s] = new]]
<1>2. new \in SessionState
  BY <1>1 DEF SessionState, Run, Recorded, OneMoreTurn
<1>3. pi' = [pi EXCEPT ![p] = x]
  BY DEF TurnEnd, TypeOK, OneMoreTurn
<1> HIDE DEF new
<1>4. x \in Process
  BY <1>1, <1>2 DEF Process
<1>5. /\ x.stage = pi[p].stage /\ x.names = pi[p].names /\ x.held = pi[p].held /\ x.found = pi[p].found
      /\ x.agent = pi[p].agent /\ x.state = [pi[p].state EXCEPT ![s] = new] /\ x.calls = pi[p].calls
  BY <1>1 DEF Process
<1> HIDE DEF x
<1>6. Only(p) /\ pi'[p] = x
  BY <1>3, <1>4, Becomes
<1>7. SameLoading(p) /\ pi'[p].agent = pi[p].agent /\ pi'[p].state = [pi[p].state EXCEPT ![s] = new]
  BY <1>5, <1>6 DEF SameLoading
<1>8. OnlySession(p, s) /\ pi'[p].agent[s] = pi[p].agent[s] /\ pi'[p].state[s] = new
  BY <1>6, <1>7, ProcessTypes DEF Process, OnlySession
<1>9. QED BY <1>1, <1>5, <1>6, <1>8, ProcessTypes DEF new

\* The state of a session whose run is handed on.
Emitted(st) == [st EXCEPT !.run = [st.run EXCEPT !.emitted = TRUE]]

\* A run is handed to a handler.
LEMMA EmittingStep ==
  ASSUME TypeOK, NEW p \in Procs, NEW s \in Sessions, NEW kind \in {"end", "shutdown"},
         pi[p].state[s].run # NoRun, pi' = Emitting(p, s, kind)
  PROVE  /\ OnlySession(p, s) /\ pi'[p].agent[s] = 0 /\ pi'[p].state[s] = Emitted(pi[p].state[s])
         /\ pi'[p].calls = pi[p].calls \cup {Call(s, kind, pi[p].state[s])}
         /\ pi[p].state[s].run \in Recorded /\ Call(s, kind, pi[p].state[s]) \in Handler
<1>1. /\ pi[p] \in Process /\ pi[p].state[s] \in SessionState /\ pi[p].calls \in SUBSET Handler
      /\ pi[p].state[s].run \in Recorded
  BY ProcessTypes
<1> DEFINE new == Emitted(pi[p].state[s])
           call == Call(s, kind, pi[p].state[s])
           x == [pi[p] EXCEPT !.calls = @ \cup {call}, !.agent = [@ EXCEPT ![s] = 0],
                              !.state = [@ EXCEPT ![s] = new]]
<1>2. new \in SessionState
  BY <1>1 DEF SessionState, Run, Recorded, Emitted
<1>3. call \in Handler
  BY <1>1 DEF Call, Handler, Recorded, SessionState
<1>4. pi' = [pi EXCEPT ![p] = x]
  BY DEF Emitting, TypeOK, Emitted
<1> HIDE DEF new, call
<1>5. x \in Process
  BY <1>1, <1>2, <1>3 DEF Process
<1>6. /\ x.stage = pi[p].stage /\ x.names = pi[p].names /\ x.held = pi[p].held /\ x.found = pi[p].found
      /\ x.agent = [pi[p].agent EXCEPT ![s] = 0] /\ x.state = [pi[p].state EXCEPT ![s] = new]
      /\ x.calls = pi[p].calls \cup {call}
  BY <1>1 DEF Process
<1> HIDE DEF x
<1>7. Only(p) /\ pi'[p] = x
  BY <1>4, <1>5, Becomes
<1>8. Only(p) /\ SameLoading(p)
  BY <1>6, <1>7 DEF SameLoading
<1>9. /\ pi'[p].agent = [pi[p].agent EXCEPT ![s] = 0] /\ pi'[p].state = [pi[p].state EXCEPT ![s] = new]
      /\ pi'[p].calls = pi[p].calls \cup {call}
  BY <1>6, <1>7
<1>10. OnlySession(p, s) /\ pi'[p].agent[s] = 0 /\ pi'[p].state[s] = new
  BY <1>7, <1>8, <1>9, ProcessTypes DEF Process, OnlySession
<1>11. QED BY <1>1, <1>3, <1>9, <1>10 DEF new, call

\* An agent ends without a run to hand on.
LEMMA DroppingStep ==
  ASSUME TypeOK, NEW p \in Procs, NEW s \in Sessions,
         pi' = [pi EXCEPT ![p].agent[s] = 0, ![p].state[s] = NoState]
  PROVE  /\ OnlySession(p, s) /\ pi'[p].agent[s] = 0 /\ pi'[p].state[s] = NoState
         /\ pi'[p].calls = pi[p].calls
<1>1. pi[p] \in Process
  BY ProcessTypes
<1> DEFINE x == [pi[p] EXCEPT !.agent = [@ EXCEPT ![s] = 0], !.state = [@ EXCEPT ![s] = NoState]]
<1>2. pi' = [pi EXCEPT ![p] = x]
  BY DEF TypeOK
<1>3. x \in Process
  BY <1>1, OffFields DEF Process
<1>4. /\ x.stage = pi[p].stage /\ x.names = pi[p].names /\ x.held = pi[p].held /\ x.found = pi[p].found
      /\ x.agent = [pi[p].agent EXCEPT ![s] = 0] /\ x.state = [pi[p].state EXCEPT ![s] = NoState]
      /\ x.calls = pi[p].calls
  BY <1>1 DEF Process
<1> HIDE DEF x
<1>5. Only(p) /\ pi'[p] = x
  BY <1>2, <1>3, Becomes
<1>6. /\ SameLoading(p) /\ pi'[p].agent = [pi[p].agent EXCEPT ![s] = 0]
      /\ pi'[p].state = [pi[p].state EXCEPT ![s] = NoState]
  BY <1>4, <1>5 DEF SameLoading
<1>d. DOMAIN pi[p].agent = Sessions /\ DOMAIN pi[p].state = Sessions
  BY <1>1 DEF Process
<1>7. pi'[p].agent[s] = 0 /\ \A t \in Sessions : t # s => pi'[p].agent[t] = pi[p].agent[t]
  BY <1>6, <1>d
<1>8. pi'[p].state[s] = NoState /\ \A t \in Sessions : t # s => pi'[p].state[t] = pi[p].state[t]
  BY <1>6, <1>d
<1>9. QED BY <1>4, <1>5, <1>6, <1>7, <1>8 DEF OnlySession

LEMMA EmitStep ==
  ASSUME TypeOK, NEW p \in Procs, NEW c \in pi[p].calls, Emit(p, c)
  PROVE  /\ Only(p) /\ SameLoading(p) /\ c \in Handler /\ [c EXCEPT !.sent = TRUE] \in Handler
         /\ pi'[p].agent = pi[p].agent /\ pi'[p].state = pi[p].state
         /\ pi'[p].calls = (pi[p].calls \ {c}) \cup {[c EXCEPT !.sent = TRUE]}
<1>1. pi[p] \in Process /\ pi[p].calls \in SUBSET Handler
  BY DEF TypeOK, Process
<1>2. c \in Handler /\ [c EXCEPT !.sent = TRUE] \in Handler
  BY <1>1 DEF Handler
<1> DEFINE cs == (pi[p].calls \ {c}) \cup {[c EXCEPT !.sent = TRUE]}
           x == [pi[p] EXCEPT !.calls = cs]
<1>3. pi' = [pi EXCEPT ![p] = x]
  BY DEF Emit, TypeOK
<1>4. cs \in SUBSET Handler
  BY <1>1, <1>2
<1> HIDE DEF cs
<1>5. x \in Process
  BY <1>1, <1>4 DEF Process
<1>6. /\ x.stage = pi[p].stage /\ x.names = pi[p].names /\ x.held = pi[p].held /\ x.found = pi[p].found
      /\ x.agent = pi[p].agent /\ x.state = pi[p].state /\ x.calls = cs
  BY <1>1 DEF Process
<1> HIDE DEF x
<1>7. Only(p) /\ pi'[p] = x
  BY <1>3, <1>5, Becomes
<1>8. QED BY <1>2, <1>6, <1>7 DEF SameLoading, cs

LEMMA FinishStep ==
  ASSUME TypeOK, NEW p \in Procs, NEW c \in pi[p].calls, Finish(p, c)
  PROVE  /\ OnlySession(p, c.session) /\ c \in Handler /\ c.sent /\ c.session \in Sessions
         /\ pi'[p].agent = pi[p].agent /\ pi'[p].state[c.session] = NoState
         /\ pi'[p].calls = pi[p].calls \ {c}
<1>1. pi[p] \in Process /\ pi[p].calls \in SUBSET Handler
  BY DEF TypeOK, Process
<1>2. c \in Handler /\ c.session \in Sessions /\ c.sent
  BY <1>1 DEF Handler, Finish
<1> DEFINE x == [pi[p] EXCEPT !.calls = @ \ {c}, !.state = [@ EXCEPT ![c.session] = NoState]]
<1>3. pi' = [pi EXCEPT ![p] = x]
  BY DEF Finish, ResetRunState, TypeOK
<1>4. x \in Process
  BY <1>1, <1>2, OffFields DEF Process
<1>5. /\ x.stage = pi[p].stage /\ x.names = pi[p].names /\ x.held = pi[p].held /\ x.found = pi[p].found
      /\ x.agent = pi[p].agent /\ x.state = [pi[p].state EXCEPT ![c.session] = NoState]
      /\ x.calls = pi[p].calls \ {c}
  BY <1>1 DEF Process
<1> HIDE DEF x
<1>6. Only(p) /\ pi'[p] = x
  BY <1>3, <1>4, Becomes
<1>7. SameLoading(p) /\ pi'[p].agent = pi[p].agent /\ pi'[p].state = [pi[p].state EXCEPT ![c.session] = NoState]
  BY <1>5, <1>6 DEF SameLoading
<1>8. QED BY <1>2, <1>5, <1>6, <1>7, ProcessTypes DEF Process, OnlySession

LEMMA GoneStep ==
  ASSUME TypeOK, NEW p \in Procs, pi' = [pi EXCEPT ![p] = Off]
  PROVE  /\ Only(p) /\ pi'[p].stage = "off" /\ pi'[p].calls = {}
         /\ pi'[p].held = NotHeld /\ pi'[p].found = <<>> /\ pi'[p].names = {}
         /\ \A s \in Sessions : pi'[p].agent[s] = 0 /\ pi'[p].state[s] = NoState
<1>1. Only(p) /\ pi'[p] = Off
  BY OffFields, Becomes
<1>2. QED BY <1>1, OffFields

\* agent_end and session_shutdown hand on the run of their session, or drop it.
Ends(p, s, kind) ==
    \/ /\ pi[p].state[s].run # NoRun /\ ~ pi[p].state[s].run.emitted
       /\ pi' = Emitting(p, s, kind)
    \/ /\ pi[p].state[s].run = NoRun \/ pi[p].state[s].run.emitted
       /\ pi' = [pi EXCEPT ![p].agent[s] = 0, ![p].state[s] = NoState]

LEMMA EndStep ==
  ASSUME NEW p \in Procs, NEW s \in Sessions, AgentEnd(p, s)
  PROVE  /\ pi[p].stage = "up" /\ pi[p].agent[s] # 0 /\ Clear(s) /\ Ends(p, s, "end")
         /\ excuse' = excuse \cup Excuse(Replaced(s, pi[p].state[s].run.id), "replaced")
                             \cup Excuse(Waiting(p, s), "overtaken")
         /\ UNCHANGED <<turnsOf, got, scored>>
  BY DEF AgentEnd, Up, Ends

LEMMA ShutdownStep ==
  ASSUME NEW p \in Procs, NEW s \in Sessions, Shutdown(p, s)
  PROVE  /\ pi[p].stage = "up" /\ Ends(p, s, "shutdown")
         /\ excuse' = excuse \cup Excuse(Waiting(p, s), "overtaken")
         /\ UNCHANGED <<file, turnsOf, got, scored>>
  BY DEF Shutdown, Up, Ends

-----------------------------------------------------------------------------
(* Types and stages.                                                       *)

\* The steps of a process.
Step(p) ==
    \/ Load(p) \/ ReadCheckpoint(p) \/ RemoveCheckpoint(p) \/ Recover(p) \/ Loaded(p)
    \/ \E s \in Sessions : SessionStart(p, s) \/ BeforeAgentStart(p, s) \/ AgentStart(p, s)
                            \/ TurnEnd(p, s) \/ AgentEnd(p, s) \/ Shutdown(p, s)
    \/ \E c \in pi[p].calls : Emit(p, c) \/ Finish(p, c)
    \/ Quit(p) \/ Kill(p)

LEMMA NextIsStep == Next => \E p \in Procs : Step(p)
  BY DEF Next, Step

LEMMA TakenTypes ==
  ASSUME TypeOK, NEW r \in Recorded, NEW times \in 0..2, Taken(r, times)
  PROVE  /\ got' \in [Runs -> Seq(Int)]
         /\ \A q \in Runs : q # r.id => got'[q] = got[q]
         /\ got'[r.id] = got[r.id] \o [k \in 1..times |-> r.turns]
         /\ Len(got'[r.id]) = Len(got[r.id]) + times
         /\ ToSet(got[r.id]) \subseteq ToSet(got'[r.id])
         /\ times # 0 => r.turns \in ToSet(got'[r.id])
<1> DEFINE more == [k \in 1..times |-> r.turns]
<1>1. r.id \in Runs /\ r.turns \in Int /\ got[r.id] \in Seq(Int)
  BY DEF TypeOK, Recorded
<1>2. more \in Seq(Int) /\ Len(more) = times /\ \A k \in 1..times : more[k] = r.turns
  BY <1>1
<1>3. got' = [got EXCEPT ![r.id] = @ \o more]
  BY DEF Taken
<1> HIDE DEF more
<1>4. got'[r.id] = got[r.id] \o more /\ \A q \in Runs : q # r.id => got'[q] = got[q]
  BY <1>1, <1>3 DEF TypeOK
<1>5. /\ got[r.id] \o more \in Seq(Int) /\ Len(got[r.id] \o more) = Len(got[r.id]) + times
      /\ \A k \in 1..Len(got[r.id]) : (got[r.id] \o more)[k] = got[r.id][k]
      /\ \A k \in 1..times : (got[r.id] \o more)[Len(got[r.id]) + k] = more[k]
  <2>1. /\ got[r.id] \o more \in Seq(Int) /\ Len(got[r.id] \o more) = Len(got[r.id]) + times
        /\ \A i \in 1..Len(got[r.id]) + times :
             (got[r.id] \o more)[i] = IF i <= Len(got[r.id]) THEN got[r.id][i] ELSE more[i - Len(got[r.id])]
    BY <1>1, <1>2, ConcatProperties
  <2>2. Len(got[r.id]) \in Nat
    BY <1>1
  <2>3. QED BY <2>1, <2>2
<1>6. ToSet(got[r.id]) \subseteq ToSet(got'[r.id])
  <2>1. \A k \in DOMAIN got[r.id] :
          (got[r.id] \o more)[k] = got[r.id][k] /\ k \in DOMAIN (got[r.id] \o more)
    BY <1>1, <1>5
  <2>2. ToSet(got[r.id]) \subseteq ToSet(got[r.id] \o more)
    BY Zenon, <2>1 DEF ToSet
  <2>3. QED BY <1>4, <2>2
<1>7. times # 0 => r.turns \in ToSet(got'[r.id])
  <2> SUFFICES ASSUME times # 0 PROVE r.turns \in ToSet(got[r.id] \o more)
    BY <1>4
  <2>1. (got[r.id] \o more)[Len(got[r.id]) + 1] = r.turns /\ Len(got[r.id]) + 1 \in DOMAIN (got[r.id] \o more)
    BY <1>1, <1>2, <1>5
  <2>2. QED BY <2>1 DEF ToSet
<1>8. QED BY <1>1, <1>2, <1>3, <1>4, <1>5, <1>6, <1>7 DEF TypeOK, more

LEMMA WrittenTypes ==
  ASSUME TypeOK, NEW s \in Sessions, NEW run \in Recorded, Write(s, run)
  PROVE  /\ file' \in [Sessions -> Run] /\ file'[s].id = run.id /\ file'[s].turns = run.turns
         /\ \A t \in Sessions : t # s => file'[t] = file[t]
  BY DEF TypeOK, Write, Run, Recorded

LEMMA ClearedTypes ==
  ASSUME TypeOK, NEW s \in Sessions, Clear(s)
  PROVE  /\ file' \in [Sessions -> Run] /\ file'[s] = NoRun
         /\ \A t \in Sessions : t # s => file'[t] = file[t]
  BY DEF TypeOK, Clear, Run

LEMMA StagesKept ==
  ASSUME TypeOK, Stages, NEW p \in Procs, Step(p)
  PROVE  Stages'
<1> USE DEF Stages, Only, OnlySession
<1>1. ASSUME Only(p),
             /\ pi'[p].stage # "loading" => pi'[p].names = {} /\ pi'[p].held = NotHeld /\ pi'[p].found = <<>>
             /\ pi'[p].stage # "up" =>
                  pi'[p].calls = {} /\ \A s \in Sessions : pi'[p].agent[s] = 0 /\ pi'[p].state[s] = NoState
      PROVE  Stages'
  BY <1>1
<1>2. ASSUME Only(p), SameLoading(p), pi[p].stage = "up"
      PROVE  Stages'
  BY <1>1, <1>2 DEF SameLoading
<1>3. ASSUME Only(p), SameSessions(p), pi[p].stage = "loading", pi'[p].stage = "loading"
      PROVE  Stages'
  BY <1>1, <1>3 DEF SameSessions
<1>4. CASE Load(p)
  BY <1>1, <1>4, LoadStep
<1>5. CASE ReadCheckpoint(p)
  BY <1>3, <1>5, ReadStep
<1>6. CASE RemoveCheckpoint(p)
  BY <1>3, <1>6, RemoveStep
<1>7. CASE Recover(p)
  BY <1>3, <1>7, RecoverStep
<1>8. CASE Loaded(p)
  BY <1>1, <1>8, LoadedStep
<1>9. ASSUME NEW s \in Sessions, SessionStart(p, s) \/ BeforeAgentStart(p, s) \/ AgentStart(p, s) \/ TurnEnd(p, s)
      PROVE  Stages'
  <2>1. OnlySession(p, s) /\ pi[p].stage = "up"
    <3>1. CASE SessionStart(p, s) \/ BeforeAgentStart(p, s)
      BY <3>1, SessionStartStep, BeforeAgentStartStep
    <3>2. CASE AgentStart(p, s)
      BY <3>2, AgentStartStep
    <3>3. CASE TurnEnd(p, s)
      BY <3>3, TurnEndStep
    <3>4. QED BY <1>9, <3>1, <3>2, <3>3
  <2>2. QED BY <1>2, <2>1 DEF OnlySession
<1>e. ASSUME NEW s \in Sessions, NEW kind \in {"end", "shutdown"}, Ends(p, s, kind), pi[p].stage = "up"
      PROVE  Stages'
  <2>1. CASE pi[p].state[s].run # NoRun /\ pi' = Emitting(p, s, kind)
    BY <1>2, <1>e, <2>1, EmittingStep
  <2>2. CASE pi' = [pi EXCEPT ![p].agent[s] = 0, ![p].state[s] = NoState]
    BY <1>2, <1>e, <2>2, DroppingStep
  <2>3. QED BY <1>e, <2>1, <2>2 DEF Ends
<1>10. ASSUME NEW s \in Sessions, AgentEnd(p, s) \/ Shutdown(p, s)
       PROVE  Stages'
  BY <1>e, <1>10, EndStep, ShutdownStep
<1>11. ASSUME NEW c \in pi[p].calls, Emit(p, c) \/ Finish(p, c)
       PROVE  Stages'
  <2>1. Only(p) /\ SameLoading(p) /\ pi[p].stage = "up"
    BY <1>11, EmitStep, FinishStep DEF OnlySession
  <2>2. QED BY <1>2, <2>1
<1>12. CASE Quit(p) \/ Kill(p)
  BY <1>1, <1>12, GoneStep DEF Quit, Kill
<1>13. QED BY <1>4, <1>5, <1>6, <1>7, <1>8, <1>9, <1>10, <1>11, <1>12 DEF Step

\* What the end of a turn does to the checkpoint.
LEMMA TurnEndFile ==
  ASSUME TypeOK, NEW p \in Procs, NEW s \in Sessions, TurnEnd(p, s)
  PROVE  LET r == pi[p].agent[s]
             run == [pi[p].state[s].run EXCEPT !.turns = @ + 1]
         IN  /\ turnsOf' = [turnsOf EXCEPT ![r] = @ + 1] /\ UNCHANGED <<got, scored>>
             /\ excuse \subseteq excuse' /\ Excuse(Waiting(p, s), "overtaken") \subseteq excuse'
             /\ \/ /\ run \in Recorded /\ pi[p].state[s].run # NoRun /\ Write(s, run)
                   /\ Excuse(Replaced(s, run.id), "replaced") \subseteq excuse'
                \/ UNCHANGED file /\ Excuse({run.id}, "not written") \subseteq excuse'
<1> DEFINE run == [pi[p].state[s].run EXCEPT !.turns = @ + 1]
<1>1. PICK written \in (IF run.id = 0 THEN {FALSE} ELSE BOOLEAN) :
        /\ IF written THEN Write(s, CheckpointOf(run)) ELSE UNCHANGED file
        /\ excuse' = excuse \cup Excuse(Waiting(p, s), "overtaken")
                     \cup (IF written THEN Excuse(Replaced(s, run.id), "replaced") ELSE Excuse({run.id}, "not written"))
  BY Zenon DEF TurnEnd
<1>2. turnsOf' = [turnsOf EXCEPT ![pi[p].agent[s]] = @ + 1] /\ UNCHANGED <<got, scored>>
  BY DEF TurnEnd
<1>3. CASE written
  <2>0. run.id # 0
    BY Zenon, <1>3
  <2>1. pi[p].state[s].run # NoRun
    BY <2>0 DEF NoRun
  <2>2. run \in Recorded
    BY <2>1, ProcessTypes DEF Recorded
  <2>3. Write(s, run) /\ Excuse(Replaced(s, run.id), "replaced") \subseteq excuse'
        /\ excuse \subseteq excuse' /\ Excuse(Waiting(p, s), "overtaken") \subseteq excuse'
    BY <1>1, <1>3 DEF CheckpointOf
  <2>4. QED BY <1>2, <2>1, <2>2, <2>3
<1>4. CASE ~ written
  <2>1. UNCHANGED file /\ Excuse({run.id}, "not written") \subseteq excuse'
        /\ excuse \subseteq excuse' /\ Excuse(Waiting(p, s), "overtaken") \subseteq excuse'
    BY <1>1, <1>4
  <2>2. QED BY <1>2, <2>1
<1>5. QED BY <1>1, <1>3, <1>4

LEMMA TypesKept ==
  ASSUME TypeOK, Stages, NEW p \in Procs, Step(p)
  PROVE  TypeOK'
<1> USE DEF Only, OnlySession
<1>1. ASSUME Only(p), UNCHANGED <<file, turnsOf, got>>
      PROVE  TypeOK'
  BY <1>1 DEF TypeOK
<1>2. ASSUME Only(p), file' \in [Sessions -> Run], UNCHANGED <<turnsOf, got>>
      PROVE  TypeOK'
  BY <1>2 DEF TypeOK
<1>3. ASSUME Only(p), got' \in [Runs -> Seq(Int)], UNCHANGED <<turnsOf, file>>
      PROVE  TypeOK'
  BY <1>3 DEF TypeOK
<1>4. CASE Load(p)
  BY <1>1, <1>4, LoadStep DEF Load
<1>5. CASE ReadCheckpoint(p)
  BY <1>1, <1>5, ReadStep DEF ReadCheckpoint
<1>6. CASE RemoveCheckpoint(p)
  <2>1. file' \in [Sessions -> Run] /\ UNCHANGED <<turnsOf, got>>
    BY <1>6 DEF RemoveCheckpoint, TypeOK, Run
  <2>2. QED BY <1>2, <1>6, <2>1, RemoveStep
<1>7. CASE Recover(p)
  <2>1. PICK times \in 0..2 : Taken(Head(pi[p].found), times)
    BY <1>7 DEF Recover
  <2>2. got' \in [Runs -> Seq(Int)] /\ UNCHANGED <<turnsOf, file>>
    BY <1>7, <2>1, RecoverStep, TakenTypes DEF Recover
  <2>3. QED BY <1>3, <1>7, <2>2, RecoverStep
<1>8. CASE Loaded(p)
  BY <1>1, <1>8, LoadedStep DEF Loaded
<1>9. ASSUME NEW s \in Sessions, SessionStart(p, s) \/ AgentStart(p, s)
      PROVE  TypeOK'
  BY <1>1, <1>9, SessionStartStep, AgentStartStep DEF SessionStart, AgentStart
<1>10. ASSUME NEW s \in Sessions, BeforeAgentStart(p, s)
       PROVE  TypeOK'
  <2>1. turnsOf' \in [Runs -> Int] /\ UNCHANGED <<file, got>>
    <3>1. PICK r \in Runs : turnsOf' = [turnsOf EXCEPT ![r] = 0]
      BY <1>10, BeforeAgentStartStep DEF Begins
    <3>2. UNCHANGED <<file, got>>
      BY <1>10 DEF BeforeAgentStart
    <3>3. QED BY <3>1, <3>2 DEF TypeOK
  <2>2. QED BY <1>10, <2>1, BeforeAgentStartStep DEF TypeOK
<1>11. ASSUME NEW s \in Sessions, TurnEnd(p, s)
       PROVE  TypeOK'
  <2>1. turnsOf' \in [Runs -> Int] /\ UNCHANGED got
    <3>1. pi[p].agent[s] \in Runs /\ turnsOf' = [turnsOf EXCEPT ![pi[p].agent[s]] = @ + 1] /\ UNCHANGED got
      BY <1>11, TurnEndFile, TurnEndStep, ProcessTypes
    <3>2. QED BY <3>1 DEF TypeOK
  <2>2. file' \in [Sessions -> Run]
    BY <1>11, TurnEndFile, WrittenTypes DEF TypeOK
  <2>3. QED BY <1>11, <2>1, <2>2, TurnEndStep DEF TypeOK
<1>e. ASSUME NEW s \in Sessions, NEW kind \in {"end", "shutdown"}, Ends(p, s, kind)
      PROVE  Only(p)
  <2>1. CASE pi[p].state[s].run # NoRun /\ pi' = Emitting(p, s, kind)
    BY <1>e, <2>1, EmittingStep
  <2>2. CASE pi' = [pi EXCEPT ![p].agent[s] = 0, ![p].state[s] = NoState]
    BY <1>e, <2>2, DroppingStep
  <2>3. QED BY <1>e, <2>1, <2>2 DEF Ends
<1>12. ASSUME NEW s \in Sessions, AgentEnd(p, s)
       PROVE  TypeOK'
  BY <1>2, <1>12, <1>e, EndStep, ClearedTypes
<1>13. ASSUME NEW s \in Sessions, Shutdown(p, s)
       PROVE  TypeOK'
  BY <1>1, <1>13, <1>e, ShutdownStep
<1>14. ASSUME NEW c \in pi[p].calls, Emit(p, c)
       PROVE  TypeOK'
  <2>1. PICK times \in 0..2 : Taken(c.run, times)
    BY <1>14 DEF Emit
  <2>2. c.run \in Recorded
    BY <1>14, EmitStep DEF Handler
  <2>3. got' \in [Runs -> Seq(Int)] /\ UNCHANGED <<turnsOf, file>>
    BY <1>14, <2>1, <2>2, TakenTypes DEF Emit
  <2>4. QED BY <1>3, <1>14, <2>3, EmitStep
<1>15. ASSUME NEW c \in pi[p].calls, Finish(p, c)
       PROVE  TypeOK'
  <2>1. c.session \in Sessions
    BY <1>15, FinishStep DEF Handler
  <2>2. file' \in [Sessions -> Run] /\ UNCHANGED <<turnsOf, got>>
    BY <1>15, <2>1, ClearedTypes DEF Finish, TypeOK
  <2>3. QED BY <1>2, <1>15, <2>2, FinishStep
<1>16. CASE Quit(p) \/ Kill(p)
  BY <1>1, <1>16, GoneStep DEF Quit, Kill
<1>17. QED
  BY <1>4, <1>5, <1>6, <1>7, <1>8, <1>9, <1>10, <1>11, <1>12, <1>13, <1>14, <1>15, <1>16 DEF Step

-----------------------------------------------------------------------------
(* Who has a run.                                                          *)

\* A step after which p has no more of its sessions than before.
LEMMA FewerOwners ==
  ASSUME OneOwner, NEW p \in Procs, Only(p), pi'[p].calls \subseteq pi[p].calls,
         \A s \in Sessions : pi'[p].agent[s] = pi[p].agent[s] \/ pi'[p].agent[s] = 0
  PROVE  OneOwner'
<1>1. \A q \in Procs : /\ pi'[q].calls \subseteq pi[q].calls
                       /\ \A s \in Sessions : pi'[q].agent[s] = pi[q].agent[s] \/ pi'[q].agent[s] = 0
  BY DEF Only
<1>2. \A r \in Runs : \A q \in Procs : \A s \in Sessions : Alive(r, q, s)' => Alive(r, q, s)
  BY <1>1, ZeroIsNoRun DEF Alive
<1>3. QED BY <1>1, <1>2 DEF OneOwner

\* A run whose agent ends goes to its handler.
LEMMA OwnerEmits ==
  ASSUME TypeOK, OneOwner, StateOfAgent, NEW p \in Procs, NEW s \in Sessions, NEW kind \in {"end", "shutdown"},
         pi[p].state[s].run # NoRun, ~ pi[p].state[s].run.emitted, pi' = Emitting(p, s, kind)
  PROVE  /\ pi[p].agent[s] = pi[p].state[s].run.id /\ pi[p].agent[s] \in Runs
         /\ OneOwner'
<1> DEFINE r == pi[p].agent[s]
           call == Call(s, kind, pi[p].state[s])
<1>1. r = pi[p].state[s].run.id /\ r \in Runs
  BY ProcessTypes DEF StateOfAgent, NoState
<1>2. OnlySession(p, s) /\ pi'[p].agent[s] = 0 /\ pi'[p].calls = pi[p].calls \cup {call}
  BY EmittingStep
<1>3. call.run.id = r
  BY <1>1, EmittingStep DEF Call, Recorded
<1> HIDE DEF call
<1>4. \A q \in Procs : \A t \in Sessions :
        /\ pi'[q].agent[t] # 0 => pi'[q].agent[t] = pi[q].agent[t]
        /\ q = p /\ t = s => pi'[q].agent[t] = 0
  BY <1>2 DEF Only, OnlySession
<1>5. \A q \in Procs : \A c \in pi'[q].calls : c \in pi[q].calls \/ (q = p /\ c = call)
  BY <1>2 DEF Only, OnlySession
<1>6. \A q \in Procs : /\ \A t \in Sessions : Alive(r, q, t) => q = p /\ t = s
                       /\ \A c \in pi[q].calls : c.run.id # r
  BY <1>1 DEF OneOwner, Alive
<1>7. \A q \in Procs : \A t \in Sessions : pi'[q].agent[t] # r
  BY <1>1, <1>4, <1>6, ZeroIsNoRun DEF Alive
<1>8. ASSUME NEW x \in Runs, NEW q1 \in Procs, NEW q2 \in Procs
      PROVE  /\ \A t1, t2 \in Sessions : Alive(x, q1, t1)' /\ Alive(x, q2, t2)' => q1 = q2 /\ t1 = t2
             /\ \A t \in Sessions : Alive(x, q1, t)' => \A c \in pi'[q2].calls : c.run.id # x
             /\ \A c \in pi'[q1].calls, d \in pi'[q2].calls : c.run.id = x /\ d.run.id = x => q1 = q2 /\ c = d
  <2>1. \A t \in Sessions : \A q \in Procs : Alive(x, q, t)' => Alive(x, q, t) /\ x # r
    BY <1>4, <1>7, ZeroIsNoRun DEF Alive
  <2>2. \A c \in pi'[q1].calls, d \in pi'[q2].calls : c.run.id = x /\ d.run.id = x => q1 = q2 /\ c = d
    BY <1>3, <1>5, <1>6 DEF OneOwner
  <2>3. \A t \in Sessions : Alive(x, q1, t)' => \A c \in pi'[q2].calls : c.run.id # x
    BY <1>3, <1>5, <2>1 DEF OneOwner
  <2>4. \A t1, t2 \in Sessions : Alive(x, q1, t1)' /\ Alive(x, q2, t2)' => q1 = q2 /\ t1 = t2
    BY <2>1 DEF OneOwner
  <2>5. QED BY <2>2, <2>3, <2>4
<1>9. QED BY <1>1, <1>8 DEF OneOwner

\* A run passes from its agent to its handler, and to nobody else in memory.
LEMMA OwnersKept ==
  ASSUME TypeOK, Stages, FreshNowhere, OneOwner, StateOfAgent, NEW p \in Procs, Step(p)
  PROVE  OneOwner'
<1>1. CASE Load(p) \/ Quit(p) \/ Kill(p)
  <2>1. Only(p) /\ pi'[p].calls = {} /\ \A s \in Sessions : pi'[p].agent[s] = 0
    BY <1>1, LoadStep, GoneStep DEF Quit, Kill
  <2>2. QED BY <2>1, FewerOwners
<1>2. CASE ReadCheckpoint(p) \/ RemoveCheckpoint(p) \/ Recover(p) \/ Loaded(p)
  <2>1. Only(p) /\ SameSessions(p)
    BY <1>2, ReadStep, RemoveStep, RecoverStep, LoadedStep
  <2>2. QED BY <2>1, FewerOwners DEF SameSessions
<1>3. ASSUME NEW s \in Sessions, SessionStart(p, s) \/ AgentStart(p, s) \/ TurnEnd(p, s)
      PROVE  OneOwner'
  <2>1. /\ Only(p) /\ pi'[p].calls = pi[p].calls
        /\ \A t \in Sessions : pi'[p].agent[t] = pi[p].agent[t]
    <3>1. OnlySession(p, s) /\ pi'[p].calls = pi[p].calls /\ pi'[p].agent[s] = pi[p].agent[s]
      <4>1. CASE SessionStart(p, s)
        BY <4>1, SessionStartStep
      <4>2. CASE AgentStart(p, s)
        BY <4>2, AgentStartStep
      <4>3. CASE TurnEnd(p, s)
        BY <4>3, TurnEndStep
      <4>4. QED BY <1>3, <4>1, <4>2, <4>3
    <3>2. QED BY <3>1 DEF OnlySession
  <2>2. QED BY <2>1, FewerOwners
<1>4. ASSUME NEW s \in Sessions, BeforeAgentStart(p, s)
      PROVE  OneOwner'
  <2>0. PICK r \in Runs : Begins(p, s, r)
    BY <1>4, BeforeAgentStartStep
  <2>1. turnsOf[r] = -1 /\ pi'[p].agent[s] = r
    BY <2>0 DEF Begins
  <2>2. Only(p) /\ OnlySession(p, s) /\ pi'[p].calls = pi[p].calls
    BY <1>4, BeforeAgentStartStep DEF OnlySession
  <2>3. \A q \in Procs : pi'[q].calls = pi[q].calls
    BY <2>2 DEF Only
  <2>4. \A q \in Procs : \A t \in Sessions :
          IF q = p /\ t = s THEN pi'[q].agent[t] = r ELSE pi'[q].agent[t] = pi[q].agent[t]
    BY <2>1, <2>2 DEF Only, OnlySession
  <2>5. \A q \in Procs : /\ \A t \in Sessions : pi[q].agent[t] # r
                         /\ \A c \in pi[q].calls : c.run.id # r
    <3>1. \A q \in Procs : pi[q].calls \subseteq Handler
      BY ProcessTypes, <1>4
    <3>2. QED BY <2>1, <3>1 DEF FreshNowhere, Home, AtProcess, Alive, Handler
  <2>6. ASSUME NEW x \in Runs, NEW q1 \in Procs, NEW q2 \in Procs
        PROVE  /\ \A t1, t2 \in Sessions : Alive(x, q1, t1)' /\ Alive(x, q2, t2)' => q1 = q2 /\ t1 = t2
               /\ \A t \in Sessions : Alive(x, q1, t)' => \A c \in pi'[q2].calls : c.run.id # x
               /\ \A c \in pi'[q1].calls, d \in pi'[q2].calls : c.run.id = x /\ d.run.id = x => q1 = q2 /\ c = d
    BY <2>3, <2>4, <2>5 DEF OneOwner, Alive
  <2>7. QED BY <2>6 DEF OneOwner
<1>5. ASSUME NEW s \in Sessions, NEW kind \in {"end", "shutdown"}, Ends(p, s, kind)
      PROVE  OneOwner'
  <2>1. CASE pi[p].state[s].run # NoRun /\ ~ pi[p].state[s].run.emitted /\ pi' = Emitting(p, s, kind)
    BY <1>5, <2>1, OwnerEmits
  <2>2. CASE pi' = [pi EXCEPT ![p].agent[s] = 0, ![p].state[s] = NoState]
    <3>1. /\ Only(p) /\ pi'[p].calls = pi[p].calls
          /\ \A t \in Sessions : pi'[p].agent[t] = pi[p].agent[t] \/ pi'[p].agent[t] = 0
      BY <2>2, DroppingStep DEF OnlySession
    <3>2. QED BY <3>1, FewerOwners
  <2>3. QED BY <1>5, <2>1, <2>2 DEF Ends
<1>6. ASSUME NEW s \in Sessions, AgentEnd(p, s) \/ Shutdown(p, s)
      PROVE  OneOwner'
  BY <1>5, <1>6, EndStep, ShutdownStep
<1>7. ASSUME NEW c \in pi[p].calls, Emit(p, c)
      PROVE  OneOwner'
  <2> DEFINE sent == [c EXCEPT !.sent = TRUE]
  <2>1. /\ Only(p) /\ pi'[p].agent = pi[p].agent /\ c \in Handler
        /\ pi'[p].calls = (pi[p].calls \ {c}) \cup {sent}
    BY <1>7, EmitStep
  <2>2. sent.run.id = c.run.id
    BY <2>1 DEF Handler
  <2> HIDE DEF sent
  <2>3. \A q \in Procs : /\ pi'[q].agent = pi[q].agent
                         /\ \A d \in pi'[q].calls : \/ d \in pi[q].calls /\ ~ (q = p /\ d = c)
                                                    \/ q = p /\ d = sent
    <3>1. \A q \in Procs : pi'[q].agent = pi[q].agent
      BY <2>1 DEF Only
    <3>2. ASSUME NEW q \in Procs, NEW d \in pi'[q].calls, q = p PROVE (d \in pi[q].calls /\ d # c) \/ d = sent
      BY <2>1, <3>2
    <3>3. QED BY <2>1, <3>1, <3>2 DEF Only
  <2>4. ASSUME NEW x \in Runs, NEW q1 \in Procs, NEW q2 \in Procs
        PROVE  /\ \A t1, t2 \in Sessions : Alive(x, q1, t1)' /\ Alive(x, q2, t2)' => q1 = q2 /\ t1 = t2
               /\ \A t \in Sessions : Alive(x, q1, t)' => \A d \in pi'[q2].calls : d.run.id # x
               /\ \A d \in pi'[q1].calls, e \in pi'[q2].calls : d.run.id = x /\ e.run.id = x => q1 = q2 /\ d = e
    BY <2>2, <2>3 DEF OneOwner, Alive
  <2>5. QED BY <2>4 DEF OneOwner
<1>8. ASSUME NEW c \in pi[p].calls, Finish(p, c)
      PROVE  OneOwner'
  <2>1. Only(p) /\ pi'[p].agent = pi[p].agent /\ pi'[p].calls = pi[p].calls \ {c}
    BY <1>8, FinishStep DEF OnlySession
  <2>2. QED BY <2>1, FewerOwners
<1>9. QED BY <1>1, <1>2, <1>3, <1>4, <1>6, <1>7, <1>8 DEF Step

-----------------------------------------------------------------------------
(* The state of a session, and where a run is.                             *)

StateOf(p, s) ==
    LET r == pi[p].agent[s]
        st == pi[p].state[s]
    IN  /\ r = 0 => \/ st = NoState
                    \/ st.run.emitted /\ \E c \in pi[p].calls : c.session = s
        /\ r # 0 => \/ st.run = NoRun
                    \/ st.run.id = r /\ ~ st.run.emitted

LEMMA StateKept ==
  ASSUME TypeOK, Stages, StateOfAgent, NEW p \in Procs, Step(p)
  PROVE  StateOfAgent'
<1>1. ASSUME Only(p), \A s \in Sessions : StateOf(p, s)' PROVE StateOfAgent'
  BY <1>1 DEF StateOfAgent, StateOf, Only
<1>2. \A s \in Sessions : StateOf(p, s)
  BY DEF StateOfAgent, StateOf
<1>3. CASE Load(p) \/ Quit(p) \/ Kill(p)
  <2>1. Only(p) /\ \A s \in Sessions : pi'[p].agent[s] = 0 /\ pi'[p].state[s] = NoState
    BY <1>3, LoadStep, GoneStep DEF Quit, Kill
  <2>2. QED BY <1>1, <2>1 DEF StateOf
<1>4. CASE ReadCheckpoint(p) \/ RemoveCheckpoint(p) \/ Recover(p) \/ Loaded(p)
  <2>1. Only(p) /\ SameSessions(p)
    BY <1>4, ReadStep, RemoveStep, RecoverStep, LoadedStep
  <2>2. QED BY <1>1, <1>2, <2>1 DEF StateOf, SameSessions
<1>5. ASSUME NEW s \in Sessions, OnlySession(p, s), pi[p].calls \subseteq pi'[p].calls, StateOf(p, s)'
      PROVE  StateOfAgent'
  <2>1. \A t \in Sessions : t # s => StateOf(p, t)'
    BY <1>2, <1>5 DEF StateOf, OnlySession
  <2>2. QED BY <1>1, <1>5, <2>1 DEF OnlySession
<1>6. ASSUME NEW s \in Sessions, SessionStart(p, s)
      PROVE  StateOfAgent'
  BY <1>5, <1>6, SessionStartStep DEF StateOf
<1>7. ASSUME NEW s \in Sessions, BeforeAgentStart(p, s)
      PROVE  StateOfAgent'
  <2>1. PICK r \in Runs : Begins(p, s, r)
    BY <1>7, BeforeAgentStartStep
  <2>2. /\ pi[p].agent[s] = 0 /\ pi'[p].agent[s] = r
        /\ pi'[p].state[s] = [pi[p].state[s] EXCEPT !.run = RunOrNew(pi[p].state[s].run, r)]
    BY <1>7, <2>1, BeforeAgentStartStep DEF Begins
  <2>3. RunOrNew(pi[p].state[s].run, r) = [id |-> r, turns |-> 0, emitted |-> FALSE]
    BY <1>2, <2>2 DEF StateOf, RunOrNew, NoState
  <2>4. pi'[p].state[s].run.id = r /\ ~ pi'[p].state[s].run.emitted
    BY <2>2, <2>3, ProcessTypes DEF SessionState
  <2>5. QED BY <1>5, <1>7, <2>2, <2>4, BeforeAgentStartStep, ZeroIsNoRun DEF StateOf
<1>8. ASSUME NEW s \in Sessions, AgentStart(p, s)
      PROVE  StateOfAgent'
  <2>1. LET run == RunOrNew(pi[p].state[s].run, pi[p].agent[s])
        IN  run.id = pi[p].agent[s] /\ ~ run.emitted
    BY <1>2, <1>8, AgentStartStep, ZeroIsNoRun DEF StateOf, RunOrNew
  <2>2. pi'[p].state[s].run = RunOrNew(pi[p].state[s].run, pi[p].agent[s])
    <3>1. pi'[p].state[s] = [pi[p].state[s] EXCEPT !.run = RunOrNew(pi[p].state[s].run, pi[p].agent[s])]
      BY <1>8, AgentStartStep
    <3>2. QED BY <3>1, ProcessTypes DEF SessionState
  <2>3. OnlySession(p, s) /\ pi'[p].agent[s] = pi[p].agent[s] /\ pi[p].agent[s] # 0 /\ pi'[p].calls = pi[p].calls
    BY <1>8, AgentStartStep, ZeroIsNoRun
  <2>4. StateOf(p, s)'
    BY <2>1, <2>2, <2>3 DEF StateOf
  <2>5. QED BY <1>5, <2>3, <2>4
<1>9. ASSUME NEW s \in Sessions, TurnEnd(p, s)
      PROVE  StateOfAgent'
  <2>1. pi[p].agent[s] # 0
    BY <1>9, TurnEndStep, ZeroIsNoRun
  <2>2. LET run == OneMoreTurn(pi[p].state[s]).run
        IN  run = NoRun \/ (run.id = pi[p].agent[s] /\ ~ run.emitted)
    <3>1. CASE pi[p].state[s].run = NoRun
      <4>1. OneMoreTurn(pi[p].state[s]).run = NoRun
        BY <3>1 DEF OneMoreTurn
      <4>2. QED BY <4>1
    <3>2. CASE pi[p].state[s].run # NoRun
      <4>1. /\ pi[p].state[s].run \in Recorded /\ pi[p].state[s].run.id = pi[p].agent[s]
            /\ ~ pi[p].state[s].run.emitted
        BY <1>2, <2>1, <3>2, ProcessTypes DEF StateOf
      <4>2. QED BY <3>2, <4>1 DEF OneMoreTurn, Recorded
    <3>3. QED BY <3>1, <3>2
  <2>3. QED BY <1>5, <1>9, <2>1, <2>2, TurnEndStep DEF StateOf
<1>10. ASSUME NEW s \in Sessions, NEW kind \in {"end", "shutdown"}, Ends(p, s, kind)
       PROVE  StateOfAgent'
  <2>1. CASE pi[p].state[s].run # NoRun /\ pi' = Emitting(p, s, kind)
    <3> DEFINE call == Call(s, kind, pi[p].state[s])
    <3>1. /\ OnlySession(p, s) /\ pi'[p].calls = pi[p].calls \cup {call} /\ pi[p].state[s].run \in Recorded
          /\ pi'[p].agent[s] = 0 /\ pi'[p].state[s] = Emitted(pi[p].state[s])
      BY <2>1, EmittingStep
    <3>2. call.session = s
      BY DEF Call
    <3> HIDE DEF call
    <3>3. Emitted(pi[p].state[s]).run.emitted
      BY <3>1, ProcessTypes DEF Emitted, SessionState, Recorded
    <3>4. QED BY <1>5, <3>1, <3>2, <3>3 DEF StateOf
  <2>2. CASE pi' = [pi EXCEPT ![p].agent[s] = 0, ![p].state[s] = NoState]
    BY <1>5, <2>2, DroppingStep DEF StateOf
  <2>3. QED BY <1>10, <2>1, <2>2 DEF Ends
<1>11. ASSUME NEW s \in Sessions, AgentEnd(p, s) \/ Shutdown(p, s)
       PROVE  StateOfAgent'
  BY <1>10, <1>11, EndStep, ShutdownStep
<1>12. ASSUME NEW c \in pi[p].calls, Emit(p, c)
       PROVE  StateOfAgent'
  <2>1. /\ Only(p) /\ pi'[p].agent = pi[p].agent /\ pi'[p].state = pi[p].state
        /\ pi'[p].calls = (pi[p].calls \ {c}) \cup {[c EXCEPT !.sent = TRUE]} /\ c \in Handler
    BY <1>12, EmitStep
  <2>2. [c EXCEPT !.sent = TRUE].session = c.session
    BY <2>1 DEF Handler
  <2>3. \A t \in Sessions : (\E d \in pi[p].calls : d.session = t) => \E d \in pi'[p].calls : d.session = t
    BY <2>1, <2>2
  <2>4. QED BY <1>1, <1>2, <2>1, <2>3 DEF StateOf
<1>13. ASSUME NEW c \in pi[p].calls, Finish(p, c)
       PROVE  StateOfAgent'
  <2>1. ASSUME NEW t \in Sessions, t # c.session PROVE StateOf(p, t)'
    BY <1>2, <1>13, <2>1, FinishStep DEF StateOf, OnlySession
  <2>2. StateOf(p, c.session)'
    BY <1>13, FinishStep DEF StateOf, NoState
  <2>3. QED BY <1>1, <1>13, <2>1, <2>2, FinishStep DEF OnlySession
<1>14. QED BY <1>3, <1>4, <1>6, <1>7, <1>8, <1>9, <1>11, <1>12, <1>13 DEF Step

\* A step that takes no run anywhere.
LEMMA FewerHomes ==
  ASSUME NEW p \in Procs, Only(p),
         \A r \in Runs : \A s \in Sessions : AtProcess(r, p, s)' => Home(r, s),
         \A r \in Runs : \A s \in Sessions : file'[s].id = r => Home(r, s)
  PROVE  \A r \in Runs : \A s \in Sessions : Home(r, s)' => Home(r, s)
<1> SUFFICES ASSUME NEW r \in Runs, NEW s \in Sessions, Home(r, s)' PROVE Home(r, s)
  OBVIOUS
<1>1. CASE file'[s].id = r
  BY <1>1
<1>2. ASSUME NEW q \in Procs, q # p, AtProcess(r, q, s)' PROVE Home(r, s)
  BY <1>2 DEF Only, AtProcess, Alive, Held, Home
<1>3. QED BY <1>1, <1>2 DEF Home

\* Only a run that begins is somewhere new.
NewHome(r, p, s) == turnsOf[r] = -1 /\ turnsOf'[r] = 0 /\ Alive(r, p, s)'

LEMMA SameFile ==
  ASSUME UNCHANGED file
  PROVE  \A r \in Runs : \A s \in Sessions : file'[s].id = r => Home(r, s)
  BY DEF Home

LEMMA ClearedFile ==
  ASSUME TypeOK, NEW s \in Sessions, Clear(s)
  PROVE  \A r \in Runs : \A t \in Sessions : file'[t].id = r => Home(r, t)
<1>1. file'[s].id = 0 /\ \A t \in Sessions : t # s => file'[t] = file[t]
  BY ClearedTypes DEF NoRun
<1>2. QED BY <1>1, ZeroIsNoRun DEF Home

\* A run stays in the session it began in.
LEMMA HomesKept ==
  ASSUME TypeOK, Stages, OneOwner, StateOfAgent, NEW p \in Procs, Step(p)
  PROVE  \A r \in Runs : \A s \in Sessions : Home(r, s)' => Home(r, s) \/ NewHome(r, p, s)
<1> DEFINE NoNew == \A r \in Runs : \A s \in Sessions : Home(r, s)' => Home(r, s)
<1> USE FewerHomes
<1>1. CASE Load(p) \/ Quit(p) \/ Kill(p)
  <2>1. /\ Only(p) /\ pi'[p].calls = {} /\ pi'[p].held = NotHeld /\ \A s \in Sessions : pi'[p].agent[s] = 0
        /\ UNCHANGED file
    BY <1>1, LoadStep, GoneStep DEF Load, Quit, Kill
  <2>2. \A r \in Runs : \A s \in Sessions : ~ AtProcess(r, p, s)'
    BY <2>1, ZeroIsNoRun DEF AtProcess, Alive, Held, NotHeld, NoRun
  <2>3. QED BY <2>1, <2>2, SameFile
<1>2. CASE ReadCheckpoint(p)
  <2>1. PICK s \in Sessions : pi'[p].held = [session |-> s, run |-> file[s]]
    BY <1>2, ReadStep
  <2>2. Only(p) /\ SameSessions(p) /\ UNCHANGED file
    BY <1>2, ReadStep DEF ReadCheckpoint
  <2>3. \A r \in Runs : \A t \in Sessions : AtProcess(r, p, t)' => Home(r, t)
    BY <2>1, <2>2 DEF SameSessions, AtProcess, Alive, Held, Home
  <2>4. QED BY <2>2, <2>3, SameFile
<1>3. CASE RemoveCheckpoint(p)
  <2>1. Only(p) /\ SameSessions(p) /\ pi'[p].held.run.id = 0
    BY <1>3, RemoveStep DEF NotHeld, NoRun
  <2>2. \A r \in Runs : \A s \in Sessions : AtProcess(r, p, s)' => Home(r, s)
    BY <2>1, ZeroIsNoRun DEF SameSessions, AtProcess, Alive, Held, Home
  <2>3. \A s \in Sessions : file'[s] = file[s] \/ file'[s].id = 0
    BY <1>3 DEF RemoveCheckpoint, TypeOK, NoRun
  <2>4. \A r \in Runs : \A s \in Sessions : file'[s].id = r => Home(r, s)
    BY <2>3, ZeroIsNoRun DEF Home
  <2>5. QED BY <2>1, <2>2, <2>4
<1>4. CASE Recover(p) \/ Loaded(p)
  <2>1. Only(p) /\ SameSessions(p) /\ pi'[p].held = pi[p].held /\ UNCHANGED file
    BY <1>4, RecoverStep, LoadedStep DEF Recover, Loaded
  <2>2. \A r \in Runs : \A s \in Sessions : AtProcess(r, p, s)' => Home(r, s)
    BY <2>1 DEF SameSessions, AtProcess, Alive, Held, Home
  <2>3. QED BY <2>1, <2>2, SameFile
<1>5. ASSUME NEW s \in Sessions, OnlySession(p, s), pi'[p].calls = pi[p].calls,
             pi'[p].agent[s] = pi[p].agent[s] \/ pi'[p].agent[s] = 0
      PROVE  \A r \in Runs : \A t \in Sessions : AtProcess(r, p, t)' => Home(r, t)
  BY <1>5, ZeroIsNoRun DEF OnlySession, SameLoading, AtProcess, Alive, Held, Home
<1>6. ASSUME NEW s \in Sessions, SessionStart(p, s)
      PROVE  NoNew
  BY <1>5, <1>6, SessionStartStep, SameFile DEF SessionStart, OnlySession
<1>7. ASSUME NEW s \in Sessions, AgentStart(p, s)
      PROVE  NoNew
  BY <1>5, <1>7, AgentStartStep, SameFile DEF AgentStart, OnlySession
<1>8. ASSUME NEW s \in Sessions, TurnEnd(p, s)
      PROVE  NoNew
  <2> DEFINE run == [pi[p].state[s].run EXCEPT !.turns = @ + 1]
  <2>1. \A r \in Runs : \A t \in Sessions : AtProcess(r, p, t)' => Home(r, t)
    BY <1>5, <1>8, TurnEndStep
  <2>2. CASE run \in Recorded /\ pi[p].state[s].run # NoRun /\ Write(s, run)
    <3>1. run.id = pi[p].agent[s]
      <4>1. pi[p].state[s].run \in Recorded /\ pi[p].state[s].run.id = pi[p].agent[s]
        BY <1>8, <2>2, TurnEndStep, ZeroIsNoRun, ProcessTypes DEF StateOfAgent
      <4>2. QED BY <4>1 DEF Recorded
    <3>2. file'[s].id = pi[p].agent[s] /\ \A t \in Sessions : t # s => file'[t] = file[t]
      BY <2>2, <3>1, WrittenTypes
    <3>3. \A r \in Runs : \A t \in Sessions : file'[t].id = r => Home(r, t)
      BY <3>2 DEF Home, AtProcess, Alive
    <3>4. QED BY <1>8, <2>1, <3>3, TurnEndStep DEF OnlySession
  <2>3. CASE UNCHANGED file
    BY <1>8, <2>1, <2>3, TurnEndStep, SameFile DEF OnlySession
  <2>4. QED BY <1>8, <2>2, <2>3, TurnEndFile
<1>9. ASSUME NEW s \in Sessions, BeforeAgentStart(p, s)
      PROVE  \A r \in Runs : \A t \in Sessions : Home(r, t)' => Home(r, t) \/ NewHome(r, p, t)
  <2>1. PICK r0 \in Runs : Begins(p, s, r0)
    BY <1>9, BeforeAgentStartStep
  <2>2. OnlySession(p, s) /\ pi'[p].calls = pi[p].calls /\ pi'[p].agent[s] = r0 /\ UNCHANGED file
    BY <1>9, <2>1, BeforeAgentStartStep DEF Begins
  <2>3. turnsOf[r0] = -1 /\ turnsOf'[r0] = 0
    BY <2>1 DEF Begins, TypeOK
  <2> SUFFICES ASSUME NEW r \in Runs, NEW t \in Sessions, Home(r, t)', ~ Home(r, t) PROVE NewHome(r, p, t)
    OBVIOUS
  <2>4. AtProcess(r, p, t)'
    BY <2>2 DEF Home, AtProcess, Alive, Held, OnlySession, Only
  <2>5. ~ AtProcess(r, p, t)
    BY DEF Home
  <2>6. Alive(r, p, t)' /\ ~ Alive(r, p, t)
    BY <2>2, <2>4, <2>5 DEF OnlySession, SameLoading, AtProcess, Alive, Held
  <2>7. r = r0
    BY <2>2, <2>6 DEF OnlySession, Alive
  <2>8. QED BY <2>3, <2>6, <2>7 DEF NewHome
<1>10. ASSUME NEW s \in Sessions, NEW kind \in {"end", "shutdown"}, Ends(p, s, kind)
       PROVE  Only(p) /\ \A r \in Runs : \A t \in Sessions : AtProcess(r, p, t)' => Home(r, t)
  <2>1. CASE /\ pi[p].state[s].run # NoRun /\ ~ pi[p].state[s].run.emitted /\ pi' = Emitting(p, s, kind)
    <3> DEFINE call == Call(s, kind, pi[p].state[s])
    <3>1. /\ OnlySession(p, s) /\ pi'[p].agent[s] = 0 /\ pi'[p].calls = pi[p].calls \cup {call}
          /\ pi[p].state[s].run \in Recorded
      BY <2>1, EmittingStep
    <3>2. call.session = s /\ call.run.id = pi[p].agent[s]
      BY <2>1, <3>1, OwnerEmits DEF Call, Recorded
    <3> HIDE DEF call
    <3>3. QED BY <3>1, <3>2, ZeroIsNoRun DEF OnlySession, SameLoading, AtProcess, Alive, Held, Home
  <2>2. CASE pi' = [pi EXCEPT ![p].agent[s] = 0, ![p].state[s] = NoState]
    BY <1>5, <2>2, DroppingStep DEF OnlySession
  <2>3. QED BY <1>10, <2>1, <2>2 DEF Ends
<1>11. ASSUME NEW s \in Sessions, AgentEnd(p, s)
       PROVE  NoNew
  BY <1>10, <1>11, EndStep, ClearedFile
<1>12. ASSUME NEW s \in Sessions, Shutdown(p, s)
       PROVE  NoNew
  BY <1>10, <1>12, ShutdownStep, SameFile
<1>13. ASSUME NEW c \in pi[p].calls, Emit(p, c)
       PROVE  NoNew
  <2>1. /\ Only(p) /\ SameLoading(p) /\ pi'[p].agent = pi[p].agent /\ UNCHANGED file /\ c \in Handler
        /\ pi'[p].calls = (pi[p].calls \ {c}) \cup {[c EXCEPT !.sent = TRUE]}
    BY <1>13, EmitStep DEF Emit
  <2>2. [c EXCEPT !.sent = TRUE].session = c.session /\ [c EXCEPT !.sent = TRUE].run = c.run
    BY <2>1 DEF Handler
  <2>3. \A r \in Runs : \A s \in Sessions :
          (\E d \in pi'[p].calls : d.run.id = r /\ d.session = s) => \E d \in pi[p].calls : d.run.id = r /\ d.session = s
    BY <2>1, <2>2
  <2>4. \A r \in Runs : \A s \in Sessions : AtProcess(r, p, s)' => Home(r, s)
    BY <2>1, <2>3 DEF SameLoading, AtProcess, Alive, Held, Home
  <2>5. QED BY <2>1, <2>4, SameFile
<1>14. ASSUME NEW c \in pi[p].calls, Finish(p, c)
       PROVE  NoNew
  <2>1. /\ Only(p) /\ SameLoading(p) /\ pi'[p].agent = pi[p].agent /\ pi'[p].calls \subseteq pi[p].calls
        /\ c.session \in Sessions
    BY <1>14, FinishStep DEF OnlySession
  <2>2. \A r \in Runs : \A s \in Sessions : AtProcess(r, p, s)' => Home(r, s)
    BY <2>1 DEF SameLoading, AtProcess, Alive, Held, Home
  <2>3. Clear(c.session) \/ UNCHANGED file
    BY <1>14 DEF Finish
  <2>4. QED BY <2>1, <2>2, <2>3, SameFile, ClearedFile
<1>15. QED
  BY <1>1, <1>2, <1>3, <1>4, <1>6, <1>7, <1>8, <1>9, <1>11, <1>12, <1>13, <1>14 DEF Step

\* What a step does to the turns of a run.
LEMMA TurnsKept ==
  ASSUME TypeOK, NEW p \in Procs, Step(p), NEW r \in Runs
  PROVE  \/ turnsOf'[r] = turnsOf[r]
         \/ turnsOf[r] = -1 /\ turnsOf'[r] = 0
         \/ \E s \in Sessions : TurnEnd(p, s) /\ Alive(r, p, s) /\ turnsOf'[r] = turnsOf[r] + 1
<1>1. ASSUME NEW s \in Sessions, BeforeAgentStart(p, s)
      PROVE  turnsOf'[r] = turnsOf[r] \/ (turnsOf[r] = -1 /\ turnsOf'[r] = 0)
  <2>1. PICK r0 \in Runs : Begins(p, s, r0)
    BY <1>1, BeforeAgentStartStep
  <2>2. QED BY <2>1 DEF Begins, TypeOK
<1>2. ASSUME NEW s \in Sessions, TurnEnd(p, s)
      PROVE  turnsOf'[r] = turnsOf[r] \/ (Alive(r, p, s) /\ turnsOf'[r] = turnsOf[r] + 1)
  <2>1. turnsOf' = [turnsOf EXCEPT ![pi[p].agent[s]] = @ + 1]
    BY <1>2, TurnEndFile
  <2>2. QED BY <2>1 DEF TypeOK, Alive
<1>3. CASE UNCHANGED turnsOf
  BY <1>3
<1>4. QED
  BY <1>1, <1>2, <1>3 DEF Step, Load, ReadCheckpoint, RemoveCheckpoint, Recover, Loaded, SessionStart,
     AgentStart, AgentEnd, Shutdown, Emit, Finish, Quit, Kill

\* A run in the recovery of a process was in its hand.
LEMMA FoundKept ==
  ASSUME TypeOK, Stages, NEW p \in Procs, Step(p)
  PROVE  \A r \in Runs : \A q \in Procs :
           Found(r, q)' => Found(r, q) \/ (q = p /\ RemoveCheckpoint(p) /\ Held(r, p))
<1>1. ASSUME Only(p), pi'[p].found = pi[p].found PROVE \A r \in Runs : \A q \in Procs : Found(r, q)' => Found(r, q)
  BY <1>1 DEF Only, Found
<1>2. ASSUME Only(p), pi'[p].found = <<>> PROVE \A r \in Runs : \A q \in Procs : Found(r, q)' => Found(r, q)
  BY <1>2 DEF Only, Found, ToSet
<1>3. CASE Load(p) \/ Quit(p) \/ Kill(p)
  BY <1>2, <1>3, LoadStep, GoneStep DEF Quit, Kill
<1>4. CASE ReadCheckpoint(p) \/ Loaded(p)
  BY <1>1, <1>4, ReadStep, LoadedStep
<1>5. CASE RemoveCheckpoint(p)
  <2>1. \A f \in ToSet(pi'[p].found) : f \in ToSet(pi[p].found) \/ f = pi[p].held.run
    <3>1. CASE pi'[p].found = pi[p].found
      BY <3>1
    <3>2. CASE /\ pi'[p].found = Append(pi[p].found, pi[p].held.run) /\ pi[p].held.run \in Recorded
      BY <3>2, ProcessTypes DEF ToSet
    <3>3. QED BY <1>5, <3>1, <3>2, RemoveStep
  <2>2. Only(p)
    BY <1>5, RemoveStep
  <2>3. QED BY <1>5, <2>1, <2>2 DEF Only, Found, Held
<1>6. CASE Recover(p)
  <2>1. Only(p) /\ pi[p].found # <<>> /\ pi'[p].found = Tail(pi[p].found)
    BY <1>6, RecoverStep
  <2>2. ToSet(pi'[p].found) \subseteq ToSet(pi[p].found)
    <3>1. \A k \in DOMAIN Tail(pi[p].found) :
            k + 1 \in DOMAIN pi[p].found /\ Tail(pi[p].found)[k] = pi[p].found[k + 1]
      BY <2>1, ProcessTypes
    <3>2. QED BY <2>1, <3>1 DEF ToSet
  <2>3. QED BY <2>1, <2>2 DEF Only, Found
<1>7. ASSUME NEW s \in Sessions, \/ SessionStart(p, s) \/ BeforeAgentStart(p, s) \/ AgentStart(p, s)
                                 \/ TurnEnd(p, s) \/ AgentEnd(p, s) \/ Shutdown(p, s)
      PROVE  Only(p) /\ pi'[p].found = pi[p].found
  <2>1. CASE SessionStart(p, s)
    BY <2>1, SessionStartStep DEF OnlySession, SameLoading
  <2>2. CASE BeforeAgentStart(p, s)
    BY <2>2, BeforeAgentStartStep DEF OnlySession, SameLoading
  <2>3. CASE AgentStart(p, s) \/ TurnEnd(p, s)
    BY <2>3, AgentStartStep, TurnEndStep DEF OnlySession, SameLoading
  <2>4. ASSUME NEW kind \in {"end", "shutdown"}, Ends(p, s, kind) PROVE OnlySession(p, s)
    BY <2>4, EmittingStep, DroppingStep DEF Ends
  <2>5. CASE AgentEnd(p, s) \/ Shutdown(p, s)
    BY <2>4, <2>5, EndStep, ShutdownStep DEF OnlySession, SameLoading
  <2>6. QED BY <1>7, <2>1, <2>2, <2>3, <2>5
<1>8. ASSUME NEW c \in pi[p].calls, Emit(p, c) \/ Finish(p, c)
      PROVE  Only(p) /\ pi'[p].found = pi[p].found
  BY <1>8, EmitStep, FinishStep DEF OnlySession, SameLoading
<1>9. QED BY <1>1, <1>3, <1>4, <1>5, <1>6, <1>7, <1>8 DEF Step

\* Traces are taken of runs that are recovered or handed to a handler.
LEMMA GotKept ==
  ASSUME TypeOK, NEW p \in Procs, Step(p), NEW r \in Runs
  PROVE  \/ got'[r] = got[r]
         \/ Recover(p) /\ Head(pi[p].found).id = r /\ Found(r, p)
         \/ \E c \in pi[p].calls : Emit(p, c) /\ c.run.id = r
<1>1. CASE Recover(p)
  <2>1. PICK times \in 0..2 : Taken(Head(pi[p].found), times)
    BY <1>1 DEF Recover
  <2>2. Head(pi[p].found) \in Recorded /\ pi[p].found \in Seq(Recorded) /\ pi[p].found # <<>>
    BY <1>1, RecoverStep, ProcessTypes
  <2>3. Head(pi[p].found) \in ToSet(pi[p].found)
    BY <2>2 DEF ToSet
  <2>4. QED BY <1>1, <2>1, <2>2, <2>3, TakenTypes DEF Found
<1>2. ASSUME NEW c \in pi[p].calls, Emit(p, c)
      PROVE  got'[r] = got[r] \/ c.run.id = r
  <2>1. PICK times \in 0..2 : Taken(c.run, times)
    BY <1>2 DEF Emit
  <2>2. c.run \in Recorded
    BY <1>2, EmitStep DEF Handler
  <2>3. QED BY <2>1, <2>2, TakenTypes
<1>3. CASE UNCHANGED got
  BY <1>3
<1>4. QED
  BY <1>1, <1>2, <1>3 DEF Step, Load, ReadCheckpoint, RemoveCheckpoint, Loaded, SessionStart, BeforeAgentStart,
     TurnEnd, AgentStart, AgentEnd, Shutdown, Finish, Quit, Kill

\* Places are an invariant of every step.
LEMMA PlacesKept ==
  ASSUME PlacesInv, NEW p \in Procs, Step(p)
  PROVE  PlacesInv'
<1> USE DEF PlacesInv
<1>1. TypeOK' /\ Stages' /\ OneOwner' /\ StateOfAgent'
  BY TypesKept, StagesKept, OwnersKept, StateKept
<1>2. \A r \in Runs : \A s \in Sessions : Home(r, s)' => Home(r, s) \/ NewHome(r, p, s)
  BY HomesKept
<1>3. OneHome'
  <2> SUFFICES ASSUME NEW r \in Runs, NEW s \in Sessions, NEW t \in Sessions, Home(r, s)', Home(r, t)'
               PROVE  s = t
    BY DEF OneHome
  <2>1. CASE Home(r, s) /\ Home(r, t)
    BY <2>1 DEF OneHome
  <2>2. CASE NewHome(r, p, s) \/ NewHome(r, p, t)
    <3>1. NewHome(r, p, s) /\ NewHome(r, p, t)
      BY <1>2, <2>2 DEF NewHome, FreshNowhere
    <3>2. QED BY <1>1, <3>1 DEF NewHome, OneOwner
  <2>3. QED BY <1>2, <2>1, <2>2
<1>4. FreshNowhere'
  <2> SUFFICES ASSUME NEW r \in Runs
               PROVE  /\ turnsOf'[r] >= -1
                      /\ turnsOf'[r] = -1 => /\ got'[r] = <<>>
                                             /\ \A s \in Sessions : ~ Home(r, s)'
                                             /\ \A q \in Procs : ~ Found(r, q)'
    BY DEF FreshNowhere
  <2>1. turnsOf[r] >= -1 /\ turnsOf[r] \in Int
    BY DEF FreshNowhere, TypeOK
  <2>2. \A s \in Sessions : Alive(r, p, s) => turnsOf[r] # -1
    BY DEF FreshNowhere, Home, AtProcess
  <2>3. turnsOf'[r] >= -1 /\ (turnsOf'[r] = -1 => turnsOf[r] = -1)
    BY <2>1, <2>2, TurnsKept
  <2>4. ASSUME turnsOf'[r] = -1
        PROVE  /\ got'[r] = <<>>
               /\ \A s \in Sessions : ~ Home(r, s)'
               /\ \A q \in Procs : ~ Found(r, q)'
    <3>1. turnsOf[r] = -1 /\ got[r] = <<>> /\ \A s \in Sessions : ~ Home(r, s)
      BY <2>3, <2>4 DEF FreshNowhere
    <3>2. \A q \in Procs : ~ Found(r, q)
      BY <3>1 DEF FreshNowhere
    <3>3. \A s \in Sessions : ~ Home(r, s)'
      BY <1>2, <2>4, <3>1 DEF NewHome
    <3>4. ~ Held(r, p)
      BY <3>1, ProcessTypes, ZeroIsNoRun DEF Home, AtProcess, Held, NoRun
    <3>5. \A q \in Procs : ~ Found(r, q)'
      BY <3>2, <3>4, FoundKept
    <3>6. \A c \in pi[p].calls : c.run.id # r
      BY <3>1, ProcessTypes DEF Home, AtProcess, Handler
    <3>7. got'[r] = <<>>
      BY <3>1, <3>2, <3>6, GotKept
    <3>8. QED BY <3>3, <3>5, <3>7
  <2>5. QED BY Zenon, <2>3, <2>4
<1>5. QED BY <1>1, <1>3, <1>4

LEMMA PlacesInit == Init => PlacesInv
<1> SUFFICES ASSUME Init PROVE PlacesInv
  OBVIOUS
<1>1. /\ \A p \in Procs : pi[p] = Off
      /\ \A s \in Sessions : file[s] = NoRun
      /\ \A r \in Runs : turnsOf[r] = -1 /\ got[r] = <<>>
  BY DEF Init
<1>2. TypeOK
  BY OffFields DEF Init, TypeOK
<1>3. Stages /\ StateOfAgent
  BY <1>1, OffFields DEF Stages, StateOfAgent
<1>4. OneOwner
  BY <1>1, OffFields, ZeroIsNoRun DEF OneOwner, Alive
<1>5. \A r \in Runs : \A s \in Sessions : ~ Home(r, s)
  BY <1>1, OffFields, ZeroIsNoRun DEF Home, AtProcess, Alive, Held, NotHeld, NoRun
<1>6. \A r \in Runs : \A p \in Procs : ~ Found(r, p)
  BY <1>1, OffFields DEF Found, ToSet
<1>7. QED BY <1>1, <1>2, <1>3, <1>4, <1>5, <1>6 DEF PlacesInv, FreshNowhere, OneHome

\* Where runs are, through every step of every process: a run is in one session, and an
\* agent or one handler has it in memory (index.ts, state.ts).
THEOREM RunsHavePlaces == Spec => []PlacesInv
<1>1. PlacesInv /\ [Next]_vars => PlacesInv'
  <2> SUFFICES ASSUME PlacesInv, [Next]_vars PROVE PlacesInv'
    OBVIOUS
  <2>1. CASE Next
    BY <2>1, NextIsStep, PlacesKept
  <2>2. CASE UNCHANGED vars
    BY <2>2 DEF vars, PlacesInv, TypeOK, Stages, FreshNowhere, OneOwner, OneHome, StateOfAgent,
       Home, AtProcess, Alive, Held, Found
  <2>3. QED BY <2>1, <2>2
<1>2. QED BY <1>1, PlacesInit, PTL DEF Spec

-----------------------------------------------------------------------------
(* The scores.                                                             *)

\* Excuses are never taken back.
LEMMA ExcuseGrows ==
  ASSUME TypeOK, NEW p \in Procs, Step(p)
  PROVE  excuse \subseteq excuse'
<1>1. ASSUME NEW s \in Sessions, BeforeAgentStart(p, s) PROVE excuse \subseteq excuse'
  BY <1>1 DEF BeforeAgentStart
<1>2. ASSUME NEW s \in Sessions, TurnEnd(p, s) PROVE excuse \subseteq excuse'
  BY <1>2, TurnEndFile
<1>3. ASSUME NEW s \in Sessions, SessionStart(p, s) \/ AgentStart(p, s) \/ AgentEnd(p, s) \/ Shutdown(p, s)
      PROVE  excuse \subseteq excuse'
  BY <1>3 DEF SessionStart, AgentStart, AgentEnd, Shutdown
<1>4. ASSUME NEW c \in pi[p].calls, Emit(p, c) \/ Finish(p, c) PROVE excuse \subseteq excuse'
  BY <1>4 DEF Emit, Finish, DeliveryExcuse
<1>5. CASE Load(p) \/ ReadCheckpoint(p) \/ RemoveCheckpoint(p) \/ Recover(p) \/ Loaded(p) \/ Quit(p) \/ Kill(p)
  BY <1>5 DEF Load, ReadCheckpoint, RemoveCheckpoint, Recover, Loaded, Quit, Kill, DeliveryExcuse
<1>6. QED BY <1>1, <1>2, <1>3, <1>4, <1>5 DEF Step

LEMMA ExcusedStays ==
  ASSUME excuse \subseteq excuse', NEW r, NEW whats
  PROVE  Excused(r, whats) => Excused(r, whats)'
  BY DEF Excused

LEMMA ExcusedNow ==
  ASSUME NEW S, NEW what, Excuse(S, what) \subseteq excuse', NEW r \in Runs, r \in S, NEW whats, what \in whats
  PROVE  Excused(r, whats)'
<1>1. <<r, what>> \in Excuse(S, what)
  BY ZeroIsNoRun DEF Excuse
<1>2. QED BY <1>1 DEF Excused

\* A run whose agent is at work, and one a handler has not sent.
AgentCounts(p, s, r) ==
    Alive(r, p, s) /\ ~ Excused(r, {"overtaken"}) =>
        /\ Waiting(p, s) = {}
        /\ pi[p].state[s].run.id = r
        /\ pi[p].state[s].run.turns = pi[p].state[s].turnCount
CallCounts(p, c) ==
    ~ c.sent /\ ~ Excused(c.run.id, {"overtaken"}) =>
        c.run.turns = c.count /\ c.count = pi[p].state[c.session].turnCount

LEMMA WaitingHere ==
  ASSUME NEW p, NEW s
  PROVE  /\ Waiting(p, s) = {} <=> \A c \in pi[p].calls : c.session # s
         /\ \A c \in pi[p].calls : c.session = s => c.run.id \in Waiting(p, s)
  BY DEF Waiting

\* An agent that is not overtaken keeps the session's state to itself until its handler is through.
LEMMA ScoreKept ==
  ASSUME PlacesInv, ScoreInv, NEW p \in Procs, Step(p)
  PROVE  ScoreInv'
<1> USE DEF PlacesInv
<1>g. excuse \subseteq excuse'
  BY ExcuseGrows
<1>i. /\ \A q \in Procs : \A s \in Sessions : \A r \in Runs : AgentCounts(q, s, r)
      /\ \A q \in Procs : \A c \in pi[q].calls : CallCounts(q, c)
      /\ ScoresAreOfTheRun
  BY DEF ScoreInv, AgentCounts, CallCounts
\* It is enough to look at p, and at the scores if some are sent.
<1>1. ASSUME Only(p), \A s \in Sessions : \A r \in Runs : AgentCounts(p, s, r)',
             \A c \in pi'[p].calls : CallCounts(p, c)', ScoresAreOfTheRun'
      PROVE  ScoreInv'
  <2>1. ASSUME NEW q \in Procs, q # p
        PROVE  /\ \A s \in Sessions : \A r \in Runs : AgentCounts(q, s, r)'
               /\ \A c \in pi'[q].calls : CallCounts(q, c)'
    <3>1. pi'[q] = pi[q]
      BY <1>1, <2>1 DEF Only
    <3>x. \A r \in Runs : Excused(r, {"overtaken"}) => Excused(r, {"overtaken"})'
      BY <1>g, ExcusedStays
    <3>w. \A s \in Sessions : Waiting(q, s)' = Waiting(q, s)
      BY <3>1 DEF Waiting
    <3>2. \A s \in Sessions : \A r \in Runs : AgentCounts(q, s, r)'
      BY <1>i, <3>1, <3>w, <3>x DEF AgentCounts, Alive
    <3>3. \A c \in pi'[q].calls : CallCounts(q, c)'
      BY <1>g, <1>i, <3>1, ExcusedStays DEF CallCounts
    <3>4. QED BY <3>2, <3>3
  <2>2. QED BY <1>1, <2>1 DEF ScoreInv, AgentCounts, CallCounts
<1>2. UNCHANGED scored => ScoresAreOfTheRun'
  BY <1>g, <1>i, ExcusedStays DEF ScoresAreOfTheRun
<1>3. CASE Load(p) \/ Quit(p) \/ Kill(p)
  <2>1. /\ Only(p) /\ pi'[p].calls = {} /\ \A s \in Sessions : pi'[p].agent[s] = 0
        /\ UNCHANGED scored
    BY <1>3, LoadStep, GoneStep DEF Load, Quit, Kill
  <2>2. QED BY <1>1, <1>2, <2>1, ZeroIsNoRun DEF AgentCounts, Alive
<1>4. CASE ReadCheckpoint(p) \/ RemoveCheckpoint(p) \/ Recover(p) \/ Loaded(p)
  <2>1. Only(p) /\ SameSessions(p) /\ UNCHANGED scored
    BY <1>4, ReadStep, RemoveStep, RecoverStep, LoadedStep DEF ReadCheckpoint, RemoveCheckpoint, Recover, Loaded
  <2>2. \A s \in Sessions : \A r \in Runs : AgentCounts(p, s, r)'
    BY <1>g, <1>i, <2>1, ExcusedStays DEF SameSessions, AgentCounts, Alive, Waiting
  <2>3. \A c \in pi'[p].calls : CallCounts(p, c)'
    BY <1>g, <1>i, <2>1, ExcusedStays DEF SameSessions, CallCounts
  <2>4. QED BY <1>1, <1>2, <2>1, <2>2, <2>3
\* In the other sessions of p nothing changes.
<1>5. ASSUME NEW s \in Sessions, OnlySession(p, s), UNCHANGED scored,
             \A c \in pi'[p].calls : c.session # s => c \in pi[p].calls,
             \A r \in Runs : AgentCounts(p, s, r)',
             \A c \in pi'[p].calls : c.session = s => CallCounts(p, c)'
      PROVE  ScoreInv'
  <2>1. ASSUME NEW t \in Sessions, t # s PROVE \A r \in Runs : AgentCounts(p, t, r)'
    <3>1. pi'[p].agent[t] = pi[p].agent[t] /\ pi'[p].state[t] = pi[p].state[t]
      BY <1>5, <2>1 DEF OnlySession
    <3>2. Waiting(p, t) = {} => Waiting(p, t)' = {}
      BY <1>5, <2>1 DEF Waiting
    <3>3. \A r \in Runs : AgentCounts(p, t, r)
      BY <1>i, <2>1
    <3>4. QED BY <1>g, <3>1, <3>2, <3>3, ExcusedStays DEF AgentCounts, Alive
  <2>2. ASSUME NEW c \in pi'[p].calls, c.session # s PROVE CallCounts(p, c)'
    <3>1. c \in pi[p].calls /\ c.session \in Sessions
      BY <1>5, <2>2, ProcessTypes DEF Handler
    <3>2. pi'[p].state[c.session] = pi[p].state[c.session]
      BY <1>5, <2>2, <3>1 DEF OnlySession
    <3>3. QED BY <1>g, <1>i, <3>1, <3>2, ExcusedStays DEF CallCounts
  <2>3. QED BY <1>1, <1>2, <1>5, <2>1, <2>2 DEF OnlySession
\* The runs whose delivery is waited for are excused.
<1>6. ASSUME NEW s \in Sessions, Excuse(Waiting(p, s), "overtaken") \subseteq excuse'
      PROVE  \A c \in pi[p].calls : c.session = s => Excused(c.run.id, {"overtaken"})'
  <2> SUFFICES ASSUME NEW c \in pi[p].calls, c.session = s PROVE Excused(c.run.id, {"overtaken"})'
    OBVIOUS
  <2>1. c.run.id \in Waiting(p, s) /\ c.run.id \in Runs
    BY WaitingHere, ProcessTypes DEF Handler, Recorded
  <2>2. QED BY <1>6, <2>1, ExcusedNow
<1>7. ASSUME NEW s \in Sessions, SessionStart(p, s) PROVE ScoreInv'
  <2>1. /\ OnlySession(p, s) /\ UNCHANGED scored /\ pi'[p].calls = pi[p].calls /\ pi'[p].agent[s] = 0
        /\ Excuse(Waiting(p, s), "overtaken") \subseteq excuse'
    BY <1>7, SessionStartStep DEF SessionStart
  <2>2. \A r \in Runs : AgentCounts(p, s, r)'
    BY <2>1, ZeroIsNoRun DEF AgentCounts, Alive
  <2>3. \A c \in pi'[p].calls : c.session = s => CallCounts(p, c)'
    BY <1>6, <2>1 DEF CallCounts
  <2>4. QED BY <1>5, <2>1, <2>2, <2>3
<1>8. ASSUME NEW s \in Sessions, BeforeAgentStart(p, s) PROVE ScoreInv'
  <2>0. PICK r0 \in Runs : Begins(p, s, r0)
    BY <1>8, BeforeAgentStartStep
  <2>1. /\ OnlySession(p, s) /\ UNCHANGED scored /\ pi'[p].calls = pi[p].calls /\ pi[p].agent[s] = 0
        /\ pi'[p].agent[s] = r0 /\ Excuse(IF Waiting(p, s) = {} THEN {} ELSE {r0}, "overtaken") \subseteq excuse'
        /\ pi'[p].state[s] = [pi[p].state[s] EXCEPT !.run = RunOrNew(pi[p].state[s].run, r0)]
    BY <1>8, <2>0, BeforeAgentStartStep DEF Begins
  <2>2. pi'[p].state[s].turnCount = pi[p].state[s].turnCount
    BY <2>1, ProcessTypes DEF SessionState
  <2>3. ASSUME NEW r \in Runs, Alive(r, p, s)' PROVE AgentCounts(p, s, r)'
    <3>1. r = r0
      BY <2>1, <2>3 DEF Alive
    <3>2. CASE Waiting(p, s) # {}
      BY <2>1, <3>1, <3>2, ExcusedNow DEF AgentCounts
    <3>3. CASE Waiting(p, s) = {}
      <4>1. pi[p].state[s] = NoState
        BY <2>1, <3>3, WaitingHere DEF StateOfAgent
      <4>2. pi'[p].state[s].run.id = r0 /\ pi'[p].state[s].run.turns = 0 /\ pi'[p].state[s].turnCount = 0
        <5>1. RunOrNew(NoState.run, r0) = [id |-> r0, turns |-> 0, emitted |-> FALSE]
          BY DEF NoState, RunOrNew
        <5>2. pi'[p].state[s].run = RunOrNew(NoState.run, r0)
          BY <2>1, <4>1, ProcessTypes DEF SessionState
        <5>3. pi[p].state[s].turnCount = 0
          BY <4>1 DEF NoState
        <5>4. QED BY <2>2, <5>1, <5>2, <5>3
      <4>3. Waiting(p, s)' = {}
        BY <2>1, <3>3 DEF Waiting
      <4>4. QED BY <3>1, <4>2, <4>3 DEF AgentCounts
    <3>4. QED BY <3>2, <3>3
  <2>4. \A r \in Runs : AgentCounts(p, s, r)'
    BY <2>3 DEF AgentCounts
  <2>5. \A c \in pi'[p].calls : c.session = s => CallCounts(p, c)'
    BY <1>g, <1>i, <2>1, <2>2, ExcusedStays DEF CallCounts
  <2>6. QED BY <1>5, <2>1, <2>4, <2>5
<1>9. ASSUME NEW s \in Sessions, AgentStart(p, s) PROVE ScoreInv'
  <2>1. /\ OnlySession(p, s) /\ UNCHANGED scored /\ pi'[p].calls = pi[p].calls
        /\ pi'[p].agent[s] = pi[p].agent[s]
        /\ pi'[p].state[s] = [pi[p].state[s] EXCEPT !.run = RunOrNew(pi[p].state[s].run, pi[p].agent[s])]
    BY <1>9, AgentStartStep DEF AgentStart
  <2>2. pi'[p].state[s].turnCount = pi[p].state[s].turnCount
    BY <2>1, ProcessTypes DEF SessionState
  <2>3. ASSUME NEW r \in Runs, Alive(r, p, s), ~ Excused(r, {"overtaken"}) PROVE pi'[p].state[s].run = pi[p].state[s].run
    <3>1. pi[p].state[s].run.id = r /\ pi[p].state[s].run # NoRun /\ ~ pi[p].state[s].run.emitted
      BY <1>i, <2>3, ZeroIsNoRun DEF AgentCounts, StateOfAgent, Alive, NoRun
    <3>2. QED BY <2>1, <3>1, ProcessTypes DEF RunOrNew, SessionState
  <2>4. \A r \in Runs : AgentCounts(p, s, r)'
    <3> SUFFICES ASSUME NEW r \in Runs, Alive(r, p, s)', ~ Excused(r, {"overtaken"})' PROVE AgentCounts(p, s, r)'
      BY DEF AgentCounts
    <3>1. Alive(r, p, s) /\ ~ Excused(r, {"overtaken"})
      BY <1>g, <2>1, ExcusedStays DEF Alive
    <3>2. AgentCounts(p, s, r)
      BY <1>i
    <3>3. Waiting(p, s)' = Waiting(p, s)
      BY <2>1 DEF Waiting
    <3>4. QED BY <2>2, <2>3, <3>1, <3>2, <3>3 DEF AgentCounts
  <2>5. \A c \in pi'[p].calls : c.session = s => CallCounts(p, c)'
    BY <1>g, <1>i, <2>1, <2>2, ExcusedStays DEF CallCounts
  <2>6. QED BY <1>5, <2>1, <2>4, <2>5
<1>10. ASSUME NEW s \in Sessions, TurnEnd(p, s) PROVE ScoreInv'
  <2>1. /\ OnlySession(p, s) /\ UNCHANGED scored /\ pi'[p].calls = pi[p].calls
        /\ pi'[p].agent[s] = pi[p].agent[s] /\ pi'[p].state[s] = OneMoreTurn(pi[p].state[s])
        /\ Excuse(Waiting(p, s), "overtaken") \subseteq excuse'
    BY <1>10, TurnEndStep, TurnEndFile
  <2>2. \A r \in Runs : AgentCounts(p, s, r)'
    <3> SUFFICES ASSUME NEW r \in Runs, Alive(r, p, s)', ~ Excused(r, {"overtaken"})' PROVE AgentCounts(p, s, r)'
      BY DEF AgentCounts
    <3>1. Alive(r, p, s) /\ ~ Excused(r, {"overtaken"})
      BY <1>g, <2>1, ExcusedStays DEF Alive
    <3>2. /\ Waiting(p, s) = {} /\ pi[p].state[s].run.id = r
          /\ pi[p].state[s].run.turns = pi[p].state[s].turnCount
      BY <1>i, <3>1 DEF AgentCounts
    <3>3. Waiting(p, s)' = {}
      BY <2>1, <3>2 DEF Waiting
    <3>4. pi[p].state[s].run # NoRun
      BY <3>2, ZeroIsNoRun DEF NoRun
    <3>5. pi[p].state[s].run \in Recorded
      BY <3>4, ProcessTypes
    <3>6. pi'[p].state[s].run.id = r /\ pi'[p].state[s].run.turns = pi'[p].state[s].turnCount
      BY <2>1, <3>2, <3>4, <3>5 DEF OneMoreTurn, Recorded
    <3>7. QED BY <3>3, <3>6 DEF AgentCounts
  <2>3. \A c \in pi'[p].calls : c.session = s => CallCounts(p, c)'
    BY <1>6, <2>1 DEF CallCounts
  <2>4. QED BY <1>5, <2>1, <2>2, <2>3
\* A run that ends is handed on with its count.
<1>11. ASSUME NEW s \in Sessions, NEW kind \in {"end", "shutdown"}, Ends(p, s, kind), UNCHANGED scored,
              Excuse(Waiting(p, s), "overtaken") \subseteq excuse'
       PROVE  ScoreInv'
  <2>1. CASE pi[p].state[s].run # NoRun /\ ~ pi[p].state[s].run.emitted /\ pi' = Emitting(p, s, kind)
    <3>0. PICK call \in Handler : call = Call(s, kind, pi[p].state[s])
      BY <2>1, EmittingStep
    <3>1. /\ OnlySession(p, s) /\ pi'[p].agent[s] = 0 /\ pi'[p].calls = pi[p].calls \cup {call}
          /\ pi[p].state[s].run \in Recorded /\ pi'[p].state[s] = Emitted(pi[p].state[s])
      BY <2>1, <3>0, EmittingStep
    <3>2. /\ call.session = s /\ call.run.id = pi[p].agent[s] /\ pi[p].agent[s] \in Runs
          /\ call.run.turns = pi[p].state[s].run.turns /\ call.count = pi[p].state[s].turnCount
      BY <2>1, <3>0, <3>1, OwnerEmits DEF Call, Recorded
    <3>3. pi'[p].state[s].turnCount = pi[p].state[s].turnCount
      BY <3>1, ProcessTypes DEF Emitted, SessionState
    <3>4. CallCounts(p, call)'
      <4>1. AgentCounts(p, s, pi[p].agent[s])
        BY <1>i, <3>2
      <4>2. QED BY <1>g, <3>2, <3>3, <4>1, ExcusedStays DEF CallCounts, AgentCounts, Alive
    <3>5. \A c \in pi'[p].calls : c.session = s => CallCounts(p, c)'
      BY <1>6, <1>11, <3>1, <3>4 DEF CallCounts
    <3>6. \A r \in Runs : AgentCounts(p, s, r)'
      BY <3>1, ZeroIsNoRun DEF AgentCounts, Alive
    <3>7. QED BY <1>5, <1>11, <3>1, <3>2, <3>5, <3>6
  <2>2. CASE pi' = [pi EXCEPT ![p].agent[s] = 0, ![p].state[s] = NoState]
    <3>1. OnlySession(p, s) /\ pi'[p].agent[s] = 0 /\ pi'[p].calls = pi[p].calls
      BY <2>2, DroppingStep
    <3>2. \A r \in Runs : AgentCounts(p, s, r)'
      BY <3>1, ZeroIsNoRun DEF AgentCounts, Alive
    <3>3. \A c \in pi'[p].calls : c.session = s => CallCounts(p, c)'
      BY <1>6, <1>11, <3>1 DEF CallCounts
    <3>4. QED BY <1>5, <1>11, <3>1, <3>2, <3>3
  <2>3. QED BY <1>11, <2>1, <2>2 DEF Ends
<1>12. ASSUME NEW s \in Sessions, AgentEnd(p, s) \/ Shutdown(p, s) PROVE ScoreInv'
  <2>1. CASE AgentEnd(p, s)
    BY <1>11, <2>1, EndStep
  <2>2. CASE Shutdown(p, s)
    BY <1>11, <2>2, ShutdownStep
  <2>3. QED BY <1>12, <2>1, <2>2
<1>13. ASSUME NEW c \in pi[p].calls, Emit(p, c) PROVE ScoreInv'
  <2> DEFINE sent == [c EXCEPT !.sent = TRUE]
  <2>1. /\ Only(p) /\ pi'[p].agent = pi[p].agent /\ pi'[p].state = pi[p].state /\ c \in Handler
        /\ pi'[p].calls = (pi[p].calls \ {c}) \cup {sent}
    BY <1>13, EmitStep
  <2>2. sent.sent /\ sent.session = c.session
    BY <2>1 DEF Handler
  <2>3. scored' = scored \cup {<<c.run.id, c.run.turns, c.count, pi[p].state[c.session].turnCount>>} /\ ~ c.sent
    BY <1>13 DEF Emit
  <2> HIDE DEF sent
  <2>4. \A s \in Sessions : \A r \in Runs : AgentCounts(p, s, r)'
    <3>1. \A s \in Sessions : Waiting(p, s) = {} => Waiting(p, s)' = {}
      <4> SUFFICES ASSUME NEW s \in Sessions, Waiting(p, s) = {} PROVE Waiting(p, s)' = {}
        OBVIOUS
      <4>1. \A d \in pi[p].calls : d.session # s
        BY WaitingHere
      <4>2. \A d \in pi'[p].calls : d.session # s
        BY <2>1, <2>2, <4>1
      <4>3. QED BY <4>2 DEF Waiting
    <3>2. QED BY <1>g, <1>i, <2>1, <3>1, ExcusedStays DEF AgentCounts, Alive
  <2>5. \A d \in pi'[p].calls : CallCounts(p, d)'
    BY <1>g, <1>i, <2>1, <2>2, ExcusedStays DEF CallCounts
  <2>6. ScoresAreOfTheRun'
    <3>1. CallCounts(p, c)
      BY <1>i
    <3>2. QED BY <1>g, <1>i, <2>3, <3>1, ExcusedStays DEF ScoresAreOfTheRun, CallCounts
  <2>7. QED BY <1>1, <2>1, <2>4, <2>5, <2>6
<1>14. ASSUME NEW c \in pi[p].calls, Finish(p, c) PROVE ScoreInv'
  <2> DEFINE s == c.session
  <2>1. /\ OnlySession(p, s) /\ c \in Handler /\ s \in Sessions /\ pi'[p].agent = pi[p].agent
        /\ pi'[p].calls = pi[p].calls \ {c}
    BY <1>14, FinishStep
  <2>2. UNCHANGED scored /\ Excuse(Waiting(p, s) \ {c.run.id}, "overtaken") \subseteq excuse'
    BY <1>14 DEF Finish
  <2>3. \A r \in Runs : AgentCounts(p, s, r)'
    <3>1. Waiting(p, s) # {}
      BY WaitingHere
    <3>2. QED BY <1>g, <1>i, <2>1, <3>1, ExcusedStays DEF AgentCounts, Alive
  <2>4. ASSUME NEW d \in pi'[p].calls, d.session = s PROVE CallCounts(p, d)'
    <3>1. d \in pi[p].calls /\ d # c /\ d.run.id \in Runs /\ c.run.id \in Runs
      BY <2>1, <2>4, ProcessTypes DEF Handler, Recorded
    <3>2. d.run.id # c.run.id
      BY <3>1 DEF OneOwner
    <3>3. d.run.id \in Waiting(p, s) \ {c.run.id}
      BY <2>4, <3>1, <3>2, WaitingHere
    <3>4. Excused(d.run.id, {"overtaken"})'
      BY <2>2, <3>1, <3>3, ExcusedNow
    <3>5. QED BY <3>4 DEF CallCounts
  <2>5. QED BY <1>5, <2>1, <2>2, <2>3, <2>4
<1>15. QED
  BY <1>3, <1>4, <1>7, <1>8, <1>9, <1>10, <1>12, <1>13, <1>14 DEF Step

\* Whatever happens in other sessions and processes, the count in a trace and the score sent
\* after it are the turns of its run, if nothing came in its session during the delivery.
THEOREM ScoresCountTheRun == Spec => []ScoresAreOfTheRun
<1>1. Init => ScoreInv
  <2> SUFFICES ASSUME Init PROVE ScoreInv
    OBVIOUS
  <2>1. \A p \in Procs : pi[p].calls = {} /\ \A s \in Sessions : pi[p].agent[s] = 0
    BY OffFields DEF Init
  <2>2. ScoresAreOfTheRun
    BY DEF Init, ScoresAreOfTheRun
  <2>3. QED BY <2>1, <2>2, ZeroIsNoRun DEF ScoreInv, Alive
<1>2. PlacesInv /\ ScoreInv /\ [Next]_vars => ScoreInv'
  <2> SUFFICES ASSUME PlacesInv, ScoreInv, [Next]_vars PROVE ScoreInv'
    OBVIOUS
  <2>1. CASE Next
    BY <2>1, NextIsStep, ScoreKept
  <2>2. CASE UNCHANGED vars
    BY <2>2 DEF vars, ScoreInv, ScoresAreOfTheRun, Alive, Excused, Waiting
  <2>3. QED BY <2>1, <2>2
<1>3. ScoreInv => ScoresAreOfTheRun
  BY DEF ScoreInv
<1>4. QED BY <1>1, <1>2, <1>3, RunsHavePlaces, PTL DEF Spec

-----------------------------------------------------------------------------
(* What a step does to one run.                                            *)

\* The run stays where it is in process q.
Stays(r, q) ==
    /\ \A s \in Sessions : Alive(r, q, s)' <=> Alive(r, q, s)
    /\ CallsOf(r, q)' = CallsOf(r, q)
    /\ Held(r, q)' <=> Held(r, q)
    /\ Held(r, q) => pi'[q].held = pi[q].held
    /\ Found(r, q)' <=> Found(r, q)
    /\ FoundOnce(r, q) => FoundOnce(r, q)'
    /\ \A f \in ToSet(pi'[q].found) : f.id = r => f \in ToSet(pi[q].found)

\* The step is one of other runs; it can take a checkpoint of r away.
Apart(r) ==
    /\ \A q \in Procs : Stays(r, q)
    /\ \A s \in Sessions : file'[s].id = r => file'[s] = file[s]
    /\ got'[r] = got[r] /\ turnsOf'[r] = turnsOf[r]

\* The recorded turns of r are kept, in its session and its checkpoint.
Undisturbed(r, p) ==
    /\ \A s \in Sessions : Alive(r, p, s) /\ pi[p].state[s].run.id = r => pi'[p].state[s].run = pi[p].state[s].run
    /\ \A s \in Sessions : file[s].id = r => file'[s] = file[s]

\* The steps of r itself.
Moves(r, p) ==
    \/ ReadCheckpoint(p) /\ Held(r, p)'
    \/ RemoveCheckpoint(p) /\ Held(r, p)
    \/ Recover(p) /\ Head(pi[p].found).id = r
    \/ \E s \in Sessions : \/ BeforeAgentStart(p, s) /\ Begins(p, s, r)
                           \/ TurnEnd(p, s) /\ Alive(r, p, s)
                           \/ AgentEnd(p, s) /\ Alive(r, p, s)
                           \/ Shutdown(p, s) /\ Alive(r, p, s)
    \/ \E c \in CallsOf(r, p) : Emit(p, c) \/ Finish(p, c)
    \/ Kill(p)

LEMMA StaysElsewhere ==
  ASSUME NEW p \in Procs, Only(p), NEW r \in Runs
  PROVE  \A q \in Procs : q # p => Stays(r, q)
  BY DEF Only, Stays, Alive, CallsOf, Held, Found, FoundOnce

\* A step of the sessions of p in which no run comes or goes.
LEMMA StaysInSessions ==
  ASSUME NEW p \in Procs, NEW r \in Runs, SameLoading(p), CallsOf(r, p)' = CallsOf(r, p),
         \A s \in Sessions : Alive(r, p, s)' <=> Alive(r, p, s)
  PROVE  Stays(r, p)
  BY DEF SameLoading, Stays, Held, Found, FoundOnce

LEMMA LostKinds ==
  /\ "cleared" \in Lost /\ "raced" \in Lost /\ "replaced" \in Lost /\ "reset" \in Lost
  /\ "not written" \in Lost /\ "refused" \in Lost /\ "first turn" \in Lost
  BY DEF Lost

\* Every step leaves a run where it is, or is one of the few that move it.
LEMMA ApartOrMoves ==
  ASSUME PlacesInv, NEW p \in Procs, Step(p), NEW r \in Runs
  PROVE  Moves(r, p) \/ (Apart(r) /\ (Undisturbed(r, p) \/ Excused(r, Lost)'))
<1> USE DEF PlacesInv
<1> DEFINE Goal == Moves(r, p) \/ (Apart(r) /\ (Undisturbed(r, p) \/ Excused(r, Lost)'))
<1>0. r # 0
  BY ZeroIsNoRun
<1>1. ASSUME Only(p), Stays(r, p), UNCHANGED got, turnsOf'[r] = turnsOf[r],
             \A s \in Sessions : file'[s].id = r => file'[s] = file[s]
      PROVE  Apart(r)
  BY <1>1, StaysElsewhere DEF Apart
<1>2. CASE Load(p) \/ Quit(p)
  <2>1. /\ Only(p) /\ pi'[p].calls = {} /\ pi'[p].held = NotHeld /\ pi'[p].found = <<>>
        /\ \A s \in Sessions : pi'[p].agent[s] = 0
        /\ UNCHANGED <<file, got, turnsOf>>
    BY <1>2, LoadStep, GoneStep DEF Load, Quit
  <2>2. /\ pi[p].calls = {} /\ pi[p].held = NotHeld /\ pi[p].found = <<>>
        /\ \A s \in Sessions : pi[p].agent[s] = 0
    BY <1>2 DEF Load, Quit, Up, Stages
  <2>3. Stays(r, p)
    BY <1>0, <2>1, <2>2 DEF Stays, Alive, CallsOf, Held, NotHeld, NoRun, Found, FoundOnce
  <2>4. Undisturbed(r, p)
    BY <1>0, <2>1, <2>2 DEF Undisturbed, Alive
  <2>5. QED BY <1>1, <2>1, <2>3, <2>4
<1>3. CASE ReadCheckpoint(p)
  <2>1. /\ Only(p) /\ SameSessions(p) /\ pi[p].held = NotHeld /\ pi'[p].found = pi[p].found
        /\ UNCHANGED <<file, got, turnsOf>>
    BY <1>3, ReadStep DEF ReadCheckpoint
  <2>2. ~ Held(r, p)
    BY <1>0, <2>1 DEF Held, NotHeld, NoRun
  <2>3. ~ Held(r, p)' => Stays(r, p)
    BY <2>1, <2>2 DEF SameSessions, Stays, Alive, CallsOf, Found, FoundOnce
  <2>4. Undisturbed(r, p)
    BY <2>1 DEF Undisturbed, SameSessions
  <2>5. QED BY <1>1, <1>3, <2>1, <2>3, <2>4 DEF Moves
<1>4. CASE RemoveCheckpoint(p) /\ ~ Held(r, p)
  <2> DEFINE held == pi[p].held
  <2>1. /\ Only(p) /\ SameSessions(p) /\ pi'[p].held = NotHeld /\ UNCHANGED <<got, turnsOf>>
        /\ file' = [file EXCEPT ![held.session] = NoRun]
        /\ Excuse({file[held.session].id} \ {held.run.id}, "raced") \subseteq excuse'
    BY <1>4, RemoveStep DEF RemoveCheckpoint
  <2>2. ~ Held(r, p)'
    BY <1>0, <2>1 DEF Held, NotHeld, NoRun
  <2>3. /\ Found(r, p)' <=> Found(r, p)
        /\ FoundOnce(r, p) => FoundOnce(r, p)'
        /\ \A f \in ToSet(pi'[p].found) : f.id = r => f \in ToSet(pi[p].found)
    <3>1. CASE pi'[p].found = pi[p].found
      BY <3>1 DEF Found, FoundOnce
    <3>2. CASE pi'[p].found = Append(pi[p].found, held.run) /\ held.run \in Recorded
      <4>1. /\ DOMAIN pi'[p].found = 1..(Len(pi[p].found) + 1) /\ DOMAIN pi[p].found = 1..Len(pi[p].found)
            /\ \A k \in DOMAIN pi[p].found : pi'[p].found[k] = pi[p].found[k]
            /\ pi'[p].found[Len(pi[p].found) + 1] = held.run /\ Len(pi[p].found) \in Nat
        BY <3>2, ProcessTypes
      <4>2. held.run.id # r
        BY <1>4 DEF Held
      <4>3. \A k \in DOMAIN pi'[p].found : pi'[p].found[k].id = r => k \in DOMAIN pi[p].found
        <5>1. \A k \in 1..(Len(pi[p].found) + 1) : k = Len(pi[p].found) + 1 \/ k \in 1..Len(pi[p].found)
          BY <4>1
        <5>2. QED BY <4>1, <4>2, <5>1
      <4>4. \A k \in DOMAIN pi[p].found : k \in DOMAIN pi'[p].found
        BY <4>1
      <4>5. FoundOnce(r, p) => FoundOnce(r, p)'
        BY <4>1, <4>3 DEF FoundOnce
      <4>6. \A f \in ToSet(pi'[p].found) : f.id = r => f \in ToSet(pi[p].found)
        BY <4>1, <4>3 DEF ToSet
      <4>7. ToSet(pi[p].found) \subseteq ToSet(pi'[p].found)
        BY <4>1, <4>4 DEF ToSet
      <4>8. QED BY <4>5, <4>6, <4>7 DEF Found
    <3>3. QED BY <1>4, <3>1, <3>2, RemoveStep
  <2>4. Stays(r, p)
    BY <1>4, <2>1, <2>2, <2>3 DEF SameSessions, Stays, Alive, CallsOf
  <2>5. \A s \in Sessions : file'[s].id = r => file'[s] = file[s]
    BY <1>0, <2>1 DEF TypeOK, NoRun
  <2>6. Undisturbed(r, p) \/ Excused(r, Lost)'
    <3>1. CASE file[held.session].id = r
      <4>1. r \in {file[held.session].id} \ {held.run.id}
        BY <1>4, <3>1 DEF Held
      <4>2. QED BY <2>1, <4>1, ExcusedNow, LostKinds
    <3>2. CASE file[held.session].id # r
      BY <2>1, <3>2 DEF TypeOK, Undisturbed, SameSessions
    <3>3. QED BY <3>1, <3>2
  <2>7. QED BY <1>1, <2>1, <2>4, <2>5, <2>6
<1>5. CASE Recover(p) /\ Head(pi[p].found).id # r
  <2>1. /\ Only(p) /\ SameSessions(p) /\ pi'[p].held = pi[p].held /\ UNCHANGED <<file, turnsOf>>
        /\ pi[p].found # <<>> /\ pi'[p].found = Tail(pi[p].found) /\ Head(pi[p].found) \in Recorded
    BY <1>5, RecoverStep DEF Recover
  <2>2. got'[r] = got[r]
    <3>1. PICK times \in 0..2 : Taken(Head(pi[p].found), times)
      BY <1>5 DEF Recover
    <3>2. QED BY <1>5, <2>1, <3>1, TakenTypes
  <2>3. /\ Found(r, p)' <=> Found(r, p)
        /\ FoundOnce(r, p) => FoundOnce(r, p)'
        /\ \A f \in ToSet(pi'[p].found) : f.id = r => f \in ToSet(pi[p].found)
    <3>1. /\ Len(pi[p].found) \in Nat /\ DOMAIN pi[p].found = 1..Len(pi[p].found)
          /\ DOMAIN pi'[p].found = 1..(Len(pi[p].found) - 1)
          /\ \A k \in DOMAIN pi'[p].found : pi'[p].found[k] = pi[p].found[k + 1]
          /\ pi[p].found[1].id # r
      BY <1>5, <2>1, ProcessTypes
    <3>2. \A k \in DOMAIN pi'[p].found : k + 1 \in DOMAIN pi[p].found
      BY <3>1
    <3>3. \A k \in DOMAIN pi[p].found :
            pi[p].found[k].id = r => k - 1 \in DOMAIN pi'[p].found /\ pi'[p].found[k - 1] = pi[p].found[k]
      <4> SUFFICES ASSUME NEW k \in DOMAIN pi[p].found, pi[p].found[k].id = r
                   PROVE  k - 1 \in DOMAIN pi'[p].found /\ pi'[p].found[k - 1] = pi[p].found[k]
        OBVIOUS
      <4>1. k # 1 /\ k \in 1..Len(pi[p].found)
        BY <3>1
      <4>2. k - 1 \in DOMAIN pi'[p].found /\ (k - 1) + 1 = k
        BY <3>1, <4>1
      <4>3. QED BY <3>1, <4>2
    <3>4. FoundOnce(r, p) => FoundOnce(r, p)'
      <4> SUFFICES ASSUME FoundOnce(r, p), NEW j \in DOMAIN pi'[p].found, NEW k \in DOMAIN pi'[p].found,
                          pi'[p].found[j].id = r, pi'[p].found[k].id = r
                   PROVE  j = k
        BY DEF FoundOnce
      <4>1. j + 1 = k + 1
        BY <3>1, <3>2 DEF FoundOnce
      <4>2. QED BY <3>1, <4>1
    <3>5. ToSet(pi'[p].found) \subseteq ToSet(pi[p].found)
      BY <3>1, <3>2 DEF ToSet
    <3>6. \A f \in ToSet(pi[p].found) : f.id = r => f \in ToSet(pi'[p].found)
      BY <3>3 DEF ToSet
    <3>7. QED BY <3>4, <3>5, <3>6 DEF Found
  <2>4. Stays(r, p)
    BY <2>1, <2>3 DEF SameSessions, Stays, Alive, CallsOf, Held
  <2>5. Undisturbed(r, p)
    BY <2>1 DEF Undisturbed, SameSessions
  <2>6. QED BY <2>1, <2>2, <2>4, <2>5, StaysElsewhere DEF Apart
<1>6. CASE Loaded(p)
  <2>1. /\ Only(p) /\ SameSessions(p) /\ pi'[p].held = pi[p].held /\ pi'[p].found = pi[p].found
        /\ UNCHANGED <<file, got, turnsOf>>
    BY <1>6, LoadedStep DEF Loaded
  <2>2. Stays(r, p) /\ Undisturbed(r, p)
    BY <2>1 DEF SameSessions, Stays, Alive, CallsOf, Held, Found, FoundOnce, Undisturbed
  <2>3. QED BY <1>1, <2>1, <2>2
\* A step of session s that keeps who is alive in it, and the handlers.
<1>7. ASSUME NEW s \in Sessions, OnlySession(p, s), Alive(r, p, s)' <=> Alive(r, p, s),
             CallsOf(r, p)' = CallsOf(r, p)
      PROVE  Only(p) /\ Stays(r, p)
  BY <1>7, StaysInSessions DEF OnlySession, Alive
<1>8. ASSUME NEW s \in Sessions, OnlySession(p, s), UNCHANGED file,
             Alive(r, p, s) /\ pi[p].state[s].run.id = r => pi'[p].state[s].run = pi[p].state[s].run
      PROVE  Undisturbed(r, p)
  BY <1>8 DEF OnlySession, Undisturbed
<1>9. ASSUME NEW s \in Sessions, SessionStart(p, s) PROVE Goal
  <2>1. /\ OnlySession(p, s) /\ pi[p].agent[s] = 0 /\ pi'[p].agent[s] = 0 /\ pi'[p].calls = pi[p].calls
        /\ UNCHANGED <<file, got, turnsOf>>
    BY <1>9, SessionStartStep DEF SessionStart
  <2>2. ~ Alive(r, p, s) /\ ~ Alive(r, p, s)' /\ CallsOf(r, p)' = CallsOf(r, p)
    BY <1>0, <2>1 DEF Alive, CallsOf
  <2>3. QED BY <1>1, <1>7, <1>8, <2>1, <2>2
<1>10. ASSUME NEW s \in Sessions, BeforeAgentStart(p, s) PROVE Goal
  <2>0. PICK r0 \in Runs : Begins(p, s, r0)
    BY <1>10, BeforeAgentStartStep
  <2>1. /\ OnlySession(p, s) /\ pi[p].agent[s] = 0 /\ pi'[p].calls = pi[p].calls /\ UNCHANGED <<file, got>>
        /\ pi'[p].agent[s] = r0
    BY <1>10, <2>0, BeforeAgentStartStep DEF Begins
  <2>2. CASE r0 = r
    BY <1>10, <2>0, <2>2 DEF Moves
  <2>3. CASE r0 # r
    <3>1. ~ Alive(r, p, s) /\ ~ Alive(r, p, s)' /\ CallsOf(r, p)' = CallsOf(r, p)
      BY <1>0, <2>1, <2>3 DEF Alive, CallsOf
    <3>2. turnsOf'[r] = turnsOf[r]
      BY <2>0, <2>3 DEF Begins, TypeOK
    <3>3. QED BY <1>1, <1>7, <1>8, <2>1, <3>1, <3>2
  <2>4. QED BY <2>2, <2>3
<1>11. ASSUME NEW s \in Sessions, AgentStart(p, s) PROVE Goal
  <2>1. /\ OnlySession(p, s) /\ pi'[p].agent[s] = pi[p].agent[s] /\ pi'[p].calls = pi[p].calls
        /\ pi'[p].state[s] = [pi[p].state[s] EXCEPT !.run = RunOrNew(pi[p].state[s].run, pi[p].agent[s])]
        /\ UNCHANGED <<file, got, turnsOf>>
    BY <1>11, AgentStartStep DEF AgentStart
  <2>2. (Alive(r, p, s)' <=> Alive(r, p, s)) /\ CallsOf(r, p)' = CallsOf(r, p)
    BY <2>1 DEF Alive, CallsOf
  <2>3. Alive(r, p, s) /\ pi[p].state[s].run.id = r => pi'[p].state[s].run = pi[p].state[s].run
    <3> SUFFICES ASSUME Alive(r, p, s), pi[p].state[s].run.id = r PROVE pi'[p].state[s].run = pi[p].state[s].run
      OBVIOUS
    <3>1. pi[p].state[s].run # NoRun /\ ~ pi[p].state[s].run.emitted
      BY <1>0 DEF StateOfAgent, Alive, NoRun
    <3>2. QED BY <2>1, <3>1, ProcessTypes DEF RunOrNew, SessionState
  <2>4. QED BY <1>1, <1>7, <1>8, <2>1, <2>2, <2>3
<1>12. ASSUME NEW s \in Sessions, TurnEnd(p, s) PROVE Goal
  <2> DEFINE run == [pi[p].state[s].run EXCEPT !.turns = @ + 1]
  <2>1. /\ OnlySession(p, s) /\ pi[p].agent[s] \in Runs /\ pi'[p].agent[s] = pi[p].agent[s]
        /\ pi'[p].calls = pi[p].calls /\ UNCHANGED got
        /\ turnsOf' = [turnsOf EXCEPT ![pi[p].agent[s]] = @ + 1]
    BY <1>12, TurnEndStep, TurnEndFile
  <2>2. CASE Alive(r, p, s)
    BY <1>12, <2>2 DEF Moves
  <2>3. CASE ~ Alive(r, p, s)
    <3>1. ~ Alive(r, p, s)' /\ CallsOf(r, p)' = CallsOf(r, p) /\ turnsOf'[r] = turnsOf[r]
      BY <2>1, <2>3 DEF Alive, CallsOf, TypeOK
    <3>2. Only(p) /\ Stays(r, p)
      BY <1>7, <2>1, <2>3, <3>1
    <3>3. CASE UNCHANGED file
      BY <1>1, <1>8, <2>1, <2>3, <3>1, <3>2, <3>3
    <3>4. CASE /\ run \in Recorded /\ pi[p].state[s].run # NoRun /\ Write(s, run)
               /\ Excuse(Replaced(s, run.id), "replaced") \subseteq excuse'
      <4>1. run.id # r
        <5>1. pi[p].state[s].run \in Recorded /\ pi[p].state[s].run.id = pi[p].agent[s]
          BY <2>1, <3>4, ZeroIsNoRun, ProcessTypes DEF StateOfAgent
        <5>2. QED BY <2>3, <5>1 DEF Recorded, Alive
      <4>2. file'[s].id = run.id /\ \A t \in Sessions : t # s => file'[t] = file[t]
        BY <3>4, WrittenTypes
      <4>3. CASE file[s].id = r
        <5>1. r \in Replaced(s, run.id)
          BY <1>0, <4>1, <4>3 DEF Replaced
        <5>2. Excused(r, Lost)'
          BY <3>4, <5>1, ExcusedNow, LostKinds
        <5>3. QED BY <1>1, <2>1, <3>1, <3>2, <4>1, <4>2, <5>2
      <4>4. CASE file[s].id # r
        <5>1. Undisturbed(r, p)
          BY <2>1, <2>3, <4>2, <4>4 DEF Undisturbed, OnlySession
        <5>2. QED BY <1>1, <2>1, <3>1, <3>2, <4>1, <4>2, <5>1
      <4>5. QED BY <4>3, <4>4
    <3>5. QED BY <1>12, <3>3, <3>4, TurnEndFile
  <2>4. QED BY <2>2, <2>3
\* The run that is handed on is not r.
<1>13. ASSUME NEW s \in Sessions, NEW kind \in {"end", "shutdown"}, Ends(p, s, kind), ~ Alive(r, p, s)
       PROVE  OnlySession(p, s) /\ Stays(r, p)
  <2>1. CASE pi[p].state[s].run # NoRun /\ ~ pi[p].state[s].run.emitted /\ pi' = Emitting(p, s, kind)
    <3>0. PICK call \in Handler : call = Call(s, kind, pi[p].state[s])
      BY <2>1, EmittingStep
    <3>1. /\ OnlySession(p, s) /\ pi'[p].agent[s] = 0 /\ pi'[p].calls = pi[p].calls \cup {call}
          /\ pi[p].state[s].run \in Recorded
      BY <2>1, <3>0, EmittingStep
    <3>2. call.run.id = pi[p].agent[s]
      BY <2>1, <3>0, <3>1, OwnerEmits DEF Call, Recorded
    <3>3. call.run.id # r /\ ~ Alive(r, p, s)'
      BY <1>0, <1>13, <3>1, <3>2 DEF Alive
    <3>4. CallsOf(r, p)' = CallsOf(r, p)
      BY <3>1, <3>3 DEF CallsOf
    <3>5. QED BY <1>7, <1>13, <3>1, <3>3, <3>4
  <2>2. CASE pi' = [pi EXCEPT ![p].agent[s] = 0, ![p].state[s] = NoState]
    <3>1. OnlySession(p, s) /\ pi'[p].agent[s] = 0 /\ pi'[p].calls = pi[p].calls
      BY <2>2, DroppingStep
    <3>2. ~ Alive(r, p, s)' /\ CallsOf(r, p)' = CallsOf(r, p)
      BY <1>0, <3>1 DEF Alive, CallsOf
    <3>3. QED BY <1>7, <1>13, <3>1, <3>2
  <2>3. QED BY <1>13, <2>1, <2>2 DEF Ends
<1>14. ASSUME NEW s \in Sessions, AgentEnd(p, s) PROVE Goal
  <2>1. CASE Alive(r, p, s)
    BY <1>14, <2>1 DEF Moves
  <2>2. CASE ~ Alive(r, p, s)
    <3>1. /\ pi[p].agent[s] # 0 /\ Clear(s) /\ Ends(p, s, "end") /\ UNCHANGED <<turnsOf, got>>
          /\ Excuse(Replaced(s, pi[p].state[s].run.id), "replaced") \subseteq excuse'
      BY <1>14, EndStep
    <3>2. OnlySession(p, s) /\ Only(p) /\ Stays(r, p)
      BY <1>13, <2>2, <3>1 DEF OnlySession
    <3>3. file'[s].id # r /\ \A t \in Sessions : t # s => file'[t] = file[t]
      BY <1>0, <3>1, ClearedTypes DEF NoRun
    <3>4. Apart(r)
      BY <1>1, <3>1, <3>2, <3>3
    <3>5. CASE file[s].id = r
      <4>1. pi[p].state[s].run.id # r
        BY <1>0, <2>2, <3>1 DEF StateOfAgent, Alive, NoRun
      <4>2. r \in Replaced(s, pi[p].state[s].run.id)
        BY <1>0, <3>5, <4>1 DEF Replaced
      <4>3. QED BY <3>1, <3>4, <4>2, ExcusedNow, LostKinds
    <3>6. CASE file[s].id # r
      BY <2>2, <3>2, <3>3, <3>4, <3>6 DEF Undisturbed, OnlySession
    <3>7. QED BY <3>5, <3>6
  <2>3. QED BY <2>1, <2>2
<1>15. ASSUME NEW s \in Sessions, Shutdown(p, s) PROVE Goal
  <2>1. CASE Alive(r, p, s)
    BY <1>15, <2>1 DEF Moves
  <2>2. CASE ~ Alive(r, p, s)
    <3>1. Ends(p, s, "shutdown") /\ UNCHANGED <<file, turnsOf, got>>
      BY <1>15, ShutdownStep
    <3>2. OnlySession(p, s) /\ Only(p) /\ Stays(r, p)
      BY <1>13, <2>2, <3>1 DEF OnlySession
    <3>3. QED BY <1>1, <1>8, <2>2, <3>1, <3>2
  <2>3. QED BY <2>1, <2>2
<1>16. ASSUME NEW c \in pi[p].calls, Emit(p, c) PROVE Goal
  <2>1. CASE c.run.id = r
    BY <1>16, <2>1 DEF Moves, CallsOf
  <2>2. CASE c.run.id # r
    <3> DEFINE sent == [c EXCEPT !.sent = TRUE]
    <3>1. /\ Only(p) /\ SameLoading(p) /\ c \in Handler /\ pi'[p].agent = pi[p].agent /\ pi'[p].state = pi[p].state
          /\ pi'[p].calls = (pi[p].calls \ {c}) \cup {sent} /\ UNCHANGED <<file, turnsOf>>
      BY <1>16, EmitStep DEF Emit
    <3>2. sent.run.id # r
      BY <2>2, <3>1 DEF Handler
    <3> HIDE DEF sent
    <3>3. CallsOf(r, p)' = CallsOf(r, p)
      BY <2>2, <3>1, <3>2 DEF CallsOf
    <3>4. Stays(r, p)
      BY <3>1, <3>3, StaysInSessions DEF Alive
    <3>5. got'[r] = got[r]
      <4>1. PICK times \in 0..2 : Taken(c.run, times)
        BY <1>16 DEF Emit
      <4>2. c.run \in Recorded
        BY <3>1 DEF Handler
      <4>3. QED BY <2>2, <4>1, <4>2, TakenTypes
    <3>6. Undisturbed(r, p)
      BY <3>1 DEF Undisturbed
    <3>7. QED BY <3>1, <3>4, <3>5, <3>6, StaysElsewhere DEF Apart
  <2>3. QED BY <2>1, <2>2
<1>17. ASSUME NEW c \in pi[p].calls, Finish(p, c) PROVE Goal
  <2>1. CASE c.run.id = r
    BY <1>17, <2>1 DEF Moves, CallsOf
  <2>2. CASE c.run.id # r
    <3> DEFINE s == c.session
    <3>1. /\ OnlySession(p, s) /\ s \in Sessions /\ pi'[p].agent = pi[p].agent /\ pi'[p].calls = pi[p].calls \ {c}
      BY <1>17, FinishStep
    <3>2. /\ UNCHANGED <<turnsOf, got>>
          /\ IF c.kind = "shutdown" THEN Clear(s) ELSE UNCHANGED file
          /\ Excuse(IF pi[p].state[s].run.emitted THEN {} ELSE {pi[p].state[s].run.id}, "reset") \subseteq excuse'
          /\ c.kind = "shutdown" => Excuse(Replaced(s, c.run.id), "replaced") \subseteq excuse'
      BY <1>17 DEF Finish
    <3> HIDE DEF s
    <3>3. (Alive(r, p, s)' <=> Alive(r, p, s)) /\ CallsOf(r, p)' = CallsOf(r, p)
      BY <2>2, <3>1 DEF Alive, CallsOf
    <3>4. Only(p) /\ Stays(r, p)
      BY <1>7, <3>1, <3>3
    <3>5. \A t \in Sessions : \/ file'[t] = file[t]
                              \/ t = s /\ file'[t].id = 0 /\ c.kind = "shutdown"
      BY <3>1, <3>2, ClearedTypes DEF NoRun
    <3>6. Apart(r)
      BY <1>0, <1>1, <3>2, <3>4, <3>5
    <3>7. CASE Alive(r, p, s) /\ pi[p].state[s].run.id = r
      <4>1. ~ pi[p].state[s].run.emitted
        BY <1>0, <3>1, <3>7 DEF StateOfAgent, Alive, NoRun
      <4>2. Excuse({r}, "reset") \subseteq excuse'
        BY <3>2, <3>7, <4>1
      <4>3. QED BY <3>6, <4>2, ExcusedNow, LostKinds
    <3>8. CASE file[s].id = r /\ c.kind = "shutdown"
      <4>1. r \in Replaced(s, c.run.id)
        BY <1>0, <2>2, <3>8 DEF Replaced
      <4>2. QED BY <3>2, <3>6, <3>8, <4>1, ExcusedNow, LostKinds
    <3>9. CASE ~ (Alive(r, p, s) /\ pi[p].state[s].run.id = r) /\ ~ (file[s].id = r /\ c.kind = "shutdown")
      <4>1. Undisturbed(r, p)
        BY <3>1, <3>5, <3>9 DEF Undisturbed, OnlySession
      <4>2. QED BY <3>6, <4>1
    <3>10. QED BY <3>7, <3>8, <3>9
  <2>3. QED BY <2>1, <2>2
<1>18. CASE Kill(p) \/ (RemoveCheckpoint(p) /\ Held(r, p)) \/ (Recover(p) /\ Head(pi[p].found).id = r)
  BY <1>18 DEF Moves
<1>19. QED
  BY <1>2, <1>3, <1>4, <1>5, <1>6, <1>9, <1>10, <1>11, <1>12, <1>14, <1>15, <1>16, <1>17, <1>18 DEF Step

-----------------------------------------------------------------------------
(* A run is one trace, unless it is excused.                               *)

Nowhere(r, p) ==
    ~ Held(r, p) /\ ~ Found(r, p) /\ CallsOf(r, p) = {} /\ \A s \in Sessions : ~ Alive(r, p, s)

\* A run that no other process has in hand.
LEMMA NotInHand ==
  ASSUME TypeOK, NEW p \in Procs, NEW r \in Runs, r \notin InHand(p)
  PROVE  \A q \in Procs : q # p => Nowhere(r, q)
<1> SUFFICES ASSUME NEW q \in Procs, q # p PROVE Nowhere(r, q)
  OBVIOUS
<1>1. r \notin InHandOf(q)
  BY DEF InHand
<1>2. QED BY <1>1 DEF InHandOf, Nowhere, Held, Found, CallsOf, Alive

\* A run that did not begin, and one that is not in its checkpoint's session.
LEMMA FreshIsNowhere ==
  ASSUME PlacesInv, NEW r \in Runs, turnsOf[r] = -1
  PROVE  got[r] = <<>> /\ NoFile(r) /\ \A q \in Procs : Nowhere(r, q)
<1>1. /\ got[r] = <<>> /\ \A q \in Procs : ~ Found(r, q)
  BY DEF PlacesInv, FreshNowhere
<1>2. \A s \in Sessions : ~ Home(r, s)
  BY DEF PlacesInv, FreshNowhere
<1>3. NoFile(r)
  BY <1>2 DEF Home, NoFile
<1>4. ASSUME NEW q \in Procs PROVE ~ Held(r, q) /\ CallsOf(r, q) = {} /\ \A s \in Sessions : ~ Alive(r, q, s)
  BY <1>2, ProcessTypes, ZeroIsNoRun DEF PlacesInv, Home, AtProcess, Held, CallsOf, Alive, Handler, NoRun
<1>5. QED BY <1>1, <1>3, <1>4 DEF Nowhere

LEMMA OnlyAtHome ==
  ASSUME OneHome, NEW r \in Runs, NEW s \in Sessions, Home(r, s)
  PROVE  \A t \in Sessions : t # s => file[t].id # r
  BY DEF OneHome, Home

\* A handler is alone with its run, and so is an agent.
LEMMA OneHandler ==
  ASSUME OneOwner, NEW p \in Procs, NEW r \in Runs, NEW c \in CallsOf(r, p)
  PROVE  /\ CallsOf(r, p) = {c} /\ \A q \in Procs : q # p => CallsOf(r, q) = {}
         /\ \A q \in Procs : \A s \in Sessions : ~ Alive(r, q, s)
  BY DEF OneOwner, CallsOf

LEMMA OneAgent ==
  ASSUME OneOwner, NEW p \in Procs, NEW s \in Sessions, NEW r \in Runs, Alive(r, p, s)
  PROVE  /\ \A q \in Procs : CallsOf(r, q) = {}
         /\ \A q \in Procs : \A t \in Sessions : Alive(r, q, t) => q = p /\ t = s
  BY DEF OneOwner, CallsOf

\* A step that leaves a run apart leaves it in one hand.
LEMMA OnceApart ==
  ASSUME NEW r \in Runs, Once(r), Apart(r)
  PROVE  Once(r)'
<1>1. NoFile(r) => NoFile(r)'
  BY DEF Apart, NoFile
<1>2. \A q \in Procs : /\ Held(r, q)' <=> Held(r, q)
                       /\ Found(r, q)' <=> Found(r, q)
                       /\ FoundOnce(r, q) => FoundOnce(r, q)'
                       /\ CallsOf(r, q)' = CallsOf(r, q)
                       /\ \A s \in Sessions : Alive(r, q, s)' <=> Alive(r, q, s)
  BY DEF Apart, Stays
<1>3. got'[r] = got[r]
  BY DEF Apart
<1>4. QED BY <1>1, <1>2, <1>3 DEF Once

LEMMA NotFoundOnce ==
  ASSUME NEW r, NEW p, ~ Found(r, p) PROVE FoundOnce(r, p)
  BY DEF Found, FoundOnce, ToSet

\* It is only in a checkpoint, an agent or a handler that did not send it.
LEMMA OnceInMemory ==
  ASSUME NEW r \in Runs, got[r] = <<>>,
         \A q \in Procs : ~ Held(r, q) /\ ~ Found(r, q) /\ \A c \in CallsOf(r, q) : c.kind = "end" => NoFile(r)
  PROVE  Once(r)
<1>1. Len(got[r]) <= 1
  OBVIOUS
<1>2. QED BY <1>1, NotFoundOnce DEF Once

\* What is known of a run that an agent or a handler has, and of one that is recovered.
LEMMA OnceOwned ==
  ASSUME NEW r \in Runs, Once(r), NEW p \in Procs, CallsOf(r, p) # {} \/ \E s \in Sessions : Alive(r, p, s)
  PROVE  \A q \in Procs : ~ Held(r, q) /\ ~ Found(r, q)
  BY DEF Once

LEMMA OnceFound ==
  ASSUME NEW r \in Runs, Once(r), NEW p \in Procs, Held(r, p) \/ Found(r, p)
  PROVE  /\ got[r] = <<>>
         /\ \A q \in Procs : /\ CallsOf(r, q) = {} /\ \A s \in Sessions : ~ Alive(r, q, s)
                             /\ q # p => ~ Held(r, q) /\ ~ Found(r, q)
  BY DEF Once

LEMMA OneTaken ==
  ASSUME TypeOK, NEW run \in Recorded, got[run.id] = <<>>, NEW times \in 0..2,
         Taken(run, times), DeliveryExcuse(run, times), ~ Excused(run.id, Twice)'
  PROVE  Len(got'[run.id]) <= 1
<1>1. Len(got'[run.id]) = Len(got[run.id]) + times
  BY TakenTypes
<1>2. times # 2
  <2> SUFFICES ASSUME times = 2 PROVE FALSE
    OBVIOUS
  <2>0. times # 0 /\ times # 1
    OBVIOUS
  <2>1. excuse' = excuse \cup {<<run.id, "answer lost">>}
    BY Zenon, <2>0 DEF DeliveryExcuse
  <2>2. "answer lost" \in Twice
    BY DEF Twice
  <2>3. QED BY <2>1, <2>2 DEF Excused
<1>3. QED BY <1>1, <1>2

\* Whoever passes a run on lets go of it, so that the next has it alone.
LEMMA OnceKept ==
  ASSUME PlacesInv, OnceInv, NEW p \in Procs, Step(p)
  PROVE  OnceInv'
<1> USE DEF PlacesInv
<1> SUFFICES ASSUME NEW r \in Runs, ~ Excused(r, Twice)' PROVE Once(r)'
  BY DEF OnceInv, Twice
<1>0. Once(r) /\ r # 0
  BY ExcuseGrows, ExcusedStays, ZeroIsNoRun DEF OnceInv
<1>1. CASE Apart(r)
  BY <1>0, <1>1, OnceApart
<1>2. CASE ReadCheckpoint(p) /\ Held(r, p)'
  <2>1. PICK s \in Sessions : /\ pi'[p].held = [session |-> s, run |-> file[s]]
                              /\ excuse' = excuse \cup Excuse({file[s].id} \cap InHand(p), "raced")
    BY <1>2, ReadStep, ProcessTypes DEF Process
  <2>2. /\ Only(p) /\ SameSessions(p) /\ pi[p].stage = "loading" /\ pi[p].held = NotHeld
        /\ pi'[p].found = pi[p].found /\ UNCHANGED got
    BY <1>2, ReadStep DEF ReadCheckpoint
  <2>3. file[s].id = r
    BY <1>2, <2>1 DEF Held
  <2>4. r \notin InHand(p)
    <3> SUFFICES ASSUME r \in InHand(p) PROVE FALSE
      OBVIOUS
    <3>1. r \in {file[s].id} \cap InHand(p) /\ Excuse({file[s].id} \cap InHand(p), "raced") \subseteq excuse'
      BY <2>1, <2>3
    <3>2. "raced" \in Twice
      BY DEF Twice
    <3>3. QED BY <3>1, <3>2, ExcusedNow
  <2>5. \A q \in Procs : q # p => Nowhere(r, q)
    BY <2>4, NotInHand
  <2>6. ~ Found(r, p) /\ CallsOf(r, p) = {} /\ \A t \in Sessions : ~ Alive(r, p, t)
    <3>1. ~ NoFile(r)
      BY <2>3 DEF NoFile
    <3>2. ~ Found(r, p)
      BY <1>0, <3>1 DEF Once
    <3>3. QED BY <1>0, <2>2, <3>2 DEF Stages, CallsOf, Alive
  <2>7. got[r] = <<>>
    BY <1>0, <2>3, <2>5, <2>6 DEF Once, Nowhere, NoFile
  <2>8. \A q \in Procs : /\ ~ Found(r, q)' /\ CallsOf(r, q)' = {} /\ \A t \in Sessions : ~ Alive(r, q, t)'
                         /\ Held(r, q)' => q = p
    <3>1. ~ Found(r, p)' /\ CallsOf(r, p)' = {} /\ \A t \in Sessions : ~ Alive(r, p, t)'
      BY <2>2, <2>6 DEF SameSessions, Found, CallsOf, Alive
    <3>2. \A q \in Procs : q # p => /\ ~ Found(r, q)' /\ CallsOf(r, q)' = {} /\ ~ Held(r, q)'
                                    /\ \A t \in Sessions : ~ Alive(r, q, t)'
      BY <2>2, <2>5, StaysElsewhere DEF Stays, Nowhere
    <3>3. QED BY <3>1, <3>2
  <2>9. /\ got'[r] = <<>> /\ Len(got'[r]) <= 1
    BY <2>2, <2>7
  <2>10. \A q \in Procs : FoundOnce(r, q)'
    BY <2>8 DEF Found, FoundOnce, ToSet
  <2>11. QED BY <2>8, <2>9, <2>10 DEF Once
<1>3. CASE RemoveCheckpoint(p) /\ Held(r, p)
  <2> DEFINE held == pi[p].held
  <2>1. /\ Only(p) /\ SameSessions(p) /\ pi'[p].held = NotHeld /\ UNCHANGED got
        /\ file' = [file EXCEPT ![held.session] = NoRun]
        /\ pi'[p].found = IF held.run = NoRun THEN pi[p].found ELSE Append(pi[p].found, held.run)
    BY <1>3, RemoveStep DEF RemoveCheckpoint
  <2>2. held.run # NoRun /\ held.run \in Recorded /\ held.session \in Sessions
    BY <1>0, <1>3, ProcessTypes DEF Held, NoRun
  <2>3. /\ got[r] = <<>>
        /\ \A q \in Procs : /\ CallsOf(r, q) = {} /\ \A s \in Sessions : ~ Alive(r, q, s)
                            /\ q # p => ~ Held(r, q) /\ ~ Found(r, q)
    BY <1>0, <1>3, OnceFound
  <2>4. ~ Found(r, p)
    BY <1>0, <1>3 DEF Once
  <2>5. ~ Held(r, p)' /\ FoundOnce(r, p)'
    <3>1. ~ Held(r, p)'
      BY <1>0, <2>1 DEF Held, NotHeld, NoRun
    <3>2. /\ DOMAIN pi'[p].found = 1..(Len(pi[p].found) + 1) /\ DOMAIN pi[p].found = 1..Len(pi[p].found)
          /\ \A k \in DOMAIN pi[p].found : pi'[p].found[k] = pi[p].found[k]
          /\ Len(pi[p].found) \in Nat
      BY <2>1, <2>2, ProcessTypes
    <3>3. \A k \in DOMAIN pi[p].found : pi[p].found[k].id # r
      BY <2>4 DEF Found, ToSet
    <3>4. \A k \in DOMAIN pi'[p].found : pi'[p].found[k].id = r => k = Len(pi[p].found) + 1
      BY <3>2, <3>3
    <3>5. QED BY <3>1, <3>4 DEF FoundOnce
  <2>6. NoFile(r)'
    <3>1. Home(r, held.session)
      BY <1>3, <2>2 DEF Home, AtProcess
    <3>2. QED BY <1>0, <2>1, <2>2, <3>1, OnlyAtHome DEF TypeOK, NoFile, NoRun
  <2>7. \A q \in Procs : q # p => /\ ~ Found(r, q)' /\ ~ Held(r, q)' /\ CallsOf(r, q)' = {}
                                  /\ \A s \in Sessions : ~ Alive(r, q, s)'
    BY <2>1, <2>3, StaysElsewhere DEF Stays
  <2>8. CallsOf(r, p)' = {} /\ \A s \in Sessions : ~ Alive(r, p, s)'
    BY <2>1, <2>3 DEF SameSessions, CallsOf, Alive
  <2>9. \A q \in Procs : FoundOnce(r, q)'
    BY <2>5, <2>7 DEF Found, FoundOnce, ToSet
  <2>10. got'[r] = <<>> /\ Len(got'[r]) <= 1
    BY <2>1, <2>3
  <2>11. QED BY <2>5, <2>6, <2>7, <2>8, <2>9, <2>10 DEF Once
<1>4. CASE Recover(p) /\ Head(pi[p].found).id = r
  <2> DEFINE f == Head(pi[p].found)
  <2>1. /\ Only(p) /\ SameSessions(p) /\ pi'[p].held = pi[p].held /\ UNCHANGED file
        /\ pi[p].found # <<>> /\ pi'[p].found = Tail(pi[p].found) /\ f \in Recorded
    BY <1>4, RecoverStep DEF Recover
  <2>2. /\ Len(pi[p].found) \in Nat /\ DOMAIN pi[p].found = 1..Len(pi[p].found)
        /\ DOMAIN pi'[p].found = 1..(Len(pi[p].found) - 1) /\ Len(pi[p].found) >= 1
        /\ \A k \in DOMAIN pi'[p].found : pi'[p].found[k] = pi[p].found[k + 1]
        /\ pi[p].found[1].id = r
    BY <1>4, <2>1, ProcessTypes
  <2>3. Found(r, p)
    BY <2>2 DEF Found, ToSet
  <2>4. /\ got[r] = <<>>
        /\ \A q \in Procs : /\ CallsOf(r, q) = {} /\ \A s \in Sessions : ~ Alive(r, q, s)
                            /\ q # p => ~ Held(r, q) /\ ~ Found(r, q)
    BY <1>0, <2>3, OnceFound
  <2>5. FoundOnce(r, p) /\ NoFile(r) /\ ~ Held(r, p)
    BY <1>0, <2>3 DEF Once
  <2>6. ~ Found(r, p)'
    <3> SUFFICES ASSUME NEW k \in DOMAIN pi'[p].found, pi'[p].found[k].id = r PROVE FALSE
      BY DEF Found, ToSet
    <3>1. k + 1 \in DOMAIN pi[p].found /\ pi[p].found[k + 1].id = r /\ 1 \in DOMAIN pi[p].found /\ k >= 1
      BY <2>2
    <3>2. k + 1 = 1
      BY <2>2, <2>5, <3>1 DEF FoundOnce
    <3>3. QED BY <2>2, <3>1, <3>2
  <2>7. Len(got'[r]) <= 1
    <3>1. PICK times \in 0..2 : Taken(f, times) /\ DeliveryExcuse(f, times)
      BY <1>4 DEF Recover
    <3>2. QED BY <1>4, <2>1, <2>4, <3>1, OneTaken
  <2>8. \A q \in Procs : q # p => /\ ~ Found(r, q)' /\ ~ Held(r, q)' /\ CallsOf(r, q)' = {}
                                  /\ \A s \in Sessions : ~ Alive(r, q, s)'
    BY <2>1, <2>4, StaysElsewhere DEF Stays
  <2>9. ~ Held(r, p)' /\ CallsOf(r, p)' = {} /\ \A s \in Sessions : ~ Alive(r, p, s)'
    BY <2>1, <2>4, <2>5 DEF SameSessions, CallsOf, Alive, Held
  <2>10. NoFile(r)'
    BY <2>1, <2>5 DEF NoFile
  <2>11. \A q \in Procs : FoundOnce(r, q)'
    BY <2>6, <2>8 DEF Found, FoundOnce, ToSet
  <2>12. QED BY <2>6, <2>7, <2>8, <2>9, <2>10, <2>11 DEF Once
\* While an agent or an unsent handler has the run, nobody else does.
<1>5. ASSUME Only(p), SameLoading(p), UNCHANGED got, got[r] = <<>>,
             \A q \in Procs : ~ Held(r, q) /\ ~ Found(r, q) /\ (q # p => CallsOf(r, q) = {}),
             \A c \in CallsOf(r, p)' : c.kind = "end" => NoFile(r)'
      PROVE  Once(r)'
  <2>1. \A q \in Procs : q # p => ~ Held(r, q)' /\ ~ Found(r, q)' /\ CallsOf(r, q)' = {}
    BY <1>5, StaysElsewhere DEF Stays
  <2>2. ~ Held(r, p)' /\ ~ Found(r, p)'
    BY <1>5 DEF SameLoading, Held, Found
  <2>3. \A q \in Procs : FoundOnce(r, q)'
    BY <2>1, <2>2 DEF Found, FoundOnce, ToSet
  <2>4. got'[r] = <<>> /\ Len(got'[r]) <= 1
    BY <1>5
  <2>5. QED BY <1>5, <2>1, <2>2, <2>3, <2>4 DEF Once
<1>6. ASSUME NEW s \in Sessions, BeforeAgentStart(p, s), Begins(p, s, r) PROVE Once(r)'
  <2>1. Only(p) /\ SameLoading(p) /\ UNCHANGED got /\ pi'[p].calls = pi[p].calls
    BY <1>6, BeforeAgentStartStep DEF OnlySession
  <2>2. got[r] = <<>> /\ \A q \in Procs : ~ Held(r, q) /\ ~ Found(r, q) /\ CallsOf(r, q) = {}
    BY <1>6, FreshIsNowhere DEF Begins, Nowhere
  <2>3. CallsOf(r, p)' = {}
    BY <2>1, <2>2 DEF CallsOf
  <2>4. QED BY <1>5, <2>1, <2>2, <2>3
\* A run whose agent is at work.
<1>7. ASSUME NEW s \in Sessions, Alive(r, p, s)
      PROVE  got[r] = <<>> /\ \A q \in Procs : ~ Held(r, q) /\ ~ Found(r, q) /\ CallsOf(r, q) = {}
  BY <1>0, <1>7, OneAgent, OnceOwned DEF Once
<1>8. ASSUME NEW s \in Sessions, TurnEnd(p, s), Alive(r, p, s) PROVE Once(r)'
  <2>1. Only(p) /\ SameLoading(p) /\ UNCHANGED got /\ pi'[p].calls = pi[p].calls
    BY <1>8, TurnEndStep, TurnEndFile DEF OnlySession
  <2>2. CallsOf(r, p)' = {}
    BY <1>7, <1>8, <2>1 DEF CallsOf
  <2>3. QED BY <1>5, <1>7, <1>8, <2>1, <2>2
<1>9. ASSUME NEW s \in Sessions, NEW kind \in {"end", "shutdown"}, Ends(p, s, kind), Alive(r, p, s), UNCHANGED got,
             kind = "end" => Clear(s)
      PROVE  Once(r)'
  <2>1. OnlySession(p, s) /\ \A c \in CallsOf(r, p)' : c.kind = kind
    <3>1. CASE pi[p].state[s].run # NoRun /\ pi' = Emitting(p, s, kind)
      <4>0. PICK call \in Handler : call = Call(s, kind, pi[p].state[s])
        BY <3>1, EmittingStep
      <4>1. OnlySession(p, s) /\ pi'[p].calls = pi[p].calls \cup {call} /\ call.kind = kind
        BY <3>1, <4>0, EmittingStep DEF Call
      <4>2. QED BY <1>7, <1>9, <4>1 DEF CallsOf
    <3>2. CASE pi' = [pi EXCEPT ![p].agent[s] = 0, ![p].state[s] = NoState]
      <4>1. OnlySession(p, s) /\ pi'[p].calls = pi[p].calls
        BY <3>2, DroppingStep
      <4>2. QED BY <1>7, <1>9, <4>1 DEF CallsOf
    <3>3. QED BY <1>9, <3>1, <3>2 DEF Ends
  <2>2. kind = "end" => NoFile(r)'
    <3>1. Home(r, s)
      BY <1>9 DEF Home, AtProcess
    <3>2. QED BY <1>0, <1>9, <3>1, OnlyAtHome, ClearedTypes DEF NoFile, NoRun
  <2>3. QED BY <1>5, <1>7, <1>9, <2>1, <2>2 DEF OnlySession
<1>10. ASSUME NEW s \in Sessions, AgentEnd(p, s) \/ Shutdown(p, s), Alive(r, p, s) PROVE Once(r)'
  <2>1. CASE AgentEnd(p, s)
    BY <1>9, <1>10, <2>1, EndStep
  <2>2. CASE Shutdown(p, s)
    BY <1>9, <1>10, <2>2, ShutdownStep
  <2>3. QED BY <1>10, <2>1, <2>2
\* A run a handler has.
<1>11. ASSUME NEW c \in CallsOf(r, p)
       PROVE  /\ CallsOf(r, p) = {c} /\ \A q \in Procs : q # p => CallsOf(r, q) = {}
              /\ \A q \in Procs : ~ Held(r, q) /\ ~ Found(r, q) /\ \A s \in Sessions : ~ Alive(r, q, s)
              /\ c.kind = "end" => NoFile(r)
              /\ ~ c.sent => got[r] = <<>>
  <2>1. CallsOf(r, p) = {c} /\ \A q \in Procs : q # p => CallsOf(r, q) = {}
    BY OneHandler
  <2>2. \A q \in Procs : \A s \in Sessions : ~ Alive(r, q, s)
    BY OneHandler
  <2>3. \A q \in Procs : ~ Held(r, q) /\ ~ Found(r, q)
    BY <1>0, <1>11, OnceOwned
  <2>4. QED BY <1>0, <2>1, <2>2, <2>3 DEF Once
<1>12. ASSUME Only(p), SameLoading(p), pi'[p].agent = pi[p].agent, Len(got'[r]) <= 1, CallsOf(r, p) # {},
              \A c \in CallsOf(r, p)' : c.sent /\ (c.kind = "end" => NoFile(r)'),
              NoFile(r)' \/ CallsOf(r, p)' # {}
       PROVE  Once(r)'
  <2>0. \A q \in Procs : /\ ~ Held(r, q) /\ ~ Found(r, q) /\ \A s \in Sessions : ~ Alive(r, q, s)
                         /\ q # p => CallsOf(r, q) = {}
    BY <1>11, <1>12
  <2>1. \A q \in Procs : q # p => /\ ~ Held(r, q)' /\ ~ Found(r, q)' /\ CallsOf(r, q)' = {}
                                  /\ \A s \in Sessions : ~ Alive(r, q, s)'
    BY <1>12, <2>0, StaysElsewhere DEF Stays
  <2>2. ~ Held(r, p)' /\ ~ Found(r, p)' /\ \A s \in Sessions : ~ Alive(r, p, s)'
    BY <1>12, <2>0 DEF SameLoading, Held, Found, Alive
  <2>3. \A q \in Procs : FoundOnce(r, q)'
    BY <2>1, <2>2 DEF Found, FoundOnce, ToSet
  <2>4. QED BY <1>12, <2>1, <2>2, <2>3 DEF Once
<1>13. ASSUME NEW c \in CallsOf(r, p), Emit(p, c) PROVE Once(r)'
  <2> DEFINE sent == [c EXCEPT !.sent = TRUE]
  <2>0. c \in pi[p].calls /\ c.run.id = r
    BY DEF CallsOf
  <2>1. /\ Only(p) /\ SameLoading(p) /\ c \in Handler /\ pi'[p].agent = pi[p].agent /\ UNCHANGED file
        /\ pi'[p].calls = (pi[p].calls \ {c}) \cup {sent} /\ ~ c.sent
    BY <1>13, <2>0, EmitStep DEF Emit
  <2>2. sent.run.id = r /\ sent.sent /\ sent.kind = c.kind
    BY <2>0, <2>1 DEF Handler
  <2>3. Len(got'[r]) <= 1
    <3>1. PICK times \in 0..2 : Taken(c.run, times) /\ DeliveryExcuse(c.run, times)
      BY <1>13 DEF Emit
    <3>2. c.run \in Recorded
      BY <2>1 DEF Handler
    <3>3. got[r] = <<>>
      BY <1>11, <2>1
    <3>4. QED BY <2>0, <3>1, <3>2, <3>3, OneTaken
  <2> HIDE DEF sent
  <2>4. CallsOf(r, p)' = {sent}
    BY <1>11, <2>1, <2>2 DEF CallsOf
  <2>5. c.kind = "end" => NoFile(r)'
    BY <1>11, <2>1 DEF NoFile
  <2>6. QED BY <1>12, <2>1, <2>2, <2>3, <2>4, <2>5
<1>14. ASSUME NEW c \in CallsOf(r, p), Finish(p, c) PROVE Once(r)'
  <2>0. c \in pi[p].calls /\ c.run.id = r
    BY DEF CallsOf
  <2>1. /\ OnlySession(p, c.session) /\ c \in Handler /\ c.session \in Sessions /\ pi'[p].agent = pi[p].agent
        /\ pi'[p].calls = pi[p].calls \ {c} /\ UNCHANGED got
        /\ IF c.kind = "shutdown" THEN Clear(c.session) ELSE UNCHANGED file
    BY <1>14, <2>0, FinishStep DEF Finish
  <2>2. CallsOf(r, p)' = {}
    BY <1>11, <2>1 DEF CallsOf
  <2>3. NoFile(r)'
    <3>1. CASE c.kind = "end"
      BY <1>11, <2>1, <3>1 DEF NoFile
    <3>2. CASE c.kind = "shutdown"
      <4>1. Home(r, c.session)
        BY <2>0 DEF Home, AtProcess
      <4>2. QED BY <1>0, <2>1, <3>2, <4>1, OnlyAtHome, ClearedTypes DEF NoFile, NoRun
    <3>3. QED BY <2>1, <3>1, <3>2 DEF Handler
  <2>4. Len(got'[r]) <= 1
    BY <1>0, <2>1 DEF Once
  <2>5. QED BY <1>12, <2>1, <2>2, <2>3, <2>4 DEF OnlySession
<1>15. CASE Kill(p)
  <2>1. /\ Only(p) /\ pi'[p].calls = {} /\ pi'[p].held = NotHeld /\ pi'[p].found = <<>>
        /\ \A s \in Sessions : pi'[p].agent[s] = 0
        /\ UNCHANGED <<file, got>>
    BY <1>15, GoneStep DEF Kill
  <2>2. /\ ~ Held(r, p)' /\ ~ Found(r, p)' /\ CallsOf(r, p)' = {} /\ \A s \in Sessions : ~ Alive(r, p, s)'
    BY <1>0, <2>1 DEF Held, NotHeld, NoRun, Found, ToSet, CallsOf, Alive
  <2>3. \A q \in Procs : q # p => /\ Held(r, q)' <=> Held(r, q)
                                  /\ Found(r, q)' <=> Found(r, q)
                                  /\ FoundOnce(r, q) => FoundOnce(r, q)'
                                  /\ CallsOf(r, q)' = CallsOf(r, q)
                                  /\ \A s \in Sessions : Alive(r, q, s)' <=> Alive(r, q, s)
    BY <2>1, StaysElsewhere DEF Stays
  <2>4. FoundOnce(r, p)'
    BY <2>2 DEF Found, FoundOnce, ToSet
  <2>5. NoFile(r)' <=> NoFile(r)
    BY <2>1 DEF NoFile
  <2>6. got[r] # <<>> => NoFile(r) \/ \E q \in Procs : q # p /\ CallsOf(r, q) # {}
    <3> SUFFICES ASSUME got[r] # <<>>, ~ NoFile(r), NEW c \in CallsOf(r, p) PROVE FALSE
      BY <1>0 DEF Once
    <3>1. c.sent /\ c.kind # "end"
      BY <1>0, <1>11 DEF Once
    <3>2. c \in pi[p].calls /\ c.run.id = r /\ c.kind = "shutdown" /\ c.sent = TRUE
      BY <3>1, ProcessTypes DEF CallsOf, Handler
    <3>3. r \in {d.run.id : d \in {x \in pi[p].calls : x.kind = "shutdown" /\ x.sent = TRUE}}
      BY <3>2
    <3>4. Excuse({d.run.id : d \in {x \in pi[p].calls : x.kind = "shutdown" /\ x.sent = TRUE}}, "not cleared") \subseteq excuse'
      BY <1>15 DEF Kill
    <3>5. "not cleared" \in Twice
      BY DEF Twice
    <3>6. QED BY <3>3, <3>4, <3>5, ExcusedNow
  <2>7. \A q \in Procs : FoundOnce(r, q)'
    BY <1>0, <2>3, <2>4 DEF Once
  <2>8. /\ Len(got'[r]) <= 1
        /\ \A q1, q2 \in Procs :
             /\ Held(r, q1)' /\ Held(r, q2)' => q1 = q2
             /\ Found(r, q1)' /\ Found(r, q2)' => q1 = q2
             /\ Held(r, q1)' => ~ Found(r, q2)'
             /\ Held(r, q1)' \/ Found(r, q1)' => CallsOf(r, q2)' = {} /\ \A s \in Sessions : ~ Alive(r, q2, s)'
    BY <1>0, <2>1, <2>2, <2>3 DEF Once
  <2>9. \A q \in Procs : /\ Found(r, q)' => NoFile(r)'
                         /\ \A c \in CallsOf(r, q)' : c.kind = "end" => NoFile(r)'
    BY <1>0, <2>2, <2>3, <2>5 DEF Once
  <2>10. got'[r] # <<>> =>
           /\ \A q \in Procs : /\ ~ Held(r, q)' /\ ~ Found(r, q)' /\ \A s \in Sessions : ~ Alive(r, q, s)'
                               /\ \A c \in CallsOf(r, q)' : c.sent
           /\ NoFile(r)' \/ \E q \in Procs : CallsOf(r, q)' # {}
    BY <1>0, <2>1, <2>2, <2>3, <2>5, <2>6 DEF Once
  <2>11. QED BY <2>7, <2>8, <2>9, <2>10 DEF Once
<1>16. QED
  BY <1>1, <1>2, <1>3, <1>4, <1>6, <1>8, <1>10, <1>13, <1>14, <1>15, ApartOrMoves DEF Moves

\* A run is one trace, unless another process was loading while it was alive, a process died
\* between the delivery and the clearing of the checkpoint, or an answer was lost.
THEOREM RunsAreReportedOnce == Spec => []RunsReportedOnce
<1>1. Init => OnceInv
  <2> SUFFICES ASSUME Init, NEW r \in Runs PROVE Once(r)
    BY DEF OnceInv
  <2>1. PlacesInv /\ turnsOf[r] = -1
    BY PlacesInit DEF Init
  <2>2. got[r] = <<>> /\ \A q \in Procs : Nowhere(r, q)
    BY <2>1, FreshIsNowhere
  <2>3. QED BY <2>2, OnceInMemory DEF Nowhere
<1>2. PlacesInv /\ OnceInv /\ [Next]_vars => OnceInv'
  <2> SUFFICES ASSUME PlacesInv, OnceInv, [Next]_vars PROVE OnceInv'
    OBVIOUS
  <2>1. CASE Next
    BY <2>1, NextIsStep, OnceKept
  <2>2. CASE UNCHANGED vars
    BY <2>2 DEF vars, OnceInv, Once, Excused, Held, Found, FoundOnce, CallsOf, Alive, NoFile
  <2>3. QED BY <2>1, <2>2
<1>3. PlacesInv /\ OnceInv => RunsReportedOnce
  <2> SUFFICES ASSUME PlacesInv, OnceInv, NEW r \in Runs, Len(got[r]) > 1 PROVE Excused(r, Twice)
    BY DEF RunsReportedOnce, Twice
  <2>1. Len(got[r]) \in Nat
    BY DEF PlacesInv, TypeOK
  <2>2. QED BY <2>1 DEF OnceInv, Once
<1>4. QED BY <1>1, <1>2, <1>3, RunsHavePlaces, PTL DEF Spec

-----------------------------------------------------------------------------
(* A run is reported with all its finished turns, unless it is excused.    *)

\* A step that leaves a run apart leaves it reported.
LEMMA ReportedApart ==
  ASSUME PlacesInv, NEW p \in Procs, Only(p), NEW r \in Runs, Reported(r), Apart(r), Undisturbed(r, p)
  PROVE  Reported(r)'
<1>1. /\ got'[r] = got[r] /\ turnsOf'[r] = turnsOf[r]
      /\ \A s \in Sessions : file'[s].id = r \/ file[s].id = r => file'[s] = file[s]
  BY DEF Apart, Undisturbed
<1>2. \A s \in Sessions : /\ InFile(r, s)' <=> InFile(r, s)
                          /\ file'[s].id = r <=> file[s].id = r
  BY <1>1 DEF InFile
<1>3. \A q \in Procs : /\ Held(r, q)' <=> Held(r, q)
                       /\ Held(r, q) => pi'[q].held = pi[q].held
                       /\ Found(r, q)' <=> Found(r, q)
                       /\ CallsOf(r, q)' = CallsOf(r, q)
                       /\ \A s \in Sessions : Alive(r, q, s)' <=> Alive(r, q, s)
  BY DEF Apart, Stays
<1>4. \A q \in Procs : \A f \in ToSet(pi'[q].found) : f.id = r => f \in ToSet(pi[q].found)
  BY DEF Apart, Stays
<1>5. ASSUME NEW q \in Procs, NEW s \in Sessions PROVE AgentHas(r, q, s)'
  <2> SUFFICES ASSUME Alive(r, q, s)'
               PROVE  /\ pi'[q].state[s].run.id = r /\ pi'[q].state[s].run.turns = turnsOf'[r]
                      /\ turnsOf'[r] > 0 => InFile(r, s)'
                      /\ \A x \in Procs : ~ Held(r, x)' /\ ~ Found(r, x)'
    BY DEF AgentHas
  <2>1. AgentHas(r, q, s) /\ Alive(r, q, s)
    BY <1>3 DEF Reported
  <2>2. pi'[q].state[s].run = pi[q].state[s].run
    BY <2>1 DEF Only, Undisturbed, AgentHas
  <2>3. QED BY <1>1, <1>2, <1>3, <2>1, <2>2 DEF AgentHas
<1>6. ASSUME NEW q \in Procs, NEW c \in CallsOf(r, q)' PROVE CallHas(r, c)'
  <2>1. CallHas(r, c) /\ c.session \in Sessions
    BY <1>3, <1>6, ProcessTypes DEF Reported, PlacesInv, CallsOf, Handler
  <2>2. QED BY <1>1, <1>2, <1>3, <2>1 DEF CallHas
<1>7. ASSUME NEW q \in Procs PROVE HandHas(r, q)'
  <2> SUFFICES ASSUME Held(r, q)'
               PROVE  /\ pi'[q].held.run.turns = turnsOf'[r] /\ InFile(r, pi[q].held.session)'
                      /\ pi'[q].held = pi[q].held
                      /\ \A x \in Procs : Held(r, x)' => q = x
    BY DEF HandHas, InFile
  <2>1. HandHas(r, q) /\ Held(r, q) /\ pi'[q].held = pi[q].held
    BY <1>3 DEF Reported
  <2>2. pi[q].held.session \in Sessions
    BY <2>1, ProcessTypes, ZeroIsNoRun DEF PlacesInv, Held, NoRun
  <2>3. /\ pi[q].held.run.turns = turnsOf[r] /\ InFile(r, pi[q].held.session)
        /\ \A x \in Procs : Held(r, x) => q = x
    BY <2>1 DEF HandHas
  <2>4. file'[pi[q].held.session] = file[pi[q].held.session]
    BY <1>1, <2>2, <2>3 DEF InFile
  <2>5. QED BY <1>1, <1>3, <2>1, <2>3, <2>4 DEF InFile
<1>8. \A q \in Procs : \A f \in ToSet(pi'[q].found) : f.id = r => f.turns = turnsOf'[r]
  BY <1>1, <1>4 DEF Reported
<1>9. \A s \in Sessions : file'[s].id = r => InFile(r, s)'
  BY <1>2 DEF Reported
<1>10. Somewhere(r)'
  BY <1>1, <1>2, <1>3 DEF Reported, Somewhere, NoFile
<1>11. QED BY <1>5, <1>6, <1>7, <1>8, <1>9, <1>10 DEF Reported

\* A delivery that is not excused puts the run's turns among the traces.
LEMMA TakenOnce ==
  ASSUME TypeOK, NEW run \in Recorded, NEW times \in 0..2,
         Taken(run, times), DeliveryExcuse(run, times), ~ Excused(run.id, Lost)'
  PROVE  run.turns \in ToSet(got'[run.id]) /\ ToSet(got[run.id]) \subseteq ToSet(got'[run.id])
<1>1. times # 0
  <2> SUFFICES ASSUME times = 0 PROVE FALSE
    OBVIOUS
  <2>0. times # 1
    OBVIOUS
  <2>1. excuse' = excuse \cup {<<run.id, "refused">>}
    BY Zenon, <2>0 DEF DeliveryExcuse
  <2>2. QED BY <2>1, LostKinds DEF Excused
<1>2. QED BY <1>1, TakenTypes

\* The step of a run that began is one of those that keep its turns, or the end of one.
LEMMA ReportedBefore ==
  ASSUME PlacesInv, ReportedInv, NEW p \in Procs, Step(p), NEW r \in Runs, turnsOf'[r] >= 0, ~ Excused(r, Lost)'
  PROVE  \/ turnsOf[r] >= 0 /\ Reported(r)
         \/ \E s \in Sessions : BeforeAgentStart(p, s) /\ Begins(p, s, r)
<1>1. turnsOf[r] \in Int /\ turnsOf[r] >= -1 /\ ~ Excused(r, Lost)
  BY ExcuseGrows, ExcusedStays DEF PlacesInv, TypeOK, FreshNowhere
<1>2. CASE turnsOf[r] >= 0
  BY <1>1, <1>2 DEF ReportedInv
<1>3. CASE turnsOf[r] = -1
  <2>1. turnsOf'[r] # turnsOf[r]
    BY <1>3
  <2>2. \A s \in Sessions : ~ Alive(r, p, s)
    BY <1>3, FreshIsNowhere DEF Nowhere
  <2>3. Moves(r, p)
    BY <2>1, ApartOrMoves DEF Apart
  <2>4. CASE \E s \in Sessions : BeforeAgentStart(p, s) /\ Begins(p, s, r)
    BY <2>4
  <2>5. CASE UNCHANGED turnsOf
    BY <2>1, <2>5
  <2>6. QED
    BY <2>2, <2>3, <2>4, <2>5 DEF Moves, ReadCheckpoint, RemoveCheckpoint, Recover, Emit, Finish, Kill
<1>4. QED BY <1>1, <1>2, <1>3

LEMMA StepIsOnly ==
  ASSUME TypeOK, Stages, NEW p \in Procs, Step(p)
  PROVE  Only(p)
<1>1. CASE Load(p) \/ ReadCheckpoint(p) \/ RemoveCheckpoint(p) \/ Recover(p) \/ Loaded(p)
  BY <1>1, LoadStep, ReadStep, RemoveStep, RecoverStep, LoadedStep
<1>2. CASE Quit(p) \/ Kill(p)
  BY <1>2, GoneStep DEF Quit, Kill
<1>3. ASSUME NEW s \in Sessions, SessionStart(p, s) \/ BeforeAgentStart(p, s) \/ AgentStart(p, s) \/ TurnEnd(p, s)
      PROVE  Only(p)
  BY <1>3, SessionStartStep, BeforeAgentStartStep, AgentStartStep, TurnEndStep DEF OnlySession
<1>4. ASSUME NEW s \in Sessions, AgentEnd(p, s) \/ Shutdown(p, s) PROVE Only(p)
  <2>1. PICK kind \in {"end", "shutdown"} : Ends(p, s, kind)
    BY <1>4, EndStep, ShutdownStep
  <2>2. QED BY <2>1, EmittingStep, DroppingStep DEF Ends, OnlySession
<1>5. ASSUME NEW c \in pi[p].calls, Emit(p, c) \/ Finish(p, c) PROVE Only(p)
  BY <1>5, EmitStep, FinishStep DEF OnlySession
<1>6. QED BY <1>1, <1>2, <1>3, <1>4, <1>5 DEF Step

\* Whoever passes a run on passes on all its turns, or leaves them in the checkpoint.
LEMMA ReportedKept ==
  ASSUME PlacesInv, ReportedInv, NEW p \in Procs, Step(p)
  PROVE  ReportedInv'
<1> USE DEF PlacesInv
<1> SUFFICES ASSUME NEW r \in Runs, turnsOf'[r] >= 0, ~ Excused(r, Lost)' PROVE Reported(r)'
  BY DEF ReportedInv, Lost
<1>0. r # 0 /\ turnsOf[r] \in Int
  BY ZeroIsNoRun DEF TypeOK
<1>1. ASSUME NEW s \in Sessions, BeforeAgentStart(p, s), Begins(p, s, r) PROVE Reported(r)'
  <2>1. /\ OnlySession(p, s) /\ Only(p) /\ SameLoading(p) /\ UNCHANGED <<got, file>> /\ pi'[p].calls = pi[p].calls
        /\ pi[p].agent[s] = 0
    BY <1>1, BeforeAgentStartStep DEF OnlySession
  <2>2. NoFile(r) /\ \A q \in Procs : Nowhere(r, q)
    BY <1>1, FreshIsNowhere DEF Begins
  <2>3. turnsOf'[r] = 0
    BY <1>1 DEF Begins, TypeOK
  <2>4. /\ Alive(r, p, s)' /\ pi'[p].state[s].run.id = r /\ pi'[p].state[s].run.turns = 0
    <3>1. RunOrNew(pi[p].state[s].run, r) = [id |-> r, turns |-> 0, emitted |-> FALSE]
      BY <2>1 DEF StateOfAgent, RunOrNew, NoState
    <3>2. pi'[p].state[s].run = RunOrNew(pi[p].state[s].run, r) /\ pi'[p].agent[s] = r
      BY <1>1, ProcessTypes DEF Begins, SessionState
    <3>3. QED BY <3>1, <3>2 DEF Alive
  <2>5. \A q \in Procs : ~ Held(r, q)' /\ ~ Found(r, q)' /\ CallsOf(r, q)' = {}
    BY <2>1, <2>2 DEF Only, SameLoading, Nowhere, Held, Found, CallsOf
  <2>6. \A q \in Procs : \A t \in Sessions : Alive(r, q, t)' => q = p /\ t = s
    BY <2>1, <2>2 DEF Only, OnlySession, Nowhere, Alive
  <2>7. NoFile(r)'
    BY <2>1, <2>2 DEF NoFile
  <2>8. \A q \in Procs : \A t \in Sessions : AgentHas(r, q, t)'
    BY <2>3, <2>4, <2>5, <2>6 DEF AgentHas
  <2>9. \A q \in Procs : HandHas(r, q)'
    BY <2>5 DEF HandHas
  <2>10. Somewhere(r)'
    BY <2>4 DEF Somewhere
  <2>11. QED BY <2>5, <2>7, <2>8, <2>9, <2>10 DEF Reported, NoFile, Found
<1>2. CASE \E s \in Sessions : BeforeAgentStart(p, s) /\ Begins(p, s, r)
  BY <1>1, <1>2
<1> SUFFICES ASSUME turnsOf[r] >= 0, Reported(r) PROVE Reported(r)'
  BY <1>2, ReportedBefore
\* What is known of a run in a session.
<1>3. ASSUME NEW s \in Sessions, Alive(r, p, s)
      PROVE  /\ pi[p].state[s].run \in Recorded /\ pi[p].state[s].run # NoRun /\ ~ pi[p].state[s].run.emitted
             /\ pi[p].state[s].run.id = r /\ pi[p].state[s].run.turns = turnsOf[r]
             /\ turnsOf[r] > 0 => InFile(r, s)
             /\ \A q \in Procs : ~ Held(r, q) /\ ~ Found(r, q) /\ CallsOf(r, q) = {}
             /\ \A q \in Procs : \A t \in Sessions : Alive(r, q, t) => q = p /\ t = s
             /\ \A t \in Sessions : t # s => file[t].id # r
  <2>1. AgentHas(r, p, s)
    BY DEF Reported
  <2>2. /\ pi[p].state[s].run.id = r /\ pi[p].state[s].run.turns = turnsOf[r]
        /\ turnsOf[r] > 0 => InFile(r, s)
        /\ \A q \in Procs : ~ Held(r, q) /\ ~ Found(r, q)
    BY <1>3, <2>1 DEF AgentHas
  <2>3. pi[p].state[s].run # NoRun
    BY <1>0, <2>2 DEF NoRun
  <2>4. pi[p].state[s].run \in Recorded /\ ~ pi[p].state[s].run.emitted
    BY <1>0, <1>3, <2>3, ProcessTypes DEF StateOfAgent, Alive
  <2>5. /\ \A q \in Procs : CallsOf(r, q) = {}
        /\ \A q \in Procs : \A t \in Sessions : Alive(r, q, t) => q = p /\ t = s
    BY <1>3, OneAgent
  <2>6. Home(r, s)
    BY <1>3 DEF Home, AtProcess
  <2>7. QED BY <2>2, <2>3, <2>4, <2>5, <2>6, OnlyAtHome
<1>4. ASSUME NEW c \in CallsOf(r, p)
      PROVE  /\ c \in pi[p].calls /\ c \in Handler /\ c.run.id = r /\ CallHas(r, c)
             /\ CallsOf(r, p) = {c} /\ \A q \in Procs : q # p => CallsOf(r, q) = {}
             /\ \A q \in Procs : ~ Held(r, q) /\ \A s \in Sessions : ~ Alive(r, q, s)
  <2>1. c \in pi[p].calls /\ c \in Handler /\ c.run.id = r
    BY ProcessTypes DEF CallsOf
  <2>2. CallHas(r, c)
    BY DEF Reported
  <2>3. QED BY <2>1, <2>2, OneHandler DEF CallHas
<1>5. CASE Apart(r) /\ Undisturbed(r, p)
  BY <1>5, StepIsOnly, ReportedApart
<1>6. CASE ReadCheckpoint(p) /\ Held(r, p)'
  <2>1. PICK s \in Sessions : /\ pi'[p].held = [session |-> s, run |-> file[s]]
                              /\ excuse' = excuse \cup Excuse({file[s].id} \cap InHand(p), "raced")
    BY <1>6, ReadStep, ProcessTypes DEF Process
  <2>2. /\ Only(p) /\ SameSessions(p) /\ pi[p].stage = "loading"
        /\ pi'[p].found = pi[p].found /\ UNCHANGED <<got, file, turnsOf>>
    BY <1>6, ReadStep DEF ReadCheckpoint
  <2>3. file[s].id = r /\ pi'[p].held.session = s /\ pi'[p].held.run = file[s]
    BY <1>6, <2>1 DEF Held
  <2>4. r \notin InHand(p)
    <3> SUFFICES ASSUME r \in InHand(p) PROVE FALSE
      OBVIOUS
    <3>1. r \in {file[s].id} \cap InHand(p) /\ Excuse({file[s].id} \cap InHand(p), "raced") \subseteq excuse'
      BY <2>1, <2>3
    <3>2. QED BY <3>1, ExcusedNow, LostKinds
  <2>5. \A q \in Procs : q # p => ~ Held(r, q)' /\ CallsOf(r, q)' = {} /\ \A t \in Sessions : ~ Alive(r, q, t)'
    BY <2>2, <2>4, NotInHand, StaysElsewhere DEF Stays, Nowhere
  <2>6. CallsOf(r, p)' = {} /\ \A t \in Sessions : ~ Alive(r, p, t)'
    BY <1>0, <2>2 DEF Stages, SameSessions, CallsOf, Alive
  <2>7. InFile(r, s) /\ InFile(r, s)'
    BY <2>2, <2>3 DEF Reported, InFile
  <2>8. \A q \in Procs : HandHas(r, q)'
    BY <2>2, <2>3, <2>5, <2>7 DEF HandHas, InFile
  <2>9. \A q \in Procs : \A f \in ToSet(pi'[q].found) : f.id = r => f.turns = turnsOf'[r]
    BY <2>2 DEF Reported, Only
  <2>10. \A t \in Sessions : file'[t].id = r => InFile(r, t)'
    BY <2>2 DEF Reported, InFile
  <2>11. Somewhere(r)'
    BY <2>2, <2>3 DEF Somewhere, NoFile
  <2>12. QED BY <2>5, <2>6, <2>8, <2>9, <2>10, <2>11 DEF Reported, AgentHas
<1>7. CASE RemoveCheckpoint(p) /\ Held(r, p)
  <2> DEFINE held == pi[p].held
  <2>1. /\ Only(p) /\ SameSessions(p) /\ pi'[p].held = NotHeld /\ UNCHANGED <<got, turnsOf>>
        /\ file' = [file EXCEPT ![held.session] = NoRun]
        /\ pi'[p].found = IF held.run = NoRun THEN pi[p].found ELSE Append(pi[p].found, held.run)
    BY <1>7, RemoveStep DEF RemoveCheckpoint
  <2>2. held.run # NoRun /\ held.run \in Recorded /\ held.session \in Sessions /\ held.run.id = r
    BY <1>0, <1>7, ProcessTypes DEF Held, NoRun
  <2>3. /\ held.run.turns = turnsOf[r]
        /\ \A q \in Procs : Held(r, q) => q = p
    BY <1>7 DEF Reported, HandHas
  <2>4. \A q \in Procs : CallsOf(r, q) = {} /\ \A s \in Sessions : ~ Alive(r, q, s)
    BY <1>7 DEF Reported, AgentHas, CallHas
  <2>5. \A q \in Procs : CallsOf(r, q)' = {} /\ \A s \in Sessions : ~ Alive(r, q, s)'
    BY <2>1, <2>4 DEF Only, SameSessions, CallsOf, Alive
  <2>6. \A q \in Procs : ~ Held(r, q)'
    BY <1>0, <2>1, <2>3 DEF Only, Held, NotHeld, NoRun
  <2>7. /\ ToSet(pi'[p].found) = ToSet(pi[p].found) \cup {held.run}
    <3>1. pi'[p].found = Append(pi[p].found, held.run) /\ pi[p].found \in Seq(Recorded)
      BY <2>1, <2>2, ProcessTypes
    <3>2. /\ DOMAIN pi[p].found = 1..Len(pi[p].found) /\ Len(pi[p].found) \in Nat
          /\ DOMAIN pi'[p].found = 1..(Len(pi[p].found) + 1)
          /\ \A k \in 1..Len(pi[p].found) : pi'[p].found[k] = pi[p].found[k]
          /\ pi'[p].found[Len(pi[p].found) + 1] = held.run
      BY <2>2, <3>1
    <3>3. DOMAIN pi'[p].found = DOMAIN pi[p].found \cup {Len(pi[p].found) + 1}
      BY <3>2
    <3>4. /\ \A k \in DOMAIN pi'[p].found : pi'[p].found[k] \in ToSet(pi[p].found) \cup {held.run}
          /\ \A k \in DOMAIN pi[p].found : pi[p].found[k] \in ToSet(pi'[p].found)
          /\ held.run \in ToSet(pi'[p].found)
      BY <3>2, <3>3 DEF ToSet
    <3>5. ToSet(pi'[p].found) \subseteq ToSet(pi[p].found) \cup {held.run}
      BY Zenon, <3>4 DEF ToSet
    <3>6. ToSet(pi[p].found) \subseteq ToSet(pi'[p].found)
      BY Zenon, <3>4 DEF ToSet
    <3>7. QED BY <3>4, <3>5, <3>6
  <2>8. \A q \in Procs : \A f \in ToSet(pi'[q].found) : f.id = r => f.turns = turnsOf'[r]
    BY <2>1, <2>3, <2>7 DEF Reported, Only
  <2>9. \A s \in Sessions : file'[s].id = r => InFile(r, s)'
    <3>1. \A s \in Sessions : file'[s] = file[s] \/ file'[s].id = 0
      BY <2>1, <2>2 DEF TypeOK, NoRun
    <3>2. QED BY <1>0, <2>1, <3>1 DEF Reported, InFile
  <2>10. Somewhere(r)'
    BY <2>2, <2>7 DEF Somewhere, Found
  <2>11. QED BY <2>5, <2>6, <2>8, <2>9, <2>10 DEF Reported, AgentHas, HandHas
<1>8. CASE Recover(p) /\ Head(pi[p].found).id = r
  <2> DEFINE f == Head(pi[p].found)
  <2>1. /\ Only(p) /\ SameSessions(p) /\ pi'[p].held = pi[p].held /\ UNCHANGED <<file, turnsOf>>
        /\ pi[p].found # <<>> /\ pi'[p].found = Tail(pi[p].found) /\ f \in Recorded
    BY <1>8, RecoverStep DEF Recover
  <2>2. f \in ToSet(pi[p].found) /\ ToSet(pi'[p].found) \subseteq ToSet(pi[p].found)
    <3>1. /\ 1 \in DOMAIN pi[p].found /\ f = pi[p].found[1]
          /\ \A k \in DOMAIN Tail(pi[p].found) :
               k + 1 \in DOMAIN pi[p].found /\ Tail(pi[p].found)[k] = pi[p].found[k + 1]
      BY <2>1, ProcessTypes
    <3>2. QED BY <2>1, <3>1 DEF ToSet
  <2>3. Found(r, p) /\ f.turns = turnsOf[r]
    BY <1>8, <2>2 DEF Found, Reported
  <2>4. turnsOf[r] \in ToSet(got'[r]) /\ ToSet(got[r]) \subseteq ToSet(got'[r])
    <3>1. PICK times \in 0..2 : Taken(f, times) /\ DeliveryExcuse(f, times)
      BY <1>8 DEF Recover
    <3>2. QED BY <1>8, <2>1, <2>3, <3>1, TakenOnce
  <2>5. \A q \in Procs : \A s \in Sessions : ~ Alive(r, q, s)
    BY <2>3 DEF Reported, AgentHas
  <2>6. \A q \in Procs : /\ \A s \in Sessions : ~ Alive(r, q, s)'
                         /\ CallsOf(r, q)' = CallsOf(r, q)
                         /\ pi'[q].held = pi[q].held
    BY <2>1, <2>5 DEF Only, SameSessions, Alive, CallsOf
  <2>7. \A s : InFile(r, s)' <=> InFile(r, s)
    BY <2>1 DEF InFile
  <2>8. \A q \in Procs : HandHas(r, q)'
    <3>1. \A q \in Procs : HandHas(r, q)
      BY DEF Reported
    <3>2. QED BY <2>1, <2>6, <3>1 DEF HandHas, Held, InFile
  <2>9. ASSUME NEW q \in Procs, NEW c \in CallsOf(r, q)' PROVE CallHas(r, c)'
    <3>1. CallHas(r, c)
      BY <2>6, <2>9 DEF Reported
    <3>2. QED BY <2>1, <2>4, <2>6, <3>1 DEF CallHas, Held, InFile
  <2>10. \A q \in Procs : \A x \in ToSet(pi'[q].found) : x.id = r => x.turns = turnsOf'[r]
    BY <2>1, <2>2 DEF Reported, Only
  <2>11. \A s \in Sessions : file'[s].id = r => InFile(r, s)'
    BY <2>1 DEF Reported, InFile
  <2>12. Somewhere(r)'
    BY <2>1, <2>4 DEF Somewhere
  <2>13. QED BY <2>6, <2>8, <2>9, <2>10, <2>11, <2>12 DEF Reported, AgentHas
<1>9. ASSUME NEW s \in Sessions, TurnEnd(p, s), Alive(r, p, s) PROVE Reported(r)'
  <2> DEFINE run == [pi[p].state[s].run EXCEPT !.turns = @ + 1]
  <2>1. /\ OnlySession(p, s) /\ Only(p) /\ SameLoading(p) /\ pi'[p].calls = pi[p].calls /\ UNCHANGED got
        /\ pi'[p].agent[s] = pi[p].agent[s] /\ pi'[p].state[s] = OneMoreTurn(pi[p].state[s])
    BY <1>9, TurnEndStep, TurnEndFile DEF OnlySession
  <2>2. turnsOf'[r] = turnsOf[r] + 1
    <3>1. turnsOf' = [turnsOf EXCEPT ![pi[p].agent[s]] = @ + 1]
      BY <1>9, TurnEndFile
    <3>2. QED BY <1>9, <3>1 DEF TypeOK, Alive
  <2>3. run.id = r /\ run.turns = turnsOf'[r]
    BY <1>3, <1>9, <2>2 DEF Recorded
  <2>4. pi'[p].state[s].run.id = r /\ pi'[p].state[s].run.turns = turnsOf'[r]
    BY <1>3, <1>9, <2>1, <2>3 DEF OneMoreTurn
  <2>5. run \in Recorded /\ Write(s, run)
    <3>1. ~ Excuse({run.id}, "not written") \subseteq excuse'
      BY <2>3, ExcusedNow, LostKinds
    <3>2. QED BY <1>9, <3>1, TurnEndFile
  <2>6. InFile(r, s)' /\ \A t \in Sessions : t # s => file'[t].id # r
    <3>1. /\ file'[s].id = run.id /\ file'[s].turns = run.turns
          /\ \A t \in Sessions : t # s => file'[t] = file[t]
      BY <2>5, WrittenTypes
    <3>2. \A t \in Sessions : t # s => file[t].id # r
      BY <1>3, <1>9
    <3>3. QED BY <2>3, <3>1, <3>2 DEF InFile
  <2>7. \A q \in Procs : ~ Held(r, q)' /\ ~ Found(r, q)' /\ CallsOf(r, q)' = {}
    BY <1>3, <1>9, <2>1 DEF Only, SameLoading, Held, Found, CallsOf
  <2>8. \A q \in Procs : \A t \in Sessions : Alive(r, q, t)' => q = p /\ t = s
    BY <1>3, <1>9, <2>1 DEF Only, OnlySession, Alive
  <2>9. \A q \in Procs : \A t \in Sessions : AgentHas(r, q, t)'
    BY <2>4, <2>6, <2>7, <2>8 DEF AgentHas
  <2>10. Somewhere(r)'
    BY <2>6 DEF Somewhere, NoFile, InFile
  <2>11. QED BY <2>6, <2>7, <2>9, <2>10 DEF Reported, HandHas, Found
\* The run of an agent that ends is handed on as it is.
<1>10. ASSUME NEW s \in Sessions, NEW kind \in {"end", "shutdown"}, Ends(p, s, kind), Alive(r, p, s),
              UNCHANGED <<turnsOf, got>>,
              IF kind = "end" THEN Clear(s) ELSE UNCHANGED file
       PROVE  Reported(r)'
  <2>1. pi[p].state[s].run # NoRun /\ pi' = Emitting(p, s, kind)
    BY <1>3, <1>10 DEF Ends
  <2>2. PICK call \in Handler : call = Call(s, kind, pi[p].state[s])
    BY <2>1, EmittingStep
  <2>3. /\ OnlySession(p, s) /\ Only(p) /\ SameLoading(p) /\ pi'[p].agent[s] = 0
        /\ pi'[p].calls = pi[p].calls \cup {call}
    BY <2>1, <2>2, EmittingStep DEF OnlySession
  <2>4. /\ call.session = s /\ call.kind = kind /\ ~ call.sent
        /\ call.run.id = r /\ call.run.turns = turnsOf[r]
    BY <1>3, <1>10, <2>2 DEF Call, Recorded
  <2>5. CallsOf(r, p)' = {call} /\ \A q \in Procs : q # p => CallsOf(r, q)' = {}
    BY <1>3, <1>10, <2>3, <2>4 DEF Only, CallsOf
  <2>6. \A q \in Procs : ~ Held(r, q)' /\ ~ Found(r, q)'
    BY <1>3, <1>10, <2>3 DEF Only, SameLoading, Held, Found
  <2>7. \A q \in Procs : \A t \in Sessions : ~ Alive(r, q, t)'
    BY <1>0, <1>3, <1>10, <2>3 DEF Only, OnlySession, Alive
  <2>8. \A t \in Sessions : file'[t] = file[t] \/ (kind = "end" /\ file'[t].id = 0)
    BY <1>10, ClearedTypes DEF NoRun
  <2>9. \A t \in Sessions : file'[t].id = r => InFile(r, t)'
    BY <1>0, <1>10, <2>8 DEF Reported, InFile
  <2>10. CallHas(r, call)'
    <3>1. kind # "end" => file' = file
      BY <1>10
    <3>2. kind = "shutdown" /\ turnsOf[r] > 0 => InFile(r, s)'
      BY <1>3, <1>10, <3>1 DEF InFile
    <3>3. QED BY <1>10, <2>4, <2>6, <3>2 DEF CallHas
  <2>11. Somewhere(r)'
    BY <2>5 DEF Somewhere
  <2>12. QED BY <2>5, <2>6, <2>7, <2>9, <2>10, <2>11 DEF Reported, AgentHas, HandHas, Found
<1>11. ASSUME NEW s \in Sessions, AgentEnd(p, s) \/ Shutdown(p, s), Alive(r, p, s) PROVE Reported(r)'
  <2>1. CASE AgentEnd(p, s)
    BY <1>10, <1>11, <2>1, EndStep
  <2>2. CASE Shutdown(p, s)
    BY <1>10, <1>11, <2>2, ShutdownStep
  <2>3. QED BY <1>11, <2>1, <2>2
\* A run whose handler goes on.
<1>12. ASSUME Only(p), SameLoading(p), pi'[p].agent = pi[p].agent, CallsOf(r, p) # {},
              UNCHANGED turnsOf, turnsOf[r] \in ToSet(got'[r]), \A c \in CallsOf(r, p)' : c.sent,
              \A s \in Sessions : file'[s] = file[s] \/ file'[s].id = 0
       PROVE  Reported(r)'
  <2>1. /\ \A q \in Procs : ~ Held(r, q) /\ (q # p => CallsOf(r, q) = {}) /\ \A s \in Sessions : ~ Alive(r, q, s)
    BY <1>4, <1>12
  <2>2. \A q \in Procs : ~ Held(r, q)' /\ (q # p => CallsOf(r, q)' = {}) /\ \A s \in Sessions : ~ Alive(r, q, s)'
    BY <1>12, <2>1 DEF Only, SameLoading, Held, CallsOf, Alive
  <2>3. \A q \in Procs : pi'[q].found = pi[q].found
    BY <1>12 DEF Only, SameLoading
  <2>4. \A q \in Procs : \A f \in ToSet(pi'[q].found) : f.id = r => f.turns = turnsOf'[r]
    BY <1>12, <2>3 DEF Reported
  <2>5. \A s \in Sessions : file'[s].id = r => InFile(r, s)'
    BY <1>0, <1>12 DEF Reported, InFile
  <2>6. \A q \in Procs : \A c \in CallsOf(r, q)' : CallHas(r, c)'
    BY <1>12, <2>2 DEF CallHas
  <2>7. Somewhere(r)'
    BY <1>12 DEF Somewhere
  <2>8. QED BY <2>2, <2>4, <2>5, <2>6, <2>7 DEF Reported, AgentHas, HandHas
<1>13. ASSUME NEW c \in CallsOf(r, p), Emit(p, c) PROVE Reported(r)'
  <2> DEFINE sent == [c EXCEPT !.sent = TRUE]
  <2>1. /\ Only(p) /\ SameLoading(p) /\ pi'[p].agent = pi[p].agent /\ UNCHANGED <<file, turnsOf>>
        /\ pi'[p].calls = (pi[p].calls \ {c}) \cup {sent} /\ ~ c.sent
    BY <1>4, <1>13, EmitStep DEF Emit
  <2>2. sent.sent
    BY <1>4 DEF Handler
  <2>3. turnsOf[r] \in ToSet(got'[r])
    <3>1. PICK times \in 0..2 : Taken(c.run, times) /\ DeliveryExcuse(c.run, times)
      BY <1>13 DEF Emit
    <3>2. c.run \in Recorded /\ c.run.turns = turnsOf[r]
      BY <1>4, <2>1 DEF CallHas, Handler
    <3>3. QED BY <1>4, <3>1, <3>2, TakenOnce
  <2> HIDE DEF sent
  <2>4. \A d \in CallsOf(r, p)' : d.sent
    BY <1>4, <2>1, <2>2 DEF CallsOf
  <2>5. QED BY <1>12, <2>1, <2>3, <2>4
<1>14. ASSUME NEW c \in CallsOf(r, p), Finish(p, c) PROVE Reported(r)'
  <2>1. /\ OnlySession(p, c.session) /\ c.session \in Sessions /\ c.sent /\ pi'[p].agent = pi[p].agent
        /\ pi'[p].calls = pi[p].calls \ {c} /\ UNCHANGED <<got, turnsOf>>
        /\ IF c.kind = "shutdown" THEN Clear(c.session) ELSE UNCHANGED file
    BY <1>4, <1>14, FinishStep DEF Finish
  <2>2. CallsOf(r, p)' = {}
    BY <1>4, <2>1 DEF CallsOf
  <2>3. \A s \in Sessions : file'[s] = file[s] \/ file'[s].id = 0
    BY <2>1, ClearedTypes DEF NoRun
  <2>4. turnsOf[r] \in ToSet(got'[r])
    BY <1>4, <2>1 DEF CallHas
  <2>5. QED BY <1>12, <2>1, <2>2, <2>3, <2>4 DEF OnlySession
<1>15. CASE Kill(p)
  <2>1. /\ Only(p) /\ pi'[p].calls = {} /\ pi'[p].held = NotHeld /\ pi'[p].found = <<>>
        /\ \A s \in Sessions : pi'[p].agent[s] = 0
        /\ UNCHANGED <<file, got, turnsOf>>
    BY <1>15, GoneStep DEF Kill
  <2>2. /\ ~ Held(r, p)' /\ CallsOf(r, p)' = {} /\ ToSet(pi'[p].found) = {}
        /\ \A s \in Sessions : ~ Alive(r, p, s)'
    BY <1>0, <2>1 DEF Held, NotHeld, NoRun, ToSet, CallsOf, Alive
  <2>3. \A q \in Procs : q # p => pi'[q] = pi[q]
    BY <2>1 DEF Only
  <2>4. \A s : InFile(r, s)' <=> InFile(r, s)
    BY <2>1 DEF InFile
  <2>5. \A q \in Procs : /\ Held(r, q)' => q # p /\ Held(r, q)
                         /\ Found(r, q)' => q # p /\ Found(r, q)
                         /\ \A s \in Sessions : Alive(r, q, s)' => q # p /\ Alive(r, q, s)
    BY <2>2, <2>3 DEF Held, Found, Alive
  <2>6. ASSUME NEW q \in Procs, NEW s \in Sessions PROVE AgentHas(r, q, s)'
    <3>1. AgentHas(r, q, s)
      BY DEF Reported
    <3>2. QED BY <2>1, <2>3, <2>4, <2>5, <3>1 DEF AgentHas
  <2>7. ASSUME NEW q \in Procs, NEW c \in CallsOf(r, q)' PROVE CallHas(r, c)'
    <3>1. c \in CallsOf(r, q)
      BY <2>2, <2>3, <2>7 DEF CallsOf
    <3>2. CallHas(r, c)
      BY <3>1 DEF Reported
    <3>3. QED BY <2>1, <2>4, <2>5, <3>2 DEF CallHas
  <2>8. ASSUME NEW q \in Procs PROVE HandHas(r, q)'
    <3>1. HandHas(r, q)
      BY DEF Reported
    <3>2. CASE q = p
      BY <2>2, <3>2 DEF HandHas
    <3>3. CASE q # p
      <4>1. pi'[q] = pi[q]
        BY <2>3, <3>3
      <4>2. QED BY <2>1, <2>5, <3>1, <4>1 DEF HandHas, Held, InFile
    <3>4. QED BY <3>2, <3>3
  <2>9. \A q \in Procs : \A f \in ToSet(pi'[q].found) : f.id = r => f.turns = turnsOf'[r]
    BY <2>1, <2>2, <2>3 DEF Reported
  <2>10. \A s \in Sessions : file'[s].id = r => InFile(r, s)'
    BY <2>1, <2>4 DEF Reported
  \* What p had of the run is in its checkpoint, was taken, or is excused.
  <2>11. turnsOf[r] = 0 => r \notin InHandOf(p)
    <3> SUFFICES ASSUME turnsOf[r] = 0, r \in InHandOf(p) PROVE FALSE
      OBVIOUS
    <3>1. Excuse({x \in InHandOf(p) \ {0} : turnsOf[x] = 0}, "first turn") \subseteq excuse'
      BY <1>15 DEF Kill
    <3>2. r \in {x \in InHandOf(p) \ {0} : turnsOf[x] = 0}
      BY <1>0
    <3>3. QED BY <3>1, <3>2, ExcusedNow, LostKinds
  <2>12. ASSUME NEW s \in Sessions, Alive(r, p, s) PROVE ~ NoFile(r)
    <3>1. turnsOf[r] # 0
      BY <2>11, <2>12 DEF InHandOf, Alive
    <3>2. QED BY <1>0, <1>3, <2>12, <3>1 DEF InFile, NoFile
  <2>13. ASSUME NEW c \in CallsOf(r, p) PROVE ~ NoFile(r) \/ turnsOf[r] \in ToSet(got[r])
    <3> SUFFICES ASSUME ~ c.sent PROVE ~ NoFile(r)
      BY <1>4 DEF CallHas
    <3>1. turnsOf[r] # 0
      BY <1>4, <2>11 DEF InHandOf
    <3>2. c.kind # "end"
      <4> SUFFICES ASSUME c.kind = "end" PROVE FALSE
        OBVIOUS
      <4> DEFINE S == {d.run.id : d \in {x \in pi[p].calls : x.kind = "end" /\ x.sent = FALSE}}
                        \cup {f.id : f \in ToSet(pi[p].found)}
      <4>1. Excuse(S, "cleared") \subseteq excuse'
        BY <1>15 DEF Kill
      <4>2. c.sent = FALSE
        BY <1>4 DEF Handler
      <4>3. r \in S
        BY <1>4, <4>2
      <4>4. QED BY <4>1, <4>3, ExcusedNow, LostKinds
    <3>3. c.kind = "shutdown" /\ c.session \in Sessions
      BY <1>4, <3>2 DEF Handler
    <3>4. QED BY <1>0, <1>4, <3>1, <3>3 DEF CallHas, InFile, NoFile
  <2>14. ~ Found(r, p)
    <3> SUFFICES ASSUME Found(r, p) PROVE FALSE
      OBVIOUS
    <3> DEFINE S == {d.run.id : d \in {x \in pi[p].calls : x.kind = "end" /\ x.sent = FALSE}}
                      \cup {f.id : f \in ToSet(pi[p].found)}
    <3>1. Excuse(S, "cleared") \subseteq excuse'
      BY <1>15 DEF Kill
    <3>2. r \in S
      BY DEF Found
    <3>3. QED BY <3>1, <3>2, ExcusedNow, LostKinds
  <2>15. Somewhere(r)'
    <3>1. CASE ~ NoFile(r) \/ turnsOf[r] \in ToSet(got[r])
      BY <2>1, <3>1 DEF Somewhere, NoFile
    <3>2. CASE \E q \in Procs : q # p /\ (CallsOf(r, q) # {} \/ Found(r, q) \/ \E s \in Sessions : Alive(r, q, s))
      <4>1. PICK q \in Procs : q # p /\ (CallsOf(r, q) # {} \/ Found(r, q) \/ \E s \in Sessions : Alive(r, q, s))
        BY <3>2
      <4>2. pi'[q] = pi[q]
        BY <2>3, <4>1
      <4>3. QED BY <4>1, <4>2 DEF Somewhere, CallsOf, Found, Alive
    <3>3. QED BY <2>12, <2>13, <2>14, <3>1, <3>2 DEF Reported, Somewhere
  <2>16. QED BY <2>6, <2>7, <2>8, <2>9, <2>10, <2>15 DEF Reported
<1>16. QED
  BY <1>2, <1>5, <1>6, <1>7, <1>8, <1>9, <1>11, <1>13, <1>14, <1>15, ApartOrMoves DEF Moves

\* All finished turns of a run are in a trace, a checkpoint or in memory, through crashes and
\* other processes, unless the run is excused.
THEOREM RunsAreReported == Spec => []RunsReported
<1>1. Init => ReportedInv
  <2> SUFFICES ASSUME Init, NEW r \in Runs, turnsOf[r] >= 0 PROVE FALSE
    BY DEF ReportedInv
  <2>1. QED BY DEF Init
<1>2. PlacesInv /\ ReportedInv /\ [Next]_vars => ReportedInv'
  <2> SUFFICES ASSUME PlacesInv, ReportedInv, [Next]_vars PROVE ReportedInv'
    OBVIOUS
  <2>1. CASE Next
    BY <2>1, NextIsStep, ReportedKept
  <2>2. CASE UNCHANGED vars
    BY <2>2 DEF vars, ReportedInv, Reported, AgentHas, CallHas, HandHas, Somewhere, InFile, Excused, Held,
       Found, CallsOf, Alive, NoFile
  <2>3. QED BY <2>1, <2>2
<1>3. PlacesInv /\ ReportedInv => RunsReported
  <2> SUFFICES ASSUME PlacesInv, ReportedInv, NEW r \in Runs, turnsOf[r] >= 0, ~ Excused(r, Lost)
               PROVE  turnsOf[r] \in Copies(r)
    BY DEF RunsReported, Lost
  <2>1. Reported(r)
    BY DEF ReportedInv
  <2> DEFINE RunsOf(p) == {pi[p].state[s].run : s \in Sessions}
             HandsOf(p) == ToSet(pi[p].found) \cup {k.run : k \in pi[p].calls}
             Places == {file[s] : s \in Sessions}
                         \cup (UNION {RunsOf(p) : p \in Procs}) \cup (UNION {HandsOf(p) : p \in Procs})
  <2>2. Copies(r) = ToSet(got[r]) \cup {c.turns : c \in {x \in Places : x.id = r}}
    BY Zenon DEF Copies
  <2> HIDE DEF RunsOf, HandsOf
  <2>p. \A p \in Procs : RunsOf(p) \subseteq Places /\ HandsOf(p) \subseteq Places
    BY Zenon
  <2> HIDE DEF Places
  <2>3. ASSUME NEW p \in Procs, NEW s \in Sessions, Alive(r, p, s) PROVE turnsOf[r] \in Copies(r)
    <3>1. pi[p].state[s].run.id = r /\ pi[p].state[s].run.turns = turnsOf[r]
      BY <2>1, <2>3 DEF Reported, AgentHas
    <3>2. pi[p].state[s].run \in RunsOf(p)
      BY DEF RunsOf
    <3>3. pi[p].state[s].run \in Places
      BY <2>p, <3>2
    <3>4. QED BY <2>2, <3>1, <3>3
  <2>4. ASSUME NEW p \in Procs, NEW c \in CallsOf(r, p) PROVE turnsOf[r] \in Copies(r)
    <3>1. CASE c.sent
      BY <2>1, <2>2, <3>1 DEF Reported, CallHas
    <3>2. CASE ~ c.sent
      <4>1. c.run.id = r /\ c.run.turns = turnsOf[r] /\ c \in pi[p].calls
        BY <2>1, <3>2 DEF Reported, CallHas, CallsOf
      <4>2. c.run \in HandsOf(p)
        BY <4>1 DEF HandsOf
      <4>3. c.run \in Places
        BY <2>p, <4>2
      <4>4. QED BY <2>2, <4>1, <4>3
    <3>3. QED BY <3>1, <3>2
  <2>5. ASSUME NEW s \in Sessions, file[s].id = r PROVE turnsOf[r] \in Copies(r)
    <3>0. file[s] \in Places
      BY DEF Places
    <3>1. file[s].turns = turnsOf[r]
      BY <2>1, <2>5 DEF Reported, InFile
    <3>2. QED BY <2>2, <2>5, <3>0, <3>1
  <2>6. ASSUME NEW p \in Procs, Found(r, p) PROVE turnsOf[r] \in Copies(r)
    <3>1. PICK f \in ToSet(pi[p].found) : f.id = r /\ f.turns = turnsOf[r]
      BY <2>1, <2>6 DEF Found, Reported
    <3>2. f \in HandsOf(p)
      BY <3>1 DEF HandsOf
    <3>3. f \in Places
      BY <2>p, <3>2
    <3>4. QED BY <2>2, <3>1, <3>3
  <2>7. turnsOf[r] \in ToSet(got[r]) => turnsOf[r] \in Copies(r)
    BY <2>2
  <2>8. QED BY <2>1, <2>3, <2>4, <2>5, <2>6, <2>7 DEF Reported, Somewhere, NoFile
<1>4. QED BY <1>1, <1>2, <1>3, RunsHavePlaces, PTL DEF Spec
=============================================================================
