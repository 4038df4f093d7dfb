------------------------ MODULE TranscriptHookProofs ------------------------
(***************************************************************************)
(* Proofs about TranscriptHook, for any number of sessions, processes,     *)
(* rows, faults and upgrades, and about Turns (as MCTurns lets transcripts *)
(* grow), for any kinds of rows and any length.                            *)
(***************************************************************************)
EXTENDS TranscriptHook, MCTurns, FiniteSetTheorems, SequenceTheorems, WellFoundedInduction, TLAPS

\* What holds of 0, and of n + 1 when it holds of n, holds of every number.
LEMMA Induction ==
    ASSUME NEW S, 0 \in S, \A n \in Nat : n \in S => n + 1 \in S
    PROVE  Nat \subseteq S
<1> DEFINE Less == {p \in Nat \X Nat : p[1] < p[2]}
<1>1. IsWellFoundedOn(Less, Nat)
  BY NatLessThanWellFounded, Zenon DEF OpToRel
<1>2. SUFFICES ASSUME Nat \ S # {} PROVE FALSE
  OBVIOUS
<1>3. PICK x \in Nat \ S : \A y \in Nat \ S : ~ (<<y, x>> \in Less)
  <2>1. Nat \ S \subseteq Nat
    OBVIOUS
  <2> HIDE DEF Less
  <2>2. QED
    BY <1>1, <1>2, <2>1, WFMin, Zenon
<1>4. x # 0 /\ x - 1 \in Nat /\ x = (x - 1) + 1
  BY <1>3
<1>5. x - 1 \notin S
  BY <1>4
<1>6. <<x - 1, x>> \in Less
  BY <1>4
<1>7. QED
  BY <1>3, <1>4, <1>5, <1>6

PassOn(f, rs, n, merges) ==
    f = [k \in 0..n |-> IF k = 0 THEN Locals ELSE NextRow(f[k - 1], rs[k], merges)]

LEMMA PassExists ==
    ASSUME NEW rs, NEW merges
    PROVE  \A n \in Nat : \E f : PassOn(f, rs, n, merges)
<1> DEFINE S == {n \in Nat : \E f : PassOn(f, rs, n, merges)}
<1>1. 0 \in S
  <2>1. PassOn([k \in 0..0 |-> Locals], rs, 0, merges)
    BY DEF PassOn
  <2>2. QED
    BY <2>1
<1>2. ASSUME NEW n \in Nat, n \in S PROVE n + 1 \in S
  <2>1. PICK f : PassOn(f, rs, n, merges)
    BY <1>2
  <2> DEFINE g == [k \in 0..(n + 1) |-> IF k = 0 THEN Locals ELSE NextRow(f[k - 1], rs[k], merges)]
  <2>2. \A k \in 0..n : f[k] = g[k]
    BY <2>1 DEF PassOn
  <2>3. \A k \in 0..(n + 1) : k # 0 => f[k - 1] = g[k - 1]
    <3> HIDE DEF g
    <3>1. QED
      BY <2>2
  <2>4. g = [k \in 0..(n + 1) |-> IF k = 0 THEN Locals ELSE NextRow(g[k - 1], rs[k], merges)]
    BY <2>3
  <2>5. PassOn(g, rs, n + 1, merges)
    BY <2>4 DEF PassOn
  <2>6. QED
    BY <2>5
<1> HIDE DEF S
<1>3. Nat \subseteq S
  BY <1>1, <1>2, Induction
<1>4. QED
  BY <1>3 DEF S

LEMMA PassIs ==
    ASSUME NEW rs, NEW merges, Len(rs) \in Nat
    PROVE  PassOn(Pass(rs, merges), rs, Len(rs), merges)
<1>1. \E f : PassOn(f, rs, Len(rs), merges)
  BY PassExists
<1>2. PassOn(CHOOSE f : PassOn(f, rs, Len(rs), merges), rs, Len(rs), merges)
  BY <1>1, Zenon
<1>3. QED
  BY <1>2, Zenon DEF Pass, PassOn

\* Passes over rows that begin alike begin alike.
LEMMA PassAgree ==
    ASSUME NEW f, NEW g, NEW rs, NEW qs, NEW n \in Nat, NEW m \in Nat, n <= m, NEW merges,
           PassOn(f, rs, n, merges), PassOn(g, qs, m, merges), \A k \in 1..n : rs[k] = qs[k]
    PROVE  \A k \in 0..n : f[k] = g[k]
<1> DEFINE S == {k \in Nat : k <= n => f[k] = g[k]}
<1>1. 0 \in S
  BY DEF PassOn
<1>2. ASSUME NEW k \in Nat, k \in S PROVE k + 1 \in S
  <2>1. SUFFICES ASSUME k + 1 <= n PROVE f[k + 1] = g[k + 1]
    OBVIOUS
  <2>2. f[k] = g[k] /\ k + 1 \in 0..n /\ k + 1 \in 0..m /\ rs[k + 1] = qs[k + 1]
    BY <1>2, <2>1
  <2>3. f[k + 1] = NextRow(f[k], rs[k + 1], merges) /\ g[k + 1] = NextRow(g[k], qs[k + 1], merges)
    BY <2>2 DEF PassOn
  <2>4. QED
    BY <2>2, <2>3
<1> HIDE DEF S
<1>3. Nat \subseteq S
  BY <1>1, <1>2, Induction
<1>4. QED
  BY <1>3 DEF S

\* What the pass has made of all rows.
Built(rs, merges) == Pass(rs, merges)[Len(rs)]
LEMMA BuiltFacts ==
    ASSUME NEW merges
    PROVE  /\ Built(<<>>, merges) = Locals
           /\ \A S : \A rs \in Seq(S), r \in S :
                Built(Append(rs, r), merges) = NextRow(Built(rs, merges), r, merges)
<1>1. Built(<<>>, merges) = Locals
  BY PassIs DEF PassOn, Built
<1>2. ASSUME NEW S, NEW rs \in Seq(S), NEW r \in S
      PROVE  Built(Append(rs, r), merges) = NextRow(Built(rs, merges), r, merges)
  <2> DEFINE qs == Append(rs, r)
  <2> DEFINE n == Len(rs)
  <2>1. Len(qs) = n + 1 /\ n \in Nat /\ qs[n + 1] = r /\ \A k \in 1..n : rs[k] = qs[k]
    OBVIOUS
  <2> HIDE DEF qs, n
  <2>2. PassOn(Pass(qs, merges), qs, n + 1, merges) /\ PassOn(Pass(rs, merges), rs, n, merges)
    BY <2>1, PassIs DEF n
  <2>3. Pass(rs, merges)[n] = Pass(qs, merges)[n]
    <3>1. n + 1 \in Nat /\ n <= n + 1 /\ n \in 0..n
      BY <2>1
    <3>2. QED
      BY <2>1, <2>2, <3>1, PassAgree
  <2>4. Pass(qs, merges)[n + 1] = NextRow(Pass(qs, merges)[n], r, merges)
    BY <2>1, <2>2 DEF PassOn
  <2>5. QED
    BY <2>1, <2>3, <2>4 DEF Built, qs, n
<1>3. QED
  BY <1>1, <1>2

\* What holds of no rows, and of one row more than where it holds, holds of all sequences.
LEMMA SeqInduction ==
    ASSUME NEW S, NEW P, <<>> \in P, \A q \in Seq(S), x \in S : q \in P => Append(q, x) \in P
    PROVE  Seq(S) \subseteq P
<1> DEFINE N == {n \in Nat : \A q \in Seq(S) : Len(q) = n => q \in P}
<1>1. 0 \in N
  OBVIOUS
<1>2. ASSUME NEW n \in Nat, n \in N PROVE n + 1 \in N
  <2>1. SUFFICES ASSUME NEW q \in Seq(S), Len(q) = n + 1 PROVE q \in P
    OBVIOUS
  <2> DEFINE front == [i \in 1..n |-> q[i]]
  <2>2. front \in Seq(S) /\ Len(front) = n /\ q[n + 1] \in S
    BY <2>1
  <2>3. q = Append(front, q[n + 1])
    BY <2>1, <2>2
  <2> HIDE DEF front
  <2>4. front \in P
    BY <1>2, <2>2
  <2>5. QED
    BY <2>2, <2>3, <2>4
<1> HIDE DEF N
<1>3. Nat \subseteq N
  BY <1>1, <1>2, Induction
<1>4. ASSUME NEW q \in Seq(S) PROVE q \in P
  <2>1. Len(q) \in N
    BY <1>3
  <2>2. QED
    BY <2>1 DEF N
<1>5. QED
  BY <1>4

-----------------------------------------------------------------------------
(* build_turns over the rows of this model: prompts and answers without id. *)

PlainRow == [kind : {"user", "assistant"}, id : {NoId}, tool : {NoTool}, bare : {FALSE}, ts : Nat, n : Nat \ {0}]
Ids == {NoId} \X Nat
MsgSet == [blocks : Seq(PlainRow), bare : {FALSE}, ts : Nat, end : Nat]
Msgs == UNION {[D -> MsgSet] : D \in SUBSET Ids}
TurnSet == [user : PlainRow, results : {<<>>}, msgs : Seq(MsgSet)]
LocalsSet == [user : PlainRow \cup {NoUser}, order : Seq(Ids), msgs : Msgs, results : {<<>>},
              group : Nat, noid : BOOLEAN, turns : Seq(TurnSet)]

LEMMA MsgsFacts ==
    ASSUME NEW ms \in Msgs
    PROVE  DOMAIN ms \subseteq Ids /\ ms \in [DOMAIN ms -> MsgSet]
  BY DEF Msgs

LEMMA PutMsg ==
    ASSUME NEW ms \in Msgs, NEW mid \in Ids, NEW m \in MsgSet
    PROVE  /\ With(ms, mid, m) \in Msgs /\ DOMAIN With(ms, mid, m) = DOMAIN ms \cup {mid}
           /\ With(ms, mid, m)[mid] = m
           /\ \A x \in DOMAIN ms : x # mid => With(ms, mid, m)[x] = ms[x]
<1> DEFINE D == DOMAIN ms \cup {mid}
<1>1. With(ms, mid, m) = [x \in D |-> IF x = mid THEN m ELSE ms[x]]
  BY DEF With
<1>2. DOMAIN ms \subseteq Ids /\ \A x \in DOMAIN ms : ms[x] \in MsgSet
  BY MsgsFacts
<1>3. [x \in D |-> IF x = mid THEN m ELSE ms[x]] \in [D -> MsgSet] /\ D \in SUBSET Ids
  BY <1>2
<1>4. QED
  BY <1>1, <1>3 DEF Msgs

LEMMA LocalsFacts ==
    /\ Locals \in LocalsSet /\ Locals.user = NoUser /\ Locals.order = <<>> /\ Locals.msgs = <<>>
    /\ Locals.turns = <<>> /\ DOMAIN Locals.msgs = {}
<1>1. <<>> \in [{} -> MsgSet] /\ {} \in SUBSET Ids
  OBVIOUS
<1>2. <<>> \in Msgs
  BY <1>1 DEF Msgs
<1>3. QED
  BY <1>2 DEF Locals, LocalsSet

LEMMA FlushFacts ==
    ASSUME NEW st \in LocalsSet, \A x \in DOMAIN st.order : st.order[x] \in DOMAIN st.msgs
    PROVE  /\ FlushTurn(st) \in Seq(TurnSet)
           /\ st.user = NoUser \/ st.order = <<>> => FlushTurn(st) = st.turns
           /\ st.user # NoUser /\ st.order # <<>> =>
                \E t \in TurnSet : /\ FlushTurn(st) = Append(st.turns, t) /\ t.user = st.user
                                   /\ t.msgs = [i \in DOMAIN st.order |-> st.msgs[st.order[i]]]
<1> DEFINE ms == [i \in DOMAIN st.order |-> st.msgs[st.order[i]]]
<1>1. st.order \in Seq(Ids) /\ DOMAIN st.order = 1..Len(st.order) /\ Len(st.order) \in Nat /\ st.turns \in Seq(TurnSet)
      /\ st.results = <<>> /\ st.user \in PlainRow \cup {NoUser} /\ st.msgs \in Msgs
  BY DEF LocalsSet
<1>2. \A i \in 1..Len(st.order) : st.msgs[st.order[i]] \in MsgSet
  BY <1>1, MsgsFacts
<1>3. ms \in Seq(MsgSet)
  BY <1>1, <1>2
<1> HIDE DEF ms
<1>4. CASE st.user = NoUser \/ st.order = <<>>
  BY <1>1, <1>4 DEF FlushTurn
<1>5. CASE st.user # NoUser /\ st.order # <<>>
  <2> DEFINE t == [user |-> st.user, results |-> st.results, msgs |-> ms]
  <2>1. t \in TurnSet /\ t.user = st.user /\ t.msgs = ms
    BY <1>1, <1>3, <1>5 DEF TurnSet
  <2>2. FlushTurn(st) = Append(st.turns, t)
    BY <1>5 DEF FlushTurn, ms
  <2> HIDE DEF t
  <2>3. t.msgs = [i \in DOMAIN st.order |-> st.msgs[st.order[i]]]
    BY <2>1 DEF ms
  <2>4. FlushTurn(st) \in Seq(TurnSet)
    BY <1>1, <2>1, <2>2
  <2>5. QED
    BY <1>5, <2>1, <2>2, <2>3, <2>4
<1>6. QED
  BY <1>4, <1>5

\* A prompt begins a turn.
LEMMA PromptFacts ==
    ASSUME NEW st \in LocalsSet, NEW r \in PlainRow, r.kind = "user", NEW merges,
           \A x \in DOMAIN st.order : st.order[x] \in DOMAIN st.msgs
    PROVE  LET new == NextRow(st, r, merges)
           IN  /\ new \in LocalsSet /\ new.user = r /\ new.order = <<>> /\ DOMAIN new.msgs = {}
               /\ new.turns = FlushTurn(st)
<1>1. NextRow(st, r, merges) = [Locals EXCEPT !.user = r, !.turns = FlushTurn(st)]
  BY DEF NextRow, UserRow
<1>2. FlushTurn(st) \in Seq(TurnSet)
  BY FlushFacts
<1>3. QED
  BY <1>1, <1>2, LocalsFacts DEF LocalsSet

LEMMA NoPrompt ==
    ASSUME NEW st \in LocalsSet, NEW r \in PlainRow, r.kind = "assistant", st.user = NoUser, NEW merges
    PROVE  NextRow(st, r, merges) = st
  BY DEF NextRow

\* An answer is a message of its own, or joins one.
LEMMA PutFacts ==
    ASSUME NEW st \in LocalsSet, NEW mid \in Ids, NEW m \in MsgSet
    PROVE  LET new == Put(st, mid, m)
           IN  /\ new \in LocalsSet /\ new.user = st.user /\ new.turns = st.turns
               /\ new.order = (IF mid \in DOMAIN st.msgs THEN st.order ELSE Append(st.order, mid))
               /\ new.msgs = With(st.msgs, mid, m)
<1>1. st.order \in Seq(Ids) /\ st.msgs \in Msgs
  BY DEF LocalsSet
<1> DEFINE o == IF mid \in DOMAIN st.msgs THEN st.order ELSE Append(st.order, mid)
<1> DEFINE ms == With(st.msgs, mid, m)
<1>2. o \in Seq(Ids) /\ ms \in Msgs
  <2>1. o \in Seq(Ids)
    BY <1>1
  <2>2. ms \in Msgs
    BY <1>1, PutMsg
  <2>3. QED
    BY <2>1, <2>2
<1>3. Put(st, mid, m) = [st EXCEPT !.order = o, !.msgs = ms]
  BY DEF Put
<1> HIDE DEF o, ms
<1>4. Put(st, mid, m) \in LocalsSet /\ Put(st, mid, m).user = st.user /\ Put(st, mid, m).turns = st.turns
      /\ Put(st, mid, m).order = o /\ Put(st, mid, m).msgs = ms
  BY <1>2, <1>3 DEF LocalsSet
<1>5. QED
  BY <1>4 DEF o, ms

LEMMA AnswerFacts ==
    ASSUME NEW st \in LocalsSet, NEW r \in PlainRow, r.kind = "assistant", st.user # NoUser, NEW merges \in BOOLEAN,
           ~ merges => \A mid \in DOMAIN st.msgs : mid[2] < Len(st.order)
    PROVE  \E mid \in Ids, m \in MsgSet :
             LET new == NextRow(st, r, merges)
             IN  /\ new \in LocalsSet /\ new.user = st.user /\ new.turns = st.turns
                 /\ new.order = (IF mid \in DOMAIN st.msgs THEN st.order ELSE Append(st.order, mid))
                 /\ new.msgs = With(st.msgs, mid, m)
                 /\ m.blocks = (IF mid \in DOMAIN st.msgs THEN Append(st.msgs[mid].blocks, r) ELSE <<r>>)
                 /\ ~ merges => mid[2] = Len(st.order) /\ mid \notin DOMAIN st.msgs
<1>1. r.id = NoId /\ r.bare = FALSE /\ r.ts \in Nat
  BY DEF PlainRow
<1>2. Message(r) \in MsgSet /\ Message(r).blocks = <<r>>
  <2>1. <<r>> \in Seq(PlainRow)
    OBVIOUS
  <2>2. QED
    BY <1>1, <2>1 DEF Message, MsgSet
<1>3. CASE ~ merges
  <2> DEFINE mid == <<NoId, Len(st.order)>>
  <2>1. mid \in Ids /\ mid[2] = Len(st.order)
    BY DEF Ids, LocalsSet
  <2>2. mid \notin DOMAIN st.msgs
    BY <1>3, <2>1 DEF LocalsSet
  <2>3. NextRow(st, r, merges) = Put(st, mid, Message(r))
    BY <1>1, <1>3 DEF NextRow, LatestRow
  <2> HIDE DEF mid
  <2>4. QED
    BY <1>2, <2>1, <2>2, <2>3, PutFacts
<1>4. CASE merges
  <2> DEFINE group == IF r.id = NoId /\ ~st.noid THEN st.group + 1 ELSE st.group
  <2> DEFINE mid == <<NoId, group>>
  <2> DEFINE s1 == [st EXCEPT !.group = group, !.noid = (r.id = NoId)]
  <2> DEFINE m == IF mid \in DOMAIN st.msgs THEN MergeAssistantContent(st.msgs[mid], r) ELSE Message(r)
  <2>1. NextRow(st, r, merges) = Put(s1, mid, m)
    BY <1>1, <1>4 DEF NextRow, MergedRow
  <2>2. group \in Nat /\ mid \in Ids
    BY DEF LocalsSet, Ids
  <2>3. s1 \in LocalsSet /\ s1.user = st.user /\ s1.turns = st.turns /\ s1.order = st.order /\ s1.msgs = st.msgs
    BY <1>1, <2>2 DEF LocalsSet
  <2> HIDE DEF group, mid, s1
  <2>4. m \in MsgSet /\ m.blocks = (IF mid \in DOMAIN st.msgs THEN Append(st.msgs[mid].blocks, r) ELSE <<r>>)
    <3>1. CASE mid \in DOMAIN st.msgs
      <4>1. st.msgs[mid] \in MsgSet
        BY <3>1, MsgsFacts DEF LocalsSet
      <4>2. MergeAssistantContent(st.msgs[mid], r) =
              [st.msgs[mid] EXCEPT !.blocks = Append(st.msgs[mid].blocks, r), !.end = Or(r.ts, st.msgs[mid].end)]
        BY <4>1 DEF MergeAssistantContent, MsgSet
      <4>3. Or(r.ts, st.msgs[mid].end) \in Nat
        BY <1>1, <4>1 DEF Or, MsgSet
      <4> DEFINE bs == Append(st.msgs[mid].blocks, r)
      <4>0. st.msgs[mid].blocks \in Seq(PlainRow)
        BY <4>1 DEF MsgSet
      <4>4. bs \in Seq(PlainRow)
        BY <4>0
      <4>5. m = [st.msgs[mid] EXCEPT !.blocks = bs, !.end = Or(r.ts, st.msgs[mid].end)]
        BY <3>1, <4>2
      <4> HIDE DEF bs, m
      <4>6. m \in MsgSet /\ m.blocks = bs
        BY <4>1, <4>3, <4>4, <4>5 DEF MsgSet
      <4>7. QED
        BY <3>1, <4>6 DEF bs
    <3>2. CASE mid \notin DOMAIN st.msgs
      BY <1>2, <3>2
    <3>3. QED
      BY <3>1, <3>2
  <2> HIDE DEF m
  <2> DEFINE new == NextRow(st, r, merges)
  <2>5. /\ new \in LocalsSet /\ new.user = st.user /\ new.turns = st.turns
        /\ new.order = (IF mid \in DOMAIN st.msgs THEN st.order ELSE Append(st.order, mid))
        /\ new.msgs = With(st.msgs, mid, m)
    BY <2>1, <2>2, <2>3, <2>4, PutFacts
  <2> HIDE DEF new
  <2>6. mid \in Ids /\ m \in MsgSet
    BY <2>2, <2>4
  <2>7. QED
    BY <1>4, <2>4, <2>5, <2>6 DEF new
<1>5. QED
  BY <1>3, <1>4

\* The rows after row u are answers, and the turn under way has them all.
Answered(rs, u) == \A i \in DOMAIN rs : u < i => rs[i].kind = "assistant"
Held(st) == UNION {{b.n : b \in ToSet(st.msgs[mid].blocks)} : mid \in DOMAIN st.msgs}
OpenTurn(st, rs, u) ==
    /\ u \in DOMAIN rs /\ rs[u].kind = "user" /\ st.user = rs[u] /\ Answered(rs, u)
    /\ Held(st) = {rs[i].n : i \in {x \in DOMAIN rs : u < x}}
    /\ st.order = <<>> <=> u = Len(rs)

\* A turn is a prompt and the answers up to the next one.
Own(rs, a) == {i \in DOMAIN rs : a <= i /\ \A j \in DOMAIN rs : a < j /\ j <= i => rs[j].kind = "assistant"}
Prompts(rs) == {a \in DOMAIN rs : rs[a].kind = "user" /\ a + 1 \in DOMAIN rs /\ rs[a + 1].kind = "assistant"}
TurnOf(t, rs, a) == a \in Prompts(rs) /\ t.user = rs[a] /\ RowsOf(t) = {rs[i].n : i \in Own(rs, a)}
Rising(rs) == \A i, j \in DOMAIN rs : i < j => rs[i].n < rs[j].n

PassInv(st, rs, merges) ==
    /\ st \in LocalsSet
    /\ DOMAIN st.msgs = {st.order[x] : x \in DOMAIN st.order}
    /\ ~ merges => \A mid \in DOMAIN st.msgs : mid[2] < Len(st.order)
    /\ \/ st.user = NoUser /\ st.order = <<>> /\ st.turns = <<>> /\ Answered(rs, 0)
       \/ \E u \in DOMAIN rs :
            /\ OpenTurn(st, rs, u)
            /\ \A j \in DOMAIN st.turns : \E a \in DOMAIN rs : a < u /\ TurnOf(st.turns[j], rs, a)
            /\ \A a \in Prompts(rs) : a < u => \E j \in DOMAIN st.turns : st.turns[j].user = rs[a]
    /\ \A i, j \in DOMAIN st.turns : i < j => st.turns[i].user.n < st.turns[j].user.n

LEMMA PassBegins == ASSUME NEW merges PROVE PassInv(Locals, <<>>, merges)
  BY LocalsFacts DEF PassInv, Answered

LEMMA RowAdded ==
    ASSUME NEW rs \in Seq(PlainRow), NEW r \in PlainRow, NEW qs, qs = Append(rs, r)
    PROVE  /\ DOMAIN rs = 1..Len(rs) /\ Len(rs) \in Nat /\ DOMAIN qs = 1..(Len(rs) + 1) /\ Len(qs) = Len(rs) + 1
           /\ qs[Len(rs) + 1] = r /\ \A i \in DOMAIN rs : qs[i] = rs[i] /\ rs[i] \in PlainRow
           /\ Rising(qs) => Rising(rs) /\ \A i \in DOMAIN rs : rs[i].n < r.n
<1>1. /\ DOMAIN rs = 1..Len(rs) /\ Len(rs) \in Nat /\ DOMAIN qs = 1..(Len(rs) + 1) /\ Len(qs) = Len(rs) + 1
      /\ qs[Len(rs) + 1] = r /\ \A i \in DOMAIN rs : qs[i] = rs[i] /\ rs[i] \in PlainRow
  OBVIOUS
<1>2. ASSUME Rising(qs) PROVE Rising(rs) /\ \A i \in DOMAIN rs : rs[i].n < r.n
  <2>1. \A i, j \in 1..(Len(rs) + 1) : i < j => qs[i].n < qs[j].n
    BY <1>1, <1>2 DEF Rising
  <2>2. \A i, j \in 1..Len(rs) : i < j => rs[i].n < rs[j].n
    BY <1>1, <2>1
  <2>3. \A i \in 1..Len(rs) : i < Len(rs) + 1
    BY <1>1
  <2>4. \A i \in 1..Len(rs) : rs[i].n < r.n
    BY <1>1, <2>1, <2>3
  <2>5. QED
    BY <1>1, <2>2, <2>4 DEF Rising
<1>3. QED
  BY <1>1, <1>2

\* A finished turn keeps its rows.
LEMMA TurnKept ==
    ASSUME NEW rs \in Seq(PlainRow), NEW r \in PlainRow, NEW qs, qs = Append(rs, r),
           NEW u \in DOMAIN rs, rs[u].kind = "user", NEW a \in DOMAIN rs, a < u, NEW t, TurnOf(t, rs, a)
    PROVE  TurnOf(t, qs, a)
<1>1. /\ DOMAIN rs = 1..Len(rs) /\ Len(rs) \in Nat /\ DOMAIN qs = 1..(Len(rs) + 1)
      /\ \A i \in DOMAIN rs : qs[i] = rs[i]
  BY RowAdded
<1>2. Own(qs, a) = Own(rs, a)
  <2>1. Len(rs) + 1 \notin Own(qs, a)
    <3>1. u \in DOMAIN qs /\ a < u /\ u <= Len(rs) + 1 /\ qs[u].kind = "user"
      BY <1>1
    <3>2. QED
      BY <3>1 DEF Own
  <2>2. ASSUME NEW i \in 1..Len(rs) PROVE i \in Own(qs, a) <=> i \in Own(rs, a)
    BY <1>1, <2>2 DEF Own
  <2>3. Own(qs, a) \subseteq 1..(Len(rs) + 1) /\ Own(rs, a) \subseteq 1..Len(rs)
    BY <1>1 DEF Own
  <2>4. \A i \in 1..(Len(rs) + 1) : i \in 1..Len(rs) \/ i = Len(rs) + 1
    BY <1>1
  <2>5. QED
    BY <1>1, <2>1, <2>2, <2>3, <2>4
<1>3. {qs[i].n : i \in Own(qs, a)} = {rs[i].n : i \in Own(rs, a)}
  BY <1>1, <1>2 DEF Own
<1>4. a \in Prompts(qs) /\ qs[a] = rs[a]
  BY <1>1 DEF TurnOf, Prompts
<1>5. QED
  BY <1>3, <1>4 DEF TurnOf

\* The turn under way, when it is closed.
LEMMA FlushedRows ==
    ASSUME NEW st \in LocalsSet, DOMAIN st.msgs = {st.order[x] : x \in DOMAIN st.order},
           NEW t, t.user = st.user, t.msgs = [i \in DOMAIN st.order |-> st.msgs[st.order[i]]]
    PROVE  RowsOf(t) = {st.user.n} \cup Held(st)
<1>1. UNION {ToSet(t.msgs[i].blocks) : i \in DOMAIN t.msgs} = UNION {ToSet(st.msgs[mid].blocks) : mid \in DOMAIN st.msgs}
  <2>1. DOMAIN t.msgs = DOMAIN st.order /\ \A i \in DOMAIN t.msgs : t.msgs[i] = st.msgs[st.order[i]]
    OBVIOUS
  <2>2. \A i \in DOMAIN t.msgs : ToSet(t.msgs[i].blocks) = ToSet(st.msgs[st.order[i]].blocks)
    BY <2>1
  <2> HIDE DEF ToSet
  <2>3. QED
    BY <2>1, <2>2
<1>2. QED
  BY <1>1 DEF RowsOf, Held

\* The turns so far, the one under way among them.
TurnsInv(ts, rs) ==
    /\ ts \in Seq(TurnSet)
    /\ \A j \in DOMAIN ts : \E a \in DOMAIN rs : TurnOf(ts[j], rs, a)
    /\ \A a \in Prompts(rs) : \E j \in DOMAIN ts : ts[j].user = rs[a]
    /\ \A i, j \in DOMAIN ts : i < j => ts[i].user.n < ts[j].user.n

LEMMA OpenOwn ==
    ASSUME NEW rs \in Seq(PlainRow), NEW u \in DOMAIN rs, Answered(rs, u), NEW st, NEW t,
           OpenTurn(st, rs, u), RowsOf(t) = {st.user.n} \cup Held(st)
    PROVE  RowsOf(t) = {rs[i].n : i \in Own(rs, u)}
<1>1. DOMAIN rs = 1..Len(rs) /\ Len(rs) \in Nat
  OBVIOUS
<1>2. Own(rs, u) = {u} \cup {x \in DOMAIN rs : u < x}
  BY <1>1 DEF Own, Answered
<1>3. QED
  BY <1>2 DEF OpenTurn

LEMMA RowIsPrompt == ASSUME NEW r \in PlainRow PROVE r # NoUser
<1>1. r.n # 0 /\ NoUser.n = 0
  BY DEF PlainRow, NoUser
<1>2. QED
  BY <1>1

LEMMA InTurn ==
    ASSUME NEW st, NEW rs \in Seq(PlainRow), NEW merges, PassInv(st, rs, merges)
    PROVE  \A x \in DOMAIN st.order : st.order[x] \in DOMAIN st.msgs
  BY DEF PassInv

LEMMA FlushedTurns ==
    ASSUME NEW st, NEW rs \in Seq(PlainRow), NEW merges, PassInv(st, rs, merges), Rising(rs)
    PROVE  TurnsInv(FlushTurn(st), rs)
<1> DEFINE ts == FlushTurn(st)
<1>1. /\ st \in LocalsSet /\ DOMAIN st.msgs = {st.order[x] : x \in DOMAIN st.order} /\ st.turns \in Seq(TurnSet)
      /\ \A i, j \in DOMAIN st.turns : i < j => st.turns[i].user.n < st.turns[j].user.n
      /\ ts \in Seq(TurnSet)
  BY InTurn, FlushFacts DEF PassInv, LocalsSet
<1>2. DOMAIN rs = 1..Len(rs) /\ Len(rs) \in Nat /\ \A i \in DOMAIN rs : rs[i] \in PlainRow
  OBVIOUS
<1>3. ASSUME st.user = NoUser, st.order = <<>>, st.turns = <<>>, Answered(rs, 0) PROVE TurnsInv(ts, rs)
  <2>1. ts = <<>>
    BY <1>1, <1>3, InTurn, FlushFacts
  <2>2. Prompts(rs) = {}
    BY <1>2, <1>3 DEF Prompts, Answered
  <2>3. QED
    BY <1>1, <2>1, <2>2 DEF TurnsInv
<1>4. ASSUME NEW u \in DOMAIN rs, OpenTurn(st, rs, u),
             \A j \in DOMAIN st.turns : \E a \in DOMAIN rs : a < u /\ TurnOf(st.turns[j], rs, a),
             \A a \in Prompts(rs) : a < u => \E j \in DOMAIN st.turns : st.turns[j].user = rs[a]
      PROVE TurnsInv(ts, rs)
  <2>1. st.user = rs[u] /\ rs[u].kind = "user" /\ Answered(rs, u) /\ (st.order = <<>> <=> u = Len(rs))
    BY <1>4 DEF OpenTurn
  <2>2. st.user # NoUser
    BY <1>2, <2>1, RowIsPrompt
  <2>3. \A a \in Prompts(rs) : a <= u
    BY <1>2, <2>1 DEF Prompts, Answered
  <2>4. CASE st.order = <<>>
    <3>1. ts = st.turns
      BY <1>1, <2>4, InTurn, FlushFacts
    <3>2. u \notin Prompts(rs)
      BY <1>2, <2>1, <2>4 DEF Prompts
    <3>3. \A a \in Prompts(rs) : a < u
      BY <1>2, <2>3, <3>2 DEF Prompts
    <3>4. QED
      BY <1>1, <1>4, <3>1, <3>3 DEF TurnsInv
  <2>5. CASE st.order # <<>>
    <3>1. PICK t \in TurnSet : /\ ts = Append(st.turns, t) /\ t.user = st.user
                               /\ t.msgs = [i \in DOMAIN st.order |-> st.msgs[st.order[i]]]
      BY <1>1, <2>2, <2>5, InTurn, FlushFacts
    <3>2. u \in Prompts(rs)
      BY <1>2, <2>1, <2>5 DEF Prompts, Answered
    <3>3. TurnOf(t, rs, u)
      <4>1. RowsOf(t) = {st.user.n} \cup Held(st)
        BY <1>1, <3>1, FlushedRows
      <4>2. RowsOf(t) = {rs[i].n : i \in Own(rs, u)}
        BY <1>4, <2>1, <4>1, OpenOwn
      <4>3. QED
        BY <2>1, <3>1, <3>2, <4>2 DEF TurnOf
    <3> DEFINE n == Len(st.turns)
    <3> HIDE DEF ts
    <3>4. n \in Nat /\ DOMAIN st.turns = 1..n /\ DOMAIN ts = 1..(n + 1) /\ ts[n + 1] = t
          /\ \A j \in 1..n : ts[j] = st.turns[j]
      BY <1>1, <3>1
    <3> HIDE DEF n
    <3>5. \A j \in DOMAIN ts : \E a \in DOMAIN rs : TurnOf(ts[j], rs, a)
      <4>1. \A j \in 1..(n + 1) : j \in 1..n \/ j = n + 1
        BY <3>4
      <4>2. QED
        BY <1>4, <3>3, <3>4, <4>1
    <3>6. \A a \in Prompts(rs) : \E j \in DOMAIN ts : ts[j].user = rs[a]
      <4>1. SUFFICES ASSUME NEW a \in Prompts(rs) PROVE \E j \in DOMAIN ts : ts[j].user = rs[a]
        OBVIOUS
      <4>2. CASE a = u
        BY <2>1, <3>1, <3>4, <4>2
      <4>3. CASE a # u
        <5>1. a < u
          BY <1>2, <2>3, <4>3 DEF Prompts
        <5>2. PICK j \in 1..n : st.turns[j].user = rs[a]
          BY <1>4, <3>4, <5>1
        <5>3. j \in DOMAIN ts /\ ts[j].user = rs[a]
          BY <3>4, <5>2
        <5>4. QED
          BY <5>3
      <4>4. QED
        BY <4>2, <4>3
    <3>7. \A j \in 1..n : st.turns[j].user.n < t.user.n
      <4>1. SUFFICES ASSUME NEW j \in 1..n PROVE st.turns[j].user.n < t.user.n
        OBVIOUS
      <4>2. PICK a \in DOMAIN rs : a < u /\ TurnOf(st.turns[j], rs, a)
        BY <1>4, <3>4
      <4>3. QED
        BY <2>1, <3>1, <4>2 DEF TurnOf, Rising
    <3>8. \A i, j \in DOMAIN ts : i < j => ts[i].user.n < ts[j].user.n
      <4>1. \A i \in 1..(n + 1) : i \in 1..n \/ i = n + 1
        BY <3>4
      <4>2. \A i \in 1..n : i < n + 1 /\ ~ (n + 1 < i)
        BY <3>4
      <4>3. \A i, j \in 1..n : i < j => ts[i].user.n < ts[j].user.n
        BY <1>1, <3>4
      <4>4. ~ (n + 1 < n + 1)
        BY <3>4
      <4>5. QED
        BY <3>4, <3>7, <4>1, <4>2, <4>3, <4>4
    <3>9. QED
      BY <1>1, <3>5, <3>6, <3>8 DEF TurnsInv, ts
  <2>6. QED
    BY <2>4, <2>5
<1>5. QED
  BY <1>3, <1>4 DEF PassInv

\* One more row.
LEMMA PassStep ==
    ASSUME NEW st, NEW rs \in Seq(PlainRow), NEW r \in PlainRow, NEW qs, qs = Append(rs, r), NEW merges \in BOOLEAN,
           Rising(qs), PassInv(st, rs, merges)
    PROVE  PassInv(NextRow(st, r, merges), qs, merges)
<1> DEFINE n == Len(rs)
<1> DEFINE new == NextRow(st, r, merges)
<1>1. /\ DOMAIN rs = 1..n /\ n \in Nat /\ DOMAIN qs = 1..(n + 1) /\ Len(qs) = n + 1
      /\ qs[n + 1] = r /\ \A i \in DOMAIN rs : qs[i] = rs[i] /\ rs[i] \in PlainRow
      /\ Rising(rs) /\ \A i \in DOMAIN rs : rs[i].n < r.n
  <2>1. /\ DOMAIN rs = 1..Len(rs) /\ Len(rs) \in Nat /\ DOMAIN qs = 1..(Len(rs) + 1) /\ Len(qs) = Len(rs) + 1
        /\ qs[Len(rs) + 1] = r /\ \A i \in DOMAIN rs : qs[i] = rs[i] /\ rs[i] \in PlainRow
    BY RowAdded
  <2>2. Rising(rs) /\ \A i \in DOMAIN rs : rs[i].n < r.n
    BY RowAdded
  <2>3. QED
    BY <2>1, <2>2
<1>2. /\ st \in LocalsSet /\ DOMAIN st.msgs = {st.order[x] : x \in DOMAIN st.order} /\ st.turns \in Seq(TurnSet)
      /\ st.order \in Seq(Ids) /\ st.msgs \in Msgs /\ (~ merges => \A mid \in DOMAIN st.msgs : mid[2] < Len(st.order))
      /\ \A i, j \in DOMAIN st.turns : i < j => st.turns[i].user.n < st.turns[j].user.n
      /\ \A x \in DOMAIN st.order : st.order[x] \in DOMAIN st.msgs
  BY InTurn DEF PassInv, LocalsSet
<1>3. r.kind \in {"user", "assistant"} /\ n + 1 \in DOMAIN qs /\ \A i \in DOMAIN qs : i \in DOMAIN rs \/ i = n + 1
  BY <1>1 DEF PlainRow
<1> HIDE DEF n
<1>4. CASE r.kind = "user"
  <2>1. /\ new \in LocalsSet /\ new.user = r /\ new.order = <<>> /\ DOMAIN new.msgs = {}
        /\ new.turns = FlushTurn(st)
    BY <1>2, <1>4, PromptFacts
  <2> HIDE DEF new
  <2>2. TurnsInv(new.turns, rs)
    BY <1>1, <2>1, FlushedTurns
  <2>3. OpenTurn(new, qs, n + 1)
    <3>1. Held(new) = {}
      BY <2>1 DEF Held
    <3>2. {x \in DOMAIN qs : n + 1 < x} = {}
      BY <1>1
    <3>3. Answered(qs, n + 1)
      BY <3>2 DEF Answered
    <3>4. QED
      BY <1>1, <1>3, <1>4, <2>1, <3>1, <3>2, <3>3 DEF OpenTurn
  <2>4. ASSUME NEW j \in DOMAIN new.turns PROVE \E a \in DOMAIN qs : a < n + 1 /\ TurnOf(new.turns[j], qs, a)
    <3>1. PICK a \in DOMAIN rs : TurnOf(new.turns[j], rs, a)
      BY <2>2 DEF TurnsInv
    <3>2. Own(qs, a) = Own(rs, a)
      <4>1. n + 1 \notin Own(qs, a)
        <5>1. a < n + 1 /\ n + 1 <= n + 1 /\ qs[n + 1].kind = "user"
          BY <1>1, <1>4
        <5>2. QED
          BY <1>3, <5>1 DEF Own
      <4>2. ASSUME NEW i \in DOMAIN rs PROVE i \in Own(qs, a) <=> i \in Own(rs, a)
        BY <1>1, <4>2 DEF Own
      <4>3. Own(qs, a) \subseteq DOMAIN qs /\ Own(rs, a) \subseteq DOMAIN rs
        BY DEF Own
      <4>4. QED
        BY <1>3, <4>1, <4>2, <4>3
    <3>3. {qs[i].n : i \in Own(qs, a)} = {rs[i].n : i \in Own(rs, a)}
      BY <1>1, <3>2 DEF Own
    <3>4. a \in Prompts(qs) /\ qs[a] = rs[a]
      BY <1>1, <3>1 DEF TurnOf, Prompts
    <3>5. TurnOf(new.turns[j], qs, a)
      BY <3>1, <3>3, <3>4 DEF TurnOf
    <3>6. a \in DOMAIN qs /\ a < n + 1
      BY <1>1
    <3>7. QED
      BY <3>5, <3>6
  <2>5. \A a \in Prompts(qs) : a < n + 1 => \E j \in DOMAIN new.turns : new.turns[j].user = qs[a]
    <3>1. ASSUME NEW a \in Prompts(qs), a < n + 1 PROVE \E j \in DOMAIN new.turns : new.turns[j].user = qs[a]
      <4>1. a \in DOMAIN rs /\ a + 1 \in DOMAIN qs /\ qs[a + 1].kind = "assistant"
        BY <1>1, <3>1 DEF Prompts
      <4>2. a + 1 \in DOMAIN rs
        BY <1>1, <1>3, <1>4, <4>1
      <4>3. a \in Prompts(rs) /\ qs[a] = rs[a]
        BY <1>1, <3>1, <4>1, <4>2 DEF Prompts
      <4>4. QED
        BY <2>2, <4>3 DEF TurnsInv
    <3>2. QED
      BY <3>1
  <2>6. \A i, j \in DOMAIN new.turns : i < j => new.turns[i].user.n < new.turns[j].user.n
    BY <2>2 DEF TurnsInv
  <2>7. DOMAIN new.msgs = {new.order[x] : x \in DOMAIN new.order}
    BY <2>1
  <2>8. ~ merges => \A mid \in DOMAIN new.msgs : mid[2] < Len(new.order)
    BY <2>1
  <2>9. PassInv(new, qs, merges)
    BY <1>3, <2>1, <2>3, <2>4, <2>5, <2>6, <2>7, <2>8, Zenon DEF PassInv
  <2>10. QED
    BY <2>9 DEF new
<1>5. CASE r.kind = "assistant" /\ st.user = NoUser
  <2>1. new = st
    BY <1>2, <1>5, NoPrompt
  <2> HIDE DEF new
  <2>2. st.order = <<>> /\ st.turns = <<>> /\ Answered(rs, 0)
    <3>1. \A u \in DOMAIN rs : ~ OpenTurn(st, rs, u)
      BY <1>1, <1>5, RowIsPrompt DEF OpenTurn
    <3>2. QED
      BY <3>1 DEF PassInv
  <2>3. Answered(qs, 0)
    BY <1>1, <1>3, <1>5, <2>2 DEF Answered
  <2>4. PassInv(new, qs, merges)
    BY <1>2, <1>5, <2>1, <2>2, <2>3, Zenon DEF PassInv
  <2>5. QED
    BY <2>4 DEF new
<1>6. CASE r.kind = "assistant" /\ st.user # NoUser
  <2>1. PICK mid \in Ids, m \in MsgSet :
          /\ new \in LocalsSet /\ new.user = st.user /\ new.turns = st.turns
          /\ new.order = (IF mid \in DOMAIN st.msgs THEN st.order ELSE Append(st.order, mid))
          /\ new.msgs = With(st.msgs, mid, m)
          /\ m.blocks = (IF mid \in DOMAIN st.msgs THEN Append(st.msgs[mid].blocks, r) ELSE <<r>>)
          /\ ~ merges => mid[2] = Len(st.order) /\ mid \notin DOMAIN st.msgs
    BY <1>2, <1>6, AnswerFacts
  <2> HIDE DEF new
  <2>2. PICK u \in DOMAIN rs :
          /\ OpenTurn(st, rs, u)
          /\ \A j \in DOMAIN st.turns : \E a \in DOMAIN rs : a < u /\ TurnOf(st.turns[j], rs, a)
          /\ \A a \in Prompts(rs) : a < u => \E j \in DOMAIN st.turns : st.turns[j].user = rs[a]
    BY <1>6 DEF PassInv
  <2>3. /\ DOMAIN new.msgs = DOMAIN st.msgs \cup {mid} /\ new.msgs[mid] = m
        /\ \A x \in DOMAIN st.msgs : x # mid => new.msgs[x] = st.msgs[x]
    <3>1. st.msgs \in Msgs /\ new.msgs = With(st.msgs, mid, m)
      BY <1>2, <2>1
    <3>2. mid \in Ids /\ m \in MsgSet
      OBVIOUS
    <3> DEFINE w == With(st.msgs, mid, m)
    <3>3. /\ DOMAIN w = DOMAIN st.msgs \cup {mid} /\ w[mid] = m
          /\ \A x \in DOMAIN st.msgs : x # mid => w[x] = st.msgs[x]
      BY <3>1, <3>2, PutMsg
    <3> HIDE DEF w
    <3>4. new.msgs = w
      BY <3>1 DEF w
    <3>5. QED
      BY <3>3, <3>4
  <2>4. new.order # <<>> /\ Len(new.order) \in Nat /\ Len(st.order) \in Nat
        /\ (mid \notin DOMAIN st.msgs => Len(new.order) = Len(st.order) + 1)
        /\ DOMAIN new.msgs = {new.order[x] : x \in DOMAIN new.order}
    <3>1. CASE mid \in DOMAIN st.msgs
      <4>1. new.order = st.order /\ DOMAIN new.msgs = DOMAIN st.msgs
        BY <2>1, <2>3, <3>1
      <4>2. DOMAIN st.order # {}
        BY <1>2, <3>1
      <4>3. QED
        BY <1>2, <3>1, <4>1, <4>2
    <3>2. CASE mid \notin DOMAIN st.msgs
      <4>1. new.order = Append(st.order, mid)
        BY <2>1, <3>2
      <4> DEFINE k == Len(st.order)
      <4>2. k \in Nat /\ DOMAIN st.order = 1..k /\ DOMAIN new.order = 1..(k + 1) /\ new.order[k + 1] = mid
            /\ \A x \in 1..k : new.order[x] = st.order[x]
        BY <1>2, <4>1
      <4>3. Len(new.order) = k + 1 /\ new.order # <<>>
        BY <1>2, <4>1
      <4> HIDE DEF k
      <4>4. {new.order[x] : x \in 1..(k + 1)} = {st.order[x] : x \in 1..k} \cup {mid}
        <5>1. \A x \in 1..(k + 1) : x \in 1..k \/ x = k + 1
          BY <4>2
        <5>2. 1..k \subseteq 1..(k + 1) /\ k + 1 \in 1..(k + 1)
          BY <4>2
        <5>3. QED
          BY <4>2, <5>1, <5>2
      <4>5. DOMAIN new.msgs = {new.order[x] : x \in DOMAIN new.order}
        BY <1>2, <2>3, <4>2, <4>4
      <4>6. QED
        BY <4>2, <4>3, <4>5 DEF k
    <3>3. QED
      BY <3>1, <3>2
  <2>5. Held(new) = Held(st) \cup {r.n}
    <3>1. {b.n : b \in ToSet(m.blocks)} =
            (IF mid \in DOMAIN st.msgs THEN {b.n : b \in ToSet(st.msgs[mid].blocks)} ELSE {}) \cup {r.n}
      <4>1. CASE mid \in DOMAIN st.msgs
        <5> DEFINE bs == st.msgs[mid].blocks
        <5>1. bs \in Seq(PlainRow)
          BY <1>2, <4>1, MsgsFacts DEF MsgSet
        <5>2. m.blocks = Append(bs, r)
          BY <2>1, <4>1
        <5> HIDE DEF bs
        <5>3. ToSet(m.blocks) = ToSet(bs) \cup {r}
          <6>1. DOMAIN bs = 1..Len(bs) /\ Len(bs) \in Nat /\ DOMAIN Append(bs, r) = 1..(Len(bs) + 1)
                /\ Append(bs, r)[Len(bs) + 1] = r /\ \A x \in 1..Len(bs) : Append(bs, r)[x] = bs[x]
            BY <5>1
          <6>2. \A x \in 1..(Len(bs) + 1) : x \in 1..Len(bs) \/ x = Len(bs) + 1
            BY <6>1
          <6>3. 1..Len(bs) \subseteq 1..(Len(bs) + 1) /\ Len(bs) + 1 \in 1..(Len(bs) + 1)
            BY <6>1
          <6>4. QED
            BY <5>2, <6>1, <6>2, <6>3 DEF ToSet
        <5>4. QED
          BY <4>1, <5>3 DEF bs
      <4>2. CASE mid \notin DOMAIN st.msgs
        <5>1. m.blocks = <<r>>
          BY <2>1, <4>2
        <5>2. ToSet(m.blocks) = {r}
          BY <5>1 DEF ToSet
        <5>3. QED
          BY <4>2, <5>2
      <4>3. QED
        BY <4>1, <4>2
    <3> DEFINE h(ms, x) == {b.n : b \in ToSet(ms[x].blocks)}
    <3>2. h(new.msgs, mid) = (IF mid \in DOMAIN st.msgs THEN h(st.msgs, mid) ELSE {}) \cup {r.n}
      BY <2>3, <3>1
    <3>3. \A x \in DOMAIN st.msgs : x # mid => h(new.msgs, x) = h(st.msgs, x)
      BY <2>3
    <3>4. Held(new) = UNION {h(new.msgs, x) : x \in DOMAIN new.msgs} /\ Held(st) = UNION {h(st.msgs, x) : x \in DOMAIN st.msgs}
      BY DEF Held
    <3> HIDE DEF h
    <3>5. QED
      BY <2>3, <3>2, <3>3, <3>4
  <2>6. u \in DOMAIN qs /\ OpenTurn(new, qs, u)
    <3>1. u \in DOMAIN qs /\ qs[u] = rs[u] /\ u # n + 1 /\ u < n + 1
      BY <1>1
    <3>2. Answered(qs, u)
      BY <1>1, <1>3, <1>6, <2>2 DEF OpenTurn, Answered
    <3>3. {x \in DOMAIN qs : u < x} = {x \in DOMAIN rs : u < x} \cup {n + 1}
      BY <1>1, <1>3, <3>1
    <3>4. {qs[i].n : i \in {x \in DOMAIN qs : u < x}} = {rs[i].n : i \in {x \in DOMAIN rs : u < x}} \cup {r.n}
      BY <1>1, <3>3
    <3>5. QED
      BY <1>1, <2>1, <2>2, <2>4, <2>5, <3>1, <3>2, <3>4 DEF OpenTurn
  <2>7. \A j \in DOMAIN new.turns : \E a \in DOMAIN qs : a < u /\ TurnOf(new.turns[j], qs, a)
    <3>1. ASSUME NEW j \in DOMAIN new.turns PROVE \E a \in DOMAIN qs : a < u /\ TurnOf(new.turns[j], qs, a)
      <4>1. PICK a \in DOMAIN rs : a < u /\ TurnOf(st.turns[j], rs, a)
        BY <2>1, <2>2
      <4>2. TurnOf(st.turns[j], qs, a)
        BY <2>2, <4>1, TurnKept DEF OpenTurn
      <4>3. a \in DOMAIN qs
        BY <1>1
      <4>4. QED
        BY <2>1, <4>1, <4>2, <4>3
    <3>2. QED
      BY <3>1
  <2>8. \A a \in Prompts(qs) : a < u => \E j \in DOMAIN new.turns : new.turns[j].user = qs[a]
    <3>1. ASSUME NEW a \in Prompts(qs), a < u PROVE a \in Prompts(rs) /\ qs[a] = rs[a]
      <4>1. a \in DOMAIN rs /\ a + 1 \in DOMAIN rs
        BY <1>1, <3>1 DEF Prompts
      <4>2. QED
        BY <1>1, <3>1, <4>1 DEF Prompts
    <3>2. QED
      BY <2>1, <2>2, <3>1
  <2>9. ~ merges => \A x \in DOMAIN new.msgs : x[2] < Len(new.order)
    <3>1. ASSUME ~ merges, NEW x \in DOMAIN new.msgs PROVE x[2] < Len(new.order)
      <4>1. Len(new.order) = Len(st.order) + 1 /\ Len(st.order) \in Nat /\ mid[2] = Len(st.order)
        BY <2>1, <2>4, <3>1
      <4>2. CASE x = mid
        BY <4>1, <4>2
      <4>3. CASE x \in DOMAIN st.msgs
        <5>1. x[2] < Len(st.order) /\ x \in Ids
          BY <1>2, <3>1, <4>3, MsgsFacts
        <5>2. x[2] \in Nat
          BY <5>1 DEF Ids
        <5>3. QED
          BY <4>1, <5>1, <5>2
      <4>4. QED
        BY <2>3, <4>2, <4>3
    <3>2. QED
      BY <3>1
  <2>10. \A i, j \in DOMAIN new.turns : i < j => new.turns[i].user.n < new.turns[j].user.n
    BY <1>2, <2>1
  <2>11. PassInv(new, qs, merges)
    BY <2>1, <2>4, <2>6, <2>7, <2>8, <2>9, <2>10, Zenon DEF PassInv
  <2>12. QED
    BY <2>11 DEF new
<1>7. QED
  BY <1>3, <1>4, <1>5, <1>6

-----------------------------------------------------------------------------
(* The lock files.                                                         *)

\* A process past its lock holds it; every lock file has one holder.
LockInv ==
    /\ upgrades \in 0..MaxUpgrades /\ DOMAIN lock = 0..MaxUpgrades /\ DOMAIN proc = Procs
    /\ \A p \in Procs :
         /\ DOMAIN proc[p] = DOMAIN Idle
         /\ proc[p].file \in 0..MaxUpgrades
         /\ PastLock(p) => lock[proc[p].file] = p

LEMMA IdleFacts == Idle.pc = "idle" /\ Idle.file = 0
  BY DEF Idle

\* A process ends, or dies: the kernel drops its lock and no other.
LEMMA EndStep ==
  ASSUME LockInv, NEW p \in Procs, Ends(p), lock' = Unlocked(p), upgrades' = upgrades
  PROVE  LockInv'
<1> USE HookAssumption, IdleFacts DEF Ends, Unlocked
<1>1. \A q \in Procs \ {p} : proc'[q] = proc[q]
  BY DEF LockInv
<1>2. proc'[p] = Idle
  BY DEF LockInv
<1>3. QED BY <1>1, <1>2 DEF LockInv, PastLock, At

\* Steps of a process that leave the locks alone.
LEMMA OwnStep ==
  ASSUME LockInv, NEW p \in Procs, NEW l, proc' = [proc EXCEPT ![p] = l],
         DOMAIN l = DOMAIN Idle, l.file \in 0..MaxUpgrades,
         l.pc # "emit" \/ (l.pc = proc[p].pc /\ l.file = proc[p].file),
         lock' = lock, upgrades' = upgrades
  PROVE  LockInv'
  BY DEF LockInv, PastLock, At

LEMMA InitInv == Init => LockInv
  BY IdleFacts, HookAssumption DEF Init, LockInv, PastLock, At

LEMMA NextInv == LockInv /\ [Next]_vars => LockInv'
<1> SUFFICES ASSUME LockInv, [Next]_vars PROVE LockInv'
  OBVIOUS
<1> USE HookAssumption
<1>1. ASSUME NEW s \in Sessions, WriteHalf(s) \/ WriteRow(s) \/ Truncate(s) PROVE LockInv'
  <2>1. UNCHANGED <<upgrades, lock, proc>>
    BY <1>1 DEF WriteHalf, WriteRow, Truncate
  <2>2. QED BY <2>1 DEF LockInv, PastLock, At
<1>2. ASSUME NEW p \in Procs, NEW s \in Sessions, Start(p, s) PROVE LockInv'
  <2> DEFINE l(t, stop) == [Idle EXCEPT !.pc = "lock", !.session = t, !.file = upgrades, !.stop = stop]
  <2>1. PICK t, stop : proc' = [proc EXCEPT ![p] = l(t, stop)]
    BY <1>2 DEF Start
  <2>2. DOMAIN l(t, stop) = DOMAIN Idle /\ l(t, stop).file = upgrades /\ l(t, stop).pc = "lock"
    BY DEF Idle
  <2>3. lock' = lock /\ upgrades' = upgrades
    BY <1>2 DEF Start
  <2>4. l(t, stop).file \in 0..MaxUpgrades /\ l(t, stop).pc # "emit"
    BY <2>2 DEF LockInv
  <2> HIDE DEF l
  <2>5. QED BY <2>1, <2>2, <2>3, <2>4, OwnStep
<1>3. ASSUME NEW p \in Procs, GiveUp(p) PROVE LockInv'
  <2>1. proc' = [proc EXCEPT ![p] = Idle] /\ lock' = lock /\ upgrades' = upgrades
    BY <1>3 DEF GiveUp, Ends
  <2>2. Idle.file \in 0..MaxUpgrades /\ Idle.pc # "emit"
    BY IdleFacts
  <2>3. QED BY <2>1, <2>2, OwnStep
<1>4. ASSUME NEW p \in Procs, ReadRows(p) PROVE LockInv'
  <2>1. /\ lock[proc[p].file] = None /\ lock' = [lock EXCEPT ![proc[p].file] = p] /\ upgrades' = upgrades
    BY <1>4 DEF ReadRows, LockFree
  <2> DEFINE new(m) == FromStart(proc[p].session, LoadSession(m, proc[p].session))
  <2>2. PICK m \in LoadState :
          proc' = [proc EXCEPT ![p].pc = "emit", ![p].state = m,
                               ![p].ss = ReadNewJsonl(proc[p].session, new(m)),
                               ![p].turns = BuildTurns(agent, NewRows(proc[p].session, new(m)))]
    BY <1>4, Zenon DEF ReadRows
  <2>3. /\ \A q \in Procs \ {p} : proc'[q] = proc[q]
        /\ DOMAIN proc'[p] = DOMAIN Idle /\ proc'[p].file = proc[p].file
    BY <2>2 DEF LockInv, Idle
  <2>4. DOMAIN proc' = Procs
    BY <2>2 DEF LockInv
  <2>5. QED BY <2>1, <2>3, <2>4 DEF LockInv, PastLock, At
<1>5. ASSUME NEW p \in Procs, EmitTurn(p) PROVE LockInv'
  <2>1. /\ proc' = [proc EXCEPT ![p] = [proc[p] EXCEPT !.emitted = @ + 1]]
        /\ lock' = lock /\ upgrades' = upgrades
    BY <1>5 DEF EmitTurn
  <2>2. QED BY <2>1, OwnStep DEF LockInv, Idle
<1>6. ASSUME NEW p \in Procs, Save(p) \/ SaveFails(p) \/ Die(p) PROVE LockInv'
  BY <1>6, EndStep DEF Save, SaveFails, Die
<1>7. CASE MonthPasses
  BY <1>7 DEF MonthPasses, LockInv, PastLock, At
<1>8. CASE UpgradeHook
  BY <1>8 DEF UpgradeHook, LockInv, PastLock, At
<1>9. CASE UNCHANGED vars
  BY <1>9 DEF vars, LockInv, PastLock, At
<1>10. QED
  BY <1>1, <1>2, <1>3, <1>4, <1>5, <1>6, <1>7, <1>8, <1>9 DEF Next

-----------------------------------------------------------------------------
(* What build_turns promises for the rows behind an offset.                *)

LEMMA PassBuilt ==
    ASSUME NEW merges \in BOOLEAN, NEW rs \in Seq(PlainRow), Rising(rs)
    PROVE  PassInv(Built(rs, merges), rs, merges)
<1> DEFINE P == {q \in Seq(PlainRow) : Rising(q) => PassInv(Built(q, merges), q, merges)}
<1>1. <<>> \in P
  BY BuiltFacts, PassBegins
<1>2. ASSUME NEW q \in Seq(PlainRow), NEW r \in PlainRow, q \in P PROVE Append(q, r) \in P
  <2> DEFINE qs == Append(q, r)
  <2>1. SUFFICES ASSUME Rising(qs) PROVE PassInv(Built(qs, merges), qs, merges)
    OBVIOUS
  <2>2. Rising(q)
    BY <2>1, RowAdded
  <2>3. Built(qs, merges) = NextRow(Built(q, merges), r, merges)
    BY BuiltFacts
  <2>4. PassInv(Built(q, merges), q, merges)
    BY <1>2, <2>2
  <2>5. PassInv(NextRow(Built(q, merges), r, merges), qs, merges)
    BY <2>1, <2>4, PassStep
  <2>6. QED
    BY <2>3, <2>5
<1> HIDE DEF P
<1>3. Seq(PlainRow) \subseteq P
  BY <1>1, <1>2, SeqInduction
<1>4. QED
  BY <1>3 DEF P

LEMMA TurnsBuilt ==
    ASSUME NEW ag \in Agents, NEW rs \in Seq(PlainRow), Rising(rs)
    PROVE  TurnsInv(BuildTurns(ag, rs), rs)
<1>1. BuildTurns(ag, rs) = FlushTurn(Built(rs, FALSE)) \/ BuildTurns(ag, rs) = FlushTurn(Built(rs, TRUE))
  BY DEF BuildTurns, ClaudeTurns, QoderTurns, QoderWorkTurns, Built, Agents
<1>2. QED
  BY <1>1, PassBuilt, FlushedTurns

\* The turns built from some of the rows, and from more.
Later(ts, ts2) == Len(ts) <= Len(ts2) /\ \A j \in DOMAIN ts : ts2[j].user = ts[j].user

LEMMA TurnsExtend ==
    ASSUME NEW ag \in Agents, NEW rs \in Seq(PlainRow), NEW r \in PlainRow, Rising(Append(rs, r))
    PROVE  Later(BuildTurns(ag, rs), BuildTurns(ag, Append(rs, r)))
<1>1. ASSUME NEW merges \in BOOLEAN, NEW st, st = Built(rs, merges), PassInv(st, rs, merges)
      PROVE  Later(FlushTurn(st), FlushTurn(NextRow(st, r, merges)))
  <2>1. /\ st \in LocalsSet /\ st.turns \in Seq(TurnSet)
        /\ \A x \in DOMAIN st.order : st.order[x] \in DOMAIN st.msgs
        /\ ~ merges => \A mid \in DOMAIN st.msgs : mid[2] < Len(st.order)
        /\ FlushTurn(st) \in Seq(TurnSet)
    BY <1>1, InTurn, FlushFacts DEF PassInv, LocalsSet
  <2> DEFINE new == NextRow(st, r, merges)
  <2>2. PassInv(new, Append(rs, r), merges)
    BY <1>1, PassStep
  <2>3. Append(rs, r) \in Seq(PlainRow)
    OBVIOUS
  <2> HIDE DEF new
  <2>4. new \in LocalsSet /\ \A x \in DOMAIN new.order : new.order[x] \in DOMAIN new.msgs
    BY <2>2, <2>3, InTurn DEF PassInv
  <2>5. CASE r.kind = "user"
    <3>1. new.order = <<>> /\ new.turns = FlushTurn(st)
      BY <2>1, <2>5, PromptFacts DEF new
    <3>2. FlushTurn(new) = FlushTurn(st)
      BY <2>4, <3>1, FlushFacts
    <3>3. QED
      BY <2>1, <3>2 DEF Later, new
  <2>6. CASE r.kind = "assistant" /\ st.user = NoUser
    <3>1. new = st
      BY <2>1, <2>6, NoPrompt DEF new
    <3>2. QED
      BY <2>1, <3>1 DEF Later, new
  <2>7. CASE r.kind = "assistant" /\ st.user # NoUser
    <3>1. new.user = st.user /\ new.turns = st.turns
      BY <2>1, <2>7, AnswerFacts DEF new
    <3>2. new.order # <<>>
      <4>1. PICK mid \in Ids, m \in MsgSet : new.msgs = With(st.msgs, mid, m)
        BY <2>1, <2>7, AnswerFacts DEF new
      <4>2. mid \in DOMAIN new.msgs
        BY <4>1 DEF With
      <4>3. DOMAIN new.msgs = {new.order[x] : x \in DOMAIN new.order}
        BY <2>2 DEF PassInv
      <4>4. QED
        BY <4>2, <4>3
    <3>3. PICK t \in TurnSet : FlushTurn(new) = Append(st.turns, t) /\ t.user = st.user
      <4>1. \E t \in TurnSet : /\ FlushTurn(new) = Append(new.turns, t) /\ t.user = new.user
                               /\ t.msgs = [i \in DOMAIN new.order |-> new.msgs[new.order[i]]]
        <5>1. new.user # NoUser
          BY <2>7, <3>1
        <5> HIDE DEF new
        <5>2. QED
          BY <2>4, <3>2, <5>1, FlushFacts
      <4> HIDE DEF new
      <4>2. QED
        BY <3>1, <4>1
    <3>4. FlushTurn(st) = st.turns \/ \E t2 \in TurnSet : FlushTurn(st) = Append(st.turns, t2) /\ t2.user = st.user
      BY <2>1, <2>7, FlushFacts
    <3>5. Later(FlushTurn(st), FlushTurn(new))
      <4>1. CASE FlushTurn(st) = st.turns
        BY <2>1, <3>3, <4>1 DEF Later
      <4>2. ASSUME NEW t2 \in TurnSet, FlushTurn(st) = Append(st.turns, t2), t2.user = st.user
            PROVE Later(FlushTurn(st), FlushTurn(new))
        BY <2>1, <3>3, <4>2 DEF Later
      <4>3. QED
        BY <3>4, <4>1, <4>2
    <3>6. QED
      BY <3>5 DEF new
  <2>8. QED
    BY <2>5, <2>6, <2>7 DEF PlainRow
<1>2. Rising(rs)
  BY RowAdded
<1>3. ASSUME NEW merges \in BOOLEAN
      PROVE  /\ PassInv(Built(rs, merges), rs, merges)
             /\ Built(Append(rs, r), merges) = NextRow(Built(rs, merges), r, merges)
  <2>1. Built(Append(rs, r), merges) = NextRow(Built(rs, merges), r, merges)
    BY BuiltFacts
  <2>2. PassInv(Built(rs, merges), rs, merges)
    BY <1>2, PassBuilt
  <2>3. QED
    BY <2>1, <2>2
<1>4. \E merges \in BOOLEAN : /\ BuildTurns(ag, rs) = FlushTurn(Built(rs, merges))
                              /\ BuildTurns(ag, Append(rs, r)) = FlushTurn(Built(Append(rs, r), merges))
  BY DEF BuildTurns, ClaudeTurns, QoderTurns, QoderWorkTurns, Built, Agents
<1>5. PICK merges \in BOOLEAN : /\ BuildTurns(ag, rs) = FlushTurn(Built(rs, merges))
                                /\ BuildTurns(ag, Append(rs, r)) = FlushTurn(Built(Append(rs, r), merges))
  BY <1>4
<1>6. QED
  BY <1>1, <1>3, <1>5

-----------------------------------------------------------------------------
(* Rows and prompts of one transcript.                                     *)

RowSet == [kind : {"user", "assistant"}, n : Nat \ {0}]

\* Without a truncation, rows are numbered by their places.
ByPlace(rs) == rs \in Seq(RowSet) /\ \A i \in DOMAIN rs : rs[i].n = i

Plain(r) == [kind |-> r.kind, id |-> NoId, tool |-> NoTool, bare |-> FALSE, ts |-> r.n, n |-> r.n]
Behind(rs, k) == [i \in 1..(Len(rs) - k) |-> Plain(rs[k + i])]
LastPrompt(rs, k) == Max({0} \cup {rs[i].n : i \in {j \in 1..k : rs[j].kind = "user"}})

LEMMA BehindIs == \A s, k : RowsBehind(s, k) = Behind(rows[s], k)
  BY DEF RowsBehind, Behind, Plain

LEMMA PromptIs == \A s, k : Prompt(s, k) = LastPrompt(rows[s], k)
  BY DEF Prompt, LastPrompt

LEMMA PlainIs ==
    ASSUME NEW r \in RowSet
    PROVE  Plain(r) \in PlainRow /\ Plain(r).kind = r.kind /\ Plain(r).n = r.n
  BY DEF Plain, PlainRow, RowSet

LEMMA BehindRows ==
    ASSUME NEW rs \in Seq(RowSet), NEW k \in 0..Len(rs)
    PROVE  /\ Behind(rs, k) \in Seq(PlainRow) /\ Len(Behind(rs, k)) = Len(rs) - k
           /\ DOMAIN Behind(rs, k) = 1..(Len(rs) - k) /\ Len(rs) - k \in Nat
           /\ \A i \in 1..(Len(rs) - k) : Behind(rs, k)[i].kind = rs[k + i].kind /\ Behind(rs, k)[i].n = rs[k + i].n
           /\ Rising(rs) => Rising(Behind(rs, k))
<1>1. Len(rs) \in Nat /\ DOMAIN rs = 1..Len(rs) /\ \A i \in 1..(Len(rs) - k) : k + i \in DOMAIN rs /\ rs[k + i] \in RowSet
  OBVIOUS
<1>2. \A i \in 1..(Len(rs) - k) : Plain(rs[k + i]) \in PlainRow
  BY <1>1, PlainIs
<1>3. Behind(rs, k) \in Seq(PlainRow) /\ Len(Behind(rs, k)) = Len(rs) - k /\ DOMAIN Behind(rs, k) = 1..(Len(rs) - k)
  BY <1>1, <1>2 DEF Behind
<1>4. \A i \in 1..(Len(rs) - k) : Behind(rs, k)[i].kind = rs[k + i].kind /\ Behind(rs, k)[i].n = rs[k + i].n
  BY <1>1, PlainIs DEF Behind
<1>5. ASSUME Rising(rs) PROVE Rising(Behind(rs, k))
  <2>1. ASSUME NEW i \in 1..(Len(rs) - k), NEW j \in 1..(Len(rs) - k), i < j PROVE Behind(rs, k)[i].n < Behind(rs, k)[j].n
    <3>1. k + i < k + j
      BY <2>1
    <3>2. rs[k + i].n < rs[k + j].n
      BY <1>1, <1>5, <3>1 DEF Rising
    <3>3. QED
      BY <1>4, <3>2
  <2>2. QED
    BY <1>3, <2>1 DEF Rising
<1>6. QED
  BY <1>1, <1>3, <1>4, <1>5

LEMMA BehindAppend ==
    ASSUME NEW rs \in Seq(RowSet), NEW k \in 0..Len(rs), NEW r \in RowSet
    PROVE  Behind(Append(rs, r), k) = Append(Behind(rs, k), Plain(r))
<1> DEFINE n == Len(rs) - k
<1> DEFINE qs == Append(rs, r)
<1>1. n \in Nat /\ Len(qs) - k = n + 1 /\ \A i \in 1..(n + 1) : qs[k + i] = IF i = n + 1 THEN r ELSE rs[k + i]
  OBVIOUS
<1>2. Behind(rs, k) \in Seq(PlainRow) /\ Len(Behind(rs, k)) = n /\ Plain(r) \in PlainRow
  BY BehindRows, PlainIs
<1>3. \A i \in 1..n : Behind(rs, k)[i] = Plain(rs[k + i])
  BY DEF Behind
<1> HIDE DEF n, qs
<1> DEFINE both == Append(Behind(rs, k), Plain(r))
<1>4. both \in Seq(PlainRow) /\ Len(both) = n + 1 /\ both[n + 1] = Plain(r) /\ \A i \in 1..n : both[i] = Behind(rs, k)[i]
  BY <1>1, <1>2
<1>5. Behind(qs, k) = [i \in 1..(n + 1) |-> Plain(qs[k + i])]
  BY <1>1 DEF Behind
<1> HIDE DEF both
<1>6. both = [i \in 1..(n + 1) |-> both[i]]
  BY <1>1, <1>4
<1>7. \A i \in 1..(n + 1) : both[i] = Plain(qs[k + i])
  <2>1. \A i \in 1..(n + 1) : i \in 1..n \/ i = n + 1
    BY <1>1
  <2>2. \A i \in 1..n : i # n + 1 /\ i \in 1..(n + 1)
    BY <1>1
  <2>3. QED
    BY <1>1, <1>3, <1>4, <2>1, <2>2
<1>8. QED
  BY <1>5, <1>6, <1>7 DEF qs, both

LEMMA LastPlace ==
    ASSUME NEW n \in Nat, NEW S, S \subseteq 0..n, S # {}
    PROVE  Max(S) \in S /\ \A x \in S : x <= Max(S)
<1> DEFINE Less == {p \in Nat \X Nat : p[1] < p[2]}
<1> DEFINE Above == {k \in Nat : \A x \in S : x <= k}
<1>1. IsWellFoundedOn(Less, Nat)
  BY NatLessThanWellFounded, Zenon DEF OpToRel
<1>2. n \in Above
  OBVIOUS
<1>3. PICK k \in Above : \A y \in Above : ~ (<<y, k>> \in Less)
  <2> HIDE DEF Less
  <2>1. Above \subseteq Nat /\ Above # {}
    BY <1>2
  <2> HIDE DEF Above
  <2>2. QED
    BY <1>1, <2>1, WFMin, Zenon
<1>4. k \in S
  <2> SUFFICES ASSUME k \notin S PROVE FALSE
    OBVIOUS
  <2>1. \A x \in S : x < k /\ x \in 0..n
    OBVIOUS
  <2>2. k > 0
    <3>1. PICK x \in S : TRUE
      OBVIOUS
    <3>2. QED
      BY <2>1, <3>1
  <2>3. k - 1 \in Above
    BY <2>1, <2>2
  <2>4. <<k - 1, k>> \in Less
    BY <2>2
  <2>5. QED
    BY <1>3, <2>3, <2>4
<1>5. QED
  BY <1>4 DEF Max

LEMMA PromptInNat ==
    ASSUME NEW rs \in Seq(RowSet), NEW b \in Nat, \A i \in DOMAIN rs : rs[i].n <= b, NEW k \in 0..Len(rs)
    PROVE  LastPrompt(rs, k) \in Nat
<1> DEFINE S == {0} \cup {rs[i].n : i \in {j \in 1..k : rs[j].kind = "user"}}
<1>1. S \subseteq 0..b /\ S # {}
  <2>1. 1..k \subseteq DOMAIN rs /\ \A i \in DOMAIN rs : rs[i] \in RowSet
    OBVIOUS
  <2>2. \A i \in DOMAIN rs : rs[i].n \in 0..b
    BY <2>1 DEF RowSet
  <2>3. QED
    BY <2>1, <2>2
<1>2. LastPrompt(rs, k) = Max(S)
  BY DEF LastPrompt
<1> HIDE DEF S
<1>3. Max(S) \in S
  BY <1>1, LastPlace
<1> DEFINE x == Max(S)
<1>4. x \in S /\ LastPrompt(rs, k) = x
  BY <1>2, <1>3
<1> HIDE DEF x
<1>5. QED
  BY <1>1, <1>4

LEMMA PromptAgrees ==
    ASSUME NEW rs, NEW qs, NEW k, \A i \in 1..k : rs[i] = qs[i]
    PROVE  LastPrompt(rs, k) = LastPrompt(qs, k)
<1>1. {rs[i].n : i \in {j \in 1..k : rs[j].kind = "user"}} = {qs[i].n : i \in {j \in 1..k : qs[j].kind = "user"}}
  OBVIOUS
<1>2. QED
  BY <1>1 DEF LastPrompt

\* Between a place and a later one there is a last prompt, or only answers.
LEMMA PromptCases ==
    ASSUME NEW rs, ByPlace(rs), NEW k \in 0..Len(rs), NEW m \in 0..k
    PROVE  LET x == LastPrompt(rs, k)
           IN  \/ x \in (m + 1)..k /\ rs[x].kind = "user" /\ \A j \in (x + 1)..k : rs[j].kind = "assistant"
               \/ x = LastPrompt(rs, m) /\ \A j \in (m + 1)..k : rs[j].kind = "assistant"
<1> DEFINE U(n) == {j \in 1..n : rs[j].kind = "user"}
<1>1. /\ Len(rs) \in Nat /\ k \in Nat /\ m \in Nat
      /\ \A i \in 1..k : rs[i].n = i /\ rs[i].kind \in {"user", "assistant"}
  <2>1. rs \in Seq(RowSet) /\ \A i \in DOMAIN rs : rs[i].n = i
    BY DEF ByPlace
  <2>2. Len(rs) \in Nat /\ 1..k \subseteq DOMAIN rs /\ \A i \in DOMAIN rs : rs[i] \in RowSet
    BY <2>1
  <2>3. QED
    BY <2>1, <2>2 DEF RowSet
<1>2. ASSUME NEW n \in 0..k PROVE LastPrompt(rs, n) = Max({0} \cup U(n))
  <2>1. {rs[i].n : i \in U(n)} = U(n)
    BY <1>1
  <2>2. QED
    BY <2>1 DEF LastPrompt
<1>3. k \in 0..k
  BY <1>1
<1> DEFINE x == LastPrompt(rs, k)
<1>4. x \in {0} \cup U(k) /\ \A j \in {0} \cup U(k) : j <= x
  <2>1. {0} \cup U(k) \subseteq 0..k /\ {0} \cup U(k) # {}
    BY <1>1
  <2> HIDE DEF U
  <2>2. QED
    BY <1>1, <1>2, <1>3, <2>1, LastPlace
<1> HIDE DEF x
<1>5. \A j \in 1..k : x < j => rs[j].kind = "assistant"
  BY <1>1, <1>4
<1>6. CASE m < x
  BY <1>1, <1>4, <1>5, <1>6 DEF x
<1>7. CASE x <= m
  <2>1. \A j \in (m + 1)..k : rs[j].kind = "assistant"
    BY <1>1, <1>4, <1>5, <1>7
  <2>2. U(k) = U(m)
    BY <1>1, <2>1
  <2> HIDE DEF U
  <2>3. QED
    BY <1>2, <1>3, <2>1, <2>2 DEF x
<1>8. QED
  BY <1>1, <1>4, <1>6, <1>7

\* An answer behind m is in a turn with its prompt, when that is behind m as well.
LEMMA InATurn ==
    ASSUME NEW rs, ByPlace(rs), NEW m \in 0..Len(rs), NEW ts, TurnsInv(ts, Behind(rs, m)),
           NEW k \in (m + 1)..Len(rs), rs[k].kind = "assistant",
           NEW x \in (m + 1)..k, rs[x].kind = "user", \A j \in (x + 1)..k : rs[j].kind = "assistant"
    PROVE  \E j \in DOMAIN ts : {k, x} \subseteq RowsOf(ts[j])
<1> DEFINE bs == Behind(rs, m)
<1> DEFINE n == Len(rs) - m
<1>1. /\ DOMAIN bs = 1..n /\ n \in Nat
      /\ \A i \in 1..n : bs[i].kind = rs[m + i].kind /\ bs[i].n = m + i
  <2>1. rs \in Seq(RowSet) /\ \A i \in 1..n : rs[m + i].n = m + i
    BY DEF ByPlace
  <2>2. QED
    BY <2>1, BehindRows
<1>2. m \in Nat /\ k \in Nat /\ x \in Nat /\ Len(rs) \in Nat /\ x < k
  <2>1. m \in Nat /\ k \in Nat /\ x \in Nat /\ Len(rs) \in Nat
    BY DEF ByPlace
  <2>2. QED
    BY <2>1
<1> HIDE DEF bs
<1>3. x - m \in 1..n /\ k - m \in 1..n /\ x - m + 1 \in 1..n
  BY <1>2
<1> HIDE DEF n
<1>4. bs[x - m].kind = "user" /\ bs[x - m + 1].kind = "assistant" /\ bs[x - m].n = x /\ bs[k - m].n = k
  <2>1. m + (x - m) = x /\ m + (k - m) = k /\ m + (x - m + 1) = x + 1 /\ x + 1 \in (x + 1)..k
    BY <1>2
  <2>2. QED
    BY <1>1, <1>3, <2>1
<1>5. x - m \in Prompts(bs)
  BY <1>1, <1>3, <1>4 DEF Prompts
<1>6. PICK j \in DOMAIN ts : ts[j].user = bs[x - m]
  BY <1>5 DEF TurnsInv, bs
<1>7. PICK a \in DOMAIN bs : TurnOf(ts[j], bs, a)
  BY <1>6 DEF TurnsInv, bs
<1>8. a = x - m
  <2>1. bs[a].n = x
    BY <1>4, <1>6, <1>7 DEF TurnOf
  <2>2. QED
    BY <1>1, <1>2, <2>1
<1>9. x - m \in Own(bs, a) /\ k - m \in Own(bs, a)
  <2>1. ASSUME NEW i \in 1..n, a < i, i <= k - m PROVE bs[i].kind = "assistant"
    <3>1. m + i \in (x + 1)..k
      BY <1>2, <1>8, <2>1
    <3>2. QED
      BY <1>1, <3>1
  <2>2. x - m <= k - m /\ x - m <= x - m /\ (x - m) \in Int
    BY <1>2
  <2>3. \A i \in 1..n : ~ (a < i /\ i <= x - m)
    BY <1>2, <1>8
  <2>4. QED
    BY <1>1, <1>3, <1>8, <2>1, <2>2, <2>3 DEF Own
<1>10. x \in RowsOf(ts[j]) /\ k \in RowsOf(ts[j])
  BY <1>4, <1>7, <1>9 DEF TurnOf
<1>11. QED
  BY <1>10

\* The prompts of the turns rise, and no turn has the prompt of a later one.
LEMMA TurnRows ==
    ASSUME NEW rs, ByPlace(rs), NEW m \in 0..Len(rs), NEW ts, TurnsInv(ts, Behind(rs, m))
    PROVE  /\ \A j \in DOMAIN ts : /\ ts[j].user.n \in (m + 1)..Len(rs) /\ ts[j].user.n \in RowsOf(ts[j])
                                   /\ RowsOf(ts[j]) \subseteq 1..Len(rs)
           /\ \A i, j \in DOMAIN ts : i < j => ts[i].user.n < ts[j].user.n /\ ts[j].user.n \notin RowsOf(ts[i])
<1> DEFINE bs == Behind(rs, m)
<1> DEFINE n == Len(rs) - m
<1>1. /\ DOMAIN bs = 1..n /\ n \in Nat
      /\ \A i \in 1..n : bs[i].kind = rs[m + i].kind /\ bs[i].n = m + i
  <2>1. rs \in Seq(RowSet) /\ \A i \in 1..n : rs[m + i].n = m + i
    BY DEF ByPlace
  <2>2. QED
    BY <2>1, BehindRows
<1>2. m \in Nat /\ Len(rs) \in Nat /\ m + n = Len(rs)
  BY DEF ByPlace
<1> HIDE DEF bs, n
<1>3. ASSUME NEW j \in DOMAIN ts
      PROVE  \E a \in 1..n : bs[a].kind = "user" /\ ts[j].user.n = m + a /\ RowsOf(ts[j]) = {m + i : i \in Own(bs, a)}
  <2>1. PICK a \in 1..n : TurnOf(ts[j], bs, a)
    BY <1>1 DEF TurnsInv, bs
  <2>2. {bs[i].n : i \in Own(bs, a)} = {m + i : i \in Own(bs, a)}
    BY <1>1 DEF Own
  <2>3. bs[a].kind = "user" /\ ts[j].user.n = m + a /\ RowsOf(ts[j]) = {m + i : i \in Own(bs, a)}
    BY <1>1, <2>1, <2>2 DEF TurnOf, Prompts
  <2>4. QED
    BY <2>3
<1>4. ASSUME NEW j \in DOMAIN ts
      PROVE  /\ ts[j].user.n \in (m + 1)..Len(rs) /\ ts[j].user.n \in RowsOf(ts[j])
             /\ RowsOf(ts[j]) \subseteq 1..Len(rs)
  <2>1. PICK a \in 1..n : ts[j].user.n = m + a /\ RowsOf(ts[j]) = {m + i : i \in Own(bs, a)}
    BY <1>3
  <2>2. a \in Own(bs, a)
    BY <1>1 DEF Own
  <2>3. m + a \in (m + 1)..Len(rs) /\ \A i \in 1..n : m + i \in 1..Len(rs)
    BY <1>1, <1>2
  <2>4. Own(bs, a) \subseteq 1..n
    BY <1>1 DEF Own
  <2>5. QED
    BY <2>1, <2>2, <2>3, <2>4
<1>5. ASSUME NEW i \in DOMAIN ts, NEW j \in DOMAIN ts, i < j
      PROVE  ts[i].user.n < ts[j].user.n /\ ts[j].user.n \notin RowsOf(ts[i])
  <2>1. PICK a \in 1..n : ts[i].user.n = m + a /\ RowsOf(ts[i]) = {m + x : x \in Own(bs, a)}
    BY <1>3
  <2>2. PICK b \in 1..n : ts[j].user.n = m + b /\ bs[b].kind = "user"
    BY <1>3
  <2>3. ts[i].user.n < ts[j].user.n
    BY <1>5 DEF TurnsInv
  <2>4. a < b
    BY <1>2, <2>1, <2>2, <2>3
  <2>5. b \notin Own(bs, a)
    <3>1. b \in DOMAIN bs /\ a < b /\ b <= b /\ bs[b].kind # "assistant"
      BY <1>1, <2>2, <2>4
    <3>2. QED
      BY <3>1 DEF Own
  <2>6. \A x \in Own(bs, a) : x \in 1..n
    BY <1>1 DEF Own
  <2>7. \A x \in Own(bs, a) : m + x # m + b
    BY <1>2, <2>5, <2>6
  <2>8. QED
    BY <2>1, <2>2, <2>3, <2>7
<1>6. QED
  BY <1>4, <1>5

-----------------------------------------------------------------------------
(* Offsets, answers and numbers of one session.  w is what the session     *)
(* looks like, e its entry in the state file, l a process's locals, ts the *)
(* turns behind the entry's offset.                                        *)

World(s) == [agent |-> agent, rows |-> rows[s], half |-> half[s], over |-> over[s],
             cut |-> cut[s], delivered |-> delivered[s], failed |-> failed[s]]

EntrySet == [offset : Nat, buffer : Nat, count : Nat, old : BOOLEAN]
Rows(e) == e.offset \div 2
SizeOf(w) == 2 * Len(w.rows) + (IF w.half # 0 THEN 1 ELSE 0)

Whole(w) ==
    /\ w.agent \in Agents /\ w.half \in Nat /\ ByPlace(w.rows)
    /\ w.half # 0 => w.half = Len(w.rows) + 1

\* The offset stands before a prompt, or the turn was cut there.
Boundary(w, k) ==
    /\ k <= Len(w.rows)
    /\ \/ IF k = Len(w.rows) THEN w.over ELSE w.rows[k + 1].kind = "user"
       \/ w.agent = "claude-code" /\ LastPrompt(w.rows, k) \in w.cut

EntryOK(w, e) ==
    /\ e.offset <= SizeOf(w) /\ (e.offset % 2 = 1 => e.buffer = Rows(e) + 1)
    /\ Boundary(w, Rows(e))

\* An answer that is accounted for.
RowDone(w, k) ==
    \/ {k, LastPrompt(w.rows, k)} \subseteq w.delivered
    \/ k \in w.failed
    \/ LastPrompt(w.rows, k) \in w.cut /\ w.agent = "claude-code"

Covered(w, k) == \A i \in 1..k : w.rows[i].kind = "assistant" => RowDone(w, i)

\* What a process has read is accounted for, or in a turn it has yet to emit.
ReadOK(w, l) ==
    /\ EntryOK(w, l.ss)
    /\ \A k \in 1..Rows(l.ss) : w.rows[k].kind = "assistant" =>
         \/ RowDone(w, k)
         \/ \E j \in (l.emitted + 1)..Len(l.turns) : {k, LastPrompt(w.rows, k)} \subseteq RowsOf(l.turns[j])

TurnsBehind(w, k) == BuildTurns(w.agent, Behind(w.rows, k))

\* Numbers stand for the prompts before the entry's offset, and for those of the turns behind.
Numbered(nums, e, ts) ==
    /\ \A a \in nums :
         \/ a[1] <= e.count /\ a[2] <= Rows(e)
         \/ \E j \in DOMAIN ts : a[1] = e.count + j /\ a[2] = ts[j].user.n
    /\ \A a, b \in nums : a[1] = b[1] <=> a[2] = b[2]

\* A process past the lock has read the first of the turns behind the entry.
Reader(l, nums, e, ts) ==
    /\ l.ss.count = e.count /\ e.offset <= l.ss.offset /\ Later(l.turns, ts)
    /\ \A j \in DOMAIN l.turns : /\ l.turns[j].user.n \in (Rows(e) + 1)..Rows(l.ss)
                                 /\ l.turns[j].user.n \in RowsOf(l.turns[j]) /\ RowsOf(l.turns[j]) \subseteq 1..Rows(l.ss)
    /\ \A i, j \in DOMAIN l.turns :
         i < j => l.turns[i].user.n < l.turns[j].user.n /\ l.turns[j].user.n \notin RowsOf(l.turns[i])
    /\ \A a \in nums : a[1] <= e.count + Len(l.turns)

\* What a session may become while the file is not truncated.
Grows(w, w2) ==
    /\ w2.agent = w.agent /\ Len(w.rows) <= Len(w2.rows)
    /\ \A i \in 1..Len(w.rows) : w2.rows[i] = w.rows[i]
    /\ w.over => IF Len(w2.rows) = Len(w.rows) THEN w2.over ELSE w2.rows[Len(w.rows) + 1].kind = "user"
    /\ SizeOf(w) <= SizeOf(w2)
    /\ w.cut \subseteq w2.cut /\ w.delivered \subseteq w2.delivered /\ w.failed \subseteq w2.failed

LEMMA EntryFacts ==
    ASSUME NEW e \in EntrySet
    PROVE  Rows(e) \in Nat /\ e.offset \in Nat /\ e.count \in Nat /\ 2 * Rows(e) <= e.offset
  BY DEF EntrySet, Rows

LEMMA WholeFacts ==
    ASSUME NEW w, Whole(w)
    PROVE  /\ Len(w.rows) \in Nat /\ DOMAIN w.rows = 1..Len(w.rows) /\ SizeOf(w) \in Nat
           /\ SizeOf(w) \div 2 = Len(w.rows) /\ (SizeOf(w) % 2 = 1 => w.half # 0)
           /\ 2 * Len(w.rows) <= SizeOf(w) /\ SizeOf(w) <= 2 * Len(w.rows) + 1
<1>1. w.rows \in Seq(RowSet)
  BY DEF Whole, ByPlace
<1>2. Len(w.rows) \in Nat /\ DOMAIN w.rows = 1..Len(w.rows)
  BY <1>1
<1>3. SizeOf(w) = 2 * Len(w.rows) \/ (SizeOf(w) = 2 * Len(w.rows) + 1 /\ w.half # 0)
  <2>1. 2 * Len(w.rows) \in Int
    BY <1>2
  <2>2. CASE w.half = 0
    BY <2>1, <2>2 DEF SizeOf
  <2>3. CASE w.half # 0
    BY <2>1, <2>3 DEF SizeOf
  <2>4. QED
    BY <2>2, <2>3
<1> DEFINE n == Len(w.rows)
<1> HIDE DEF n
<1>4. \A x \in Nat : /\ (2 * x) \div 2 = x /\ (2 * x) % 2 = 0 /\ (2 * x + 1) \div 2 = x
  OBVIOUS
<1>5. QED
  BY <1>2, <1>3, <1>4

LEMMA RowDoneKept ==
    ASSUME NEW w, NEW w2, Whole(w), Whole(w2), Grows(w, w2), NEW k \in 1..Len(w.rows), RowDone(w, k)
    PROVE  RowDone(w2, k)
<1>1. LastPrompt(w2.rows, k) = LastPrompt(w.rows, k)
  <2>1. \A i \in 1..k : w2.rows[i] = w.rows[i]
    BY DEF Grows, Whole, ByPlace
  <2>2. QED
    BY <2>1, PromptAgrees
<1>2. QED
  BY <1>1 DEF RowDone, Grows

LEMMA BoundaryKept ==
    ASSUME NEW w, NEW w2, Whole(w), Whole(w2), Grows(w, w2), NEW k \in Nat, Boundary(w, k)
    PROVE  Boundary(w2, k)
<1>1. Len(w.rows) \in Nat /\ Len(w2.rows) \in Nat /\ Len(w.rows) <= Len(w2.rows) /\ k <= Len(w.rows)
  BY DEF Grows, Whole, ByPlace, Boundary
<1>2. LastPrompt(w2.rows, k) = LastPrompt(w.rows, k)
  <2>1. \A i \in 1..k : w2.rows[i] = w.rows[i]
    BY <1>1 DEF Grows
  <2>2. QED
    BY <2>1, PromptAgrees
<1>3. CASE w.agent = "claude-code" /\ LastPrompt(w.rows, k) \in w.cut
  BY <1>1, <1>2, <1>3 DEF Grows, Boundary
<1>4. CASE k = Len(w.rows) /\ w.over
  <2>1. IF Len(w2.rows) = Len(w.rows) THEN w2.over ELSE w2.rows[Len(w.rows) + 1].kind = "user"
    BY <1>4 DEF Grows
  <2>2. QED
    BY <1>1, <1>4, <2>1 DEF Boundary
<1>5. CASE k # Len(w.rows) /\ w.rows[k + 1].kind = "user"
  <2>1. k + 1 \in 1..Len(w.rows) /\ k # Len(w2.rows)
    BY <1>1, <1>5
  <2>2. w2.rows[k + 1] = w.rows[k + 1]
    BY <2>1 DEF Grows
  <2>3. QED
    BY <1>1, <1>5, <2>1, <2>2 DEF Boundary
<1>6. QED
  BY <1>3, <1>4, <1>5 DEF Boundary

LEMMA EntryKept ==
    ASSUME NEW w, NEW w2, Whole(w), Whole(w2), Grows(w, w2), NEW e \in EntrySet, EntryOK(w, e)
    PROVE  EntryOK(w2, e)
<1>1. Rows(e) \in Nat /\ e.offset \in Nat /\ SizeOf(w) \in Nat /\ SizeOf(w2) \in Nat
  BY EntryFacts, WholeFacts
<1>2. Boundary(w2, Rows(e))
  BY <1>1, BoundaryKept DEF EntryOK
<1>3. e.offset <= SizeOf(w2)
  BY <1>1 DEF EntryOK, Grows
<1>4. QED
  BY <1>2, <1>3 DEF EntryOK

LEMMA CoveredKept ==
    ASSUME NEW w, NEW w2, Whole(w), Whole(w2), Grows(w, w2), NEW k \in Nat, k <= Len(w.rows), Covered(w, k)
    PROVE  Covered(w2, k)
<1>1. ASSUME NEW i \in 1..k, w2.rows[i].kind = "assistant" PROVE RowDone(w2, i)
  <2>1. i \in 1..Len(w.rows) /\ w2.rows[i] = w.rows[i]
    BY DEF Grows, Whole, ByPlace
  <2>2. QED
    BY <1>1, <2>1, RowDoneKept DEF Covered
<1>2. QED
  BY <1>1 DEF Covered

LEMMA ReadKept ==
    ASSUME NEW w, NEW w2, Whole(w), Whole(w2), Grows(w, w2), NEW l, l.ss \in EntrySet, ReadOK(w, l)
    PROVE  ReadOK(w2, l)
<1>1. Rows(l.ss) \in Nat /\ Rows(l.ss) <= Len(w.rows) /\ Len(w.rows) \in Nat
  BY DEF EntrySet, Rows, ReadOK, EntryOK, Boundary, Whole, ByPlace
<1>2. EntryOK(w2, l.ss)
  BY EntryKept DEF ReadOK
<1>3. ASSUME NEW k \in 1..Rows(l.ss), w2.rows[k].kind = "assistant"
      PROVE  \/ RowDone(w2, k)
             \/ \E j \in (l.emitted + 1)..Len(l.turns) : {k, LastPrompt(w2.rows, k)} \subseteq RowsOf(l.turns[j])
  <2>1. k \in 1..Len(w.rows) /\ w2.rows[k] = w.rows[k] /\ \A i \in 1..k : w2.rows[i] = w.rows[i]
    BY <1>1 DEF Grows
  <2>2. LastPrompt(w2.rows, k) = LastPrompt(w.rows, k)
    BY <2>1, PromptAgrees
  <2>3. CASE RowDone(w, k)
    BY <2>1, <2>3, RowDoneKept
  <2>4. CASE ~ RowDone(w, k)
    BY <1>3, <2>1, <2>2, <2>4 DEF ReadOK
  <2>5. QED
    BY <2>3, <2>4
<1>4. QED
  BY <1>2, <1>3 DEF ReadOK

LEMMA NumberedLater ==
    ASSUME NEW nums, NEW e, NEW ts, NEW ts2, ts \in Seq(TurnSet), ts2 \in Seq(TurnSet), Later(ts, ts2), Numbered(nums, e, ts)
    PROVE  Numbered(nums, e, ts2)
<1>1. DOMAIN ts = 1..Len(ts) /\ Len(ts) \in Nat /\ DOMAIN ts2 = 1..Len(ts2) /\ Len(ts2) \in Nat
  OBVIOUS
<1>2. \A j \in DOMAIN ts : j \in DOMAIN ts2 /\ ts2[j].user = ts[j].user
  BY <1>1 DEF Later
<1>3. QED
  BY <1>2 DEF Numbered

LEMMA ReaderLater ==
    ASSUME NEW l, NEW nums, NEW e, NEW ts, NEW ts2, l.turns \in Seq(TurnSet), ts \in Seq(TurnSet), ts2 \in Seq(TurnSet),
           Later(ts, ts2), Reader(l, nums, e, ts)
    PROVE  Reader(l, nums, e, ts2)
<1>1. /\ DOMAIN ts = 1..Len(ts) /\ Len(ts) \in Nat /\ DOMAIN l.turns = 1..Len(l.turns) /\ Len(l.turns) \in Nat
      /\ Len(ts2) \in Nat
  OBVIOUS
<1>2. Later(l.turns, ts)
  BY DEF Reader
<1>3. Len(l.turns) <= Len(ts2) /\ \A j \in DOMAIN l.turns : j \in DOMAIN ts
  BY <1>1, <1>2 DEF Later
<1>4. \A j \in DOMAIN l.turns : ts2[j].user = l.turns[j].user
  BY <1>2, <1>3 DEF Later
<1>5. Later(l.turns, ts2)
  BY <1>3, <1>4 DEF Later
<1>6. QED
  BY <1>5 DEF Reader

\* The rows behind the entry are read: each answer among them is in a turn, unless it
\* belongs to a turn that was cut.
LEMMA JustRead ==
    ASSUME NEW w, NEW w2, Whole(w), Whole(w2), Grows(w, w2), w2.rows = w.rows, SizeOf(w2) = SizeOf(w), w2.half = w.half,
           NEW e \in EntrySet, EntryOK(w, e), Covered(w, Rows(e)),
           NEW l, l.ss = [e EXCEPT !.offset = SizeOf(w), !.buffer = w.half], l.emitted = 0,
           l.turns = BuildTurns(w.agent, Behind(w.rows, Rows(e))),
           w.over \/ (w.agent = "claude-code" /\ LastPrompt(w.rows, Len(w.rows)) \in w2.cut)
    PROVE  ReadOK(w2, l)
<1> DEFINE m == Rows(e)
<1> DEFINE n == Len(w.rows)
<1> DEFINE ts == l.turns
<1>1. n \in Nat /\ m \in Nat /\ m <= n /\ SizeOf(w) \in Nat /\ SizeOf(w) \div 2 = n /\ (SizeOf(w) % 2 = 1 => w.half # 0)
  BY EntryFacts, WholeFacts DEF EntryOK, Boundary
<1>2. TurnsInv(ts, Behind(w.rows, m))
  <2>1. w.agent \in Agents /\ w.rows \in Seq(RowSet) /\ Rising(w.rows)
    BY DEF Whole, ByPlace, Rising
  <2>2. Behind(w.rows, m) \in Seq(PlainRow) /\ Rising(Behind(w.rows, m))
    BY <1>1, <2>1, BehindRows
  <2>3. QED
    BY <2>1, <2>2, TurnsBuilt
<1>3. l.ss.offset = SizeOf(w) /\ l.ss.buffer = w.half /\ Rows(l.ss) = n
  BY <1>1 DEF EntrySet, Rows
<1>4. ts \in Seq(TurnSet) /\ DOMAIN ts = 1..Len(ts)
  <2>1. ts \in Seq(TurnSet)
    BY <1>2 DEF TurnsInv
  <2>2. QED
    BY <2>1
<1> HIDE DEF m, n, ts
<1>5. EntryOK(w2, l.ss)
  <2>1. Boundary(w2, n)
    BY <1>1 DEF Boundary, Grows, n
  <2>2. l.ss.offset % 2 = 1 => l.ss.buffer = n + 1
    BY <1>1, <1>3 DEF Whole, n
  <2>3. QED
    BY <1>1, <1>3, <2>1, <2>2 DEF EntryOK
<1>6. ASSUME NEW k \in 1..n, w2.rows[k].kind = "assistant"
      PROVE  RowDone(w2, k) \/ \E j \in DOMAIN ts : {k, LastPrompt(w2.rows, k)} \subseteq RowsOf(ts[j])
  <2>1. CASE k <= m
    <3>1. k \in 1..m /\ k \in 1..Len(w.rows)
      BY <1>1, <2>1 DEF n
    <3>2. RowDone(w, k)
      BY <1>6, <3>1 DEF Covered, m
    <3>3. QED
      BY <3>1, <3>2, RowDoneKept
  <2>2. CASE m < k
    <3> DEFINE x == LastPrompt(w.rows, k)
    <3>1. ByPlace(w.rows) /\ k \in 0..Len(w.rows) /\ m \in 0..k /\ m \in 0..Len(w.rows) /\ k \in (m + 1)..Len(w.rows)
      BY <1>1, <2>2 DEF n, Whole
    <3>2. \/ x \in (m + 1)..k /\ w.rows[x].kind = "user" /\ \A j \in (x + 1)..k : w.rows[j].kind = "assistant"
          \/ x = LastPrompt(w.rows, m) /\ \A j \in (m + 1)..k : w.rows[j].kind = "assistant"
      BY <3>1, PromptCases
    <3> HIDE DEF x
    <3>3. CASE x \in (m + 1)..k /\ w.rows[x].kind = "user" /\ \A j \in (x + 1)..k : w.rows[j].kind = "assistant"
      <4>1. \E j \in DOMAIN ts : {k, x} \subseteq RowsOf(ts[j])
        BY <1>2, <1>6, <3>1, <3>3, InATurn
      <4>2. QED
        BY <4>1 DEF x
    <3>4. CASE x = LastPrompt(w.rows, m) /\ \A j \in (m + 1)..k : w.rows[j].kind = "assistant"
      <4>1. m + 1 \in (m + 1)..k /\ m # n
        BY <1>1, <2>2
      <4>2. w.rows[m + 1].kind # "user"
        BY <3>4, <4>1
      <4>3. w.agent = "claude-code" /\ LastPrompt(w.rows, m) \in w.cut
        BY <4>1, <4>2 DEF EntryOK, Boundary, m, n
      <4>4. QED
        BY <3>4, <4>3 DEF RowDone, Grows, x
    <3>5. QED
      BY <3>2, <3>3, <3>4
  <2>3. QED
    BY <1>1, <2>1, <2>2
<1>7. l.emitted + 1 = 1
  OBVIOUS
<1>8. QED
  BY <1>3, <1>4, <1>5, <1>6, <1>7 DEF ReadOK, ts

LEMMA JustReadNumbers ==
    ASSUME NEW w, Whole(w), NEW e \in EntrySet, EntryOK(w, e),
           NEW l, l.ss = [e EXCEPT !.offset = SizeOf(w), !.buffer = w.half],
           NEW ts, ts = BuildTurns(w.agent, Behind(w.rows, Rows(e))), l.turns = ts,
           NEW nums, nums \subseteq Nat \X Nat, Numbered(nums, e, ts)
    PROVE  Reader(l, nums, e, ts)
<1> DEFINE m == Rows(e)
<1> DEFINE n == Len(w.rows)
<1>1. n \in Nat /\ m \in Nat /\ m <= n /\ SizeOf(w) \in Nat /\ SizeOf(w) \div 2 = n /\ e.count \in Nat
  BY EntryFacts, WholeFacts DEF EntryOK, Boundary
<1>2. TurnsInv(ts, Behind(w.rows, m)) /\ ByPlace(w.rows)
  <2>1. w.agent \in Agents /\ w.rows \in Seq(RowSet) /\ Rising(w.rows)
    BY DEF Whole, ByPlace, Rising
  <2>2. Behind(w.rows, m) \in Seq(PlainRow) /\ Rising(Behind(w.rows, m))
    BY <1>1, <2>1, BehindRows
  <2>3. QED
    BY <2>1, <2>2, TurnsBuilt DEF Whole
<1>3. l.ss.count = e.count /\ l.ss.offset = SizeOf(w) /\ Rows(l.ss) = n
  BY <1>1 DEF EntrySet, Rows
<1>4. ts \in Seq(TurnSet) /\ DOMAIN ts = 1..Len(ts) /\ Len(ts) \in Nat
  <2>1. ts \in Seq(TurnSet)
    BY <1>2 DEF TurnsInv
  <2>2. QED
    BY <2>1
<1>5. m \in 0..Len(w.rows)
  BY <1>1
<1> DEFINE user(j) == ts[j].user.n
<1>6. /\ \A j \in DOMAIN ts : user(j) \in (m + 1)..n /\ user(j) \in RowsOf(ts[j]) /\ RowsOf(ts[j]) \subseteq 1..n
      /\ \A i, j \in DOMAIN ts : i < j => user(i) < user(j) /\ user(j) \notin RowsOf(ts[i])
  BY <1>2, <1>5, TurnRows
<1>7. \A a \in nums : a[1] <= e.count + Len(ts)
  <2>1. SUFFICES ASSUME NEW a \in nums PROVE a[1] <= e.count + Len(ts)
    OBVIOUS
  <2>2. a[1] \in Nat
    OBVIOUS
  <2>3. a[1] <= e.count \/ \E j \in 1..Len(ts) : a[1] = e.count + j
    BY <1>4 DEF Numbered
  <2>4. QED
    BY <1>1, <1>4, <2>2, <2>3
<1>8. Later(l.turns, ts)
  BY <1>4 DEF Later
<1>9. e.offset <= l.ss.offset
  BY <1>3 DEF EntryOK
<1> HIDE DEF m, n
<1>10. QED
  BY <1>3, <1>6, <1>7, <1>8, <1>9 DEF Reader, m

\* A turn is emitted, or fails.
LEMMA JustEmitted ==
    ASSUME NEW w, NEW w2, Whole(w), Whole(w2), Grows(w, w2), w2.rows = w.rows, NEW l, l.ss \in EntrySet, ReadOK(w, l),
           l.emitted \in Nat, Len(l.turns) \in Nat, l.emitted < Len(l.turns),
           RowsOf(l.turns[l.emitted + 1]) \subseteq w2.delivered \/ RowsOf(l.turns[l.emitted + 1]) \subseteq w2.failed,
           NEW l2, l2.ss = l.ss, l2.turns = l.turns, l2.emitted = l.emitted + 1
    PROVE  ReadOK(w2, l2)
<1>1. ReadOK(w2, l)
  BY ReadKept
<1>2. ASSUME NEW k \in 1..Rows(l2.ss), w2.rows[k].kind = "assistant"
      PROVE  \/ RowDone(w2, k)
             \/ \E j \in (l2.emitted + 1)..Len(l2.turns) : {k, LastPrompt(w2.rows, k)} \subseteq RowsOf(l2.turns[j])
  <2>1. SUFFICES ASSUME ~ RowDone(w2, k)
                 PROVE  \E j \in (l2.emitted + 1)..Len(l2.turns) : {k, LastPrompt(w2.rows, k)} \subseteq RowsOf(l2.turns[j])
    OBVIOUS
  <2>2. PICK j \in (l.emitted + 1)..Len(l.turns) : {k, LastPrompt(w2.rows, k)} \subseteq RowsOf(l.turns[j])
    BY <1>1, <1>2, <2>1 DEF ReadOK
  <2>3. j # l.emitted + 1
    BY <2>1, <2>2 DEF RowDone
  <2>4. j \in (l2.emitted + 1)..Len(l2.turns)
    BY <2>2, <2>3
  <2>5. QED
    BY <2>2, <2>4
<1>3. QED
  BY <1>1, <1>2 DEF ReadOK

LEMMA JustNumbered ==
    ASSUME NEW e \in EntrySet, NEW ts \in Seq(TurnSet), NEW nums, nums \subseteq Nat \X Nat, Numbered(nums, e, ts),
           NEW l, l.turns \in Seq(TurnSet), l.emitted \in Nat, l.emitted < Len(l.turns), l.ss \in EntrySet, Reader(l, nums, e, ts),
           NEW l2, l2.ss = l.ss, l2.turns = l.turns,
           NEW nums2, nums2 = nums \cup {<<l.ss.count + l.emitted + 1, l.turns[l.emitted + 1].user.n>>}
    PROVE  Numbered(nums2, e, ts) /\ Reader(l2, nums2, e, ts)
<1> DEFINE j == l.emitted + 1
<1> DEFINE c == e.count
<1> DEFINE u(i) == l.turns[i].user.n
<1> DEFINE n == Len(l.turns)
<1>1. /\ j \in 1..n /\ n \in Nat /\ c \in Nat /\ Rows(e) \in Nat /\ l.ss.count = c /\ Rows(l.ss) \in Nat
      /\ Later(l.turns, ts) /\ Len(ts) \in Nat /\ DOMAIN ts = 1..Len(ts) /\ DOMAIN l.turns = 1..n
      /\ \A i \in 1..n : u(i) \in (Rows(e) + 1)..Rows(l.ss)
      /\ \A i, k \in 1..n : i < k => u(i) < u(k)
      /\ \A a \in nums : a[1] <= c + n
  <2>1. c \in Nat /\ Rows(e) \in Nat /\ Rows(l.ss) \in Nat
    BY EntryFacts
  <2>2. n \in Nat /\ DOMAIN l.turns = 1..n /\ Len(ts) \in Nat /\ DOMAIN ts = 1..Len(ts) /\ j \in 1..n
    OBVIOUS
  <2>3. /\ l.ss.count = c /\ Later(l.turns, ts)
        /\ \A i \in DOMAIN l.turns : l.turns[i].user.n \in (Rows(e) + 1)..Rows(l.ss)
        /\ \A i, k \in DOMAIN l.turns : i < k => l.turns[i].user.n < l.turns[k].user.n
        /\ \A a \in nums : a[1] <= c + n
    BY DEF Reader
  <2>4. /\ \A i \in 1..n : u(i) \in (Rows(e) + 1)..Rows(l.ss)
        /\ \A i, k \in 1..n : i < k => u(i) < u(k)
    BY <2>2, <2>3
  <2> HIDE DEF n, j, u, c
  <2>5. QED
    BY <2>1, <2>2, <2>3, <2>4
<1> DEFINE new == <<c + j, u(j)>>
<1>2. nums2 = nums \cup {new}
  BY <1>1
<1>3. \A i \in 1..n : i \in DOMAIN ts /\ ts[i].user.n = u(i)
  <2>1. n <= Len(ts) /\ \A i \in DOMAIN l.turns : ts[i].user = l.turns[i].user
    BY <1>1 DEF Later
  <2>2. 1..n \subseteq DOMAIN ts
    BY <1>1, <2>1
  <2>3. QED
    BY <1>1, <2>1, <2>2
<1>4. \A i, k \in 1..n : u(i) = u(k) => i = k
  BY <1>1
<1>5. \A a \in nums : a[1] \in Nat /\ a[2] \in Nat
  OBVIOUS
<1> HIDE DEF u, j, n
<1>6. new[1] = c + j /\ new[2] = u(j)
  OBVIOUS
<1> HIDE DEF new
<1>7. ASSUME NEW a \in nums PROVE a[1] = new[1] <=> a[2] = new[2]
  <2>1. (a[1] <= c /\ a[2] <= Rows(e)) \/ \E i \in DOMAIN ts : a[1] = c + i /\ a[2] = ts[i].user.n
    BY DEF Numbered
  <2>2. CASE a[1] <= c /\ a[2] <= Rows(e)
    <3>1. c \in Nat /\ j \in Nat /\ j >= 1 /\ Rows(e) \in Nat /\ u(j) \in (Rows(e) + 1)..Rows(l.ss) /\ Rows(l.ss) \in Nat
      BY <1>1
    <3>2. a[1] \in Nat /\ a[2] \in Nat
      BY <1>5
    <3> HIDE DEF c
    <3>3. a[1] # new[1]
      BY <1>6, <2>2, <3>1, <3>2
    <3>4. a[2] # new[2]
      BY <1>6, <2>2, <3>1, <3>2
    <3>5. QED
      BY <3>3, <3>4
  <2>3. ASSUME NEW i \in DOMAIN ts, a[1] = c + i, a[2] = ts[i].user.n PROVE a[1] = new[1] <=> a[2] = new[2]
    <3>1. i \in 1..n
      BY <1>1, <2>3
    <3>2. a[1] = c + i /\ a[2] = u(i)
      BY <1>3, <2>3, <3>1
    <3>3. QED
      <4>1. c \in Nat /\ j \in 1..n /\ n \in Nat
        BY <1>1
      <4>2. u(i) = u(j) <=> i = j
        BY <1>4, <3>1, <4>1
      <4>3. i \in Nat /\ j \in Nat
        BY <3>1, <4>1
      <4>4. a[1] = new[1] <=> i = j
        BY <1>6, <3>2, <4>1, <4>3
      <4>5. QED
        BY <1>6, <3>2, <4>2, <4>4
  <2>4. QED
    BY <2>1, <2>2, <2>3
<1>8. Numbered(nums2, e, ts)
  <2>1. \A a \in nums2 : (a[1] <= c /\ a[2] <= Rows(e)) \/ \E i \in DOMAIN ts : a[1] = c + i /\ a[2] = ts[i].user.n
    <3>1. \A a \in nums : (a[1] <= c /\ a[2] <= Rows(e)) \/ \E i \in DOMAIN ts : a[1] = c + i /\ a[2] = ts[i].user.n
      BY DEF Numbered
    <3>2. \E i \in DOMAIN ts : new[1] = c + i /\ new[2] = ts[i].user.n
      BY <1>1, <1>3, <1>6
    <3>3. QED
      BY <1>2, <3>1, <3>2
  <2>2. \A a, b \in nums2 : a[1] = b[1] <=> a[2] = b[2]
    <3>1. \A a, b \in nums : a[1] = b[1] <=> a[2] = b[2]
      BY DEF Numbered
    <3>2. QED
      BY <1>2, <1>7, <3>1
  <2>3. QED
    BY <2>1, <2>2 DEF Numbered
<1>9. Reader(l2, nums2, e, ts)
  <2>1. \A a \in nums2 : a[1] <= c + n
    BY <1>1, <1>2, <1>6
  <2>2. QED
    BY <2>1 DEF Reader, n
<1>10. QED
  BY <1>8, <1>9

\* The offset moves behind all that was read, the count behind all that was numbered.
LEMMA JustSaved ==
    ASSUME NEW e \in EntrySet, NEW ts \in Seq(TurnSet), NEW nums, nums \subseteq Nat \X Nat, Numbered(nums, e, ts),
           NEW l, l.turns \in Seq(TurnSet), l.ss \in EntrySet, Reader(l, nums, e, ts),
           NEW e2, e2.count = e.count + Len(l.turns), Rows(e2) = Rows(l.ss), NEW ts2
    PROVE  Numbered(nums, e2, ts2)
<1>1. Rows(e) \in Nat /\ Rows(l.ss) \in Nat /\ e.offset <= l.ss.offset /\ e.offset \in Nat /\ l.ss.offset \in Nat
  BY EntryFacts DEF Reader
<1>2. Rows(e) <= Rows(l.ss)
  BY <1>1 DEF Rows
<1>3. ASSUME NEW a \in nums PROVE a[1] <= e2.count /\ a[2] <= Rows(e2)
  <2>1. a[1] <= e2.count
    BY DEF Reader
  <2>2. CASE a[1] <= e.count /\ a[2] <= Rows(e)
    <3>1. a[2] \in Nat
      OBVIOUS
    <3>2. QED
      BY <1>1, <1>2, <2>1, <2>2, <3>1
  <2>3. ASSUME NEW j \in DOMAIN ts, a[1] = e.count + j, a[2] = ts[j].user.n PROVE a[2] <= Rows(e2)
    <3>1. j \in DOMAIN l.turns
      <4>1. j \in Nat /\ j >= 1 /\ e.count \in Nat /\ Len(l.turns) \in Nat /\ DOMAIN l.turns = 1..Len(l.turns)
        BY EntryFacts
      <4>2. j <= Len(l.turns)
        BY <2>1, <2>3, <4>1
      <4>3. QED
        BY <4>1, <4>2
    <3>2. ts[j].user = l.turns[j].user /\ l.turns[j].user.n \in (Rows(e) + 1)..Rows(l.ss)
      BY <3>1 DEF Reader, Later
    <3>3. QED
      BY <1>1, <2>3, <3>2
  <2>4. QED
    BY <2>1, <2>2, <2>3 DEF Numbered
<1>4. \A a, b \in nums : a[1] = b[1] <=> a[2] = b[2]
  BY DEF Numbered
<1>5. QED
  BY <1>3, <1>4 DEF Numbered

-----------------------------------------------------------------------------
(* The inductive invariant.                                                *)

IsEntries(m) == DOMAIN m \subseteq Sessions /\ \A s \in DOMAIN m : m[s] \in EntrySet

ProcOK(l) ==
    /\ l.pc \in {"idle", "lock", "emit"} /\ l.session \in Sessions \cup {None} /\ l.stop \in BOOLEAN
    /\ IsEntries(l.state) /\ l.ss \in EntrySet /\ l.turns \in Seq(TurnSet) /\ l.emitted \in Nat

HookTypeOK ==
    /\ agent \in Agents
    /\ rows \in [Sessions -> Seq(RowSet)]
    /\ written \in [Sessions -> Nat] /\ half \in [Sessions -> Nat] /\ over \in [Sessions -> BOOLEAN]
    /\ IsEntries(state) /\ \A p \in Procs : ProcOK(proc[p])
    /\ delivered \in [Sessions -> SUBSET Nat] /\ failed \in [Sessions -> SUBSET Nat]
    /\ twice \in [Sessions -> SUBSET Nat] /\ cut \in [Sessions -> SUBSET Nat]
    /\ numbers \in [Sessions -> SUBSET (Nat \X Nat)] /\ DOMAIN excuse = Sessions

Untruncated(s) == "truncated" \notin excuse[s]
Steady(s) == excuse[s] \cap {"forgot", "truncated"} = {}

\* Rows are numbered as they are written, without a truncation by their places.
WrittenOK(rs, z, h) ==
    /\ Rising(rs) /\ \A i \in DOMAIN rs : rs[i].n <= z /\ (h # 0 => rs[i].n < h)
    /\ h # 0 => h = z
PlacesOK(rs, z, h) == (\A i \in DOMAIN rs : rs[i].n = i) /\ z = Len(rs) + (IF h # 0 THEN 1 ELSE 0)
RowsNumbered ==
    \A s \in Sessions : /\ WrittenOK(rows[s], written[s], half[s])
                        /\ Untruncated(s) => PlacesOK(rows[s], written[s], half[s])

\* A process has its session until it ends; the turn it was called for is over.
ProcsInSession ==
    \A p \in Procs :
        /\ At(p, "idle") => proc[p].session = None
        /\ ~ At(p, "idle") => /\ proc[p].session \in Sessions
                              /\ IF proc[p].stop THEN over[proc[p].session] ELSE agent = "claude-code"
        /\ At(p, "lock") => proc[p].emitted = 0
        /\ At(p, "emit") => proc[p].emitted <= Len(proc[p].turns)
        /\ proc[p].file <= upgrades

Entry(s) == LoadSession(state, s)
Pending(s) == TurnsBehind(World(s), Rows(Entry(s)))

EntryDone(w, e) == EntryOK(w, e) /\ Covered(w, Rows(e))

\* Saved and loaded offsets have accounted answers before them.
AllAccounted ==
    \A s \in Sessions : Untruncated(s) =>
        /\ Boundary(World(s), 0)
        /\ EntryDone(World(s), Entry(s))
        /\ \A p \in Procs : PastLock(p) =>
             /\ EntryDone(World(s), LoadSession(proc[p].state, s))
             /\ proc[p].session = s => ReadOK(World(s), proc[p])

\* Whoever is past the lock has loaded what is saved.
AllNumbered ==
    /\ upgrades > 0 => \A s \in Sessions : "forgot" \in excuse[s]
    /\ \A s \in Sessions : Steady(s) =>
         /\ Numbered(numbers[s], Entry(s), Pending(s))
         /\ \A p \in Procs : PastLock(p) =>
              /\ LoadSession(proc[p].state, s) = Entry(s)
              /\ proc[p].session = s => Reader(proc[p], numbers[s], Entry(s), Pending(s))

\* What is delivered lies before the saved offset or was emitted by who is past the lock.
OnceDelivered ==
    \A s \in Sessions : excuse[s] = {} =>
        /\ twice[s] = {}
        /\ \A n \in delivered[s] :
             \/ n <= Rows(Entry(s))
             \/ \E p \in Procs : /\ PastLock(p) /\ proc[p].session = s
                                 /\ \E j \in 1..proc[p].emitted : n \in RowsOf(proc[p].turns[j])

HookInv == /\ LockInv /\ HookTypeOK /\ RowsNumbered /\ ProcsInSession
           /\ AllAccounted /\ AllNumbered /\ OnceDelivered

-----------------------------------------------------------------------------
(* What every step has to keep.                                            *)

LEMMA OfTiers ==
    ASSUME NEW r \in DeliverTrace(TRUE, TRUE)
    PROVE  \E a \in Answer, b \in Answer, c \in AppendFailedTrace : r = Tiers(a, b, c)
  BY SMT DEF DeliverTrace, PostLangstash, PostLangfuseOtel

LEMMA DeliverFacts ==
    \A r \in DeliverTrace(TRUE, TRUE) \cup {BuildRaises} : r.copies \in Nat /\ (r.copies > 1 => r.unanswered)
<1>1. ASSUME NEW tried, NEW n \in Nat, DOMAIN tried = 1..n
      PROVE  Result(tried).copies \in Nat /\ (Result(tried).copies > 1 => \E i, j \in 1..n : i # j /\ tried[i].stored /\ tried[j].stored)
  <2> DEFINE S == {i \in 1..n : tried[i].stored}
  <2>1. IsFiniteSet(S)
    <3>1. IsFiniteSet(1..n) /\ S \subseteq 1..n
      BY FS_Interval
    <3>2. QED
      BY <3>1, FS_Subset
  <2>2. Result(tried).copies = Cardinality(S)
    BY <1>1 DEF Result
  <2> HIDE DEF S
  <2>3. Cardinality(S) \in Nat
    BY <2>1, FS_CardinalityType
  <2>4. ASSUME Cardinality(S) > 1 PROVE \E i, j \in S : i # j
    <3>1. S # {}
      BY <2>4, FS_EmptySet
    <3>2. PICK i \in S : TRUE
      BY <3>1
    <3>3. ASSUME S = {i} PROVE FALSE
      <4>1. Cardinality(S) = 1
        BY <3>3, FS_Singleton
      <4>2. QED
        BY <2>4, <4>1
    <3>4. QED
      BY <3>2, <3>3
  <2>5. QED
    BY <2>2, <2>3, <2>4 DEF S
<1>2. ASSUME NEW a \in Answer, NEW b \in Answer, NEW c \in AppendFailedTrace,
             NEW tried, tried = IF a.ok THEN <<a>> ELSE IF b.ok THEN <<a, b>> ELSE <<a, b, c>>
      PROVE  Result(tried).copies \in Nat /\ (Result(tried).copies > 1 => Result(tried).unanswered)
  <2>1. CASE a.ok
    <3>1. DOMAIN tried = 1..1
      BY <1>2, <2>1
    <3>2. ~ \E i, j \in 1..1 : i # j /\ tried[i].stored /\ tried[j].stored
      OBVIOUS
    <3>3. QED
      BY <1>1, <3>1, <3>2
  <2>2. CASE ~ a.ok /\ b.ok
    <3>1. DOMAIN tried = 1..2 /\ tried[1] = a /\ tried[2] = b
      BY <1>2, <2>2
    <3>2. ASSUME NEW i \in 1..2, NEW j \in 1..2, i # j, tried[i].stored, tried[j].stored PROVE Result(tried).unanswered
      <4>1. 1 \in DOMAIN tried /\ tried[1].stored /\ ~ tried[1].ok
        BY <2>2, <3>1, <3>2
      <4>2. QED
        BY <4>1 DEF Result
    <3>3. QED
      BY <1>1, <3>1, <3>2
  <2>3. CASE ~ a.ok /\ ~ b.ok
    <3>1. DOMAIN tried = 1..3 /\ tried[1] = a /\ tried[2] = b
      BY <1>2, <2>3
    <3>2. ASSUME NEW i \in 1..3, NEW j \in 1..3, i # j, tried[i].stored, tried[j].stored PROVE Result(tried).unanswered
      <4>1. \E x \in {1, 2} : tried[x].stored /\ ~ tried[x].ok
        BY <2>3, <3>1, <3>2
      <4>2. QED
        BY <3>1, <4>1 DEF Result
    <3>3. QED
      BY <1>1, <3>1, <3>2
  <2>4. QED
    BY <2>1, <2>2, <2>3
<1>3. ASSUME NEW r \in DeliverTrace(TRUE, TRUE) PROVE r.copies \in Nat /\ (r.copies > 1 => r.unanswered)
  <2>1. PICK a \in Answer, b \in Answer, c \in AppendFailedTrace : r = Tiers(a, b, c)
    BY OfTiers
  <2>2. QED
    BY <1>2, <2>1 DEF Tiers
<1>4. BuildRaises.copies \in Nat /\ ~ (BuildRaises.copies > 1)
  BY DEF BuildRaises
<1>5. QED
  BY <1>3, <1>4

LEMMA WorldIsWhole ==
    ASSUME HookTypeOK, RowsNumbered, NEW s \in Sessions, Untruncated(s)
    PROVE  Whole(World(s))
<1>1. rows[s] \in Seq(RowSet) /\ half[s] \in Nat /\ agent \in Agents /\ written[s] \in Nat /\ Len(rows[s]) \in Nat
  BY DEF HookTypeOK
<1>2. /\ \A i \in DOMAIN rows[s] : rows[s][i].n = i
      /\ written[s] = Len(rows[s]) + (IF half[s] # 0 THEN 1 ELSE 0) /\ (half[s] # 0 => half[s] = written[s])
  BY DEF RowsNumbered, WrittenOK, PlacesOK
<1>3. half[s] # 0 => half[s] = Len(rows[s]) + 1
  BY <1>1, <1>2
<1>4. QED
  BY <1>1, <1>2, <1>3 DEF Whole, World, ByPlace

LEMMA WorldIsWholeNext ==
    ASSUME HookTypeOK', RowsNumbered', NEW s \in Sessions, Untruncated(s)'
    PROVE  Whole(World(s)')
<1>1. rows'[s] \in Seq(RowSet) /\ half'[s] \in Nat /\ agent' \in Agents /\ written'[s] \in Nat /\ Len(rows'[s]) \in Nat
  BY DEF HookTypeOK
<1>2. /\ \A i \in DOMAIN rows'[s] : rows'[s][i].n = i
      /\ written'[s] = Len(rows'[s]) + (IF half'[s] # 0 THEN 1 ELSE 0) /\ (half'[s] # 0 => half'[s] = written'[s])
  BY DEF RowsNumbered, WrittenOK, PlacesOK, Untruncated
<1>3. half'[s] # 0 => half'[s] = Len(rows'[s]) + 1
  BY <1>1, <1>2
<1>4. QED
  BY <1>1, <1>2, <1>3 DEF Whole, World, ByPlace

LEMMA NoEntryType == NoEntry \in EntrySet /\ NoEntry.offset = 0 /\ NoEntry.count = 0 /\ Rows(NoEntry) = 0
  BY DEF NoEntry, EntrySet, Rows

LEMMA LoadType == ASSUME NEW m, IsEntries(m), NEW s PROVE LoadSession(m, s) \in EntrySet
  BY NoEntryType DEF LoadSession, IsEntries

\* A session that is not known is read from its beginning.
LEMMA NoEntryDone ==
    ASSUME NEW w, Whole(w), Boundary(w, 0)
    PROVE  EntryDone(w, NoEntry)
<1>1. SizeOf(w) \in Nat
  BY WholeFacts
<1>2. QED
  BY <1>1, NoEntryType DEF EntryDone, EntryOK, Covered

LEMMA EntryDoneKept ==
    ASSUME NEW w, NEW w2, Whole(w), Whole(w2), Grows(w, w2), NEW e \in EntrySet, EntryDone(w, e)
    PROVE  EntryDone(w2, e)
<1>1. Rows(e) \in Nat /\ Rows(e) <= Len(w.rows)
  BY EntryFacts DEF EntryDone, EntryOK, Boundary
<1>2. QED
  BY <1>1, EntryKept, CoveredKept DEF EntryDone

LEMMA SameGrows == ASSUME NEW w, Whole(w) PROVE Grows(w, w)
  BY WholeFacts DEF Grows

LEMMA AccountedStep ==
    ASSUME HookTypeOK, RowsNumbered, AllAccounted, HookTypeOK', RowsNumbered',
           \A s \in Sessions : Untruncated(s)' => Untruncated(s) /\ Grows(World(s), World(s)'),
           \A s \in Sessions : Untruncated(s)' => Entry(s)' = Entry(s) \/ Entry(s)' = NoEntry \/ EntryDone(World(s)', Entry(s)'),
           \A p \in Procs : PastLock(p)' =>
             \/ PastLock(p) /\ proc'[p] = proc[p]
             \/ \A s \in Sessions : Untruncated(s)' =>
                  /\ EntryDone(World(s)', LoadSession(proc[p].state, s)')
                  /\ proc'[p].session = s => ReadOK(World(s)', proc'[p])
    PROVE  AllAccounted'
<1>1. SUFFICES ASSUME NEW s \in Sessions, Untruncated(s)'
               PROVE  /\ Boundary(World(s)', 0)
                      /\ EntryDone(World(s)', Entry(s)')
                      /\ \A p \in Procs : PastLock(p)' =>
                           /\ EntryDone(World(s)', LoadSession(proc[p].state, s)')
                           /\ proc'[p].session = s => ReadOK(World(s)', proc'[p])
  BY DEF AllAccounted
<1> DEFINE w == World(s)
<1> DEFINE w2 == World(s)'
<1>2. Untruncated(s) /\ Grows(w, w2) /\ Whole(w) /\ Whole(w2)
  BY <1>1, WorldIsWhole, WorldIsWholeNext
<1>3. Boundary(w, 0) /\ EntryDone(w, Entry(s))
  BY <1>2 DEF AllAccounted
<1>4. Entry(s) \in EntrySet
  BY LoadType DEF Entry, HookTypeOK
<1> HIDE DEF w, w2
<1>5. Boundary(w2, 0)
  BY <1>2, <1>3, BoundaryKept
<1>6. EntryDone(w2, Entry(s)) /\ EntryDone(w2, NoEntry)
  BY <1>2, <1>3, <1>4, <1>5, EntryDoneKept, NoEntryDone
<1>7. EntryDone(w2, Entry(s)')
  BY <1>1, <1>6 DEF w2
<1>8. ASSUME NEW p \in Procs, PastLock(p)'
      PROVE  /\ EntryDone(w2, LoadSession(proc[p].state, s)')
             /\ proc'[p].session = s => ReadOK(w2, proc'[p])
  <2>1. CASE PastLock(p) /\ proc'[p] = proc[p]
    <3>1. /\ EntryDone(w, LoadSession(proc[p].state, s))
          /\ proc[p].session = s => ReadOK(w, proc[p])
      BY <1>2, <2>1 DEF AllAccounted, w
    <3>2. LoadSession(proc[p].state, s) \in EntrySet /\ proc[p].ss \in EntrySet
      BY LoadType DEF HookTypeOK, ProcOK
    <3> DEFINE l == proc[p]
    <3> HIDE DEF l
    <3>3. proc[p].session = s => ReadOK(w2, l)
      BY <1>2, <3>1, <3>2, ReadKept DEF l
    <3> DEFINE e == LoadSession(proc[p].state, s)
    <3>5. LoadSession(proc[p].state, s)' = e
      BY <2>1 DEF LoadSession
    <3> HIDE DEF e
    <3>4. EntryDone(w2, e)
      BY <1>2, <3>1, <3>2, EntryDoneKept DEF e
    <3>6. QED
      BY <2>1, <3>3, <3>4, <3>5 DEF l
  <2>2. CASE ~ (PastLock(p) /\ proc'[p] = proc[p])
    BY <1>1, <1>8, <2>2 DEF w2
  <2>3. QED
    BY <2>1, <2>2
<1>9. QED
  BY <1>5, <1>7, <1>8 DEF w2

\* Steps that number nothing.
LEMMA NumberedStep ==
    ASSUME HookTypeOK, HookTypeOK', AllNumbered, numbers' = numbers,
           upgrades' > 0 => \A s \in Sessions : "forgot" \in excuse'[s],
           \A s \in Sessions : Steady(s)' => 
             /\ Steady(s) /\ Entry(s)'.count = Entry(s).count /\ Entry(s)'.offset = Entry(s).offset
             /\ Pending(s) \in Seq(TurnSet) /\ Pending(s)' \in Seq(TurnSet) /\ Later(Pending(s), Pending(s)'),
           \A p \in Procs : PastLock(p)' => PastLock(p) /\ proc'[p] = proc[p],
           (\E p \in Procs : PastLock(p)') => \A s \in Sessions : Steady(s)' => Entry(s)' = Entry(s)
    PROVE  AllNumbered'
<1>1. SUFFICES ASSUME NEW s \in Sessions, Steady(s)'
               PROVE  /\ Numbered(numbers'[s], Entry(s)', Pending(s)')
                      /\ \A p \in Procs : PastLock(p)' =>
                           /\ LoadSession(proc[p].state, s)' = Entry(s)'
                           /\ proc'[p].session = s => Reader(proc'[p], numbers'[s], Entry(s)', Pending(s)')
  BY DEF AllNumbered
<1>2. Steady(s) /\ Numbered(numbers[s], Entry(s), Pending(s))
  BY <1>1 DEF AllNumbered
<1> DEFINE e == Entry(s)
<1> DEFINE e2 == Entry(s)'
<1> DEFINE ts == Pending(s)
<1> DEFINE ts2 == Pending(s)'
<1>3. e2.count = e.count /\ e2.offset = e.offset /\ ts \in Seq(TurnSet) /\ ts2 \in Seq(TurnSet) /\ Later(ts, ts2)
  BY <1>1
<1>4. Numbered(numbers[s], e, ts)
  BY <1>2
<1>9. (\E p \in Procs : PastLock(p)') => e2 = e
  BY <1>1
<1> HIDE DEF e, e2, ts, ts2
<1>5. Numbered(numbers[s], e2, ts)
  BY <1>3, <1>4 DEF Numbered, Rows
<1>6. Numbered(numbers[s], e2, ts2)
  BY <1>3, <1>5, NumberedLater
<1>7. ASSUME NEW p \in Procs, PastLock(p)'
      PROVE  /\ LoadSession(proc[p].state, s)' = e2
             /\ proc'[p].session = s => Reader(proc'[p], numbers'[s], e2, ts2)
  <2>1. PastLock(p) /\ proc'[p] = proc[p] /\ e2 = e
    BY <1>7, <1>9
  <2>2. LoadSession(proc[p].state, s) = e /\ (proc[p].session = s => Reader(proc[p], numbers[s], e, ts))
    BY <1>2, <2>1 DEF AllNumbered, e, ts
  <2>3. LoadSession(proc[p].state, s)' = e2
    BY <2>1, <2>2 DEF LoadSession
  <2> DEFINE l == proc[p]
  <2>4. l.turns \in Seq(TurnSet)
    BY DEF HookTypeOK, ProcOK
  <2> HIDE DEF l
  <2>5. l.session = s => Reader(l, numbers[s], e, ts2)
    BY <1>3, <2>2, <2>4, ReaderLater DEF l
  <2>6. QED
    BY <2>1, <2>3, <2>5 DEF l
<1>8. QED
  BY <1>6, <1>7 DEF e2, ts2

\* Steps that deliver nothing.
LEMMA OnceStep ==
    ASSUME HookTypeOK, OnceDelivered, delivered' = delivered, twice' = twice,
           \A s \in Sessions : excuse'[s] = {} => excuse[s] = {} /\ Rows(Entry(s)') = Rows(Entry(s)),
           \A p \in Procs : PastLock(p) /\ proc[p].session \in Sessions /\ proc[p].emitted > 0 /\ excuse'[proc[p].session] = {} =>
             /\ PastLock(p)' /\ proc'[p].session = proc[p].session
             /\ proc'[p].emitted = proc[p].emitted /\ proc'[p].turns = proc[p].turns
    PROVE  OnceDelivered'
<1>1. SUFFICES ASSUME NEW s \in Sessions, excuse'[s] = {}
               PROVE  /\ twice'[s] = {}
                      /\ \A n \in delivered'[s] :
                           \/ n <= Rows(Entry(s)')
                           \/ \E p \in Procs : /\ PastLock(p)' /\ proc'[p].session = s
                                               /\ \E j \in 1..proc'[p].emitted : n \in RowsOf(proc'[p].turns[j])
  BY DEF OnceDelivered, Rows
<1>2. excuse[s] = {} /\ twice[s] = {} /\ Rows(Entry(s)') = Rows(Entry(s))
  BY <1>1 DEF OnceDelivered
<1>3. ASSUME NEW n \in delivered[s], ~ (n <= Rows(Entry(s)))
      PROVE  \E p \in Procs : /\ PastLock(p)' /\ proc'[p].session = s
                              /\ \E j \in 1..proc'[p].emitted : n \in RowsOf(proc'[p].turns[j])
  <2>1. PICK p \in Procs : /\ PastLock(p) /\ proc[p].session = s
                           /\ \E j \in 1..proc[p].emitted : n \in RowsOf(proc[p].turns[j])
    BY <1>2, <1>3 DEF OnceDelivered
  <2>2. PICK j \in 1..proc[p].emitted : n \in RowsOf(proc[p].turns[j])
    BY <2>1
  <2>3. proc[p].emitted > 0
    BY <2>2 DEF HookTypeOK, ProcOK
  <2>4. /\ PastLock(p)' /\ proc'[p].session = s
        /\ proc'[p].emitted = proc[p].emitted /\ proc'[p].turns = proc[p].turns
    BY <1>1, <2>1, <2>3
  <2>5. QED
    BY <2>2, <2>4
<1>4. QED
  BY <1>2, <1>3

\* Without an upgrade, one process is past the lock.
LEMMA OnePast ==
    ASSUME LockInv, ProcsInSession, upgrades = 0,
           NEW p \in Procs, NEW q \in Procs, PastLock(p), PastLock(q)
    PROVE  p = q
<1>1. proc[p].file = 0 /\ proc[q].file = 0
  BY HookAssumption DEF LockInv, ProcsInSession
<1>2. QED
  BY <1>1 DEF LockInv

LEMMA PendingLater ==
    ASSUME NEW w, NEW w2, Whole(w), Whole(w2), w2.agent = w.agent, NEW k \in Nat, k <= Len(w.rows),
           w2.rows = w.rows \/ \E r \in RowSet : w2.rows = Append(w.rows, r)
    PROVE  /\ TurnsBehind(w, k) \in Seq(TurnSet) /\ TurnsBehind(w2, k) \in Seq(TurnSet)
           /\ Later(TurnsBehind(w, k), TurnsBehind(w2, k))
<1>1. ASSUME NEW v, Whole(v), k <= Len(v.rows)
      PROVE  /\ v.rows \in Seq(RowSet) /\ v.agent \in Agents /\ k \in 0..Len(v.rows)
             /\ Behind(v.rows, k) \in Seq(PlainRow) /\ Rising(Behind(v.rows, k))
             /\ TurnsBehind(v, k) \in Seq(TurnSet)
  <2>1. v.rows \in Seq(RowSet) /\ v.agent \in Agents /\ Rising(v.rows)
    BY <1>1 DEF Whole, ByPlace, Rising
  <2>2. k \in 0..Len(v.rows)
    BY <1>1, <2>1
  <2>3. Behind(v.rows, k) \in Seq(PlainRow) /\ Rising(Behind(v.rows, k))
    BY <2>1, <2>2, BehindRows
  <2>4. TurnsInv(TurnsBehind(v, k), Behind(v.rows, k))
    BY <2>1, <2>3, TurnsBuilt DEF TurnsBehind
  <2>5. TurnsBehind(v, k) \in Seq(TurnSet)
    BY <2>4 DEF TurnsInv
  <2>6. QED
    BY <2>1, <2>2, <2>3, <2>5
<1>2. k <= Len(w2.rows)
  <2>1. w.rows \in Seq(RowSet) /\ Len(w.rows) \in Nat
    BY <1>1
  <2>2. QED
    BY <2>1
<1>3. CASE w2.rows = w.rows
  <2>1. TurnsBehind(w2, k) = TurnsBehind(w, k)
    BY <1>3 DEF TurnsBehind
  <2>2. QED
    BY <1>1, <2>1 DEF Later
<1>4. ASSUME NEW r \in RowSet, w2.rows = Append(w.rows, r)
      PROVE  Later(TurnsBehind(w, k), TurnsBehind(w2, k))
  <2>1. Behind(w2.rows, k) = Append(Behind(w.rows, k), Plain(r)) /\ Plain(r) \in PlainRow
    BY <1>1, <1>4, BehindAppend, PlainIs
  <2>2. Rising(Behind(w2.rows, k))
    BY <1>1, <1>2
  <2> DEFINE bs == Behind(w.rows, k)
  <2> DEFINE q == Plain(r)
  <2>3. bs \in Seq(PlainRow) /\ Rising(Append(bs, q)) /\ q \in PlainRow /\ w.agent \in Agents
    BY <1>1, <2>1, <2>2
  <2> HIDE DEF bs, q
  <2>4. Later(BuildTurns(w.agent, bs), BuildTurns(w.agent, Append(bs, q)))
    BY <2>3, TurnsExtend
  <2>5. QED
    BY <2>1, <2>4 DEF TurnsBehind, bs, q
<1>5. QED
  BY <1>1, <1>2, <1>3, <1>4

LEMMA RowsLe ==
    ASSUME HookTypeOK, AllAccounted, NEW s \in Sessions, Untruncated(s)
    PROVE  Rows(Entry(s)) \in Nat /\ Rows(Entry(s)) <= Len(rows[s])
<1>1. Entry(s) \in EntrySet
  BY LoadType DEF Entry, HookTypeOK
<1>2. EntryDone(World(s), Entry(s)) /\ World(s).rows = rows[s]
  BY DEF AllAccounted, World
<1>3. QED
  BY <1>1, <1>2, EntryFacts DEF EntryDone, EntryOK, Boundary

LEMMA HalfNumbered ==
    ASSUME NEW rs \in Seq(RowSet), NEW z \in Nat, WrittenOK(rs, z, 0)
    PROVE  WrittenOK(rs, z + 1, z + 1) /\ (PlacesOK(rs, z, 0) => PlacesOK(rs, z + 1, z + 1))
<1>1. DOMAIN rs = 1..Len(rs) /\ Len(rs) \in Nat /\ \A i \in DOMAIN rs : rs[i] \in RowSet
  OBVIOUS
<1>2. \A i \in DOMAIN rs : rs[i].n \in Nat
  BY <1>1 DEF RowSet
<1>3. z + 1 # 0
  OBVIOUS
<1>4. WrittenOK(rs, z + 1, z + 1)
  BY <1>2, <1>3 DEF WrittenOK
<1>5. PlacesOK(rs, z, 0) => PlacesOK(rs, z + 1, z + 1)
  BY <1>1, <1>3 DEF PlacesOK
<1>6. QED
  BY <1>4, <1>5

LEMMA RowNumbered ==
    ASSUME NEW rs \in Seq(RowSet), NEW z \in Nat, NEW h \in Nat, WrittenOK(rs, z, h), NEW r \in RowSet,
           r.n = (IF h # 0 THEN h ELSE z + 1)
    PROVE  WrittenOK(Append(rs, r), r.n, 0) /\ (PlacesOK(rs, z, h) => PlacesOK(Append(rs, r), r.n, 0))
<1> DEFINE n == Len(rs)
<1> DEFINE qs == Append(rs, r)
<1>1. /\ n \in Nat /\ DOMAIN rs = 1..n /\ DOMAIN qs = 1..(n + 1) /\ Len(qs) = n + 1 /\ qs[n + 1] = r
      /\ \A i \in 1..n : qs[i] = rs[i] /\ rs[i] \in RowSet
  OBVIOUS
<1> HIDE DEF n, qs
<1>2. r.n \in Nat /\ \A i \in 1..n : rs[i].n \in Nat
  BY <1>1 DEF RowSet
<1>3. \A i \in 1..n : rs[i].n < r.n
  <2>1. CASE h # 0
    BY <1>1, <2>1 DEF WrittenOK
  <2>2. CASE h = 0
    <3>1. r.n = z + 1 /\ \A i \in 1..n : rs[i].n <= z
      BY <1>1, <2>2 DEF WrittenOK
    <3>2. QED
      BY <1>2, <3>1
  <2>3. QED
    BY <2>1, <2>2
<1>4. \A i \in 1..(n + 1) : i \in 1..n \/ i = n + 1
  BY <1>1
<1>5. Rising(qs)
  <2>1. \A i \in 1..n : ~ (n + 1 < i)
    BY <1>1
  <2>2. \A i, j \in 1..n : i < j => rs[i].n < rs[j].n
    BY <1>1 DEF WrittenOK, Rising
  <2>3. ~ (n + 1 < n + 1)
    BY <1>1
  <2>4. QED
    BY <1>1, <1>3, <1>4, <2>1, <2>2, <2>3 DEF Rising
<1>6. \A i \in DOMAIN qs : qs[i].n <= r.n
  BY <1>1, <1>2, <1>3, <1>4
<1>7. WrittenOK(qs, r.n, 0)
  BY <1>5, <1>6 DEF WrittenOK
<1>8. ASSUME PlacesOK(rs, z, h) PROVE PlacesOK(qs, r.n, 0)
  <2>1. (\A i \in 1..n : rs[i].n = i) /\ z = n + (IF h # 0 THEN 1 ELSE 0)
    BY <1>1, <1>8 DEF PlacesOK, n
  <2>2. r.n = n + 1
    BY <1>1, <2>1 DEF WrittenOK
  <2>3. QED
    BY <1>1, <1>4, <2>1, <2>2 DEF PlacesOK
<1>9. QED
  BY <1>7, <1>8 DEF qs

\* The agent writes.
LEMMA WriteStep ==
    ASSUME HookInv, LockInv', NEW s \in Sessions, WriteHalf(s) \/ WriteRow(s)
    PROVE  HookInv'
<1>1. /\ agent' = agent /\ state' = state /\ upgrades' = upgrades /\ proc' = proc /\ delivered' = delivered
      /\ twice' = twice /\ numbers' = numbers /\ failed' = failed /\ cut' = cut /\ excuse' = excuse /\ ~ AgentWaits(s)
  BY DEF WriteHalf, WriteRow, historyVars
<1>2. /\ rows \in [Sessions -> Seq(RowSet)] /\ written \in [Sessions -> Nat] /\ half \in [Sessions -> Nat]
      /\ over \in [Sessions -> BOOLEAN] /\ HookTypeOK /\ RowsNumbered /\ ProcsInSession /\ AllAccounted /\ AllNumbered
      /\ OnceDelivered
  BY DEF HookInv, HookTypeOK
<1>3. ASSUME NEW t \in Sessions \ {s}
      PROVE  rows'[t] = rows[t] /\ half'[t] = half[t] /\ over'[t] = over[t] /\ written'[t] = written[t]
  BY <1>2 DEF WriteHalf, WriteRow
<1> DEFINE HalfRow == rows' = rows /\ over' = over /\ half[s] = 0
                      /\ half' = [half EXCEPT ![s] = written[s] + 1] /\ written' = [written EXCEPT ![s] = written[s] + 1]
<1> DEFINE NewRow(r) == /\ rows' = [rows EXCEPT ![s] = Append(rows[s], r)] /\ (over[s] => r.kind = "user")
                        /\ r.n = IF half[s] # 0 THEN half[s] ELSE written[s] + 1
                        /\ written' = [written EXCEPT ![s] = r.n] /\ half' = [half EXCEPT ![s] = 0]
                        /\ over' = [over EXCEPT ![s] = FALSE]
<1>4. HalfRow \/ \E r \in RowSet : NewRow(r)
  <2>1. CASE WriteHalf(s)
    BY <2>1 DEF WriteHalf
  <2>2. CASE WriteRow(s)
    <3> DEFINE n == IF half[s] # 0 THEN half[s] ELSE written[s] + 1
    <3>1. n \in Nat \ {0}
      BY <1>2
    <3>2. PICK kind \in {"user", "assistant"} :
            /\ over[s] => kind = "user"
            /\ rows' = [rows EXCEPT ![s] = Append(rows[s], [kind |-> kind, n |-> n])]
            /\ written' = [written EXCEPT ![s] = n]
      BY <2>2 DEF WriteRow
    <3>3. half' = [half EXCEPT ![s] = 0] /\ over' = [over EXCEPT ![s] = FALSE]
      BY <2>2 DEF WriteRow
    <3> DEFINE r == [kind |-> kind, n |-> n]
    <3>4. r \in RowSet /\ r.kind = kind /\ r.n = n
      BY <3>1 DEF RowSet
    <3>5. NewRow(r)
      BY <3>2, <3>3
    <3>6. QED
      BY <3>4, <3>5
  <2>3. QED
    BY <2>1, <2>2
<1>5. /\ rows' \in [Sessions -> Seq(RowSet)] /\ written' \in [Sessions -> Nat] /\ half' \in [Sessions -> Nat]
      /\ over' \in [Sessions -> BOOLEAN]
  <2>1. CASE HalfRow
    BY <1>2, <2>1
  <2>2. ASSUME NEW r \in RowSet, NewRow(r)
        PROVE  /\ rows' \in [Sessions -> Seq(RowSet)] /\ written' \in [Sessions -> Nat] /\ half' \in [Sessions -> Nat]
               /\ over' \in [Sessions -> BOOLEAN]
    <3>1. Append(rows[s], r) \in Seq(RowSet) /\ r.n \in Nat
      BY <1>2 DEF RowSet
    <3>2. QED
      BY <1>2, <2>2, <3>1
  <2>3. QED
    BY <1>4, <2>1, <2>2
<1>6. HookTypeOK'
  BY <1>1, <1>2, <1>5 DEF HookTypeOK, ProcOK, IsEntries
<1>7. \/ rows'[s] = rows[s] /\ over'[s] = over[s] /\ half[s] = 0 /\ half'[s] = written[s] + 1 /\ written'[s] = written[s] + 1
      \/ \E r \in RowSet : /\ rows'[s] = Append(rows[s], r) /\ (over[s] => r.kind = "user")
                           /\ r.n = (IF half[s] # 0 THEN half[s] ELSE written[s] + 1)
                           /\ written'[s] = r.n /\ half'[s] = 0 /\ over'[s] = FALSE
  <2>1. CASE HalfRow
    BY <1>2, <2>1
  <2>2. ASSUME NEW r \in RowSet, NewRow(r)
        PROVE  /\ rows'[s] = Append(rows[s], r) /\ (over[s] => r.kind = "user")
               /\ r.n = (IF half[s] # 0 THEN half[s] ELSE written[s] + 1)
               /\ written'[s] = r.n /\ half'[s] = 0 /\ over'[s] = FALSE
    BY <1>2, <2>2
  <2>3. QED
    BY <1>4, <2>1, <2>2
<1> HIDE DEF HalfRow, NewRow
<1>9. RowsNumbered'
  <2>1. ASSUME NEW t \in Sessions \ {s}
        PROVE  /\ WrittenOK(rows'[t], written'[t], half'[t])
               /\ Untruncated(t)' => PlacesOK(rows'[t], written'[t], half'[t])
    <3>1. Untruncated(t)' = Untruncated(t)
      BY <1>1 DEF Untruncated
    <3>2. QED
      BY <1>2, <1>3, <3>1 DEF RowsNumbered
  <2>2. /\ WrittenOK(rows'[s], written'[s], half'[s])
        /\ Untruncated(s)' => PlacesOK(rows'[s], written'[s], half'[s])
    <3>1. Untruncated(s)' = Untruncated(s)
      BY <1>1 DEF Untruncated
    <3>2. rows[s] \in Seq(RowSet) /\ half[s] \in Nat /\ written[s] \in Nat
      BY <1>2
    <3>3. WrittenOK(rows[s], written[s], half[s]) /\ (Untruncated(s) => PlacesOK(rows[s], written[s], half[s]))
      BY <1>2 DEF RowsNumbered
    <3>4. CASE rows'[s] = rows[s] /\ half[s] = 0 /\ half'[s] = written[s] + 1 /\ written'[s] = written[s] + 1
      BY <3>1, <3>2, <3>3, <3>4, HalfNumbered
    <3>5. ASSUME NEW r \in RowSet, rows'[s] = Append(rows[s], r), r.n = (IF half[s] # 0 THEN half[s] ELSE written[s] + 1),
                 written'[s] = r.n, half'[s] = 0
          PROVE  WrittenOK(rows'[s], written'[s], half'[s]) /\ (Untruncated(s) => PlacesOK(rows'[s], written'[s], half'[s]))
      BY <3>2, <3>3, <3>5, RowNumbered
    <3>6. QED
      BY <1>7, <3>1, <3>4, <3>5
  <2>3. QED
    BY <2>1, <2>2, Zenon DEF RowsNumbered
<1>10. ProcsInSession'
  <2>1. ASSUME NEW p \in Procs, ~ At(p, "idle"), proc[p].stop PROVE over'[proc[p].session]
    <3>1. proc[p].session # s
      BY <1>1, <2>1 DEF AgentWaits
    <3>2. proc[p].session \in Sessions /\ over[proc[p].session]
      BY <1>2, <2>1 DEF ProcsInSession
    <3>3. QED
      BY <1>3, <3>1, <3>2
  <2>2. QED
    BY <1>1, <1>2, <2>1 DEF ProcsInSession, At
<1>11. ASSUME NEW t \in Sessions PROVE Entry(t)' = Entry(t) /\ Untruncated(t)' = Untruncated(t) /\ Steady(t)' = Steady(t)
  BY <1>1 DEF Entry, LoadSession, Untruncated, Steady
<1>12. ASSUME NEW t \in Sessions, Untruncated(t)
       PROVE  /\ Whole(World(t)) /\ Whole(World(t)')
              /\ Grows(World(t), World(t)')
              /\ World(t)'.rows = World(t).rows \/ \E r \in RowSet : World(t)'.rows = Append(World(t).rows, r)
  <2>1. Whole(World(t)) /\ Whole(World(t)')
    BY <1>2, <1>6, <1>9, <1>11, <1>12, WorldIsWhole, WorldIsWholeNext
  <2>2. CASE t # s
    <3>1. World(t)' = World(t)
      BY <1>1, <1>3, <2>2 DEF World
    <3>2. QED
      BY <2>1, <3>1, SameGrows
  <2>3. CASE t = s
    <3>1. ASSUME NEW w, w = World(t), NEW w2, w2 = World(t)'
          PROVE  Grows(w, w2) /\ (w2.rows = w.rows \/ \E r \in RowSet : w2.rows = Append(w.rows, r))
      <4>1. /\ w2.agent = w.agent /\ w2.cut = w.cut /\ w2.delivered = w.delivered /\ w2.failed = w.failed
            /\ w.rows = rows[s] /\ w2.rows = rows'[s] /\ w.over = over[s] /\ w2.over = over'[s]
            /\ w.half = half[s] /\ w2.half = half'[s]
        BY <1>1, <2>3, <3>1 DEF World
      <4> DEFINE n == Len(w.rows)
      <4>2. w.rows \in Seq(RowSet) /\ n \in Nat
        BY <2>1, <3>1 DEF Whole, ByPlace
      <4>3. CASE w2.rows = w.rows /\ w2.over = w.over /\ w.half = 0 /\ w2.half = written[s] + 1
        <5>1. written[s] \in Nat /\ w2.half # 0
          BY <1>2, <4>3
        <5>2. SizeOf(w) <= SizeOf(w2)
          BY <4>2, <4>3, <5>1 DEF SizeOf
        <5>3. QED
          BY <4>1, <4>2, <4>3, <5>2 DEF Grows
      <4>4. ASSUME NEW r \in RowSet, w2.rows = Append(w.rows, r), w.over => r.kind = "user" PROVE Grows(w, w2)
        <5>1. Len(w2.rows) = n + 1 /\ w2.rows[n + 1] = r /\ \A i \in 1..n : w2.rows[i] = w.rows[i]
          BY <4>2, <4>4
        <5>2. SizeOf(w) <= SizeOf(w2)
          <6>1. SizeOf(w) <= 2 * n + 1 /\ SizeOf(w) \in Nat
            BY <2>1, <3>1, WholeFacts
          <6>2. 2 * (n + 1) <= SizeOf(w2)
            BY <2>1, <3>1, <5>1, WholeFacts
          <6>3. SizeOf(w2) \in Nat
            BY <2>1, <3>1, WholeFacts
          <6> HIDE DEF n
          <6>4. QED
            BY <4>2, <6>1, <6>2, <6>3
        <5>3. QED
          BY <4>1, <4>2, <4>4, <5>1, <5>2 DEF Grows
      <4>5. QED
        BY <1>7, <4>1, <4>3, <4>4
    <3>2. QED
      BY <2>1, <3>1
  <2>4. QED
    BY <2>2, <2>3
<1>13. AllAccounted'
  <2>1. \A t \in Sessions : Untruncated(t)' => Untruncated(t) /\ Grows(World(t), World(t)')
    BY <1>11, <1>12
  <2>2. \A p \in Procs : PastLock(p)' => PastLock(p) /\ proc'[p] = proc[p]
    BY <1>1 DEF PastLock, At
  <2>3. QED
    BY <1>2, <1>6, <1>9, <1>11, <2>1, <2>2, AccountedStep
<1>14. AllNumbered'
  <2>1. ASSUME NEW t \in Sessions, Steady(t)'
        PROVE  /\ Steady(t) /\ Entry(t)'.count = Entry(t).count /\ Entry(t)'.offset = Entry(t).offset
               /\ Pending(t) \in Seq(TurnSet) /\ Pending(t)' \in Seq(TurnSet) /\ Later(Pending(t), Pending(t)')
    <3>1. Steady(t) /\ Untruncated(t) /\ Entry(t)' = Entry(t)
      BY <1>11, <2>1 DEF Steady, Untruncated
    <3> DEFINE w == World(t)
    <3> DEFINE w2 == World(t)'
    <3> DEFINE k == Rows(Entry(t))
    <3>2. k \in Nat /\ k <= Len(w.rows)
      BY <1>2, <3>1, RowsLe DEF World
    <3>3. Whole(w) /\ Whole(w2) /\ w2.agent = w.agent
      BY <1>12, <3>1 DEF Grows
    <3>4. w2.rows = w.rows \/ \E r \in RowSet : w2.rows = Append(w.rows, r)
      BY <1>12, <3>1
    <3>5. Pending(t) = TurnsBehind(w, k) /\ Pending(t)' = TurnsBehind(w2, k)
      BY <3>1 DEF Pending, Rows
    <3> HIDE DEF w, w2, k
    <3>6. /\ TurnsBehind(w, k) \in Seq(TurnSet) /\ TurnsBehind(w2, k) \in Seq(TurnSet)
          /\ Later(TurnsBehind(w, k), TurnsBehind(w2, k))
      BY <3>2, <3>3, <3>4, PendingLater
    <3>7. QED
      BY <3>1, <3>5, <3>6
  <2>2. \A p \in Procs : PastLock(p)' => PastLock(p) /\ proc'[p] = proc[p]
    BY <1>1 DEF PastLock, At
  <2>3. upgrades' > 0 => \A t \in Sessions : "forgot" \in excuse'[t]
    BY <1>1, <1>2 DEF AllNumbered
  <2>4. QED
    BY <1>1, <1>2, <1>6, <1>11, <2>1, <2>2, <2>3, NumberedStep
<1>15. OnceDelivered'
  <2>1. \A t \in Sessions : excuse'[t] = {} => excuse[t] = {} /\ Rows(Entry(t)') = Rows(Entry(t))
    BY <1>1, <1>11
  <2>2. \A p \in Procs : PastLock(p) => PastLock(p)' /\ proc'[p] = proc[p]
    BY <1>1 DEF PastLock, At
  <2>3. QED
    BY <1>1, <1>2, <2>1, <2>2, OnceStep
<1>16. QED
  BY <1>6, <1>9, <1>10, <1>13, <1>14, <1>15, Zenon DEF HookInv

LEMMA ExcuseFacts ==
    ASSUME DOMAIN excuse = Sessions, NEW S, NEW what, Excuse(S, what)
    PROVE  /\ DOMAIN excuse' = Sessions
           /\ \A s \in Sessions : /\ excuse[s] \subseteq excuse'[s] /\ (s \in S => what \in excuse'[s])
                                  /\ (s \notin S => excuse'[s] = excuse[s])
  BY DEF Excuse

LEMMA MoreExcuses ==
    ASSUME NEW s \in Sessions, excuse[s] \subseteq excuse'[s]
    PROVE  /\ Untruncated(s)' => Untruncated(s)
           /\ Steady(s)' => Steady(s) /\ Untruncated(s) /\ Untruncated(s)' /\ "forgot" \notin excuse'[s]
           /\ excuse'[s] = {} => excuse[s] = {}
  BY DEF Untruncated, Steady

\* A transcript is rewound.
LEMMA CutNumbered ==
    ASSUME NEW rs \in Seq(RowSet), NEW z, NEW h, WrittenOK(rs, z, h), NEW k \in 0..(Len(rs) - 1)
    PROVE  SubSeq(rs, 1, k) \in Seq(RowSet) /\ WrittenOK(SubSeq(rs, 1, k), z, 0)
<1> DEFINE qs == SubSeq(rs, 1, k)
<1>1. qs \in Seq(RowSet) /\ DOMAIN qs = 1..k /\ 1..k \subseteq DOMAIN rs /\ \A i \in 1..k : qs[i] = rs[i]
  OBVIOUS
<1> HIDE DEF qs
<1>2. Rising(qs)
  BY <1>1 DEF WrittenOK, Rising
<1>3. \A i \in DOMAIN qs : qs[i].n <= z
  BY <1>1 DEF WrittenOK
<1>4. QED
  BY <1>1, <1>2, <1>3 DEF WrittenOK, qs

LEMMA TruncateStep ==
    ASSUME HookInv, LockInv', NEW s \in Sessions, Truncate(s)
    PROVE  HookInv'
<1>1. /\ agent' = agent /\ written' = written /\ state' = state /\ upgrades' = upgrades /\ proc' = proc
      /\ delivered' = delivered /\ twice' = twice /\ numbers' = numbers /\ failed' = failed /\ cut' = cut
      /\ Excuse({s}, "truncated") /\ half' = [half EXCEPT ![s] = 0] /\ over' = [over EXCEPT ![s] = TRUE]
  BY DEF Truncate
<1>2. /\ rows \in [Sessions -> Seq(RowSet)] /\ written \in [Sessions -> Nat] /\ half \in [Sessions -> Nat]
      /\ over \in [Sessions -> BOOLEAN] /\ HookTypeOK /\ RowsNumbered /\ ProcsInSession /\ AllAccounted /\ AllNumbered
      /\ OnceDelivered /\ DOMAIN excuse = Sessions
  BY DEF HookInv, HookTypeOK
<1>3. PICK k \in 0..(Len(rows[s]) - 1) : rows' = [rows EXCEPT ![s] = SubSeq(rows[s], 1, k)]
  BY DEF Truncate
<1>4. rows[s] \in Seq(RowSet) /\ WrittenOK(rows[s], written[s], half[s])
  BY <1>2 DEF RowsNumbered
<1>5. SubSeq(rows[s], 1, k) \in Seq(RowSet) /\ WrittenOK(SubSeq(rows[s], 1, k), written[s], 0)
  BY <1>4, CutNumbered
<1>6. /\ DOMAIN excuse' = Sessions /\ ~ Untruncated(s)' /\ ~ Steady(s)' /\ excuse'[s] # {}
      /\ \A t \in Sessions \ {s} : excuse'[t] = excuse[t]
  BY <1>1, <1>2, ExcuseFacts DEF Untruncated, Steady
<1>7. \A t \in Sessions \ {s} : rows'[t] = rows[t] /\ half'[t] = half[t] /\ over'[t] = over[t]
  BY <1>1, <1>2, <1>3
<1>8. HookTypeOK'
  <2>1. rows' \in [Sessions -> Seq(RowSet)] /\ half' \in [Sessions -> Nat] /\ over' \in [Sessions -> BOOLEAN]
    BY <1>1, <1>2, <1>3, <1>5
  <2>2. QED
    BY <1>1, <1>2, <1>6, <2>1 DEF HookTypeOK, ProcOK, IsEntries
<1>9. RowsNumbered'
  <2>1. ASSUME NEW t \in Sessions
        PROVE  WrittenOK(rows'[t], written'[t], half'[t]) /\ (Untruncated(t)' => PlacesOK(rows'[t], written'[t], half'[t]))
    <3>1. CASE t = s
      <4>1. rows'[s] = SubSeq(rows[s], 1, k) /\ half'[s] = 0 /\ written'[s] = written[s]
        BY <1>1, <1>2, <1>3
      <4>2. QED
        BY <1>5, <1>6, <3>1, <4>1
    <3>2. CASE t # s
      BY <1>1, <1>2, <1>6, <1>7, <3>2 DEF RowsNumbered, Untruncated
    <3>3. QED
      BY <3>1, <3>2
  <2>2. QED
    BY <2>1, Zenon DEF RowsNumbered
<1>10. ProcsInSession'
  BY <1>1, <1>2 DEF ProcsInSession, At
<1>11. \A t \in Sessions : Untruncated(t)' => t # s /\ Untruncated(t)
  BY <1>6 DEF Untruncated
<1>12. ASSUME NEW t \in Sessions, t # s PROVE World(t)' = World(t) /\ Entry(t)' = Entry(t) /\ (Steady(t)' => Steady(t))
  BY <1>1, <1>6, <1>7, <1>12 DEF World, Entry, LoadSession, Steady
<1>13. \A p \in Procs : (PastLock(p)' <=> PastLock(p)) /\ proc'[p] = proc[p]
  BY <1>1 DEF PastLock, At
<1>14. AllAccounted'
  <2>1. ASSUME NEW t \in Sessions, Untruncated(t)' PROVE Untruncated(t) /\ Grows(World(t), World(t)')
    BY <1>2, <1>11, <1>12, <2>1, WorldIsWhole, SameGrows
  <2>2. \A t \in Sessions : Untruncated(t)' => Entry(t)' = Entry(t)
    BY <1>11, <1>12
  <2>3. QED
    BY <1>2, <1>8, <1>9, <1>13, <2>1, <2>2, AccountedStep
<1>15. AllNumbered'
  <2>1. ASSUME NEW t \in Sessions, Steady(t)'
        PROVE  /\ Steady(t) /\ Entry(t)' = Entry(t)
               /\ Pending(t) \in Seq(TurnSet) /\ Pending(t)' \in Seq(TurnSet) /\ Later(Pending(t), Pending(t)')
    <3>1. t # s /\ Steady(t) /\ Untruncated(t) /\ Entry(t)' = Entry(t) /\ World(t)' = World(t)
      BY <1>6, <1>12, <2>1 DEF Steady, Untruncated
    <3>2. Pending(t)' = Pending(t)
      BY <3>1 DEF Pending, Rows
    <3>3. Whole(World(t)) /\ Rows(Entry(t)) \in Nat /\ Rows(Entry(t)) <= Len(World(t).rows)
      BY <1>2, <3>1, WorldIsWhole, RowsLe DEF World
    <3>4. Pending(t) \in Seq(TurnSet) /\ Later(Pending(t), Pending(t))
      BY <3>3, PendingLater DEF Pending
    <3>5. QED
      BY <3>1, <3>2, <3>4
  <2>2. upgrades' > 0 => \A t \in Sessions : "forgot" \in excuse'[t]
    <3>1. \A t \in Sessions : excuse[t] \subseteq excuse'[t]
      BY <1>1, <1>2, ExcuseFacts
    <3>2. QED
      BY <1>1, <1>2, <3>1 DEF AllNumbered
  <2>3. QED
    BY <1>1, <1>2, <1>8, <1>13, <2>1, <2>2, NumberedStep
<1>16. OnceDelivered'
  <2>1. \A t \in Sessions : excuse'[t] = {} => t # s /\ excuse[t] = {} /\ Rows(Entry(t)') = Rows(Entry(t))
    BY <1>6, <1>12 DEF Rows
  <2>2. QED
    BY <1>1, <1>2, <1>13, <2>1, OnceStep
<1>17. QED
  BY <1>8, <1>9, <1>10, <1>14, <1>15, <1>16, Zenon DEF HookInv

-----------------------------------------------------------------------------
(* Steps that deliver nothing, read nothing and leave the transcripts.     *)

LEMMA WorldGrows ==
    ASSUME HookTypeOK, RowsNumbered, agent' = agent, rows' = rows, half' = half, NEW s \in Sessions, Untruncated(s),
           over[s] => over'[s], cut[s] \subseteq cut'[s], delivered[s] \subseteq delivered'[s], failed[s] \subseteq failed'[s]
    PROVE  Grows(World(s), World(s)')
<1>1. ASSUME NEW w, w = World(s), NEW w2, w2 = World(s)' PROVE Grows(w, w2)
  <2>1. /\ w2.agent = w.agent /\ w2.rows = w.rows /\ w2.half = w.half /\ (w.over => w2.over)
        /\ w.cut \subseteq w2.cut /\ w.delivered \subseteq w2.delivered /\ w.failed \subseteq w2.failed
    BY <1>1 DEF World
  <2>2. Len(w.rows) \in Nat /\ SizeOf(w) \in Nat
    BY <1>1, WorldIsWhole, WholeFacts
  <2>3. SizeOf(w2) = SizeOf(w)
    BY <2>1 DEF SizeOf
  <2>4. QED
    BY <2>1, <2>2, <2>3 DEF Grows
<1>2. QED
  BY <1>1

LEMMA PendingSame ==
    ASSUME HookTypeOK, RowsNumbered, AllAccounted, agent' = agent, rows' = rows, NEW s \in Sessions, Untruncated(s),
           Entry(s)'.offset = Entry(s).offset
    PROVE  /\ Pending(s) \in Seq(TurnSet) /\ Pending(s)' = Pending(s) /\ Later(Pending(s), Pending(s)')
<1>1. Pending(s)' = Pending(s)
  BY DEF Pending, TurnsBehind, World, Rows
<1>2. Whole(World(s)) /\ Rows(Entry(s)) \in Nat /\ Rows(Entry(s)) <= Len(World(s).rows)
  BY WorldIsWhole, RowsLe DEF World
<1>3. Pending(s) \in Seq(TurnSet) /\ Later(Pending(s), Pending(s))
  BY <1>2, PendingLater DEF Pending
<1>4. QED
  BY <1>1, <1>3

LEMMA RowsSame ==
    ASSUME RowsNumbered, rows' = rows, written' = written, half' = half, \A s \in Sessions : excuse[s] \subseteq excuse'[s]
    PROVE  RowsNumbered'
  BY DEF RowsNumbered, Untruncated

LEMMA QuietStep ==
    ASSUME HookTypeOK, RowsNumbered, ProcsInSession, AllAccounted, AllNumbered, OnceDelivered, HookTypeOK', RowsNumbered',
           agent' = agent, rows' = rows, half' = half, cut' = cut, delivered' = delivered, failed' = failed,
           twice' = twice, numbers' = numbers,
           \A s \in Sessions : (over[s] => over'[s]) /\ excuse[s] \subseteq excuse'[s],
           upgrades' > 0 => \A s \in Sessions : "forgot" \in excuse'[s],
           \A s \in Sessions : Steady(s)' => Entry(s)'.count = Entry(s).count /\ Entry(s)'.offset = Entry(s).offset,
           \A s \in Sessions : Untruncated(s)' => Entry(s)' = Entry(s) \/ Entry(s)' = NoEntry \/ EntryDone(World(s)', Entry(s)'),
           \A p \in Procs : PastLock(p)' => PastLock(p) /\ proc'[p] = proc[p],
           (\E p \in Procs : PastLock(p)') => \A s \in Sessions : Steady(s)' => Entry(s)' = Entry(s),
           \A p \in Procs : PastLock(p) /\ ~ (PastLock(p)' /\ proc'[p] = proc[p]) =>
             proc[p].emitted = 0 \/ excuse'[proc[p].session] # {}
    PROVE  AllAccounted' /\ AllNumbered' /\ OnceDelivered'
<1>1. ASSUME NEW s \in Sessions
      PROVE  /\ Untruncated(s)' => Untruncated(s)
             /\ Steady(s)' => Steady(s) /\ Untruncated(s) /\ Untruncated(s)'
             /\ excuse'[s] = {} => excuse[s] = {}
  BY MoreExcuses
<1>2. AllAccounted'
  <2>1. \A s \in Sessions : Untruncated(s)' => Untruncated(s) /\ Grows(World(s), World(s)')
    <3>1. ASSUME NEW s \in Sessions, Untruncated(s) PROVE Grows(World(s), World(s)')
      BY <3>1, WorldGrows
    <3>2. QED
      BY <1>1, <3>1
  <2>2. QED
    BY <2>1, AccountedStep
<1>3. AllNumbered'
  <2>1. ASSUME NEW s \in Sessions, Steady(s)'
        PROVE  /\ Steady(s) /\ Entry(s)'.count = Entry(s).count /\ Entry(s)'.offset = Entry(s).offset
               /\ Pending(s) \in Seq(TurnSet) /\ Pending(s)' \in Seq(TurnSet) /\ Later(Pending(s), Pending(s)')
    <3>1. Steady(s) /\ Untruncated(s) /\ Entry(s)'.offset = Entry(s).offset /\ Entry(s)'.count = Entry(s).count
      BY <1>1, <2>1
    <3>2. Pending(s) \in Seq(TurnSet) /\ Pending(s)' = Pending(s) /\ Later(Pending(s), Pending(s)')
      BY <3>1, PendingSame
    <3>3. QED
      BY <3>1, <3>2
  <2>2. QED
    BY <2>1, NumberedStep
<1>4. OnceDelivered'
  <2>1. \A s \in Sessions : excuse'[s] = {} => excuse[s] = {} /\ Rows(Entry(s)') = Rows(Entry(s))
    <3>1. ASSUME NEW s \in Sessions, excuse'[s] = {} PROVE Steady(s)'
      BY <3>1 DEF Steady
    <3>2. QED
      BY <1>1, <3>1 DEF Rows
  <2>2. \A p \in Procs : PastLock(p) /\ proc[p].session \in Sessions /\ proc[p].emitted > 0 /\ excuse'[proc[p].session] = {} =>
             /\ PastLock(p)' /\ proc'[p].session = proc[p].session
             /\ proc'[p].emitted = proc[p].emitted /\ proc'[p].turns = proc[p].turns
    <3>1. ASSUME NEW p \in Procs, PastLock(p), proc[p].emitted > 0, excuse'[proc[p].session] = {}
          PROVE  PastLock(p)' /\ proc'[p] = proc[p]
      BY <3>1
    <3>2. QED
      BY <3>1
  <2>3. QED
    BY <2>1, <2>2, OnceStep
<1>5. QED
  BY <1>2, <1>3, <1>4

LEMMA IdleOK == ProcOK(Idle) /\ Idle.pc = "idle" /\ Idle.session = None /\ Idle.emitted = 0 /\ Idle.file = 0
<1>1. <<>> \in Seq(TurnSet) /\ DOMAIN <<>> = {}
  OBVIOUS
<1>2. IsEntries(<<>>)
  BY <1>1 DEF IsEntries
<1>3. QED
  BY <1>1, <1>2, NoEntryType DEF ProcOK, Idle

\* The agent calls the hook.
LEMMA StartStep ==
    ASSUME HookInv, LockInv', NEW p \in Procs, NEW s \in Sessions, Start(p, s)
    PROVE  HookInv'
<1>1. PICK own \in Sessions \cup {None}, event \in {"Stop", "SubagentStop"} :
        LET t == Transcript(s, own, event)
        IN  /\ own # s /\ (event = "Stop" => own = None) /\ t # None
            /\ proc' = [proc EXCEPT ![p] = [Idle EXCEPT !.pc = "lock", !.session = t, !.file = upgrades,
                                                        !.stop = (event = "Stop" \/ t = own)]]
            /\ over' = [over EXCEPT ![t] = @ \/ event = "Stop" \/ t = own]
  BY DEF Start
<1> DEFINE t == Transcript(s, own, event)
<1> DEFINE stop == event = "Stop" \/ t = own
<1>2. /\ agent' = agent /\ rows' = rows /\ written' = written /\ half' = half /\ state' = state /\ upgrades' = upgrades
      /\ delivered' = delivered /\ twice' = twice /\ numbers' = numbers /\ failed' = failed /\ cut' = cut
      /\ excuse' = excuse /\ At(p, "idle")
  BY DEF Start, historyVars
<1>3. /\ HookTypeOK /\ RowsNumbered /\ ProcsInSession /\ AllAccounted /\ AllNumbered /\ OnceDelivered
      /\ over \in [Sessions -> BOOLEAN] /\ agent \in Agents /\ LockInv
  BY DEF HookInv, HookTypeOK
<1>4. t \in Sessions /\ (stop \/ agent = "claude-code")
  <2>1. own \in Sessions \cup {None} /\ event \in {"Stop", "SubagentStop"}
    OBVIOUS
  <2>2. t # None /\ (event = "Stop" => own = None)
    BY <1>1
  <2>3. CASE agent = "claude-code"
    <3>1. t = IF own # None THEN own ELSE s
      BY <2>3 DEF Transcript, ClaudeTranscript
    <3>2. QED
      BY <2>1, <2>3, <3>1
  <2>4. CASE agent \in {"qoder", "qoderwork"}
    <3>1. t = IF event = "SubagentStop" THEN own ELSE s
      BY <2>4 DEF Transcript, QoderTranscript, QoderWorkTranscript
    <3>2. QED
      BY <2>1, <2>2, <3>1
  <2>5. QED
    BY <1>3, <2>3, <2>4 DEF Agents
<1>5. over' = [over EXCEPT ![t] = @ \/ stop] /\ over' \in [Sessions -> BOOLEAN] /\ \A x \in Sessions : over[x] => over'[x]
  <2>1. over' = [over EXCEPT ![t] = @ \/ stop]
    BY <1>1
  <2> HIDE DEF t, stop
  <2>2. QED
    BY <1>3, <1>4, <2>1
<1>6. stop => over'[t]
  <2>1. over' = [over EXCEPT ![t] = @ \/ stop]
    BY <1>5
  <2> HIDE DEF t, stop
  <2>2. QED
    BY <1>3, <1>4, <2>1
<1> DEFINE l == [Idle EXCEPT !.pc = "lock", !.session = t, !.file = upgrades, !.stop = stop]
<1>7. proc' = [proc EXCEPT ![p] = l]
  BY <1>1
<1> HIDE DEF t
<1>8. stop \in BOOLEAN
  OBVIOUS
<1> HIDE DEF stop
<1>9. ProcOK(l) /\ l.pc = "lock" /\ l.session = t /\ l.emitted = 0 /\ l.file = upgrades /\ l.stop = stop
  <2>1. /\ l.pc = "lock" /\ l.session = t /\ l.file = upgrades /\ l.stop = stop /\ l.emitted = Idle.emitted
        /\ l.state = Idle.state /\ l.ss = Idle.ss /\ l.turns = Idle.turns
    BY DEF Idle
  <2>2. QED
    BY <1>4, <1>8, <2>1, IdleOK DEF ProcOK
<1> HIDE DEF l
<1>10. DOMAIN proc = Procs /\ proc'[p] = l /\ \A q \in Procs \ {p} : proc'[q] = proc[q]
  BY <1>3, <1>7 DEF LockInv
<1>11. HookTypeOK'
  <2>1. \A q \in Procs : ProcOK(proc[q])'
    <3>1. \A q \in Procs : ProcOK(proc'[q])
      BY <1>3, <1>9, <1>10 DEF HookTypeOK
    <3>2. QED
      BY <3>1 DEF ProcOK, IsEntries
  <2>2. QED
    BY <1>2, <1>3, <1>5, <2>1 DEF HookTypeOK, IsEntries
<1>12. RowsNumbered'
  BY <1>2, <1>3, RowsSame
<1>13. ProcsInSession'
  <2>1. ASSUME NEW q \in Procs
        PROVE  /\ At(q, "idle")' => proc'[q].session = None
               /\ ~ At(q, "idle")' => /\ proc'[q].session \in Sessions
                                      /\ IF proc'[q].stop THEN over'[proc'[q].session] ELSE agent' = "claude-code"
               /\ At(q, "lock")' => proc'[q].emitted = 0
               /\ At(q, "emit")' => proc'[q].emitted <= Len(proc'[q].turns)
               /\ proc'[q].file <= upgrades'
    <3>1. CASE q = p
      <4>1. upgrades <= upgrades
        BY <1>3 DEF LockInv
      <4>2. QED
        BY <1>2, <1>4, <1>6, <1>9, <1>10, <3>1, <4>1 DEF At
    <3>2. CASE q # p
      BY <1>2, <1>3, <1>5, <1>10, <3>2 DEF ProcsInSession, At
    <3>3. QED
      BY <3>1, <3>2
  <2>2. QED
    BY <2>1 DEF ProcsInSession
<1>14. AllAccounted' /\ AllNumbered' /\ OnceDelivered'
  <2>1. \A x \in Sessions : Entry(x)' = Entry(x) /\ (over[x] => over'[x]) /\ excuse[x] \subseteq excuse'[x]
    BY <1>2, <1>5 DEF Entry, LoadSession
  <2>2. \A q \in Procs : (PastLock(q)' => PastLock(q) /\ proc'[q] = proc[q]) /\ (PastLock(q) => PastLock(q)' /\ proc'[q] = proc[q])
    BY <1>2, <1>9, <1>10 DEF PastLock, At
  <2>3. upgrades' > 0 => \A x \in Sessions : "forgot" \in excuse'[x]
    BY <1>2, <1>3 DEF AllNumbered
  <2>4. QED
    BY <1>2, <1>3, <1>11, <1>12, <2>1, <2>2, <2>3, QuietStep
<1>15. QED
  BY <1>3, <1>11, <1>12, <1>13, <1>14, Zenon DEF HookInv

\* A process ends: it gives up, cannot save, or dies.
LEMMA LeaveStep ==
    ASSUME HookInv, LockInv', NEW p \in Procs, GiveUp(p) \/ SaveFails(p) \/ Die(p)
    PROVE  HookInv'
<1>1. /\ agent' = agent /\ rows' = rows /\ written' = written /\ half' = half /\ over' = over /\ state' = state
      /\ upgrades' = upgrades /\ delivered' = delivered /\ twice' = twice /\ numbers' = numbers /\ failed' = failed
      /\ cut' = cut /\ proc' = [proc EXCEPT ![p] = Idle] /\ ~ At(p, "idle")
  BY DEF GiveUp, SaveFails, Die, Ends, worldVars, historyVars, At
<1>2. /\ HookTypeOK /\ RowsNumbered /\ ProcsInSession /\ AllAccounted /\ AllNumbered /\ OnceDelivered
      /\ LockInv /\ DOMAIN excuse = Sessions
  BY DEF HookInv, HookTypeOK
<1>3. proc[p].session \in Sessions /\ (At(p, "lock") => proc[p].emitted = 0) /\ proc[p].emitted \in Nat
  BY <1>1, <1>2 DEF ProcsInSession, HookTypeOK, ProcOK
<1>4. (excuse' = excuse /\ (proc[p].emitted = 0 \/ At(p, "lock"))) \/ Excuse({proc[p].session}, "repeat")
  BY <1>3 DEF GiveUp, SaveFails, Die, historyVars
<1>5. /\ DOMAIN excuse' = Sessions /\ \A s \in Sessions : excuse[s] \subseteq excuse'[s]
      /\ proc[p].emitted = 0 \/ excuse'[proc[p].session] # {}
  <2>1. CASE excuse' = excuse /\ (proc[p].emitted = 0 \/ At(p, "lock"))
    BY <1>2, <1>3, <2>1
  <2>2. CASE Excuse({proc[p].session}, "repeat")
    BY <1>2, <1>3, <2>2, ExcuseFacts
  <2>3. QED
    BY <1>4, <2>1, <2>2
<1>6. proc'[p] = Idle /\ \A q \in Procs \ {p} : proc'[q] = proc[q]
  BY <1>1, <1>2 DEF LockInv
<1>7. HookTypeOK'
  <2>1. \A q \in Procs : ProcOK(proc[q])'
    <3>1. \A q \in Procs : ProcOK(proc'[q])
      BY <1>2, <1>6, IdleOK DEF HookTypeOK
    <3>2. QED
      BY <3>1 DEF ProcOK, IsEntries
  <2>2. QED
    BY <1>1, <1>2, <1>5, <2>1 DEF HookTypeOK, IsEntries
<1>8. RowsNumbered'
  BY <1>1, <1>2, <1>5, RowsSame
<1>9. ProcsInSession'
  <2>1. ASSUME NEW q \in Procs
        PROVE  /\ At(q, "idle")' => proc'[q].session = None
               /\ ~ At(q, "idle")' => /\ proc'[q].session \in Sessions
                                      /\ IF proc'[q].stop THEN over'[proc'[q].session] ELSE agent' = "claude-code"
               /\ At(q, "lock")' => proc'[q].emitted = 0
               /\ At(q, "emit")' => proc'[q].emitted <= Len(proc'[q].turns)
               /\ proc'[q].file <= upgrades'
    <3>1. CASE q = p
      <4>1. 0 <= upgrades
        BY <1>2, HookAssumption DEF LockInv
      <4>2. QED
        BY <1>1, <1>6, <3>1, <4>1, IdleOK DEF At
    <3>2. CASE q # p
      BY <1>1, <1>2, <1>6, <3>2 DEF ProcsInSession, At
    <3>3. QED
      BY <3>1, <3>2
  <2>2. QED
    BY <2>1 DEF ProcsInSession
<1>10. AllAccounted' /\ AllNumbered' /\ OnceDelivered'
  <2>1. \A x \in Sessions : Entry(x)' = Entry(x) /\ (over[x] => over'[x])
    BY <1>1 DEF Entry, LoadSession
  <2>2. /\ \A q \in Procs : PastLock(q)' => PastLock(q) /\ proc'[q] = proc[q]
        /\ \A q \in Procs : PastLock(q) /\ ~ (PastLock(q)' /\ proc'[q] = proc[q]) =>
             proc[q].emitted = 0 \/ excuse'[proc[q].session] # {}
    BY <1>5, <1>6, IdleOK DEF PastLock, At
  <2>3. upgrades' > 0 => \A x \in Sessions : "forgot" \in excuse'[x]
    BY <1>1, <1>2, <1>5 DEF AllNumbered
  <2>4. QED
    BY <1>1, <1>2, <1>5, <1>7, <1>8, <2>1, <2>2, <2>3, QuietStep
<1>11. QED
  BY <1>2, <1>7, <1>8, <1>9, <1>10, Zenon DEF HookInv

\* A month passes, an upgrade, or nothing happens.
LEMMA MonthStep ==
    ASSUME HookInv, LockInv', MonthPasses
    PROVE  HookInv'
<1>1. /\ agent' = agent /\ rows' = rows /\ written' = written /\ half' = half /\ over' = over
      /\ upgrades' = upgrades /\ proc' = proc /\ delivered' = delivered /\ twice' = twice /\ numbers' = numbers
      /\ failed' = failed /\ cut' = cut /\ excuse' = excuse
      /\ state' = [s \in DOMAIN state |-> [state[s] EXCEPT !.old = TRUE]] /\ \A p \in Procs : At(p, "idle")
  BY DEF MonthPasses, worldVars, historyVars
<1>2. HookTypeOK /\ RowsNumbered /\ ProcsInSession /\ AllAccounted /\ AllNumbered /\ OnceDelivered
  BY DEF HookInv
<1>3. ASSUME NEW s \in DOMAIN state
      PROVE  /\ state'[s] \in EntrySet /\ state'[s].count = state[s].count
             /\ state'[s].offset = state[s].offset /\ state'[s].buffer = state[s].buffer
  BY <1>1, <1>2 DEF HookTypeOK, IsEntries, EntrySet
<1>4. HookTypeOK'
  <2>1. IsEntries(state)'
    BY <1>1, <1>2, <1>3 DEF HookTypeOK, IsEntries
  <2>2. QED
    BY <1>1, <1>2, <2>1 DEF HookTypeOK, ProcOK, IsEntries
<1>5. RowsNumbered'
  BY <1>1, <1>2, RowsSame
<1>6. ProcsInSession'
  BY <1>1, <1>2 DEF ProcsInSession, At
<1>7. \A s \in Sessions : Entry(s)'.count = Entry(s).count /\ Entry(s)'.offset = Entry(s).offset /\ Entry(s)'.buffer = Entry(s).buffer
  BY <1>1, <1>3 DEF Entry, LoadSession
<1>8. ASSUME NEW s \in Sessions, Untruncated(s)' PROVE EntryDone(World(s)', Entry(s)')
  <2>1. Untruncated(s) /\ World(s)' = World(s)
    BY <1>1, <1>8 DEF Untruncated, World
  <2>2. EntryDone(World(s), Entry(s))
    BY <1>2, <2>1 DEF AllAccounted
  <2>3. QED
    BY <1>7, <2>1, <2>2 DEF EntryDone, EntryOK, Rows
<1>9. AllAccounted' /\ AllNumbered' /\ OnceDelivered'
  <2>1. \A q \in Procs : ~ PastLock(q)' /\ ~ PastLock(q)
    BY <1>1 DEF PastLock, At
  <2>2. \A x \in Sessions : (over[x] => over'[x]) /\ excuse[x] \subseteq excuse'[x]
    BY <1>1
  <2>3. upgrades' > 0 => \A x \in Sessions : "forgot" \in excuse'[x]
    BY <1>1, <1>2 DEF AllNumbered
  <2>4. QED
    BY <1>1, <1>2, <1>4, <1>5, <1>7, <1>8, <2>1, <2>2, <2>3, QuietStep
<1>10. QED
  BY <1>4, <1>5, <1>6, <1>9, Zenon DEF HookInv

LEMMA UpgradeStep ==
    ASSUME HookInv, LockInv', UpgradeHook
    PROVE  HookInv'
<1>1. /\ agent' = agent /\ rows' = rows /\ written' = written /\ half' = half /\ over' = over
      /\ upgrades' = upgrades + 1 /\ proc' = proc /\ delivered' = delivered /\ twice' = twice /\ numbers' = numbers
      /\ failed' = failed /\ cut' = cut /\ Excuse(Sessions, "forgot") /\ state' = <<>>
  BY DEF UpgradeHook, worldVars
<1>2. /\ HookTypeOK /\ RowsNumbered /\ ProcsInSession /\ AllAccounted /\ AllNumbered /\ OnceDelivered
      /\ LockInv /\ DOMAIN excuse = Sessions
  BY DEF HookInv, HookTypeOK
<1>3. DOMAIN excuse' = Sessions /\ \A s \in Sessions : excuse[s] \subseteq excuse'[s] /\ "forgot" \in excuse'[s] /\ ~ Steady(s)'
  BY <1>1, <1>2, ExcuseFacts DEF Steady
<1>4. HookTypeOK'
  <2>1. IsEntries(state)'
    BY <1>1 DEF IsEntries
  <2>2. QED
    BY <1>1, <1>2, <1>3, <2>1 DEF HookTypeOK, ProcOK, IsEntries
<1>5. RowsNumbered'
  BY <1>1, <1>2, <1>3, RowsSame
<1>6. ProcsInSession'
  <2>1. \A p \in Procs : proc[p].file <= upgrades + 1
    BY <1>2, HookAssumption DEF ProcsInSession, LockInv
  <2>2. QED
    BY <1>1, <1>2, <2>1 DEF ProcsInSession, At
<1>7. AllAccounted' /\ AllNumbered' /\ OnceDelivered'
  <2>1. \A x \in Sessions : Entry(x)' = NoEntry
    BY <1>1 DEF Entry, LoadSession
  <2>2. \A q \in Procs : (PastLock(q)' <=> PastLock(q)) /\ proc'[q] = proc[q]
    BY <1>1 DEF PastLock, At
  <2>3. \A x \in Sessions : (over[x] => over'[x]) /\ excuse[x] \subseteq excuse'[x]
    BY <1>1, <1>3
  <2>4. QED
    BY <1>1, <1>2, <1>3, <1>4, <1>5, <2>1, <2>2, <2>3, QuietStep
<1>8. QED
  BY <1>4, <1>5, <1>6, <1>7, Zenon DEF HookInv

LEMMA NoStep ==
    ASSUME HookInv, LockInv', UNCHANGED vars
    PROVE  HookInv'
<1>1. /\ agent' = agent /\ rows' = rows /\ written' = written /\ half' = half /\ over' = over /\ state' = state
      /\ upgrades' = upgrades /\ proc' = proc /\ delivered' = delivered /\ twice' = twice /\ numbers' = numbers
      /\ failed' = failed /\ cut' = cut /\ excuse' = excuse
  BY DEF vars, worldVars, historyVars
<1>2. HookTypeOK /\ RowsNumbered /\ ProcsInSession /\ AllAccounted /\ AllNumbered /\ OnceDelivered
  BY DEF HookInv
<1>3. HookTypeOK'
  BY <1>1, <1>2 DEF HookTypeOK, ProcOK, IsEntries
<1>4. RowsNumbered'
  BY <1>1, <1>2, RowsSame
<1>5. ProcsInSession'
  BY <1>1, <1>2 DEF ProcsInSession, At
<1>6. AllAccounted' /\ AllNumbered' /\ OnceDelivered'
  <2>1. \A x \in Sessions : Entry(x)' = Entry(x) /\ (over[x] => over'[x]) /\ excuse[x] \subseteq excuse'[x]
    BY <1>1 DEF Entry, LoadSession
  <2>2. \A q \in Procs : (PastLock(q)' <=> PastLock(q)) /\ proc'[q] = proc[q]
    BY <1>1 DEF PastLock, At
  <2>3. upgrades' > 0 => \A x \in Sessions : "forgot" \in excuse'[x]
    BY <1>1, <1>2 DEF AllNumbered
  <2>4. QED
    BY <1>1, <1>2, <1>3, <1>4, <2>1, <2>2, <2>3, QuietStep
<1>7. QED
  BY <1>3, <1>4, <1>5, <1>6, Zenon DEF HookInv

LEMMA HookBegins == Init => HookInv
<1> SUFFICES ASSUME Init PROVE HookInv
  OBVIOUS
<1>1. LockInv
  BY InitInv
<1>2. /\ agent \in Agents /\ state = <<>> /\ upgrades = 0 /\ proc = [p \in Procs |-> Idle]
      /\ \A s \in Sessions : /\ rows[s] = <<>> /\ written[s] = 0 /\ half[s] = 0 /\ over[s] = TRUE /\ excuse[s] = {}
                             /\ delivered[s] = {} /\ twice[s] = {} /\ numbers[s] = {} /\ failed[s] = {} /\ cut[s] = {}
      /\ DOMAIN excuse = Sessions
  BY DEF Init
<1>3. \A p \in Procs : proc[p] = Idle /\ ~ PastLock(p) /\ At(p, "idle")
  BY <1>2, IdleOK DEF PastLock, At
<1>4. HookTypeOK
  <2>1. IsEntries(state) /\ \A p \in Procs : ProcOK(proc[p])
    BY <1>2, <1>3, IdleOK DEF IsEntries
  <2>2. rows \in [Sessions -> Seq(RowSet)] /\ written \in [Sessions -> Nat] /\ half \in [Sessions -> Nat] /\ over \in [Sessions -> BOOLEAN]
    BY DEF Init
  <2>3. /\ delivered \in [Sessions -> SUBSET Nat] /\ failed \in [Sessions -> SUBSET Nat]
        /\ twice \in [Sessions -> SUBSET Nat] /\ cut \in [Sessions -> SUBSET Nat]
        /\ numbers \in [Sessions -> SUBSET (Nat \X Nat)]
    BY DEF Init
  <2>4. QED
    BY <1>2, <2>1, <2>2, <2>3 DEF HookTypeOK
<1>5. RowsNumbered
  <2>1. DOMAIN <<>> = {} /\ Len(<<>>) = 0
    OBVIOUS
  <2>2. WrittenOK(<<>>, 0, 0) /\ PlacesOK(<<>>, 0, 0)
    BY <2>1 DEF WrittenOK, PlacesOK, Rising
  <2>3. QED
    BY <1>2, <2>2 DEF RowsNumbered
<1>6. ProcsInSession
  BY <1>2, <1>3, IdleOK DEF ProcsInSession, At
<1>7. \A s \in Sessions : Entry(s) = NoEntry /\ Untruncated(s)
  BY <1>2 DEF Entry, LoadSession, Untruncated
<1>8. AllAccounted
  <2>1. ASSUME NEW s \in Sessions PROVE Boundary(World(s), 0) /\ EntryDone(World(s), Entry(s))
    <3>1. World(s).rows = <<>> /\ World(s).over = TRUE
      BY <1>2 DEF World
    <3>2. Boundary(World(s), 0)
      BY <3>1 DEF Boundary
    <3>3. QED
      BY <1>4, <1>5, <1>7, <3>2, WorldIsWhole, NoEntryDone
  <2>2. QED
    BY <1>3, <2>1 DEF AllAccounted
<1>9. AllNumbered
  BY <1>2, <1>3 DEF AllNumbered, Numbered
<1>10. OnceDelivered
  BY <1>2 DEF OnceDelivered
<1>11. QED
  BY <1>1, <1>4, <1>5, <1>6, <1>8, <1>9, <1>10 DEF HookInv

-----------------------------------------------------------------------------
(* A process reads, emits and saves.                                       *)

LEMMA ReadBehind ==
    ASSUME NEW s \in Sessions, HookTypeOK, NEW e \in EntrySet
    PROVE  /\ FromStart(s, e) \in EntrySet /\ ReadNewJsonl(s, FromStart(s, e)) \in EntrySet
           /\ \E k \in 0..Len(rows[s]) : NewRows(s, FromStart(s, e)) = Behind(rows[s], k)
<1> DEFINE n == Len(rows[s])
<1>1. n \in Nat /\ half[s] \in Nat /\ (Size(s) = 2 * n \/ Size(s) = 2 * n + 1)
  <2>1. n \in Nat /\ half[s] \in Nat
    BY DEF HookTypeOK
  <2>2. 2 * n \in Int
    BY <2>1
  <2>3. CASE half[s] = 0
    BY <2>1, <2>2, <2>3 DEF Size
  <2>4. CASE half[s] # 0
    BY <2>1, <2>2, <2>4 DEF Size
  <2>5. QED
    BY <2>1, <2>3, <2>4
<1> HIDE DEF n
<1> DEFINE f == FromStart(s, e)
<1>2. f \in EntrySet /\ f.offset <= Size(s)
  <2>1. CASE Size(s) < e.offset
    <3>1. f = [e EXCEPT !.offset = 0, !.buffer = 0]
      BY <2>1 DEF FromStart
    <3> HIDE DEF f
    <3>2. f \in EntrySet /\ f.offset = 0
      BY <3>1 DEF EntrySet
    <3>3. 0 <= Size(s)
      BY <1>1
    <3>4. QED
      BY <3>2, <3>3
  <2>2. CASE ~ (Size(s) < e.offset)
    <3>1. e.offset \in Nat /\ Size(s) \in Nat
      BY <1>1 DEF EntrySet
    <3>2. QED
      BY <2>2, <3>1 DEF FromStart
  <2>3. QED
    BY <2>1, <2>2
<1> HIDE DEF f
<1>3. ReadNewJsonl(s, f) \in EntrySet
  <2>1. Size(s) \in Nat
    BY <1>1
  <2>2. QED
    BY <1>1, <1>2, <2>1 DEF ReadNewJsonl, EntrySet
<1>4. f.offset \in Nat /\ f.offset \div 2 \in 0..n
  <2>1. f.offset \in Nat /\ f.offset <= 2 * n + 1
    BY <1>1, <1>2 DEF EntrySet
  <2>2. QED
    BY <1>1, <2>1
<1>5. \E k \in 0..n : NewRows(s, f) = RowsBehind(s, k)
  <2> DEFINE k == f.offset \div 2
  <2>1. k \in 0..n /\ (k < n => k + 1 \in 0..n)
    BY <1>1, <1>4
  <2>2. NewRows(s, f) = RowsBehind(s, k) \/ (k < n /\ NewRows(s, f) = RowsBehind(s, k + 1))
    BY DEF NewRows, n
  <2> HIDE DEF k
  <2>3. QED
    BY <2>1, <2>2
<1>6. QED
  BY <1>2, <1>3, <1>5, BehindIs DEF n, f

\* What a process that reads gets to, and the turns it finds.
LEMMA ReadTypes ==
    ASSUME NEW s \in Sessions, HookTypeOK, RowsNumbered, NEW e \in EntrySet
    PROVE  /\ ReadNewJsonl(s, FromStart(s, e)) \in EntrySet
           /\ BuildTurns(agent, NewRows(s, FromStart(s, e))) \in Seq(TurnSet)
<1>1. PICK k \in 0..Len(rows[s]) : NewRows(s, FromStart(s, e)) = Behind(rows[s], k)
  BY ReadBehind
<1>2. rows[s] \in Seq(RowSet) /\ Rising(rows[s]) /\ agent \in Agents
  BY DEF HookTypeOK, RowsNumbered, WrittenOK
<1>3. Behind(rows[s], k) \in Seq(PlainRow) /\ Rising(Behind(rows[s], k))
  BY <1>2, BehindRows
<1> DEFINE bs == Behind(rows[s], k)
<1> HIDE DEF bs
<1>4. TurnsInv(BuildTurns(agent, bs), bs)
  BY <1>2, <1>3, TurnsBuilt DEF bs
<1>5. BuildTurns(agent, bs) \in Seq(TurnSet)
  BY <1>4 DEF TurnsInv
<1>6. QED
  BY <1>1, <1>5, ReadBehind DEF bs

\* Without a truncation a process reads on from the offset it loaded, half a row included.
LEMMA ReadWhole ==
    ASSUME NEW s \in Sessions, HookTypeOK, RowsNumbered, Untruncated(s), NEW e \in EntrySet, EntryOK(World(s), e)
    PROVE  /\ FromStart(s, e) = e /\ NewRows(s, e) = Behind(rows[s], Rows(e))
           /\ ReadNewJsonl(s, e) = [e EXCEPT !.offset = SizeOf(World(s)), !.buffer = World(s).half]
<1>1. Whole(World(s)) /\ World(s).rows = rows[s] /\ World(s).half = half[s]
  BY WorldIsWhole DEF World
<1>2. Size(s) = SizeOf(World(s)) /\ SizeOf(World(s)) \in Nat
  BY <1>1, WholeFacts DEF Size, SizeOf
<1>3. FromStart(s, e) = e
  BY <1>2 DEF FromStart, EntryOK, EntrySet
<1>4. ReadNewJsonl(s, e) = [e EXCEPT !.offset = SizeOf(World(s)), !.buffer = World(s).half]
  BY <1>1, <1>2 DEF ReadNewJsonl
<1>5. NewRows(s, e) = RowsBehind(s, Rows(e))
  <2>1. ASSUME e.offset % 2 = 1, Rows(e) < Len(rows[s]) PROVE rows[s][Rows(e) + 1].n = e.buffer
    <3>1. e.buffer = Rows(e) + 1 /\ Rows(e) \in Nat /\ Len(rows[s]) \in Nat
      BY <1>1, <2>1, EntryFacts, WholeFacts DEF EntryOK
    <3>2. Rows(e) + 1 \in DOMAIN rows[s]
      BY <1>1, <2>1, <3>1, WholeFacts
    <3>3. QED
      BY <1>1, <3>1, <3>2 DEF Whole, ByPlace
  <2>2. QED
    BY <2>1 DEF NewRows, Rows
<1>6. QED
  BY <1>3, <1>4, <1>5, BehindIs

LEMMA ReadStep ==
    ASSUME HookInv, LockInv', NEW p \in Procs, ReadRows(p)
    PROVE  HookInv'
<1> DEFINE s == proc[p].session
<1>1. /\ agent' = agent /\ rows' = rows /\ written' = written /\ half' = half /\ over' = over /\ state' = state
      /\ upgrades' = upgrades /\ delivered' = delivered /\ twice' = twice /\ numbers' = numbers /\ failed' = failed
      /\ At(p, "lock")
  BY DEF ReadRows, worldVars
<1>2. /\ HookTypeOK /\ RowsNumbered /\ ProcsInSession /\ AllAccounted /\ AllNumbered /\ OnceDelivered /\ LockInv
      /\ DOMAIN excuse = Sessions /\ cut \in [Sessions -> SUBSET Nat] /\ IsEntries(state)
  BY DEF HookInv, HookTypeOK
<1>3. PICK m \in LoadState :
        LET ss == FromStart(s, LoadSession(m, s))
        IN  /\ IF m = state THEN UNCHANGED <<faults, excuse>> ELSE Fault /\ Excuse(DOMAIN state, "forgot")
            /\ proc' = [proc EXCEPT ![p].pc = "emit", ![p].state = m, ![p].ss = ReadNewJsonl(s, ss),
                                    ![p].turns = BuildTurns(agent, NewRows(s, ss))]
            /\ cut' = [cut EXCEPT ![s] = IF proc[p].stop THEN @ ELSE @ \cup {Prompt(s, Len(rows[s]))}]
  BY DEF ReadRows
<1> DEFINE e == LoadSession(m, s)
<1> DEFINE new == ReadNewJsonl(s, FromStart(s, e))
<1> DEFINE ts == BuildTurns(agent, NewRows(s, FromStart(s, e)))
<1> DEFINE l == [proc[p] EXCEPT !.pc = "emit", !.state = m, !.ss = new, !.turns = ts]
<1>4. s \in Sessions /\ proc[p].emitted = 0 /\ proc[p].stop \in BOOLEAN /\ ProcOK(proc[p])
      /\ IF proc[p].stop THEN over[s] ELSE agent = "claude-code"
  BY <1>1, <1>2 DEF ProcsInSession, At, HookTypeOK, ProcOK
<1>5. m = state \/ m = <<>>
  BY DEF LoadState
<1>6. IsEntries(m) /\ e \in EntrySet
  <2>1. IsEntries(m)
    BY <1>2, <1>5 DEF IsEntries
  <2>2. QED
    BY <2>1, LoadType
<1>7. new \in EntrySet /\ ts \in Seq(TurnSet)
  BY <1>2, <1>4, <1>6, ReadTypes
<1>8. proc' = [proc EXCEPT ![p] = l]
  <2> DEFINE a == new
  <2> DEFINE b == ts
  <2>1. proc' = [proc EXCEPT ![p].pc = "emit", ![p].state = m, ![p].ss = a, ![p].turns = b]
    BY <1>3, Zenon
  <2> HIDE DEF a, b
  <2>2. proc' = [proc EXCEPT ![p] = [proc[p] EXCEPT !.pc = "emit", !.state = m, !.ss = a, !.turns = b]]
    BY <1>2, <2>1 DEF LockInv
  <2>3. QED
    BY <2>2 DEF a, b
<1> HIDE DEF new, ts
<1>9. /\ l.pc = "emit" /\ l.state = m /\ l.ss = new /\ l.turns = ts /\ l.session = s /\ l.stop = proc[p].stop
      /\ l.emitted = 0 /\ l.file = proc[p].file /\ ProcOK(l)
  <2>1. DOMAIN proc[p] = DOMAIN Idle
    BY <1>2 DEF LockInv
  <2>2. /\ l.pc = "emit" /\ l.state = m /\ l.ss = new /\ l.turns = ts /\ l.session = s /\ l.stop = proc[p].stop
        /\ l.emitted = 0 /\ l.file = proc[p].file
    BY <1>4, <2>1 DEF Idle
  <2>3. QED
    BY <1>4, <1>6, <1>7, <2>2 DEF ProcOK
<1> HIDE DEF l
<1>10. proc'[p] = l /\ \A q \in Procs \ {p} : proc'[q] = proc[q]
  BY <1>2, <1>8 DEF LockInv
<1>11. /\ DOMAIN excuse' = Sessions /\ \A t \in Sessions : excuse[t] \subseteq excuse'[t]
       /\ \A t \in Sessions : "forgot" \notin excuse'[t] => LoadSession(m, t) = Entry(t)
  <2>1. CASE m = state
    BY <1>2, <1>3, <2>1 DEF Entry
  <2>2. CASE m # state
    <3>1. Excuse(DOMAIN state, "forgot") /\ m = <<>>
      BY <1>3, <1>5, <2>2
    <3>2. DOMAIN excuse' = Sessions /\ \A t \in Sessions : excuse[t] \subseteq excuse'[t] /\ (t \in DOMAIN state => "forgot" \in excuse'[t])
      BY <1>2, <3>1, ExcuseFacts
    <3>3. QED
      BY <3>1, <3>2 DEF LoadSession, Entry
  <2>3. QED
    BY <2>1, <2>2
<1>12. /\ cut' \in [Sessions -> SUBSET Nat] /\ \A t \in Sessions : cut[t] \subseteq cut'[t]
       /\ ~ proc[p].stop => LastPrompt(rows[s], Len(rows[s])) \in cut'[s]
  <2>1. LastPrompt(rows[s], Len(rows[s])) \in Nat
    <3>1. rows[s] \in Seq(RowSet) /\ written[s] \in Nat /\ \A i \in DOMAIN rows[s] : rows[s][i].n <= written[s]
      BY <1>2, <1>4 DEF HookTypeOK, RowsNumbered, WrittenOK
    <3>2. Len(rows[s]) \in 0..Len(rows[s])
      BY <3>1
    <3>3. QED
      BY <3>1, <3>2, PromptInNat
  <2>2. cut' = [cut EXCEPT ![s] = IF proc[p].stop THEN cut[s] ELSE cut[s] \cup {LastPrompt(rows[s], Len(rows[s]))}]
    BY <1>3, PromptIs
  <2> HIDE DEF s
  <2>3. QED
    BY <1>2, <1>4, <2>1, <2>2
<1> HIDE DEF s, e
<1>13. HookTypeOK'
  <2>1. \A q \in Procs : ProcOK(proc[q])'
    <3>1. \A q \in Procs : ProcOK(proc'[q])
      BY <1>2, <1>9, <1>10 DEF HookTypeOK
    <3>2. QED
      BY <3>1 DEF ProcOK, IsEntries
  <2>2. QED
    BY <1>1, <1>2, <1>11, <1>12, <2>1 DEF HookTypeOK, IsEntries
<1>14. RowsNumbered'
  BY <1>1, <1>2, <1>11, RowsSame
<1>15. ProcsInSession'
  <2>1. ASSUME NEW q \in Procs
        PROVE  /\ At(q, "idle")' => proc'[q].session = None
               /\ ~ At(q, "idle")' => /\ proc'[q].session \in Sessions
                                      /\ IF proc'[q].stop THEN over'[proc'[q].session] ELSE agent' = "claude-code"
               /\ At(q, "lock")' => proc'[q].emitted = 0
               /\ At(q, "emit")' => proc'[q].emitted <= Len(proc'[q].turns)
               /\ proc'[q].file <= upgrades'
    <3>1. CASE q = p
      <4>1. 0 <= Len(ts) /\ proc[p].file <= upgrades
        BY <1>2, <1>7 DEF ProcsInSession
      <4>2. QED
        BY <1>1, <1>4, <1>9, <1>10, <3>1, <4>1 DEF At
    <3>2. CASE q # p
      BY <1>1, <1>2, <1>10, <3>2 DEF ProcsInSession, At
    <3>3. QED
      BY <3>1, <3>2
  <2>2. QED
    BY <2>1 DEF ProcsInSession
<1>16. ASSUME NEW t \in Sessions
       PROVE  /\ Entry(t)' = Entry(t) /\ (Untruncated(t)' => Untruncated(t))
              /\ Steady(t)' => Steady(t) /\ Untruncated(t) /\ Untruncated(t)' /\ "forgot" \notin excuse'[t]
              /\ excuse'[t] = {} => excuse[t] = {}
  <2>1. Entry(t)' = Entry(t)
    BY <1>1 DEF Entry, LoadSession
  <2>2. QED
    BY <1>11, <2>1, MoreExcuses
<1>17. ASSUME NEW t \in Sessions, Untruncated(t)
       PROVE  /\ Whole(World(t)) /\ Grows(World(t), World(t)') /\ EntryDone(World(t), LoadSession(m, t))
              /\ LoadSession(m, t) \in EntrySet
  <2>1. Whole(World(t)) /\ Grows(World(t), World(t)')
    BY <1>1, <1>2, <1>12, <1>17, WorldIsWhole, WorldGrows
  <2>2. LoadSession(m, t) = Entry(t) \/ LoadSession(m, t) = NoEntry
    BY <1>5 DEF LoadSession, Entry
  <2>3. EntryDone(World(t), Entry(t)) /\ EntryDone(World(t), NoEntry)
    BY <1>2, <1>17, <2>1, NoEntryDone DEF AllAccounted
  <2>4. QED
    BY <1>6, <2>1, <2>2, <2>3, LoadType
<1>18. ASSUME Untruncated(s)
       PROVE  /\ new = [e EXCEPT !.offset = SizeOf(World(s)), !.buffer = World(s).half]
              /\ ts = BuildTurns(World(s).agent, Behind(World(s).rows, Rows(e))) /\ EntryOK(World(s), e)
  <2>1. EntryOK(World(s), e)
    BY <1>4, <1>17, <1>18 DEF EntryDone, e
  <2>2. QED
    BY <1>2, <1>4, <1>6, <1>18, <2>1, ReadWhole DEF new, ts, World
<1>19. AllAccounted'
  <2>1. ASSUME NEW t \in Sessions, Untruncated(t)'
        PROVE  EntryDone(World(t)', LoadSession(m, t)) /\ (t = s => ReadOK(World(t)', l))
    <3>1. Untruncated(t) /\ Whole(World(t)')
      BY <1>13, <1>14, <1>16, <2>1, WorldIsWholeNext
    <3>2. ASSUME NEW w, w = World(t), NEW w2, w2 = World(t)'
          PROVE  EntryDone(w2, LoadSession(m, t)) /\ (t = s => ReadOK(w2, l))
      <4>1. /\ Whole(w) /\ Whole(w2) /\ Grows(w, w2) /\ EntryDone(w, LoadSession(m, t)) /\ LoadSession(m, t) \in EntrySet
        BY <1>17, <3>1, <3>2
      <4>2. w2.rows = w.rows /\ w2.half = w.half /\ SizeOf(w2) = SizeOf(w)
        BY <1>1, <3>2 DEF World, SizeOf
      <4>3. EntryDone(w2, LoadSession(m, t))
        BY <4>1, EntryDoneKept
      <4>4. ASSUME t = s PROVE ReadOK(w2, l)
        <5>1. /\ l.ss = [e EXCEPT !.offset = SizeOf(w), !.buffer = w.half] /\ l.emitted = 0
              /\ l.turns = BuildTurns(w.agent, Behind(w.rows, Rows(e)))
          BY <1>9, <1>18, <3>1, <3>2, <4>4
        <5>2. EntryOK(w, e) /\ Covered(w, Rows(e)) /\ e \in EntrySet
          BY <4>1, <4>4 DEF EntryDone, e
        <5>3. w.over \/ (w.agent = "claude-code" /\ LastPrompt(w.rows, Len(w.rows)) \in w2.cut)
          BY <1>4, <1>12, <3>2, <4>4 DEF World, s
        <5>4. QED
          BY <4>1, <4>2, <5>1, <5>2, <5>3, JustRead
      <4>5. QED
        BY <4>3, <4>4
    <3>3. QED
      BY <3>2
  <2>2. \A t \in Sessions : Untruncated(t)' => Untruncated(t) /\ Grows(World(t), World(t)')
    BY <1>16, <1>17
  <2>3. ASSUME NEW q \in Procs, PastLock(q)'
        PROVE  \/ PastLock(q) /\ proc'[q] = proc[q]
               \/ \A t \in Sessions : Untruncated(t)' =>
                    /\ EntryDone(World(t)', LoadSession(proc[q].state, t)')
                    /\ proc'[q].session = t => ReadOK(World(t)', proc'[q])
    <3>1. CASE q = p
      <4>1. \A t \in Sessions : LoadSession(proc[q].state, t)' = LoadSession(m, t)
        BY <1>9, <1>10, <3>1 DEF LoadSession
      <4>2. QED
        BY <1>9, <1>10, <2>1, <3>1, <4>1
    <3>2. CASE q # p
      BY <1>10, <2>3, <3>2 DEF PastLock, At
    <3>3. QED
      BY <3>1, <3>2
  <2>4. QED
    BY <1>2, <1>13, <1>14, <1>16, <2>2, <2>3, AccountedStep
<1>20. AllNumbered'
  <2>1. upgrades' > 0 => \A t \in Sessions : "forgot" \in excuse'[t]
    BY <1>1, <1>2, <1>11 DEF AllNumbered
  <2>2. ASSUME NEW t \in Sessions, Steady(t)'
        PROVE  /\ Numbered(numbers'[t], Entry(t)', Pending(t)')
               /\ \A q \in Procs : PastLock(q)' =>
                    /\ LoadSession(proc[q].state, t)' = Entry(t)'
                    /\ proc'[q].session = t => Reader(proc'[q], numbers'[t], Entry(t)', Pending(t)')
    <3>1. Steady(t) /\ Untruncated(t) /\ "forgot" \notin excuse'[t] /\ Entry(t)' = Entry(t)
      BY <1>16, <2>2
    <3>2. Pending(t)' = Pending(t)
      BY <1>1, <1>2, <3>1, PendingSame
    <3>3. Numbered(numbers[t], Entry(t), Pending(t)) /\ LoadSession(m, t) = Entry(t)
      BY <1>2, <1>11, <3>1 DEF AllNumbered
    <3>4. ASSUME t = s PROVE Reader(l, numbers[t], Entry(t), Pending(t))
      <4>1. e = Entry(t) /\ e \in EntrySet
        BY <1>6, <3>3, <3>4 DEF e
      <4>2. Whole(World(t)) /\ EntryOK(World(t), e)
        BY <1>17, <1>18, <3>1, <3>4
      <4>3. l.ss = [e EXCEPT !.offset = SizeOf(World(t)), !.buffer = World(t).half]
        BY <1>9, <1>18, <3>1, <3>4
      <4>4. Pending(t) = BuildTurns(World(t).agent, Behind(World(t).rows, Rows(e))) /\ l.turns = Pending(t)
        BY <1>9, <1>18, <3>1, <3>4, <4>1 DEF Pending, TurnsBehind
      <4>5. numbers[t] \subseteq Nat \X Nat
        BY <1>2 DEF HookTypeOK
      <4> DEFINE w == World(t)
      <4> DEFINE ps == Pending(t)
      <4> DEFINE nums == numbers[t]
      <4>6. /\ Whole(w) /\ EntryOK(w, e) /\ l.ss = [e EXCEPT !.offset = SizeOf(w), !.buffer = w.half]
            /\ ps = BuildTurns(w.agent, Behind(w.rows, Rows(e))) /\ l.turns = ps /\ nums \subseteq Nat \X Nat
            /\ Numbered(nums, e, ps)
        BY <3>3, <4>1, <4>2, <4>3, <4>4, <4>5
      <4> HIDE DEF w, ps, nums
      <4>7. Reader(l, nums, e, ps)
        BY <4>1, <4>6, JustReadNumbers
      <4>8. QED
        BY <4>1, <4>7 DEF ps, nums
    <3>5. ASSUME NEW q \in Procs, PastLock(q)'
          PROVE  /\ LoadSession(proc[q].state, t)' = Entry(t)
                 /\ proc'[q].session = t => Reader(proc'[q], numbers[t], Entry(t), Pending(t))
      <4>1. CASE q = p
        <5>1. LoadSession(proc[q].state, t)' = LoadSession(m, t)
          BY <1>9, <1>10, <4>1 DEF LoadSession
        <5>2. QED
          BY <1>9, <1>10, <3>3, <3>4, <4>1, <5>1
      <4>2. CASE q # p
        <5>1. PastLock(q) /\ proc'[q] = proc[q]
          BY <1>10, <3>5, <4>2 DEF PastLock, At
        <5>2. LoadSession(proc[q].state, t)' = LoadSession(proc[q].state, t)
          BY <5>1 DEF LoadSession
        <5>3. QED
          BY <1>2, <3>1, <5>1, <5>2 DEF AllNumbered
      <4>3. QED
        BY <4>1, <4>2
    <3>6. QED
      BY <1>1, <3>1, <3>2, <3>3, <3>5
  <2>3. QED
    BY <2>1, <2>2 DEF AllNumbered
<1>21. OnceDelivered'
  <2>1. \A t \in Sessions : excuse'[t] = {} => excuse[t] = {} /\ Rows(Entry(t)') = Rows(Entry(t))
    BY <1>16
  <2>2. \A q \in Procs : PastLock(q) => PastLock(q)' /\ proc'[q] = proc[q]
    BY <1>1, <1>10 DEF PastLock, At
  <2>3. QED
    BY <1>1, <1>2, <2>1, <2>2, OnceStep
<1>22. QED
  BY <1>13, <1>14, <1>15, <1>19, <1>20, <1>21, Zenon DEF HookInv

LEMMA TurnRowsNat ==
    ASSUME NEW turn \in TurnSet
    PROVE  RowsOf(turn) \subseteq Nat /\ turn.user.n \in Nat /\ turn.user.n \in RowsOf(turn)
<1>1. turn.user \in PlainRow /\ turn.msgs \in Seq(MsgSet)
  BY DEF TurnSet
<1>2. ASSUME NEW i \in DOMAIN turn.msgs, NEW b \in ToSet(turn.msgs[i].blocks) PROVE b \in PlainRow
  <2>1. turn.msgs[i] \in MsgSet
    BY <1>1
  <2>2. turn.msgs[i].blocks \in Seq(PlainRow)
    BY <2>1 DEF MsgSet
  <2>3. QED
    BY <2>2 DEF ToSet
<1>3. \A b \in PlainRow : b.n \in Nat
  BY DEF PlainRow
<1>4. QED
  BY <1>1, <1>2, <1>3 DEF RowsOf

LEMMA EmitStep ==
    ASSUME HookInv, LockInv', NEW p \in Procs, EmitTurn(p)
    PROVE  HookInv'
<1> DEFINE s == proc[p].session
<1> DEFINE turn == proc[p].turns[proc[p].emitted + 1]
<1> DEFINE num == proc[p].ss.count + proc[p].emitted + 1
<1>1. /\ agent' = agent /\ rows' = rows /\ written' = written /\ half' = half /\ over' = over /\ state' = state
      /\ upgrades' = upgrades /\ cut' = cut /\ At(p, "emit") /\ proc[p].emitted < Len(proc[p].turns)
      /\ proc' = [proc EXCEPT ![p].emitted = @ + 1]
  BY DEF EmitTurn, worldVars
<1>2. /\ HookTypeOK /\ RowsNumbered /\ ProcsInSession /\ AllAccounted /\ AllNumbered /\ OnceDelivered /\ LockInv
      /\ DOMAIN excuse = Sessions /\ numbers \in [Sessions -> SUBSET (Nat \X Nat)]
      /\ delivered \in [Sessions -> SUBSET Nat] /\ failed \in [Sessions -> SUBSET Nat] /\ twice \in [Sessions -> SUBSET Nat]
  BY DEF HookInv, HookTypeOK
<1>3. PICK r \in DeliverTrace(TRUE, TRUE) \cup {BuildRaises} :
             /\ delivered' = [delivered EXCEPT ![s] = IF r.copies = 0 THEN @ ELSE @ \cup RowsOf(turn)]
             /\ failed' = [failed EXCEPT ![s] = IF r.copies > 0 THEN @ ELSE @ \cup RowsOf(turn)]
             /\ twice' = [twice EXCEPT ![s] =
                    IF r.copies > 1 \/ (r.copies = 1 /\ turn.user.n \in delivered[s])
                    THEN @ \cup {turn.user.n} ELSE @]
             /\ numbers' = [numbers EXCEPT ![s] = @ \cup {<<num, turn.user.n>>}]
             /\ IF r.copies > 1 /\ r.unanswered THEN Excuse({s}, "repeat") ELSE UNCHANGED excuse
  BY DEF EmitTurn
<1>4. r.copies \in Nat /\ (r.copies > 1 => r.unanswered)
  BY DeliverFacts
<1> DEFINE l == proc[p]
<1> DEFINE l2 == [l EXCEPT !.emitted = l.emitted + 1]
<1>5. /\ s \in Sessions /\ ProcOK(l) /\ l.pc = "emit" /\ l.file <= upgrades /\ DOMAIN l = DOMAIN Idle
      /\ IF l.stop THEN over[s] ELSE agent = "claude-code"
  BY <1>1, <1>2 DEF ProcsInSession, At, HookTypeOK, LockInv
<1>6. /\ l.emitted \in Nat /\ l.turns \in Seq(TurnSet) /\ l.ss \in EntrySet /\ l.emitted < Len(l.turns)
      /\ Len(l.turns) \in Nat /\ l.emitted + 1 \in DOMAIN l.turns /\ turn \in TurnSet
  <2>1. l.emitted \in Nat /\ l.turns \in Seq(TurnSet) /\ l.ss \in EntrySet /\ l.emitted < Len(l.turns)
    BY <1>1, <1>5 DEF ProcOK
  <2> DEFINE ts == l.turns
  <2> DEFINE i == l.emitted
  <2>2. ts \in Seq(TurnSet) /\ i \in Nat /\ i < Len(ts)
    BY <2>1
  <2> HIDE DEF ts, i
  <2>3. Len(ts) \in Nat /\ i + 1 \in DOMAIN ts /\ ts[i + 1] \in TurnSet
    BY <2>2
  <2>4. QED
    BY <2>1, <2>3 DEF ts, i
<1>7. RowsOf(turn) \subseteq Nat /\ turn.user.n \in Nat /\ num \in Nat
  <2>1. RowsOf(turn) \subseteq Nat /\ turn.user.n \in Nat
    BY <1>6, TurnRowsNat
  <2>2. l.ss.count \in Nat
    BY <1>6 DEF EntrySet
  <2>3. QED
    BY <1>6, <2>1, <2>2
<1>8. proc' = [proc EXCEPT ![p] = l2]
  BY <1>1
<1>9. /\ l2.pc = "emit" /\ l2.state = l.state /\ l2.ss = l.ss /\ l2.turns = l.turns /\ l2.session = l.session
      /\ l2.stop = l.stop /\ l2.emitted = l.emitted + 1 /\ l2.file = l.file /\ ProcOK(l2)
  <2>1. /\ l2.pc = "emit" /\ l2.state = l.state /\ l2.ss = l.ss /\ l2.turns = l.turns /\ l2.session = l.session
        /\ l2.stop = l.stop /\ l2.emitted = l.emitted + 1 /\ l2.file = l.file
    BY <1>5 DEF Idle
  <2>2. l.emitted + 1 \in Nat
    BY <1>6
  <2> HIDE DEF l2, l
  <2>3. QED
    BY <1>5, <2>1, <2>2 DEF ProcOK
<1> HIDE DEF l2
<1>10. proc'[p] = l2 /\ \A q \in Procs \ {p} : proc'[q] = proc[q]
  BY <1>2, <1>8 DEF LockInv
<1> HIDE DEF num, turn, s
<1>11. /\ DOMAIN excuse' = Sessions /\ \A t \in Sessions : excuse[t] \subseteq excuse'[t]
       /\ r.copies > 1 => excuse'[s] # {}
  <2>1. CASE r.copies > 1
    BY <1>2, <1>3, <1>4, <1>5, <2>1, ExcuseFacts
  <2>2. CASE ~ (r.copies > 1)
    BY <1>2, <1>3, <2>2
  <2>3. QED
    BY <2>1, <2>2
<1>12. /\ \A t \in Sessions \ {s} : /\ delivered'[t] = delivered[t] /\ failed'[t] = failed[t]
                                    /\ twice'[t] = twice[t] /\ numbers'[t] = numbers[t]
       /\ delivered'[s] = (IF r.copies = 0 THEN delivered[s] ELSE delivered[s] \cup RowsOf(turn))
       /\ failed'[s] = (IF r.copies > 0 THEN failed[s] ELSE failed[s] \cup RowsOf(turn))
       /\ twice'[s] = (IF r.copies > 1 \/ (r.copies = 1 /\ turn.user.n \in delivered[s])
                       THEN twice[s] \cup {turn.user.n} ELSE twice[s])
       /\ numbers'[s] = numbers[s] \cup {<<num, turn.user.n>>}
  BY <1>2, <1>3, <1>5
<1>13. HookTypeOK'
  <2>1. \A q \in Procs : ProcOK(proc[q])'
    <3>1. \A q \in Procs : ProcOK(proc'[q])
      BY <1>2, <1>9, <1>10 DEF HookTypeOK
    <3>2. QED
      BY <3>1 DEF ProcOK, IsEntries
  <2>2. delivered' \in [Sessions -> SUBSET Nat] /\ failed' \in [Sessions -> SUBSET Nat] /\ twice' \in [Sessions -> SUBSET Nat]
    BY <1>2, <1>3, <1>5, <1>7
  <2>3. numbers' \in [Sessions -> SUBSET (Nat \X Nat)]
    BY <1>2, <1>3, <1>5, <1>7
  <2>4. QED
    BY <1>1, <1>2, <1>11, <2>1, <2>2, <2>3 DEF HookTypeOK, IsEntries
<1>14. RowsNumbered'
  BY <1>1, <1>2, <1>11, RowsSame
<1>15. ProcsInSession'
  <2>1. ASSUME NEW q \in Procs
        PROVE  /\ At(q, "idle")' => proc'[q].session = None
               /\ ~ At(q, "idle")' => /\ proc'[q].session \in Sessions
                                      /\ IF proc'[q].stop THEN over'[proc'[q].session] ELSE agent' = "claude-code"
               /\ At(q, "lock")' => proc'[q].emitted = 0
               /\ At(q, "emit")' => proc'[q].emitted <= Len(proc'[q].turns)
               /\ proc'[q].file <= upgrades'
    <3>1. CASE q = p
      <4>1. l.emitted + 1 <= Len(l.turns) /\ l.session = s
        BY <1>6 DEF s
      <4> HIDE DEF l
      <4>2. QED
        BY <1>1, <1>5, <1>9, <1>10, <3>1, <4>1 DEF At
    <3>2. CASE q # p
      BY <1>1, <1>2, <1>10, <3>2 DEF ProcsInSession, At
    <3>3. QED
      BY <3>1, <3>2
  <2>2. QED
    BY <2>1 DEF ProcsInSession
<1>16. ASSUME NEW t \in Sessions
       PROVE  /\ Entry(t)' = Entry(t) /\ (Untruncated(t)' => Untruncated(t))
              /\ Steady(t)' => Steady(t) /\ Untruncated(t) /\ Untruncated(t)' /\ "forgot" \notin excuse'[t]
              /\ excuse'[t] = {} => excuse[t] = {}
  <2>1. Entry(t)' = Entry(t)
    BY <1>1 DEF Entry, LoadSession
  <2>2. QED
    BY <1>11, <2>1, MoreExcuses
<1>17. ASSUME NEW t \in Sessions, Untruncated(t) PROVE Whole(World(t)) /\ Grows(World(t), World(t)')
  <2>1. delivered[t] \subseteq delivered'[t] /\ failed[t] \subseteq failed'[t]
    BY <1>12
  <2>2. QED
    BY <1>1, <1>2, <1>17, <2>1, WorldIsWhole, WorldGrows
<1>18. PastLock(p) /\ \A q \in Procs : (PastLock(q)' <=> PastLock(q)) /\ LoadSession(proc[q].state, s)' = LoadSession(proc[q].state, s)
  <2>1. ASSUME NEW q \in Procs
        PROVE  (PastLock(q)' <=> PastLock(q)) /\ LoadSession(proc[q].state, s)' = LoadSession(proc[q].state, s)
    <3>1. proc'[q].pc = proc[q].pc /\ proc'[q].state = proc[q].state
      BY <1>5, <1>9, <1>10
    <3>2. s' = s
      BY <1>9, <1>10 DEF s
    <3>3. QED
      BY <3>1, <3>2 DEF PastLock, At, LoadSession
  <2>2. QED
    BY <1>1, <2>1 DEF PastLock
<1>19. AllAccounted'
  <2>1. ASSUME NEW t \in Sessions, Untruncated(t)'
        PROVE  EntryDone(World(t)', LoadSession(l.state, t)) /\ (t = s => ReadOK(World(t)', l2))
    <3>1. Untruncated(t) /\ Whole(World(t)')
      BY <1>13, <1>14, <1>16, <2>1, WorldIsWholeNext
    <3>2. EntryDone(World(t), LoadSession(l.state, t)) /\ LoadSession(l.state, t) \in EntrySet /\ (t = s => ReadOK(World(t), l))
      BY <1>2, <1>5, <1>18, <3>1, LoadType DEF AllAccounted, ProcOK, s
    <3> HIDE DEF l
    <3>3. ASSUME NEW w, w = World(t), NEW w2, w2 = World(t)'
          PROVE  EntryDone(w2, LoadSession(l.state, t)) /\ (t = s => ReadOK(w2, l2))
      <4>1. /\ Whole(w) /\ Whole(w2) /\ Grows(w, w2) /\ w2.rows = w.rows
        BY <1>1, <1>17, <3>1, <3>3 DEF World
      <4>2. EntryDone(w2, LoadSession(l.state, t))
        BY <3>2, <3>3, <4>1, EntryDoneKept
      <4>3. ASSUME t = s PROVE ReadOK(w2, l2)
        <5>1. RowsOf(turn) \subseteq w2.delivered \/ RowsOf(turn) \subseteq w2.failed
          <6>1. w2.delivered = delivered'[s] /\ w2.failed = failed'[s]
            BY <3>3, <4>3 DEF World
          <6>2. QED
            BY <1>4, <1>12, <6>1
        <5>2. RowsOf(l.turns[l.emitted + 1]) \subseteq w2.delivered \/ RowsOf(l.turns[l.emitted + 1]) \subseteq w2.failed
          BY <5>1 DEF turn, l
        <5>3. ReadOK(w, l)
          BY <3>2, <3>3, <4>3
        <5>4. QED
          BY <1>6, <1>9, <4>1, <5>2, <5>3, JustEmitted
      <4>4. QED
        BY <4>2, <4>3
    <3>4. QED
      BY <3>3
  <2>2. \A t \in Sessions : Untruncated(t)' => Untruncated(t) /\ Grows(World(t), World(t)')
    BY <1>16, <1>17
  <2>3. ASSUME NEW q \in Procs, PastLock(q)'
        PROVE  \/ PastLock(q) /\ proc'[q] = proc[q]
               \/ \A t \in Sessions : Untruncated(t)' =>
                    /\ EntryDone(World(t)', LoadSession(proc[q].state, t)')
                    /\ proc'[q].session = t => ReadOK(World(t)', proc'[q])
    <3>1. CASE q = p
      <4>1. \A t \in Sessions : LoadSession(proc[q].state, t)' = LoadSession(l.state, t)
        BY <1>9, <1>10, <3>1 DEF LoadSession
      <4>2. proc'[q] = l2 /\ proc'[q].session = s
        BY <1>9, <1>10, <3>1 DEF s
      <4>3. QED
        BY <2>1, <4>1, <4>2
    <3>2. CASE q # p
      BY <1>10, <2>3, <3>2 DEF PastLock, At
    <3>3. QED
      BY <3>1, <3>2
  <2>4. QED
    BY <1>2, <1>13, <1>14, <1>16, <2>2, <2>3, AccountedStep
<1>20. ASSUME NEW t \in Sessions, Steady(t)', NEW q \in Procs, PastLock(q) PROVE q = p
  <2>1. upgrades = 0
    <3>1. "forgot" \notin excuse[t]
      BY <1>16, <1>20 DEF Steady
    <3>2. ~ (upgrades > 0) /\ upgrades \in Nat
      BY <1>2, <3>1, HookAssumption DEF AllNumbered, LockInv
    <3>3. QED
      BY <3>2
  <2>2. QED
    BY <1>2, <1>18, <1>20, <2>1, OnePast
<1>21. AllNumbered'
  <2>1. upgrades' > 0 => \A t \in Sessions : "forgot" \in excuse'[t]
    BY <1>1, <1>2, <1>11 DEF AllNumbered
  <2>2. ASSUME NEW t \in Sessions, Steady(t)'
        PROVE  /\ Numbered(numbers'[t], Entry(t)', Pending(t)')
               /\ \A q \in Procs : PastLock(q)' =>
                    /\ LoadSession(proc[q].state, t)' = Entry(t)'
                    /\ proc'[q].session = t => Reader(proc'[q], numbers'[t], Entry(t)', Pending(t)')
    <3>1. Steady(t) /\ Untruncated(t) /\ Entry(t)' = Entry(t)
      BY <1>16, <2>2
    <3>2. Pending(t)' = Pending(t) /\ Pending(t) \in Seq(TurnSet)
      BY <1>1, <1>2, <3>1, PendingSame
    <3>3. /\ Numbered(numbers[t], Entry(t), Pending(t)) /\ LoadSession(l.state, t) = Entry(t)
          /\ t = s => Reader(l, numbers[t], Entry(t), Pending(t))
      BY <1>2, <1>18, <3>1 DEF AllNumbered, s
    <3>4. /\ Numbered(numbers'[t], Entry(t), Pending(t))
          /\ t = s => Reader(l2, numbers'[t], Entry(t), Pending(t))
      <4>1. CASE t # s
        BY <1>12, <3>3, <4>1
      <4>2. CASE t = s
        <5> DEFINE e == Entry(t)
        <5> DEFINE ps == Pending(t)
        <5> DEFINE nums == numbers[t]
        <5> DEFINE nums2 == numbers'[t]
        <5>1. e \in EntrySet
          BY <1>2, LoadType DEF Entry, HookTypeOK
        <5>2. nums \subseteq Nat \X Nat
          BY <1>2
        <5>3. nums2 = nums \cup {<<l.ss.count + l.emitted + 1, l.turns[l.emitted + 1].user.n>>}
          BY <1>12, <4>2 DEF num, turn
        <5>4. ps \in Seq(TurnSet) /\ Numbered(nums, e, ps) /\ Reader(l, nums, e, ps)
          BY <3>2, <3>3, <4>2
        <5> HIDE DEF e, ps, nums, nums2, l
        <5>5. Numbered(nums2, e, ps) /\ Reader(l2, nums2, e, ps)
          BY <1>6, <1>9, <5>1, <5>2, <5>3, <5>4, JustNumbered
        <5>6. QED
          BY <5>5 DEF e, ps, nums2
      <4>3. QED
        BY <4>1, <4>2
    <3>5. ASSUME NEW q \in Procs, PastLock(q)'
          PROVE  /\ LoadSession(proc[q].state, t)' = Entry(t)
                 /\ proc'[q].session = t => Reader(proc'[q], numbers'[t], Entry(t), Pending(t))
      <4>1. q = p
        BY <1>18, <1>20, <2>2, <3>5
      <4>2. LoadSession(proc[q].state, t)' = LoadSession(l.state, t)
        BY <1>9, <1>10, <4>1 DEF LoadSession
      <4>3. proc'[q] = l2 /\ proc'[q].session = s
        BY <1>9, <1>10, <4>1 DEF s
      <4>4. QED
        BY <3>3, <3>4, <4>2, <4>3
    <3>6. QED
      BY <3>1, <3>2, <3>4, <3>5
  <2>3. QED
    BY <2>1, <2>2 DEF AllNumbered
<1>22. OnceDelivered'
  <2>1. SUFFICES ASSUME NEW t \in Sessions, excuse'[t] = {}
                 PROVE  /\ twice'[t] = {}
                        /\ \A n \in delivered'[t] :
                             \/ n <= Rows(Entry(t)')
                             \/ \E q \in Procs : /\ PastLock(q)' /\ proc'[q].session = t
                                                 /\ \E j \in 1..proc'[q].emitted : n \in RowsOf(proc'[q].turns[j])
    BY DEF OnceDelivered, Rows
  <2>2. excuse[t] = {} /\ Entry(t)' = Entry(t) /\ Steady(t)' /\ Steady(t)
    BY <1>16, <2>1 DEF Steady
  <2>3. /\ twice[t] = {}
        /\ \A n \in delivered[t] :
             \/ n <= Rows(Entry(t))
             \/ \E q \in Procs : /\ PastLock(q) /\ proc[q].session = t
                                 /\ \E j \in 1..proc[q].emitted : n \in RowsOf(proc[q].turns[j])
    BY <1>2, <2>2 DEF OnceDelivered
  <2>4. \A q \in Procs : PastLock(q) => q = p
    BY <1>20, <2>2
  <2>5. ASSUME NEW n \in delivered[t], ~ (n <= Rows(Entry(t)))
        PROVE  t = s /\ \E j \in 1..l.emitted : n \in RowsOf(l.turns[j])
    BY <2>3, <2>4, <2>5 DEF s
  <2>6. CASE t # s
    <3>1. \A n \in delivered[t] : n <= Rows(Entry(t))
      BY <2>5, <2>6
    <3>2. QED
      BY <1>12, <2>2, <2>3, <2>6, <3>1
  <2>7. CASE t = s
    <3>1. ~ (r.copies > 1)
      BY <1>11, <2>1, <2>7
    <3>2. Reader(l, numbers[t], Entry(t), Pending(t))
      BY <1>2, <1>18, <2>2, <2>7 DEF AllNumbered, s
    <3> DEFINE e == Entry(t)
    <3> DEFINE ps == Pending(t)
    <3> DEFINE nums == numbers[t]
    <3>3. Reader(l, nums, e, ps) /\ e \in EntrySet
      BY <1>2, <3>2, LoadType DEF Entry, HookTypeOK
    <3> HIDE DEF e, ps, nums
    <3>4. turn.user.n \in (Rows(e) + 1)..Rows(l.ss) /\ \A i \in DOMAIN l.turns : i < l.emitted + 1 => turn.user.n \notin RowsOf(l.turns[i])
      BY <1>6, <3>3 DEF Reader, turn
    <3>5. turn.user.n \notin delivered[t]
      <4> SUFFICES ASSUME turn.user.n \in delivered[t] PROVE FALSE
        OBVIOUS
      <4>1. ~ (turn.user.n <= Rows(e))
        BY <1>7, <3>3, <3>4, EntryFacts
      <4>2. PICK j \in 1..l.emitted : turn.user.n \in RowsOf(l.turns[j])
        BY <2>5, <4>1 DEF e
      <4>3. j \in DOMAIN l.turns /\ j < l.emitted + 1
        BY <1>6
      <4>4. QED
        BY <3>4, <4>2, <4>3
    <3>6. twice'[t] = {}
      BY <1>12, <2>3, <2>7, <3>1, <3>5
    <3>7. ASSUME NEW n \in delivered'[t]
          PROVE  \/ n <= Rows(Entry(t)')
                 \/ \E q \in Procs : /\ PastLock(q)' /\ proc'[q].session = t
                                     /\ \E j \in 1..proc'[q].emitted : n \in RowsOf(proc'[q].turns[j])
      <4>1. proc'[p] = l2 /\ l2.session = t /\ PastLock(p)' /\ l2.emitted = l.emitted + 1 /\ l2.turns = l.turns
        BY <1>9, <1>10, <1>18, <2>7 DEF s
      <4>2. CASE n \in RowsOf(turn)
        <5>1. l.emitted + 1 \in 1..l2.emitted /\ n \in RowsOf(l2.turns[l.emitted + 1])
          BY <1>6, <4>1, <4>2 DEF turn
        <5>2. QED
          BY <4>1, <5>1
      <4>3. CASE n \in delivered[t] /\ ~ (n <= Rows(Entry(t)))
        <5>1. PICK j \in 1..l.emitted : n \in RowsOf(l.turns[j])
          BY <2>5, <4>3
        <5>2. j \in 1..l2.emitted /\ n \in RowsOf(l2.turns[j])
          BY <1>6, <4>1, <5>1
        <5>3. QED
          BY <4>1, <5>2
      <4>4. n \in RowsOf(turn) \/ n \in delivered[t]
        BY <1>12, <2>7
      <4>5. QED
        BY <2>2, <4>2, <4>3, <4>4
    <3>8. QED
      BY <3>6, <3>7
  <2>8. QED
    BY <2>6, <2>7
<1>23. QED
  BY <1>13, <1>14, <1>15, <1>19, <1>21, <1>22, Zenon DEF HookInv

\* The entry a process saves is accounted for, once all its turns are out.
LEMMA SavedDone ==
    ASSUME NEW w, NEW l, l.ss \in EntrySet, ReadOK(w, l), l.emitted = Len(l.turns), Len(l.turns) \in Nat,
           NEW e2, e2 = [l.ss EXCEPT !.count = @ + l.emitted, !.old = FALSE]
    PROVE  EntryDone(w, e2)
<1>1. e2.offset = l.ss.offset /\ e2.buffer = l.ss.buffer
  BY DEF EntrySet
<1>2. EntryOK(w, e2) /\ Rows(e2) = Rows(l.ss)
  BY <1>1 DEF ReadOK, EntryOK, Rows
<1>3. Covered(w, Rows(e2))
  BY <1>2 DEF ReadOK, Covered
<1>4. QED
  BY <1>2, <1>3 DEF EntryDone

LEMMA SaveStep ==
    ASSUME HookInv, LockInv', NEW p \in Procs, Save(p)
    PROVE  HookInv'
<1> DEFINE s == proc[p].session
<1> DEFINE l == proc[p]
<1> DEFINE m == Written(p)
<1> DEFINE e2 == [l.ss EXCEPT !.count = @ + l.emitted, !.old = FALSE]
<1>1. /\ agent' = agent /\ rows' = rows /\ written' = written /\ half' = half /\ over' = over
      /\ upgrades' = upgrades /\ delivered' = delivered /\ twice' = twice /\ numbers' = numbers /\ failed' = failed
      /\ cut' = cut /\ At(p, "emit") /\ proc[p].emitted = Len(proc[p].turns) /\ proc' = [proc EXCEPT ![p] = Idle]
      /\ state' = IF agent = "qoderwork" THEN SaveBeside(Written(p)) ELSE SaveState(Written(p))
      /\ Excuse(DOMAIN Written(p) \ DOMAIN state', "forgot")
  BY DEF Save, worldVars, Ends
<1>2. /\ HookTypeOK /\ RowsNumbered /\ ProcsInSession /\ AllAccounted /\ AllNumbered /\ OnceDelivered /\ LockInv
      /\ DOMAIN excuse = Sessions
  BY DEF HookInv, HookTypeOK
<1>3. /\ s \in Sessions /\ ProcOK(l) /\ PastLock(p) /\ l.emitted = Len(l.turns) /\ l.session = s
  BY <1>1, <1>2 DEF ProcsInSession, At, HookTypeOK, PastLock
<1>4. l.emitted \in Nat /\ Len(l.turns) \in Nat /\ l.ss \in EntrySet /\ IsEntries(l.state) /\ l.turns \in Seq(TurnSet)
  BY <1>3 DEF ProcOK
<1>5. /\ e2 \in EntrySet /\ e2.count = l.ss.count + l.emitted /\ e2.old = FALSE /\ Rows(e2) = Rows(l.ss)
  <2> DEFINE ss == l.ss
  <2> DEFINE k == l.emitted
  <2>1. ss \in EntrySet /\ k \in Nat /\ e2 = [ss EXCEPT !.count = @ + k, !.old = FALSE]
    BY <1>4
  <2> HIDE DEF ss, k, e2
  <2>4. ss.count \in Nat /\ ss.count + k \in Nat
    BY <2>1 DEF EntrySet
  <2>5. e2 = [ss EXCEPT !.count = ss.count + k, !.old = FALSE]
    BY <2>1
  <2> DEFINE c == ss.count + k
  <2>6. c \in Nat /\ e2 = [ss EXCEPT !.count = c, !.old = FALSE]
    BY <2>4, <2>5
  <2> HIDE DEF c
  <2>7. e2 \in EntrySet /\ e2.count = c /\ e2.old = FALSE /\ e2.offset = ss.offset
    BY <2>1, <2>6 DEF EntrySet
  <2>2. e2 \in EntrySet /\ e2.count = ss.count + k /\ e2.old = FALSE /\ e2.offset = ss.offset
    BY <2>7 DEF c
  <2>3. QED
    BY <2>2 DEF ss, k, Rows
<1>6. /\ DOMAIN m = DOMAIN l.state \cup {s} /\ m[s] = e2
      /\ \A t \in DOMAIN l.state : t # s => m[t] = l.state[t]
  <2> DEFINE d == l.state
  <2> DEFINE v == e2
  <2> DEFINE k == s
  <2>1. m = With(d, k, v)
    BY Zenon DEF Written
  <2> HIDE DEF d, v, k, m
  <2>2. DOMAIN m = DOMAIN d \cup {k} /\ m[k] = v /\ \A t \in DOMAIN d : t # k => m[t] = d[t]
    BY <2>1 DEF With
  <2>3. QED
    BY <2>2 DEF d, v, k
<1>7. DOMAIN m \subseteq Sessions /\ \A t \in DOMAIN m : m[t] \in EntrySet
  <2> HIDE DEF m, s, l, e2
  <2>1. QED
    BY <1>3, <1>4, <1>5, <1>6 DEF IsEntries
<1> HIDE DEF e2, m
<1>8. /\ DOMAIN state' \subseteq DOMAIN m /\ \A t \in DOMAIN state' : state'[t] = m[t]
      /\ s \in DOMAIN state'
  <2>1. CASE agent = "qoderwork"
    <3>1. state' = m
      BY <1>1, <2>1 DEF SaveBeside, m
    <3>2. QED
      BY <1>6, <3>1
  <2>2. CASE agent # "qoderwork"
    <3>1. state' = SaveState(m)
      BY <1>1, <2>2 DEF m
    <3>2. s \in DOMAIN m /\ ~ m[s].old
      BY <1>5, <1>6
    <3>3. QED
      BY <3>1, <3>2 DEF SaveState
  <2>3. QED
    BY <2>1, <2>2
<1>9. /\ DOMAIN excuse' = Sessions /\ \A t \in Sessions : excuse[t] \subseteq excuse'[t]
      /\ \A t \in Sessions : t \in DOMAIN m \ DOMAIN state' => "forgot" \in excuse'[t]
  BY <1>1, <1>2, ExcuseFacts DEF m
<1>10. ASSUME NEW t \in Sessions
       PROVE  /\ t = s => Entry(t)' = e2
              /\ t # s => \/ Entry(t)' = LoadSession(l.state, t)
                         \/ (Entry(t)' = NoEntry /\ "forgot" \in excuse'[t])
  <2>1. Entry(t)' = IF t \in DOMAIN state' THEN state'[t] ELSE NoEntry
    BY DEF Entry, LoadSession
  <2>2. CASE t \in DOMAIN state'
    BY <1>6, <1>8, <2>1, <2>2 DEF LoadSession
  <2>3. CASE t \notin DOMAIN state' /\ t \in DOMAIN m
    BY <1>8, <1>9, <2>1, <2>3
  <2>4. CASE t \notin DOMAIN m
    BY <1>6, <1>8, <2>1, <2>4 DEF LoadSession
  <2>5. QED
    BY <2>2, <2>3, <2>4
<1>11. proc'[p] = Idle /\ \A q \in Procs \ {p} : proc'[q] = proc[q]
  BY <1>1, <1>2 DEF LockInv
<1>12. HookTypeOK'
  <2>1. \A q \in Procs : ProcOK(proc[q])'
    <3>1. \A q \in Procs : ProcOK(proc'[q])
      BY <1>2, <1>11, IdleOK DEF HookTypeOK
    <3>2. QED
      BY <3>1 DEF ProcOK, IsEntries
  <2>2. IsEntries(state)'
    BY <1>7, <1>8 DEF IsEntries
  <2>3. QED
    BY <1>1, <1>2, <1>9, <2>1, <2>2 DEF HookTypeOK
<1>13. RowsNumbered'
  BY <1>1, <1>2, <1>9, RowsSame
<1>14. ProcsInSession'
  <2>1. ASSUME NEW q \in Procs
        PROVE  /\ At(q, "idle")' => proc'[q].session = None
               /\ ~ At(q, "idle")' => /\ proc'[q].session \in Sessions
                                      /\ IF proc'[q].stop THEN over'[proc'[q].session] ELSE agent' = "claude-code"
               /\ At(q, "lock")' => proc'[q].emitted = 0
               /\ At(q, "emit")' => proc'[q].emitted <= Len(proc'[q].turns)
               /\ proc'[q].file <= upgrades'
    <3>1. CASE q = p
      <4>1. 0 <= upgrades
        BY <1>2, HookAssumption DEF LockInv
      <4>2. QED
        BY <1>1, <1>11, <3>1, <4>1, IdleOK DEF At
    <3>2. CASE q # p
      BY <1>1, <1>2, <1>11, <3>2 DEF ProcsInSession, At
    <3>3. QED
      BY <3>1, <3>2
  <2>2. QED
    BY <2>1 DEF ProcsInSession
<1>15. ASSUME NEW t \in Sessions
       PROVE  /\ Untruncated(t)' => Untruncated(t)
              /\ Steady(t)' => Steady(t) /\ Untruncated(t) /\ Untruncated(t)' /\ "forgot" \notin excuse'[t]
              /\ excuse'[t] = {} => excuse[t] = {}
  BY <1>9, MoreExcuses
<1>16. \A q \in Procs : PastLock(q)' => q # p /\ PastLock(q) /\ proc'[q] = proc[q]
  BY <1>11, IdleOK DEF PastLock, At
<1> HIDE DEF s
<1>17. ASSUME NEW t \in Sessions, Untruncated(t)
       PROVE  /\ World(t)' = World(t) /\ Grows(World(t), World(t)') /\ EntryDone(World(t), LoadSession(l.state, t))
              /\ t = s => EntryDone(World(t), e2)
  <2>1. World(t)' = World(t)
    BY <1>1 DEF World
  <2>2. EntryDone(World(t), LoadSession(l.state, t)) /\ (t = s => ReadOK(World(t), l))
    BY <1>2, <1>3, <1>17 DEF AllAccounted
  <2>3. ASSUME t = s PROVE EntryDone(World(t), e2)
    <3> DEFINE w == World(t)
    <3>1. ReadOK(w, l)
      BY <2>2, <2>3
    <3> HIDE DEF w, l
    <3>2. EntryDone(w, e2)
      BY <1>3, <1>4, <3>1, SavedDone DEF e2
    <3>3. QED
      BY <3>2 DEF w
  <2>4. QED
    BY <1>2, <1>17, <2>1, <2>2, <2>3, WorldIsWhole, SameGrows
<1>18. AllAccounted'
  <2>1. \A t \in Sessions : Untruncated(t)' => Untruncated(t) /\ Grows(World(t), World(t)')
    BY <1>15, <1>17
  <2>2. ASSUME NEW t \in Sessions, Untruncated(t)' PROVE Entry(t)' = NoEntry \/ EntryDone(World(t)', Entry(t)')
    <3>1. CASE t = s
      <4>1. Entry(t)' = e2
        BY <1>10, <3>1
      <4>2. EntryDone(World(t)', e2)
        BY <1>15, <1>17, <2>2, <3>1
      <4>3. QED
        BY <4>1, <4>2
    <3>2. CASE t # s
      <4>1. Entry(t)' = NoEntry \/ Entry(t)' = LoadSession(l.state, t)
        BY <1>10, <3>2
      <4>2. EntryDone(World(t)', LoadSession(l.state, t))
        BY <1>15, <1>17, <2>2
      <4>3. QED
        BY <4>1, <4>2
    <3>3. QED
      BY <3>1, <3>2
  <2>3. QED
    BY <1>2, <1>12, <1>13, <1>16, <2>1, <2>2, AccountedStep
<1>19. ASSUME NEW t \in Sessions, Steady(t)'
       PROVE  /\ \A q \in Procs : PastLock(q) => q = p
              /\ t # s => Entry(t)' = Entry(t)
              /\ t = s => Reader(l, numbers[t], Entry(t), Pending(t))
  <2>1. Steady(t) /\ "forgot" \notin excuse'[t] /\ "forgot" \notin excuse[t]
    BY <1>15, <1>19 DEF Steady
  <2>2. upgrades = 0
    BY <1>2, <2>1, HookAssumption DEF AllNumbered, LockInv
  <2>3. \A q \in Procs : PastLock(q) => q = p
    BY <1>2, <1>3, <2>2, OnePast
  <2>4. LoadSession(l.state, t) = Entry(t) /\ (t = s => Reader(l, numbers[t], Entry(t), Pending(t)))
    BY <1>2, <1>3, <2>1 DEF AllNumbered
  <2>5. t # s => Entry(t)' = Entry(t)
    BY <1>10, <2>1, <2>4
  <2>6. QED
    BY <2>3, <2>4, <2>5
<1>20. AllNumbered'
  <2>1. upgrades' > 0 => \A t \in Sessions : "forgot" \in excuse'[t]
    BY <1>1, <1>2, <1>9 DEF AllNumbered
  <2>2. ASSUME NEW t \in Sessions, Steady(t)'
        PROVE  Numbered(numbers'[t], Entry(t)', Pending(t)') /\ \A q \in Procs : ~ PastLock(q)'
    <3>1. \A q \in Procs : ~ PastLock(q)'
      BY <1>16, <1>19, <2>2
    <3>2. Steady(t) /\ Untruncated(t) /\ Numbered(numbers[t], Entry(t), Pending(t))
      BY <1>2, <1>15, <2>2 DEF AllNumbered
    <3>3. CASE t # s
      <4>1. Entry(t)' = Entry(t)
        BY <1>19, <2>2, <3>3
      <4>2. Pending(t)' = Pending(t)
        BY <1>1, <1>2, <3>2, <4>1, PendingSame
      <4>3. QED
        BY <1>1, <3>1, <3>2, <4>1, <4>2
    <3>4. CASE t = s
      <4> DEFINE e == Entry(t)
      <4> DEFINE ps == Pending(t)
      <4> DEFINE nums == numbers[t]
      <4> DEFINE ps2 == Pending(t)'
      <4>1. ps \in Seq(TurnSet)
        <5>1. Rows(Entry(t)) \in Nat /\ Rows(Entry(t)) <= Len(World(t).rows) /\ Whole(World(t))
          BY <1>2, <3>2, WorldIsWhole, RowsLe DEF World
        <5>2. QED
          BY <5>1, PendingLater DEF Pending
      <4>2. e \in EntrySet /\ nums \subseteq Nat \X Nat
        BY <1>2, LoadType DEF Entry, HookTypeOK
      <4>3. Numbered(nums, e, ps) /\ Reader(l, nums, e, ps)
        BY <1>19, <2>2, <3>2, <3>4
      <4>4. Entry(t)' = e2
        BY <1>10, <3>4
      <4> HIDE DEF e, ps, nums, ps2, l
      <4>5. e2.count = e.count + Len(l.turns)
        BY <1>3, <1>5, <4>3 DEF Reader
      <4>6. Numbered(nums, e2, ps2)
        BY <1>4, <1>5, <4>1, <4>2, <4>3, <4>5, JustSaved
      <4>7. QED
        BY <1>1, <3>1, <4>4, <4>6 DEF nums, ps2
    <3>5. QED
      BY <3>3, <3>4
  <2>3. QED
    BY <2>1, <2>2 DEF AllNumbered
<1>21. OnceDelivered'
  <2>1. SUFFICES ASSUME NEW t \in Sessions, excuse'[t] = {}
                 PROVE  twice'[t] = {} /\ \A n \in delivered'[t] : n <= Rows(Entry(t)')
    BY DEF OnceDelivered, Rows
  <2>2. excuse[t] = {} /\ Steady(t)'
    BY <1>15, <2>1 DEF Steady
  <2>3. /\ twice[t] = {} /\ delivered[t] \subseteq Nat
        /\ \A n \in delivered[t] :
             \/ n <= Rows(Entry(t))
             \/ \E q \in Procs : /\ PastLock(q) /\ proc[q].session = t
                                 /\ \E j \in 1..proc[q].emitted : n \in RowsOf(proc[q].turns[j])
    BY <1>2, <2>2 DEF OnceDelivered, HookTypeOK
  <2>4. ASSUME NEW n \in delivered[t], ~ (n <= Rows(Entry(t)))
        PROVE  t = s /\ \E j \in 1..l.emitted : n \in RowsOf(l.turns[j])
    BY <1>19, <2>2, <2>3, <2>4 DEF s
  <2>5. CASE t # s
    BY <1>1, <1>19, <2>2, <2>3, <2>4, <2>5
  <2>6. CASE t = s
    <3> DEFINE e == Entry(t)
    <3> DEFINE ps == Pending(t)
    <3> DEFINE nums == numbers[t]
    <3>1. Reader(l, nums, e, ps) /\ e \in EntrySet
      BY <1>2, <1>19, <2>2, <2>6, LoadType DEF Entry, HookTypeOK
    <3>2. Entry(t)' = e2
      BY <1>10, <2>6
    <3> HIDE DEF e, ps, nums, l
    <3>3. Rows(e) \in Nat /\ Rows(l.ss) \in Nat /\ Rows(e) <= Rows(l.ss)
      <4>1. e.offset \in Nat /\ l.ss.offset \in Nat /\ e.offset <= l.ss.offset
        BY <1>4, <3>1, EntryFacts DEF Reader
      <4>2. QED
        BY <4>1 DEF Rows
    <3>4. ASSUME NEW n \in delivered[t] PROVE n <= Rows(l.ss)
      <4>1. n \in Nat
        BY <2>3
      <4>2. CASE n <= Rows(e)
        BY <3>3, <4>1, <4>2
      <4>3. CASE ~ (n <= Rows(e))
        <5>1. PICK j \in 1..l.emitted : n \in RowsOf(l.turns[j])
          BY <2>4, <4>3 DEF e
        <5>2. j \in DOMAIN l.turns
          BY <1>3, <1>4
        <5>3. n \in 1..Rows(l.ss)
          BY <3>1, <5>1, <5>2 DEF Reader
        <5>4. QED
          BY <5>3
      <4>4. QED
        BY <4>2, <4>3
    <3>5. QED
      BY <1>1, <1>5, <2>3, <3>2, <3>4
  <2>7. QED
    BY <2>5, <2>6
<1>22. QED
  BY <1>12, <1>13, <1>14, <1>18, <1>20, <1>21, Zenon DEF HookInv

-----------------------------------------------------------------------------
LEMMA HookNext == HookInv /\ [Next]_vars => HookInv'
<1> SUFFICES ASSUME HookInv, [Next]_vars PROVE HookInv'
  OBVIOUS
<1>1. LockInv'
  BY NextInv DEF HookInv
<1>2. ASSUME NEW s \in Sessions, WriteHalf(s) \/ WriteRow(s) \/ Truncate(s) PROVE HookInv'
  BY <1>1, <1>2, WriteStep, TruncateStep
<1>3. ASSUME NEW p \in Procs, NEW s \in Sessions, Start(p, s) PROVE HookInv'
  BY <1>1, <1>3, StartStep
<1>4. ASSUME NEW p \in Procs, GiveUp(p) \/ SaveFails(p) \/ Die(p) PROVE HookInv'
  BY <1>1, <1>4, LeaveStep
<1>5. ASSUME NEW p \in Procs, ReadRows(p) PROVE HookInv'
  BY <1>1, <1>5, ReadStep
<1>6. ASSUME NEW p \in Procs, EmitTurn(p) PROVE HookInv'
  BY <1>1, <1>6, EmitStep
<1>7. ASSUME NEW p \in Procs, Save(p) PROVE HookInv'
  BY <1>1, <1>7, SaveStep
<1>8. CASE MonthPasses \/ UpgradeHook
  BY <1>1, <1>8, MonthStep, UpgradeStep
<1>9. CASE UNCHANGED vars
  BY <1>1, <1>9, NoStep
<1>10. QED
  BY <1>2, <1>3, <1>4, <1>5, <1>6, <1>7, <1>8, <1>9 DEF Next

\* The hooks' locals, the state file and what is delivered fit together (HookInv):
\* every offset saved or loaded has accounted answers before it, what a process has
\* read is accounted for or in a turn it has yet to emit (main), and turn numbers
\* stand for the prompts before the offset and those of the turns behind it.
THEOREM HookInvariant == Spec => []HookInv
  BY HookBegins, HookNext, PTL DEF Spec

\* For every number of sessions, processes and upgrades: two processes that
\* opened the same lock file are never both between reading the state file and
\* replacing it, whoever dies, gives up or removes the file.
THEOREM LockExcludes == Spec => []OneProcessPerLock
<1>1. LockInv => OneProcessPerLock
  BY DEF LockInv, OneProcessPerLock
<1>2. QED BY <1>1, InitInv, NextInv, PTL DEF Spec

LEMMA AccountedIsDelivered == HookInv => DoneIsDelivered
<1> SUFFICES ASSUME HookInv, NEW s \in Sessions, NEW k \in DOMAIN rows[s],
                    rows[s][k].n \in Done(s), rows[s][k].kind = "assistant", Untruncated(s)
             PROVE  \/ {rows[s][k].n, Prompt(s, k)} \subseteq delivered[s]
                    \/ rows[s][k].n \in failed[s]
                    \/ Prompt(s, k) \in cut[s] /\ agent = "claude-code"
  BY DEF DoneIsDelivered, Untruncated
<1>1. HookTypeOK /\ RowsNumbered /\ AllAccounted
  BY DEF HookInv
<1>2. ByPlace(rows[s])
  BY <1>1, WorldIsWhole DEF Whole, World
<1>3. k \in Nat /\ k >= 1 /\ rows[s][k].n = k /\ \A j \in DOMAIN rows[s] : rows[s][j].n = j
  BY <1>2 DEF ByPlace
<1>4. s \in DOMAIN state /\ 2 * k <= state[s].offset
  BY <1>3 DEF Done
<1>5. Entry(s) = state[s] /\ Entry(s) \in EntrySet
  BY <1>1, <1>4 DEF Entry, LoadSession, HookTypeOK, IsEntries
<1>6. k \in 1..Rows(Entry(s))
  <2>1. Entry(s).offset \in Nat /\ 2 * k <= Entry(s).offset
    BY <1>4, <1>5, EntryFacts
  <2>2. k <= Entry(s).offset \div 2
    BY <1>3, <2>1
  <2>3. Rows(Entry(s)) \in Nat
    BY <1>5, EntryFacts
  <2>4. QED
    BY <1>3, <2>2, <2>3 DEF Rows
<1>7. Covered(World(s), Rows(Entry(s)))
  BY <1>1 DEF AllAccounted, EntryDone
<1>8. RowDone(World(s), k)
  BY <1>6, <1>7 DEF Covered, World
<1>9. QED
  BY <1>3, <1>8, PromptIs DEF RowDone, World

\* An answer behind which the saved offset has moved is in a delivered trace together
\* with its prompt, for any number of sessions, processes, faults and upgrades, unless
\* no tier took the trace, the transcript was rewound or Claude Code's turn was cut.
THEOREM OffsetBehindDelivered == Spec => []DoneIsDelivered
  BY HookInvariant, AccountedIsDelivered, PTL

\* No prompt is delivered twice without a fault of the same session: what a process
\* of another session saves, drops or fails to save makes none of this one's repeat.
THEOREM RepeatsHaveAFault == Spec => []RepeatedOnlyAfterFault
<1>1. HookInv => RepeatedOnlyAfterFault
  BY DEF HookInv, OnceDelivered, RepeatedOnlyAfterFault
<1>2. QED
  BY <1>1, HookInvariant, PTL

\* Turn numbers and prompts stay in one-to-one correspondence while the session's
\* entry is not lost nor its transcript rewound (turn_count in main).
THEOREM NumbersKept == Spec => []NumbersStable
<1>1. HookInv => NumbersStable
  BY DEF HookInv, AllNumbered, Steady, Numbered, NumbersStable
<1>2. QED
  BY <1>1, HookInvariant, PTL

-----------------------------------------------------------------------------
(* build_turns over any rows.                                              *)

\* A set of numbers has a least, and a bounded one a greatest.
LEMMA LeastOf ==
    ASSUME NEW S, S \subseteq Nat, S # {}
    PROVE  Min(S) \in S /\ \A y \in S : Min(S) <= y
<1> DEFINE Less == {p \in Nat \X Nat : p[1] < p[2]}
<1>1. IsWellFoundedOn(Less, Nat)
  BY NatLessThanWellFounded, Zenon DEF OpToRel
<1>2. PICK x \in S : \A y \in S : ~ (<<y, x>> \in Less)
  <2> HIDE DEF Less
  <2>1. QED
    BY <1>1, WFMin, Zenon
<1>3. \A y \in S : x <= y
  <2>1. SUFFICES ASSUME NEW y \in S, y < x PROVE FALSE
    OBVIOUS
  <2>2. <<y, x>> \in Less
    BY <2>1
  <2>3. QED
    BY <1>2, <2>2
<1>4. \E z \in S : \A y \in S : z =< y
  BY <1>3
<1>5. QED
  BY <1>4, Zenon DEF Min

LEMMA GreatestOf ==
    ASSUME NEW S, S \subseteq Nat, S # {}, NEW n \in Nat, \A y \in S : y <= n
    PROVE  Max(S) \in S /\ \A y \in S : y <= Max(S)
<1> DEFINE U == {k \in Nat : \A y \in S : y <= k}
<1>1. U \subseteq Nat /\ n \in U
  OBVIOUS
<1>2. PICK m : m = Min(U)
  OBVIOUS
<1>3. m \in U /\ \A k \in U : m <= k
  <2> HIDE DEF U
  <2>1. QED
    BY <1>1, <1>2, LeastOf
<1>4. m \in S
  <2>1. SUFFICES ASSUME m \notin S PROVE FALSE
    OBVIOUS
  <2>2. PICK y \in S : TRUE
    OBVIOUS
  <2>3. y < m /\ m - 1 \in Nat
    BY <1>3, <2>1, <2>2
  <2>4. \A z \in S : z <= m - 1
    BY <1>3, <2>1
  <2>5. m - 1 \in U
    BY <2>3, <2>4
  <2>6. QED
    BY <1>3, <2>3, <2>5
<1>5. \E z \in S : \A y \in S : z >= y
  BY <1>3, <1>4
<1>6. Max(S) \in S /\ \A y \in S : Max(S) >= y
  BY <1>5, Zenon DEF Max
<1>7. QED
  BY <1>6

AnyRow == [kind : {"user", "result", "assistant", "system"}, id : RowIds, tool : RowTools,
           bare : BOOLEAN, ts : Nat, n : Nat \ {0}]
AnyId == (RowIds \cup {NoId}) \X Nat
AnyMsg == [blocks : Seq(AnyRow), bare : BOOLEAN, ts : Nat, end : Nat]
AnyMsgs == UNION {[D -> AnyMsg] : D \in SUBSET AnyId}
AnyResults == UNION {[D -> Nat] : D \in SUBSET RowTools}
AnyTurn == [user : AnyRow, results : AnyResults, msgs : Seq(AnyMsg)]
AnyLocals == [user : AnyRow \cup {NoUser}, order : Seq(AnyId), msgs : AnyMsgs, results : AnyResults,
              group : Nat, noid : BOOLEAN, turns : Seq(AnyTurn)]

\* What the pass keeps of a row is of its type.
PassTyped(st) ==
    /\ st \in AnyLocals
    /\ \A i \in DOMAIN st.order : st.order[i] \in DOMAIN st.msgs
    /\ st.order = <<>> => DOMAIN st.msgs = {}
    /\ \A j \in DOMAIN st.turns : st.turns[j].msgs # <<>>

LEMMA AnyMsgsFacts ==
    ASSUME NEW ms \in AnyMsgs
    PROVE  DOMAIN ms \subseteq AnyId /\ ms \in [DOMAIN ms -> AnyMsg]
  BY DEF AnyMsgs

LEMMA PutAnyMsg ==
    ASSUME NEW ms \in AnyMsgs, NEW mid \in AnyId, NEW m \in AnyMsg
    PROVE  /\ With(ms, mid, m) \in AnyMsgs /\ DOMAIN With(ms, mid, m) = DOMAIN ms \cup {mid}
           /\ With(ms, mid, m)[mid] = m
           /\ \A x \in DOMAIN ms : x # mid => With(ms, mid, m)[x] = ms[x]
<1> DEFINE D == DOMAIN ms \cup {mid}
<1>1. With(ms, mid, m) = [x \in D |-> IF x = mid THEN m ELSE ms[x]]
  BY DEF With
<1>2. DOMAIN ms \subseteq AnyId /\ \A x \in DOMAIN ms : ms[x] \in AnyMsg
  BY AnyMsgsFacts
<1>3. [x \in D |-> IF x = mid THEN m ELSE ms[x]] \in [D -> AnyMsg] /\ D \in SUBSET AnyId
  BY <1>2
<1>4. QED
  BY <1>1, <1>3 DEF AnyMsgs

LEMMA PutResult ==
    ASSUME NEW rs \in AnyResults, NEW t \in RowTools, NEW x \in Nat
    PROVE  /\ With(rs, t, x) \in AnyResults /\ DOMAIN With(rs, t, x) = DOMAIN rs \cup {t}
           /\ With(rs, t, x)[t] = x /\ \A u \in DOMAIN rs : u # t => With(rs, t, x)[u] = rs[u]
<1> DEFINE D == DOMAIN rs \cup {t}
<1>1. With(rs, t, x) = [u \in D |-> IF u = t THEN x ELSE rs[u]]
  BY DEF With
<1>2. DOMAIN rs \subseteq RowTools /\ \A u \in DOMAIN rs : rs[u] \in Nat
  BY DEF AnyResults
<1>3. [u \in D |-> IF u = t THEN x ELSE rs[u]] \in [D -> Nat] /\ D \in SUBSET RowTools
  BY <1>2
<1>4. QED
  BY <1>1, <1>3 DEF AnyResults

LEMMA PassTypedFirst == PassTyped(Locals) /\ DOMAIN Locals.msgs = {} /\ DOMAIN Locals.results = {}
<1>1. <<>> \in [{} -> AnyMsg] /\ {} \in SUBSET AnyId /\ <<>> \in [{} -> Nat] /\ {} \in SUBSET RowTools
  OBVIOUS
<1>2. <<>> \in AnyMsgs /\ <<>> \in AnyResults
  BY <1>1 DEF AnyMsgs, AnyResults
<1>3. QED
  BY <1>2 DEF Locals, PassTyped, AnyLocals

\* A turn that is closed.
LEMMA FlushAny ==
    ASSUME NEW st, PassTyped(st)
    PROVE  /\ FlushTurn(st) \in Seq(AnyTurn)
           /\ \A j \in DOMAIN FlushTurn(st) : FlushTurn(st)[j].msgs # <<>>
           /\ st.user = NoUser \/ st.order = <<>> => FlushTurn(st) = st.turns
           /\ st.user # NoUser /\ st.order # <<>> =>
                \E t \in AnyTurn : /\ FlushTurn(st) = Append(st.turns, t) /\ t.user = st.user
                                   /\ t.results = st.results
                                   /\ t.msgs = [i \in DOMAIN st.order |-> st.msgs[st.order[i]]]
<1> DEFINE ms == [i \in DOMAIN st.order |-> st.msgs[st.order[i]]]
<1>1. st.order \in Seq(AnyId) /\ DOMAIN st.order = 1..Len(st.order) /\ Len(st.order) \in Nat /\ st.turns \in Seq(AnyTurn)
      /\ st.results \in AnyResults /\ st.user \in AnyRow \cup {NoUser} /\ st.msgs \in AnyMsgs
  BY DEF PassTyped, AnyLocals
<1>2. \A i \in 1..Len(st.order) : st.msgs[st.order[i]] \in AnyMsg
  BY <1>1, AnyMsgsFacts DEF PassTyped
<1>3. ms \in Seq(AnyMsg) /\ (st.order # <<>> => ms # <<>>)
  <2>1. ms \in Seq(AnyMsg) /\ Len(ms) = Len(st.order)
    BY <1>1, <1>2
  <2>2. st.order # <<>> => Len(st.order) # 0
    BY <1>1
  <2> HIDE DEF ms
  <2>3. ms = <<>> => Len(ms) = 0
    OBVIOUS
  <2>4. QED
    BY <2>1, <2>2, <2>3
<1> HIDE DEF ms
<1>4. CASE st.user = NoUser \/ st.order = <<>>
  <2>1. FlushTurn(st) = st.turns
    BY <1>4 DEF FlushTurn
  <2>2. QED
    BY <1>1, <1>4, <2>1 DEF PassTyped
<1>5. CASE st.user # NoUser /\ st.order # <<>>
  <2>1. PICK t : t = [user |-> st.user, results |-> st.results, msgs |-> ms]
    OBVIOUS
  <2>2. t \in AnyTurn /\ t.user = st.user /\ t.msgs = ms /\ t.results = st.results
    BY <1>1, <1>3, <1>5, <2>1 DEF AnyTurn
  <2>3. FlushTurn(st) = Append(st.turns, t)
    BY <1>5, <2>1 DEF FlushTurn, ms
  <2>4. t.msgs = [i \in DOMAIN st.order |-> st.msgs[st.order[i]]]
    BY <2>2 DEF ms
  <2>5. FlushTurn(st) \in Seq(AnyTurn)
    BY <1>1, <2>2, <2>3
  <2>6. \A j \in DOMAIN FlushTurn(st) : FlushTurn(st)[j].msgs # <<>>
    <3>1. PICK ts : ts = st.turns
      OBVIOUS
    <3>2. ts \in Seq(AnyTurn) /\ \A j \in DOMAIN ts : ts[j].msgs # <<>>
      BY <1>1, <3>1 DEF PassTyped
    <3>3. t.msgs # <<>>
      BY <1>3, <1>5, <2>2
    <3>4. \A j \in DOMAIN Append(ts, t) : Append(ts, t)[j].msgs # <<>>
      BY <2>2, <3>2, <3>3
    <3>5. QED
      BY <2>3, <3>1, <3>4
  <2>7. QED
    BY <1>5, <2>2, <2>3, <2>4, <2>5, <2>6
<1>6. QED
  BY <1>4, <1>5

\* What a row does to the pass: it begins a turn, joins or replaces a message, or leaves a result.
BeginsTurn(st, new, r) ==
    /\ r.kind = "user" /\ new.user = r /\ new.order = <<>> /\ DOMAIN new.msgs = {} /\ DOMAIN new.results = {}
    /\ new.turns = FlushTurn(st)
JoinsTurn(st, new, r) ==
    /\ st.user # NoUser /\ new.user = st.user /\ new.turns = st.turns /\ new.results = st.results
    /\ \E mid \in AnyId, m \in AnyMsg :
         /\ new.msgs = With(st.msgs, mid, m) /\ new.msgs \in AnyMsgs
         /\ new.order = (IF mid \in DOMAIN st.msgs THEN st.order ELSE Append(st.order, mid))
         /\ \/ m.ts = r.ts /\ m.end = 0
            \/ mid \in DOMAIN st.msgs /\ m.ts = st.msgs[mid].ts /\ m.end = Or(r.ts, st.msgs[mid].end)
KeepsTurn(st, new, r) ==
    /\ new.user = st.user /\ new.turns = st.turns /\ new.order = st.order /\ new.msgs = st.msgs
    /\ new.results = st.results \/ new.results = With(st.results, r.tool, r.ts)

LEMMA PutAny ==
    ASSUME NEW st, PassTyped(st), NEW mid \in AnyId, NEW m \in AnyMsg
    PROVE  LET new == Put(st, mid, m)
           IN  /\ PassTyped(new) /\ new.user = st.user /\ new.turns = st.turns /\ new.results = st.results
               /\ new.order = (IF mid \in DOMAIN st.msgs THEN st.order ELSE Append(st.order, mid))
               /\ new.msgs = With(st.msgs, mid, m) /\ new.msgs \in AnyMsgs
<1>1. st \in AnyLocals /\ st.order \in Seq(AnyId) /\ st.msgs \in AnyMsgs /\ DOMAIN st.order = 1..Len(st.order)
      /\ Len(st.order) \in Nat
  BY DEF AnyLocals, PassTyped
<1>2. PICK o : o = IF mid \in DOMAIN st.msgs THEN st.order ELSE Append(st.order, mid)
  OBVIOUS
<1>3. PICK ms : ms = With(st.msgs, mid, m)
  OBVIOUS
<1>4. ms \in AnyMsgs /\ DOMAIN ms = DOMAIN st.msgs \cup {mid}
  BY <1>1, <1>3, PutAnyMsg
<1>5. o \in Seq(AnyId) /\ \A i \in DOMAIN o : o[i] \in DOMAIN ms
  <2>1. CASE mid \in DOMAIN st.msgs
    BY <1>1, <1>2, <1>4, <2>1 DEF PassTyped
  <2>2. CASE mid \notin DOMAIN st.msgs
    <3>1. o = Append(st.order, mid)
      BY <1>2, <2>2
    <3>2. PICK q : q = st.order
      OBVIOUS
    <3>3. q \in Seq(AnyId) /\ \A i \in 1..Len(q) : q[i] \in DOMAIN st.msgs
      BY <1>1, <3>2 DEF PassTyped
    <3>4. Append(q, mid) \in Seq(AnyId) /\ \A i \in DOMAIN Append(q, mid) : i \in 1..Len(q) \/ i = Len(q) + 1
      BY <3>3
    <3>5. \A i \in 1..Len(q) : Append(q, mid)[i] = q[i]
      BY <3>3
    <3>6. Append(q, mid)[Len(q) + 1] = mid
      BY <3>3
    <3>7. QED
      BY <1>4, <3>1, <3>2, <3>3, <3>4, <3>5, <3>6
  <2>3. QED
    BY <2>1, <2>2
<1>6. o # <<>>
  <2>1. CASE mid \in DOMAIN st.msgs
    BY <1>2, <2>1 DEF PassTyped
  <2>2. CASE mid \notin DOMAIN st.msgs
    <3>1. o = Append(st.order, mid)
      BY <1>2, <2>2
    <3>2. QED
      BY <1>1, <3>1, AppendProperties
  <2>3. QED
    BY <2>1, <2>2
<1>7. PICK new : new = [st EXCEPT !.order = o, !.msgs = ms]
  OBVIOUS
<1>8. new \in AnyLocals /\ new.user = st.user /\ new.turns = st.turns /\ new.results = st.results
      /\ new.order = o /\ new.msgs = ms
  BY <1>1, <1>4, <1>5, <1>7 DEF AnyLocals
<1>9. PassTyped(new)
  BY <1>5, <1>6, <1>8 DEF PassTyped
<1>10. Put(st, mid, m) = new
  BY <1>2, <1>3, <1>7 DEF Put
<1>11. QED
  BY <1>2, <1>3, <1>4, <1>8, <1>9, <1>10

LEMMA NextAny ==
    ASSUME NEW st, PassTyped(st), NEW r \in AnyRow, NEW merges
    PROVE  LET new == NextRow(st, r, merges)
           IN  /\ PassTyped(new)
               /\ BeginsTurn(st, new, r) \/ JoinsTurn(st, new, r) \/ KeepsTurn(st, new, r)
<1> DEFINE new == NextRow(st, r, merges)
<1>1. /\ st \in AnyLocals /\ st.order \in Seq(AnyId) /\ st.msgs \in AnyMsgs /\ st.results \in AnyResults
      /\ st.group \in Nat /\ st.noid \in BOOLEAN /\ Len(st.order) \in Nat
  BY DEF AnyLocals, PassTyped
<1>2. r.kind \in {"user", "result", "assistant", "system"} /\ r.id \in RowIds /\ r.tool \in RowTools
      /\ r.bare \in BOOLEAN /\ r.ts \in Nat
  BY DEF AnyRow
<1>3. CASE r.kind = "result"
  <2>1. PICK rs : rs = IF r.tool = NoTool THEN st.results ELSE With(st.results, r.tool, r.ts)
    OBVIOUS
  <2>2. rs \in AnyResults
    BY <1>1, <1>2, <2>1, PutResult
  <2>3. new = [st EXCEPT !.noid = FALSE, !.results = rs]
    BY <1>3, <2>1 DEF NextRow, ToolResult
  <2> HIDE DEF new
  <2>4. new \in AnyLocals /\ new.user = st.user /\ new.turns = st.turns /\ new.results = rs
        /\ new.order = st.order /\ new.msgs = st.msgs
    BY <1>1, <2>2, <2>3 DEF AnyLocals
  <2>5. PassTyped(new)
    BY <2>4 DEF PassTyped
  <2>6. KeepsTurn(st, new, r)
    BY <2>1, <2>4 DEF KeepsTurn
  <2>7. QED
    BY <2>5, <2>6 DEF new
<1>4. CASE r.kind = "user"
  <2>1. PICK ts : ts = FlushTurn(st)
    OBVIOUS
  <2>2. ts \in Seq(AnyTurn) /\ \A j \in DOMAIN ts : ts[j].msgs # <<>>
    BY <2>1, FlushAny
  <2>3. new = [Locals EXCEPT !.user = r, !.turns = ts]
    BY <1>4, <2>1 DEF NextRow, UserRow
  <2> HIDE DEF new
  <2>4. new \in AnyLocals /\ new.user = r /\ new.turns = ts /\ new.results = Locals.results
        /\ new.order = Locals.order /\ new.msgs = Locals.msgs
    BY <2>2, <2>3, PassTypedFirst DEF AnyLocals, PassTyped
  <2>5. Locals.order = <<>>
    BY DEF Locals
  <2>6. PassTyped(new)
    BY <2>2, <2>4, <2>5, PassTypedFirst DEF PassTyped
  <2>7. BeginsTurn(st, new, r)
    BY <1>4, <2>1, <2>4, <2>5, PassTypedFirst DEF BeginsTurn
  <2>8. QED
    BY <2>6, <2>7 DEF new
<1>5. Message(r) \in AnyMsg /\ Message(r).ts = r.ts /\ Message(r).end = 0
  <2>1. <<r>> \in Seq(AnyRow)
    OBVIOUS
  <2>2. QED
    BY <1>2, <2>1 DEF Message, AnyMsg
<1>6. ASSUME r.kind = "assistant", st.user # NoUser, NEW s1, PassTyped(s1), s1.user = st.user, s1.turns = st.turns,
             s1.results = st.results, s1.order = st.order, s1.msgs = st.msgs, NEW mid \in AnyId, NEW m \in AnyMsg,
             \/ m.ts = r.ts /\ m.end = 0
             \/ mid \in DOMAIN st.msgs /\ m.ts = st.msgs[mid].ts /\ m.end = Or(r.ts, st.msgs[mid].end),
             new = Put(s1, mid, m)
      PROVE  PassTyped(new) /\ JoinsTurn(st, new, r)
  <2>1. PICK w : w = Put(s1, mid, m)
    OBVIOUS
  <2>2. /\ PassTyped(w) /\ w.user = st.user /\ w.turns = st.turns /\ w.results = st.results
        /\ w.order = (IF mid \in DOMAIN st.msgs THEN st.order ELSE Append(st.order, mid))
        /\ w.msgs = With(st.msgs, mid, m) /\ w.msgs \in AnyMsgs
    BY <1>6, <2>1, PutAny
  <2>3. JoinsTurn(st, w, r)
    BY <1>6, <2>2 DEF JoinsTurn
  <2>4. QED
    BY <1>6, <2>1, <2>2, <2>3
<1>7. ASSUME r.kind = "assistant", st.user # NoUser, ~ merges PROVE PassTyped(new) /\ JoinsTurn(st, new, r)
  <2>1. PICK mid : mid = IF r.id # NoId THEN <<r.id, 0>> ELSE <<NoId, Len(st.order)>>
    OBVIOUS
  <2>2. mid \in AnyId
    BY <1>1, <1>2, <2>1 DEF AnyId
  <2>3. new = Put(st, mid, Message(r))
    BY <1>7, <2>1 DEF NextRow, LatestRow
  <2> HIDE DEF new
  <2>4. QED
    BY <1>5, <1>6, <1>7, <2>2, <2>3
<1>8. ASSUME r.kind = "assistant", st.user # NoUser, merges PROVE PassTyped(new) /\ JoinsTurn(st, new, r)
  <2>1. PICK group : group = IF r.id = NoId /\ ~st.noid THEN st.group + 1 ELSE st.group
    OBVIOUS
  <2>2. PICK mid : mid = IF r.id # NoId THEN <<r.id, 0>> ELSE <<NoId, group>>
    OBVIOUS
  <2>3. PICK s1 : s1 = [st EXCEPT !.group = group, !.noid = (r.id = NoId)]
    OBVIOUS
  <2>4. PICK m : m = IF mid \in DOMAIN s1.msgs THEN MergeAssistantContent(s1.msgs[mid], r) ELSE Message(r)
    OBVIOUS
  <2>5. group \in Nat /\ mid \in AnyId
    BY <1>1, <1>2, <2>1, <2>2 DEF AnyId
  <2>6. s1 \in AnyLocals /\ s1.user = st.user /\ s1.turns = st.turns /\ s1.results = st.results
        /\ s1.order = st.order /\ s1.msgs = st.msgs
    BY <1>1, <2>3, <2>5 DEF AnyLocals
  <2>7. PassTyped(s1)
    BY <2>6 DEF PassTyped
  <2>8. new = Put(s1, mid, IF mid \in DOMAIN st.msgs THEN MergeAssistantContent(st.msgs[mid], r) ELSE Message(r))
    BY <1>8, <2>1, <2>2, <2>3 DEF NextRow, MergedRow
  <2>9. new = Put(s1, mid, m)
    BY <2>4, <2>6, <2>8
  <2> HIDE DEF new
  <2>10. m \in AnyMsg /\ (\/ m.ts = r.ts /\ m.end = 0
                          \/ mid \in DOMAIN st.msgs /\ m.ts = st.msgs[mid].ts /\ m.end = Or(r.ts, st.msgs[mid].end))
    <3>1. CASE mid \notin DOMAIN st.msgs
      BY <1>5, <2>4, <2>6, <3>1
    <3>2. CASE mid \in DOMAIN st.msgs
      <4>1. PICK o : o = st.msgs[mid]
        OBVIOUS
      <4>2. o \in AnyMsg /\ o.blocks \in Seq(AnyRow)
        BY <1>1, <3>2, <4>1, AnyMsgsFacts DEF AnyMsg
      <4>3. PICK bs : bs = IF o.bare THEN o.blocks ELSE Append(o.blocks, r)
        OBVIOUS
      <4>4. bs \in Seq(AnyRow)
        BY <4>2, <4>3
      <4>5. Or(r.ts, o.end) \in Nat
        BY <1>2, <4>2 DEF Or, AnyMsg
      <4>6. m = [o EXCEPT !.blocks = bs, !.end = Or(r.ts, o.end)]
        BY <2>4, <2>6, <3>2, <4>1, <4>2, <4>3 DEF MergeAssistantContent, AnyMsg
      <4>7. m \in AnyMsg /\ m.ts = o.ts /\ m.end = Or(r.ts, o.end)
        BY <4>2, <4>4, <4>5, <4>6 DEF AnyMsg
      <4>8. QED
        BY <3>2, <4>1, <4>7
    <3>3. QED
      BY <3>1, <3>2
  <2>11. QED
    BY <1>6, <1>8, <2>5, <2>6, <2>7, <2>9, <2>10
<1>9. CASE r.kind = "system" \/ (r.kind = "assistant" /\ st.user = NoUser)
  <2>1. new = st
    BY <1>9 DEF NextRow
  <2> HIDE DEF new
  <2>2. QED
    BY <2>1 DEF KeepsTurn, new
<1> HIDE DEF new
<1>10. PassTyped(new) /\ (BeginsTurn(st, new, r) \/ JoinsTurn(st, new, r) \/ KeepsTurn(st, new, r))
  BY <1>2, <1>3, <1>4, <1>7, <1>8, <1>9 DEF new
<1>11. QED
  BY <1>10 DEF new

LEMMA PassTypedBuilt ==
    ASSUME NEW merges, NEW rs \in Seq(AnyRow)
    PROVE  PassTyped(Built(rs, merges))
<1> DEFINE P == {q \in Seq(AnyRow) : PassTyped(Built(q, merges))}
<1>1. <<>> \in P
  BY BuiltFacts, PassTypedFirst
<1>2. ASSUME NEW q \in Seq(AnyRow), NEW r \in AnyRow, q \in P PROVE Append(q, r) \in P
  <2>1. Built(Append(q, r), merges) = NextRow(Built(q, merges), r, merges)
    BY BuiltFacts
  <2>2. PassTyped(NextRow(Built(q, merges), r, merges))
    BY <1>2, NextAny
  <2>3. QED
    BY <2>1, <2>2
<1> HIDE DEF P
<1>3. Seq(AnyRow) \subseteq P
  BY <1>1, <1>2, SeqInduction
<1>4. QED
  BY <1>3 DEF P

\* The pass with other turns in front of its own.
AfterTurns(st, ts) == [st EXCEPT !.turns = ts \o st.turns]

LEMMA AppendAfterTurns ==
    ASSUME NEW S, NEW ts \in Seq(S), NEW q \in Seq(S), NEW x \in S
    PROVE  ts \o Append(q, x) = Append(ts \o q, x) /\ ts \o q \in Seq(S)
<1>1. ts \o q \in Seq(S) /\ <<x>> \in Seq(S)
  BY ConcatProperties
<1>2. Append(q, x) = q \o <<x>> /\ Append(ts \o q, x) = (ts \o q) \o <<x>>
  BY <1>1, AppendIsConcat
<1>3. (ts \o q) \o <<x>> = ts \o (q \o <<x>>)
  BY <1>1, ConcatAssociative
<1>4. QED
  BY <1>1, <1>2, <1>3

LEMMA AfterTurnsFields ==
    ASSUME NEW st \in AnyLocals, NEW ts \in Seq(AnyTurn)
    PROVE  LET w == AfterTurns(st, ts)
           IN  /\ w \in AnyLocals /\ w.user = st.user /\ w.order = st.order /\ w.msgs = st.msgs
               /\ w.results = st.results /\ w.group = st.group /\ w.noid = st.noid /\ w.turns = ts \o st.turns
<1>1. PICK us : us = ts \o st.turns
  OBVIOUS
<1>2. us \in Seq(AnyTurn)
  BY <1>1, ConcatProperties DEF AnyLocals
<1>3. AfterTurns(st, ts) = [st EXCEPT !.turns = us]
  BY <1>1 DEF AfterTurns
<1>4. QED
  BY <1>1, <1>2, <1>3 DEF AnyLocals

LEMMA FlushAfterTurns ==
    ASSUME NEW st, PassTyped(st), NEW ts \in Seq(AnyTurn)
    PROVE  FlushTurn(AfterTurns(st, ts)) = ts \o FlushTurn(st)
<1>1. st \in AnyLocals /\ st.turns \in Seq(AnyTurn)
  BY DEF PassTyped, AnyLocals
<1>2. PICK w : w = AfterTurns(st, ts)
  OBVIOUS
<1>3. w.user = st.user /\ w.order = st.order /\ w.msgs = st.msgs /\ w.results = st.results /\ w.turns = ts \o st.turns
  BY <1>1, <1>2, AfterTurnsFields
<1>4. CASE st.user = NoUser \/ st.order = <<>>
  BY <1>2, <1>3, <1>4 DEF FlushTurn
<1>5. CASE st.user # NoUser /\ st.order # <<>>
  <2>1. PICK t \in AnyTurn : FlushTurn(st) = Append(st.turns, t)
    BY <1>5, FlushAny
  <2>2. PICK x : x = [user |-> st.user, results |-> st.results, msgs |-> [i \in DOMAIN st.order |-> st.msgs[st.order[i]]]]
    OBVIOUS
  <2>3. FlushTurn(st) = Append(st.turns, x)
    BY <1>5, <2>2 DEF FlushTurn
  <2>4. FlushTurn(w) = Append(ts \o st.turns, x)
    BY <1>3, <1>5, <2>2 DEF FlushTurn
  <2>5. PICK q : q = st.turns
    OBVIOUS
  <2>6. Append(q, x)[Len(q) + 1] = x /\ Append(q, t)[Len(q) + 1] = t
    BY <1>1, <2>5
  <2>7. x = t
    BY <2>1, <2>3, <2>5, <2>6
  <2>8. ts \o Append(st.turns, t) = Append(ts \o st.turns, t)
    BY <1>1, AppendAfterTurns
  <2>9. QED
    BY <1>2, <2>1, <2>4, <2>7, <2>8, Zenon
<1>6. QED
  BY <1>4, <1>5

\* Other turns in front change nothing of what a row does.
LEMMA NextAfterTurns ==
    ASSUME NEW st, PassTyped(st), NEW ts \in Seq(AnyTurn), NEW r \in AnyRow, NEW merges
    PROVE  NextRow(AfterTurns(st, ts), r, merges) = AfterTurns(NextRow(st, r, merges), ts)
<1>1. st \in AnyLocals /\ st.turns \in Seq(AnyTurn) /\ r.kind \in {"user", "result", "assistant", "system"}
  BY DEF PassTyped, AnyLocals, AnyRow
<1>2. PICK w : w = AfterTurns(st, ts)
  OBVIOUS
<1>3. /\ w \in AnyLocals /\ w.user = st.user /\ w.order = st.order /\ w.msgs = st.msgs
      /\ w.results = st.results /\ w.group = st.group /\ w.noid = st.noid /\ w.turns = ts \o st.turns
  BY <1>1, <1>2, AfterTurnsFields
<1>4. PICK us : us = ts \o st.turns
  OBVIOUS
<1>5. w = [st EXCEPT !.turns = us]
  BY <1>2, <1>4 DEF AfterTurns
<1>6. CASE r.kind = "result"
  <2>1. PICK rs : rs = IF r.tool = NoTool THEN st.results ELSE With(st.results, r.tool, r.ts)
    OBVIOUS
  <2>2. NextRow(st, r, merges) = [st EXCEPT !.noid = FALSE, !.results = rs]
    BY <1>6, <2>1 DEF NextRow, ToolResult
  <2>3. NextRow(w, r, merges) = [w EXCEPT !.noid = FALSE, !.results = rs]
    BY <1>3, <1>6, <2>1 DEF NextRow, ToolResult
  <2>4. [st EXCEPT !.noid = FALSE, !.results = rs].turns = st.turns
    BY <1>1 DEF AnyLocals
  <2>5. [w EXCEPT !.noid = FALSE, !.results = rs] = [[st EXCEPT !.noid = FALSE, !.results = rs] EXCEPT !.turns = us]
    BY <1>1, <1>5 DEF AnyLocals
  <2>6. QED
    BY <1>2, <1>4, <2>2, <2>3, <2>4, <2>5 DEF AfterTurns
<1>7. CASE r.kind = "user"
  <2>1. PICK fs : fs = FlushTurn(st)
    OBVIOUS
  <2>2. FlushTurn(w) = ts \o fs
    BY <1>2, <2>1, FlushAfterTurns
  <2>3. PICK gs : gs = ts \o fs
    OBVIOUS
  <2>4. NextRow(st, r, merges) = [Locals EXCEPT !.user = r, !.turns = fs]
    BY <1>7, <2>1 DEF NextRow, UserRow
  <2>5. NextRow(w, r, merges) = [Locals EXCEPT !.user = r, !.turns = gs]
    BY <1>7, <2>2, <2>3 DEF NextRow, UserRow
  <2>6. [Locals EXCEPT !.user = r, !.turns = fs].turns = fs
    BY DEF Locals
  <2>7. [Locals EXCEPT !.user = r, !.turns = gs] = [[Locals EXCEPT !.user = r, !.turns = fs] EXCEPT !.turns = gs]
    BY DEF Locals
  <2>8. QED
    BY <1>2, <2>3, <2>4, <2>5, <2>6, <2>7 DEF AfterTurns
<1>8. ASSUME NEW a, NEW b, a \in AnyLocals, b \in AnyLocals, b = [a EXCEPT !.turns = us], a.turns = st.turns,
             NEW mid, NEW m
      PROVE  Put(b, mid, m) = AfterTurns(Put(a, mid, m), ts)
  <2>1. PICK o : o = IF mid \in DOMAIN a.msgs THEN a.order ELSE Append(a.order, mid)
    OBVIOUS
  <2>2. PICK ms : ms = With(a.msgs, mid, m)
    OBVIOUS
  <2>3. Put(a, mid, m) = [a EXCEPT !.order = o, !.msgs = ms]
    BY <2>1, <2>2 DEF Put
  <2>4. b.msgs = a.msgs /\ b.order = a.order
    BY <1>8 DEF AnyLocals
  <2>5. Put(b, mid, m) = [b EXCEPT !.order = o, !.msgs = ms]
    BY <2>1, <2>2, <2>4 DEF Put
  <2>6. [a EXCEPT !.order = o, !.msgs = ms].turns = st.turns
    BY <1>8 DEF AnyLocals
  <2>7. [b EXCEPT !.order = o, !.msgs = ms] = [[a EXCEPT !.order = o, !.msgs = ms] EXCEPT !.turns = us]
    BY <1>8 DEF AnyLocals
  <2>8. QED
    BY <1>4, <2>3, <2>5, <2>6, <2>7 DEF AfterTurns
<1>9. ASSUME r.kind = "assistant", st.user # NoUser, ~ merges
      PROVE  NextRow(w, r, merges) = AfterTurns(NextRow(st, r, merges), ts)
  <2>1. PICK mid : mid = IF r.id # NoId THEN <<r.id, 0>> ELSE <<NoId, Len(st.order)>>
    OBVIOUS
  <2>2. NextRow(st, r, merges) = Put(st, mid, Message(r))
    BY <1>9, <2>1 DEF NextRow, LatestRow
  <2>3. NextRow(w, r, merges) = Put(w, mid, Message(r))
    BY <1>3, <1>9, <2>1 DEF NextRow, LatestRow
  <2>4. QED
    BY <1>1, <1>3, <1>5, <1>8, <2>2, <2>3
<1>10. ASSUME r.kind = "assistant", st.user # NoUser, merges
       PROVE  NextRow(w, r, merges) = AfterTurns(NextRow(st, r, merges), ts)
  <2>1. PICK group : group = IF r.id = NoId /\ ~st.noid THEN st.group + 1 ELSE st.group
    OBVIOUS
  <2>2. PICK mid : mid = IF r.id # NoId THEN <<r.id, 0>> ELSE <<NoId, group>>
    OBVIOUS
  <2>3. PICK a : a = [st EXCEPT !.group = group, !.noid = (r.id = NoId)]
    OBVIOUS
  <2>4. PICK b : b = [w EXCEPT !.group = group, !.noid = (r.id = NoId)]
    OBVIOUS
  <2>5. PICK m : m = IF mid \in DOMAIN st.msgs THEN MergeAssistantContent(st.msgs[mid], r) ELSE Message(r)
    OBVIOUS
  <2>6. group \in Nat
    BY <1>1, <2>1 DEF AnyLocals
  <2>7. a \in AnyLocals /\ a.turns = st.turns /\ a.msgs = st.msgs
    BY <1>1, <2>3, <2>6 DEF AnyLocals
  <2>8. b \in AnyLocals /\ b.msgs = st.msgs
    BY <1>3, <2>4, <2>6 DEF AnyLocals
  <2>9. b = [a EXCEPT !.turns = us]
    BY <1>1, <1>5, <2>3, <2>4 DEF AnyLocals
  <2>10. NextRow(st, r, merges) = Put(a, mid, m)
    BY <1>10, <2>1, <2>2, <2>3, <2>5, <2>7 DEF NextRow, MergedRow
  <2>11. NextRow(w, r, merges) = Put(b, mid, m)
    BY <1>3, <1>10, <2>1, <2>2, <2>4, <2>5, <2>8 DEF NextRow, MergedRow
  <2>12. QED
    BY <1>8, <2>7, <2>8, <2>9, <2>10, <2>11
<1>11. CASE r.kind = "system" \/ (r.kind = "assistant" /\ st.user = NoUser)
  <2>1. NextRow(st, r, merges) = st /\ NextRow(w, r, merges) = w
    BY <1>3, <1>11 DEF NextRow
  <2>2. QED
    BY <1>2, <2>1
<1>12. QED
  BY <1>1, <1>2, <1>6, <1>7, <1>9, <1>10, <1>11

\* Before the first prompt nothing is a turn.
LEMMA NoPromptYet ==
    ASSUME NEW merges, NEW rs \in Seq(AnyRow), \A i \in DOMAIN rs : rs[i].kind # "user"
    PROVE  FlushTurn(Built(rs, merges)) = <<>>
<1> DEFINE NoPrompts(q) == \A i \in DOMAIN q : q[i].kind # "user"
<1> DEFINE P == {q \in Seq(AnyRow) : NoPrompts(q) => Built(q, merges).user = NoUser /\ Built(q, merges).turns = <<>>}
<1>1. <<>> \in P
  BY BuiltFacts DEF Locals
<1>2. ASSUME NEW q \in Seq(AnyRow), NEW r \in AnyRow, q \in P PROVE Append(q, r) \in P
  <2>0. PICK qs : qs = Append(q, r)
    OBVIOUS
  <2>1. qs \in Seq(AnyRow)
    BY <2>0
  <2>2. ASSUME NoPrompts(qs) PROVE NoPrompts(q) /\ r.kind # "user"
    <3>1. qs[Len(q) + 1] = r /\ Len(q) + 1 \in DOMAIN qs
      BY <2>0
    <3>2. \A i \in DOMAIN q : i \in DOMAIN qs /\ qs[i] = q[i]
      BY <2>0
    <3>3. QED
      BY <2>2, <3>1, <3>2
  <2>3. PICK st : st = Built(q, merges)
    OBVIOUS
  <2>4. PassTyped(st) /\ (NoPrompts(q) => st.user = NoUser /\ st.turns = <<>>)
    BY <1>2, <2>3, PassTypedBuilt
  <2>5. Built(qs, merges) = NextRow(st, r, merges)
    BY <2>0, <2>3, BuiltFacts
  <2>6. PICK new : new = NextRow(st, r, merges)
    OBVIOUS
  <2>7. BeginsTurn(st, new, r) \/ JoinsTurn(st, new, r) \/ KeepsTurn(st, new, r)
    BY <2>4, <2>6, NextAny
  <2>8. ASSUME NoPrompts(qs) PROVE new.user = NoUser /\ new.turns = <<>>
    BY <2>2, <2>4, <2>7, <2>8 DEF BeginsTurn, JoinsTurn, KeepsTurn
  <2> HIDE DEF NoPrompts
  <2>9. qs \in P
    BY <2>1, <2>5, <2>6, <2>8
  <2>10. QED
    BY <2>0, <2>9
<1>3. NoPrompts(rs)
  OBVIOUS
<1> HIDE DEF P
<1>4. Seq(AnyRow) \subseteq P
  BY <1>1, <1>2, SeqInduction
<1>5. Built(rs, merges).user = NoUser /\ Built(rs, merges).turns = <<>>
  BY <1>3, <1>4 DEF P
<1>6. QED
  BY <1>5 DEF FlushTurn

\* Turns that come before a prompt and the ones from it on are made apart.
LEMMA MadeApart ==
    ASSUME NEW merges, NEW head \in Seq(AnyRow), NEW mid \in Seq(AnyRow), \A i \in DOMAIN mid : mid[i].kind # "user",
           NEW rest \in Seq(AnyRow), rest # <<>>, rest[1].kind = "user"
    PROVE  Built(head \o rest, merges) = AfterTurns(Built(mid \o rest, merges), FlushTurn(Built(head, merges)))
<1>1. PICK ts : ts = FlushTurn(Built(head, merges))
  OBVIOUS
<1>2. ts \in Seq(AnyTurn)
  BY <1>1, PassTypedBuilt, FlushAny
<1> DEFINE P == {q \in Seq(AnyRow) : q # <<>> /\ q[1].kind = "user" =>
                                       Built(head \o q, merges) = AfterTurns(Built(mid \o q, merges), ts)}
<1>3. <<>> \in P
  OBVIOUS
<1>4. ASSUME NEW q \in Seq(AnyRow), NEW r \in AnyRow, q \in P PROVE Append(q, r) \in P
  <2>0. PICK qs : qs = Append(q, r)
    OBVIOUS
  <2>1. qs \in Seq(AnyRow) /\ head \o qs = Append(head \o q, r) /\ mid \o qs = Append(mid \o q, r)
        /\ head \o q \in Seq(AnyRow) /\ mid \o q \in Seq(AnyRow)
    BY <2>0, AppendAfterTurns
  <2>2. PICK a, b : a = Built(head \o q, merges) /\ b = Built(mid \o q, merges)
    OBVIOUS
  <2>3. Built(head \o qs, merges) = NextRow(a, r, merges) /\ Built(mid \o qs, merges) = NextRow(b, r, merges)
    BY <2>1, <2>2, BuiltFacts
  <2>4. PassTyped(a) /\ PassTyped(b)
    BY <2>1, <2>2, PassTypedBuilt
  <2>5. ASSUME q = <<>>, qs[1].kind = "user" PROVE NextRow(a, r, merges) = AfterTurns(NextRow(b, r, merges), ts)
    <3>1. r.kind = "user"
      BY <2>0, <2>5
    <3>2. head \o q = head /\ mid \o q = mid
      BY <2>5, ConcatEmptySeq
    <3>3. FlushTurn(a) = ts /\ FlushTurn(b) = <<>>
      BY <1>1, <2>2, <3>2, NoPromptYet
    <3>4. NextRow(a, r, merges) = [Locals EXCEPT !.user = r, !.turns = ts]
      BY <3>1, <3>3 DEF NextRow, UserRow
    <3>5. NextRow(b, r, merges) = [Locals EXCEPT !.user = r, !.turns = <<>>]
      BY <3>1, <3>3 DEF NextRow, UserRow
    <3>6. [Locals EXCEPT !.user = r, !.turns = <<>>].turns = <<>>
      BY DEF Locals
    <3>7. ts \o <<>> = ts
      BY <1>2, ConcatEmptySeq
    <3>8. [Locals EXCEPT !.user = r, !.turns = ts] = [[Locals EXCEPT !.user = r, !.turns = <<>>] EXCEPT !.turns = ts]
      BY DEF Locals
    <3>9. QED
      BY <3>4, <3>5, <3>6, <3>7, <3>8 DEF AfterTurns
  <2>6. ASSUME q # <<>>, qs[1].kind = "user" PROVE NextRow(a, r, merges) = AfterTurns(NextRow(b, r, merges), ts)
    <3>1. q[1] = qs[1]
      BY <2>0, <2>6
    <3>2. a = AfterTurns(b, ts)
      BY <1>4, <2>2, <2>6, <3>1
    <3>3. QED
      BY <1>2, <2>4, <3>2, NextAfterTurns
  <2>7. qs[1].kind = "user" => Built(head \o qs, merges) = AfterTurns(Built(mid \o qs, merges), ts)
    BY <2>3, <2>5, <2>6
  <2>8. qs \in P
    BY <2>1, <2>7
  <2>9. QED
    BY <2>0, <2>8
<1> HIDE DEF P
<1>5. Seq(AnyRow) \subseteq P
  BY <1>3, <1>4, SeqInduction
<1>6. QED
  BY <1>1, <1>5 DEF P

LEMMA BuildTurnsIs ==
    ASSUME NEW ag \in Agents
    PROVE  \A rs : BuildTurns(ag, rs) = FlushTurn(Built(rs, ag # "claude-code"))
<1>1. CASE ag = "claude-code"
  BY <1>1 DEF BuildTurns, ClaudeTurns, Built
<1>2. CASE ag = "qoder" \/ ag = "qoderwork"
  BY <1>2 DEF BuildTurns, QoderTurns, QoderWorkTurns, Built
<1>3. QED
  BY <1>1, <1>2 DEF Agents

\* Whatever the rows are and wherever they are cut, only the tail of the turn that is cut is lost.
LEMMA CutHere ==
    ASSUME transcript \in Seq(AnyRow), NEW ag \in Agents, NEW c \in 0..Len(transcript)
    PROVE  LET head == SubSeq(transcript, 1, c)
               tail == SubSeq(transcript, c + 1, Len(transcript))
           IN  BuildTurns(ag, head) \o BuildTurns(ag, tail) = BuildTurns(ag, head \o FromPrompt(tail))
<1>a. PICK head : head = SubSeq(transcript, 1, c)
  OBVIOUS
<1>b. PICK tail : tail = SubSeq(transcript, c + 1, Len(transcript))
  OBVIOUS
<1>c. PICK users : users = {i \in DOMAIN tail : tail[i].kind = "user"}
  OBVIOUS
<1>d. PICK rest : rest = FromPrompt(tail)
  OBVIOUS
<1>1. /\ head = SubSeq(transcript, 1, c) /\ tail = SubSeq(transcript, c + 1, Len(transcript))
      /\ users = {i \in DOMAIN tail : tail[i].kind = "user"}
      /\ rest = IF users = {} THEN <<>> ELSE SubSeq(tail, Min(users), Len(tail))
  BY <1>a, <1>b, <1>c, <1>d DEF FromPrompt
<1>2. head \in Seq(AnyRow) /\ tail \in Seq(AnyRow)
  <2>1. Len(transcript) \in Nat /\ \A i \in 1..Len(transcript) : transcript[i] \in AnyRow
    OBVIOUS
  <2>2. \A i \in 1..c : transcript[i] \in AnyRow
    BY <2>1
  <2>3. \A i \in (c + 1)..Len(transcript) : transcript[i] \in AnyRow
    BY <2>1
  <2>4. head \in Seq(AnyRow)
    BY <1>1, <2>1, <2>2, SubSeqProperties
  <2>5. tail \in Seq(AnyRow)
    BY <1>1, <2>1, <2>3, SubSeqProperties
  <2>6. QED
    BY <2>4, <2>5
<1>3. PICK merges : \A rs : BuildTurns(ag, rs) = FlushTurn(Built(rs, merges))
  BY BuildTurnsIs
<1>4. BuildTurns(ag, head) \in Seq(AnyTurn)
  BY <1>2, <1>3, PassTypedBuilt, FlushAny
<1>5. ASSUME users = {} PROVE BuildTurns(ag, head) \o BuildTurns(ag, tail) = BuildTurns(ag, head \o rest)
  <2>1. rest = <<>> /\ head \o rest = head
    BY <1>1, <1>2, <1>5, ConcatEmptySeq
  <2>2. BuildTurns(ag, tail) = <<>>
    BY <1>1, <1>2, <1>3, <1>5, NoPromptYet
  <2>3. QED
    BY <1>4, <2>1, <2>2, ConcatEmptySeq
<1>6. ASSUME users # {} PROVE BuildTurns(ag, head) \o BuildTurns(ag, tail) = BuildTurns(ag, head \o rest)
  <2>1. PICK u : u = Min(users)
    OBVIOUS
  <2>2. users \subseteq Nat
    BY <1>1, <1>2
  <2>3. u \in users /\ \A i \in users : u <= i
    BY <1>6, <2>1, <2>2, LeastOf
  <2>4. u \in 1..Len(tail) /\ tail[u].kind = "user" /\ Len(tail) \in Nat
    BY <1>1, <1>2, <2>3
  <2>5. PICK mid : mid = SubSeq(tail, 1, u - 1)
    OBVIOUS
  <2>6. \A i \in 1..Len(tail) : tail[i] \in AnyRow
    BY <1>2
  <2>7. mid \in Seq(AnyRow) /\ \A i \in DOMAIN mid : mid[i].kind # "user"
    <3>1. \A i \in 1..(u - 1) : tail[i] \in AnyRow /\ tail[i].kind # "user"
      <4>1. SUFFICES ASSUME NEW i \in 1..(u - 1) PROVE tail[i] \in AnyRow /\ tail[i].kind # "user"
        OBVIOUS
      <4>2. i \in 1..Len(tail) /\ i < u /\ i \in Nat
        BY <2>4
      <4>3. ~ (u <= i)
        BY <2>4, <4>2
      <4>4. i \notin users /\ DOMAIN tail = 1..Len(tail)
        BY <1>2, <2>3, <4>3
      <4>5. QED
        BY <1>1, <2>6, <4>2, <4>4
    <3>2. 1 \in Int /\ u - 1 \in Int
      BY <2>4
    <3>3. mid \in Seq(AnyRow) /\ Len(mid) = (IF 1 <= u - 1 THEN u - 1 - 1 + 1 ELSE 0)
          /\ \A i \in 1..(u - 1 - 1 + 1) : mid[i] = tail[1 + i - 1]
      BY <2>5, <3>1, <3>2, SubSeqProperties
    <3>4. DOMAIN mid = 1..(u - 1) /\ \A i \in 1..(u - 1) : mid[i] = tail[i]
      BY <2>4, <3>3
    <3>5. QED
      BY <3>1, <3>3, <3>4
  <2>8. rest \in Seq(AnyRow) /\ rest # <<>> /\ rest[1].kind = "user"
    <3>1. rest = SubSeq(tail, u, Len(tail))
      BY <1>1, <1>6, <2>1
    <3>2. u \in Int /\ Len(tail) \in Int /\ u <= Len(tail) /\ \A i \in u..Len(tail) : tail[i] \in AnyRow
      BY <2>4, <2>6
    <3>3. rest \in Seq(AnyRow) /\ Len(rest) = Len(tail) - u + 1 /\ \A i \in 1..(Len(tail) - u + 1) : rest[i] = tail[u + i - 1]
      BY <3>1, <3>2, SubSeqProperties
    <3>4. 1 \in 1..(Len(tail) - u + 1) /\ u + 1 - 1 = u
      BY <3>2
    <3>5. rest[1] = tail[u]
      BY <3>3, <3>4
    <3>6. Len(rest) # 0
      BY <3>2, <3>3
    <3>7. QED
      BY <2>4, <3>3, <3>5, <3>6
  <2>9. tail = mid \o rest
    <3>1. 1 \in 1..(Len(tail) + 1) /\ u - 1 \in (1 - 1)..Len(tail) /\ Len(tail) \in (u - 1)..Len(tail) /\ u - 1 + 1 = u
      BY <2>4
    <3>2. SubSeq(tail, 1, u - 1) \o SubSeq(tail, u - 1 + 1, Len(tail)) = SubSeq(tail, 1, Len(tail))
      BY <1>2, <3>1, ConcatAdjacentSubSeq
    <3>3. SubSeq(tail, 1, Len(tail)) = tail
      BY <1>2, SubSeqFull
    <3>4. QED
      BY <1>1, <1>6, <2>1, <2>5, <3>1, <3>2, <3>3
  <2>10. PICK a, b : a = Built(head, merges) /\ b = Built(tail, merges)
    OBVIOUS
  <2>11. Built(head \o rest, merges) = AfterTurns(b, FlushTurn(a))
    BY <1>2, <2>7, <2>8, <2>9, <2>10, MadeApart
  <2>12. PassTyped(b) /\ FlushTurn(a) \in Seq(AnyTurn)
    BY <1>2, <2>10, PassTypedBuilt, FlushAny
  <2>13. FlushTurn(AfterTurns(b, FlushTurn(a))) = FlushTurn(a) \o FlushTurn(b)
    BY <2>12, FlushAfterTurns
  <2>14. BuildTurns(ag, head) = FlushTurn(a) /\ BuildTurns(ag, tail) = FlushTurn(b)
    BY <1>3, <2>10, Zenon
  <2>15. BuildTurns(ag, head \o rest) = FlushTurn(AfterTurns(b, FlushTurn(a)))
    BY <1>3, <2>11, Zenon
  <2>16. QED
    BY <2>13, <2>14, <2>15, Zenon
<1>7. BuildTurns(ag, head) \o BuildTurns(ag, tail) = BuildTurns(ag, head \o rest)
  BY <1>5, <1>6
<1>8. QED
  BY <1>a, <1>b, <1>d, <1>7, Zenon

LEMMA CutAnywhere ==
    ASSUME transcript \in Seq(AnyRow)
    PROVE  CutLosesOnlyTail
  BY CutHere, Zenon DEF CutLosesOnlyTail

\* The rows and records that the runs of MCTurns come to.
TranscriptTyped ==
    /\ transcript \in Seq(AnyRow) /\ chat \in Seq(Nat)
    /\ \A i \in DOMAIN transcript : transcript[i].n = i /\ transcript[i].ts \in {0, i}

LEMMA TranscriptTypedAlways == TurnsSpec => []TranscriptTyped
<1>1. TurnsInit => TranscriptTyped
  BY DEF TurnsInit, TranscriptTyped
<1>2. TranscriptTyped /\ [TurnsNext]_turnsVars => TranscriptTyped'
  <2>1. SUFFICES ASSUME TranscriptTyped, [TurnsNext]_turnsVars PROVE TranscriptTyped'
    OBVIOUS
  <2>2. CASE AgentWrites
    <3>1. PICK r \in RowKinds :
            transcript' = Append(transcript, [kind |-> r.kind, id |-> r.id, tool |-> r.tool, bare |-> r.bare,
                                              n |-> Len(transcript) + 1,
                                              ts |-> IF r.stamped THEN Len(transcript) + 1 ELSE 0])
      BY <2>2 DEF AgentWrites
    <3>2. r \in [kind : {"user", "result", "assistant", "system"}, id : RowIds, tool : RowTools,
                 bare : BOOLEAN, stamped : BOOLEAN]
      BY TurnsAssumption
    <3>3. PICK x : x = [kind |-> r.kind, id |-> r.id, tool |-> r.tool, bare |-> r.bare,
                        n |-> Len(transcript) + 1, ts |-> IF r.stamped THEN Len(transcript) + 1 ELSE 0]
      OBVIOUS
    <3>4. Len(transcript) + 1 \in Nat \ {0}
      BY <2>1 DEF TranscriptTyped
    <3>5. x \in AnyRow
      BY <3>2, <3>3, <3>4 DEF AnyRow
    <3>6. transcript' = Append(transcript, x)
      BY <3>1, <3>3
    <3>7. x.n = Len(transcript) + 1 /\ x.ts \in {0, Len(transcript) + 1}
      BY <3>3
    <3>8. PICK old, new : old = transcript /\ new = Append(old, x)
      OBVIOUS
    <3>9. old \in Seq(AnyRow) /\ \A i \in DOMAIN old : old[i].n = i /\ old[i].ts \in {0, i}
      BY <2>1, <3>8 DEF TranscriptTyped
    <3>10. new \in Seq(AnyRow) /\ \A i \in DOMAIN new : new[i].n = i /\ new[i].ts \in {0, i}
      <4>1. new \in Seq(AnyRow)
        BY <3>5, <3>8, <3>9
      <4>2. /\ DOMAIN new = 1..(Len(old) + 1) /\ DOMAIN old = 1..Len(old) /\ Len(old) \in Nat
            /\ \A i \in 1..Len(old) : new[i] = old[i]
            /\ new[Len(old) + 1] = x
        BY <3>5, <3>8, <3>9
      <4>3. ASSUME NEW i \in 1..(Len(old) + 1) PROVE new[i].n = i /\ new[i].ts \in {0, i}
        <5>1. CASE i \in 1..Len(old)
          BY <3>9, <4>2, <5>1
        <5>2. CASE i = Len(old) + 1
          BY <3>7, <3>8, <4>2, <5>2
        <5>3. QED
          BY <4>2, <4>3, <5>1, <5>2
      <4>4. QED
        BY <4>1, <4>2, <4>3
    <3>11. transcript' = new
      BY <3>6, <3>8
    <3>12. chat' = chat
      BY <2>2 DEF AgentWrites
    <3>13. QED
      BY <2>1, <3>10, <3>11, <3>12 DEF TranscriptTyped
  <2>3. CASE IdeWrites
    <3>1. PICK t \in 1..MaxTranscript : chat' = Append(chat, t)
      BY <2>3 DEF IdeWrites
    <3>2. t \in Nat
      BY TurnsAssumption
    <3>3. QED
      BY <2>1, <2>3, <3>1, <3>2 DEF TranscriptTyped, IdeWrites
  <2>4. CASE UNCHANGED turnsVars
    BY <2>1, <2>4 DEF turnsVars, TranscriptTyped
  <2>5. QED
    BY <2>1, <2>2, <2>3, <2>4 DEF TurnsNext
<1>3. QED
  BY <1>1, <1>2, PTL DEF TurnsSpec

\* Rows that two calls of the hook read make the turns that all rows make but for those
\* between the cut and the next prompt (the offset moves to the end of what was read).
THEOREM OnlyTailsAreCut == TurnsSpec => []CutLosesOnlyTail
<1>1. TranscriptTyped => CutLosesOnlyTail
  BY CutAnywhere DEF TranscriptTyped
<1>2. QED
  BY <1>1, TranscriptTypedAlways, PTL

-----------------------------------------------------------------------------
(* The token records of Qoder's database.                                  *)

DbOn(f, c, n) == f = [k \in 0..n |-> IF k = 0 THEN <<>> ELSE InsertByTime(f[k - 1], c[k])]

LEMMA DbExists ==
    ASSUME NEW c
    PROVE  \A n \in Nat : \E f : DbOn(f, c, n)
<1> DEFINE S == {n \in Nat : \E f : DbOn(f, c, n)}
<1>1. 0 \in S
  <2>1. DbOn([k \in 0..0 |-> <<>>], c, 0)
    BY DEF DbOn
  <2>2. QED
    BY <2>1
<1>2. ASSUME NEW n \in Nat, n \in S PROVE n + 1 \in S
  <2>1. PICK f : DbOn(f, c, n)
    BY <1>2
  <2> DEFINE g == [k \in 0..(n + 1) |-> IF k = 0 THEN <<>> ELSE InsertByTime(f[k - 1], c[k])]
  <2>2. \A k \in 0..n : f[k] = g[k]
    BY <2>1 DEF DbOn
  <2>3. \A k \in 0..(n + 1) : k # 0 => f[k - 1] = g[k - 1]
    <3> HIDE DEF g
    <3>1. QED
      BY <2>2
  <2>4. g = [k \in 0..(n + 1) |-> IF k = 0 THEN <<>> ELSE InsertByTime(g[k - 1], c[k])]
    BY <2>3
  <2>5. DbOn(g, c, n + 1)
    BY <2>4 DEF DbOn
  <2>6. QED
    BY <2>5
<1> HIDE DEF S
<1>3. Nat \subseteq S
  BY <1>1, <1>2, Induction
<1>4. QED
  BY <1>3 DEF S

\* The record goes to one of the places of the sequence, or behind the last.
LEMMA InsertTyped ==
    ASSUME NEW db \in Seq(Nat), NEW t \in Nat
    PROVE  InsertByTime(db, t) \in Seq(Nat)
<1>1. PICK earlier : earlier = {i \in DOMAIN db : db[i] <= t}
  OBVIOUS
<1>2. PICK place : place = Cardinality(earlier)
  OBVIOUS
<1>3. Len(db) \in Nat /\ DOMAIN db = 1..Len(db) /\ \A i \in 1..Len(db) : db[i] \in Nat
  OBVIOUS
<1>4. place \in Nat /\ place <= Len(db)
  <2>1. IsFiniteSet(1..Len(db)) /\ Cardinality(1..Len(db)) = Len(db)
    BY <1>3, FS_Interval
  <2>2. earlier \in SUBSET (1..Len(db))
    BY <1>1, <1>3
  <2>3. IsFiniteSet(earlier) /\ Cardinality(earlier) <= Len(db)
    BY <2>1, <2>2, FS_Subset
  <2>4. QED
    BY <1>2, <2>3, FS_CardinalityType
<1>5. SubSeq(db, 1, place) \in Seq(Nat)
  <2>1. \A i \in 1..place : db[i] \in Nat
    BY <1>3, <1>4
  <2>2. 1 \in Int /\ place \in Int
    BY <1>4
  <2>3. QED
    BY <2>1, <2>2, SubSeqProperties
<1>6. SubSeq(db, place + 1, Len(db)) \in Seq(Nat)
  <2>1. \A i \in (place + 1)..Len(db) : db[i] \in Nat
    BY <1>3, <1>4
  <2>2. place + 1 \in Int /\ Len(db) \in Int
    BY <1>3, <1>4
  <2>3. QED
    BY <2>1, <2>2, SubSeqProperties
<1>7. <<t>> \in Seq(Nat)
  OBVIOUS
<1>8. SubSeq(db, 1, place) \o <<t>> \in Seq(Nat)
  BY <1>5, <1>7, ConcatProperties
<1>9. (SubSeq(db, 1, place) \o <<t>>) \o SubSeq(db, place + 1, Len(db)) \in Seq(Nat)
  BY <1>6, <1>8, ConcatProperties
<1>10. place + 1 - 1 = place
  BY <1>4
<1>11. InsertByTime(db, t) = InsertAt(db, place + 1, t)
  BY <1>1, <1>2, Zenon DEF InsertByTime
<1>12. QED
  BY <1>9, <1>10, <1>11 DEF InsertAt

LEMMA QueryTyped ==
    ASSUME NEW c \in Seq(Nat)
    PROVE  QuerySessionTokens(c) \in Seq(Nat)
<1>0. Len(c) \in Nat
  OBVIOUS
<1>1. \E f : DbOn(f, c, Len(c))
  BY <1>0, DbExists
<1>2. PICK f : f = CHOOSE x : DbOn(x, c, Len(c))
  OBVIOUS
<1>3. DbOn(f, c, Len(c))
  BY <1>1, <1>2, Zenon
<1>4. QuerySessionTokens(c) = f[Len(c)]
  BY <1>2, Zenon DEF QuerySessionTokens, DbOn
<1> DEFINE S == {k \in Nat : k <= Len(c) => f[k] \in Seq(Nat)}
<1>5. 0 \in S
  BY <1>3 DEF DbOn
<1>6. ASSUME NEW k \in Nat, k \in S PROVE k + 1 \in S
  <2>1. SUFFICES ASSUME k + 1 <= Len(c) PROVE f[k + 1] \in Seq(Nat)
    OBVIOUS
  <2>2. f[k] \in Seq(Nat) /\ k + 1 \in 0..Len(c) /\ c[k + 1] \in Nat
    BY <1>6, <2>1
  <2>3. f[k + 1] = InsertByTime(f[k], c[k + 1])
    BY <1>3, <2>2 DEF DbOn
  <2>4. QED
    BY <2>2, <2>3, InsertTyped
<1> HIDE DEF S
<1>7. Nat \subseteq S
  BY <1>5, <1>6, Induction
<1>8. f[Len(c)] \in Seq(Nat)
  BY <1>7 DEF S
<1>9. QED
  BY <1>4, <1>8

\* What match_db_token finds is in the window and not used, and is nothing only if all there is used.
LEMMA MatchFacts ==
    ASSUME NEW db \in Seq(Nat), NEW ts \in Nat, NEW used
    PROVE  LET m == MatchDbToken(db, ts, used)
           IN  /\ m \in Nat /\ (m # 0 => m \in DOMAIN db \ used /\ Distance(db[m], ts) < Window)
               /\ m = 0 /\ ts # 0 => \A i \in DOMAIN db : Distance(db[i], ts) < Window => i \in used
<1>1. PICK near : near = {i \in DOMAIN db \ used : Distance(db[i], ts) < Window}
  OBVIOUS
<1>2. PICK least : least = Min({Distance(db[i], ts) : i \in near})
  OBVIOUS
<1>3. PICK nearest : nearest = {i \in near : Distance(db[i], ts) = least}
  OBVIOUS
<1>4. PICK m : m = MatchDbToken(db, ts, used)
  OBVIOUS
<1>5. m = IF ts = 0 \/ near = {} THEN 0 ELSE Min(nearest)
  BY <1>1, <1>2, <1>3, <1>4 DEF MatchDbToken
<1>6. CASE ts = 0 \/ near = {}
  BY <1>1, <1>4, <1>5, <1>6
<1>7. CASE ts # 0 /\ near # {}
  <2>1. PICK ds : ds = {Distance(db[i], ts) : i \in near}
    OBVIOUS
  <2>2. ds \subseteq Nat /\ ds # {}
    BY <1>1, <1>7, <2>1 DEF Distance
  <2>3. least \in ds
    BY <1>2, <2>1, <2>2, LeastOf
  <2>4. nearest # {} /\ nearest \subseteq near
    BY <1>3, <2>1, <2>3
  <2>5. near \subseteq Nat
    BY <1>1
  <2>6. m \in nearest
    BY <1>5, <1>7, <2>4, <2>5, LeastOf
  <2>7. m \in DOMAIN db \ used /\ Distance(db[m], ts) < Window /\ m \in Nat /\ m # 0
    BY <1>1, <2>4, <2>6
  <2>8. QED
    BY <1>4, <2>7
<1>8. QED
  BY <1>6, <1>7

GotOn(f, db, msgs, n) ==
    f = [k \in 0..n |-> IF k = 0 THEN <<>>
                        ELSE Append(f[k - 1], MatchDbToken(db, msgs[k].ts, ToSet(f[k - 1]) \ {0}))]

LEMMA GotExists ==
    ASSUME NEW db, NEW msgs
    PROVE  \A n \in Nat : \E f : GotOn(f, db, msgs, n)
<1> DEFINE Step(before, k) == Append(before, MatchDbToken(db, msgs[k].ts, ToSet(before) \ {0}))
<1> DEFINE S == {n \in Nat : \E f : GotOn(f, db, msgs, n)}
<1>1. 0 \in S
  <2>1. GotOn([k \in 0..0 |-> <<>>], db, msgs, 0)
    BY DEF GotOn
  <2>2. QED
    BY <2>1
<1>2. ASSUME NEW n \in Nat, n \in S PROVE n + 1 \in S
  <2>1. PICK f : GotOn(f, db, msgs, n)
    BY <1>2
  <2>2. f = [k \in 0..n |-> IF k = 0 THEN <<>> ELSE Step(f[k - 1], k)]
    BY <2>1 DEF GotOn
  <2> HIDE DEF Step
  <2> DEFINE g == [k \in 0..(n + 1) |-> IF k = 0 THEN <<>> ELSE Step(f[k - 1], k)]
  <2>3. \A k \in 0..n : f[k] = g[k]
    BY <2>2
  <2>4. \A k \in 0..(n + 1) : k # 0 => f[k - 1] = g[k - 1]
    <3> HIDE DEF g
    <3>1. QED
      BY <2>3
  <2>5. g = [k \in 0..(n + 1) |-> IF k = 0 THEN <<>> ELSE Step(g[k - 1], k)]
    BY <2>4
  <2> HIDE DEF g
  <2>6. GotOn(g, db, msgs, n + 1)
    BY <2>5 DEF GotOn, Step
  <2>7. QED
    BY <2>6
<1> HIDE DEF S
<1>3. Nat \subseteq S
  BY <1>1, <1>2, Induction
<1>4. QED
  BY <1>3 DEF S

\* Records that messages have got so far: each once, in the window, and none left that fits.
EachOnce(got, db, msgs) ==
    /\ got \in Seq(Nat)
    /\ \A k \in 1..Len(got) :
         /\ got[k] # 0 => got[k] \in DOMAIN db /\ Distance(db[got[k]], msgs[k].ts) < Window
         /\ \A j \in 1..(k - 1) : got[k] # 0 => got[j] # got[k]
         /\ got[k] = 0 /\ msgs[k].ts # 0 =>
              \A i \in DOMAIN db : Distance(db[i], msgs[k].ts) < Window => \E j \in 1..Len(got) : got[j] = i

LEMMA OneMore ==
    ASSUME NEW db \in Seq(Nat), NEW msgs, NEW q, EachOnce(q, db, msgs), msgs[Len(q) + 1].ts \in Nat
    PROVE  EachOnce(Append(q, MatchDbToken(db, msgs[Len(q) + 1].ts, ToSet(q) \ {0})), db, msgs)
<1>1. q \in Seq(Nat) /\ Len(q) \in Nat /\ DOMAIN q = 1..Len(q)
  BY DEF EachOnce
<1>2. PICK n : n = Len(q) + 1
  OBVIOUS
<1>3. PICK used : used = ToSet(q) \ {0}
  OBVIOUS
<1>4. PICK ts : ts = msgs[n].ts
  OBVIOUS
<1>5. PICK m : m = MatchDbToken(db, ts, used)
  OBVIOUS
<1>6. /\ m \in Nat /\ (m # 0 => m \in DOMAIN db \ used /\ Distance(db[m], ts) < Window)
      /\ m = 0 /\ ts # 0 => \A i \in DOMAIN db : Distance(db[i], ts) < Window => i \in used
  BY <1>2, <1>4, <1>5, MatchFacts
<1>7. PICK g : g = Append(q, m)
  OBVIOUS
<1>8. g \in Seq(Nat) /\ Len(g) = n /\ g[n] = m /\ \A j \in 1..(n - 1) : g[j] = q[j]
  BY <1>1, <1>2, <1>6, <1>7
<1>9. n \in Nat /\ n - 1 = Len(q)
  BY <1>1, <1>2
<1>10. \A i : i \in used <=> i # 0 /\ \E j \in 1..(n - 1) : q[j] = i
  BY <1>1, <1>3, <1>9 DEF ToSet
<1>11. ASSUME NEW k \in 1..n
       PROVE  /\ g[k] # 0 => g[k] \in DOMAIN db /\ Distance(db[g[k]], msgs[k].ts) < Window
              /\ \A j \in 1..(k - 1) : g[k] # 0 => g[j] # g[k]
              /\ g[k] = 0 /\ msgs[k].ts # 0 =>
                   \A i \in DOMAIN db : Distance(db[i], msgs[k].ts) < Window => \E j \in 1..n : g[j] = i
  <2>1. CASE k = n
    <3>1. m # 0 => \A j \in 1..(n - 1) : q[j] # m
      BY <1>6, <1>10
    <3>2. m = 0 /\ ts # 0 => \A i \in DOMAIN db : Distance(db[i], ts) < Window => \E j \in 1..(n - 1) : q[j] = i
      BY <1>6, <1>10
    <3>3. \A j \in 1..(n - 1) : j \in 1..n
      BY <1>9
    <3>4. QED
      BY <1>4, <1>6, <1>8, <2>1, <3>1, <3>2, <3>3
  <2>2. CASE k # n
    <3>1. k \in 1..(n - 1) /\ \A j \in 1..(k - 1) : j \in 1..(n - 1)
      BY <1>9, <1>11, <2>2
    <3>2. /\ q[k] # 0 => q[k] \in DOMAIN db /\ Distance(db[q[k]], msgs[k].ts) < Window
          /\ \A j \in 1..(k - 1) : q[k] # 0 => q[j] # q[k]
          /\ q[k] = 0 /\ msgs[k].ts # 0 =>
               \A i \in DOMAIN db : Distance(db[i], msgs[k].ts) < Window => \E j \in 1..(n - 1) : q[j] = i
      BY <1>9, <3>1 DEF EachOnce
    <3>3. g[k] = q[k]
      BY <1>8, <3>1
    <3>4. \A j \in 1..(k - 1) : g[j] = q[j]
      BY <1>8, <3>1
    <3>5. \A j \in 1..(n - 1) : j \in 1..n /\ g[j] = q[j]
      BY <1>8, <1>9
    <3>6. QED
      BY <3>2, <3>3, <3>4, <3>5
  <2>3. QED
    BY <2>1, <2>2
<1>12. EachOnce(g, db, msgs)
  BY <1>8, <1>11 DEF EachOnce
<1>13. QED
  BY <1>2, <1>3, <1>4, <1>5, <1>7, <1>12, Zenon

LEMMA EnrichOnce ==
    ASSUME NEW db \in Seq(Nat), NEW msgs, Len(msgs) \in Nat, \A k \in 1..Len(msgs) : msgs[k].ts \in Nat
    PROVE  EachOnce(EnrichTurns(db, msgs), db, msgs)
<1>1. \E f : GotOn(f, db, msgs, Len(msgs))
  BY GotExists
<1>2. PICK f : f = CHOOSE x : GotOn(x, db, msgs, Len(msgs))
  OBVIOUS
<1>3. GotOn(f, db, msgs, Len(msgs))
  BY <1>1, <1>2, Zenon
<1>4. EnrichTurns(db, msgs) = f[Len(msgs)]
  BY <1>2, Zenon DEF EnrichTurns, GotOn
<1> DEFINE S == {k \in Nat : k <= Len(msgs) => EachOnce(f[k], db, msgs) /\ Len(f[k]) = k}
<1>5. 0 \in S
  <2>1. f[0] = <<>>
    BY <1>3 DEF GotOn
  <2>2. EachOnce(<<>>, db, msgs) /\ Len(<<>>) = 0
    BY DEF EachOnce
  <2>3. QED
    BY <2>1, <2>2
<1>6. ASSUME NEW k \in Nat, k \in S PROVE k + 1 \in S
  <2>1. SUFFICES ASSUME k + 1 <= Len(msgs) PROVE EachOnce(f[k + 1], db, msgs) /\ Len(f[k + 1]) = k + 1
    OBVIOUS
  <2>2. EachOnce(f[k], db, msgs) /\ Len(f[k]) = k /\ k + 1 \in 0..Len(msgs) /\ msgs[k + 1].ts \in Nat /\ k + 1 - 1 = k
    BY <1>6, <2>1
  <2>3. f[k + 1] = Append(f[k], MatchDbToken(db, msgs[k + 1].ts, ToSet(f[k]) \ {0}))
    <3> DEFINE Step(before, i) == Append(before, MatchDbToken(db, msgs[i].ts, ToSet(before) \ {0}))
    <3>1. f = [i \in 0..Len(msgs) |-> IF i = 0 THEN <<>> ELSE Step(f[i - 1], i)]
      BY <1>3 DEF GotOn
    <3> HIDE DEF Step
    <3>2. k + 1 # 0
      OBVIOUS
    <3>3. f[k + 1] = Step(f[k + 1 - 1], k + 1)
      BY <2>2, <3>1, <3>2
    <3>4. f[k + 1] = Step(f[k], k + 1)
      BY <2>2, <3>3
    <3>5. QED
      BY <3>4 DEF Step
  <2>4. EachOnce(f[k + 1], db, msgs)
    BY <2>2, <2>3, OneMore
  <2>5. Len(f[k + 1]) = k + 1
    BY <2>2, <2>3 DEF EachOnce
  <2>6. QED
    BY <2>4, <2>5
<1> HIDE DEF S
<1>7. Nat \subseteq S
  BY <1>5, <1>6, Induction
<1>8. QED
  BY <1>4, <1>7 DEF S

\* The messages of all turns, one after the other.
Joined(q, r) == q \o r
FlatOn(f, s, n) == f = [i \in 1..n |-> IF i = 1 THEN s[i] ELSE Joined(f[i - 1], s[i])]

LEMMA FlatExists ==
    ASSUME NEW s
    PROVE  \A n \in Nat : \E f : FlatOn(f, s, n)
<1> DEFINE S == {n \in Nat : \E f : FlatOn(f, s, n)}
<1>1. 0 \in S
  <2>1. FlatOn([i \in 1..0 |-> <<>>], s, 0)
    BY DEF FlatOn
  <2>2. QED
    BY <2>1
<1>2. ASSUME NEW n \in Nat, n \in S PROVE n + 1 \in S
  <2>1. PICK f : FlatOn(f, s, n)
    BY <1>2
  <2> DEFINE g == [i \in 1..(n + 1) |-> IF i = 1 THEN s[i] ELSE Joined(f[i - 1], s[i])]
  <2>2. \A i \in 1..n : f[i] = g[i]
    BY <2>1 DEF FlatOn
  <2>3. \A i \in 1..(n + 1) : i # 1 => f[i - 1] = g[i - 1]
    <3> HIDE DEF g
    <3>1. QED
      BY <2>2
  <2>4. g = [i \in 1..(n + 1) |-> IF i = 1 THEN s[i] ELSE Joined(g[i - 1], s[i])]
    BY <2>3
  <2>5. FlatOn(g, s, n + 1)
    BY <2>4 DEF FlatOn
  <2>6. QED
    BY <2>5
<1> HIDE DEF S
<1>3. Nat \subseteq S
  BY <1>1, <1>2, Induction
<1>4. QED
  BY <1>3 DEF S

LEMMA FlattenTyped ==
    ASSUME NEW T, NEW s \in Seq(Seq(T))
    PROVE  FlattenSeq(s) \in Seq(T)
<1>1. CASE Len(s) = 0
  <2>1. s = <<>> /\ FlattenSeq(s) = s
    BY <1>1 DEF FlattenSeq
  <2>2. <<>> \in Seq(T)
    OBVIOUS
  <2>3. QED
    BY <2>1, <2>2, Zenon
<1>2. CASE Len(s) # 0
  <2>1. Len(s) \in Nat /\ 1 <= Len(s) /\ \A i \in 1..Len(s) : s[i] \in Seq(T)
    BY <1>2
  <2>2. \E f : FlatOn(f, s, Len(s))
    BY <2>1, FlatExists
  <2>3. PICK f : f = CHOOSE x : FlatOn(x, s, Len(s))
    OBVIOUS
  <2>4. FlatOn(f, s, Len(s))
    BY <2>2, <2>3, Zenon
  <2>5. FlattenSeq(s) = f[Len(s)]
    BY <1>2, <2>3, Zenon DEF FlattenSeq, FlatOn, Joined
  <2> DEFINE S == {k \in Nat : k + 1 <= Len(s) => f[k + 1] \in Seq(T)}
  <2>6. 0 \in S
    <3>1. f[1] = s[1]
      BY <2>1, <2>4 DEF FlatOn
    <3>2. QED
      BY <2>1, <3>1
  <2>7. ASSUME NEW k \in Nat, k \in S PROVE k + 1 \in S
    <3>1. SUFFICES ASSUME k + 1 + 1 <= Len(s) PROVE f[k + 1 + 1] \in Seq(T)
      OBVIOUS
    <3>2. f[k + 1] \in Seq(T) /\ k + 1 + 1 \in 1..Len(s) /\ k + 1 + 1 # 1 /\ k + 1 + 1 - 1 = k + 1
      BY <2>1, <2>7, <3>1
    <3>3. f[k + 1 + 1] = Joined(f[k + 1], s[k + 1 + 1])
      BY <2>4, <3>2 DEF FlatOn
    <3>4. QED
      BY <2>1, <3>2, <3>3, ConcatProperties DEF Joined
  <2> HIDE DEF S
  <2>8. Nat \subseteq S
    BY <2>6, <2>7, Induction
  <2>9. Len(s) - 1 \in Nat /\ Len(s) - 1 + 1 = Len(s)
    BY <2>1
  <2>10. f[Len(s)] \in Seq(T)
    BY <2>8, <2>9 DEF S
  <2>11. QED
    BY <2>5, <2>10
<1>3. QED
  BY <1>1, <1>2

LEMMA OnceOver ==
    ASSUME NEW db \in Seq(Nat), NEW msgs \in Seq(AnyMsg)
    PROVE  LET got == EnrichTurns(db, msgs)
           IN  \A k \in DOMAIN got :
                 /\ \A j \in 1..(k - 1) : got[k] # 0 => got[j] # got[k]
                 /\ got[k] # 0 => Distance(db[got[k]], msgs[k].ts) < Window
                 /\ got[k] = 0 /\ msgs[k].ts # 0 =>
                      {i \in DOMAIN db : Distance(db[i], msgs[k].ts) < Window} \subseteq ToSet(got)
<1>1. PICK got : got = EnrichTurns(db, msgs)
  OBVIOUS
<1>2. Len(msgs) \in Nat /\ \A k \in 1..Len(msgs) : msgs[k] \in AnyMsg
  OBVIOUS
<1>3. \A m \in AnyMsg : m.ts \in Nat
  BY DEF AnyMsg
<1>4. EachOnce(got, db, msgs)
  BY <1>1, <1>2, <1>3, EnrichOnce
<1>5. DOMAIN got = 1..Len(got)
  BY <1>4 DEF EachOnce
<1>6. ASSUME NEW k \in DOMAIN got
      PROVE  /\ \A j \in 1..(k - 1) : got[k] # 0 => got[j] # got[k]
             /\ got[k] # 0 => Distance(db[got[k]], msgs[k].ts) < Window
             /\ got[k] = 0 /\ msgs[k].ts # 0 =>
                  {i \in DOMAIN db : Distance(db[i], msgs[k].ts) < Window} \subseteq ToSet(got)
  <2>1. /\ got[k] # 0 => got[k] \in DOMAIN db /\ Distance(db[got[k]], msgs[k].ts) < Window
        /\ \A j \in 1..(k - 1) : got[k] # 0 => got[j] # got[k]
        /\ got[k] = 0 /\ msgs[k].ts # 0 =>
             \A i \in DOMAIN db : Distance(db[i], msgs[k].ts) < Window => \E j \in 1..Len(got) : got[j] = i
    BY <1>4, <1>5, <1>6, Zenon DEF EachOnce
  <2>2. ASSUME got[k] = 0 /\ msgs[k].ts # 0, NEW i \in DOMAIN db, Distance(db[i], msgs[k].ts) < Window
        PROVE  i \in ToSet(got)
    BY <1>5, <2>1, <2>2, Zenon DEF ToSet
  <2>3. QED
    BY <2>1, <2>2, Zenon
<1>7. QED
  BY <1>1, <1>6, Zenon

LEMMA CountedOnce ==
    ASSUME TranscriptTyped
    PROVE  TokensCountedOnce
<1>1. QuerySessionTokens(chat) \in Seq(Nat)
  BY QueryTyped DEF TranscriptTyped
<1>2. PICK turns : turns = BuildTurns("qoder", transcript)
  OBVIOUS
<1>3. turns \in Seq(AnyTurn)
  <2>1. turns = FlushTurn(Built(transcript, TRUE))
    BY <1>2 DEF BuildTurns, QoderTurns, Built
  <2>2. QED
    BY <2>1, PassTypedBuilt, FlushAny DEF TranscriptTyped
<1>4. [i \in DOMAIN turns |-> turns[i].msgs] \in Seq(Seq(AnyMsg))
  <2>1. Len(turns) \in Nat /\ DOMAIN turns = 1..Len(turns) /\ \A i \in 1..Len(turns) : turns[i] \in AnyTurn
    BY <1>3
  <2>2. \A t \in AnyTurn : t.msgs \in Seq(AnyMsg)
    BY DEF AnyTurn
  <2>3. QED
    BY <2>1, <2>2
<1>5. FlattenSeq([i \in DOMAIN turns |-> turns[i].msgs]) \in Seq(AnyMsg)
  BY <1>4, FlattenTyped
<1>6. FlattenSeq([i \in DOMAIN BuildTurns("qoder", transcript) |-> BuildTurns("qoder", transcript)[i].msgs])
      \in Seq(AnyMsg)
  BY <1>2, <1>5, Zenon
<1>7. QED
  BY <1>1, <1>6, OnceOver, Zenon DEF TokensCountedOnce

\* In one run of the Qoder hook no token record is counted twice, none is given to a message
\* outside the window, and one that fits is left out only if another message has it
\* (match_db_token and the set of used records of enrich_turns_with_db_tokens).
THEOREM TokensAreCountedOnce == TurnsSpec => []TokensCountedOnce
<1>1. TranscriptTyped => TokensCountedOnce
  BY CountedOnce
<1>2. QED
  BY <1>1, TranscriptTypedAlways, PTL

-----------------------------------------------------------------------------
(* The times of spans, when all rows have one.                             *)

\* Times of a turn whose rows are among the first n: answers come after the prompt.
MsgTimed(m, from, n) == from < m.ts /\ m.ts <= n /\ (m.end = 0 \/ (m.ts <= m.end /\ m.end <= n))

TurnTimed(turn, n) ==
    /\ turn.msgs # <<>> /\ 0 < turn.user.ts
    /\ \A k \in DOMAIN turn.msgs : MsgTimed(turn.msgs[k], turn.user.ts, n)
    /\ \A t \in DOMAIN turn.results : turn.results[t] <= n

\* Times of what the pass keeps.
Timed(st, n) ==
    /\ st.user # NoUser => 0 < st.user.ts /\ st.user.ts <= n
    /\ \A x \in DOMAIN st.msgs : st.user # NoUser /\ MsgTimed(st.msgs[x], st.user.ts, n)
    /\ \A t \in DOMAIN st.results : st.results[t] <= n
    /\ \A j \in DOMAIN st.turns : TurnTimed(st.turns[j], n)

LEMMA TurnTimedLater ==
    ASSUME NEW turn \in AnyTurn, NEW n \in Nat, TurnTimed(turn, n)
    PROVE  TurnTimed(turn, n + 1)
<1>1. DOMAIN turn.msgs = 1..Len(turn.msgs) /\ \A k \in DOMAIN turn.msgs : turn.msgs[k] \in AnyMsg
  <2>1. turn.msgs \in Seq(AnyMsg)
    BY DEF AnyTurn
  <2>2. QED
    BY <2>1
<1>2. \A m \in AnyMsg : m.ts \in Nat /\ m.end \in Nat
  BY DEF AnyMsg
<1>3. turn.results \in AnyResults
  BY DEF AnyTurn
<1>4. \A t \in DOMAIN turn.results : turn.results[t] \in Nat
  BY <1>3 DEF AnyResults
<1>5. ASSUME NEW k \in DOMAIN turn.msgs PROVE MsgTimed(turn.msgs[k], turn.user.ts, n + 1)
  <2>1. PICK m : m = turn.msgs[k]
    OBVIOUS
  <2>2. m.ts \in Nat /\ m.end \in Nat /\ MsgTimed(m, turn.user.ts, n)
    BY <1>1, <1>2, <1>5, <2>1 DEF TurnTimed
  <2>3. MsgTimed(m, turn.user.ts, n + 1)
    BY <2>2 DEF MsgTimed
  <2>4. QED
    BY <2>1, <2>3
<1>6. \A t \in DOMAIN turn.results : turn.results[t] <= n + 1
  BY <1>4 DEF TurnTimed
<1>7. QED
  BY <1>5, <1>6 DEF TurnTimed

LEMMA FlushTimed ==
    ASSUME NEW st, PassTyped(st), NEW n \in Nat, Timed(st, n)
    PROVE  \A j \in DOMAIN FlushTurn(st) : TurnTimed(FlushTurn(st)[j], n)
<1>1. CASE st.user = NoUser \/ st.order = <<>>
  <2>1. FlushTurn(st) = st.turns
    BY <1>1, FlushAny
  <2>2. QED
    BY <2>1 DEF Timed
<1>2. CASE st.user # NoUser /\ st.order # <<>>
  <2>1. PICK t \in AnyTurn : /\ FlushTurn(st) = Append(st.turns, t) /\ t.user = st.user /\ t.results = st.results
                             /\ t.msgs = [i \in DOMAIN st.order |-> st.msgs[st.order[i]]]
    BY <1>2, FlushAny
  <2>2. st.order \in Seq(AnyId) /\ st.turns \in Seq(AnyTurn)
    BY DEF PassTyped, AnyLocals
  <2>3. DOMAIN t.msgs = DOMAIN st.order /\ \A i \in DOMAIN st.order : t.msgs[i] = st.msgs[st.order[i]]
    BY <2>1
  <2>4. \A i \in DOMAIN st.order : MsgTimed(st.msgs[st.order[i]], st.user.ts, n)
    BY DEF PassTyped, Timed
  <2>5. t.msgs # <<>>
    <3>0. PICK q : q = st.order
      OBVIOUS
    <3>a. q \in Seq(AnyId) /\ q # <<>>
      BY <1>2, <2>2, <3>0
    <3>b. Len(q) \in Nat \ {0} /\ DOMAIN q = 1..Len(q)
      BY <3>a
    <3>c. 1 \in DOMAIN q
      BY <3>b
    <3>1. DOMAIN st.order # {}
      BY <3>0, <3>c
    <3>2. QED
      BY <2>3, <3>1
  <2>6. TurnTimed(t, n)
    BY <1>2, <2>1, <2>3, <2>4, <2>5 DEF TurnTimed, Timed
  <2>7. PICK ts : ts = st.turns
    OBVIOUS
  <2>8. ts \in Seq(AnyTurn) /\ \A j \in DOMAIN ts : TurnTimed(ts[j], n)
    BY <2>2, <2>7 DEF Timed
  <2>9. \A j \in DOMAIN Append(ts, t) : (j \in DOMAIN ts /\ Append(ts, t)[j] = ts[j]) \/ Append(ts, t)[j] = t
    BY <2>8
  <2>10. \A j \in DOMAIN Append(ts, t) : TurnTimed(Append(ts, t)[j], n)
    BY <2>6, <2>8, <2>9, Zenon
  <2>11. QED
    BY <2>1, <2>7, <2>10
<1>3. QED
  BY <1>1, <1>2

LEMMA NextTimed ==
    ASSUME NEW st, PassTyped(st), NEW n \in Nat, Timed(st, n), NEW r \in AnyRow, r.ts = n + 1, NEW merges
    PROVE  Timed(NextRow(st, r, merges), n + 1)
<1>1. PICK new : new = NextRow(st, r, merges)
  OBVIOUS
<1>2. PassTyped(new) /\ (BeginsTurn(st, new, r) \/ JoinsTurn(st, new, r) \/ KeepsTurn(st, new, r))
  BY <1>1, NextAny
<1>3. /\ st.msgs \in AnyMsgs /\ st.results \in AnyResults /\ st.turns \in Seq(AnyTurn)
      /\ st.user \in AnyRow \cup {NoUser}
  BY DEF PassTyped, AnyLocals
<1>4. /\ \A x \in DOMAIN st.msgs : st.msgs[x] \in AnyMsg
      /\ \A t \in DOMAIN st.results : st.results[t] \in Nat
      /\ \A j \in DOMAIN st.turns : st.turns[j] \in AnyTurn
  BY <1>3, AnyMsgsFacts DEF AnyResults
<1>5. \A m \in AnyMsg : m.ts \in Nat /\ m.end \in Nat
  BY DEF AnyMsg
<1>6. \A row \in AnyRow : row.ts \in Nat /\ row # NoUser
  <2>1. \A row \in AnyRow : row.ts \in Nat /\ row.n # 0
    BY DEF AnyRow
  <2>2. NoUser.n = 0
    BY DEF NoUser
  <2>3. QED
    BY <2>1, <2>2
<1>7. \A j \in DOMAIN st.turns : TurnTimed(st.turns[j], n + 1)
  BY <1>4, TurnTimedLater DEF Timed
<1>8. \A t \in DOMAIN st.results : st.results[t] <= n + 1
  BY <1>4 DEF Timed
<1>9. st.user # NoUser => 0 < st.user.ts /\ st.user.ts <= n /\ st.user.ts <= n + 1 /\ st.user.ts \in Nat
  BY <1>3, <1>6 DEF Timed
<1>10. ASSUME NEW x \in DOMAIN st.msgs PROVE st.user # NoUser /\ MsgTimed(st.msgs[x], st.user.ts, n + 1)
  <2>1. PICK m : m = st.msgs[x]
    OBVIOUS
  <2>2. m.ts \in Nat /\ m.end \in Nat /\ st.user # NoUser /\ MsgTimed(m, st.user.ts, n)
    BY <1>4, <1>5, <1>10, <2>1 DEF Timed
  <2>3. MsgTimed(m, st.user.ts, n + 1)
    BY <2>2 DEF MsgTimed
  <2>4. QED
    BY <2>1, <2>2, <2>3
<1>11. CASE BeginsTurn(st, new, r)
  <2>1. /\ new.user = r /\ DOMAIN new.msgs = {} /\ DOMAIN new.results = {} /\ new.turns = FlushTurn(st)
    BY <1>11 DEF BeginsTurn
  <2>2. PICK fs : fs = FlushTurn(st)
    OBVIOUS
  <2>3. fs \in Seq(AnyTurn) /\ \A j \in DOMAIN fs : TurnTimed(fs[j], n)
    BY <2>2, FlushAny, FlushTimed
  <2>4. \A j \in DOMAIN fs : fs[j] \in AnyTurn
    BY <2>3
  <2>5. \A j \in DOMAIN fs : TurnTimed(fs[j], n + 1)
    BY <2>3, <2>4, TurnTimedLater
  <2>6. 0 < n + 1 /\ n + 1 <= n + 1
    OBVIOUS
  <2>7. Timed(new, n + 1)
    BY <2>1, <2>2, <2>5, <2>6 DEF Timed
  <2>8. QED
    BY <1>1, <2>7
<1>12. CASE KeepsTurn(st, new, r)
  <2>1. new.user = st.user /\ new.turns = st.turns /\ new.msgs = st.msgs
    BY <1>12 DEF KeepsTurn
  <2>2. \A t \in DOMAIN new.results : new.results[t] <= n + 1
    <3>1. CASE new.results = st.results
      BY <1>8, <3>1
    <3>2. CASE new.results = With(st.results, r.tool, r.ts)
      <4>1. r.tool \in RowTools /\ r.ts \in Nat
        BY DEF AnyRow
      <4>2. PICK rs : rs = With(st.results, r.tool, r.ts)
        OBVIOUS
      <4>3. DOMAIN rs = DOMAIN st.results \cup {r.tool} /\ rs[r.tool] = r.ts
            /\ \A u \in DOMAIN st.results : u # r.tool => rs[u] = st.results[u]
        <5>1. st.results \in AnyResults
          BY <1>3
        <5>2. PICK t, x, old : t = r.tool /\ x = r.ts /\ old = st.results
          OBVIOUS
        <5>3. t \in RowTools /\ x \in Nat /\ old \in AnyResults /\ rs = With(old, t, x)
          BY <4>1, <4>2, <5>1, <5>2
        <5>4. DOMAIN rs = DOMAIN old \cup {t} /\ rs[t] = x /\ \A u \in DOMAIN old : u # t => rs[u] = old[u]
          BY <5>3, PutResult
        <5>5. QED
          BY <5>2, <5>4
      <4>4. ASSUME NEW t \in DOMAIN rs PROVE rs[t] <= n + 1
        <5>1. CASE t = r.tool
          BY <4>3, <5>1
        <5>2. CASE t # r.tool
          <6>1. t \in DOMAIN st.results /\ rs[t] = st.results[t]
            BY <4>3, <4>4, <5>2, Zenon
          <6>2. QED
            BY <1>8, <6>1
        <5>3. QED
          BY <5>1, <5>2
      <4>5. QED
        BY <3>2, <4>2, <4>4
    <3>3. QED
      BY <1>12, <3>1, <3>2 DEF KeepsTurn
  <2>3. Timed(new, n + 1)
    BY <1>7, <1>9, <1>10, <2>1, <2>2 DEF Timed
  <2>4. QED
    BY <1>1, <2>3
<1>13. CASE JoinsTurn(st, new, r)
  <2>1. st.user # NoUser /\ new.user = st.user /\ new.turns = st.turns /\ new.results = st.results
    BY <1>13 DEF JoinsTurn
  <2>2. PICK mid \in AnyId, m \in AnyMsg :
          /\ new.msgs = With(st.msgs, mid, m)
          /\ \/ m.ts = r.ts /\ m.end = 0
             \/ mid \in DOMAIN st.msgs /\ m.ts = st.msgs[mid].ts /\ m.end = Or(r.ts, st.msgs[mid].end)
    BY <1>13 DEF JoinsTurn
  <2>3. PICK ms : ms = With(st.msgs, mid, m)
    OBVIOUS
  <2>4. DOMAIN ms = DOMAIN st.msgs \cup {mid} /\ ms[mid] = m /\ \A x \in DOMAIN st.msgs : x # mid => ms[x] = st.msgs[x]
    BY <1>3, <2>3, PutAnyMsg
  <2>5. MsgTimed(m, st.user.ts, n + 1)
    <3>1. CASE m.ts = r.ts /\ m.end = 0
      BY <1>9, <2>1, <3>1 DEF MsgTimed
    <3>2. CASE mid \in DOMAIN st.msgs /\ m.ts = st.msgs[mid].ts /\ m.end = Or(r.ts, st.msgs[mid].end)
      <4>1. m.end = n + 1
        BY <3>2 DEF Or
      <4>2. PICK old : old = st.msgs[mid]
        OBVIOUS
      <4>3. old.ts \in Nat /\ MsgTimed(old, st.user.ts, n) /\ m.ts = old.ts
        BY <1>4, <1>5, <3>2, <4>2 DEF Timed
      <4>4. QED
        BY <1>9, <2>1, <4>1, <4>3 DEF MsgTimed
    <3>3. QED
      BY <2>2, <3>1, <3>2
  <2>6. \A x \in DOMAIN ms : MsgTimed(ms[x], st.user.ts, n + 1)
    BY <1>10, <2>4, <2>5
  <2>7. Timed(new, n + 1)
    BY <1>7, <1>8, <1>9, <2>1, <2>2, <2>3, <2>6 DEF Timed
  <2>8. QED
    BY <1>1, <2>7
<1>14. QED
  BY <1>2, <1>11, <1>12, <1>13

LEMMA BuiltTimed ==
    ASSUME NEW merges, NEW rs \in Seq(AnyRow), \A i \in DOMAIN rs : rs[i].ts = i
    PROVE  Timed(Built(rs, merges), Len(rs))
<1> DEFINE P == {q \in Seq(AnyRow) : (\A i \in DOMAIN q : q[i].ts = i) => Timed(Built(q, merges), Len(q))}
<1>1. <<>> \in P
  <2>1. Timed(Locals, 0)
    BY DEF Timed, Locals
  <2>2. QED
    BY <2>1, BuiltFacts
<1>2. ASSUME NEW q \in Seq(AnyRow), NEW r \in AnyRow, q \in P PROVE Append(q, r) \in P
  <2>0. PICK qs : qs = Append(q, r)
    OBVIOUS
  <2>1. qs \in Seq(AnyRow) /\ Len(qs) = Len(q) + 1 /\ Len(q) \in Nat /\ qs[Len(q) + 1] = r
        /\ \A i \in DOMAIN q : i \in DOMAIN qs /\ qs[i] = q[i]
    BY <2>0
  <2>2. Len(q) + 1 \in DOMAIN qs
    BY <2>0
  <2>3. ASSUME \A i \in DOMAIN qs : qs[i].ts = i PROVE Timed(Built(qs, merges), Len(qs))
    <3>1. r.ts = Len(q) + 1 /\ \A i \in DOMAIN q : q[i].ts = i
      BY <2>1, <2>2, <2>3
    <3>2. Timed(Built(q, merges), Len(q))
      BY <1>2, <3>1
    <3>3. Built(qs, merges) = NextRow(Built(q, merges), r, merges)
      BY <2>0, BuiltFacts
    <3>4. PassTyped(Built(q, merges))
      BY PassTypedBuilt
    <3>5. QED
      BY <2>1, <3>1, <3>2, <3>3, <3>4, NextTimed
  <2>4. qs \in P
    BY <2>1, <2>3
  <2>5. QED
    BY <2>0, <2>4
<1> HIDE DEF P
<1>3. Seq(AnyRow) \subseteq P
  BY <1>1, <1>2, SeqInduction
<1>4. QED
  BY <1>3 DEF P

\* The order of a turn as InOrder has it, and when a message and what it did ended.
Ordered(ag, turn) ==
    \A k \in DOMAIN turn.msgs :
        /\ k > 1 => LastTs(ag, turn.msgs[k - 1]) < turn.msgs[k].ts
        /\ \A t \in ToolsOf(turn.msgs[k]) :
             ResultTs(turn, t) # 0 =>
                 /\ turn.msgs[k].ts < ResultTs(turn, t)
                 /\ k < Len(turn.msgs) => ResultTs(turn, t) < turn.msgs[k + 1].ts

EndOf(ag, turn, k) ==
    IF BatchEnd(turn, turn.msgs[k]) # {} THEN Max(BatchEnd(turn, turn.msgs[k])) ELSE LastTs(ag, turn.msgs[k])

StartOf(ag, turn, k) == IF k = 1 THEN turn.user.ts ELSE EndOf(ag, turn, k - 1)

LEMMA TurnFacts ==
    ASSUME NEW turn \in AnyTurn, NEW n \in Nat, TurnTimed(turn, n)
    PROVE  /\ Len(turn.msgs) \in Nat \ {0} /\ DOMAIN turn.msgs = 1..Len(turn.msgs)
           /\ turn.user.ts \in Nat /\ 0 < turn.user.ts
           /\ \A k \in DOMAIN turn.msgs : /\ turn.msgs[k].ts \in Nat /\ turn.user.ts < turn.msgs[k].ts
                                          /\ \A ag : /\ LastTs(ag, turn.msgs[k]) \in Nat
                                                        /\ turn.msgs[k].ts <= LastTs(ag, turn.msgs[k])
                                                        /\ LastTs(ag, turn.msgs[k]) <= n
           /\ \A t : ResultTs(turn, t) \in Nat /\ ResultTs(turn, t) <= n
                     /\ (ResultTs(turn, t) # 0 => t \in DOMAIN turn.results /\ ResultTs(turn, t) = turn.results[t])
<1>1. turn.msgs \in Seq(AnyMsg) /\ turn.results \in AnyResults /\ turn.user \in AnyRow
  BY DEF AnyTurn
<1>2. Len(turn.msgs) \in Nat \ {0} /\ DOMAIN turn.msgs = 1..Len(turn.msgs) /\ \A k \in DOMAIN turn.msgs : turn.msgs[k] \in AnyMsg
  <2>1. PICK q : q = turn.msgs
    OBVIOUS
  <2>2. q \in Seq(AnyMsg) /\ q # <<>>
    BY <1>1, <2>1 DEF TurnTimed
  <2>3. Len(q) \in Nat \ {0} /\ DOMAIN q = 1..Len(q) /\ \A k \in DOMAIN q : q[k] \in AnyMsg
    BY <2>2
  <2>4. QED
    BY <2>1, <2>3
<1>3. \A m \in AnyMsg : m.ts \in Nat /\ m.end \in Nat
  BY DEF AnyMsg
<1>4. turn.user.ts \in Nat /\ 0 < turn.user.ts
  BY <1>1 DEF AnyRow, TurnTimed
<1>5. ASSUME NEW k \in DOMAIN turn.msgs
      PROVE  /\ turn.msgs[k].ts \in Nat /\ turn.user.ts < turn.msgs[k].ts
             /\ \A ag : /\ LastTs(ag, turn.msgs[k]) \in Nat
                           /\ turn.msgs[k].ts <= LastTs(ag, turn.msgs[k])
                           /\ LastTs(ag, turn.msgs[k]) <= n
  <2>1. PICK m : m = turn.msgs[k]
    OBVIOUS
  <2>2. m.ts \in Nat /\ m.end \in Nat /\ MsgTimed(m, turn.user.ts, n)
    BY <1>2, <1>3, <1>5, <2>1 DEF TurnTimed
  <2>3. \A ag : LastTs(ag, m) \in Nat /\ m.ts <= LastTs(ag, m) /\ LastTs(ag, m) <= n
    BY <2>2 DEF LastTs, Or, MsgTimed
  <2>4. turn.user.ts < m.ts
    BY <2>2 DEF MsgTimed
  <2>5. QED
    BY <2>1, <2>2, <2>3, <2>4
<1>6. ASSUME NEW t
      PROVE  ResultTs(turn, t) \in Nat /\ ResultTs(turn, t) <= n
             /\ (ResultTs(turn, t) # 0 => t \in DOMAIN turn.results /\ ResultTs(turn, t) = turn.results[t])
  <2>1. \A u \in DOMAIN turn.results : turn.results[u] \in Nat
    BY <1>1 DEF AnyResults
  <2>2. CASE t \in DOMAIN turn.results
    <3>1. ResultTs(turn, t) = turn.results[t]
      BY <2>2 DEF ResultTs
    <3>2. turn.results[t] <= n
      BY <2>2 DEF TurnTimed
    <3>3. QED
      BY <2>1, <2>2, <3>1, <3>2
  <2>3. CASE t \notin DOMAIN turn.results
    BY <2>3 DEF ResultTs
  <2>4. QED
    BY <2>2, <2>3
<1>7. QED
  BY <1>2, <1>4, <1>5, <1>6

\* A message ends when it began or later, and not before the results of its tools.
LEMMA EndFacts ==
    ASSUME NEW turn \in AnyTurn, NEW n \in Nat, TurnTimed(turn, n), NEW ag, Ordered(ag, turn),
           NEW k \in DOMAIN turn.msgs
    PROVE  /\ EndOf(ag, turn, k) \in Nat /\ turn.msgs[k].ts <= EndOf(ag, turn, k)
           /\ \A t \in ToolsOf(turn.msgs[k]) : ResultTs(turn, t) <= EndOf(ag, turn, k)
           /\ \/ EndOf(ag, turn, k) = LastTs(ag, turn.msgs[k])
              \/ \E t \in ToolsOf(turn.msgs[k]) : ResultTs(turn, t) # 0 /\ EndOf(ag, turn, k) = ResultTs(turn, t)
<1>1. PICK m : m = turn.msgs[k]
  OBVIOUS
<1>2. PICK last : last = LastTs(ag, m)
  OBVIOUS
<1>3. m.ts \in Nat /\ last \in Nat /\ m.ts <= last /\ last <= n
  BY <1>1, <1>2, TurnFacts
<1>4. PICK ends : ends = BatchEnd(turn, m)
  OBVIOUS
<1>5. PICK e : e = EndOf(ag, turn, k)
  OBVIOUS
<1>6. e = IF ends # {} THEN Max(ends) ELSE last
  BY <1>1, <1>2, <1>4, <1>5 DEF EndOf
<1>7. \A x : x \in ends <=> x # 0 /\ \E t \in ToolsOf(m) : x = ResultTs(turn, t)
  BY <1>4 DEF BatchEnd
<1>8. \A t : ResultTs(turn, t) \in Nat /\ ResultTs(turn, t) <= n
  BY TurnFacts
<1>9. \A t \in ToolsOf(m) : ResultTs(turn, t) # 0 => m.ts < ResultTs(turn, t)
  BY <1>1 DEF Ordered
<1>10. CASE ends = {}
  <2>1. \A t \in ToolsOf(m) : ResultTs(turn, t) = 0
    BY <1>7, <1>10
  <2>2. e = last
    BY <1>6, <1>10
  <2>3. \A t \in ToolsOf(m) : ResultTs(turn, t) <= e
    BY <1>3, <2>1, <2>2
  <2>4. QED
    BY <1>1, <1>2, <1>3, <1>5, <2>2, <2>3
<1>11. CASE ends # {}
  <2>1. ends \subseteq Nat /\ \A y \in ends : y <= n
    BY <1>7, <1>8
  <2>2. e \in ends /\ \A y \in ends : y <= e
    BY <1>6, <1>11, <2>1, GreatestOf
  <2>3. PICK t \in ToolsOf(m) : ResultTs(turn, t) # 0 /\ e = ResultTs(turn, t)
    BY <1>7, <2>2
  <2>4. m.ts < e /\ e \in Nat
    BY <1>8, <1>9, <2>3
  <2>5. ASSUME NEW u \in ToolsOf(m) PROVE ResultTs(turn, u) <= e
    <3>1. CASE ResultTs(turn, u) = 0
      BY <2>4, <3>1
    <3>2. CASE ResultTs(turn, u) # 0
      BY <1>7, <2>2, <2>5, <3>2
    <3>3. QED
      BY <3>1, <3>2
  <2>6. m.ts <= e
    BY <1>3, <2>4
  <2>7. QED
    BY <1>1, <1>5, <2>3, <2>4, <2>5, <2>6
<1>12. QED
  BY <1>10, <1>11

\* prev_ts is when the message before ended, and before the first the time of the prompt.
LEMMA PrevIs ==
    ASSUME NEW turn \in AnyTurn, NEW n \in Nat, TurnTimed(turn, n), NEW ag
    PROVE  \A k \in DOMAIN turn.msgs : PrevTs(ag, turn)[k - 1] = StartOf(ag, turn, k)
<1>1. PICK len : len = Len(turn.msgs)
  OBVIOUS
<1>2. len \in Nat \ {0} /\ DOMAIN turn.msgs = 1..len
  BY <1>1, TurnFacts
<1> DEFINE Stops(m) == BatchEnd(turn, m)
<1> DEFINE Prevs(f) == f = [k \in 0..len |->
                              IF k = 0 THEN turn.user.ts
                              ELSE IF Stops(turn.msgs[k]) # {} THEN Max(Stops(turn.msgs[k]))
                                   ELSE Or(LastTs(ag, turn.msgs[k]), f[k - 1])]
<1>3. PrevTs(ag, turn) = CHOOSE f : Prevs(f)
  BY <1>1 DEF PrevTs
<1> DEFINE StoppedAt(k) == IF k = 0 THEN turn.user.ts ELSE EndOf(ag, turn, k)
<1>4. \A k \in 1..len : \A x : (IF Stops(turn.msgs[k]) # {} THEN Max(Stops(turn.msgs[k]))
                            ELSE Or(LastTs(ag, turn.msgs[k]), x)) = EndOf(ag, turn, k)
  <2>1. ASSUME NEW k \in 1..len, NEW x PROVE Or(LastTs(ag, turn.msgs[k]), x) = LastTs(ag, turn.msgs[k])
    <3>1. PICK last : last = LastTs(ag, turn.msgs[k])
      OBVIOUS
    <3>2. turn.msgs[k].ts \in Nat /\ turn.user.ts < turn.msgs[k].ts /\ last \in Nat /\ turn.msgs[k].ts <= last
      BY <1>2, <2>1, <3>1, TurnFacts
    <3>3. turn.user.ts \in Nat
      BY TurnFacts
    <3>4. last # 0
      BY <3>2, <3>3
    <3>5. QED
      BY <3>1, <3>4 DEF Or
  <2>2. QED
    BY <2>1 DEF EndOf
<1> HIDE DEF Stops
<1>5. Prevs([k \in 0..len |-> StoppedAt(k)])
  <2>1. PICK f : f = [k \in 0..len |-> StoppedAt(k)]
    OBVIOUS
  <2>2. ASSUME NEW k \in 0..len
        PROVE  StoppedAt(k) = IF k = 0 THEN turn.user.ts
                         ELSE IF Stops(turn.msgs[k]) # {} THEN Max(Stops(turn.msgs[k]))
                              ELSE Or(LastTs(ag, turn.msgs[k]), f[k - 1])
    <3>1. CASE k = 0
      BY <3>1
    <3>2. CASE k # 0
      <4>1. k \in 1..len
        BY <1>2, <2>2, <3>2
      <4>2. QED
        BY <1>4, <3>2, <4>1
    <3>3. QED
      BY <3>1, <3>2
  <2> HIDE DEF StoppedAt
  <2>3. Prevs(f)
    BY <2>1, <2>2
  <2>4. QED
    BY <2>1, <2>3
<1>6. PICK p : p = PrevTs(ag, turn)
  OBVIOUS
<1>7. Prevs(p)
  <2> HIDE DEF Prevs, StoppedAt
  <2>1. \E f : Prevs(f)
    BY <1>5
  <2>2. QED
    BY <1>3, <1>6, <2>1, Zenon
<1>8. p[0] = turn.user.ts
  BY <1>2, <1>7
<1>9. ASSUME NEW k \in 1..len PROVE p[k] = EndOf(ag, turn, k)
  <2>1. k \in 0..len /\ k # 0
    BY <1>2
  <2>2. p[k] = IF Stops(turn.msgs[k]) # {} THEN Max(Stops(turn.msgs[k])) ELSE Or(LastTs(ag, turn.msgs[k]), p[k - 1])
    BY <1>7, <2>1
  <2>3. QED
    BY <1>4, <2>2
<1>10. ASSUME NEW k \in DOMAIN turn.msgs PROVE p[k - 1] = StartOf(ag, turn, k)
  <2>1. CASE k = 1
    BY <1>8, <2>1 DEF StartOf
  <2>2. CASE k # 1
    <3>1. k - 1 \in 1..len
      BY <1>2, <2>2
    <3>2. QED
      BY <1>9, <2>2, <3>1 DEF StartOf
  <2>3. QED
    BY <2>1, <2>2
<1>11. QED
  BY <1>6, <1>10

LEMMA LastRises ==
    ASSUME NEW turn \in AnyTurn, NEW n \in Nat, TurnTimed(turn, n), NEW ag, Ordered(ag, turn)
    PROVE  \A k \in DOMAIN turn.msgs : LastTs(ag, turn.msgs[k]) <= LastTs(ag, Last(turn.msgs))
<1>1. PICK len : len = Len(turn.msgs)
  OBVIOUS
<1>2. len \in Nat \ {0} /\ DOMAIN turn.msgs = 1..len
  BY <1>1, TurnFacts
<1> DEFINE L(k) == LastTs(ag, turn.msgs[k])
<1>3. \A k \in 1..len : L(k) \in Nat
  BY <1>2, TurnFacts
<1>4. ASSUME NEW k \in 1..len, k + 1 <= len PROVE L(k) <= L(k + 1)
  <2>1. k + 1 \in 1..len /\ k + 1 > 1 /\ k + 1 - 1 = k
    BY <1>4
  <2>2. L(k) < turn.msgs[k + 1].ts
    <3>1. \A i \in 1..len : i > 1 => LastTs(ag, turn.msgs[i - 1]) < turn.msgs[i].ts
      BY <1>2 DEF Ordered
    <3>2. LastTs(ag, turn.msgs[k + 1 - 1]) < turn.msgs[k + 1].ts
      BY <2>1, <3>1
    <3>3. QED
      BY <2>1, <3>2
  <2>3. turn.msgs[k + 1].ts \in Nat /\ turn.msgs[k + 1].ts <= L(k + 1)
    BY <1>2, <2>1, TurnFacts
  <2> HIDE DEF L
  <2>4. QED
    BY <1>3, <2>1, <2>2, <2>3
<1> HIDE DEF L
<1> DEFINE S == {d \in Nat : d < len => L(len - d) <= L(len)}
<1>5. 0 \in S
  <2>1. len - 0 = len /\ L(len) \in Nat
    BY <1>2, <1>3
  <2>2. QED
    BY <2>1
<1>6. ASSUME NEW d \in Nat, d \in S PROVE d + 1 \in S
  <2>1. SUFFICES ASSUME d + 1 < len PROVE L(len - (d + 1)) <= L(len)
    OBVIOUS
  <2>2. PICK k : k = len - (d + 1)
    OBVIOUS
  <2>3. k \in 1..len /\ k + 1 <= len /\ k + 1 = len - d /\ k + 1 \in 1..len /\ len \in 1..len
    BY <1>2, <2>1, <2>2
  <2>4. L(k) <= L(k + 1) /\ L(k + 1) <= L(len)
    BY <1>4, <1>6, <2>1, <2>3
  <2>5. L(k) \in Nat /\ L(k + 1) \in Nat /\ L(len) \in Nat
    BY <1>3, <2>3
  <2>6. QED
    BY <2>2, <2>4, <2>5
<1> HIDE DEF S
<1>7. Nat \subseteq S
  BY <1>5, <1>6, Induction
<1>8. ASSUME NEW k \in 1..len PROVE L(k) <= L(len)
  <2>1. len - k \in Nat /\ len - k < len /\ len - (len - k) = k
    BY <1>2
  <2>2. len - k \in S
    BY <1>7, <2>1
  <2>3. QED
    BY <2>1, <2>2 DEF S
<1>9. Last(turn.msgs) = turn.msgs[len]
  BY <1>1 DEF Last
<1>10. QED
  BY <1>2, <1>8, <1>9 DEF L

\* The root begins with the prompt and ends with what ends last.
LEMMA RootIs ==
    ASSUME NEW turn \in AnyTurn, NEW n \in Nat, TurnTimed(turn, n), NEW ag, Ordered(ag, turn)
    PROVE  /\ RootSpan(ag, turn).start = turn.user.ts
           /\ RootSpan(ag, turn).end \in Nat
           /\ \A k \in DOMAIN turn.msgs : EndOf(ag, turn, k) <= RootSpan(ag, turn).end
<1>1. PICK last : last = LastTs(ag, Last(turn.msgs))
  OBVIOUS
<1>2. last \in Nat /\ last <= n /\ 0 < last
  <2>1. Len(turn.msgs) \in DOMAIN turn.msgs /\ Last(turn.msgs) = turn.msgs[Len(turn.msgs)]
    BY TurnFacts DEF Last
  <2>2. PICK m : m = Last(turn.msgs)
    OBVIOUS
  <2>3. m.ts \in Nat /\ turn.user.ts < m.ts /\ last \in Nat /\ m.ts <= last /\ last <= n
    BY <1>1, <2>1, <2>2, TurnFacts
  <2>4. turn.user.ts \in Nat
    BY TurnFacts
  <2>5. QED
    BY <2>3, <2>4
<1>3. PICK ends : ends = ({last} \cup {turn.results[t] : t \in DOMAIN turn.results}) \ {0}
  OBVIOUS
<1>4. \A t \in DOMAIN turn.results : turn.results[t] \in Nat /\ turn.results[t] <= n
  BY DEF AnyTurn, AnyResults, TurnTimed
<1>5. ends \subseteq Nat /\ last \in ends /\ \A y \in ends : y <= n
  BY <1>2, <1>3, <1>4
<1>6. PICK end : end = Max(ends)
  OBVIOUS
<1>7. end \in ends /\ \A y \in ends : y <= end
  BY <1>5, <1>6, GreatestOf
<1>8. end \in Nat /\ end # 0
  BY <1>3, <1>5, <1>7
<1>9. turn.user.ts \in Nat /\ turn.user.ts # 0
  BY TurnFacts
<1>10. RootSpan(ag, turn) = [start |-> Or(turn.user.ts, Now), end |-> Or(Or(end, turn.user.ts), Or(turn.user.ts, Now))]
  BY <1>1, <1>3, <1>5, <1>6 DEF RootSpan
<1>11. RootSpan(ag, turn).start = turn.user.ts /\ RootSpan(ag, turn).end = end
  BY <1>8, <1>9, <1>10 DEF Or
<1>12. ASSUME NEW k \in DOMAIN turn.msgs PROVE EndOf(ag, turn, k) <= end
  <2>1. PICK e : e = EndOf(ag, turn, k)
    OBVIOUS
  <2>2. CASE e = LastTs(ag, turn.msgs[k])
    <3>1. e <= last /\ last <= end /\ e \in Nat
      BY <1>1, <1>5, <1>7, <2>1, <2>2, LastRises, EndFacts
    <3>2. QED
      BY <1>2, <1>8, <2>1, <3>1
  <2>3. CASE \E t \in ToolsOf(turn.msgs[k]) : ResultTs(turn, t) # 0 /\ e = ResultTs(turn, t)
    <3>1. PICK t : ResultTs(turn, t) # 0 /\ e = ResultTs(turn, t)
      BY <2>3
    <3>2. t \in DOMAIN turn.results /\ e = turn.results[t] /\ e # 0
      BY <3>1, TurnFacts
    <3>3. e \in ends
      BY <1>3, <3>2
    <3>4. QED
      BY <1>7, <2>1, <3>3
  <2>4. QED
    BY <2>1, <2>2, <2>3, EndFacts
<1>13. QED
  BY <1>8, <1>11, <1>12

\* A generation goes from the end of what was before it to its own, its tools begin with it.
LEMMA SpanIs ==
    ASSUME NEW turn \in AnyTurn, NEW n \in Nat, TurnTimed(turn, n), NEW ag, Ordered(ag, turn),
           NEW k \in DOMAIN turn.msgs
    PROVE  LET s == GenerationSpan(ag, turn, k)
               m == turn.msgs[k]
           IN  /\ s.start = StartOf(ag, turn, k) /\ s.end = EndOf(ag, turn, k)
               /\ DOMAIN s.tools = ToolsOf(m)
               /\ \A t \in ToolsOf(m) : s.tools[t].start = m.ts
                                        /\ s.tools[t].end = IF ResultTs(turn, t) # 0 THEN ResultTs(turn, t) ELSE m.ts
<1>1. PICK m : m = turn.msgs[k]
  OBVIOUS
<1>2. PICK prev : prev = StartOf(ag, turn, k)
  OBVIOUS
<1>3. PrevTs(ag, turn)[k - 1] = prev
  BY <1>2, PrevIs
<1>4. PICK end : end = EndOf(ag, turn, k)
  OBVIOUS
<1>5. m.ts \in Nat /\ 0 < m.ts
  <2>1. turn.user.ts \in Nat /\ turn.user.ts < m.ts /\ m.ts \in Nat
    BY <1>1, TurnFacts
  <2>2. QED
    BY <2>1
<1>6. end \in Nat /\ m.ts <= end
  BY <1>1, <1>4, EndFacts
<1>7. prev # 0
  <2>1. CASE k = 1
    BY <1>2, <2>1, TurnFacts DEF StartOf
  <2>2. CASE k # 1
    <3>1. k - 1 \in DOMAIN turn.msgs
      BY <2>2, TurnFacts
    <3>2. PICK e, x : e = EndOf(ag, turn, k - 1) /\ x = turn.msgs[k - 1].ts
      OBVIOUS
    <3>3. e \in Nat /\ x <= e
      BY <3>1, <3>2, EndFacts
    <3>4. x \in Nat /\ turn.user.ts < x /\ turn.user.ts \in Nat
      BY <3>1, <3>2, TurnFacts
    <3>5. e # 0
      BY <3>3, <3>4
    <3>6. QED
      BY <1>2, <2>2, <3>2, <3>5 DEF StartOf
  <2>3. QED
    BY <2>1, <2>2
<1>8. PICK ends : ends = BatchEnd(turn, m)
  OBVIOUS
<1>9. (IF ends # {} THEN Max(ends) ELSE LastTs(ag, m)) = end
  BY <1>1, <1>4, <1>8 DEF EndOf
<1>10. end # 0 /\ m.ts # 0
  BY <1>5, <1>6
<1>11. \A x : Or(prev, x) = prev /\ Or(end, x) = end /\ Or(m.ts, x) = m.ts
  BY <1>7, <1>10 DEF Or
<1>12. PICK tools : tools = [t \in ToolsOf(m) |-> [start |-> m.ts, end |-> Or(Or(ResultTs(turn, t), m.ts), m.ts)]]
  OBVIOUS
<1>13. GenerationSpan(ag, turn, k) = [start |-> prev, end |-> end, tools |-> tools]
  <2>1. GenerationSpan(ag, turn, k) =
          [start |-> Or(Or(prev, m.ts), RootSpan(ag, turn).start),
           end |-> Or(Or(end, Or(m.ts, prev)), Or(Or(prev, m.ts), RootSpan(ag, turn).start)),
           tools |-> [t \in ToolsOf(m) |->
                        [start |-> Or(m.ts, Or(Or(prev, m.ts), RootSpan(ag, turn).start)),
                         end |-> Or(Or(ResultTs(turn, t), m.ts),
                                    Or(m.ts, Or(Or(prev, m.ts), RootSpan(ag, turn).start)))]]]
    BY <1>1, <1>3, <1>8, <1>9 DEF GenerationSpan
  <2>2. QED
    BY <1>11, <1>12, <2>1, Zenon
<1>14. \A t \in ToolsOf(m) : Or(Or(ResultTs(turn, t), m.ts), m.ts) = IF ResultTs(turn, t) # 0 THEN ResultTs(turn, t) ELSE m.ts
  BY DEF Or
<1>15. PICK s : s = GenerationSpan(ag, turn, k)
  OBVIOUS
<1>16. s.start = prev /\ s.end = end /\ s.tools = tools
  BY <1>13, <1>15
<1>17. DOMAIN tools = ToolsOf(m)
       /\ \A t \in ToolsOf(m) : tools[t].start = m.ts
                                /\ tools[t].end = IF ResultTs(turn, t) # 0 THEN ResultTs(turn, t) ELSE m.ts
  BY <1>12, <1>14
<1>18. QED
  BY <1>1, <1>2, <1>4, <1>15, <1>16, <1>17

\* The spans of one turn.
SpanInside(a, b) == b.start <= a.start /\ a.start <= a.end /\ a.end <= b.end
TurnNests(s) ==
    \A k \in DOMAIN s.gens :
        /\ SpanInside(s.gens[k], s.root)
        /\ k > 1 => s.gens[k - 1].end <= s.gens[k].start
        /\ \A t \in DOMAIN s.gens[k].tools : SpanInside(s.gens[k].tools[t], s.gens[k])

LEMMA SpansOfTurnNest ==
    ASSUME NEW turn \in AnyTurn, NEW n \in Nat, TurnTimed(turn, n), NEW ag, Ordered(ag, turn)
    PROVE  TurnNests(TurnSpans(ag, turn))
<1>1. PICK s : s = TurnSpans(ag, turn)
  OBVIOUS
<1>2. /\ s.root = RootSpan(ag, turn) /\ DOMAIN s.gens = DOMAIN turn.msgs
      /\ \A k \in DOMAIN turn.msgs : s.gens[k] = GenerationSpan(ag, turn, k)
  BY <1>1 DEF TurnSpans
<1>3. PICK root : root = RootSpan(ag, turn)
  OBVIOUS
<1>4. root.start = turn.user.ts /\ root.end \in Nat /\ \A k \in DOMAIN turn.msgs : EndOf(ag, turn, k) <= root.end
  BY <1>3, RootIs
<1>5. ASSUME NEW k \in DOMAIN turn.msgs
      PROVE  /\ SpanInside(s.gens[k], s.root)
             /\ k > 1 => s.gens[k - 1].end <= s.gens[k].start
             /\ \A t \in DOMAIN s.gens[k].tools : SpanInside(s.gens[k].tools[t], s.gens[k])
  <2>1. PICK m, g : m = turn.msgs[k] /\ g = s.gens[k]
    OBVIOUS
  <2>2. PICK start, end : start = StartOf(ag, turn, k) /\ end = EndOf(ag, turn, k)
    OBVIOUS
  <2>3. /\ g.start = start /\ g.end = end /\ DOMAIN g.tools = ToolsOf(m)
        /\ \A t \in ToolsOf(m) : g.tools[t].start = m.ts
                                 /\ g.tools[t].end = IF ResultTs(turn, t) # 0 THEN ResultTs(turn, t) ELSE m.ts
    BY <1>2, <2>1, <2>2, SpanIs
  <2>4. end \in Nat /\ m.ts <= end /\ (\A t \in ToolsOf(m) : ResultTs(turn, t) <= end) /\ end <= root.end
    BY <1>4, <2>1, <2>2, EndFacts
  <2>5. m.ts \in Nat /\ turn.user.ts < m.ts /\ turn.user.ts \in Nat
    BY <2>1, TurnFacts
  <2>6. start \in Nat /\ turn.user.ts <= start /\ start <= m.ts /\ (k > 1 => s.gens[k - 1].end = start)
    <3>1. CASE k = 1
      <4>1. start = turn.user.ts
        BY <2>2, <3>1 DEF StartOf
      <4>2. QED
        BY <2>5, <3>1, <4>1
    <3>2. CASE k # 1
      <4>1. k - 1 \in DOMAIN turn.msgs /\ k > 1 /\ k - 1 < Len(turn.msgs) /\ k - 1 + 1 = k
        BY <3>2, TurnFacts
      <4>2. PICK o : o = turn.msgs[k - 1]
        OBVIOUS
      <4>3. start = EndOf(ag, turn, k - 1)
        BY <2>2, <3>2 DEF StartOf
      <4>4. s.gens[k - 1].end = start
        BY <1>2, <4>1, <4>3, SpanIs
      <4>5. /\ start \in Nat /\ o.ts <= start
            /\ \/ start = LastTs(ag, o)
               \/ \E t \in ToolsOf(o) : ResultTs(turn, t) # 0 /\ start = ResultTs(turn, t)
        BY <4>1, <4>2, <4>3, EndFacts
      <4>6. o.ts \in Nat /\ turn.user.ts < o.ts
        BY <4>1, <4>2, TurnFacts
      <4>7. /\ LastTs(ag, o) < m.ts
            /\ \A t \in ToolsOf(o) : ResultTs(turn, t) # 0 => ResultTs(turn, t) < m.ts
        BY <2>1, <4>1, <4>2 DEF Ordered
      <4>8. start < m.ts
        BY <4>5, <4>7
      <4>9. QED
        BY <2>5, <4>4, <4>5, <4>6, <4>8
    <3>3. QED
      BY <3>1, <3>2
  <2>7. SpanInside(g, root)
    BY <1>4, <2>3, <2>4, <2>5, <2>6 DEF SpanInside
  <2>8. ASSUME NEW t \in ToolsOf(m) PROVE SpanInside(g.tools[t], g)
    <3>1. PICK w, x : w = g.tools[t] /\ x = ResultTs(turn, t)
      OBVIOUS
    <3>2. w.start = m.ts /\ w.end = IF x # 0 THEN x ELSE m.ts
      BY <2>3, <2>8, <3>1
    <3>3. x \in Nat /\ x <= end /\ (x # 0 => m.ts < x)
      BY <2>1, <2>4, <2>8, <3>1, TurnFacts DEF Ordered
    <3>4. SpanInside(w, g)
      BY <2>3, <2>4, <2>5, <2>6, <3>2, <3>3 DEF SpanInside
    <3>5. QED
      BY <3>1, <3>4
  <2>9. k > 1 => s.gens[k - 1].end <= g.start
    BY <2>3, <2>6
  <2>10. \A t \in DOMAIN g.tools : SpanInside(g.tools[t], g)
    BY <2>3, <2>8, Zenon
  <2>11. QED
    BY <1>2, <1>3, <2>1, <2>7, <2>9, <2>10, Zenon
<1>6. TurnNests(s)
  BY <1>2, <1>5, Zenon DEF TurnNests
<1>7. QED
  BY <1>1, <1>6

LEMMA SpansOfTurnsNest ==
    ASSUME TranscriptTyped
    PROVE  SpansNest
<1>1. ASSUME NEW ag \in Agents, NEW turn \in ToSet(BuildTurns(ag, transcript)), InOrder(ag, turn)
      PROVE  TurnNests(Otlp(ag, turn))
  <2>1. transcript \in Seq(AnyRow) /\ \A i \in DOMAIN transcript : transcript[i].ts = i
    <3>1. \A r \in ToSet(transcript) : r.ts # 0
      BY <1>1, Zenon DEF InOrder
    <3>2. \A i \in DOMAIN transcript : transcript[i].ts # 0
      BY <3>1 DEF ToSet
    <3>3. QED
      BY <3>2 DEF TranscriptTyped
  <2>2. Ordered(ag, turn)
    BY <1>1 DEF InOrder, Ordered
  <2>3. PICK merges : \A rs : BuildTurns(ag, rs) = FlushTurn(Built(rs, merges))
    BY BuildTurnsIs
  <2>4. PICK st : st = Built(transcript, merges)
    OBVIOUS
  <2>5. PassTyped(st) /\ Timed(st, Len(transcript)) /\ Len(transcript) \in Nat
    BY <2>1, <2>4, PassTypedBuilt, BuiltTimed
  <2>6. FlushTurn(st) \in Seq(AnyTurn) /\ \A j \in DOMAIN FlushTurn(st) : TurnTimed(FlushTurn(st)[j], Len(transcript))
    BY <2>5, FlushAny, FlushTimed
  <2>7. \E j \in DOMAIN FlushTurn(st) : turn = FlushTurn(st)[j]
    BY <1>1, <2>3, <2>4 DEF ToSet
  <2>8. turn \in AnyTurn /\ TurnTimed(turn, Len(transcript))
    BY <2>6, <2>7
  <2>9. TurnNests(TurnSpans(ag, turn))
    BY <2>2, <2>5, <2>8, SpansOfTurnNest
  <2>10. Otlp(ag, turn) = TurnSpans(ag, turn)
    BY DEF Otlp, ClaudeOtlp, QoderOtlp, QoderWorkOtlp, Agents
  <2>11. QED
    BY <2>9, <2>10
<1>2. QED
  BY <1>1, Zenon DEF SpansNest, TurnNests, SpanInside

\* When the rows of a turn come in order, no span of it ends before it starts, generations follow each
\* other and lie in the root, and tools lie in their generation (build_otlp_json of the three hooks).
THEOREM SpansAlwaysNest == TurnsSpec => []SpansNest
<1>1. TranscriptTyped => SpansNest
  BY SpansOfTurnsNest
<1>2. QED
  BY <1>1, TranscriptTypedAlways, PTL

-----------------------------------------------------------------------------
(* Turns by definition.  T is a transcript, rows are named by their places *)
(* in it, and n of them have been passed.                                  *)

\* The rows of a kind that follow the prompt p.
Follow(T, n, p, kind) ==
    {i \in 1..n : p < i /\ T[i].kind = kind /\ \A x \in 1..n : p < x /\ x < i => T[x].kind # "user"}
Ans(T, n, p) == Follow(T, n, p, "assistant")
Res(T, n, p) == {i \in Follow(T, n, p, "result") : T[i].tool # NoTool}

\* A row that does not separate rows without message id.
Joins(r) == r.kind = "system" \/ (r.kind = "assistant" /\ r.id = NoId)

\* Two answers are of one message.
Same(T, i, j, merges) ==
    \/ i = j
    \/ T[i].id = T[j].id /\ T[i].id # NoId
    \/ /\ merges /\ T[i].id = NoId /\ T[j].id = NoId
       /\ \A x \in 1..Len(T) : (i < x /\ x < j) \/ (j < x /\ x < i) => Joins(T[x])

\* bs lists the rows in K by place.
ListsRows(bs, T, K) ==
    /\ bs \in Seq(AnyRow)
    /\ \A x \in DOMAIN bs : bs[x].n \in K /\ bs[x] = T[bs[x].n]
    /\ \A i \in K : \E x \in DOMAIN bs : bs[x].n = i
    /\ \A x, y \in DOMAIN bs : x < y => bs[x].n < bs[y].n

\* m is what is kept of the rows in S.
MsgIs(m, T, S, merges) ==
    /\ S # {}
    /\ ~ merges => \E i \in S : (\A j \in S : j <= i) /\ m.blocks = <<T[i]>>
    /\ merges => \E f \in S : /\ \A j \in S : f <= j
                              /\ m.bare = T[f].bare
                              /\ IF m.bare THEN m.blocks = <<T[f]>> ELSE ListsRows(m.blocks, T, S)

\* ms are the messages of the answers in A; own says of an answer which one has it.
Owned(own, A, k) == {i \in A : own[i] = k}
Core(own, ms, T, A, merges) ==
    /\ own \in [A -> DOMAIN ms]
    /\ \A i, j \in A : own[i] = own[j] <=> Same(T, i, j, merges)
    /\ \A k \in DOMAIN ms : MsgIs(ms[k], T, Owned(own, A, k), merges)
    /\ \A j, k \in DOMAIN ms : j < k => \E a \in Owned(own, A, j) : \A b \in Owned(own, A, k) : a < b

\* r is the row of T behind the answers in A.
IsNext(T, n, r, A) ==
    /\ A \subseteq Nat /\ n \in Nat /\ \A i \in A : i < n
    /\ r \in AnyRow /\ T[n] = r /\ r.n = n
\* The row at n is of no message yet, or of the message k.
Apart(T, n, A, merges) == \A i \in A : ~ Same(T, i, n, merges) /\ ~ Same(T, n, i, merges)
AsOne(T, n, A, own, k, merges) ==
    \A i \in A : (Same(T, i, n, merges) <=> own[i] = k) /\ (Same(T, n, i, merges) <=> own[i] = k)

LEMMA FollowKept ==
    ASSUME NEW T, NEW n \in Nat, NEW p \in Nat, NEW kind, kind # "user",
           T[n + 1].kind # kind \/ \E x \in 1..n : p < x /\ T[x].kind = "user"
    PROVE  Follow(T, n + 1, p, kind) = Follow(T, n, p, kind)
<1>1. ASSUME NEW i \in Follow(T, n + 1, p, kind) PROVE i \in Follow(T, n, p, kind)
  <2>1. i \in 1..(n + 1) /\ p < i /\ T[i].kind = kind /\ \A x \in 1..(n + 1) : p < x /\ x < i => T[x].kind # "user"
    BY <1>1 DEF Follow
  <2>2. i # n + 1
    <3>1. ASSUME i = n + 1 PROVE \A x \in 1..n : ~ (p < x /\ T[x].kind = "user")
      BY <2>1, <3>1
    <3>2. QED
      BY <2>1, <3>1
  <2>3. i \in 1..n /\ \A x \in 1..n : x \in 1..(n + 1)
    BY <2>1, <2>2
  <2>4. QED
    BY <2>1, <2>3 DEF Follow
<1>2. ASSUME NEW i \in Follow(T, n, p, kind) PROVE i \in Follow(T, n + 1, p, kind)
  <2>1. i \in 1..n /\ p < i /\ T[i].kind = kind /\ \A x \in 1..n : p < x /\ x < i => T[x].kind # "user"
    BY <1>2 DEF Follow
  <2>2. i \in 1..(n + 1) /\ \A x \in 1..(n + 1) : x < i => x \in 1..n
    BY <2>1
  <2>3. QED
    BY <2>1, <2>2 DEF Follow
<1>3. QED
  BY <1>1, <1>2

IsMore(T, n, m, p, kind) ==
    /\ n \in Nat /\ m = n + 1 /\ p \in Nat /\ p <= n /\ T[m].kind = kind
    /\ \A x \in 1..n : p < x => T[x].kind # "user"
LEMMA FollowMore ==
    ASSUME NEW T, NEW n, NEW m, NEW p, NEW kind, IsMore(T, n, m, p, kind)
    PROVE  Follow(T, m, p, kind) = Follow(T, n, p, kind) \cup {m}
<1>0. n \in Nat /\ m = n + 1 /\ p \in Nat /\ p <= n /\ T[m].kind = kind /\ \A x \in 1..n : p < x => T[x].kind # "user"
  BY DEF IsMore
<1>1. ASSUME NEW i \in Follow(T, m, p, kind), i # m PROVE i \in Follow(T, n, p, kind)
  <2>1. i \in 1..m /\ p < i /\ T[i].kind = kind /\ \A x \in 1..m : p < x /\ x < i => T[x].kind # "user"
    BY <1>0, <1>1 DEF Follow
  <2>2. i \in 1..n /\ \A x \in 1..n : x \in 1..m
    BY <1>0, <1>1, <2>1
  <2>3. QED
    BY <1>0, <2>1, <2>2 DEF Follow
<1>2. ASSUME NEW i \in Follow(T, n, p, kind) PROVE i \in Follow(T, m, p, kind)
  <2>1. i \in 1..n /\ p < i /\ T[i].kind = kind /\ \A x \in 1..n : p < x /\ x < i => T[x].kind # "user"
    BY <1>0, <1>2 DEF Follow
  <2>2. i \in 1..m /\ \A x \in 1..m : x < i => x \in 1..n
    BY <1>0, <2>1
  <2>3. QED
    BY <1>0, <2>1, <2>2 DEF Follow
<1>3. m \in Follow(T, m, p, kind)
  <2>1. m \in 1..m /\ p < m /\ \A x \in 1..m : x < m => x \in 1..n
    BY <1>0
  <2>2. QED
    BY <1>0, <2>1 DEF Follow
<1>4. QED
  BY <1>1, <1>2, <1>3

LEMMA MessageTyped == \A r \in AnyRow : Message(r) \in AnyMsg
<1>1. SUFFICES ASSUME NEW r \in AnyRow PROVE Message(r) \in AnyMsg
  OBVIOUS
<1>2. <<r>> \in Seq(AnyRow) /\ r.bare \in BOOLEAN /\ r.ts \in Nat
  BY DEF AnyRow
<1>3. QED
  BY <1>2 DEF Message, AnyMsg

LEMMA MsgBegins ==
    ASSUME NEW T, NEW n, NEW r \in AnyRow, T[n] = r, r.n = n, NEW merges
    PROVE  MsgIs(Message(r), T, {n}, merges)
<1>1. PICK m : m = Message(r)
  OBVIOUS
<1>2. m.blocks = <<r>> /\ m.bare = r.bare
  BY <1>1 DEF Message
<1>3. n \in Nat
  BY DEF AnyRow
<1>4. ListsRows(<<r>>, T, {n})
  BY DEF ListsRows
<1>5. \A j \in {n} : j <= n /\ n <= j
  BY <1>3
<1>6. MsgIs(m, T, {n}, merges)
  BY <1>2, <1>4, <1>5 DEF MsgIs
<1>7. QED
  BY <1>1, <1>6

LEMMA ListsMore ==
    ASSUME NEW T, NEW n \in Nat, NEW r \in AnyRow, T[n] = r, r.n = n, NEW K, \A i \in K : i < n,
           NEW bs, ListsRows(bs, T, K)
    PROVE  ListsRows(Append(bs, r), T, K \cup {n})
<1>1. PICK cs : cs = Append(bs, r)
  OBVIOUS
<1>2. bs \in Seq(AnyRow) /\ DOMAIN bs = 1..Len(bs) /\ Len(bs) \in Nat
  BY DEF ListsRows
<1>3. PICK len : len = Len(bs)
  OBVIOUS
<1>4. cs \in Seq(AnyRow) /\ DOMAIN cs = 1..(len + 1) /\ cs[len + 1] = r /\ \A x \in 1..len : cs[x] = bs[x]
  BY <1>1, <1>2, <1>3
<1>5. ASSUME NEW x \in 1..(len + 1) PROVE x \in 1..len \/ x = len + 1
  BY <1>2, <1>3
<1>6. ASSUME NEW x \in 1..(len + 1) PROVE cs[x].n \in K \cup {n} /\ cs[x] = T[cs[x].n]
  BY <1>2, <1>3, <1>4, <1>5 DEF ListsRows
<1>7. ASSUME NEW i \in K \cup {n} PROVE \E x \in 1..(len + 1) : cs[x].n = i
  <2>1. CASE i = n
    <3>1. len + 1 \in 1..(len + 1)
      BY <1>2, <1>3
    <3>2. QED
      BY <1>4, <2>1, <3>1
  <2>2. CASE i # n
    <3>1. PICK x \in 1..len : bs[x].n = i
      BY <1>2, <1>3, <1>7, <2>2 DEF ListsRows
    <3>2. x \in 1..(len + 1)
      BY <1>2, <1>3
    <3>3. QED
      BY <1>4, <3>1, <3>2
  <2>3. QED
    BY <2>1, <2>2
<1>8. ASSUME NEW x \in 1..(len + 1), NEW y \in 1..(len + 1), x < y PROVE cs[x].n < cs[y].n
  <2>1. x \in 1..len
    BY <1>2, <1>3, <1>8
  <2>2. CASE y = len + 1
    <3>1. cs[x].n \in K
      BY <1>2, <1>3, <1>4, <2>1 DEF ListsRows
    <3>2. QED
      BY <1>4, <2>2, <3>1
  <2>3. CASE y \in 1..len
    BY <1>2, <1>3, <1>4, <1>8, <2>1, <2>3 DEF ListsRows
  <2>4. QED
    BY <1>5, <1>8, <2>2, <2>3
<1>9. ListsRows(cs, T, K \cup {n})
  BY <1>4, <1>6, <1>7, <1>8 DEF ListsRows
<1>10. QED
  BY <1>1, <1>9

LEMMA MsgReplaced ==
    ASSUME NEW T, NEW n \in Nat, NEW r, T[n] = r, NEW S, \A i \in S : i <= n, NEW merges, ~ merges
    PROVE  MsgIs(Message(r), T, S \cup {n}, merges)
<1>1. Message(r).blocks = <<r>>
  BY DEF Message
<1>2. n \in S \cup {n} /\ \A j \in S \cup {n} : j <= n
  OBVIOUS
<1>3. QED
  BY <1>1, <1>2 DEF MsgIs

LEMMA MsgJoins ==
    ASSUME NEW T, NEW n \in Nat, NEW r \in AnyRow, T[n] = r, r.n = n, NEW S, S \subseteq Nat, \A i \in S : i < n,
           NEW m \in AnyMsg, NEW merges, merges, MsgIs(m, T, S, merges)
    PROVE  MsgIs(MergeAssistantContent(m, r), T, S \cup {n}, merges)
<1>1. PICK bs : bs = IF m.bare THEN m.blocks ELSE Append(m.blocks, r)
  OBVIOUS
<1>2. PICK w : w = [m EXCEPT !.blocks = bs, !.end = Or(r.ts, m.end)]
  OBVIOUS
<1>3. w = MergeAssistantContent(m, r)
  BY <1>1, <1>2 DEF MergeAssistantContent, AnyMsg
<1>4. w.blocks = bs /\ w.bare = m.bare
  BY <1>2 DEF AnyMsg
<1>5. PICK f \in S : /\ \A j \in S : f <= j
                     /\ m.bare = T[f].bare
                     /\ IF m.bare THEN m.blocks = <<T[f]>> ELSE ListsRows(m.blocks, T, S)
  BY DEF MsgIs
<1>6. f \in S \cup {n} /\ \A j \in S \cup {n} : f <= j
  BY <1>5
<1>7. IF w.bare THEN w.blocks = <<T[f]>> ELSE ListsRows(w.blocks, T, S \cup {n})
  <2>1. CASE m.bare
    BY <1>1, <1>4, <1>5, <2>1
  <2>2. CASE ~ m.bare
    <3>1. ListsRows(m.blocks, T, S)
      BY <1>5, <2>2
    <3>2. ListsRows(Append(m.blocks, r), T, S \cup {n})
      BY <3>1, ListsMore
    <3>3. QED
      BY <1>1, <1>4, <2>2, <3>2
  <2>3. QED
    BY <2>1, <2>2
<1>8. MsgIs(w, T, S \cup {n}, merges)
  BY <1>4, <1>5, <1>6, <1>7 DEF MsgIs
<1>9. QED
  BY <1>3, <1>8

\* An answer that begins a message.
LEMMA CoreNew ==
    ASSUME NEW T, NEW A, NEW n, NEW r, IsNext(T, n, r, A), NEW merges,
           NEW ms \in Seq(AnyMsg), NEW own, Core(own, ms, T, A, merges), NEW m \in AnyMsg, MsgIs(m, T, {n}, merges),
           Apart(T, n, A, merges),
           NEW len \in Nat, len = Len(ms), NEW own2, own2 = With(own, n, len + 1),
           NEW ns \in Seq(AnyMsg), Len(ns) = len + 1, ns[len + 1] = m, \A k \in 1..len : ns[k] = ms[k]
    PROVE  Core(own2, ns, T, A \cup {n}, merges)
<1>0. A \subseteq Nat /\ n \in Nat /\ n \notin A /\ \A i \in A : i < n
  BY DEF IsNext
<1>1. len = Len(ms)
  OBVIOUS
<1>2. len \in Nat /\ DOMAIN ms = 1..len
  OBVIOUS
<1>4. ns \in Seq(AnyMsg) /\ DOMAIN ns = 1..(len + 1) /\ ns[len + 1] = m /\ \A k \in 1..len : ns[k] = ms[k]
  OBVIOUS
<1>5. PICK B : B = A \cup {n}
  OBVIOUS
<1>6. own \in [A -> 1..len] /\ n \notin A
  BY <1>0, <1>2 DEF Core
<1>7. own2[n] = len + 1 /\ (\A i \in A : own2[i] = own[i] /\ own[i] \in 1..len) /\ DOMAIN own2 = B
  BY <1>1, <1>5, <1>6 DEF With
<1>8. own2 \in [B -> 1..(len + 1)]
  <2>1. own2 = [i \in B |-> IF i = n THEN len + 1 ELSE own[i]]
    BY <1>1, <1>5, <1>6 DEF With
  <2>2. \A i \in B : (IF i = n THEN len + 1 ELSE own[i]) \in 1..(len + 1)
    BY <1>1, <1>2, <1>5, <1>6
  <2>3. QED
    BY <2>1, <2>2
<1>9. Owned(own2, B, len + 1) = {n} /\ \A k \in 1..len : Owned(own2, B, k) = Owned(own, A, k)
  <2>1. \A i \in A : own2[i] # len + 1
    BY <1>2, <1>7
  <2>2. \A k \in 1..len : own2[n] # k
    BY <1>2, <1>7
  <2>3. QED
    BY <1>5, <1>7, <2>1, <2>2 DEF Owned
<1>10. ASSUME NEW i \in B, NEW j \in B PROVE own2[i] = own2[j] <=> Same(T, i, j, merges)
  <2>1. CASE i \in A /\ j \in A
    BY <1>7, <2>1 DEF Core
  <2>2. CASE i = n /\ j = n
    BY <2>2 DEF Same
  <2>0. \A x \in A : own2[x] # own2[n]
    BY <1>2, <1>7
  <2>3. CASE i \in A /\ j = n
    BY <2>0, <2>3 DEF Apart
  <2>4. CASE i = n /\ j \in A
    BY <2>0, <2>4 DEF Apart
  <2>5. QED
    BY <1>5, <2>1, <2>2, <2>3, <2>4
<1>11. ASSUME NEW k \in 1..(len + 1) PROVE MsgIs(ns[k], T, Owned(own2, B, k), merges)
  <2>1. CASE k = len + 1
    BY <1>4, <1>9, <2>1
  <2>2. CASE k # len + 1
    <3>1. k \in 1..len
      BY <1>2, <2>2
    <3>2. QED
      BY <1>2, <1>4, <1>9, <3>1 DEF Core
  <2>3. QED
    BY <2>1, <2>2
<1>12. ASSUME NEW j \in 1..(len + 1), NEW k \in 1..(len + 1), j < k
       PROVE  \E a \in Owned(own2, B, j) : \A b \in Owned(own2, B, k) : a < b
  <2>1. j \in 1..len
    BY <1>2, <1>12
  <2>2. CASE k = len + 1
    <3>1. MsgIs(ms[j], T, Owned(own, A, j), merges)
      BY <1>2, <2>1 DEF Core
    <3>2. PICK a \in Owned(own, A, j) : TRUE
      BY <3>1 DEF MsgIs
    <3>3. a < n
      BY <1>0, <3>2 DEF Owned
    <3>4. QED
      BY <1>9, <2>1, <2>2, <3>2, <3>3
  <2>3. CASE k # len + 1
    <3>1. k \in 1..len
      BY <1>2, <2>3
    <3>2. QED
      BY <1>2, <1>9, <1>12, <2>1, <3>1 DEF Core
  <2>4. QED
    BY <2>2, <2>3
<1>13. Core(own2, ns, T, B, merges)
  BY <1>4, <1>8, <1>10, <1>11, <1>12 DEF Core
<1>14. QED
  BY <1>5, <1>13

\* An answer that joins the message k.
LEMMA CoreJoin ==
    ASSUME NEW T, NEW A, NEW n, NEW r, IsNext(T, n, r, A), NEW merges,
           NEW ms \in Seq(AnyMsg), NEW own, Core(own, ms, T, A, merges), NEW k \in DOMAIN ms, NEW m \in AnyMsg,
           MsgIs(m, T, Owned(own, A, k) \cup {n}, merges),
           AsOne(T, n, A, own, k, merges),
           NEW own2, own2 = With(own, n, k)
    PROVE  Core(own2, [ms EXCEPT ![k] = m], T, A \cup {n}, merges)
<1>1. PICK ns : ns = [ms EXCEPT ![k] = m]
  OBVIOUS
<1>2. DOMAIN ns = DOMAIN ms /\ ns[k] = m /\ \A j \in DOMAIN ms : j # k => ns[j] = ms[j]
  BY <1>1
<1>3. PICK B : B = A \cup {n}
  OBVIOUS
<1>0. A \subseteq Nat /\ n \in Nat /\ n \notin A /\ \A i \in A : i < n
  BY DEF IsNext
<1>4. own \in [A -> DOMAIN ms] /\ n \notin A
  BY <1>0 DEF Core
<1>5. own2[n] = k /\ (\A i \in A : own2[i] = own[i] /\ own[i] \in DOMAIN ms) /\ DOMAIN own2 = B
  BY <1>3, <1>4 DEF With
<1>6. own2 \in [B -> DOMAIN ms]
  <2>1. own2 = [i \in B |-> IF i = n THEN k ELSE own[i]]
    BY <1>3, <1>4 DEF With
  <2>2. \A i \in B : (IF i = n THEN k ELSE own[i]) \in DOMAIN ms
    BY <1>3, <1>4
  <2>3. QED
    BY <2>1, <2>2
<1>7. Owned(own2, B, k) = Owned(own, A, k) \cup {n} /\ \A j \in DOMAIN ms : j # k => Owned(own2, B, j) = Owned(own, A, j)
  BY <1>3, <1>5 DEF Owned
<1>8. ASSUME NEW i \in B, NEW j \in B PROVE own2[i] = own2[j] <=> Same(T, i, j, merges)
  <2>1. CASE i \in A /\ j \in A
    BY <1>5, <2>1 DEF Core
  <2>2. CASE i = n /\ j = n
    BY <2>2 DEF Same
  <2>3. CASE i \in A /\ j = n
    BY <1>5, <2>3 DEF AsOne
  <2>4. CASE i = n /\ j \in A
    BY <1>5, <2>4 DEF AsOne
  <2>5. QED
    BY <1>3, <2>1, <2>2, <2>3, <2>4
<1>9. ASSUME NEW j \in DOMAIN ms PROVE MsgIs(ns[j], T, Owned(own2, B, j), merges)
  <2>1. CASE j = k
    BY <1>2, <1>7, <2>1
  <2>2. CASE j # k
    BY <1>2, <1>7, <1>9, <2>2 DEF Core
  <2>3. QED
    BY <2>1, <2>2
<1>10. ASSUME NEW j \in DOMAIN ms, NEW l \in DOMAIN ms, j < l
       PROVE  \E a \in Owned(own2, B, j) : \A b \in Owned(own2, B, l) : a < b
  <2>1. PICK a \in Owned(own, A, j) : \A b \in Owned(own, A, l) : a < b
    BY <1>10 DEF Core
  <2>2. a < n
    BY <1>0, <2>1 DEF Owned
  <2>3. a \in Owned(own2, B, j)
    BY <1>7, <2>1
  <2>4. \A b \in Owned(own2, B, l) : b \in Owned(own, A, l) \/ b = n
    BY <1>7
  <2>5. QED
    BY <2>1, <2>2, <2>3, <2>4
<1>11. PICK dom : dom = DOMAIN ms
  OBVIOUS
<1>12. own2 \in [B -> dom] /\ DOMAIN ns = dom /\ (\A j \in dom : MsgIs(ns[j], T, Owned(own2, B, j), merges))
       /\ \A j, l \in dom : j < l => \E a \in Owned(own2, B, j) : \A b \in Owned(own2, B, l) : a < b
  BY <1>2, <1>6, <1>9, <1>10, <1>11
<1>13. Core(own2, ns, T, B, merges)
  BY <1>8, <1>12 DEF Core
<1>14. QED
  BY <1>1, <1>3, <1>13

\* The messages of the open turn: keys by place, messages by key.
MsgsOf(order, msgs) == [k \in DOMAIN order |-> msgs[order[k]]]
KeyFor(mid, T, i) == mid \in AnyId /\ mid[1] = T[i].id /\ (T[i].id # NoId => mid[2] = 0)
Open(own, order, msgs, T, A, merges) ==
    /\ order \in Seq(AnyId) /\ msgs \in AnyMsgs
    /\ \A j, k \in DOMAIN order : order[j] = order[k] => j = k
    /\ \A k \in DOMAIN order : order[k] \in DOMAIN msgs
    /\ \A mid \in DOMAIN msgs : \E k \in DOMAIN order : order[k] = mid
    /\ Core(own, MsgsOf(order, msgs), T, A, merges)
    /\ \A i \in A : KeyFor(order[own[i]], T, i)

Grown(own2, own, A, n, k) == own2[n] = k /\ \A i \in A : own2[i] = own[i]

LEMMA MsgsTyped ==
    ASSUME NEW order \in Seq(AnyId), NEW msgs \in AnyMsgs, \A k \in DOMAIN order : order[k] \in DOMAIN msgs
    PROVE  MsgsOf(order, msgs) \in Seq(AnyMsg) /\ Len(MsgsOf(order, msgs)) = Len(order)
           /\ \A k \in DOMAIN order : MsgsOf(order, msgs)[k] = msgs[order[k]]
<1>1. DOMAIN order = 1..Len(order) /\ Len(order) \in Nat
  OBVIOUS
<1>2. \A k \in 1..Len(order) : msgs[order[k]] \in AnyMsg
  BY <1>1, AnyMsgsFacts
<1>3. QED
  BY <1>1, <1>2 DEF MsgsOf

LEMMA MsgsMore ==
    ASSUME NEW order \in Seq(AnyId), NEW msgs \in AnyMsgs, \A k \in DOMAIN order : order[k] \in DOMAIN msgs,
           NEW mid \in AnyId, mid \notin DOMAIN msgs, NEW m \in AnyMsg
    PROVE  MsgsOf(Append(order, mid), With(msgs, mid, m)) = Append(MsgsOf(order, msgs), m)
<1>1. PICK o2 : o2 = Append(order, mid)
  OBVIOUS
<1>2. PICK w : w = With(msgs, mid, m)
  OBVIOUS
<1>3. PICK ms : ms = MsgsOf(order, msgs)
  OBVIOUS
<1>4. PICK len : len = Len(order)
  OBVIOUS
<1>5. len \in Nat /\ DOMAIN order = 1..len
  BY <1>4
<1>6. o2 \in Seq(AnyId) /\ Len(o2) = len + 1 /\ DOMAIN o2 = 1..(len + 1)
      /\ o2[len + 1] = mid /\ \A k \in 1..len : o2[k] = order[k]
  BY <1>1, <1>4, <1>5
<1>7. ms \in Seq(AnyMsg) /\ Len(ms) = len /\ \A k \in 1..len : ms[k] = msgs[order[k]]
  BY <1>3, <1>4, <1>5, MsgsTyped
<1>8. /\ w \in AnyMsgs /\ DOMAIN w = DOMAIN msgs \cup {mid}
      /\ w[mid] = m
      /\ \A x \in DOMAIN msgs : x # mid => w[x] = msgs[x]
  <2>1. /\ With(msgs, mid, m) \in AnyMsgs /\ DOMAIN With(msgs, mid, m) = DOMAIN msgs \cup {mid}
        /\ With(msgs, mid, m)[mid] = m
        /\ \A x \in DOMAIN msgs : x # mid => With(msgs, mid, m)[x] = msgs[x]
    BY PutAnyMsg, Zenon
  <2>2. QED
    BY <1>2, <2>1, Zenon
<1>9. \A k \in 1..(len + 1) : o2[k] \in DOMAIN w
  BY <1>5, <1>6, <1>8
<1>10. PICK ns : ns = MsgsOf(o2, w)
  OBVIOUS
<1>11. ns \in Seq(AnyMsg) /\ Len(ns) = len + 1 /\ \A k \in 1..(len + 1) : ns[k] = w[o2[k]]
  BY <1>6, <1>8, <1>9, <1>10, MsgsTyped
<1>12. PICK ap : ap = Append(ms, m)
  OBVIOUS
<1>13. ap \in Seq(AnyMsg) /\ Len(ap) = len + 1 /\ ap[len + 1] = m /\ \A k \in 1..len : ap[k] = ms[k]
  BY <1>7, <1>12
<1>14. \A k \in 1..(len + 1) : ns[k] = ap[k]
  <2>1. SUFFICES ASSUME NEW k \in 1..(len + 1) PROVE ns[k] = ap[k]
    OBVIOUS
  <2>2. CASE k = len + 1
    BY <1>6, <1>8, <1>11, <1>13, <2>2
  <2>3. CASE k # len + 1
    <3>1. k \in 1..len
      BY <1>5, <2>3
    <3>2. order[k] \in DOMAIN msgs /\ order[k] # mid
      BY <1>5, <3>1
    <3>3. w[order[k]] = msgs[order[k]]
      BY <1>8, <3>2
    <3>4. QED
      BY <1>6, <1>7, <1>11, <1>13, <3>1, <3>3
  <2>4. QED
    BY <2>2, <2>3
<1>15. ns = ap
  BY <1>5, <1>11, <1>13, <1>14, SeqEqual
<1>16. QED
  BY <1>1, <1>2, <1>3, <1>10, <1>12, <1>15

LEMMA MsgsAt ==
    ASSUME NEW order \in Seq(AnyId), NEW msgs \in AnyMsgs, \A k \in DOMAIN order : order[k] \in DOMAIN msgs,
           \A j, k \in DOMAIN order : order[j] = order[k] => j = k,
           NEW at \in DOMAIN order, NEW m \in AnyMsg
    PROVE  MsgsOf(order, With(msgs, order[at], m)) = [MsgsOf(order, msgs) EXCEPT ![at] = m]
<1>1. PICK w : w = With(msgs, order[at], m)
  OBVIOUS
<1>2. w[order[at]] = m /\ \A x \in DOMAIN msgs : x # order[at] => w[x] = msgs[x]
  <2>1. PICK mid : mid = order[at]
    OBVIOUS
  <2>2. mid \in AnyId
    BY <2>1
  <2>3. w = With(msgs, mid, m)
    BY <1>1, <2>1, Zenon
  <2>4. w[mid] = m /\ \A x \in DOMAIN msgs : x # mid => w[x] = msgs[x]
    BY <2>3 DEF With
  <2>5. QED
    BY <2>1, <2>4
<1>3. \A k \in DOMAIN order : w[order[k]] = (IF k = at THEN m ELSE msgs[order[k]])
  BY <1>2
<1>4. MsgsOf(order, w) = [k \in DOMAIN order |-> IF k = at THEN m ELSE msgs[order[k]]]
  BY <1>3 DEF MsgsOf
<1>5. [MsgsOf(order, msgs) EXCEPT ![at] = m] = [k \in DOMAIN order |-> IF k = at THEN m ELSE msgs[order[k]]]
  BY DEF MsgsOf
<1>6. QED
  BY <1>1, <1>4, <1>5

\* An answer with a new key begins a message.
LEMMA OpenNew ==
    ASSUME NEW T, NEW A, NEW n, NEW r, IsNext(T, n, r, A), NEW merges,
           NEW order, NEW msgs, NEW own, Open(own, order, msgs, T, A, merges),
           NEW mid, KeyFor(mid, T, n), mid \notin DOMAIN msgs,
           NEW m \in AnyMsg, MsgIs(m, T, {n}, merges),
           Apart(T, n, A, merges)
    PROVE  \E own2 : /\ Open(own2, Append(order, mid), With(msgs, mid, m), T, A \cup {n}, merges)
                     /\ Grown(own2, own, A, n, Len(order) + 1)
<1>0. n \in Nat /\ n \notin A /\ mid \in AnyId
  BY DEF IsNext, KeyFor
<1>1. PICK len : len = Len(order)
  OBVIOUS
<1>2. /\ order \in Seq(AnyId) /\ msgs \in AnyMsgs /\ len \in Nat /\ DOMAIN order = 1..len
      /\ \A j, k \in 1..len : order[j] = order[k] => j = k
      /\ \A k \in 1..len : order[k] \in DOMAIN msgs
      /\ \A x \in DOMAIN msgs : \E k \in 1..len : order[k] = x
  <2>1. order \in Seq(AnyId)
    BY DEF Open
  <2>2. len \in Nat /\ DOMAIN order = 1..len
    BY <1>1, <2>1
  <2>3. QED
    BY <2>1, <2>2 DEF Open
<1>3. PICK ms : ms = MsgsOf(order, msgs)
  OBVIOUS
<1>4. ms \in Seq(AnyMsg) /\ Len(ms) = len /\ DOMAIN ms = 1..len
  <2>1. ms \in Seq(AnyMsg) /\ Len(ms) = len
    BY <1>1, <1>2, <1>3, MsgsTyped
  <2>2. QED
    BY <2>1
<1>5. Core(own, ms, T, A, merges) /\ \A i \in A : KeyFor(order[own[i]], T, i)
  BY <1>3 DEF Open
<1>6. PICK own2 : own2 = With(own, n, len + 1)
  OBVIOUS
<1>7. PICK ns : ns = Append(ms, m)
  OBVIOUS
<1>8. Core(own2, ns, T, A \cup {n}, merges)
  <2>1. Core(own, ms, T, A, merges)
    BY <1>5
  <2>2. ms \in Seq(AnyMsg)
    BY <1>2, <1>4
  <2>3. ns \in Seq(AnyMsg) /\ Len(ns) = len + 1 /\ ns[len + 1] = m /\ \A k \in 1..len : ns[k] = ms[k]
    BY <1>4, <1>7
  <2>4. len \in Nat /\ len = Len(ms)
    BY <1>2, <1>4
  <2>5. QED
    BY <1>6, <2>1, <2>2, <2>3, <2>4, CoreNew
<1>9. own \in [A -> 1..len] /\ n \notin A
  BY <1>0, <1>4, <1>5 DEF Core
<1>10. own2[n] = len + 1 /\ \A i \in A : own2[i] = own[i] /\ own[i] \in 1..len
  BY <1>4, <1>6, <1>9 DEF With
<1>11. PICK o2, w : o2 = Append(order, mid) /\ w = With(msgs, mid, m)
  OBVIOUS
<1>12. MsgsOf(o2, w) = ns
  <2>1. MsgsOf(Append(order, mid), With(msgs, mid, m)) = Append(MsgsOf(order, msgs), m)
    <3>1. DOMAIN order = 1..len /\ order \in Seq(AnyId) /\ msgs \in AnyMsgs /\ \A k \in DOMAIN order : order[k] \in DOMAIN msgs
      BY <1>2
    <3>2. QED
      BY <1>0, <3>1, MsgsMore
  <2>2. QED
    BY <1>3, <1>7, <1>11, <2>1, Zenon
<1>13. o2 \in Seq(AnyId) /\ DOMAIN o2 = 1..(len + 1)
      /\ o2[len + 1] = mid /\ \A k \in 1..len : o2[k] = order[k]
  BY <1>0, <1>1, <1>2, <1>11
<1>14. w \in AnyMsgs /\ DOMAIN w = DOMAIN msgs \cup {mid}
  <2>1. w = With(msgs, mid, m) /\ msgs \in AnyMsgs
    BY <1>2, <1>11
  <2>2. QED
    BY <1>0, <2>1, PutAnyMsg
<1>15. \A k \in 1..(len + 1) : k \in 1..len \/ k = len + 1
  BY <1>2
<1>16. len + 1 \in 1..(len + 1) /\ \A k \in 1..len : k \in 1..(len + 1)
  BY <1>2
<1>17. ASSUME NEW j \in 1..(len + 1), NEW k \in 1..(len + 1), o2[j] = o2[k] PROVE j = k
  <2>1. \A x \in 1..len : o2[x] # mid
    BY <1>2, <1>13
  <2>2. CASE j \in 1..len /\ k \in 1..len
    BY <1>2, <1>13, <1>17, <2>2
  <2>3. CASE j = len + 1 \/ k = len + 1
    BY <1>13, <1>15, <1>17, <2>1, <2>3
  <2>4. QED
    BY <1>15, <2>2, <2>3
<1>18. ASSUME NEW k \in 1..(len + 1) PROVE o2[k] \in DOMAIN w
  BY <1>2, <1>13, <1>14, <1>15
<1>19. ASSUME NEW x \in DOMAIN w PROVE \E k \in 1..(len + 1) : o2[k] = x
  <2>1. CASE x = mid
    BY <1>13, <1>16, <2>1
  <2>2. CASE x # mid
    <3>1. PICK k \in 1..len : order[k] = x
      BY <1>2, <1>14, <1>19, <2>2
    <3>2. QED
      BY <1>13, <1>16, <3>1
  <2>3. QED
    BY <2>1, <2>2
<1>20. ASSUME NEW i \in A \cup {n} PROVE KeyFor(o2[own2[i]], T, i)
  <2>1. CASE i = n
    BY <1>10, <1>13, <2>1
  <2>2. CASE i \in A
    <3>1. o2[own2[i]] = order[own[i]]
      BY <1>10, <1>13, <2>2
    <3>2. QED
      BY <1>5, <2>2, <3>1
  <2>3. QED
    BY <2>1, <2>2
<1>21. Core(own2, MsgsOf(o2, w), T, A \cup {n}, merges)
  BY <1>8, <1>12, Zenon
<1>22. Open(own2, o2, w, T, A \cup {n}, merges)
  BY <1>13, <1>14, <1>17, <1>18, <1>19, <1>20, <1>21 DEF Open
<1>23. QED
  BY <1>1, <1>10, <1>11, <1>22 DEF Grown

\* An answer with a known key joins the message of the key.
LEMMA OpenJoin ==
    ASSUME NEW T, NEW A, NEW n, NEW r, IsNext(T, n, r, A), NEW merges,
           NEW order, NEW msgs, NEW own, Open(own, order, msgs, T, A, merges),
           NEW at \in DOMAIN order, KeyFor(order[at], T, n),
           NEW m \in AnyMsg, MsgIs(m, T, Owned(own, A, at) \cup {n}, merges),
           AsOne(T, n, A, own, at, merges)
    PROVE  \E own2 : /\ Open(own2, order, With(msgs, order[at], m), T, A \cup {n}, merges)
                     /\ Grown(own2, own, A, n, at)
<1>1. PICK len : len = Len(order)
  OBVIOUS
<1>2. /\ order \in Seq(AnyId) /\ msgs \in AnyMsgs /\ len \in Nat /\ DOMAIN order = 1..len /\ at \in 1..len
      /\ \A j, k \in 1..len : order[j] = order[k] => j = k
      /\ \A k \in 1..len : order[k] \in DOMAIN msgs
      /\ \A x \in DOMAIN msgs : \E k \in 1..len : order[k] = x
  <2>1. order \in Seq(AnyId)
    BY DEF Open
  <2>2. len \in Nat /\ DOMAIN order = 1..len
    BY <1>1, <2>1
  <2>3. QED
    BY <2>1, <2>2 DEF Open
<1>3. PICK ms : ms = MsgsOf(order, msgs)
  OBVIOUS
<1>4. ms \in Seq(AnyMsg) /\ DOMAIN ms = 1..len
  <2>1. ms \in Seq(AnyMsg) /\ Len(ms) = len
    BY <1>1, <1>2, <1>3, MsgsTyped
  <2>2. QED
    BY <2>1
<1>5. Core(own, ms, T, A, merges) /\ \A i \in A : KeyFor(order[own[i]], T, i)
  BY <1>3 DEF Open
<1>6. PICK own2 : own2 = With(own, n, at)
  OBVIOUS
<1>7. PICK ns : ns = [ms EXCEPT ![at] = m]
  OBVIOUS
<1>8. Core(own2, ns, T, A \cup {n}, merges)
  <2>1. Core(own, ms, T, A, merges)
    BY <1>5
  <2>2. ms \in Seq(AnyMsg) /\ at \in DOMAIN ms
    BY <1>2, <1>4
  <2>3. Core(own2, [ms EXCEPT ![at] = m], T, A \cup {n}, merges)
    BY <1>6, <2>1, <2>2, CoreJoin
  <2>4. QED
    BY <1>7, <2>3, Zenon
<1>9. own2[n] = at /\ \A i \in A : own2[i] = own[i]
  <2>1. own \in [A -> 1..len] /\ n \notin A
    BY <1>4, <1>5 DEF Core, IsNext
  <2>2. QED
    BY <1>6, <2>1 DEF With
<1>10. PICK w, mid : w = With(msgs, order[at], m) /\ mid = order[at]
  OBVIOUS
<1>11. MsgsOf(order, w) = ns
  BY <1>2, <1>3, <1>7, <1>10, MsgsAt
<1>12. mid \in AnyId /\ mid \in DOMAIN msgs
  BY <1>2, <1>10
<1>13. w \in AnyMsgs /\ DOMAIN w = DOMAIN msgs
  <2>1. w = With(msgs, mid, m)
    BY <1>10, Zenon
  <2>2. msgs \in AnyMsgs
    BY <1>2
  <2>3. w \in AnyMsgs /\ DOMAIN w = DOMAIN msgs \cup {mid}
    BY <1>12, <2>1, <2>2, PutAnyMsg
  <2>4. QED
    BY <1>12, <2>3
<1>14. ASSUME NEW i \in A \cup {n} PROVE KeyFor(order[own2[i]], T, i)
  BY <1>5, <1>9
<1>15. Core(own2, MsgsOf(order, w), T, A \cup {n}, merges)
  BY <1>8, <1>11, Zenon
<1>16. Open(own2, order, w, T, A \cup {n}, merges)
  BY <1>2, <1>13, <1>14, <1>15 DEF Open
<1>17. QED
  BY <1>9, <1>10, <1>16 DEF Grown

\* A row with a message id is of one message with the rows of its key.
LEMMA ByKey ==
    ASSUME NEW T, NEW A, NEW n, NEW r, IsNext(T, n, r, A), NEW merges, r.id # NoId,
           NEW order, NEW msgs, NEW own, Open(own, order, msgs, T, A, merges), NEW mid, KeyFor(mid, T, n)
    PROVE  /\ mid \notin DOMAIN msgs => Apart(T, n, A, merges)
           /\ \A k \in DOMAIN order : order[k] = mid => AsOne(T, n, A, own, k, merges)
<1>1. T[n].id = r.id /\ n \notin A /\ mid \in AnyId /\ mid[1] = r.id /\ mid[2] = 0
  BY DEF IsNext, KeyFor
<1>2. ASSUME NEW i \in A PROVE (Same(T, i, n, merges) <=> T[i].id = r.id) /\ (Same(T, n, i, merges) <=> T[i].id = r.id)
  BY <1>1 DEF Same
<1>3. \A j, k \in DOMAIN order : order[j] = order[k] => j = k
  BY DEF Open
<1>4. ASSUME NEW i \in A
      PROVE  own[i] \in DOMAIN order /\ order[own[i]] \in DOMAIN msgs /\ (T[i].id = r.id <=> order[own[i]] = mid)
  <2>1. own[i] \in DOMAIN order /\ KeyFor(order[own[i]], T, i)
    BY DEF Open, Core, MsgsOf
  <2>2. order[own[i]] \in DOMAIN msgs
    BY <2>1 DEF Open
  <2>3. PICK x : x = order[own[i]]
    OBVIOUS
  <2>4. x \in AnyId /\ x[1] = T[i].id /\ (T[i].id # NoId => x[2] = 0)
    BY <2>1, <2>3 DEF KeyFor
  <2>5. T[i].id = r.id <=> x = mid
    BY <1>1, <2>4 DEF AnyId
  <2>6. QED
    BY <2>1, <2>2, <2>3, <2>5
<1>5. QED
  BY <1>2, <1>3, <1>4 DEF Apart, AsOne

LEMMA AnswerNew ==
    ASSUME NEW T, NEW A, NEW n, NEW r, IsNext(T, n, r, A), NEW merges,
           NEW order, NEW msgs, NEW own, Open(own, order, msgs, T, A, merges),
           NEW mid, KeyFor(mid, T, n), mid \notin DOMAIN msgs, r.id = NoId => Apart(T, n, A, merges)
    PROVE  \E own2 : /\ Open(own2, Append(order, mid), With(msgs, mid, Message(r)), T, A \cup {n}, merges)
                     /\ Grown(own2, own, A, n, Len(order) + 1)
<1>1. Apart(T, n, A, merges)
  BY ByKey
<1>2. r \in AnyRow /\ T[n] = r /\ r.n = n
  BY DEF IsNext
<1>3. MsgIs(Message(r), T, {n}, merges)
  BY <1>2, MsgBegins
<1>4. Message(r) \in AnyMsg
  BY <1>2, MessageTyped
<1>5. QED
  BY <1>1, <1>3, <1>4, OpenNew, Zenon

JoinedMessage(m, r, merges) == IF merges THEN MergeAssistantContent(m, r) ELSE Message(r)
LEMMA JoinedTyped ==
    ASSUME NEW m \in AnyMsg, NEW r \in AnyRow, NEW merges
    PROVE  JoinedMessage(m, r, merges) \in AnyMsg
<1>1. Message(r) \in AnyMsg
  BY MessageTyped
<1>2. m.blocks \in Seq(AnyRow) /\ r.ts \in Nat /\ m.end \in Nat
  BY DEF AnyMsg, AnyRow
<1>3. PICK bs, e : bs = (IF m.bare THEN m.blocks ELSE Append(m.blocks, r)) /\ e = Or(r.ts, m.end)
  OBVIOUS
<1>4. bs \in Seq(AnyRow) /\ e \in Nat
  BY <1>2, <1>3 DEF Or
<1>5. MergeAssistantContent(m, r) = [m EXCEPT !.blocks = bs, !.end = e]
  BY <1>3 DEF MergeAssistantContent, AnyMsg
<1>6. [m EXCEPT !.blocks = bs, !.end = e] \in AnyMsg
  BY <1>4 DEF AnyMsg
<1>7. QED
  BY <1>1, <1>5, <1>6 DEF JoinedMessage

LEMMA AnswerJoins ==
    ASSUME NEW T, NEW A, NEW n, NEW r, IsNext(T, n, r, A), NEW merges,
           NEW order, NEW msgs, NEW own, Open(own, order, msgs, T, A, merges),
           NEW at \in DOMAIN order, KeyFor(order[at], T, n), r.id = NoId => AsOne(T, n, A, own, at, merges),
           NEW m, m = JoinedMessage(msgs[order[at]], r, merges)
    PROVE  \E own2 : /\ Open(own2, order, With(msgs, order[at], m), T, A \cup {n}, merges)
                     /\ Grown(own2, own, A, n, at)
<1>1. A \subseteq Nat /\ n \in Nat /\ (\A i \in A : i < n /\ i <= n) /\ r \in AnyRow /\ T[n] = r /\ r.n = n
  BY DEF IsNext
<1>2. order \in Seq(AnyId) /\ msgs \in AnyMsgs /\ (\A k \in DOMAIN order : order[k] \in DOMAIN msgs)
      /\ Core(own, MsgsOf(order, msgs), T, A, merges)
  BY DEF Open
<1>3. AsOne(T, n, A, own, at, merges)
  BY ByKey
<1>4. PICK S : S = Owned(own, A, at)
  OBVIOUS
<1>5. S \subseteq Nat /\ \A i \in S : i < n /\ i <= n
  BY <1>1, <1>4 DEF Owned
<1>6. PICK o : o = msgs[order[at]]
  OBVIOUS
<1>7. MsgsOf(order, msgs)[at] = o /\ at \in DOMAIN MsgsOf(order, msgs)
  BY <1>6 DEF MsgsOf
<1>8. MsgIs(o, T, S, merges)
  BY <1>2, <1>4, <1>7 DEF Core
<1>9. o \in AnyMsg
  BY <1>2, <1>6, AnyMsgsFacts
<1>10. m = JoinedMessage(o, r, merges)
  BY <1>6, Zenon
<1>11. m \in AnyMsg
  BY <1>1, <1>9, <1>10, JoinedTyped
<1>12. MsgIs(m, T, S \cup {n}, merges)
  <2>1. CASE merges
    <3>1. MsgIs(MergeAssistantContent(o, r), T, S \cup {n}, merges)
      BY <1>1, <1>5, <1>8, <1>9, <2>1, MsgJoins
    <3>2. m = MergeAssistantContent(o, r)
      BY <1>10, <2>1 DEF JoinedMessage
    <3>3. QED
      BY <3>1, <3>2
  <2>2. CASE ~ merges
    <3>1. MsgIs(Message(r), T, S \cup {n}, merges)
      BY <1>1, <1>5, <2>2, MsgReplaced
    <3>2. m = Message(r)
      BY <1>10, <2>2 DEF JoinedMessage
    <3>3. QED
      BY <3>1, <3>2
  <2>3. QED
    BY <2>1, <2>2
<1>13. MsgIs(m, T, Owned(own, A, at) \cup {n}, merges)
  BY <1>4, <1>12
<1>14. QED
  BY <1>3, <1>11, <1>13, OpenJoin, Zenon

\* The next answer of the open turn.
OrderWith(order, msgs, mid) == IF mid \in DOMAIN msgs THEN order ELSE Append(order, mid)
MessageFor(msgs, mid, r, merges) == IF mid \in DOMAIN msgs THEN JoinedMessage(msgs[mid], r, merges) ELSE Message(r)

Fits(own, order, msgs, mid, T, n, A, merges) ==
    /\ mid \notin DOMAIN msgs => Apart(T, n, A, merges)
    /\ \A k \in DOMAIN order : order[k] = mid => AsOne(T, n, A, own, k, merges)

AnswerPut(own, order, msgs, mid, T, n, r, A, merges) ==
    \E own2, k : /\ Open(own2, OrderWith(order, msgs, mid), With(msgs, mid, MessageFor(msgs, mid, r, merges)),
                         T, A \cup {n}, merges)
                 /\ Grown(own2, own, A, n, k) /\ OrderWith(order, msgs, mid)[k] = mid

LEMMA AnswerStep ==
    ASSUME NEW T, NEW A, NEW n, NEW r, IsNext(T, n, r, A), NEW merges,
           NEW order, NEW msgs, NEW own, Open(own, order, msgs, T, A, merges), NEW mid, KeyFor(mid, T, n),
           r.id = NoId => Fits(own, order, msgs, mid, T, n, A, merges)
    PROVE  AnswerPut(own, order, msgs, mid, T, n, r, A, merges)
<1>1. order \in Seq(AnyId) /\ msgs \in AnyMsgs /\ (\A x \in DOMAIN msgs : \E k \in DOMAIN order : order[k] = x)
  BY DEF Open
<1>2. PICK o2, m : o2 = OrderWith(order, msgs, mid) /\ m = MessageFor(msgs, mid, r, merges)
  OBVIOUS
<1>3. CASE mid \notin DOMAIN msgs
  <2>1. o2 = Append(order, mid) /\ m = Message(r)
    BY <1>2, <1>3 DEF OrderWith, MessageFor
  <2>2. r.id = NoId => Apart(T, n, A, merges)
    BY <1>3 DEF Fits
  <2>3. PICK own2 : /\ Open(own2, Append(order, mid), With(msgs, mid, Message(r)), T, A \cup {n}, merges)
                    /\ Grown(own2, own, A, n, Len(order) + 1)
    BY <1>3, <2>2, AnswerNew, Zenon
  <2>4. Open(own2, o2, With(msgs, mid, m), T, A \cup {n}, merges) /\ Grown(own2, own, A, n, Len(order) + 1)
    BY <2>1, <2>3, Zenon
  <2>5. o2[Len(order) + 1] = mid
    BY <1>1, <2>1
  <2>6. QED
    BY <1>2, <2>4, <2>5, Zenon DEF AnswerPut
<1>4. CASE mid \in DOMAIN msgs
  <2>1. PICK at \in DOMAIN order : order[at] = mid
    BY <1>1, <1>4
  <2>2. o2 = order /\ m = JoinedMessage(msgs[mid], r, merges)
    BY <1>2, <1>4 DEF OrderWith, MessageFor
  <2>3. m = JoinedMessage(msgs[order[at]], r, merges) /\ KeyFor(order[at], T, n)
    BY <2>1, <2>2, Zenon
  <2>4. r.id = NoId => AsOne(T, n, A, own, at, merges)
    BY <2>1, Zenon DEF Fits
  <2>5. PICK own2 : Open(own2, order, With(msgs, order[at], m), T, A \cup {n}, merges) /\ Grown(own2, own, A, n, at)
    BY <2>3, <2>4, AnswerJoins, Zenon
  <2>6. Open(own2, o2, With(msgs, mid, m), T, A \cup {n}, merges) /\ Grown(own2, own, A, n, at) /\ o2[at] = mid
    BY <2>1, <2>2, <2>5, Zenon
  <2>7. QED
    BY <1>2, <2>6, Zenon DEF AnswerPut
<1>5. QED
  BY <1>3, <1>4

\* The numbers in the keys of rows without message id: places in the order, or groups.
KeysNumbered(order, group, merges) ==
    /\ ~ merges => \A k \in DOMAIN order : order[k][1] = NoId => order[k][2] < k
    /\ merges => \A k \in DOMAIN order : order[k][1] = NoId => order[k][2] <= group

LEMMA NumberedMore ==
    ASSUME NEW order \in Seq(AnyId), NEW msgs, NEW group \in Nat, NEW g2 \in Nat, group <= g2, NEW merges,
           KeysNumbered(order, group, merges), NEW mid \in AnyId,
           mid[1] = NoId => mid[2] = (IF merges THEN g2 ELSE Len(order))
    PROVE  KeysNumbered(OrderWith(order, msgs, mid), g2, merges)
<1>1. PICK o2 : o2 = OrderWith(order, msgs, mid)
  OBVIOUS
<1>2. \A k \in DOMAIN order : order[k][2] \in Nat
  BY DEF AnyId
<1>3. CASE mid \in DOMAIN msgs
  <2>1. o2 = order
    BY <1>1, <1>3 DEF OrderWith
  <2>2. KeysNumbered(o2, g2, merges)
    BY <1>2, <2>1 DEF KeysNumbered
  <2>3. QED
    BY <1>1, <2>2
<1>4. CASE mid \notin DOMAIN msgs
  <2>1. PICK len : len = Len(order)
    OBVIOUS
  <2>2. len \in Nat /\ DOMAIN order = 1..len
    BY <2>1
  <2>3. o2 = Append(order, mid)
    BY <1>1, <1>4 DEF OrderWith
  <2>4. DOMAIN o2 = 1..(len + 1) /\ o2[len + 1] = mid /\ \A k \in 1..len : o2[k] = order[k]
    BY <2>1, <2>2, <2>3
  <2>5. ASSUME NEW k \in 1..(len + 1), o2[k][1] = NoId
        PROVE  (~ merges => o2[k][2] < k) /\ (merges => o2[k][2] <= g2)
    <3>1. CASE k = len + 1
      BY <2>1, <2>2, <2>4, <2>5, <3>1
    <3>2. CASE k # len + 1
      <4>1. k \in 1..len
        BY <2>2, <3>2
      <4>2. o2[k] = order[k] /\ order[k][2] \in Nat
        BY <1>2, <2>2, <2>4, <4>1
      <4>3. QED
        BY <2>2, <2>5, <4>1, <4>2 DEF KeysNumbered
    <3>3. QED
      BY <3>1, <3>2
  <2>6. KeysNumbered(o2, g2, merges)
    BY <2>4, <2>5 DEF KeysNumbered
  <2>7. QED
    BY <1>1, <2>6
<1>5. QED
  BY <1>3, <1>4

\* Claude Code's next answer.
RowKey(mid, r, number) == mid = IF r.id # NoId THEN <<r.id, 0>> ELSE <<NoId, number>>
LEMMA LatestStep ==
    ASSUME NEW T, NEW A, NEW n, NEW r, IsNext(T, n, r, A), NEW merges, ~ merges,
           NEW order, NEW msgs, NEW own, Open(own, order, msgs, T, A, merges), NEW group \in Nat,
           KeysNumbered(order, group, merges),
           NEW mid, RowKey(mid, r, Len(order))
    PROVE  /\ KeysNumbered(OrderWith(order, msgs, mid), group, merges)
           /\ \E own2 : Open(own2, OrderWith(order, msgs, mid), With(msgs, mid, Message(r)), T, A \cup {n}, merges)
<1>1. order \in Seq(AnyId) /\ msgs \in AnyMsgs /\ (\A x \in DOMAIN msgs : \E k \in DOMAIN order : order[k] = x)
  BY DEF Open
<1>2. Len(order) \in Nat /\ DOMAIN order = 1..Len(order)
  BY <1>1
<1>3. r \in AnyRow /\ T[n] = r /\ n \notin A
  BY DEF IsNext
<1>4. mid \in AnyId /\ mid[1] = r.id /\ (r.id # NoId => mid[2] = 0) /\ (r.id = NoId => mid[2] = Len(order))
  BY <1>2, <1>3 DEF AnyId, AnyRow, RowKey
<1>5. KeyFor(mid, T, n)
  BY <1>3, <1>4 DEF KeyFor
<1>6. r.id = NoId => Apart(T, n, A, merges)
  BY <1>3 DEF Apart, Same
<1>7. ASSUME r.id = NoId, NEW k \in DOMAIN order, order[k] = mid PROVE FALSE
  <2>1. Len(order) < k
    BY <1>4, <1>7 DEF KeysNumbered
  <2>2. QED
    BY <1>2, <2>1
<1>8. KeysNumbered(OrderWith(order, msgs, mid), group, merges)
  BY <1>1, <1>4, NumberedMore
<1>9. PICK m : m = MessageFor(msgs, mid, r, merges)
  OBVIOUS
<1>10. m = Message(r)
  BY <1>9 DEF MessageFor, JoinedMessage
<1>11. r.id = NoId => Fits(own, order, msgs, mid, T, n, A, merges)
  BY <1>6, <1>7 DEF Fits
<1>12. AnswerPut(own, order, msgs, mid, T, n, r, A, merges)
  BY <1>5, <1>11, AnswerStep, Zenon
<1>13. QED
  BY <1>8, <1>9, <1>10, <1>12, Zenon DEF AnswerPut

\* What noid and the number of the group say of the rows of the turn, n of the transcript having been read.
OpenRun(own, order, group, T, n, A) ==
    \E i \in A : T[i].id = NoId /\ order[own[i]] = <<NoId, group>> /\ \A x \in 1..n : i < x => Joins(T[x])
NoOpenRun(T, n, A) == \A i \in A : T[i].id = NoId => \E x \in 1..n : i < x /\ ~ Joins(T[x])
Runs(own, order, group, noid, T, n, A) ==
    (noid => OpenRun(own, order, group, T, n, A)) /\ (~ noid => NoOpenRun(T, n, A))

Answers(T, A) == \A i \in A : T[i].kind = "assistant"
AllJoin(T, i, n) == \A x \in 1..n : i < x => Joins(T[x])
SameAs(T, n, A, i0, merges) ==
    \A i \in A : (Same(T, i, n, merges) <=> Same(T, i, i0, merges)) /\ (Same(T, n, i, merges) <=> Same(T, i, i0, merges))

\* The rows without id that belong to the run that is open.
LEMMA OfOpenRun ==
    ASSUME NEW T, NEW A, NEW n, NEW r, IsNext(T, n, r, A), n <= Len(T), Len(T) \in Nat, r.id = NoId, r.kind = "assistant",
           NEW merges, merges, Answers(T, A),
           NEW i0 \in A, T[i0].id = NoId, AllJoin(T, i0, n)
    PROVE  SameAs(T, n, A, i0, merges)
<1>1. T[n].id = NoId /\ n \notin A /\ n \in Nat /\ A \subseteq Nat /\ \A i \in A : i < n
  <2>1. T[n] = r /\ n \in Nat /\ A \subseteq Nat /\ \A i \in A : i < n
    BY Zenon DEF IsNext
  <2>2. n \notin A
    BY <2>1
  <2>3. QED
    BY <2>1, <2>2, Zenon
<1>2. SUFFICES ASSUME NEW i \in A
      PROVE  (Same(T, i, n, merges) <=> Same(T, i, i0, merges)) /\ (Same(T, n, i, merges) <=> Same(T, i, i0, merges))
  BY DEF SameAs
<1>3. CASE T[i].id # NoId
  BY <1>1, <1>3 DEF Same
<1>4. CASE T[i].id = NoId
  <2>1. i \in Nat /\ i0 \in Nat /\ i < n /\ i0 < n
    BY <1>1
  <2>2. Joins(T[i]) /\ Joins(T[i0])
    BY <1>4 DEF Joins, Answers
  <2>3. Same(T, i, n, merges) <=> \A x \in 1..Len(T) : i < x /\ x < n => Joins(T[x])
    BY <1>1, <1>4, <2>1 DEF Same
  <2>4. Same(T, n, i, merges) <=> \A x \in 1..Len(T) : i < x /\ x < n => Joins(T[x])
    BY <1>1, <1>4, <2>1 DEF Same
  <2>5. \A x \in 1..Len(T) : i0 < x /\ x < n => Joins(T[x])
    BY <1>1 DEF AllJoin
  <2>6. Same(T, i, i0, merges) <=> \A x \in 1..Len(T) : i < x /\ x < n => Joins(T[x])
    <3>1. CASE i = i0
      BY <2>5, <3>1 DEF Same
    <3>2. CASE i < i0
      <4>1. Same(T, i, i0, merges) <=> \A x \in 1..Len(T) : i < x /\ x < i0 => Joins(T[x])
        BY <1>4, <2>1, <3>2 DEF Same
      <4>2. ASSUME \A x \in 1..Len(T) : i < x /\ x < i0 => Joins(T[x]), NEW x \in 1..Len(T), i < x, x < n
            PROVE  Joins(T[x])
        <5>1. x < i0 \/ x = i0 \/ i0 < x
          BY <2>1
        <5>2. QED
          BY <2>2, <2>5, <4>2, <5>1
      <4>3. \A x \in 1..Len(T) : x < i0 => x < n
        BY <1>1, <2>1
      <4>4. QED
        BY <4>1, <4>2, <4>3
    <3>3. CASE i0 < i
      <4>1. Same(T, i, i0, merges)
        <5>1. \A x \in 1..Len(T) : i0 < x /\ x < i => Joins(T[x])
          BY <1>1, <2>1, <2>5
        <5>2. QED
          BY <1>4, <2>1, <3>3, <5>1 DEF Same
      <4>2. \A x \in 1..Len(T) : i < x /\ x < n => Joins(T[x])
        BY <1>1, <2>1, <2>5, <3>3
      <4>3. QED
        BY <4>1, <4>2
    <3>4. i = i0 \/ i < i0 \/ i0 < i
      BY <2>1
    <3>5. QED
      BY <3>1, <3>2, <3>3, <3>4, Zenon
  <2>7. QED
    BY <2>3, <2>4, <2>6
<1>5. QED
  BY <1>3, <1>4

\* The next answer of the others.
NextGroup(g2, group, noid, r) == g2 = IF r.id = NoId /\ ~ noid THEN group + 1 ELSE group

IsKey(mid, id, number) == mid = <<id, number>>
LEMMA FitsOpenRun ==
    ASSUME NEW T, NEW A, NEW n, NEW r, IsNext(T, n, r, A), n <= Len(T), Len(T) \in Nat, r.kind = "assistant", r.id = NoId,
           NEW merges, merges, Answers(T, A),
           NEW order, NEW msgs, NEW own, Open(own, order, msgs, T, A, merges),
           NEW m \in Nat, n = m + 1, NEW group, OpenRun(own, order, group, T, m, A),
           NEW mid, IsKey(mid, NoId, group)
    PROVE  Fits(own, order, msgs, mid, T, n, A, merges)
<1>1. PICK i0 \in A : T[i0].id = NoId /\ order[own[i0]] = mid /\ \A x \in 1..m : i0 < x => Joins(T[x])
  BY DEF OpenRun, IsKey
<1>2. /\ (\A j, k \in DOMAIN order : order[j] = order[k] => j = k) /\ (\A k \in DOMAIN order : order[k] \in DOMAIN msgs)
      /\ \A i \in A : own[i] \in DOMAIN order /\ (own[i] = own[i0] <=> Same(T, i, i0, merges))
  BY DEF Open, Core, MsgsOf
<1>3. Joins(T[n])
  BY DEF Joins, IsNext
<1>4. AllJoin(T, i0, n)
  <2>1. \A x \in 1..n : x \in 1..m \/ x = n
    OBVIOUS
  <2>2. QED
    BY <1>1, <1>3, <2>1 DEF AllJoin
<1>5. SameAs(T, n, A, i0, merges)
  <2>1. T[i0].id = NoId
    BY <1>1
  <2>2. QED
    BY <1>4, <2>1, OfOpenRun, Zenon
<1>6. mid \in DOMAIN msgs
  BY <1>1, <1>2
<1>7. ASSUME NEW k \in DOMAIN order, order[k] = mid PROVE AsOne(T, n, A, own, k, merges)
  <2>1. k = own[i0]
    BY <1>1, <1>2, <1>7
  <2>2. \A i \in A : own[i] = k <=> Same(T, i, i0, merges)
    BY <1>2, <2>1
  <2>3. QED
    BY <1>5, <2>2 DEF AsOne, SameAs
<1>8. QED
  BY <1>6, <1>7 DEF Fits

LEMMA FitsNewRun ==
    ASSUME NEW T, NEW A, NEW n, NEW r, IsNext(T, n, r, A), n <= Len(T), Len(T) \in Nat, r.id = NoId, NEW merges, merges,
           NEW order, NEW msgs, NEW own, Open(own, order, msgs, T, A, merges),
           NEW m \in Nat, n = m + 1, NEW group \in Nat, NoOpenRun(T, m, A),
           KeysNumbered(order, group, merges), NEW next \in Nat, next = group + 1, NEW mid, IsKey(mid, NoId, next)
    PROVE  Fits(own, order, msgs, mid, T, n, A, merges)
<1>1. T[n].id = NoId /\ n \notin A /\ A \subseteq Nat /\ \A i \in A : i < n
  <2>1. T[n] = r /\ A \subseteq Nat /\ n \in Nat /\ \A i \in A : i < n
    BY DEF IsNext
  <2>2. n \notin A
    BY <2>1
  <2>3. QED
    BY <2>1, <2>2, Zenon
<1>2. mid \notin DOMAIN msgs
  <2>1. SUFFICES ASSUME mid \in DOMAIN msgs PROVE FALSE
    OBVIOUS
  <2>2. PICK k \in DOMAIN order : order[k] = mid
    BY <2>1 DEF Open
  <2>3. order[k][1] = NoId /\ order[k][2] = group + 1
    BY <2>2 DEF IsKey
  <2>4. QED
    BY <2>3 DEF KeysNumbered
<1>3. ASSUME NEW i \in A PROVE ~ Same(T, i, n, merges) /\ ~ Same(T, n, i, merges)
  <2>1. i # n /\ i \in Nat /\ i < n
    BY <1>1
  <2>2. CASE T[i].id # NoId
    BY <1>1, <2>1, <2>2 DEF Same
  <2>3. CASE T[i].id = NoId
    <3>1. PICK x \in 1..m : i < x /\ ~ Joins(T[x])
      BY <2>3 DEF NoOpenRun
    <3>2. x \in 1..Len(T) /\ x < n
      BY <3>1
    <3>3. QED
      BY <1>1, <2>1, <3>1, <3>2 DEF Same
  <2>4. QED
    BY <2>2, <2>3
<1>4. \A k \in DOMAIN order : order[k] # mid
  BY <1>2 DEF Open
<1>5. QED
  BY <1>2, <1>3, <1>4 DEF Fits, Apart

LEMMA RunsMore ==
    ASSUME NEW T, NEW A, NEW n, NEW r, IsNext(T, n, r, A), r.kind = "assistant", 1 <= n,
           NEW own, NEW own2, NEW k, Grown(own2, own, A, n, k), NEW o2, NEW mid, o2[k] = mid, NEW g2,
           RowKey(mid, r, g2), NEW noid2, noid2 = (r.id = NoId)
    PROVE  Runs(own2, o2, g2, noid2, T, n, A \cup {n})
<1>1. T[n] = r /\ n \in Nat /\ A \subseteq Nat /\ (\A i \in A : i < n) /\ own2[n] = k
  BY DEF IsNext, Grown
<1>2. ASSUME noid2
      PROVE  \E i \in A \cup {n} : T[i].id = NoId /\ o2[own2[i]] = <<NoId, g2>> /\ \A x \in 1..n : i < x => Joins(T[x])
  <2>1. T[n].id = NoId /\ mid = <<NoId, g2>>
    BY <1>1, <1>2 DEF RowKey
  <2>2. \A x \in 1..n : ~ (n < x)
    BY <1>1
  <2>3. QED
    BY <1>1, <2>1, <2>2
<1>3. ASSUME ~ noid2, NEW i \in A \cup {n}, T[i].id = NoId PROVE \E x \in 1..n : i < x /\ ~ Joins(T[x])
  <2>1. r.id # NoId
    BY <1>3
  <2>2. i < n /\ n \in 1..n
    BY <1>1, <1>3, <2>1
  <2>3. ~ Joins(T[n])
    BY <1>1, <2>1 DEF Joins
  <2>4. QED
    BY <2>2, <2>3
<1>4. QED
  BY <1>2, <1>3 DEF Runs, OpenRun, NoOpenRun

LEMMA MergedStep ==
    ASSUME NEW T, NEW A, NEW n, NEW r, IsNext(T, n, r, A), n <= Len(T), Len(T) \in Nat, r.kind = "assistant",
           NEW merges, merges, Answers(T, A),
           NEW order, NEW msgs, NEW own, Open(own, order, msgs, T, A, merges),
           NEW m \in Nat, n = m + 1, NEW group \in Nat, NEW noid, Runs(own, order, group, noid, T, m, A),
           KeysNumbered(order, group, merges), NEW g2, NextGroup(g2, group, noid, r), NEW mid, RowKey(mid, r, g2),
           NEW noid2, noid2 = (r.id = NoId)
    PROVE  /\ KeysNumbered(OrderWith(order, msgs, mid), g2, merges)
           /\ \E own2 : /\ Open(own2, OrderWith(order, msgs, mid), With(msgs, mid, MessageFor(msgs, mid, r, merges)),
                                T, A \cup {n}, merges)
                        /\ Runs(own2, OrderWith(order, msgs, mid), g2, noid2, T, n, A \cup {n})
<1>1. order \in Seq(AnyId)
  BY DEF Open
<1>2. g2 \in Nat /\ group <= g2
  BY DEF NextGroup
<1>3. r \in AnyRow /\ T[n] = r
  BY DEF IsNext
<1>4. mid \in AnyId /\ mid[1] = r.id /\ (r.id # NoId => mid[2] = 0) /\ (r.id = NoId => mid[2] = g2)
  BY <1>2, <1>3 DEF AnyId, AnyRow, RowKey
<1>5. KeyFor(mid, T, n)
  BY <1>3, <1>4 DEF KeyFor
<1>6. KeysNumbered(OrderWith(order, msgs, mid), g2, merges)
  BY <1>1, <1>2, <1>4, NumberedMore
<1>7. r.id = NoId => Fits(own, order, msgs, mid, T, n, A, merges)
  <2>1. CASE r.id = NoId /\ noid
    <3>1. IsKey(mid, NoId, group)
      BY <2>1 DEF NextGroup, RowKey, IsKey
    <3>2. r.id = NoId /\ OpenRun(own, order, group, T, m, A)
      BY <2>1 DEF Runs
    <3>3. QED
      BY <3>1, <3>2, FitsOpenRun
  <2>2. CASE r.id = NoId /\ ~ noid
    <3>1. IsKey(mid, NoId, g2) /\ g2 = group + 1
      BY <2>2 DEF NextGroup, RowKey, IsKey
    <3>2. r.id = NoId /\ NoOpenRun(T, m, A)
      BY <2>2 DEF Runs
    <3>3. QED
      BY <1>2, <3>1, <3>2, FitsNewRun
  <2>3. QED
    BY <2>1, <2>2
<1>8. AnswerPut(own, order, msgs, mid, T, n, r, A, merges)
  BY <1>5, <1>7, AnswerStep, Zenon
<1>9. PICK o2, w : o2 = OrderWith(order, msgs, mid) /\ w = With(msgs, mid, MessageFor(msgs, mid, r, merges))
  OBVIOUS
<1>10. PICK own2, k : Open(own2, o2, w, T, A \cup {n}, merges) /\ Grown(own2, own, A, n, k) /\ o2[k] = mid
  BY <1>8, <1>9, Zenon DEF AnswerPut
<1>11. 1 <= n
  OBVIOUS
<1>12. Runs(own2, o2, g2, noid2, T, n, A \cup {n})
  BY <1>10, <1>11, RunsMore, Zenon
<1>13. QED
  BY <1>6, <1>9, <1>10, <1>12, Zenon

\* rs has the last of the results in R for each tool.
ResultsAre(rs, T, R) ==
    /\ \A i \in R : T[i].tool \in DOMAIN rs
    /\ \A t \in DOMAIN rs : \E i \in R : T[i].tool = t
    /\ \A i \in R : (\A j \in R : T[j].tool = T[i].tool => j <= i) => rs[T[i].tool] = T[i].ts

LEMMA ResultsMore ==
    ASSUME NEW T, NEW R, NEW n, NEW r, IsNext(T, n, r, R), NEW rs, ResultsAre(rs, T, R)
    PROVE  ResultsAre(With(rs, r.tool, r.ts), T, R \cup {n})
<1>1. T[n] = r /\ n \in Nat /\ R \subseteq Nat /\ \A i \in R : i < n
  BY DEF IsNext
<1>2. PICK w : w = With(rs, r.tool, r.ts)
  OBVIOUS
<1>3. DOMAIN w = DOMAIN rs \cup {r.tool} /\ w[r.tool] = r.ts /\ \A t \in DOMAIN rs : t # r.tool => w[t] = rs[t]
  BY <1>2 DEF With
<1>4. \A i \in R \cup {n} : T[i].tool \in DOMAIN w
  BY <1>1, <1>3 DEF ResultsAre
<1>5. ASSUME NEW t \in DOMAIN w PROVE \E i \in R \cup {n} : T[i].tool = t
  BY <1>1, <1>3 DEF ResultsAre
<1>6. ASSUME NEW i \in R \cup {n}, \A j \in R \cup {n} : T[j].tool = T[i].tool => j <= i
      PROVE  w[T[i].tool] = T[i].ts
  <2>1. CASE i = n
    BY <1>1, <1>3, <2>1
  <2>2. CASE i # n
    <3>1. i \in R /\ ~ (n <= i)
      BY <1>1, <2>2
    <3>2. T[i].tool # r.tool
      BY <1>1, <1>6, <3>1
    <3>3. T[i].tool \in DOMAIN rs /\ rs[T[i].tool] = T[i].ts
      BY <1>6, <3>1 DEF ResultsAre
    <3>4. QED
      BY <1>3, <3>2, <3>3
  <2>3. QED
    BY <2>1, <2>2
<1>7. ResultsAre(w, T, R \cup {n})
  BY <1>4, <1>5, <1>6 DEF ResultsAre
<1>8. QED
  BY <1>2, <1>7

\* The turn that is open at n, whose prompt is u.
OpenIs(st, T, n, u, merges) ==
    /\ \E own : /\ Open(own, st.order, st.msgs, T, Ans(T, n, u), merges)
                /\ merges => Runs(own, st.order, st.group, st.noid, T, n, Ans(T, n, u))
    /\ KeysNumbered(st.order, st.group, merges)
    /\ ResultsAre(st.results, T, Res(T, n, u))

IsTranscript(T) == T \in Seq(AnyRow) /\ \A i \in DOMAIN T : T[i].n = i
OpenPrompt(T, n, u) == u \in 1..n /\ T[u].kind = "user" /\ \A x \in 1..n : u < x => T[x].kind # "user"

\* n is the row after the first m.
IsStep(T, m, n, r) == IsTranscript(T) /\ m \in Nat /\ n = m + 1 /\ n <= Len(T) /\ r = T[n]

LEMMA StepFacts ==
    ASSUME NEW T, NEW m, NEW n, NEW r, IsStep(T, m, n, r), NEW u, OpenPrompt(T, m, u)
    PROVE  /\ IsNext(T, n, r, Ans(T, m, u)) /\ IsNext(T, n, r, Res(T, m, u)) /\ Answers(T, Ans(T, m, u))
           /\ m \in Nat /\ n = m + 1 /\ n <= Len(T) /\ Len(T) \in Nat /\ r \in AnyRow
           /\ r.kind = "assistant" => Ans(T, n, u) = Ans(T, m, u) \cup {n}
           /\ r.kind \notin {"assistant", "user"} => Ans(T, n, u) = Ans(T, m, u)
           /\ r.kind = "result" /\ r.tool # NoTool => Res(T, n, u) = Res(T, m, u) \cup {n}
           /\ r.kind = "result" /\ r.tool = NoTool => Res(T, n, u) = Res(T, m, u)
           /\ r.kind \notin {"result", "user"} => Res(T, n, u) = Res(T, m, u)
<1>1. T \in Seq(AnyRow) /\ Len(T) \in Nat /\ DOMAIN T = 1..Len(T) /\ m \in Nat /\ n = m + 1 /\ n <= Len(T) /\ r = T[n]
      /\ \A i \in 1..Len(T) : T[i].n = i
  BY DEF IsStep, IsTranscript
<1>2. n \in 1..Len(T) /\ r \in AnyRow /\ r.n = n /\ n \in Nat
  BY <1>1
<1>3. u \in Nat /\ u <= m /\ \A x \in 1..m : u < x => T[x].kind # "user"
  BY <1>1 DEF OpenPrompt
<1>4. Ans(T, m, u) \subseteq 1..m /\ Res(T, m, u) \subseteq 1..m /\ Answers(T, Ans(T, m, u))
  BY DEF Ans, Res, Follow, Answers
<1>5. \A i \in 1..m : i \in Nat /\ i < n
  BY <1>1
<1>6. IsNext(T, n, r, Ans(T, m, u)) /\ IsNext(T, n, r, Res(T, m, u))
  BY <1>1, <1>2, <1>4, <1>5 DEF IsNext
<1>7. ASSUME NEW kind, kind # "user"
      PROVE  /\ r.kind = kind => Follow(T, n, u, kind) = Follow(T, m, u, kind) \cup {n}
             /\ r.kind # kind => Follow(T, n, u, kind) = Follow(T, m, u, kind)
  <2>1. ASSUME r.kind = kind PROVE Follow(T, n, u, kind) = Follow(T, m, u, kind) \cup {n}
    <3>1. IsMore(T, m, n, u, kind)
      BY <1>1, <1>3, <2>1 DEF IsMore
    <3>2. QED
      BY <3>1, FollowMore
  <2>2. ASSUME r.kind # kind PROVE Follow(T, m + 1, u, kind) = Follow(T, m, u, kind)
    BY <1>1, <1>3, <1>7, <2>2, FollowKept
  <2>3. QED
    BY <1>1, <2>1, <2>2
<1>8. /\ r.kind = "assistant" => Ans(T, n, u) = Ans(T, m, u) \cup {n}
      /\ r.kind # "assistant" => Ans(T, n, u) = Ans(T, m, u)
  BY <1>7 DEF Ans
<1>9. /\ r.kind = "result" => Follow(T, n, u, "result") = Follow(T, m, u, "result") \cup {n}
      /\ r.kind # "result" => Follow(T, n, u, "result") = Follow(T, m, u, "result")
  BY <1>7
<1>10. /\ r.kind = "result" /\ r.tool # NoTool => Res(T, n, u) = Res(T, m, u) \cup {n}
       /\ r.kind = "result" /\ r.tool = NoTool => Res(T, n, u) = Res(T, m, u)
       /\ r.kind # "result" => Res(T, n, u) = Res(T, m, u)
  BY <1>1, <1>9 DEF Res
<1>11. QED
  BY <1>1, <1>2, <1>4, <1>6, <1>8, <1>10

LEMMA RunsBySystem ==
    ASSUME NEW T, NEW m \in Nat, NEW n, n = m + 1, T[n].kind = "system", NEW A,
           NEW own, NEW order, NEW group, NEW noid, Runs(own, order, group, noid, T, m, A)
    PROVE  Runs(own, order, group, noid, T, n, A)
<1>1. Joins(T[n])
  BY DEF Joins
<1>2. \A x \in 1..n : x \in 1..m \/ x = n
  OBVIOUS
<1>3. \A x \in 1..m : x \in 1..n
  OBVIOUS
<1>4. OpenRun(own, order, group, T, m, A) => OpenRun(own, order, group, T, n, A)
  BY <1>1, <1>2 DEF OpenRun
<1>5. NoOpenRun(T, m, A) => NoOpenRun(T, n, A)
  BY <1>3 DEF NoOpenRun
<1>6. QED
  BY <1>4, <1>5 DEF Runs

LEMMA OpenSystem ==
    ASSUME NEW T, NEW m, NEW n, NEW r, IsStep(T, m, n, r), NEW u, OpenPrompt(T, m, u),
           r.kind = "system", NEW merges, NEW st, OpenIs(st, T, m, u, merges)
    PROVE  OpenIs(st, T, n, u, merges)
<1>1. Ans(T, n, u) = Ans(T, m, u) /\ Res(T, n, u) = Res(T, m, u) /\ m \in Nat /\ n = m + 1 /\ T[n].kind = "system"
  <2>1. r = T[n]
    BY DEF IsStep
  <2>2. QED
    BY <2>1, StepFacts
<1>2. PICK A : A = Ans(T, m, u)
  OBVIOUS
<1>3. PICK own : /\ Open(own, st.order, st.msgs, T, A, merges)
                 /\ merges => Runs(own, st.order, st.group, st.noid, T, m, A)
  BY <1>2 DEF OpenIs
<1>4. Runs(own, st.order, st.group, st.noid, T, m, A) => Runs(own, st.order, st.group, st.noid, T, n, A)
  BY <1>1, RunsBySystem
<1>5. KeysNumbered(st.order, st.group, merges) /\ ResultsAre(st.results, T, Res(T, n, u))
  BY <1>1 DEF OpenIs
<1>6. Open(own, st.order, st.msgs, T, Ans(T, n, u), merges)
      /\ (merges => Runs(own, st.order, st.group, st.noid, T, n, Ans(T, n, u)))
  BY <1>1, <1>2, <1>3, <1>4
<1>7. QED
  BY <1>5, <1>6 DEF OpenIs

LEMMA OpenResult ==
    ASSUME NEW T, NEW m, NEW n, NEW r, IsStep(T, m, n, r), NEW u, OpenPrompt(T, m, u),
           r.kind = "result", NEW merges, NEW st, OpenIs(st, T, m, u, merges), NEW new,
           new.order = st.order, new.msgs = st.msgs, new.group = st.group, new.noid = FALSE,
           new.results = IF r.tool = NoTool THEN st.results ELSE With(st.results, r.tool, r.ts)
    PROVE  OpenIs(new, T, n, u, merges)
<1>1. /\ IsNext(T, n, r, Ans(T, m, u)) /\ IsNext(T, n, r, Res(T, m, u))
      /\ Ans(T, n, u) = Ans(T, m, u) /\ m \in Nat /\ n = m + 1
      /\ r.tool # NoTool => Res(T, n, u) = Res(T, m, u) \cup {n}
      /\ r.tool = NoTool => Res(T, n, u) = Res(T, m, u)
  BY StepFacts
<1>2. PICK A : A = Ans(T, m, u)
  OBVIOUS
<1>3. PICK own : Open(own, st.order, st.msgs, T, A, merges)
  BY <1>2 DEF OpenIs
<1>4. NoOpenRun(T, n, A)
  <2>1. T[n] = r /\ \A i \in A : i < n
    BY <1>1, <1>2 DEF IsNext
  <2>2. ~ Joins(T[n])
    BY <2>1 DEF Joins
  <2>3. n \in 1..n
    BY <1>1
  <2>4. QED
    BY <2>1, <2>2, <2>3 DEF NoOpenRun
<1>5. Runs(own, new.order, new.group, new.noid, T, n, A)
  BY <1>4 DEF Runs
<1>6. ResultsAre(new.results, T, Res(T, n, u))
  <2>1. ResultsAre(st.results, T, Res(T, m, u))
    BY DEF OpenIs
  <2>2. ResultsAre(With(st.results, r.tool, r.ts), T, Res(T, m, u) \cup {n})
    BY <1>1, <2>1, ResultsMore
  <2>3. CASE r.tool = NoTool
    BY <1>1, <2>1, <2>3
  <2>4. CASE r.tool # NoTool
    BY <1>1, <2>2, <2>4
  <2>5. QED
    BY <2>3, <2>4
<1>7. Open(own, new.order, new.msgs, T, Ans(T, n, u), merges) /\ Runs(own, new.order, new.group, new.noid, T, n, Ans(T, n, u))
  BY <1>1, <1>2, <1>3, <1>5
<1>8. KeysNumbered(new.order, new.group, merges)
  BY DEF OpenIs
<1>9. QED
  BY <1>6, <1>7, <1>8 DEF OpenIs

LEMMA PutFields ==
    ASSUME NEW st \in AnyLocals, NEW mid, NEW m
    PROVE  LET new == Put(st, mid, m)
           IN  /\ new.order = OrderWith(st.order, st.msgs, mid) /\ new.msgs = With(st.msgs, mid, m)
               /\ new.group = st.group /\ new.noid = st.noid /\ new.results = st.results
  BY DEF Put, OrderWith, AnyLocals

LEMMA OpenLatest ==
    ASSUME NEW T, NEW m, NEW n, NEW r, IsStep(T, m, n, r), NEW u, OpenPrompt(T, m, u),
           r.kind = "assistant", NEW merges, ~ merges, NEW st \in AnyLocals, OpenIs(st, T, m, u, merges)
    PROVE  OpenIs(LatestRow(st, r), T, n, u, merges)
<1>1. /\ IsNext(T, n, r, Ans(T, m, u)) /\ Ans(T, n, u) = Ans(T, m, u) \cup {n}
      /\ Res(T, n, u) = Res(T, m, u)
  BY StepFacts
<1>2. PICK A : A = Ans(T, m, u)
  OBVIOUS
<1>3. PICK mid : RowKey(mid, r, Len(st.order))
  BY DEF RowKey
<1>4. PICK new : new = LatestRow(st, r)
  OBVIOUS
<1>5. new = Put(st, mid, Message(r))
  BY <1>3, <1>4 DEF LatestRow, RowKey
<1>6. /\ new.order = OrderWith(st.order, st.msgs, mid) /\ new.msgs = With(st.msgs, mid, Message(r))
      /\ new.group = st.group /\ new.noid = st.noid /\ new.results = st.results
  BY <1>5, PutFields
<1>7. PICK own : Open(own, st.order, st.msgs, T, A, merges)
  BY <1>2 DEF OpenIs
<1>8. st.group \in Nat /\ KeysNumbered(st.order, st.group, merges) /\ ResultsAre(st.results, T, Res(T, m, u))
  BY DEF OpenIs, AnyLocals
<1>9. IsNext(T, n, r, A)
  BY <1>1, <1>2
<1>10. /\ KeysNumbered(OrderWith(st.order, st.msgs, mid), st.group, merges)
       /\ \E own2 : Open(own2, OrderWith(st.order, st.msgs, mid), With(st.msgs, mid, Message(r)), T, A \cup {n}, merges)
  BY <1>3, <1>7, <1>8, <1>9, LatestStep
<1>11. KeysNumbered(new.order, new.group, merges) /\ \E own2 : Open(own2, new.order, new.msgs, T, Ans(T, n, u), merges)
  BY <1>1, <1>2, <1>6, <1>10
<1>12. ResultsAre(new.results, T, Res(T, n, u))
  BY <1>1, <1>6, <1>8
<1>13. OpenIs(new, T, n, u, merges)
  BY <1>11, <1>12 DEF OpenIs
<1>14. QED
  BY <1>4, <1>13

LEMMA OpenMerged ==
    ASSUME NEW T, NEW m, NEW n, NEW r, IsStep(T, m, n, r), NEW u, OpenPrompt(T, m, u),
           r.kind = "assistant", NEW merges, merges, NEW st \in AnyLocals, OpenIs(st, T, m, u, merges)
    PROVE  OpenIs(MergedRow(st, r), T, n, u, merges)
<1>1. /\ IsNext(T, n, r, Ans(T, m, u)) /\ Ans(T, n, u) = Ans(T, m, u) \cup {n} /\ Answers(T, Ans(T, m, u))
      /\ Res(T, n, u) = Res(T, m, u) /\ m \in Nat /\ n = m + 1 /\ n <= Len(T) /\ Len(T) \in Nat
  BY StepFacts
<1>2. PICK A : A = Ans(T, m, u)
  OBVIOUS
<1>3. PICK g2 : NextGroup(g2, st.group, st.noid, r)
  BY DEF NextGroup
<1>4. PICK mid : RowKey(mid, r, g2)
  BY DEF RowKey
<1>5. PICK noid2 : noid2 = (r.id = NoId)
  OBVIOUS
<1>6. PICK s1 : s1 = [st EXCEPT !.group = g2, !.noid = noid2]
  OBVIOUS
<1>7. PICK new : new = MergedRow(st, r)
  OBVIOUS
<1>8. PICK w : w = MessageFor(st.msgs, mid, r, merges)
  OBVIOUS
<1>9. new = Put(s1, mid, w)
  <2>1. w = IF mid \in DOMAIN st.msgs THEN MergeAssistantContent(st.msgs[mid], r) ELSE Message(r)
    BY <1>8 DEF MessageFor, JoinedMessage
  <2>2. QED
    BY <1>3, <1>4, <1>5, <1>6, <1>7, <2>1 DEF MergedRow, RowKey, NextGroup
<1>10. g2 \in Nat
  BY <1>3 DEF NextGroup, AnyLocals
<1>11. /\ s1 \in AnyLocals /\ s1.order = st.order /\ s1.msgs = st.msgs /\ s1.group = g2 /\ s1.noid = noid2
       /\ s1.results = st.results
  BY <1>5, <1>6, <1>10 DEF AnyLocals
<1>12. /\ new.order = OrderWith(st.order, st.msgs, mid) /\ new.msgs = With(st.msgs, mid, w)
       /\ new.group = g2 /\ new.noid = noid2 /\ new.results = st.results
  BY <1>9, <1>11, PutFields
<1>13. PICK own : Open(own, st.order, st.msgs, T, A, merges) /\ Runs(own, st.order, st.group, st.noid, T, m, A)
  BY <1>2 DEF OpenIs
<1>14. st.group \in Nat /\ KeysNumbered(st.order, st.group, merges) /\ ResultsAre(st.results, T, Res(T, m, u))
  BY DEF OpenIs, AnyLocals
<1>15. IsNext(T, n, r, A) /\ Answers(T, A)
  BY <1>1, <1>2
<1>16. /\ KeysNumbered(OrderWith(st.order, st.msgs, mid), g2, merges)
       /\ \E own2 : /\ Open(own2, OrderWith(st.order, st.msgs, mid),
                            With(st.msgs, mid, MessageFor(st.msgs, mid, r, merges)), T, A \cup {n}, merges)
                    /\ Runs(own2, OrderWith(st.order, st.msgs, mid), g2, noid2, T, n, A \cup {n})
  BY <1>1, <1>3, <1>4, <1>5, <1>13, <1>14, <1>15, MergedStep
<1>17. KeysNumbered(new.order, new.group, merges)
       /\ \E own2 : /\ Open(own2, new.order, new.msgs, T, Ans(T, n, u), merges)
                    /\ Runs(own2, new.order, new.group, new.noid, T, n, Ans(T, n, u))
  BY <1>1, <1>2, <1>8, <1>12, <1>16, Zenon
<1>18. ResultsAre(new.results, T, Res(T, n, u))
  BY <1>1, <1>12, <1>14
<1>19. OpenIs(new, T, n, u, merges)
  BY <1>17, <1>18 DEF OpenIs
<1>20. QED
  BY <1>7, <1>19

\* t is the turn of its prompt, n of the transcript having been read.
TurnIs(t, T, n, merges) ==
    /\ t.user.n \in 1..n /\ t.user = T[t.user.n] /\ T[t.user.n].kind = "user" /\ Ans(T, n, t.user.n) # {}
    /\ \E own : Core(own, t.msgs, T, Ans(T, n, t.user.n), merges)
    /\ ResultsAre(t.results, T, Res(T, n, t.user.n))

\* ts are the turns of the prompts before u.
TurnsAre(ts, T, n, u, merges) ==
    /\ \A j \in DOMAIN ts : TurnIs(ts[j], T, n, merges) /\ ts[j].user.n < u
    /\ \A i, j \in DOMAIN ts : i < j => ts[i].user.n < ts[j].user.n
    /\ \A p \in 1..n : p < u /\ T[p].kind = "user" /\ Ans(T, n, p) # {} => \E j \in DOMAIN ts : ts[j].user.n = p

LEMMA TurnsKept ==
    ASSUME NEW T, NEW n, NEW m \in Nat, n = m + 1, NEW u \in Nat,
           (u <= m /\ T[u].kind = "user") \/ (u <= n /\ T[n].kind = "user"),
           NEW ts, NEW merges, TurnsAre(ts, T, m, u, merges)
    PROVE  TurnsAre(ts, T, n, u, merges)
<1>1. ASSUME NEW p \in 1..m, p < u PROVE Ans(T, n, p) = Ans(T, m, p) /\ Res(T, n, p) = Res(T, m, p)
  <2>1. ASSUME NEW kind, kind # "user" PROVE Follow(T, m + 1, p, kind) = Follow(T, m, p, kind)
    <3>1. T[m + 1].kind # kind \/ \E x \in 1..m : p < x /\ T[x].kind = "user"
      <4>1. CASE u <= m /\ T[u].kind = "user"
        <5>1. u \in 1..m
          BY <1>1, <4>1
        <5>2. QED
          BY <1>1, <4>1, <5>1
      <4>2. CASE T[n].kind = "user"
        BY <2>1, <4>2
      <4>3. QED
        BY <4>1, <4>2
    <3>2. p \in Nat
      OBVIOUS
    <3>3. QED
      BY <2>1, <3>1, <3>2, FollowKept
  <2>2. Follow(T, n, p, "assistant") = Follow(T, m, p, "assistant") /\ Follow(T, n, p, "result") = Follow(T, m, p, "result")
    BY <2>1
  <2>3. QED
    BY <2>2 DEF Ans, Res
<1>2. ASSUME NEW j \in DOMAIN ts PROVE TurnIs(ts[j], T, n, merges) /\ ts[j].user.n < u
  <2>1. PICK t : t = ts[j]
    OBVIOUS
  <2>2. TurnIs(t, T, m, merges) /\ t.user.n < u
    BY <2>1 DEF TurnsAre
  <2>3. t.user.n \in 1..m
    BY <2>2 DEF TurnIs
  <2>4. Ans(T, n, t.user.n) = Ans(T, m, t.user.n) /\ Res(T, n, t.user.n) = Res(T, m, t.user.n)
    BY <1>1, <2>2, <2>3
  <2>5. t.user.n \in 1..n
    BY <2>3
  <2>6. TurnIs(t, T, n, merges)
    BY <2>2, <2>4, <2>5 DEF TurnIs
  <2>7. QED
    BY <2>1, <2>2, <2>6
<1>3. ASSUME NEW p \in 1..n, p < u, T[p].kind = "user", Ans(T, n, p) # {} PROVE \E j \in DOMAIN ts : ts[j].user.n = p
  <2>1. p \in 1..m
    BY <1>3
  <2>2. Ans(T, m, p) # {}
    BY <1>1, <1>3, <2>1
  <2>3. QED
    BY <1>3, <2>1, <2>2 DEF TurnsAre
<1>4. \A i, j \in DOMAIN ts : i < j => ts[i].user.n < ts[j].user.n
  BY DEF TurnsAre
<1>5. QED
  BY <1>2, <1>3, <1>4 DEF TurnsAre

LEMMA TurnsMore ==
    ASSUME NEW T, NEW n \in Nat, NEW u \in Nat, OpenPrompt(T, n, u),
           NEW merges, NEW ts \in Seq(AnyTurn), TurnsAre(ts, T, n, u, merges),
           NEW t \in AnyTurn, TurnIs(t, T, n, merges), t.user.n = u
    PROVE  TurnsAre(Append(ts, t), T, n, n + 1, merges)
<1>1. PICK len : len = Len(ts)
  OBVIOUS
<1>2. PICK us : us = Append(ts, t)
  OBVIOUS
<1>3. len \in Nat /\ DOMAIN ts = 1..len /\ DOMAIN us = 1..(len + 1) /\ us[len + 1] = t /\ \A j \in 1..len : us[j] = ts[j]
  BY <1>1, <1>2
<1>4. u \in 1..n /\ \A x \in 1..n : u < x => T[x].kind # "user"
  BY DEF OpenPrompt
<1>5. ASSUME NEW j \in 1..(len + 1) PROVE j \in 1..len \/ j = len + 1
  BY <1>3
<1>6. \A j \in 1..len : TurnIs(ts[j], T, n, merges) /\ ts[j].user.n \in 1..n /\ ts[j].user.n < u
  BY <1>3 DEF TurnsAre, TurnIs
<1>7. ASSUME NEW j \in 1..(len + 1) PROVE TurnIs(us[j], T, n, merges) /\ us[j].user.n < n + 1
  <2>1. CASE j = len + 1
    BY <1>3, <1>4, <2>1
  <2>2. CASE j \in 1..len
    BY <1>3, <1>6, <2>2
  <2>3. QED
    BY <1>5, <2>1, <2>2
<1>8. ASSUME NEW i \in 1..(len + 1), NEW j \in 1..(len + 1), i < j PROVE us[i].user.n < us[j].user.n
  <2>1. i \in 1..len
    BY <1>3, <1>8
  <2>2. CASE j = len + 1
    BY <1>3, <1>6, <2>1, <2>2
  <2>3. CASE j \in 1..len
    <3>1. ts[i].user.n < ts[j].user.n
      BY <1>3, <1>8, <2>1, <2>3 DEF TurnsAre
    <3>2. QED
      BY <1>3, <2>1, <2>3, <3>1
  <2>4. QED
    BY <1>5, <2>2, <2>3
<1>9. ASSUME NEW p \in 1..n, T[p].kind = "user", Ans(T, n, p) # {} PROVE \E j \in 1..(len + 1) : us[j].user.n = p
  <2>1. CASE p = u
    <3>1. len + 1 \in 1..(len + 1)
      BY <1>3
    <3>2. QED
      BY <1>3, <2>1, <3>1
  <2>2. CASE p # u
    <3>1. p < u
      BY <1>4, <1>9, <2>2
    <3>2. PICK j \in 1..len : ts[j].user.n = p
      BY <1>3, <1>9, <3>1 DEF TurnsAre
    <3>3. j \in 1..(len + 1) /\ us[j] = ts[j]
      BY <1>3
    <3>4. QED
      BY <3>2, <3>3
  <2>3. QED
    BY <2>1, <2>2
<1>10. TurnsAre(us, T, n, n + 1, merges)
  BY <1>3, <1>7, <1>8, <1>9 DEF TurnsAre
<1>11. QED
  BY <1>2, <1>10

\* The pass after n rows.
NoneYet(st, T, n) == st.user = NoUser /\ st.turns = <<>> /\ \A x \in 1..n : T[x].kind # "user"
PassMakes(st, T, n, merges) ==
    \/ NoneYet(st, T, n)
    \/ \E u \in Nat : /\ OpenPrompt(T, n, u) /\ st.user = T[u]
                      /\ TurnsAre(st.turns, T, n, u, merges) /\ OpenIs(st, T, n, u, merges)

LEMMA FlushIs ==
    ASSUME NEW T, IsTranscript(T), NEW n \in Nat, n <= Len(T), NEW merges, NEW st, PassTyped(st), PassMakes(st, T, n, merges)
    PROVE  TurnsAre(FlushTurn(st), T, n, n + 1, merges)
<1>1. CASE NoneYet(st, T, n)
  <2>1. FlushTurn(st) = <<>>
    BY <1>1 DEF FlushTurn, NoneYet
  <2>2. TurnsAre(<<>>, T, n, n + 1, merges)
    BY <1>1 DEF TurnsAre, NoneYet
  <2>3. QED
    BY <2>1, <2>2
<1>2. ASSUME NEW u \in Nat, OpenPrompt(T, n, u), st.user = T[u], TurnsAre(st.turns, T, n, u, merges), OpenIs(st, T, n, u, merges)
      PROVE  TurnsAre(FlushTurn(st), T, n, n + 1, merges)
  <2>1. u \in 1..n /\ T[u].kind = "user" /\ \A x \in 1..n : u < x => T[x].kind # "user"
    BY <1>2 DEF OpenPrompt
  <2>2. T[u] \in AnyRow /\ T[u].n = u
    BY <2>1 DEF IsTranscript
  <2>3. T[u] # NoUser
    BY <2>1, <2>2 DEF AnyRow, NoUser
  <2>4. PICK own : Open(own, st.order, st.msgs, T, Ans(T, n, u), merges)
    BY <1>2 DEF OpenIs
  <2>5. Core(own, MsgsOf(st.order, st.msgs), T, Ans(T, n, u), merges)
    BY <2>4 DEF Open
  <2>6. st.order \in Seq(AnyId) /\ st.turns \in Seq(AnyTurn)
    BY DEF PassTyped, AnyLocals
  <2>7. CASE st.order = <<>>
    <3>1. Ans(T, n, u) = {}
      BY <2>5, <2>7 DEF Core, MsgsOf
    <3>2. FlushTurn(st) = st.turns
      BY <2>7, FlushAny
    <3>3. PICK ts : ts = st.turns
      OBVIOUS
    <3>4. \A p \in 1..n : T[p].kind = "user" /\ Ans(T, n, p) # {} => p < u
      BY <2>1, <3>1
    <3>5. TurnsAre(ts, T, n, u, merges)
      BY <1>2, <3>3
    <3>6. \A j \in DOMAIN ts : ts[j].user.n \in 1..n
      BY <3>5 DEF TurnsAre, TurnIs
    <3>7. \A j \in DOMAIN ts : ts[j].user.n < n + 1
      BY <3>6
    <3>8. TurnsAre(ts, T, n, n + 1, merges)
      BY <3>4, <3>5, <3>7 DEF TurnsAre
    <3>9. QED
      BY <3>2, <3>3, <3>8
  <2>8. CASE st.order # <<>>
    <3>1. PICK t \in AnyTurn : /\ FlushTurn(st) = Append(st.turns, t) /\ t.user = st.user /\ t.results = st.results
                               /\ t.msgs = [i \in DOMAIN st.order |-> st.msgs[st.order[i]]]
      BY <1>2, <2>3, <2>8, FlushAny
    <3>2. t.msgs = MsgsOf(st.order, st.msgs)
      BY <3>1 DEF MsgsOf
    <3>3. Ans(T, n, u) # {}
      <4>1. 1 \in DOMAIN st.order
        BY <2>6, <2>8
      <4>2. PICK ms : ms = MsgsOf(st.order, st.msgs)
        OBVIOUS
      <4>3. 1 \in DOMAIN ms
        BY <4>1, <4>2 DEF MsgsOf
      <4>4. MsgIs(ms[1], T, Owned(own, Ans(T, n, u), 1), merges)
        BY <2>5, <4>2, <4>3 DEF Core
      <4>5. Owned(own, Ans(T, n, u), 1) # {}
        BY <4>4 DEF MsgIs
      <4>6. QED
        BY <4>5 DEF Owned
    <3>4. ResultsAre(t.results, T, Res(T, n, u))
      BY <1>2, <3>1 DEF OpenIs
    <3>5. t.user = T[u] /\ t.user.n = u
      BY <1>2, <2>2, <3>1
    <3>6. Core(own, t.msgs, T, Ans(T, n, u), merges)
      BY <2>5, <3>2
    <3>7. TurnIs(t, T, n, merges)
      BY <2>1, <3>3, <3>4, <3>5, <3>6 DEF TurnIs
    <3>8. TurnsAre(Append(st.turns, t), T, n, n + 1, merges)
      BY <1>2, <2>6, <3>5, <3>7, TurnsMore
    <3>9. QED
      BY <3>1, <3>8
  <2>9. QED
    BY <2>7, <2>8
<1>3. QED
  BY <1>1, <1>2 DEF PassMakes

LEMMA OpenFirst ==
    ASSUME NEW T, NEW n \in Nat, NEW merges, NEW st, st.order = <<>>, st.msgs = Locals.msgs, st.results = Locals.results,
           st.noid = FALSE
    PROVE  OpenIs(st, T, n, n, merges)
<1>1. Ans(T, n, n) = {} /\ Res(T, n, n) = {}
  BY DEF Ans, Res, Follow
<1>2. PICK own : own = [i \in {} |-> 1]
  OBVIOUS
<1>3. PICK order : order = st.order
  OBVIOUS
<1>4. order \in Seq(AnyId) /\ DOMAIN order = {} /\ st.msgs \in AnyMsgs /\ DOMAIN st.msgs = {} /\ DOMAIN st.results = {}
  BY <1>3, PassTypedFirst DEF PassTyped, AnyLocals
<1>5. DOMAIN MsgsOf(order, st.msgs) = {}
  BY <1>4 DEF MsgsOf
<1>6. Core(own, MsgsOf(order, st.msgs), T, {}, merges)
  BY <1>2, <1>5 DEF Core
<1>7. Open(own, order, st.msgs, T, {}, merges)
  BY <1>4, <1>6 DEF Open
<1>8. Runs(own, order, st.group, st.noid, T, n, {})
  BY DEF Runs, NoOpenRun
<1>9. KeysNumbered(order, st.group, merges)
  BY <1>4 DEF KeysNumbered
<1>10. ResultsAre(st.results, T, {})
  BY <1>4 DEF ResultsAre
<1>11. QED
  BY <1>1, <1>3, <1>7, <1>8, <1>9, <1>10 DEF OpenIs

LEMMA TurnsStep ==
    ASSUME NEW T, NEW m, NEW n, NEW r, IsStep(T, m, n, r), NEW merges \in BOOLEAN,
           NEW st, PassTyped(st), PassMakes(st, T, m, merges)
    PROVE  PassMakes(NextRow(st, r, merges), T, n, merges)
<1>1. /\ IsTranscript(T) /\ m \in Nat /\ n = m + 1 /\ n <= Len(T) /\ m <= Len(T) /\ r = T[n] /\ Len(T) \in Nat
      /\ n \in 1..Len(T) /\ n \in Nat
  BY DEF IsStep, IsTranscript
<1>2. r \in AnyRow /\ st \in AnyLocals
  BY <1>1 DEF IsTranscript, PassTyped
<1>3. \A x \in 1..n : x \in 1..m \/ x = n
  BY <1>1
<1>4. PICK new : new = NextRow(st, r, merges)
  OBVIOUS
<1>5. CASE r.kind = "user"
  <2>1. new = [Locals EXCEPT !.user = r, !.turns = FlushTurn(st)]
    BY <1>4, <1>5 DEF NextRow, UserRow
  <2>2. /\ new.user = T[n] /\ new.turns = FlushTurn(st) /\ new.order = <<>> /\ new.msgs = Locals.msgs
        /\ new.results = Locals.results /\ new.noid = FALSE
    BY <1>1, <2>1 DEF Locals
  <2>3. TurnsAre(FlushTurn(st), T, m, n, merges)
    BY <1>1, FlushIs
  <2>4. TurnsAre(FlushTurn(st), T, n, n, merges)
    BY <1>1, <1>5, <2>3, TurnsKept
  <2>5. OpenIs(new, T, n, n, merges)
    BY <1>1, <2>2, OpenFirst
  <2>6. OpenPrompt(T, n, n)
    BY <1>1, <1>5 DEF OpenPrompt
  <2>7. PassMakes(new, T, n, merges)
    BY <1>1, <2>2, <2>4, <2>5, <2>6 DEF PassMakes
  <2>8. QED
    BY <1>4, <2>7
<1>6. CASE r.kind # "user" /\ NoneYet(st, T, m)
  <2>1. st.user = NoUser /\ st.turns = <<>> /\ \A x \in 1..n : T[x].kind # "user"
    BY <1>1, <1>3, <1>6 DEF NoneYet
  <2>2. new = st \/ new = ToolResult(st, r)
    BY <1>4, <1>6, <2>1 DEF NextRow
  <2>3. new.user = st.user /\ new.turns = st.turns
    BY <1>2, <2>2 DEF ToolResult, AnyLocals
  <2>4. NoneYet(new, T, n)
    BY <2>1, <2>3 DEF NoneYet
  <2>5. QED
    BY <1>4, <2>4 DEF PassMakes
<1>7. ASSUME r.kind # "user", NEW u \in Nat, OpenPrompt(T, m, u), st.user = T[u], TurnsAre(st.turns, T, m, u, merges),
             OpenIs(st, T, m, u, merges)
      PROVE  PassMakes(new, T, n, merges)
  <2>1. u \in 1..m /\ T[u].kind = "user" /\ \A x \in 1..m : u < x => T[x].kind # "user"
    BY <1>7 DEF OpenPrompt
  <2>2. OpenPrompt(T, n, u)
    BY <1>1, <1>3, <1>7, <2>1 DEF OpenPrompt
  <2>3. st.user # NoUser
    <3>1. T[u] \in AnyRow
      BY <1>1, <2>1 DEF IsTranscript
    <3>2. T[u] # NoUser
      BY <3>1, <2>1 DEF AnyRow, NoUser
    <3>3. QED
      BY <1>7, <3>2
  <2>4. TurnsAre(st.turns, T, n, u, merges)
    <3>1. u <= m
      BY <2>1
    <3>2. QED
      BY <1>1, <1>7, <2>1, <3>1, TurnsKept
  <2>5. ASSUME r.kind = "result" PROVE new.user = st.user /\ new.turns = st.turns /\ OpenIs(new, T, n, u, merges)
    <3>1. new = ToolResult(st, r)
      BY <1>4, <2>5 DEF NextRow
    <3>2. /\ new.user = st.user /\ new.turns = st.turns /\ new.order = st.order /\ new.msgs = st.msgs
          /\ new.group = st.group /\ new.noid = FALSE
          /\ new.results = IF r.tool = NoTool THEN st.results ELSE With(st.results, r.tool, r.ts)
      BY <1>2, <3>1 DEF ToolResult, AnyLocals
    <3>3. OpenIs(new, T, n, u, merges)
      BY <1>7, <2>5, <3>2, OpenResult
    <3>4. QED
      BY <3>2, <3>3
  <2>6. ASSUME r.kind = "system" PROVE new.user = st.user /\ new.turns = st.turns /\ OpenIs(new, T, n, u, merges)
    <3>1. new = st
      BY <1>4, <2>6 DEF NextRow
    <3>2. OpenIs(st, T, n, u, merges)
      BY <1>7, <2>6, OpenSystem
    <3>3. QED
      BY <3>1, <3>2
  <2>7. ASSUME r.kind = "assistant" PROVE new.user = st.user /\ new.turns = st.turns /\ OpenIs(new, T, n, u, merges)
    <3>1. CASE merges
      <4>1. new = MergedRow(st, r)
        BY <1>4, <2>3, <2>7, <3>1 DEF NextRow
      <4>2. OpenIs(new, T, n, u, merges)
        BY <1>2, <1>7, <2>7, <3>1, <4>1, OpenMerged
      <4>3. new.user = st.user /\ new.turns = st.turns
        BY <1>2, <4>1 DEF MergedRow, Put, AnyLocals
      <4>4. QED
        BY <4>2, <4>3
    <3>2. CASE ~ merges
      <4>1. new = LatestRow(st, r)
        BY <1>4, <2>3, <2>7, <3>2 DEF NextRow
      <4>2. OpenIs(new, T, n, u, merges)
        BY <1>2, <1>7, <2>7, <3>2, <4>1, OpenLatest
      <4>3. new.user = st.user /\ new.turns = st.turns
        BY <1>2, <4>1 DEF LatestRow, Put, AnyLocals
      <4>4. QED
        BY <4>2, <4>3
    <3>3. QED
      BY <3>1, <3>2
  <2>8. r.kind \in {"result", "assistant", "system"}
    BY <1>2, <1>7 DEF AnyRow
  <2>9. new.user = T[u] /\ new.turns = st.turns /\ OpenIs(new, T, n, u, merges)
    BY <1>7, <2>5, <2>6, <2>7, <2>8
  <2>10. QED
    BY <2>2, <2>4, <2>9 DEF PassMakes
<1>8. QED
  BY <1>4, <1>5, <1>6, <1>7 DEF PassMakes

\* Whatever the transcript, the turns made of it are the turns of its prompts.
LEMMA BuiltIs ==
    ASSUME NEW T, IsTranscript(T), NEW merges \in BOOLEAN
    PROVE  TurnsAre(FlushTurn(Built(T, merges)), T, Len(T), Len(T) + 1, merges)
<1>1. PICK f, len : f = Pass(T, merges) /\ len = Len(T)
  OBVIOUS
<1>2. len \in Nat /\ T \in Seq(AnyRow)
  BY <1>1 DEF IsTranscript
<1>3. PassOn(f, T, len, merges)
  BY <1>1, <1>2, PassIs
<1> DEFINE S == {n \in Nat : n <= len => PassTyped(f[n]) /\ PassMakes(f[n], T, n, merges)}
<1>4. 0 \in S
  <2>1. f[0] = Locals
    BY <1>2, <1>3 DEF PassOn
  <2>2. NoneYet(Locals, T, 0)
    BY DEF NoneYet, Locals
  <2>3. QED
    BY <2>1, <2>2, PassTypedFirst DEF PassMakes
<1>5. ASSUME NEW m \in Nat, m \in S PROVE m + 1 \in S
  <2>1. SUFFICES ASSUME m + 1 <= len PROVE PassTyped(f[m + 1]) /\ PassMakes(f[m + 1], T, m + 1, merges)
    OBVIOUS
  <2>2. PICK n : n = m + 1
    OBVIOUS
  <2>3. PassTyped(f[m]) /\ PassMakes(f[m], T, m, merges) /\ n \in 1..len /\ T[n] \in AnyRow
    BY <1>1, <1>2, <1>5, <2>1, <2>2
  <2>4. f[n] = NextRow(f[m], T[n], merges)
    BY <1>2, <1>3, <2>2, <2>3 DEF PassOn
  <2>5. IsStep(T, m, n, T[n])
    BY <1>1, <2>1, <2>2 DEF IsStep
  <2>6. PassTyped(f[n])
    BY <2>3, <2>4, NextAny
  <2>7. PassMakes(f[n], T, n, merges)
    BY <2>3, <2>4, <2>5, TurnsStep
  <2>8. QED
    BY <2>2, <2>6, <2>7
<1> HIDE DEF S
<1>6. Nat \subseteq S
  BY <1>4, <1>5, Induction
<1>7. PassTyped(f[len]) /\ PassMakes(f[len], T, len, merges)
  BY <1>2, <1>6 DEF S
<1>8. TurnsAre(FlushTurn(f[len]), T, len, len + 1, merges)
  BY <1>1, <1>2, <1>7, FlushIs
<1>9. QED
  BY <1>1, <1>8 DEF Built

-----------------------------------------------------------------------------
(* The turns of the transcript, row by row.                                *)

\* X are the rows at the places in S.
RowsAt(X, S) ==
    /\ S \subseteq 1..Len(transcript)
    /\ \A x : x \in X <=> x \in ToSet(transcript) /\ x.n \in S

LEMMA PlacesOfRows ==
    ASSUME IsTranscript(transcript)
    PROVE  /\ Len(transcript) \in Nat
           /\ \A x \in ToSet(transcript) : x.n \in 1..Len(transcript) /\ x = transcript[x.n]
           /\ \A i \in 1..Len(transcript) :
                transcript[i] \in ToSet(transcript) /\ transcript[i] \in AnyRow /\ transcript[i].n = i
<1>1. DOMAIN transcript = 1..Len(transcript) /\ Len(transcript) \in Nat
  BY DEF IsTranscript
<1>2. \A x \in ToSet(transcript) : \E i \in 1..Len(transcript) : x = transcript[i]
  BY <1>1 DEF ToSet
<1>3. \A i \in 1..Len(transcript) :
        transcript[i] \in ToSet(transcript) /\ transcript[i] \in AnyRow /\ transcript[i].n = i
  BY <1>1 DEF IsTranscript, ToSet
<1>4. \A x \in ToSet(transcript) : x.n \in 1..Len(transcript) /\ x = transcript[x.n]
  BY <1>2, <1>3
<1>5. QED
  BY <1>1, <1>3, <1>4

LEMMA BetweenIs ==
    ASSUME IsTranscript(transcript), NEW i \in 1..Len(transcript), NEW j \in 1..Len(transcript)
    PROVE  /\ \A x \in Between(i, j) : x.n \in 1..Len(transcript) /\ x = transcript[x.n]
                                       /\ ((i < x.n /\ x.n < j) \/ (j < x.n /\ x.n < i))
           /\ \A y \in 1..Len(transcript) : (i < y /\ y < j) \/ (j < y /\ y < i) => transcript[y] \in Between(i, j)
  BY PlacesOfRows DEF Between

LEMMA FollowingIs ==
    ASSUME IsTranscript(transcript), NEW p \in 1..Len(transcript), NEW kind
    PROVE  RowsAt(Following(transcript[p], kind), Follow(transcript, Len(transcript), p, kind))
<1>1. PICK len : len = Len(transcript)
  OBVIOUS
<1>2. len \in Nat /\ p \in 1..len /\ transcript[p].n = p
  BY <1>1, PlacesOfRows
<1>3. ASSUME NEW x \in Following(transcript[p], kind)
      PROVE  x \in ToSet(transcript) /\ x.n \in Follow(transcript, len, p, kind)
  <2>1. x \in ToSet(transcript) /\ x.kind = kind /\ x.n > p /\ \A y \in Between(p, x.n) : y.kind # "user"
    BY <1>2, <1>3 DEF Following
  <2>2. x.n \in 1..len /\ x = transcript[x.n]
    BY <1>1, <2>1, PlacesOfRows
  <2>3. \A y \in 1..len : p < y /\ y < x.n => transcript[y] \in Between(p, x.n)
    BY <1>1, <1>2, <2>2, BetweenIs
  <2>4. QED
    BY <1>2, <2>1, <2>2, <2>3 DEF Follow
<1>4. ASSUME NEW x \in ToSet(transcript), x.n \in Follow(transcript, len, p, kind)
      PROVE  x \in Following(transcript[p], kind)
  <2>1. x.n \in 1..len /\ x = transcript[x.n]
    BY <1>1, PlacesOfRows
  <2>2. p < x.n /\ transcript[x.n].kind = kind /\ \A y \in 1..len : p < y /\ y < x.n => transcript[y].kind # "user"
    BY <1>4 DEF Follow
  <2>3. \A y \in Between(p, x.n) : y.n \in 1..len /\ y = transcript[y.n] /\ p < y.n /\ y.n < x.n
    BY <1>1, <1>2, <2>1, <2>2, BetweenIs
  <2>4. \A y \in Between(p, x.n) : y.kind # "user"
    BY <2>2, <2>3
  <2>5. x.kind = kind /\ x.n > p
    BY <1>2, <2>1, <2>2
  <2>6. QED
    BY <1>2, <2>4, <2>5 DEF Following
<1>5. Follow(transcript, len, p, kind) \subseteq 1..len
  BY DEF Follow
<1>6. QED
  BY <1>1, <1>3, <1>4, <1>5 DEF RowsAt

LEMMA SameIs ==
    ASSUME IsTranscript(transcript), NEW ag, NEW i \in 1..Len(transcript), NEW j \in 1..Len(transcript)
    PROVE  OneMessage(ag, transcript[i], transcript[j]) <=> Same(transcript, i, j, ag # "claude-code")
<1>1. transcript[i].n = i /\ transcript[j].n = j
  BY PlacesOfRows
<1>2. transcript[i] = transcript[j] <=> i = j
  BY <1>1
<1>3. (\A x \in Between(i, j) : x.kind = "system" \/ (x.kind = "assistant" /\ x.id = NoId))
      <=> \A x \in 1..Len(transcript) : (i < x /\ x < j) \/ (j < x /\ x < i) => Joins(transcript[x])
  BY BetweenIs DEF Joins
<1>4. QED
  BY <1>1, <1>2, <1>3, Zenon DEF OneMessage, Same

\* The first block of a message is of one of its rows.
LEMMA FirstBlock ==
    ASSUME NEW m, NEW S, NEW merges \in BOOLEAN, MsgIs(m, transcript, S, merges)
    PROVE  \E a \in S : m.blocks[1] = transcript[a]
<1>1. CASE ~ merges
  BY <1>1 DEF MsgIs
<1>2. CASE merges
  <2>1. PICK f \in S : IF m.bare THEN m.blocks = <<transcript[f]>> ELSE ListsRows(m.blocks, transcript, S)
    BY <1>2 DEF MsgIs
  <2>2. CASE m.bare
    BY <2>1, <2>2
  <2>3. CASE ~ m.bare
    <3>1. PICK bs : bs = m.blocks
      OBVIOUS
    <3>2. ListsRows(bs, transcript, S)
      BY <2>1, <2>3, <3>1
    <3>3. PICK x \in DOMAIN bs : bs[x].n = f
      BY <2>1, <3>2 DEF ListsRows
    <3>4. 1 \in DOMAIN bs
      BY <3>2, <3>3 DEF ListsRows
    <3>5. bs[1].n \in S /\ bs[1] = transcript[bs[1].n]
      BY <3>2, <3>4 DEF ListsRows
    <3>6. QED
      BY <3>1, <3>5
  <2>4. QED
    BY <2>2, <2>3
<1>3. QED
  BY <1>1, <1>2

LEMMA ListsOne == \A x : Lists(<<x>>, {x})
  BY DEF Lists, ToSet

\* What is kept of a message.
LEMMA KeptIs ==
    ASSUME IsTranscript(transcript), NEW ag, NEW m, NEW S, MsgIs(m, transcript, S, ag # "claude-code"),
           NEW X, RowsAt(X, S)
    PROVE  Lists(m.blocks, Kept(ag, X))
<1>1. S \subseteq 1..Len(transcript) /\ Len(transcript) \in Nat
  BY PlacesOfRows DEF RowsAt
<1>a. \A i \in S : i \in Nat
  BY <1>1
<1>2. \A x \in X : x.n \in S /\ x = transcript[x.n]
  BY PlacesOfRows DEF RowsAt
<1>3. \A i \in S : transcript[i] \in X /\ transcript[i].n = i
  BY <1>1, PlacesOfRows DEF RowsAt
<1>4. CASE ag = "claude-code"
  <2>1. PICK i \in S : (\A j \in S : j <= i) /\ m.blocks = <<transcript[i]>>
    BY <1>4 DEF MsgIs
  <2>2. ASSUME NEW r \in X PROVE (\A s \in X : s.n <= r.n) <=> r = transcript[i]
    <3>1. CASE r = transcript[i]
      BY <1>2, <1>3, <2>1, <3>1
    <3>2. CASE \A s \in X : s.n <= r.n
      <4>1. i <= r.n /\ r.n <= i
        BY <1>2, <1>3, <2>1, <2>2, <3>2
      <4>2. r.n \in S /\ r = transcript[r.n]
        BY <1>2, <2>2
      <4>3. r.n = i
        BY <1>a, <2>1, <4>1, <4>2
      <4>4. r = transcript[i]
        BY <4>2, <4>3
      <4>5. QED
        BY <3>2, <4>4
    <3>3. QED
      BY <3>1, <3>2
  <2>3. {r \in X : \A s \in X : s.n <= r.n} = {transcript[i]}
    BY <1>3, <2>1, <2>2
  <2>4. Kept(ag, X) = {transcript[i]}
    BY <1>4, <2>3 DEF Kept
  <2>5. QED
    BY <2>1, <2>4, ListsOne
<1>5. CASE ag # "claude-code"
  <2>1. PICK f \in S : /\ \A j \in S : f <= j
                       /\ m.bare = transcript[f].bare
                       /\ IF m.bare THEN m.blocks = <<transcript[f]>> ELSE ListsRows(m.blocks, transcript, S)
    BY <1>5 DEF MsgIs
  <2>2. ASSUME NEW r \in X PROVE (\A s \in X : r.n <= s.n) <=> r = transcript[f]
    <3>1. CASE r = transcript[f]
      BY <1>2, <1>3, <2>1, <3>1
    <3>2. CASE \A s \in X : r.n <= s.n
      <4>1. f <= r.n /\ r.n <= f
        BY <1>2, <1>3, <2>1, <2>2, <3>2
      <4>2. r.n \in S /\ r = transcript[r.n]
        BY <1>2, <2>2
      <4>3. r.n = f
        BY <1>a, <2>1, <4>1, <4>2
      <4>4. r = transcript[f]
        BY <4>2, <4>3
      <4>5. QED
        BY <3>2, <4>4
    <3>3. QED
      BY <3>1, <3>2
  <2>3. {r \in X : \A s \in X : r.n <= s.n} = {transcript[f]}
    BY <1>3, <2>1, <2>2
  <2>4. Kept(ag, X) = IF transcript[f].bare THEN {transcript[f]} ELSE X
    BY <1>5, <2>3 DEF Kept
  <2>5. CASE m.bare
    BY <2>1, <2>4, <2>5, ListsOne
  <2>6. CASE ~ m.bare
    <3>1. PICK bs : bs = m.blocks
      OBVIOUS
    <3>2. ListsRows(bs, transcript, S)
      BY <2>1, <2>6, <3>1
    <3>3. \A x \in DOMAIN bs : bs[x] \in X
      BY <1>3, <3>2 DEF ListsRows
    <3>4. ASSUME NEW r \in X PROVE \E x \in DOMAIN bs : r = bs[x]
      <4>1. r.n \in S /\ r = transcript[r.n]
        BY <1>2, <3>4
      <4>2. PICK x \in DOMAIN bs : bs[x].n = r.n
        BY <3>2, <4>1 DEF ListsRows
      <4>3. QED
        BY <3>2, <4>1, <4>2 DEF ListsRows
    <3>5. ToSet(bs) = X
      BY <3>3, <3>4 DEF ToSet
    <3>6. Lists(bs, X)
      BY <3>2, <3>5 DEF Lists, ListsRows
    <3>7. QED
      BY <2>1, <2>4, <2>6, <3>1, <3>6
  <2>7. QED
    BY <2>5, <2>6
<1>6. QED
  BY <1>4, <1>5

LEMMA MessageIs ==
    ASSUME IsTranscript(transcript), NEW ag, NEW p \in 1..Len(transcript), NEW A, A = Ans(transcript, Len(transcript), p),
           NEW own, NEW ms, Core(own, ms, transcript, A, ag # "claude-code"), NEW k \in DOMAIN ms, NEW a \in Owned(own, A, k)
    PROVE  RowsAt(MessageOf(ag, transcript[p], transcript[a]), Owned(own, A, k))
<1>1. PICK X : X = AnswersOf(transcript[p])
  OBVIOUS
<1>2. RowsAt(X, A)
  BY <1>1, FollowingIs DEF AnswersOf, Ans
<1>3. A \subseteq 1..Len(transcript) /\ \A x : x \in X <=> x \in ToSet(transcript) /\ x.n \in A
  BY <1>2 DEF RowsAt
<1>4. a \in A /\ own[a] = k /\ a \in 1..Len(transcript)
  BY <1>3 DEF Owned
<1>5. \A b \in A : own[a] = own[b] <=> Same(transcript, a, b, ag # "claude-code")
  BY <1>4 DEF Core
<1>6. \A b \in A : OneMessage(ag, transcript[a], transcript[b]) <=> own[b] = k
  BY <1>3, <1>4, <1>5, SameIs
<1>7. \A x \in ToSet(transcript) : x = transcript[x.n]
  BY PlacesOfRows
<1>8. PICK M : M = MessageOf(ag, transcript[p], transcript[a])
  OBVIOUS
<1>9. \A x : x \in M <=> x \in X /\ OneMessage(ag, transcript[a], x)
  BY <1>1, <1>8 DEF MessageOf
<1>10. ASSUME NEW x PROVE x \in M <=> x \in ToSet(transcript) /\ x.n \in Owned(own, A, k)
  <2>1. CASE x \in X
    <3>1. x \in ToSet(transcript) /\ x.n \in A /\ x = transcript[x.n]
      BY <1>3, <1>7, <2>1
    <3>2. OneMessage(ag, transcript[a], x) <=> own[x.n] = k
      BY <1>6, <3>1
    <3>3. QED
      BY <1>9, <2>1, <3>1, <3>2 DEF Owned
  <2>2. CASE x \notin X
    BY <1>3, <1>9, <2>2 DEF Owned
  <2>3. QED
    BY <2>1, <2>2
<1>11. Owned(own, A, k) \subseteq 1..Len(transcript)
  BY <1>3 DEF Owned
<1>12. RowsAt(M, Owned(own, A, k))
  BY <1>10, <1>11 DEF RowsAt
<1>13. QED
  BY <1>8, <1>12

\* What the pass makes of a prompt is its turn by definition.
LEMMA TurnIsByDefinition ==
    ASSUME IsTranscript(transcript), NEW ag, NEW turn, TurnIs(turn, transcript, Len(transcript), ag # "claude-code")
    PROVE  TurnByDefinition(ag, turn)
<1> DEFINE n == Len(transcript)
<1>1. PICK p : p = turn.user.n
  OBVIOUS
<1>2. p \in 1..n /\ turn.user = transcript[p]
  BY <1>1 DEF TurnIs
<1>3. PICK own, ms, A : /\ Core(own, ms, transcript, A, ag # "claude-code")
                        /\ ms = turn.msgs /\ A = Ans(transcript, n, p)
  BY <1>1 DEF TurnIs
<1>4. PICK rs, R : ResultsAre(rs, transcript, R) /\ rs = turn.results /\ R = Res(transcript, n, p)
  BY <1>1 DEF TurnIs
<1>5. PICK X : X = AnswersOf(turn.user)
  OBVIOUS
<1>6. PICK Y : Y = ResultsOf(turn.user)
  OBVIOUS
<1>7. RowsAt(X, A)
  BY <1>2, <1>3, <1>5, FollowingIs DEF AnswersOf, Ans
<1>8. RowsAt(Y, R)
  <2>1. PICK F : F = Following(transcript[p], "result")
    OBVIOUS
  <2>2. RowsAt(F, Follow(transcript, n, p, "result"))
    BY <1>2, <2>1, FollowingIs
  <2>3. Y = {r \in F : r.tool # NoTool}
    BY <1>2, <1>6, <2>1 DEF ResultsOf
  <2>4. R = {i \in Follow(transcript, n, p, "result") : transcript[i].tool # NoTool}
    BY <1>4 DEF Res
  <2>5. \A x \in ToSet(transcript) : x = transcript[x.n]
    BY PlacesOfRows
  <2>6. QED
    BY <2>2, <2>3, <2>4, <2>5 DEF RowsAt
<1>9. PICK Of : Of = [k \in DOMAIN ms |-> MessageOf(ag, turn.user, ms[k].blocks[1])]
  OBVIOUS
<1>10. ASSUME NEW k \in DOMAIN ms
       PROVE  RowsAt(Of[k], Owned(own, A, k)) /\ MsgIs(ms[k], transcript, Owned(own, A, k), ag # "claude-code")
  <2>1. MsgIs(ms[k], transcript, Owned(own, A, k), ag # "claude-code")
    BY <1>3 DEF Core
  <2>2. PICK a \in Owned(own, A, k) : ms[k].blocks[1] = transcript[a]
    BY <2>1, FirstBlock
  <2>3. RowsAt(MessageOf(ag, transcript[p], transcript[a]), Owned(own, A, k))
    BY <1>2, <1>3, MessageIs
  <2>4. QED
    BY <1>2, <1>9, <2>1, <2>2, <2>3
<1>11. \A r \in X : r \in ToSet(transcript) /\ r.n \in A
  BY <1>7 DEF RowsAt
<1>12. ASSUME NEW r \in X PROVE \E k \in DOMAIN ms : r \in Of[k]
  <2>1. r.n \in A /\ own[r.n] \in DOMAIN ms /\ r.n \in Owned(own, A, own[r.n])
    BY <1>3, <1>11 DEF Core, Owned
  <2>2. r \in Of[own[r.n]]
    BY <1>10, <1>11, <2>1 DEF RowsAt
  <2>3. QED
    BY <2>1, <2>2
<1>13. \A k \in DOMAIN ms : Lists(ms[k].blocks, Kept(ag, Of[k]))
  BY <1>10, KeptIs
<1>14. ASSUME NEW j \in DOMAIN ms, NEW k \in DOMAIN ms, j < k
       PROVE  \E r \in Of[j] : \A s \in Of[k] : r.n < s.n
  <2>1. PICK a \in Owned(own, A, j) : \A b \in Owned(own, A, k) : a < b
    BY <1>3, <1>14 DEF Core
  <2>2. a \in 1..n /\ \A s \in Of[k] : s.n \in Owned(own, A, k)
    BY <1>10 DEF RowsAt
  <2>3. transcript[a] \in ToSet(transcript) /\ transcript[a].n = a
    BY <2>2, PlacesOfRows
  <2>4. transcript[a] \in Of[j]
    BY <1>10, <2>3 DEF RowsAt
  <2>5. QED
    BY <2>1, <2>2, <2>3, <2>4
<1>15. \A r \in Y : r.n \in R /\ r = transcript[r.n]
  BY <1>8, PlacesOfRows DEF RowsAt
<1>16. \A i \in R : transcript[i] \in Y /\ transcript[i].n = i
  BY <1>8, PlacesOfRows DEF RowsAt
<1>17. DOMAIN rs = {r.tool : r \in Y}
  <2>1. \A t \in DOMAIN rs : \E r \in Y : t = r.tool
    BY <1>4, <1>16 DEF ResultsAre
  <2>2. \A r \in Y : r.tool \in DOMAIN rs
    BY <1>4, <1>15 DEF ResultsAre
  <2>3. QED
    BY <2>1, <2>2
<1>18. ASSUME NEW r \in Y, \A s \in Y : s.tool = r.tool => s.n <= r.n PROVE rs[r.tool] = r.ts
  <2>1. r.n \in R /\ r = transcript[r.n]
    BY <1>15
  <2>2. \A j \in R : transcript[j].tool = transcript[r.n].tool => j <= r.n
    BY <1>16, <1>18, <2>1
  <2>3. rs[transcript[r.n].tool] = transcript[r.n].ts
    BY <1>4, <2>1, <2>2 DEF ResultsAre
  <2>4. QED
    BY <2>1, <2>3
<1>19. \A k \in DOMAIN turn.msgs : MessageOf(ag, turn.user, turn.msgs[k].blocks[1]) = Of[k]
  BY <1>3, <1>9
<1>20. /\ \A r \in AnswersOf(turn.user) : \E k \in DOMAIN turn.msgs : r \in MessageOf(ag, turn.user, turn.msgs[k].blocks[1])
       /\ \A k \in DOMAIN turn.msgs :
            Lists(turn.msgs[k].blocks, Kept(ag, MessageOf(ag, turn.user, turn.msgs[k].blocks[1])))
       /\ \A j, k \in DOMAIN turn.msgs :
            j < k => \E r \in MessageOf(ag, turn.user, turn.msgs[j].blocks[1]) :
                       \A s \in MessageOf(ag, turn.user, turn.msgs[k].blocks[1]) : r.n < s.n
  BY <1>3, <1>5, <1>12, <1>13, <1>14, <1>19
<1>21. /\ DOMAIN turn.results = {r.tool : r \in ResultsOf(turn.user)}
       /\ \A r \in ResultsOf(turn.user) :
            (\A s \in ResultsOf(turn.user) : s.tool = r.tool => s.n <= r.n) => turn.results[r.tool] = r.ts
  BY <1>4, <1>6, <1>17, <1>18
<1>22. QED
  BY <1>20, <1>21 DEF TurnByDefinition

LEMMA TurnsByDefinitionHere ==
    ASSUME IsTranscript(transcript)
    PROVE  TurnsByDefinition
<1> DEFINE n == Len(transcript)
<1>1. ASSUME NEW ag \in Agents
      PROVE  /\ Lists([i \in DOMAIN BuildTurns(ag, transcript) |-> BuildTurns(ag, transcript)[i].user],
                      {u \in ToSet(transcript) : u.kind = "user" /\ AnswersOf(u) # {}})
             /\ \A i \in DOMAIN BuildTurns(ag, transcript) : TurnByDefinition(ag, BuildTurns(ag, transcript)[i])
  <2>1. PICK ts : ts = BuildTurns(ag, transcript)
    OBVIOUS
  <2>2. PICK merges \in BOOLEAN : merges = (ag # "claude-code")
    OBVIOUS
  <2>3. ts = FlushTurn(Built(transcript, merges))
    BY <2>1, <2>2, BuildTurnsIs
  <2>4. TurnsAre(ts, transcript, n, n + 1, merges)
    BY <2>3, BuiltIs
  <2>5. \A i \in DOMAIN ts : TurnByDefinition(ag, ts[i])
    BY <2>2, <2>4, TurnIsByDefinition DEF TurnsAre
  <2>6. PICK us : us = [i \in DOMAIN ts |-> ts[i].user]
    OBVIOUS
  <2>7. ASSUME NEW p \in 1..n PROVE AnswersOf(transcript[p]) # {} <=> Ans(transcript, n, p) # {}
    <3>1. PICK X : X = AnswersOf(transcript[p])
      OBVIOUS
    <3>2. RowsAt(X, Ans(transcript, n, p))
      BY <3>1, FollowingIs DEF AnswersOf, Ans
    <3>3. QED
      BY <3>1, <3>2, PlacesOfRows DEF RowsAt
  <2>8. PICK U : U = {u \in ToSet(transcript) : u.kind = "user" /\ AnswersOf(u) # {}}
    OBVIOUS
  <2>9. ASSUME NEW i \in DOMAIN us PROVE us[i] \in U
    <3>1. us[i].n \in 1..n /\ us[i] = transcript[us[i].n] /\ transcript[us[i].n].kind = "user"
          /\ Ans(transcript, n, us[i].n) # {}
      BY <2>4, <2>6 DEF TurnsAre, TurnIs
    <3>2. us[i] \in ToSet(transcript)
      BY <3>1, PlacesOfRows
    <3>3. AnswersOf(us[i]) # {}
      BY <2>7, <3>1
    <3>4. QED
      BY <2>8, <3>1, <3>2, <3>3
  <2>10. ASSUME NEW u \in U PROVE \E i \in DOMAIN us : u = us[i]
    <3>1. u \in ToSet(transcript) /\ u.kind = "user" /\ AnswersOf(u) # {}
      BY <2>8
    <3>2. u.n \in 1..n /\ u = transcript[u.n] /\ n \in Nat
      BY <3>1, PlacesOfRows
    <3>3. Ans(transcript, n, u.n) # {} /\ transcript[u.n].kind = "user" /\ u.n < n + 1
      <4>1. Ans(transcript, n, u.n) # {}
        BY <2>7, <3>1, <3>2
      <4>2. transcript[u.n].kind = "user"
        BY <3>1, <3>2
      <4>3. \A k \in 1..n : k < n + 1
        BY <3>2
      <4>4. QED
        BY <3>2, <4>1, <4>2, <4>3
    <3>4. PICK i \in DOMAIN ts : ts[i].user.n = u.n
      BY <2>4, <3>2, <3>3 DEF TurnsAre
    <3>5. ts[i].user = transcript[ts[i].user.n]
      BY <2>4 DEF TurnsAre, TurnIs
    <3>6. QED
      BY <2>6, <3>2, <3>4, <3>5
  <2>11. ToSet(us) = U
    BY <2>9, <2>10 DEF ToSet
  <2>12. \A i, j \in DOMAIN us : i < j => us[i].n < us[j].n
    BY <2>4, <2>6 DEF TurnsAre
  <2>13. Lists(us, U)
    BY <2>11, <2>12 DEF Lists
  <2>14. QED
    BY <2>1, <2>5, <2>6, <2>8, <2>13
<1>2. QED
  BY <1>1 DEF TurnsByDefinition

\* The turns build_turns makes are those of the definition: the prompts that were answered, each with
\* its answers message by message and the last result of every tool, no row lost, doubled or moved.
THEOREM TurnsAreByDefinition == TurnsSpec => []TurnsByDefinition
<1>1. TranscriptTyped => TurnsByDefinition
  BY TurnsByDefinitionHere DEF TranscriptTyped, IsTranscript
<1>2. QED
  BY <1>1, TranscriptTypedAlways, PTL

=============================================================================
