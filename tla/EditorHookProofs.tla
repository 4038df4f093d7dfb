--------------------------- MODULE EditorHookProofs ---------------------------
(***************************************************************************)
(* Proofs about the Cursor hook and the OpenCode plugin, for any number of *)
(* conversations, sessions, processes, handlers, records, messages and     *)
(* failures.                                                               *)
(***************************************************************************)
EXTENDS CursorHook, OpencodeHook, WellFoundedInduction, TLAPS

\* What holds of 0, and of n + 1 when it holds of n, holds of every number.
LEMMA Induction ==
    ASSUME NEW S, 0 \in S, \A n \in Nat : n \in S => n + 1 \in S
    PROVE  Nat \subseteq S
<1> DEFINE Less == {p \in Nat \X Nat : p[1] < p[2]}
<1>1. IsWellFoundedOn(Less, Nat)
  BY NatLessThanWellFounded, Zenon DEF OpToRel
<1>2. SUFFICES ASSUME Nat \ S # {} PROVE FALSE
  OBVIOUS
<1>3. PICK x \in Nat \ S : \A y \in Nat \ S : ~ (<<y, x>> \in Less)
  <2>1. Nat \ S \subseteq Nat
    OBVIOUS
  <2> HIDE DEF Less
  <2>2. QED
    BY <1>1, <1>2, <2>1, WFMin, Zenon
<1>4. x # 0 /\ x - 1 \in Nat /\ x = (x - 1) + 1
  BY <1>3
<1>5. x - 1 \notin S
  BY <1>4
<1>6. <<x - 1, x>> \in Less
  BY <1>4
<1>7. QED
  BY <1>3, <1>4, <1>5, <1>6

LEMMA AppendFacts ==
    ASSUME NEW S, NEW s \in Seq(S), NEW x \in S
    PROVE  /\ Append(s, x) \in Seq(S) /\ Append(s, x) # <<>> /\ Len(Append(s, x)) = Len(s) + 1
           /\ DOMAIN Append(s, x) = 1..(Len(s) + 1) /\ Append(s, x)[Len(s) + 1] = x
           /\ \A j \in 1..Len(s) : Append(s, x)[j] = s[j]
           /\ ToSet(Append(s, x)) = ToSet(s) \cup {x}
<1>1. Append(s, x) \in Seq(S) /\ Append(s, x) # <<>> /\ Len(Append(s, x)) = Len(s) + 1
  <2>1. Append(s, x) \in Seq(S)
    OBVIOUS
  <2>2. Len(Append(s, x)) = Len(s) + 1 /\ Len(s) \in Nat
    OBVIOUS
  <2>3. Len(<<>>) = 0
    OBVIOUS
  <2>4. Append(s, x) # <<>>
    BY <2>2, <2>3
  <2>5. QED
    BY <2>1, <2>2, <2>4
<1>2. DOMAIN Append(s, x) = 1..(Len(s) + 1) /\ Append(s, x)[Len(s) + 1] = x
  <2>1. DOMAIN Append(s, x) = 1..(Len(s) + 1)
    BY <1>1
  <2>2. Append(s, x)[Len(s) + 1] = x
    OBVIOUS
  <2>3. QED
    BY <2>1, <2>2
<1>3. \A j \in 1..Len(s) : Append(s, x)[j] = s[j]
  OBVIOUS
<1>4. ToSet(Append(s, x)) = ToSet(s) \cup {x}
  <2>1. DOMAIN s = 1..Len(s) /\ Len(s) \in Nat
    OBVIOUS
  <2> DEFINE t == Append(s, x)
  <2>2. DOMAIN t = 1..(Len(s) + 1) /\ t[Len(s) + 1] = x /\ \A j \in 1..Len(s) : t[j] = s[j]
    BY <1>2, <1>3
  <2> HIDE DEF t
  <2>3. ToSet(t) = ToSet(s) \cup {x}
    BY <2>1, <2>2 DEF ToSet
  <2>4. QED
    BY <2>3 DEF t
<1>5. QED
  BY <1>1, <1>2, <1>3, <1>4

LEMMA ExceptFacts ==
    ASSUME NEW S, NEW s \in Seq(S), NEW i \in DOMAIN s, NEW x \in S
    PROVE  /\ [s EXCEPT ![i] = x] \in Seq(S) /\ DOMAIN [s EXCEPT ![i] = x] = DOMAIN s
           /\ [s EXCEPT ![i] = x][i] = x
           /\ \A j \in DOMAIN s : j # i => [s EXCEPT ![i] = x][j] = s[j]
  OBVIOUS

-----------------------------------------------------------------------------
(* CursorHook: the turns of a file.                                        *)

RecordSet == [n : 1..MaxRecords, kind : {"prompt", "generation 1", "generation 2"}]

SplitsOn(f, rs, n, prompts) ==
    f = [k \in 0..n |-> IF k = 0 THEN <<>> ELSE Add(f[k - 1], rs[k], prompts)]

LEMMA SplitsExist ==
    ASSUME NEW rs, NEW prompts
    PROVE  \A n \in Nat : \E f : SplitsOn(f, rs, n, prompts)
<1> DEFINE S == {n \in Nat : \E f : SplitsOn(f, rs, n, prompts)}
<1>1. 0 \in S
  <2>1. SplitsOn([k \in 0..0 |-> <<>>], rs, 0, prompts)
    BY DEF SplitsOn
  <2>2. QED
    BY <2>1
<1>2. ASSUME NEW n \in Nat, n \in S PROVE n + 1 \in S
  <2>1. PICK f : SplitsOn(f, rs, n, prompts)
    BY <1>2
  <2> DEFINE g == [k \in 0..(n + 1) |-> IF k = 0 THEN <<>> ELSE Add(f[k - 1], rs[k], prompts)]
  <2>2. \A k \in 0..n : f[k] = g[k]
    BY <2>1 DEF SplitsOn
  <2>3. \A k \in 0..(n + 1) : k # 0 => f[k - 1] = g[k - 1]
    <3> HIDE DEF g
    <3>1. QED
      BY <2>2
  <2>4. g = [k \in 0..(n + 1) |-> IF k = 0 THEN <<>> ELSE Add(g[k - 1], rs[k], prompts)]
    BY <2>3
  <2>5. SplitsOn(g, rs, n + 1, prompts)
    BY <2>4 DEF SplitsOn
  <2>6. QED
    BY <2>5
<1> HIDE DEF S
<1>3. Nat \subseteq S
  BY <1>1, <1>2, Induction
<1>4. QED
  BY <1>3 DEF S

LEMMA SplitsAre ==
    ASSUME NEW rs, NEW prompts, Len(rs) \in Nat
    PROVE  SplitsOn(Splits(rs, prompts), rs, Len(rs), prompts)
<1>1. \E f : SplitsOn(f, rs, Len(rs), prompts)
  BY SplitsExist
<1>2. SplitsOn(CHOOSE f : SplitsOn(f, rs, Len(rs), prompts), rs, Len(rs), prompts)
  BY <1>1, Zenon
<1>3. QED
  BY <1>2, Zenon DEF Splits, SplitsOn

\* The turns of the first k records: each of them is in one, and nothing else.
TurnsOf(ts, rs, k) ==
    /\ ts \in Seq(Seq(RecordSet))
    /\ \A j \in DOMAIN ts : ts[j] # <<>> /\ ToSet(ts[j]) \subseteq {rs[i] : i \in 1..k}
    /\ \A i \in 1..k : \E j \in DOMAIN ts : rs[i] \in ToSet(ts[j])
    /\ \A i, j \in DOMAIN ts : \A r \in ToSet(ts[i]), q \in ToSet(ts[j]) : r.n = q.n => i = j

LEMMA RecordAdded ==
    ASSUME NEW rs \in Seq(RecordSet), \A i, j \in DOMAIN rs : rs[i].n = rs[j].n => i = j,
           NEW k \in Nat, k + 1 <= Len(rs), NEW prompts, NEW ts, TurnsOf(ts, rs, k)
    PROVE  TurnsOf(Add(ts, rs[k + 1], prompts), rs, k + 1)
<1> DEFINE r == rs[k + 1]
<1> DEFINE us == Add(ts, r, prompts)
<1> DEFINE m == Len(ts)
<1>1. r \in RecordSet /\ ts \in Seq(Seq(RecordSet)) /\ m \in Nat /\ DOMAIN ts = 1..m
  BY DEF TurnsOf
<1>2. \A i \in 1..k : rs[i].n # r.n /\ i \in DOMAIN rs
  OBVIOUS
<1>3. \A j \in DOMAIN ts : \A q \in ToSet(ts[j]) : q.n # r.n
  BY <1>2 DEF TurnsOf
<1>4. PICK w \in Nat :
        /\ us \in Seq(Seq(RecordSet)) /\ w \in DOMAIN us /\ DOMAIN ts \subseteq DOMAIN us
        /\ ToSet(us[w]) = {r} \cup (IF w \in DOMAIN ts THEN ToSet(ts[w]) ELSE {}) /\ us[w] # <<>>
        /\ \A j \in DOMAIN us : j # w => j \in DOMAIN ts /\ us[j] = ts[j]
  <2>1. CASE ts # <<>> /\ ~ Opens(Last(Last(ts)), r, prompts)
    <3>1. m \in DOMAIN ts /\ ts[m] \in Seq(RecordSet)
      BY <1>1, <2>1
    <3>2. us = [ts EXCEPT ![m] = Append(ts[m], r)]
      BY <2>1 DEF Add
    <3> HIDE DEF us, r
    <3>3. Append(ts[m], r) \in Seq(RecordSet) /\ Append(ts[m], r) # <<>>
      BY <1>1, <3>1, AppendFacts
    <3>4. ToSet(Append(ts[m], r)) = ToSet(ts[m]) \cup {r}
      BY <1>1, <3>1, AppendFacts
    <3>5. us \in Seq(Seq(RecordSet)) /\ DOMAIN us = DOMAIN ts
      BY <1>1, <3>1, <3>2, <3>3, ExceptFacts
    <3>6. us[m] = Append(ts[m], r) /\ \A j \in DOMAIN us : j # m => us[j] = ts[j]
      BY <1>1, <3>1, <3>2, <3>3, <3>5, ExceptFacts
    <3>7. QED
      BY <1>1, <3>1, <3>3, <3>4, <3>5, <3>6
  <2>2. CASE ~ (ts # <<>> /\ ~ Opens(Last(Last(ts)), r, prompts))
    <3>1. us = Append(ts, <<r>>)
      BY <2>2 DEF Add
    <3>2. <<r>> \in Seq(RecordSet) /\ ToSet(<<r>>) = {r} /\ <<r>> # <<>>
      BY <1>1 DEF ToSet
    <3> HIDE DEF us, r
    <3>3. us \in Seq(Seq(RecordSet)) /\ DOMAIN us = 1..(m + 1) /\ us[m + 1] = <<r>>
      BY <1>1, <3>1, <3>2, AppendFacts
    <3>4. \A j \in 1..m : us[j] = ts[j]
      BY <1>1, <3>1, <3>2, AppendFacts
    <3>5. m + 1 \notin DOMAIN ts /\ m + 1 \in DOMAIN us /\ DOMAIN ts \subseteq DOMAIN us
      BY <1>1, <3>3
    <3>6. ToSet(us[m + 1]) = {r} \cup {} /\ us[m + 1] # <<>>
      BY <3>2, <3>3
    <3>7. \A j \in DOMAIN us : j # m + 1 => j \in DOMAIN ts /\ us[j] = ts[j]
      BY <1>1, <3>3, <3>4
    <3>8. IF m + 1 \in DOMAIN ts THEN FALSE ELSE TRUE
      BY <3>5
    <3>9. ToSet(us[m + 1]) = {r} \cup (IF m + 1 \in DOMAIN ts THEN ToSet(ts[m + 1]) ELSE {})
      BY <3>6, <3>8
    <3>10. m + 1 \in Nat
      BY <1>1
    <3>11. QED
      BY <3>3, <3>5, <3>6, <3>7, <3>9, <3>10, Zenon
  <2>3. QED
    BY <2>1, <2>2
<1> HIDE DEF us
<1>5. \A j \in DOMAIN us : us[j] # <<>> /\ ToSet(us[j]) \subseteq {rs[i] : i \in 1..(k + 1)}
  <2>1. \A j \in DOMAIN ts : ts[j] # <<>> /\ ToSet(ts[j]) \subseteq {rs[i] : i \in 1..(k + 1)}
    BY DEF TurnsOf
  <2>2. r \in {rs[i] : i \in 1..(k + 1)}
    OBVIOUS
  <2> HIDE DEF r
  <2>3. ToSet(us[w]) \subseteq {rs[i] : i \in 1..(k + 1)}
    BY <1>4, <2>1, <2>2
  <2>4. QED
    BY <1>4, <2>1, <2>3
<1>6. \A i \in 1..(k + 1) : \E j \in DOMAIN us : rs[i] \in ToSet(us[j])
  <2>1. ASSUME NEW i \in 1..k PROVE \E j \in DOMAIN us : rs[i] \in ToSet(us[j])
    <3>1. PICK j \in DOMAIN ts : rs[i] \in ToSet(ts[j])
      BY DEF TurnsOf
    <3>2. j \in DOMAIN us /\ ToSet(ts[j]) \subseteq ToSet(us[j])
      BY <1>4
    <3>3. QED
      BY <3>1, <3>2
  <2>2. rs[k + 1] \in ToSet(us[w])
    BY <1>4
  <2>3. \A i \in 1..(k + 1) : i \in 1..k \/ i = k + 1
    OBVIOUS
  <2>4. QED
    BY <1>4, <2>1, <2>2, <2>3, Zenon
<1>7. ASSUME NEW i \in DOMAIN us, NEW j \in DOMAIN us, NEW x \in ToSet(us[i]), NEW y \in ToSet(us[j]), x.n = y.n
      PROVE  i = j
  <2> HIDE DEF r
  <2>1. x = r \/ (i \in DOMAIN ts /\ x \in ToSet(ts[i]))
    BY <1>4
  <2>2. y = r \/ (j \in DOMAIN ts /\ y \in ToSet(ts[j]))
    BY <1>4
  <2>3. x = r => i = w
    <3>1. ASSUME x = r, i # w PROVE FALSE
      <4>1. i \in DOMAIN ts /\ x \in ToSet(ts[i])
        BY <1>4, <3>1
      <4>2. QED
        BY <1>3, <3>1, <4>1
    <3>2. QED
      BY <3>1
  <2>4. y = r => j = w
    <3>1. ASSUME y = r, j # w PROVE FALSE
      <4>1. j \in DOMAIN ts /\ y \in ToSet(ts[j])
        BY <1>4, <3>1
      <4>2. QED
        BY <1>3, <3>1, <4>1
    <3>2. QED
      BY <3>1
  <2>5. QED
    BY <1>3, <1>7, <2>1, <2>2, <2>3, <2>4 DEF TurnsOf
<1>8. QED
  BY <1>4, <1>5, <1>6, <1>7 DEF TurnsOf, r, us

LEMMA FileSplit ==
    ASSUME NEW rs \in Seq(RecordSet), \A i, j \in DOMAIN rs : rs[i].n = rs[j].n => i = j
    PROVE  TurnsOf(SplitTurns(rs), rs, Len(rs))
<1> DEFINE prompts == \E r \in ToSet(rs) : r.kind = "prompt"
<1> HIDE DEF prompts
<1>1. SplitsOn(Splits(rs, prompts), rs, Len(rs), prompts)
  BY SplitsAre
<1> DEFINE f == Splits(rs, prompts)
<1> DEFINE S == {k \in Nat : k <= Len(rs) => TurnsOf(f[k], rs, k)}
<1>2. 0 \in S
  <2>1. f[0] = <<>>
    BY <1>1 DEF SplitsOn
  <2>2. TurnsOf(<<>>, rs, 0)
    BY DEF TurnsOf
  <2>3. QED
    BY <2>1, <2>2
<1>3. ASSUME NEW k \in Nat, k \in S PROVE k + 1 \in S
  <2>1. SUFFICES ASSUME k + 1 <= Len(rs) PROVE TurnsOf(f[k + 1], rs, k + 1)
    OBVIOUS
  <2>2. f[k + 1] = Add(f[k], rs[k + 1], prompts)
    BY <1>1, <2>1 DEF SplitsOn
  <2>3. TurnsOf(f[k], rs, k)
    BY <1>3, <2>1
  <2> HIDE DEF f
  <2>4. QED
    BY <2>1, <2>2, <2>3, RecordAdded
<1> HIDE DEF S
<1>4. Len(rs) \in S /\ Len(rs) \in Nat
  BY <1>2, <1>3, Induction
<1>5. SplitTurns(rs) = f[Len(rs)]
  BY DEF SplitTurns, SplitAt, prompts
<1> HIDE DEF f
<1>6. QED
  BY <1>4, <1>5 DEF S

-----------------------------------------------------------------------------
(* CursorHook: the invariant.                                              *)

HookSet == [kind : {"none", "stop", "recovery"}, conv : Conversations \cup {NoConversation},
            read : SUBSET RecordSet, turns : Seq(Seq(RecordSet)), ok : BOOLEAN, todo : SUBSET Conversations]
Records(c) == ToSet(records[c])

CursorTypeOK ==
    /\ written \in 0..MaxRecords /\ failures \in Nat
    /\ records \in [Conversations -> Seq(RecordSet)]
    /\ hook \in [HookProcs -> HookSet]
    /\ reported \in [1..MaxRecords -> Nat]

\* A number names one record, in one place of one file.
FilesApart ==
    /\ \A c \in Conversations : \A r \in Records(c) : r.n <= written
    /\ \A c, d \in Conversations : \A r \in Records(c), q \in Records(d) : r.n = q.n => r = q /\ c = d
    /\ \A c \in Conversations : \A i, j \in DOMAIN records[c] : records[c][i].n = records[c][j].n => i = j

\* What a process holds it has read, and a record is in one of its turns.
HoldsWhatItRead(h) ==
    /\ h.conv = NoConversation => h.read = {} /\ h.turns = <<>>
    /\ h.kind = "none" => h = NoHook
    /\ \A r \in h.read : r.n <= written
    /\ \A j \in DOMAIN h.turns : ToSet(h.turns[j]) \subseteq h.read
    /\ \A i, j \in DOMAIN h.turns : \A r \in ToSet(h.turns[i]), q \in ToSet(h.turns[j]) : r.n = q.n => i = j
    /\ \A r \in h.read : \A c \in Conversations : \A q \in Records(c) : r.n = q.n => r = q /\ h.conv = c
ProcsHoldWhatTheyRead == \A p \in HookProcs : HoldsWhatItRead(hook[p])

Filed(n) == \E c \in Conversations : \E r \in Records(c) : r.n = n
HasRead(p, n) == \E r \in hook[p].read : r.n = n
HasTurn(p, n) == \E j \in DOMAIN hook[p].turns : \E r \in ToSet(hook[p].turns[j]) : r.n = n

\* A record that may leave its file.
Accounted(n) == reported[n] > 0 \/ <<n, "late">> \in waiver \/ <<n, "not taken">> \in waiver
NothingLost ==
    /\ \A n \in 1..written : Filed(n) \/ Accounted(n)
    /\ \A p \in HookProcs : \A n \in 1..written : HasRead(p, n) => HasTurn(p, n) \/ Accounted(n)

\* A record that may be in two traces.
Waived(n) == <<n, "read twice">> \in waiver \/ <<n, "kept">> \in waiver \/ <<n, "answer lost">> \in waiver
InOneTrace(n) ==
    /\ reported[n] <= 1
    /\ \A p \in HookProcs : HasTurn(p, n) => reported[n] = 0
    /\ reported[n] > 0 /\ Filed(n) => \E p \in HookProcs : HasRead(p, n)
    /\ \A p, q \in HookProcs : HasRead(p, n) /\ HasRead(q, n) => p = q
    /\ \A p \in HookProcs : HasRead(p, n) /\ hook[p].kind = "recovery" => hook[p].ok
DeliveredOnce ==
    /\ \A n \in 1..MaxRecords : n > written => reported[n] = 0
    /\ \A n \in 1..written : Waived(n) \/ InOneTrace(n)

CursorInv == CursorTypeOK /\ FilesApart /\ ProcsHoldWhatTheyRead /\ NothingLost /\ DeliveredOnce

LEMMA NoHookFacts ==
    /\ NoHook \in HookSet /\ NoHook.read = {} /\ NoHook.turns = <<>> /\ NoHook.conv = NoConversation
    /\ NoHook.kind = "none" /\ NoHook.todo = {}
  BY DEF NoHook, HookSet

LEMMA CursorBegins == CursorInit => CursorInv
<1> SUFFICES ASSUME CursorInit PROVE CursorInv
  OBVIOUS
<1>1. written = 0 /\ failures = 0 /\ MaxRecords \in Nat /\ \A c \in Conversations : records[c] = <<>> /\ Records(c) = {}
  BY CursorAssumption DEF CursorInit, Records, ToSet
<1>2. \A p \in HookProcs : hook[p] = NoHook
  BY DEF CursorInit
<1>3. CursorTypeOK
  <2>1. hook \in [HookProcs -> HookSet]
    BY NoHookFacts DEF CursorInit
  <2>2. records \in [Conversations -> Seq(RecordSet)]
    BY DEF CursorInit
  <2>3. reported \in [1..MaxRecords -> Nat]
    BY DEF CursorInit
  <2>4. QED
    BY <1>1, <2>1, <2>2, <2>3 DEF CursorTypeOK
<1>4. FilesApart
  BY <1>1 DEF FilesApart
<1>5. ProcsHoldWhatTheyRead
  BY <1>2, NoHookFacts DEF ProcsHoldWhatTheyRead, HoldsWhatItRead
<1>6. NothingLost
  BY <1>1 DEF NothingLost
<1>7. DeliveredOnce
  BY <1>1 DEF DeliveredOnce, CursorInit
<1>8. QED
  BY <1>3, <1>4, <1>5, <1>6, <1>7 DEF CursorInv

\* A record on file keeps its number to itself in the turns, too.
LEMMA FileTurns ==
    ASSUME CursorTypeOK, FilesApart, NEW c \in Conversations
    PROVE  LET ts == SplitTurns(records[c])
           IN  /\ ts \in Seq(Seq(RecordSet)) /\ Records(c) \subseteq RecordSet
               /\ \A j \in DOMAIN ts : ToSet(ts[j]) \subseteq Records(c)
               /\ \A r \in Records(c) : \E j \in DOMAIN ts : r \in ToSet(ts[j])
               /\ \A i, j \in DOMAIN ts : \A r \in ToSet(ts[i]), q \in ToSet(ts[j]) : r.n = q.n => i = j
<1> DEFINE rs == records[c]
<1> DEFINE ts == SplitTurns(rs)
<1>1. rs \in Seq(RecordSet) /\ (\A i, j \in DOMAIN rs : rs[i].n = rs[j].n => i = j) /\ Records(c) = ToSet(rs)
  BY DEF CursorTypeOK, FilesApart, Records
<1> HIDE DEF rs
<1>2. TurnsOf(ts, rs, Len(rs)) /\ DOMAIN rs = 1..Len(rs)
  BY <1>1, FileSplit
<1> HIDE DEF ts
<1>3. ToSet(rs) = {rs[i] : i \in 1..Len(rs)} /\ ToSet(rs) \subseteq RecordSet
  BY <1>1, <1>2 DEF ToSet
<1>4. /\ ts \in Seq(Seq(RecordSet)) /\ Records(c) \subseteq RecordSet
      /\ \A j \in DOMAIN ts : ToSet(ts[j]) \subseteq Records(c)
      /\ \A r \in Records(c) : \E j \in DOMAIN ts : r \in ToSet(ts[j])
      /\ \A i, j \in DOMAIN ts : \A r \in ToSet(ts[i]), q \in ToSet(ts[j]) : r.n = q.n => i = j
  BY <1>1, <1>2, <1>3 DEF TurnsOf
<1>5. QED
  BY <1>4 DEF ts, rs

\* Waivers are for good, and so are traces.
LEMMA StaysAccounted ==
    ASSUME NEW n, waiver \subseteq waiver', reported[n] \in Nat, reported'[n] \in Nat, reported[n] <= reported'[n]
    PROVE  (Accounted(n) => Accounted(n)') /\ (Waived(n) => Waived(n)')
<1>1. reported[n] > 0 => reported'[n] > 0
  OBVIOUS
<1>2. Accounted(n) => Accounted(n)'
  BY <1>1 DEF Accounted
<1>3. Waived(n) => Waived(n)'
  BY DEF Waived
<1>4. QED
  BY <1>2, <1>3

\* Files that stay or go, and a process that lets go of what it has read.
LEMMA LetsGo ==
    ASSUME CursorInv, NEW p \in HookProcs, NEW h \in HookSet, hook' = [hook EXCEPT ![p] = h],
           h.read = {}, h.turns = <<>>, h.kind = "none" => h = NoHook,
           written' = written, reported' = reported, waiver \subseteq waiver', failures' \in Nat,
           records' \in [Conversations -> Seq(RecordSet)],
           \A c \in Conversations :
             \/ records'[c] = records[c]
             \/ records'[c] = <<>> /\ \A r \in Records(c) : Accounted(r.n)',
           \A n \in 1..written : HasRead(p, n) => Waived(n)' \/ ~ Filed(n)'
    PROVE  CursorInv'
<1>1. /\ CursorTypeOK /\ FilesApart /\ ProcsHoldWhatTheyRead /\ NothingLost /\ DeliveredOnce
      /\ written \in Nat /\ MaxRecords \in Nat /\ written <= MaxRecords /\ hook \in [HookProcs -> HookSet]
      /\ reported \in [1..MaxRecords -> Nat]
  BY CursorAssumption DEF CursorInv, CursorTypeOK
<1>2. hook'[p] = h /\ (\A q \in HookProcs : q # p => hook'[q] = hook[q]) /\ hook' \in [HookProcs -> HookSet]
  BY <1>1
<1>3. \A c \in Conversations :
        /\ (records'[c] = records[c] /\ Records(c)' = Records(c)) \/ (records'[c] = <<>> /\ Records(c)' = {})
        /\ Records(c)' \subseteq Records(c)
  <2>1. \A c \in Conversations : records'[c] = records[c] => Records(c)' = Records(c)
    BY DEF Records
  <2>2. \A c \in Conversations : records'[c] = <<>> => Records(c)' = {}
    BY DEF Records, ToSet
  <2>3. QED
    BY <2>1, <2>2
<1>4. \A n \in 1..written : (Accounted(n) => Accounted(n)') /\ (Waived(n) => Waived(n)')
  <2>1. SUFFICES ASSUME NEW n \in 1..written PROVE (Accounted(n) => Accounted(n)') /\ (Waived(n) => Waived(n)')
    OBVIOUS
  <2>2. n \in 1..MaxRecords
    BY <1>1
  <2>3. reported[n] \in Nat /\ reported'[n] = reported[n]
    BY <1>1, <2>2
  <2>4. reported'[n] \in Nat /\ reported[n] <= reported'[n]
    BY <2>3
  <2>5. QED
    BY <2>3, <2>4, StaysAccounted
<1>5. CursorTypeOK'
  BY <1>1, <1>2 DEF CursorTypeOK
<1>6. FilesApart'
  <2>1. \A c \in Conversations : \A r \in Records(c)' : r.n <= written
    BY <1>1, <1>3 DEF FilesApart
  <2>2. \A c, d \in Conversations : \A r \in Records(c)', q \in Records(d)' : r.n = q.n => r = q /\ c = d
    BY <1>1, <1>3 DEF FilesApart
  <2>3. \A c \in Conversations : \A i, j \in DOMAIN records'[c] : records'[c][i].n = records'[c][j].n => i = j
    BY <1>1, <1>3 DEF FilesApart
  <2>4. QED
    BY <2>1, <2>2, <2>3 DEF FilesApart
<1>7. ProcsHoldWhatTheyRead'
  <2>1. HoldsWhatItRead(h)'
    BY DEF HoldsWhatItRead
  <2>2. ASSUME NEW q \in HookProcs, q # p PROVE HoldsWhatItRead(hook[q])'
    <3>1. HoldsWhatItRead(hook[q]) /\ hook'[q] = hook[q]
      BY <1>1, <1>2, <2>2 DEF ProcsHoldWhatTheyRead
    <3>2. \A r \in hook[q].read : \A c \in Conversations : \A x \in Records(c)' : r.n = x.n => r = x /\ hook[q].conv = c
      BY <1>3, <3>1 DEF HoldsWhatItRead
    <3>3. QED
      BY <3>1, <3>2 DEF HoldsWhatItRead
  <2>3. QED
    BY <1>2, <2>1, <2>2 DEF ProcsHoldWhatTheyRead
<1>8. \A n : HasRead(p, n)' = FALSE /\ HasTurn(p, n)' = FALSE
  BY <1>2 DEF HasRead, HasTurn
<1>9. \A q \in HookProcs : q # p => \A n : (HasRead(q, n)' <=> HasRead(q, n)) /\ (HasTurn(q, n)' <=> HasTurn(q, n))
  BY <1>2 DEF HasRead, HasTurn
<1>10. NothingLost'
  <2>1. ASSUME NEW n \in 1..written PROVE Filed(n)' \/ Accounted(n)'
    <3>1. CASE Accounted(n)
      BY <1>4, <3>1
    <3>2. CASE Filed(n)
      <4>1. PICK c \in Conversations : \E r \in Records(c) : r.n = n
        BY <3>2 DEF Filed
      <4>2. CASE records'[c] = records[c]
        BY <4>1, <4>2 DEF Filed, Records
      <4>3. CASE \A r \in Records(c) : Accounted(r.n)'
        BY <4>1, <4>3
      <4>4. QED
        BY <4>2, <4>3
    <3>3. QED
      BY <1>1, <3>1, <3>2 DEF NothingLost
  <2>2. ASSUME NEW q \in HookProcs, NEW n \in 1..written, HasRead(q, n)' PROVE HasTurn(q, n)' \/ Accounted(n)'
    <3>1. q # p
      BY <1>8, <2>2
    <3>2. HasRead(q, n) /\ (HasTurn(q, n)' <=> HasTurn(q, n))
      BY <1>9, <2>2, <3>1
    <3>3. QED
      BY <1>1, <1>4, <3>2 DEF NothingLost
  <2>3. QED
    BY <2>1, <2>2 DEF NothingLost
<1>11. DeliveredOnce'
  <2>1. ASSUME NEW n \in 1..written, ~ Waived(n)' PROVE InOneTrace(n)'
    <3>1. InOneTrace(n)
      BY <1>1, <1>4, <2>1 DEF DeliveredOnce
    <3>2. \A q \in HookProcs : HasTurn(q, n)' => reported'[n] = 0
      BY <1>8, <1>9, <3>1 DEF InOneTrace
    <3>3. ASSUME reported'[n] > 0, Filed(n)' PROVE \E q \in HookProcs : HasRead(q, n)'
      <4>1. Filed(n)
        BY <1>3, <3>3 DEF Filed
      <4>2. PICK q \in HookProcs : HasRead(q, n)
        BY <3>1, <3>3, <4>1 DEF InOneTrace
      <4>3. q # p
        BY <2>1, <3>3, <4>2
      <4>4. QED
        BY <1>9, <4>2, <4>3
    <3>4. \A q, x \in HookProcs : HasRead(q, n)' /\ HasRead(x, n)' => q = x
      BY <1>8, <1>9, <3>1 DEF InOneTrace
    <3>5. \A q \in HookProcs : HasRead(q, n)' /\ hook'[q].kind = "recovery" => hook'[q].ok
      BY <1>2, <1>8, <1>9, <3>1 DEF InOneTrace
    <3>6. reported'[n] <= 1
      BY <3>1 DEF InOneTrace
    <3>7. QED
      BY <3>2, <3>3, <3>4, <3>5, <3>6 DEF InOneTrace
  <2>2. \A n \in 1..MaxRecords : n > written => reported'[n] = 0
    BY <1>1 DEF DeliveredOnce
  <2>3. QED
    BY <2>1, <2>2 DEF DeliveredOnce
<1>12. QED
  BY <1>5, <1>6, <1>7, <1>10, <1>11 DEF CursorInv

LEMMA HookExcept ==
    ASSUME NEW h \in HookSet
    PROVE  /\ [h EXCEPT !.turns = <<>>] \in HookSet /\ [h EXCEPT !.turns = <<>>].read = h.read
           /\ [h EXCEPT !.turns = <<>>].turns = <<>> /\ [h EXCEPT !.turns = <<>>].kind = h.kind
           /\ h.turns = <<>> => [h EXCEPT !.turns = <<>>] = h
           /\ [h EXCEPT !.conv = NoConversation, !.read = {}, !.ok = TRUE] \in HookSet
           /\ [h EXCEPT !.conv = NoConversation, !.read = {}, !.ok = TRUE].read = {}
           /\ [h EXCEPT !.conv = NoConversation, !.read = {}, !.ok = TRUE].turns = h.turns
           /\ [h EXCEPT !.conv = NoConversation, !.read = {}, !.ok = TRUE].kind = h.kind
<1>1. <<>> \in Seq(Seq(RecordSet))
  OBVIOUS
<1>2. [h EXCEPT !.turns = <<>>] \in HookSet
  BY <1>1 DEF HookSet
<1>3. [h EXCEPT !.turns = <<>>].read = h.read /\ [h EXCEPT !.turns = <<>>].turns = <<>> /\ [h EXCEPT !.turns = <<>>].kind = h.kind
  BY DEF HookSet
<1>4. ASSUME h.turns = <<>> PROVE [h EXCEPT !.turns = <<>>] = h
  BY <1>4 DEF HookSet
<1>5. [h EXCEPT !.conv = NoConversation, !.read = {}, !.ok = TRUE] \in HookSet
  BY DEF HookSet
<1>6. /\ [h EXCEPT !.conv = NoConversation, !.read = {}, !.ok = TRUE].read = {}
      /\ [h EXCEPT !.conv = NoConversation, !.read = {}, !.ok = TRUE].turns = h.turns
      /\ [h EXCEPT !.conv = NoConversation, !.read = {}, !.ok = TRUE].kind = h.kind
  BY DEF HookSet
<1>7. QED
  BY <1>2, <1>3, <1>4, <1>5, <1>6

\* What a hook is left with when it lets go.
LEMMA EndsFacts ==
    ASSUME CursorInv, NEW p \in HookProcs, hook[p].kind # "none"
    PROVE  /\ AfterFile(p) \in HookSet /\ AfterFile(p).read = {}
           /\ AfterFile(p).kind = "none" => AfterFile(p) = NoHook
           /\ AfterFile(p) = NoHook \/ AfterFile(p).turns = hook[p].turns
<1> DEFINE h == hook[p]
<1>1. h \in HookSet
  BY DEF CursorInv, CursorTypeOK
<1>2. AfterFile(p) = NoHook \/ AfterFile(p) = [h EXCEPT !.conv = NoConversation, !.read = {}, !.ok = TRUE]
  BY DEF AfterFile
<1>3. h.kind # "none"
  OBVIOUS
<1> HIDE DEF h
<1>4. QED
  BY <1>1, <1>2, <1>3, HookExcept, NoHookFacts DEF h

LEMMA WaiveFacts == ASSUME NEW S, NEW what, NEW r \in S PROVE <<r.n, what>> \in Waive(S, what)
  BY DEF Waive, Numbers

LEMMA RecordFacts == \A r \in RecordSet : r.n \in Nat /\ r.n >= 1 /\ r.n <= MaxRecords
<1> SUFFICES ASSUME NEW r \in RecordSet PROVE r.n \in Nat /\ r.n >= 1 /\ r.n <= MaxRecords
  OBVIOUS
<1>1. r.n \in 1..MaxRecords /\ MaxRecords \in Nat
  BY CursorAssumption DEF RecordSet
<1>2. QED
  BY <1>1

LEMMA HookFacts ==
    ASSUME CursorInv, NEW p \in HookProcs
    PROVE  /\ hook[p] \in HookSet /\ HoldsWhatItRead(hook[p])
           /\ hook[p].turns # <<>> \/ hook[p].conv # NoConversation \/ hook[p].read # {} => hook[p].kind # "none"
           /\ failures \in Nat /\ hook \in [HookProcs -> HookSet] /\ records \in [Conversations -> Seq(RecordSet)]
           /\ reported \in [1..MaxRecords -> Nat] /\ written \in Nat /\ MaxRecords \in Nat /\ written <= MaxRecords
<1>1. HoldsWhatItRead(hook[p])
  BY DEF CursorInv, ProcsHoldWhatTheyRead
<1>2. hook[p] \in HookSet /\ failures \in Nat /\ written \in 0..MaxRecords
  BY DEF CursorInv, CursorTypeOK
<1>3. hook[p].turns # <<>> \/ hook[p].conv # NoConversation \/ hook[p].read # {} => hook[p].kind # "none"
  BY <1>1, NoHookFacts DEF HoldsWhatItRead
<1>4. hook \in [HookProcs -> HookSet] /\ records \in [Conversations -> Seq(RecordSet)] /\ reported \in [1..MaxRecords -> Nat]
  BY DEF CursorInv, CursorTypeOK
<1>5. QED
  BY <1>1, <1>2, <1>3, <1>4, CursorAssumption

LEMMA BuildFailsStep ==
    ASSUME CursorInv, NEW p \in HookProcs, BuildFails(p)
    PROVE  CursorInv'
<1> DEFINE h == [AfterFile(p) EXCEPT !.turns = <<>>]
<1>1. /\ hook' = [hook EXCEPT ![p] = h] /\ hook[p].turns # <<>> /\ failures' = failures + 1
      /\ waiver' = waiver \cup Waive(hook[p].read, "kept")
      /\ records' = records /\ reported' = reported /\ written' = written
  BY DEF BuildFails, Fails
<1>2. hook[p].kind # "none" /\ failures' \in Nat /\ records' \in [Conversations -> Seq(RecordSet)]
  BY <1>1, HookFacts
<1>3. AfterFile(p) \in HookSet /\ AfterFile(p).read = {} /\ (AfterFile(p).kind = "none" => AfterFile(p) = NoHook)
  BY <1>2, EndsFacts
<1>4. h \in HookSet /\ h.read = {} /\ h.turns = <<>> /\ h.kind = AfterFile(p).kind
  BY <1>3, HookExcept
<1>5. h.kind = "none" => h = NoHook
  <2>1. NoHook \in HookSet /\ NoHook.turns = <<>>
    BY NoHookFacts
  <2>2. [NoHook EXCEPT !.turns = <<>>] = NoHook
    BY <2>1, HookExcept
  <2>3. QED
    BY <1>3, <1>4, <2>2
<1> HIDE DEF h
<1>6. \A n \in 1..written : HasRead(p, n) => Waived(n)' \/ ~ Filed(n)'
  BY <1>1, WaiveFacts DEF HasRead, Waived
<1>7. QED
  BY <1>1, <1>2, <1>4, <1>5, <1>6, LetsGo

LEMMA UnlinkFailsStep ==
    ASSUME CursorInv, NEW p \in HookProcs, UnlinkFails(p)
    PROVE  CursorInv'
<1> DEFINE h == AfterFile(p)
<1>1. /\ hook' = [hook EXCEPT ![p] = h] /\ hook[p].turns = <<>> /\ failures' = failures + 1
      /\ hook[p].conv # NoConversation
      /\ waiver' = waiver \cup Waive(hook[p].read, "kept")
      /\ records' = records /\ reported' = reported /\ written' = written
  BY DEF UnlinkFails, Fails
<1>2. hook[p].kind # "none" /\ failures' \in Nat /\ records' \in [Conversations -> Seq(RecordSet)]
  BY <1>1, HookFacts, NoHookFacts
<1>3. h \in HookSet /\ h.read = {} /\ (h.kind = "none" => h = NoHook) /\ h.turns = <<>>
  BY <1>1, <1>2, EndsFacts, NoHookFacts
<1> HIDE DEF h
<1>6. \A n \in 1..written : HasRead(p, n) => Waived(n)' \/ ~ Filed(n)'
  BY <1>1, WaiveFacts DEF HasRead, Waived
<1>7. QED
  BY <1>1, <1>2, <1>3, <1>6, LetsGo

LEMMA DiesStep ==
    ASSUME CursorInv, NEW p \in HookProcs, Dies(p)
    PROVE  CursorInv'
<1>1. /\ hook' = [hook EXCEPT ![p] = NoHook] /\ failures' = failures + 1
      /\ waiver' = waiver \cup Waive(hook[p].read, "kept")
      /\ records' = records /\ reported' = reported /\ written' = written
  BY DEF Dies, Fails
<1>2. failures' \in Nat /\ records' \in [Conversations -> Seq(RecordSet)]
  BY <1>1, HookFacts
<1>3. \A n \in 1..written : HasRead(p, n) => Waived(n)' \/ ~ Filed(n)'
  BY <1>1, WaiveFacts DEF HasRead, Waived
<1>4. QED
  BY <1>1, <1>2, <1>3, NoHookFacts, LetsGo

\* A recovery that begins, passes a file or ends.
LEMMA RecoversNothing ==
    ASSUME CursorInv, NEW p \in HookProcs, NEW h \in HookSet, hook' = [hook EXCEPT ![p] = h],
           hook[p].read = {}, h.read = {}, h.turns = <<>>, h.kind = "none" => h = NoHook,
           UNCHANGED <<records, written, failures, reported, waiver>>
    PROVE  CursorInv'
<1>1. failures' \in Nat /\ records' \in [Conversations -> Seq(RecordSet)]
  BY HookFacts
<1>2. \A n : ~ HasRead(p, n)
  BY DEF HasRead
<1>3. QED
  BY <1>1, <1>2, LetsGo

LEMMA SessionStartStep ==
    ASSUME CursorInv, NEW p \in HookProcs, NEW c \in Conversations, HandleSessionStart(p, c)
    PROVE  CursorInv'
<1> DEFINE todo == {d \in Conversations \ {c} : records[d] # <<>>}
<1> DEFINE h == [NoHook EXCEPT !.kind = "recovery", !.todo = todo]
<1>1. hook' = [hook EXCEPT ![p] = h] /\ hook[p] = NoHook /\ UNCHANGED <<records, written, failures, reported, waiver>>
  BY DEF HandleSessionStart
<1>2. todo \subseteq Conversations
  OBVIOUS
<1> HIDE DEF todo
<1>3. h \in HookSet /\ h.read = {} /\ h.turns = <<>> /\ h.kind # "none"
  BY <1>2, NoHookFacts DEF HookSet, NoHook
<1> HIDE DEF h
<1>4. QED
  BY <1>1, <1>3, NoHookFacts, RecoversNothing

LEMMA RecoveredStep ==
    ASSUME CursorInv, NEW p \in HookProcs, Recovered(p)
    PROVE  CursorInv'
<1>1. hook[p].read = {}
  BY HookFacts DEF Recovered, HoldsWhatItRead
<1>2. hook' = [hook EXCEPT ![p] = NoHook] /\ UNCHANGED <<records, written, failures, reported, waiver>>
  BY DEF Recovered
<1>3. QED
  BY <1>1, <1>2, NoHookFacts, RecoversNothing

LEMMA FilePassed ==
    ASSUME CursorInv, NEW p \in HookProcs, NEW d, hook[p].kind = "recovery", hook[p].conv = NoConversation,
           hook' = [hook EXCEPT ![p].todo = @ \ {d}], UNCHANGED <<records, written, failures, reported, waiver>>
    PROVE  CursorInv'
<1>1. hook[p] \in HookSet /\ hook \in [HookProcs -> HookSet] /\ hook[p].read = {} /\ hook[p].turns = <<>>
  BY HookFacts DEF HoldsWhatItRead
<1> DEFINE h == [hook[p] EXCEPT !.todo = @ \ {d}]
<1>2. hook' = [hook EXCEPT ![p] = h]
  BY <1>1
<1>3. h \in HookSet /\ h.read = {} /\ h.turns = <<>> /\ h.kind = "recovery"
  <2> DEFINE o == hook[p]
  <2>1. o \in HookSet /\ o.read = {} /\ o.turns = <<>> /\ o.kind = "recovery"
    BY <1>1
  <2> HIDE DEF o
  <2>2. [o EXCEPT !.todo = @ \ {d}] \in HookSet /\ [o EXCEPT !.todo = @ \ {d}].read = {}
        /\ [o EXCEPT !.todo = @ \ {d}].turns = <<>> /\ [o EXCEPT !.todo = @ \ {d}].kind = "recovery"
    BY <2>1 DEF HookSet
  <2>3. QED
    BY <2>2 DEF o
<1> HIDE DEF h
<1>4. QED
  BY <1>1, <1>2, <1>3, RecoversNothing

LEMMA DeleteStep ==
    ASSUME CursorInv, NEW p \in HookProcs, DeleteStateFile(p)
    PROVE  CursorInv'
<1>c. PICK c : c = hook[p].conv
  OBVIOUS
<1> DEFINE deletes == hook[p].kind = "stop" \/ hook[p].ok
<1>1. /\ c # NoConversation /\ hook[p].turns = <<>>
      /\ records' = IF deletes THEN [records EXCEPT ![c] = <<>>] ELSE records
      /\ waiver' = waiver \cup (IF deletes THEN Waive(ToSet(records[c]) \ hook[p].read, "late") ELSE {})
      /\ hook' = [hook EXCEPT ![p] = AfterFile(p)]
      /\ UNCHANGED <<written, failures, reported>>
  BY <1>c DEF DeleteStateFile, Deletes
<1>2. /\ hook[p] \in HookSet /\ HoldsWhatItRead(hook[p]) /\ hook[p].kind # "none"
      /\ failures' \in Nat /\ records \in [Conversations -> Seq(RecordSet)]
      /\ reported \in [1..MaxRecords -> Nat] /\ written \in Nat /\ MaxRecords \in Nat /\ written <= MaxRecords
  BY <1>c, <1>1, HookFacts
<1>3. c \in Conversations /\ hook[p].kind \in {"stop", "recovery"}
  BY <1>c, <1>1, <1>2 DEF HookSet
<1> HIDE DEF deletes
<1>4. AfterFile(p) \in HookSet /\ AfterFile(p).read = {} /\ AfterFile(p).turns = <<>> /\ (AfterFile(p).kind = "none" => AfterFile(p) = NoHook)
  BY <1>1, <1>2, EndsFacts, NoHookFacts
<1>5. records' \in [Conversations -> Seq(RecordSet)]
  <2>1. <<>> \in Seq(RecordSet)
    OBVIOUS
  <2>2. [records EXCEPT ![c] = <<>>] \in [Conversations -> Seq(RecordSet)]
    BY <1>2, <1>3, <2>1
  <2>3. QED
    BY <1>1, <1>2, <2>2
<1>6. waiver \subseteq waiver'
  BY <1>1
<1>7. \A n \in 1..written : HasRead(p, n) => Accounted(n)
  BY <1>1 DEF CursorInv, NothingLost, HasTurn
<1>8. \A d \in Conversations : records'[d] = records[d] \/ (records'[d] = <<>> /\ \A r \in Records(d) : Accounted(r.n)')
  <2>1. ASSUME deletes, NEW r \in Records(c) PROVE Accounted(r.n)'
    <3>1. r \in RecordSet /\ r.n <= written
      BY <1>3 DEF CursorInv, FilesApart, CursorTypeOK, Records, ToSet
    <3>2. r.n \in 1..written
      BY <1>2, <3>1, RecordFacts
    <3>3. CASE r \in hook[p].read
      <4>1. Accounted(r.n)
        BY <1>7, <3>2, <3>3 DEF HasRead
      <4>2. QED
        BY <1>1, <1>2, <1>6, <3>2, <4>1, StaysAccounted
    <3>4. CASE r \notin hook[p].read
      BY <1>1, <2>1, <3>4, WaiveFacts DEF Records, Accounted
    <3>5. QED
      BY <3>3, <3>4
  <2>2. CASE deletes
    BY <1>1, <1>2, <1>3, <2>1, <2>2
  <2>3. CASE ~ deletes
    BY <1>1, <2>3
  <2>4. QED
    BY <2>2, <2>3
<1>9. ASSUME NEW n \in 1..written, HasRead(p, n) PROVE Waived(n)' \/ ~ Filed(n)'
  <2>1. CASE deletes
    <3>1. SUFFICES ASSUME NEW d \in Conversations, NEW q \in Records(d)', q.n = n PROVE FALSE
      BY DEF Filed
    <3>2. d # c /\ q \in Records(d)
      <4>1. records'[c] = <<>> /\ \A e \in Conversations : e # c => records'[e] = records[e]
        BY <1>1, <1>2, <1>3, <2>1
      <4>2. Records(c)' = {}
        BY <1>3, <4>1 DEF Records, ToSet
      <4>3. QED
        BY <3>1, <4>1, <4>2 DEF Records
    <3>3. PICK r \in hook[p].read : r.n = n
      BY <1>9 DEF HasRead
    <3>4. QED
      BY <1>c, <1>2, <3>1, <3>2, <3>3 DEF HoldsWhatItRead
  <2>2. CASE ~ deletes
    <3>1. ~ InOneTrace(n)
      BY <1>3, <1>9, <2>2 DEF InOneTrace, deletes
    <3>2. Waived(n)
      BY <3>1 DEF CursorInv, DeliveredOnce
    <3>3. QED
      BY <1>6, <3>2 DEF Waived
  <2>3. QED
    BY <2>1, <2>2
<1>10. QED
  BY <1>1, <1>2, <1>4, <1>5, <1>6, <1>8, <1>9, LetsGo

\* A hook reads a file.
LEMMA ReadsStep ==
    ASSUME CursorInv, NEW p \in HookProcs, NEW c \in Conversations, NEW kind \in {"stop", "recovery"},
           NEW todo, todo \subseteq Conversations, hook[p].read = {},
           Reads(p, c, kind, todo), UNCHANGED <<records, written, failures, reported>>
    PROVE  CursorInv'
<1>a. PICK ts : ts = SplitTurns(records[c])
  OBVIOUS
<1>b. PICK h : h = [kind |-> kind, conv |-> c, read |-> Records(c), turns |-> ts, ok |-> TRUE, todo |-> todo]
  OBVIOUS
<1>1. /\ CursorTypeOK /\ FilesApart /\ ProcsHoldWhatTheyRead /\ NothingLost /\ DeliveredOnce
      /\ written \in Nat /\ written <= MaxRecords /\ MaxRecords \in Nat /\ hook \in [HookProcs -> HookSet]
  BY CursorAssumption DEF CursorInv, CursorTypeOK
<1>2. hook' = [hook EXCEPT ![p] = h] /\ waiver' = waiver \cup Waive(Records(c) \cap ReadByOthers(p, c), "read twice")
  BY <1>a, <1>b DEF Reads, Records
<1>3. /\ ts \in Seq(Seq(RecordSet)) /\ Records(c) \subseteq RecordSet
      /\ \A j \in DOMAIN ts : ToSet(ts[j]) \subseteq Records(c)
      /\ \A r \in Records(c) : \E j \in DOMAIN ts : r \in ToSet(ts[j])
      /\ \A i, j \in DOMAIN ts : \A r \in ToSet(ts[i]), q \in ToSet(ts[j]) : r.n = q.n => i = j
  <2> DEFINE us == SplitTurns(records[c])
  <2>1. /\ us \in Seq(Seq(RecordSet)) /\ Records(c) \subseteq RecordSet
        /\ \A j \in DOMAIN us : ToSet(us[j]) \subseteq Records(c)
        /\ \A r \in Records(c) : \E j \in DOMAIN us : r \in ToSet(us[j])
        /\ \A i, j \in DOMAIN us : \A r \in ToSet(us[i]), q \in ToSet(us[j]) : r.n = q.n => i = j
    BY <1>1, FileTurns
  <2>2. us = ts
    BY <1>a
  <2> HIDE DEF us
  <2>3. QED
    BY <2>1, <2>2
<1>4. /\ h.kind = kind /\ h.conv = c /\ h.read = Records(c) /\ h.turns = ts /\ h.ok = TRUE
  BY <1>b
<1>5. h \in HookSet
  BY <1>b, <1>3 DEF HookSet
<1>6. hook'[p] = h /\ (\A q \in HookProcs : q # p => hook'[q] = hook[q]) /\ hook' \in [HookProcs -> HookSet]
  BY <1>1, <1>2, <1>5
<1>7. \A d \in Conversations : Records(d)' = Records(d)
  BY DEF Records
<1>8. \A n : (Filed(n)' <=> Filed(n)) /\ (Accounted(n) => Accounted(n)') /\ (Waived(n) => Waived(n)')
  BY <1>2, <1>7 DEF Filed, Accounted, Waived
<1>9. \A n : HasRead(p, n)' <=> \E r \in Records(c) : r.n = n
  BY <1>4, <1>6 DEF HasRead
<1>10. \A n : HasTurn(p, n)' <=> \E r \in Records(c) : r.n = n
  <2>1. \A n : HasTurn(p, n)' <=> \E j \in DOMAIN ts : \E r \in ToSet(ts[j]) : r.n = n
    BY <1>4, <1>6 DEF HasTurn
  <2>2. QED
    BY <1>3, <2>1
<1>11. \A q \in HookProcs : q # p => \A n : (HasRead(q, n)' <=> HasRead(q, n)) /\ (HasTurn(q, n)' <=> HasTurn(q, n))
  BY <1>6 DEF HasRead, HasTurn
<1>12. \A n : ~ HasRead(p, n)
  BY DEF HasRead
<1>13. ASSUME NEW q \in HookProcs, q # p, NEW n, HasRead(q, n), NEW x \in Records(c), x.n = n PROVE Waived(n)'
  <2>1. PICK r \in hook[q].read : r.n = n
    BY <1>13 DEF HasRead
  <2>2. r = x /\ hook[q].conv = c
    BY <1>1, <1>13, <2>1 DEF ProcsHoldWhatTheyRead, HoldsWhatItRead
  <2>3. x \in Records(c) \cap ReadByOthers(p, c)
    BY <1>13, <2>1, <2>2 DEF ReadByOthers
  <2>4. <<n, "read twice">> \in waiver'
    BY <1>2, <1>13, <2>3, WaiveFacts
  <2>5. QED
    BY <2>4 DEF Waived
<1>14. CursorTypeOK'
  BY <1>1, <1>6 DEF CursorTypeOK
<1>15. FilesApart'
  BY <1>1, <1>7 DEF FilesApart
<1>16. ProcsHoldWhatTheyRead'
  <2>1. HoldsWhatItRead(h)'
    <3>1. c # NoConversation
      BY CursorAssumption
    <3>2. \A r \in Records(c) : r.n <= written'
      BY <1>1 DEF FilesApart
    <3>3. \A r \in Records(c) : \A d \in Conversations : \A q \in Records(d)' : r.n = q.n => r = q /\ c = d
      BY <1>1, <1>7 DEF FilesApart
    <3>4. QED
      <4>1. h.conv # NoConversation /\ h.kind # "none"
        BY <1>4, <3>1
      <4>2. \A r \in h.read : r.n <= written'
        BY <1>4, <3>2
      <4>3. \A j \in DOMAIN h.turns : ToSet(h.turns[j]) \subseteq h.read
        BY <1>3, <1>4
      <4>4. \A i, j \in DOMAIN h.turns : \A r \in ToSet(h.turns[i]), q \in ToSet(h.turns[j]) : r.n = q.n => i = j
        BY <1>3, <1>4
      <4>5. \A r \in h.read : \A d \in Conversations : \A q \in Records(d)' : r.n = q.n => r = q /\ h.conv = d
        BY <1>4, <3>3
      <4>6. QED
        BY <4>1, <4>2, <4>3, <4>4, <4>5 DEF HoldsWhatItRead
  <2>2. \A q \in HookProcs : q # p => HoldsWhatItRead(hook[q])'
    BY <1>1, <1>6, <1>7 DEF ProcsHoldWhatTheyRead, HoldsWhatItRead
  <2>3. QED
    BY <1>6, <2>1, <2>2 DEF ProcsHoldWhatTheyRead
<1>17. NothingLost'
  <2>1. \A n \in 1..written : Filed(n)' \/ Accounted(n)'
    BY <1>1, <1>8 DEF NothingLost
  <2>2. ASSUME NEW q \in HookProcs, NEW n \in 1..written, HasRead(q, n)' PROVE HasTurn(q, n)' \/ Accounted(n)'
    <3>1. CASE q = p
      BY <1>9, <1>10, <2>2, <3>1
    <3>2. CASE q # p
      BY <1>1, <1>8, <1>11, <2>2, <3>2 DEF NothingLost
    <3>3. QED
      BY <3>1, <3>2
  <2>3. QED
    BY <2>1, <2>2 DEF NothingLost
<1>18. DeliveredOnce'
  <2>1. ASSUME NEW n \in 1..written, ~ Waived(n)' PROVE InOneTrace(n)'
    <3>1. InOneTrace(n)
      BY <1>1, <1>8, <2>1 DEF DeliveredOnce
    <3>2. \A q \in HookProcs : q # p /\ HasRead(q, n) => ~ \E r \in Records(c) : r.n = n
      BY <1>13, <2>1
    <3>3. (\E r \in Records(c) : r.n = n) => Filed(n)
      BY DEF Filed
    <3>4. ASSUME NEW q \in HookProcs, HasTurn(q, n)' PROVE reported'[n] = 0
      <4>1. CASE q = p
        <5>1. Filed(n) /\ \E r \in Records(c) : r.n = n
          BY <1>10, <3>3, <3>4, <4>1
        <5>2. ~ (reported[n] > 0)
          BY <1>12, <3>1, <3>2, <5>1 DEF InOneTrace
        <5>3. reported[n] \in Nat
          BY <1>1 DEF CursorTypeOK
        <5>4. QED
          BY <5>2, <5>3
      <4>2. CASE q # p
        BY <1>11, <3>1, <3>4, <4>2 DEF InOneTrace
      <4>3. QED
        BY <4>1, <4>2
    <3>5. reported'[n] > 0 /\ Filed(n)' => \E q \in HookProcs : HasRead(q, n)'
      BY <1>8, <1>11, <1>12, <3>1 DEF InOneTrace
    <3>6. \A q, x \in HookProcs : HasRead(q, n)' /\ HasRead(x, n)' => q = x
      BY <1>9, <1>11, <3>1, <3>2 DEF InOneTrace
    <3>7. \A q \in HookProcs : HasRead(q, n)' /\ hook'[q].kind = "recovery" => hook'[q].ok
      BY <1>4, <1>6, <1>11, <3>1 DEF InOneTrace
    <3>8. reported'[n] <= 1
      BY <3>1 DEF InOneTrace
    <3>9. QED
      BY <3>4, <3>5, <3>6, <3>7, <3>8 DEF InOneTrace
  <2>2. \A n \in 1..MaxRecords : n > written => reported'[n] = 0
    BY <1>1 DEF DeliveredOnce
  <2>3. QED
    BY <2>1, <2>2 DEF DeliveredOnce
<1>19. QED
  BY <1>14, <1>15, <1>16, <1>17, <1>18 DEF CursorInv

LEMMA StopStep ==
    ASSUME CursorInv, NEW p \in HookProcs, NEW c \in Conversations, HandleStop(p, c)
    PROVE  CursorInv'
<1>1. hook[p].read = {}
  BY NoHookFacts DEF HandleStop
<1>2. Reads(p, c, "stop", {}) /\ UNCHANGED <<records, written, failures, reported>>
  BY DEF HandleStop
<1>3. QED
  BY <1>1, <1>2, ReadsStep

LEMMA RecoverFileStep ==
    ASSUME CursorInv, NEW p \in HookProcs, RecoverFile(p)
    PROVE  CursorInv'
<1>1. hook[p] \in HookSet /\ hook[p].read = {} /\ hook[p].kind = "recovery" /\ hook[p].conv = NoConversation
  BY HookFacts DEF RecoverFile, HoldsWhatItRead
<1>2. hook[p].todo \subseteq Conversations
  BY <1>1 DEF HookSet
<1>3. UNCHANGED <<records, written, failures, reported>>
  BY DEF RecoverFile
<1>4. PICK d \in hook[p].todo :
        \/ Reads(p, d, "recovery", hook[p].todo \ {d})
        \/ hook' = [hook EXCEPT ![p].todo = @ \ {d}] /\ UNCHANGED waiver
  BY DEF RecoverFile
<1>5. CASE Reads(p, d, "recovery", hook[p].todo \ {d})
  <2>1. PICK todo : todo = hook[p].todo \ {d}
    OBVIOUS
  <2>2. Reads(p, d, "recovery", todo) /\ todo \subseteq Conversations /\ d \in Conversations
    BY <1>2, <1>5, <2>1
  <2>3. QED
    BY <1>1, <1>3, <2>2, ReadsStep
<1>6. CASE hook' = [hook EXCEPT ![p].todo = @ \ {d}] /\ UNCHANGED waiver
  BY <1>1, <1>3, <1>6, FilePassed
<1>7. QED
  BY <1>4, <1>5, <1>6

\* A turn is delivered: it was the only one to hold its records.
LEMMA DeliverStep ==
    ASSUME CursorInv, NEW p \in HookProcs, DeliverTurn(p)
    PROVE  CursorInv'
<1>a. PICK ts : ts = hook[p].turns
  OBVIOUS
<1>b. PICK turn : turn = Head(ts)
  OBVIOUS
<1> DEFINE InTurn(n) == n \in Numbers(ToSet(turn))
<1>1. /\ CursorTypeOK /\ FilesApart /\ ProcsHoldWhatTheyRead /\ NothingLost /\ DeliveredOnce
      /\ written \in Nat /\ written <= MaxRecords /\ MaxRecords \in Nat /\ hook \in [HookProcs -> HookSet]
      /\ reported \in [1..MaxRecords -> Nat] /\ failures \in Nat
  BY CursorAssumption DEF CursorInv, CursorTypeOK
<1>2. PICK a \in Answers :
        /\ IF a = [ok |-> TRUE, times |-> 1] THEN UNCHANGED failures ELSE Fails
        /\ reported' = [n \in DOMAIN reported |-> IF n \in Numbers(ToSet(turn)) THEN reported[n] + a.times ELSE reported[n]]
        /\ hook' = [hook EXCEPT ![p].turns = Tail(@), ![p].ok = @ /\ a.ok]
        /\ waiver' = waiver
             \cup (IF a.times = 2 THEN Waive(ToSet(turn), "answer lost") ELSE {})
             \cup (IF a.times = 0 THEN Waive(ToSet(turn), "not taken") ELSE {})
             \cup (IF a.ok \/ hook[p].kind = "stop" THEN {} ELSE Waive(hook[p].read, "kept"))
  BY <1>a, <1>b DEF DeliverTurn
<1>3. ts # <<>> /\ UNCHANGED <<records, written>>
  BY <1>a DEF DeliverTurn
<1>4. a.times \in {0, 1, 2} /\ a.ok \in BOOLEAN
  <2>1. \E o \in BOOLEAN : \E t \in {0, 1, 2} : a = [ok |-> o, times |-> t]
    BY Zenon DEF Answers
  <2>2. PICK o \in BOOLEAN : \E t \in {0, 1, 2} : a = [ok |-> o, times |-> t]
    BY <2>1
  <2>3. PICK t \in {0, 1, 2} : a = [ok |-> o, times |-> t]
    BY <2>2
  <2>4. a.ok = o /\ a.times = t
    BY <2>3
  <2>5. QED
    BY <2>4
<1>5. hook[p] \in HookSet /\ ts \in Seq(Seq(RecordSet)) /\ Len(ts) \in Nat /\ 1 \in DOMAIN ts /\ turn = ts[1]
  <2>1. hook[p] \in HookSet
    BY <1>1
  <2>2. ts \in Seq(Seq(RecordSet))
    BY <1>a, <2>1 DEF HookSet
  <2>3. Len(ts) \in Nat /\ 1 \in DOMAIN ts /\ Head(ts) = ts[1]
    BY <1>3, <2>2
  <2>4. QED
    BY <1>b, <2>1, <2>2, <2>3
<1>6. PICK h \in HookSet : /\ h.kind = hook[p].kind /\ h.conv = hook[p].conv /\ h.read = hook[p].read
                           /\ h.turns = Tail(ts) /\ h.ok = (hook[p].ok /\ a.ok)
                           /\ hook' = [hook EXCEPT ![p] = h]
  <2> DEFINE o == hook[p]
  <2> DEFINE g == [o EXCEPT !.turns = Tail(@), !.ok = @ /\ a.ok]
  <2>1. hook' = [hook EXCEPT ![p] = g]
    BY <1>1, <1>2
  <2>2. o \in HookSet /\ o.turns = ts
    BY <1>a, <1>5
  <2>3. Tail(ts) \in Seq(Seq(RecordSet))
    BY <1>3, <1>5
  <2> HIDE DEF o
  <2>4. o.ok \in BOOLEAN /\ (o.ok /\ a.ok) \in BOOLEAN
    BY <1>4, <2>2 DEF HookSet
  <2>5. g \in HookSet /\ g.turns = Tail(ts) /\ g.kind = o.kind /\ g.conv = o.conv /\ g.read = o.read /\ g.ok = (o.ok /\ a.ok)
    BY <2>2, <2>3, <2>4 DEF HookSet
  <2> HIDE DEF g
  <2>6. QED
    BY <2>1, <2>5 DEF o
<1>7. hook'[p] = h /\ (\A q \in HookProcs : q # p => hook'[q] = hook[q]) /\ hook' \in [HookProcs -> HookSet]
  BY <1>1, <1>6
<1>8. /\ \A j \in DOMAIN Tail(ts) : j + 1 \in DOMAIN ts /\ Tail(ts)[j] = ts[j + 1] /\ j \in Nat /\ j >= 1
      /\ \A j \in DOMAIN ts : j # 1 => j - 1 \in DOMAIN Tail(ts) /\ Tail(ts)[j - 1] = ts[j]
  <2>1. DOMAIN ts = 1..Len(ts) /\ Len(Tail(ts)) = Len(ts) - 1 /\ DOMAIN Tail(ts) = 1..(Len(ts) - 1)
    BY <1>3, <1>5
  <2>2. \A j \in 1..(Len(ts) - 1) : Tail(ts)[j] = ts[j + 1]
    BY <1>3, <1>5
  <2>3. QED
    BY <1>5, <2>1, <2>2
<1>9. \A d \in Conversations : Records(d)' = Records(d)
  BY <1>3 DEF Records
<1>10. \A n \in 1..written : /\ n \in 1..MaxRecords /\ reported[n] \in Nat /\ n \in DOMAIN reported
                             /\ reported'[n] = IF InTurn(n) THEN reported[n] + a.times ELSE reported[n]
  <2>1. \A n \in 1..written : n \in 1..MaxRecords
    BY <1>1
  <2>2. \A n \in 1..MaxRecords : reported[n] \in Nat /\ n \in DOMAIN reported
    BY <1>1 DEF CursorTypeOK
  <2>3. \A n \in DOMAIN reported : reported'[n] = IF InTurn(n) THEN reported[n] + a.times ELSE reported[n]
    BY <1>2
  <2>4. QED
    BY <2>1, <2>2, <2>3
<1>11. waiver \subseteq waiver' /\ written' = written
  BY <1>2, <1>3
<1>12. reported' \in [1..MaxRecords -> Nat]
  <2>1. ASSUME NEW n \in 1..MaxRecords PROVE reported[n] + a.times \in Nat /\ reported[n] \in Nat
    <3>1. reported[n] \in Nat
      BY <1>1
    <3>2. QED
      BY <1>4, <3>1
  <2>2. QED
    BY <1>1, <1>2, <2>1
<1>13. \A n \in 1..written : (Accounted(n) => Accounted(n)') /\ (Waived(n) => Waived(n)')
  <2> SUFFICES ASSUME NEW n \in 1..written PROVE (Accounted(n) => Accounted(n)') /\ (Waived(n) => Waived(n)')
    OBVIOUS
  <2>1. reported[n] \in Nat /\ reported'[n] \in Nat /\ reported[n] <= reported'[n]
    BY <1>4, <1>10
  <2>2. QED
    BY <1>11, <2>1, StaysAccounted
<1>14. \A n : (HasRead(p, n)' <=> HasRead(p, n)) /\ (Filed(n)' <=> Filed(n))
  BY <1>6, <1>7, <1>9 DEF HasRead, Filed
<1>15. \A q \in HookProcs : q # p => \A n : (HasRead(q, n)' <=> HasRead(q, n)) /\ (HasTurn(q, n)' <=> HasTurn(q, n))
  BY <1>7 DEF HasRead, HasTurn
<1>16. /\ HoldsWhatItRead(hook[p])
       /\ \A j \in DOMAIN ts : ToSet(ts[j]) \subseteq hook[p].read
       /\ \A i, j \in DOMAIN ts : \A r \in ToSet(ts[i]), q \in ToSet(ts[j]) : r.n = q.n => i = j
  BY <1>a, <1>1 DEF ProcsHoldWhatTheyRead, HoldsWhatItRead
<1>17. \A n : HasTurn(p, n)' => HasTurn(p, n) /\ ~ InTurn(n)
  <2> SUFFICES ASSUME NEW n, HasTurn(p, n)' PROVE HasTurn(p, n) /\ ~ InTurn(n)
    OBVIOUS
  <2>0. PICK j \in DOMAIN Tail(ts) : \E x \in ToSet(Tail(ts)[j]) : x.n = n
    BY <1>6, <1>7 DEF HasTurn
  <2>1. PICK r \in ToSet(Tail(ts)[j]) : r.n = n
    BY <2>0
  <2>2. j + 1 \in DOMAIN ts /\ r \in ToSet(ts[j + 1]) /\ j + 1 # 1
    BY <1>8, <2>1
  <2>3. HasTurn(p, n)
    BY <1>a, <2>1, <2>2 DEF HasTurn
  <2>4. ~ InTurn(n)
    <3>1. SUFFICES ASSUME NEW x \in ToSet(ts[1]), x.n = n PROVE FALSE
      BY <1>5 DEF Numbers
    <3>2. 1 = j + 1
      BY <1>5, <1>16, <2>1, <2>2, <3>1
    <3>3. QED
      BY <2>2, <3>2
  <2>5. QED
    BY <2>3, <2>4
<1>18. \A n : HasTurn(p, n) => HasTurn(p, n)' \/ InTurn(n)
  <2> SUFFICES ASSUME NEW n, HasTurn(p, n) PROVE HasTurn(p, n)' \/ InTurn(n)
    OBVIOUS
  <2>0. PICK j \in DOMAIN ts : \E x \in ToSet(ts[j]) : x.n = n
    BY <1>a DEF HasTurn
  <2>1. PICK r \in ToSet(ts[j]) : r.n = n
    BY <2>0
  <2>2. CASE j = 1
    BY <1>5, <2>1, <2>2 DEF Numbers
  <2>3. CASE j # 1
    <3>1. j - 1 \in DOMAIN Tail(ts) /\ r \in ToSet(Tail(ts)[j - 1])
      BY <1>8, <2>1, <2>3
    <3>2. hook'[p].turns = Tail(ts)
      BY <1>6, <1>7
    <3>3. QED
      BY <2>1, <3>1, <3>2 DEF HasTurn
  <2>4. QED
    BY <2>2, <2>3
<1>19. \A n : InTurn(n) => HasTurn(p, n) /\ HasRead(p, n)
  <2> SUFFICES ASSUME NEW n, InTurn(n) PROVE HasTurn(p, n) /\ HasRead(p, n)
    OBVIOUS
  <2>1. PICK r \in ToSet(ts[1]) : r.n = n
    BY <1>5 DEF Numbers
  <2>2. QED
    BY <1>a, <1>5, <1>16, <2>1 DEF HasTurn, HasRead
<1>20. \A n : InTurn(n) => /\ a.times = 2 => <<n, "answer lost">> \in waiver'
                           /\ a.times = 0 => <<n, "not taken">> \in waiver'
  <2> SUFFICES ASSUME NEW n, InTurn(n)
               PROVE  (a.times = 2 => <<n, "answer lost">> \in waiver') /\ (a.times = 0 => <<n, "not taken">> \in waiver')
    OBVIOUS
  <2>1. \A what : <<n, what>> \in Waive(ToSet(turn), what)
    BY DEF Waive
  <2>2. QED
    BY <1>2, <2>1
<1>21. \A n : HasRead(p, n) /\ hook[p].kind # "stop" /\ ~ a.ok => <<n, "kept">> \in waiver'
  BY <1>2, WaiveFacts DEF HasRead
<1> HIDE DEF InTurn
<1>22. CursorTypeOK'
  <2>1. failures' = failures \/ failures' = failures + 1
    BY <1>2 DEF Fails
  <2>0. failures' \in Nat
    BY <1>1, <2>1 DEF CursorTypeOK
  <2>2. QED
    BY <1>1, <1>3, <1>7, <1>12, <2>0 DEF CursorTypeOK
<1>23. FilesApart'
  BY <1>1, <1>3, <1>9 DEF FilesApart
<1>24. ProcsHoldWhatTheyRead'
  <2>1. HoldsWhatItRead(h)'
    <3>1. h.conv # NoConversation /\ h.kind # "none"
      BY <1>a, <1>3, <1>6, <1>16, HookFacts DEF HoldsWhatItRead
    <3>2. \A r \in h.read : r.n <= written'
      BY <1>6, <1>11, <1>16 DEF HoldsWhatItRead
    <3>3. \A j \in DOMAIN h.turns : ToSet(h.turns[j]) \subseteq h.read
      BY <1>6, <1>8, <1>16
    <3>4. \A i, j \in DOMAIN h.turns : \A r \in ToSet(h.turns[i]), q \in ToSet(h.turns[j]) : r.n = q.n => i = j
      <4> SUFFICES ASSUME NEW i \in DOMAIN Tail(ts), NEW j \in DOMAIN Tail(ts),
                          NEW r \in ToSet(Tail(ts)[i]), NEW q \in ToSet(Tail(ts)[j]), r.n = q.n
                   PROVE  i = j
        BY <1>6
      <4>1. i + 1 \in DOMAIN ts /\ j + 1 \in DOMAIN ts /\ r \in ToSet(ts[i + 1]) /\ q \in ToSet(ts[j + 1]) /\ i \in Nat /\ j \in Nat
        BY <1>8
      <4>2. i + 1 = j + 1
        BY <1>16, <4>1
      <4>3. QED
        BY <4>1, <4>2
    <3>5. \A r \in h.read : \A d \in Conversations : \A q \in Records(d)' : r.n = q.n => r = q /\ h.conv = d
      BY <1>6, <1>9, <1>16 DEF HoldsWhatItRead
    <3>6. QED
      BY <3>1, <3>2, <3>3, <3>4, <3>5 DEF HoldsWhatItRead
  <2>2. \A q \in HookProcs : q # p => HoldsWhatItRead(hook[q])'
    BY <1>1, <1>7, <1>9, <1>11 DEF ProcsHoldWhatTheyRead, HoldsWhatItRead
  <2>3. QED
    BY <1>7, <2>1, <2>2 DEF ProcsHoldWhatTheyRead
<1>25. NothingLost'
  <2>1. \A n \in 1..written : Filed(n)' \/ Accounted(n)'
    BY <1>1, <1>13, <1>14 DEF NothingLost
  <2>2. ASSUME NEW q \in HookProcs, NEW n \in 1..written, HasRead(q, n)' PROVE HasTurn(q, n)' \/ Accounted(n)'
    <3>1. CASE q # p
      BY <1>1, <1>13, <1>15, <2>2, <3>1 DEF NothingLost
    <3>2. CASE q = p
      <4>1. HasTurn(p, n) \/ Accounted(n)
        BY <1>1, <1>14, <2>2, <3>2 DEF NothingLost
      <4>2. CASE InTurn(n)
        <5>1. CASE a.times = 0
          BY <1>20, <4>2, <5>1 DEF Accounted
        <5>2. CASE a.times # 0
          <6>1. reported'[n] > 0
            BY <1>4, <1>10, <4>2, <5>2
          <6>2. QED
            BY <6>1 DEF Accounted
        <5>3. QED
          BY <5>1, <5>2
      <4>3. CASE ~ InTurn(n)
        BY <1>13, <1>18, <3>2, <4>1, <4>3
      <4>4. QED
        BY <4>2, <4>3
    <3>3. QED
      BY <3>1, <3>2
  <2>3. QED
    BY <1>11, <2>1, <2>2 DEF NothingLost
<1>26. DeliveredOnce'
  <2>1. ASSUME NEW n \in 1..written, ~ Waived(n)' PROVE InOneTrace(n)'
    <3>1. InOneTrace(n)
      BY <1>1, <1>13, <2>1 DEF DeliveredOnce
    <3>2. \A q, x \in HookProcs : HasRead(q, n)' /\ HasRead(x, n)' => q = x
      BY <1>14, <1>15, <3>1 DEF InOneTrace
    <3>3. \A q \in HookProcs : HasRead(q, n)' /\ hook'[q].kind = "recovery" => hook'[q].ok
      <4>1. ASSUME NEW q \in HookProcs, HasRead(q, n)', hook'[q].kind = "recovery" PROVE hook'[q].ok
        <5>1. CASE q # p
          BY <1>7, <1>15, <3>1, <4>1, <5>1 DEF InOneTrace
        <5>2. CASE q = p
          <6>1. HasRead(p, n) /\ hook[p].kind = "recovery" /\ (hook'[p].ok = (hook[p].ok /\ a.ok))
            BY <1>6, <1>7, <1>14, <4>1, <5>2
          <6>2. hook[p].ok
            BY <3>1, <6>1 DEF InOneTrace
          <6>3. a.ok
            BY <1>21, <2>1, <6>1 DEF Waived
          <6>4. QED
            BY <5>2, <6>1, <6>2, <6>3
        <5>3. QED
          BY <5>1, <5>2
      <4>2. QED
        BY <4>1
    <3>4. CASE InTurn(n)
      <4>1. reported[n] = 0 /\ HasRead(p, n) /\ a.times # 2
        BY <1>19, <1>20, <2>1, <3>1, <3>4 DEF InOneTrace, Waived
      <4>2. reported'[n] <= 1
        BY <1>4, <1>10, <3>4, <4>1
      <4>3. ASSUME NEW q \in HookProcs, HasTurn(q, n)' PROVE FALSE
        <5>1. q # p
          BY <1>17, <3>4, <4>3
        <5>2. HasTurn(q, n)
          BY <1>15, <4>3, <5>1
        <5>3. HasRead(q, n)
          BY <1>1, <5>2 DEF ProcsHoldWhatTheyRead, HoldsWhatItRead, HasTurn, HasRead
        <5>4. QED
          BY <3>1, <4>1, <5>1, <5>3 DEF InOneTrace
      <4>4. HasRead(p, n)'
        BY <1>14, <4>1
      <4>5. QED
        BY <3>2, <3>3, <4>2, <4>3, <4>4 DEF InOneTrace
    <3>5. CASE ~ InTurn(n)
      <4>1. reported'[n] = reported[n]
        BY <1>10, <3>5
      <4>2. \A q \in HookProcs : HasTurn(q, n)' => HasTurn(q, n)
        BY <1>15, <1>17
      <4>3. \A q \in HookProcs : HasRead(q, n)' <=> HasRead(q, n)
        BY <1>14, <1>15
      <4>4. QED
        BY <1>14, <3>1, <3>2, <3>3, <4>1, <4>2, <4>3 DEF InOneTrace
    <3>6. QED
      BY <3>4, <3>5
  <2>2. ASSUME NEW n \in 1..MaxRecords, n > written PROVE reported'[n] = 0
    <3>1. reported[n] = 0
      BY <1>1, <2>2 DEF DeliveredOnce
    <3>2. ~ InTurn(n)
      <4>1. SUFFICES ASSUME NEW r \in ToSet(ts[1]), r.n = n PROVE FALSE
        BY <1>5 DEF InTurn, Numbers
      <4>2. r.n <= written
        BY <1>5, <1>16, <4>1 DEF HoldsWhatItRead
      <4>3. QED
        BY <1>1, <2>2, <4>1, <4>2
    <3>3. QED
      BY <1>1, <1>2, <3>1, <3>2 DEF InTurn
  <2>3. QED
    BY <1>11, <2>1, <2>2 DEF DeliveredOnce
<1>27. QED
  BY <1>22, <1>23, <1>24, <1>25, <1>26 DEF CursorInv

\* A record is appended to a file.
LEMMA HandleEventStep ==
    ASSUME CursorInv, NEW c \in Conversations, HandleEvent(c)
    PROVE  CursorInv'
<1>m. PICK m : m = written + 1
  OBVIOUS
<1>1. /\ CursorTypeOK /\ FilesApart /\ ProcsHoldWhatTheyRead /\ NothingLost /\ DeliveredOnce
      /\ written \in Nat /\ MaxRecords \in Nat /\ written < MaxRecords /\ m \in 1..MaxRecords
      /\ records \in [Conversations -> Seq(RecordSet)]
  <2>1. /\ CursorTypeOK /\ FilesApart /\ ProcsHoldWhatTheyRead /\ NothingLost /\ DeliveredOnce
        /\ MaxRecords \in Nat /\ written \in 0..MaxRecords /\ records \in [Conversations -> Seq(RecordSet)]
    BY CursorAssumption DEF CursorInv, CursorTypeOK
  <2>2. written < MaxRecords
    BY DEF HandleEvent
  <2>3. written \in Nat /\ m \in 1..MaxRecords
    BY <1>m, <2>1, <2>2
  <2>4. QED
    BY <2>1, <2>2, <2>3
<1>2. written' = m /\ UNCHANGED <<hook, failures, reported, waiver>>
  BY <1>m DEF HandleEvent
<1>3. PICK x \in RecordSet : x.n = m /\ records' = [records EXCEPT ![c] = Append(@, x)]
  <2>1. PICK kind \in {"prompt", "generation 1", "generation 2"} :
          records' = [records EXCEPT ![c] = Append(@, [n |-> m, kind |-> kind])]
    BY <1>2 DEF HandleEvent
  <2>2. [n |-> m, kind |-> kind] \in RecordSet
    BY <1>1 DEF RecordSet
  <2>3. QED
    BY <2>1, <2>2
<1>s. PICK s : s = records[c]
  OBVIOUS
<1>4. s \in Seq(RecordSet) /\ Len(s) \in Nat /\ DOMAIN s = 1..Len(s)
  BY <1>s, <1>1
<1>t. PICK t : t = Append(s, x)
  OBVIOUS
<1>5. /\ t \in Seq(RecordSet) /\ DOMAIN t = 1..(Len(s) + 1) /\ t[Len(s) + 1] = x
      /\ \A j \in 1..Len(s) : t[j] = s[j]
      /\ ToSet(t) = ToSet(s) \cup {x}
  BY <1>t, <1>4, AppendFacts
<1>6. records' = [records EXCEPT ![c] = t]
  BY <1>s, <1>t, <1>3, <1>1
<1>7. records'[c] = t /\ (\A d \in Conversations : d # c => records'[d] = records[d]) /\ records' \in [Conversations -> Seq(RecordSet)]
  BY <1>1, <1>5, <1>6
<1>8. Records(c)' = Records(c) \cup {x} /\ \A d \in Conversations : d # c => Records(d)' = Records(d)
  <2>1. Records(c)' = ToSet(t) /\ Records(c) = ToSet(s)
    BY <1>s, <1>7 DEF Records
  <2>2. \A d \in Conversations : d # c => Records(d)' = Records(d)
    BY <1>7 DEF Records
  <2>3. QED
    BY <1>5, <2>1, <2>2
<1>9. \A d \in Conversations : \A r \in Records(d) : r.n <= written /\ r \in RecordSet /\ r.n # m
  <2>1. \A d \in Conversations : \A r \in Records(d) : r.n <= written /\ r \in RecordSet
    BY <1>1 DEF FilesApart, Records, ToSet
  <2>2. \A r \in RecordSet : r.n <= written => r.n # m
    BY <1>m, <1>1, RecordFacts
  <2>3. QED
    BY <2>1, <2>2
<1>10. \A d \in Conversations : \A r \in Records(d)' : r \in Records(d) \/ (r = x /\ d = c)
  BY <1>8
<1>11. CursorTypeOK'
  <2>1. written' \in 0..MaxRecords
    BY <1>1, <1>2
  <2>2. QED
    BY <1>1, <1>2, <1>7, <2>1 DEF CursorTypeOK
<1>12. FilesApart'
  <2>1. \A d \in Conversations : \A r \in Records(d)' : r.n <= m
    <3>1. ASSUME NEW d \in Conversations, NEW r \in Records(d)' PROVE r.n <= m
      <4>1. CASE r \in Records(d)
        <5>1. r.n <= written /\ r.n \in Nat
          BY <1>9, <4>1, RecordFacts
        <5>2. QED
          BY <1>m, <1>1, <5>1
      <4>2. CASE r = x
        BY <1>1, <1>3, <4>2
      <4>3. QED
        BY <1>10, <4>1, <4>2
    <3>2. QED
      BY <3>1
  <2>2. ASSUME NEW d \in Conversations, NEW e \in Conversations, NEW r \in Records(d)', NEW q \in Records(e)', r.n = q.n
        PROVE  r = q /\ d = e
    <3>1. CASE r \in Records(d) /\ q \in Records(e)
      BY <1>1, <2>2, <3>1 DEF FilesApart
    <3>2. CASE r = x /\ d = c
      <4>1. q \notin Records(e)
        BY <1>3, <1>9, <2>2, <3>2
      <4>2. QED
        BY <1>10, <3>2, <4>1
    <3>3. CASE q = x /\ e = c
      <4>1. r \notin Records(d)
        BY <1>3, <1>9, <2>2, <3>3
      <4>2. QED
        BY <1>10, <3>3, <4>1
    <3>4. QED
      BY <1>10, <3>1, <3>2, <3>3
  <2>3. ASSUME NEW d \in Conversations, NEW i \in DOMAIN records'[d], NEW j \in DOMAIN records'[d], records'[d][i].n = records'[d][j].n
        PROVE  i = j
    <3>1. CASE d # c
      BY <1>1, <1>7, <2>3, <3>1 DEF FilesApart
    <3>2. CASE d = c
      <4>1. \A k \in 1..Len(s) : t[k] = s[k] /\ s[k] \in Records(c) /\ k \in DOMAIN s
        BY <1>s, <1>4, <1>5 DEF Records, ToSet
      <4>2. \A k \in 1..Len(s) : t[k].n # m
        BY <1>9, <4>1
      <4>3. i \in 1..(Len(s) + 1) /\ j \in 1..(Len(s) + 1) /\ t[i].n = t[j].n
        BY <1>5, <1>7, <2>3, <3>2
      <4>4. CASE i \in 1..Len(s) /\ j \in 1..Len(s)
        <5>1. s[i].n = s[j].n /\ i \in DOMAIN s /\ j \in DOMAIN s
          BY <4>1, <4>3, <4>4
        <5>2. QED
          BY <1>s, <1>1, <5>1 DEF FilesApart
      <4>5. CASE i = Len(s) + 1
        <5>1. t[j].n = m
          BY <1>3, <1>5, <4>3, <4>5
        <5>2. QED
          BY <1>4, <4>2, <4>3, <4>5, <5>1
      <4>6. CASE j = Len(s) + 1
        <5>1. t[i].n = m
          BY <1>3, <1>5, <4>3, <4>6
        <5>2. QED
          BY <1>4, <4>2, <4>3, <4>6, <5>1
      <4>7. QED
        BY <1>4, <4>3, <4>4, <4>5, <4>6
    <3>3. QED
      BY <3>1, <3>2
  <2>4. QED
    BY <1>2, <2>1, <2>2, <2>3 DEF FilesApart
<1>13. \A p \in HookProcs : \A r \in hook[p].read : r.n \in Nat /\ r.n <= written /\ r.n # m
  <2> SUFFICES ASSUME NEW p \in HookProcs, NEW r \in hook[p].read PROVE r.n \in Nat /\ r.n <= written /\ r.n # m
    OBVIOUS
  <2>1. r \in RecordSet
    BY HookFacts DEF HookSet
  <2>2. r.n <= written
    BY HookFacts DEF HoldsWhatItRead
  <2>3. QED
    BY <1>m, <1>1, <2>1, <2>2, RecordFacts
<1>14. ProcsHoldWhatTheyRead'
  <2> SUFFICES ASSUME NEW p \in HookProcs PROVE HoldsWhatItRead(hook[p])'
    BY <1>2 DEF ProcsHoldWhatTheyRead
  <2>1. HoldsWhatItRead(hook[p]) /\ hook'[p] = hook[p]
    BY <1>2, HookFacts
  <2>2. \A r \in hook[p].read : r.n <= m
    BY <1>m, <1>1, <1>13
  <2>3. ASSUME NEW r \in hook[p].read, NEW d \in Conversations, NEW q \in Records(d)', r.n = q.n PROVE r = q /\ hook[p].conv = d
    <3>1. q # x
      BY <1>3, <1>13, <2>3
    <3>2. q \in Records(d)
      BY <1>10, <3>1
    <3>3. QED
      BY <2>1, <2>3, <3>2 DEF HoldsWhatItRead
  <2>4. QED
    BY <1>2, <2>1, <2>2, <2>3 DEF HoldsWhatItRead
<1>15. \A p \in HookProcs : \A n : (HasRead(p, n)' <=> HasRead(p, n)) /\ (HasTurn(p, n)' <=> HasTurn(p, n))
  BY <1>2 DEF HasRead, HasTurn
<1>16. \A n : (Accounted(n)' <=> Accounted(n)) /\ (Waived(n)' <=> Waived(n))
  BY <1>2 DEF Accounted, Waived
<1>17. Filed(m)' /\ (\A n : Filed(n) => Filed(n)') /\ (\A n : Filed(n)' /\ n # m => Filed(n))
  <2>1. Filed(m)'
    BY <1>3, <1>8 DEF Filed
  <2>2. \A n : Filed(n) => Filed(n)'
    BY <1>8 DEF Filed
  <2>3. \A n : Filed(n)' /\ n # m => Filed(n)
    BY <1>3, <1>10 DEF Filed
  <2>4. QED
    BY <2>1, <2>2, <2>3
<1>18. \A p \in HookProcs : ~ HasRead(p, m) /\ ~ HasTurn(p, m)
  <2> SUFFICES ASSUME NEW p \in HookProcs PROVE ~ HasRead(p, m) /\ ~ HasTurn(p, m)
    OBVIOUS
  <2>1. ~ HasRead(p, m)
    BY <1>13 DEF HasRead
  <2>2. HasTurn(p, m) => HasRead(p, m)
    BY HookFacts DEF HasTurn, HasRead, HoldsWhatItRead
  <2>3. QED
    BY <2>1, <2>2
<1>19. \A n \in 1..m : n \in 1..written \/ n = m
  BY <1>m, <1>1
<1>20. NothingLost'
  <2>1. \A n \in 1..m : Filed(n)' \/ Accounted(n)'
    BY <1>1, <1>16, <1>17, <1>19 DEF NothingLost
  <2>2. \A p \in HookProcs : \A n \in 1..m : HasRead(p, n)' => HasTurn(p, n)' \/ Accounted(n)'
    BY <1>1, <1>15, <1>16, <1>18, <1>19 DEF NothingLost
  <2>3. QED
    BY <1>2, <2>1, <2>2 DEF NothingLost
<1>21. DeliveredOnce'
  <2>1. reported[m] = 0
    BY <1>m, <1>1 DEF DeliveredOnce
  <2>2. InOneTrace(m)'
    BY <1>2, <1>15, <1>18, <2>1 DEF InOneTrace
  <2>3. ASSUME NEW n \in 1..written, ~ Waived(n)' PROVE InOneTrace(n)'
    <3>1. InOneTrace(n)
      BY <1>1, <1>16, <2>3 DEF DeliveredOnce
    <3>2. n # m
      BY <1>m, <1>1
    <3>3. Filed(n)' => Filed(n)
      BY <1>17, <3>2
    <3>4. QED
      BY <1>2, <1>15, <3>1, <3>3 DEF InOneTrace
  <2>4. \A n \in 1..MaxRecords : n > m => reported'[n] = 0
    BY <1>m, <1>1, <1>2 DEF DeliveredOnce
  <2>5. QED
    BY <1>2, <1>19, <2>2, <2>3, <2>4 DEF DeliveredOnce
<1>22. QED
  BY <1>11, <1>12, <1>14, <1>20, <1>21 DEF CursorInv

\* Nothing the invariant is about changes.
LEMMA CursorStutters ==
    ASSUME CursorInv, UNCHANGED <<records, hook, written, failures, reported, waiver>>
    PROVE  CursorInv'
<1>1. CursorTypeOK'
  BY DEF CursorInv, CursorTypeOK
<1>2. \A c : Records(c)' = Records(c)
  BY DEF Records
<1>3. FilesApart'
  BY <1>2 DEF CursorInv, FilesApart
<1>4. ProcsHoldWhatTheyRead'
  BY <1>2 DEF CursorInv, ProcsHoldWhatTheyRead, HoldsWhatItRead
<1>5. \A n : (Filed(n)' <=> Filed(n)) /\ (Accounted(n)' <=> Accounted(n)) /\ (Waived(n)' <=> Waived(n))
  BY <1>2 DEF Filed, Accounted, Waived
<1>6. \A p : \A n : (HasRead(p, n)' <=> HasRead(p, n)) /\ (HasTurn(p, n)' <=> HasTurn(p, n))
  BY DEF HasRead, HasTurn
<1>7. NothingLost'
  BY <1>5, <1>6 DEF CursorInv, NothingLost
<1>8. DeliveredOnce'
  BY <1>5, <1>6 DEF CursorInv, DeliveredOnce, InOneTrace
<1>9. QED
  BY <1>1, <1>3, <1>4, <1>7, <1>8 DEF CursorInv

LEMMA CursorStep == CursorInv /\ [CursorNext]_cursorVars => CursorInv'
<1> SUFFICES ASSUME CursorInv, [CursorNext]_cursorVars PROVE CursorInv'
  OBVIOUS
<1>1. ASSUME NEW c \in Conversations, HandleEvent(c) PROVE CursorInv'
  BY <1>1, HandleEventStep
<1>2. ASSUME NEW c \in Conversations, SixHours(c) PROVE CursorInv'
  BY <1>2, CursorStutters DEF SixHours
<1>3. ASSUME NEW p \in HookProcs, NEW c \in Conversations, HandleStop(p, c) PROVE CursorInv'
  BY <1>3, StopStep
<1>4. ASSUME NEW p \in HookProcs, NEW c \in Conversations, HandleSessionStart(p, c) PROVE CursorInv'
  BY <1>4, SessionStartStep
<1>5. ASSUME NEW p \in HookProcs, RecoverFile(p) PROVE CursorInv'
  BY <1>5, RecoverFileStep
<1>6. ASSUME NEW p \in HookProcs, Recovered(p) PROVE CursorInv'
  BY <1>6, RecoveredStep
<1>7. ASSUME NEW p \in HookProcs, DeliverTurn(p) PROVE CursorInv'
  BY <1>7, DeliverStep
<1>8. ASSUME NEW p \in HookProcs, DeleteStateFile(p) PROVE CursorInv'
  BY <1>8, DeleteStep
<1>9. ASSUME NEW p \in HookProcs, BuildFails(p) PROVE CursorInv'
  BY <1>9, BuildFailsStep
<1>10. ASSUME NEW p \in HookProcs, Dies(p) PROVE CursorInv'
  BY <1>10, DiesStep
<1>11. ASSUME NEW p \in HookProcs, UnlinkFails(p) PROVE CursorInv'
  BY <1>11, UnlinkFailsStep
<1>12. CASE UNCHANGED cursorVars
  BY <1>12, CursorStutters DEF cursorVars
<1>13. QED
  BY <1>1, <1>2, <1>3, <1>4, <1>5, <1>6, <1>7, <1>8, <1>9, <1>10, <1>11, <1>12 DEF CursorNext

\* Records, their files, what the processes hold of them and their traces (CursorInv)
\* stay in step, whatever the order of the processes (hooks/cursor/src/index.ts).
THEOREM CursorInvariant == CursorSpec => []CursorInv
<1>1. CursorInit => CursorInv
  BY CursorBegins
<1>2. CursorInv /\ [CursorNext]_cursorVars => CursorInv'
  BY CursorStep
<1>3. QED
  BY <1>1, <1>2, PTL DEF CursorSpec

\* Every record an event wrote is in its file or in a trace, and in one trace, with the
\* exceptions RecordsReported names (index.ts:43, recovery.ts:75).
THEOREM RecordsAreReported == CursorSpec => []RecordsReported
<1>1. CursorInv => RecordsReported
  <2> SUFFICES ASSUME CursorInv, NEW n \in 1..written
               PROVE  LET why == {w[2] : w \in {x \in waiver : x[1] = n}}
                          filed == \E c \in Conversations : n \in Numbers(ToSet(records[c]))
                      IN  /\ filed \/ reported[n] > 0 \/ why \cap {"late", "not taken"} # {}
                          /\ reported[n] > 1 => why \cap {"read twice", "kept", "answer lost"} # {}
    BY DEF RecordsReported
  <2> DEFINE why == {w[2] : w \in {x \in waiver : x[1] = n}}
  <2>1. \A what : <<n, what>> \in waiver => what \in why
    OBVIOUS
  <2>2. Filed(n) => \E c \in Conversations : n \in Numbers(ToSet(records[c]))
    BY DEF Filed, Records, Numbers
  <2>3. Accounted(n) => reported[n] > 0 \/ "late" \in why \/ "not taken" \in why
    BY <2>1 DEF Accounted
  <2>4. Waived(n) => "read twice" \in why \/ "kept" \in why \/ "answer lost" \in why
    BY <2>1 DEF Waived
  <2>5. Filed(n) \/ Accounted(n)
    BY DEF CursorInv, NothingLost
  <2>6. Waived(n) \/ reported[n] <= 1
    BY DEF CursorInv, DeliveredOnce, InOneTrace
  <2>7. reported[n] \in Nat
    BY CursorAssumption DEF CursorInv, CursorTypeOK
  <2> HIDE DEF why
  <2>8. reported[n] > 1 => Waived(n)
    BY <2>6, <2>7
  <2>9. QED
    BY <2>2, <2>3, <2>4, <2>5, <2>8 DEF why
<1>2. QED
  BY <1>1, CursorInvariant, PTL

-----------------------------------------------------------------------------
(* OpencodeHook: the turns of the messages fetched.                        *)

MessageSet == [role : {"user", "assistant"}, whole : BOOLEAN]

AnsweredOn(f, ms, prev, n) ==
    f = [k \in 0..n |->
           IF k = 0 THEN <<>>
           ELSE IF k > prev /\ ms[k].role = "user" /\ Turn(ms, k) # {k} THEN Append(f[k - 1], Turn(ms, k))
           ELSE f[k - 1]]

LEMMA AnsweredExist ==
    ASSUME NEW ms, NEW prev
    PROVE  \A n \in Nat : \E f : AnsweredOn(f, ms, prev, n)
<1> DEFINE S == {n \in Nat : \E f : AnsweredOn(f, ms, prev, n)}
<1> DEFINE Next(ts, k) == IF k > prev /\ ms[k].role = "user" /\ Turn(ms, k) # {k} THEN Append(ts, Turn(ms, k)) ELSE ts
<1>0. \A f, n : AnsweredOn(f, ms, prev, n) <=> f = [k \in 0..n |-> IF k = 0 THEN <<>> ELSE Next(f[k - 1], k)]
  BY DEF AnsweredOn
<1> HIDE DEF Next
<1>1. 0 \in S
  <2>0. [k \in 0..0 |-> <<>>] = [k \in 0..0 |-> IF k = 0 THEN <<>> ELSE Next([i \in 0..0 |-> <<>>][k - 1], k)]
    OBVIOUS
  <2>1. AnsweredOn([k \in 0..0 |-> <<>>], ms, prev, 0)
    BY <1>0, <2>0
  <2>2. QED
    BY <2>1
<1>2. ASSUME NEW n \in Nat, n \in S PROVE n + 1 \in S
  <2>1. PICK f : AnsweredOn(f, ms, prev, n)
    BY <1>2
  <2> DEFINE g == [k \in 0..(n + 1) |-> IF k = 0 THEN <<>> ELSE Next(f[k - 1], k)]
  <2>2. \A k \in 0..n : f[k] = g[k]
    BY <1>0, <2>1
  <2>3. \A k \in 0..(n + 1) : k # 0 => f[k - 1] = g[k - 1]
    <3> HIDE DEF g
    <3>1. QED
      BY <2>2
  <2>4. g = [k \in 0..(n + 1) |-> IF k = 0 THEN <<>> ELSE Next(g[k - 1], k)]
    BY <2>3
  <2>5. AnsweredOn(g, ms, prev, n + 1)
    BY <1>0, <2>4
  <2>6. QED
    BY <2>5
<1> HIDE DEF S
<1>3. Nat \subseteq S
  BY <1>1, <1>2, Induction
<1>4. QED
  BY <1>3 DEF S

LEMMA AnsweredAre ==
    ASSUME NEW ms, NEW prev, Len(ms) \in Nat
    PROVE  AnsweredOn(Answered(ms, prev), ms, prev, Len(ms))
<1>1. \E f : AnsweredOn(f, ms, prev, Len(ms))
  BY AnsweredExist
<1>2. AnsweredOn(CHOOSE f : AnsweredOn(f, ms, prev, Len(ms)), ms, prev, Len(ms))
  BY <1>1, Zenon
<1>3. QED
  BY <1>2, Zenon DEF Answered, AnsweredOn

LEMMA TurnFacts ==
    ASSUME NEW ms \in Seq(MessageSet), NEW u \in 1..Len(ms)
    PROVE  /\ Turn(ms, u) \subseteq 1..Len(ms) /\ Turn(ms, u) \in SUBSET Nat
           /\ \A n \in Turn(ms, u) : n >= u /\ \A j \in (u + 1)..n : ms[j].role = "assistant"
<1>1. \A n \in Turn(ms, u) : /\ n \in 1..Len(ms) /\ n \in Nat /\ n >= u
                             /\ \A j \in (u + 1)..n : ms[j].role = "assistant"
  <2> SUFFICES ASSUME NEW n \in Turn(ms, u)
               PROVE  /\ n \in 1..Len(ms) /\ n \in Nat /\ n >= u
                      /\ \A j \in (u + 1)..n : ms[j].role = "assistant"
    OBVIOUS
  <2>1. CASE n = u
    BY <2>1
  <2>2. CASE n \in (u + 1)..Len(ms) /\ \A j \in (u + 1)..n : ms[j].role = "assistant"
    BY <2>2
  <2>3. QED
    BY <2>1, <2>2 DEF Turn
<1>2. QED
  BY <1>1

\* The turns that begin at a user's message behind the first prev and up to the k-th.
TurnsUpTo(ts, ms, prev, k) ==
    /\ ts \in Seq(SUBSET Nat)
    /\ \A j \in DOMAIN ts : \E u \in 1..k : u > prev /\ ms[u].role = "user" /\ ts[j] = Turn(ms, u)
    /\ \A u \in 1..k : u > prev /\ ms[u].role = "user" /\ Turn(ms, u) # {u} => \E j \in DOMAIN ts : ts[j] = Turn(ms, u)
    /\ \A i, j \in DOMAIN ts : \A n \in ts[i] : n \in ts[j] => i = j

LEMMA TurnAdded ==
    ASSUME NEW ms \in Seq(MessageSet), NEW prev \in Nat, NEW k \in Nat, k + 1 <= Len(ms),
           NEW ts, TurnsUpTo(ts, ms, prev, k), k + 1 > prev, ms[k + 1].role = "user"
    PROVE  TurnsUpTo(Append(ts, Turn(ms, k + 1)), ms, prev, k + 1)
<1>a. PICK v : v = Turn(ms, k + 1)
  OBVIOUS
<1>b. PICK us : us = Append(ts, v)
  OBVIOUS
<1>c. PICK m : m = Len(ts) + 1
  OBVIOUS
<1>1. ts \in Seq(SUBSET Nat) /\ Len(ts) \in Nat /\ DOMAIN ts = 1..Len(ts) /\ m \in Nat
  BY <1>c DEF TurnsUpTo
<1>2. k + 1 \in 1..Len(ms) /\ v \in SUBSET Nat /\ \A n \in v : n >= k + 1
  BY <1>a, TurnFacts
<1>3. us \in Seq(SUBSET Nat) /\ DOMAIN us = 1..m /\ us[m] = v /\ \A j \in DOMAIN ts : us[j] = ts[j]
  BY <1>b, <1>c, <1>1, <1>2, AppendFacts
<1>4. \A j \in DOMAIN us : (j \in DOMAIN ts /\ us[j] = ts[j]) \/ (j = m /\ us[j] = v)
  BY <1>c, <1>1, <1>3
<1>5. m \in DOMAIN us /\ DOMAIN ts \subseteq DOMAIN us
  BY <1>c, <1>1, <1>3
<1>6. \A j \in DOMAIN ts : \A n \in ts[j] : n \in Nat /\ n < k + 1
  <2> SUFFICES ASSUME NEW j \in DOMAIN ts, NEW n \in ts[j] PROVE n \in Nat /\ n < k + 1
    OBVIOUS
  <2>1. PICK u \in 1..k : ts[j] = Turn(ms, u)
    BY DEF TurnsUpTo
  <2>2. u \in 1..Len(ms)
    BY <1>2
  <2>3. n \in Nat /\ n >= u /\ \A i \in (u + 1)..n : ms[i].role = "assistant"
    BY <2>1, <2>2, TurnFacts
  <2>4. ~ (k + 1 \in (u + 1)..n)
    BY <2>3
  <2>5. QED
    BY <2>3, <2>4
<1>7. \A j \in DOMAIN us : \E u \in 1..(k + 1) : u > prev /\ ms[u].role = "user" /\ us[j] = Turn(ms, u)
  <2>1. ASSUME NEW j \in DOMAIN ts PROVE \E u \in 1..(k + 1) : u > prev /\ ms[u].role = "user" /\ ts[j] = Turn(ms, u)
    <3>1. PICK u \in 1..k : u > prev /\ ms[u].role = "user" /\ ts[j] = Turn(ms, u)
      BY DEF TurnsUpTo
    <3>2. u \in 1..(k + 1)
      OBVIOUS
    <3>3. QED
      BY <3>1, <3>2
  <2>2. k + 1 \in 1..(k + 1) /\ k + 1 > prev /\ ms[k + 1].role = "user" /\ v = Turn(ms, k + 1)
    BY <1>a
  <2>3. QED
    BY <1>4, <2>1, <2>2
<1>8. \A u \in 1..(k + 1) : u > prev /\ ms[u].role = "user" /\ Turn(ms, u) # {u} => \E j \in DOMAIN us : us[j] = Turn(ms, u)
  <2> SUFFICES ASSUME NEW u \in 1..(k + 1), u > prev, ms[u].role = "user", Turn(ms, u) # {u}
               PROVE  \E j \in DOMAIN us : us[j] = Turn(ms, u)
    OBVIOUS
  <2>1. CASE u = k + 1
    BY <1>a, <1>3, <1>5, <2>1
  <2>2. CASE u # k + 1
    <3>1. u \in 1..k
      BY <2>2
    <3>2. PICK j \in DOMAIN ts : ts[j] = Turn(ms, u)
      BY <3>1 DEF TurnsUpTo
    <3>3. QED
      BY <1>3, <1>5, <3>2
  <2>3. QED
    BY <2>1, <2>2
<1>9. \A i, j \in DOMAIN us : \A n \in us[i] : n \in us[j] => i = j
  <2> SUFFICES ASSUME NEW i \in DOMAIN us, NEW j \in DOMAIN us, NEW n \in us[i], n \in us[j] PROVE i = j
    OBVIOUS
  <2>1. CASE i \in DOMAIN ts /\ us[i] = ts[i] /\ j \in DOMAIN ts /\ us[j] = ts[j]
    BY <2>1 DEF TurnsUpTo
  <2>2. CASE i = m /\ us[i] = v /\ j \in DOMAIN ts /\ us[j] = ts[j]
    <3>1. n >= k + 1 /\ n \in Nat /\ n < k + 1
      BY <1>2, <1>6, <2>2
    <3>2. QED
      BY <3>1
  <2>3. CASE j = m /\ us[j] = v /\ i \in DOMAIN ts /\ us[i] = ts[i]
    <3>1. n >= k + 1 /\ n \in Nat /\ n < k + 1
      BY <1>2, <1>6, <2>3
    <3>2. QED
      BY <3>1
  <2>4. QED
    BY <1>4, <2>1, <2>2, <2>3
<1>10. TurnsUpTo(us, ms, prev, k + 1)
  BY <1>3, <1>7, <1>8, <1>9 DEF TurnsUpTo
<1>11. QED
  BY <1>a, <1>b, <1>10

LEMMA TurnPassed ==
    ASSUME NEW ms, NEW prev \in Nat, NEW k \in Nat, NEW ts, TurnsUpTo(ts, ms, prev, k),
           ~ (k + 1 > prev /\ ms[k + 1].role = "user" /\ Turn(ms, k + 1) # {k + 1})
    PROVE  TurnsUpTo(ts, ms, prev, k + 1)
<1>1. \A u \in 1..(k + 1) : u \in 1..k \/ u = k + 1
  OBVIOUS
<1>2. \A u \in 1..k : u \in 1..(k + 1)
  OBVIOUS
<1>3. \A j \in DOMAIN ts : \E u \in 1..(k + 1) : u > prev /\ ms[u].role = "user" /\ ts[j] = Turn(ms, u)
  BY <1>2 DEF TurnsUpTo
<1>4. \A u \in 1..(k + 1) : u > prev /\ ms[u].role = "user" /\ Turn(ms, u) # {u} => \E j \in DOMAIN ts : ts[j] = Turn(ms, u)
  BY <1>1 DEF TurnsUpTo
<1>5. QED
  BY <1>3, <1>4 DEF TurnsUpTo

LEMMA NewTurnsFacts ==
    ASSUME NEW ms \in Seq(MessageSet), NEW prev \in Nat
    PROVE  TurnsUpTo(NewTurns(ms, prev), ms, prev, Len(ms))
<1>a. PICK f : f = Answered(ms, prev)
  OBVIOUS
<1>1. AnsweredOn(f, ms, prev, Len(ms)) /\ Len(ms) \in Nat
  BY <1>a, AnsweredAre
<1> DEFINE S == {k \in Nat : k <= Len(ms) => TurnsUpTo(f[k], ms, prev, k)}
<1>2. 0 \in S
  <2>1. f[0] = <<>>
    BY <1>1 DEF AnsweredOn
  <2>2. TurnsUpTo(<<>>, ms, prev, 0)
    BY DEF TurnsUpTo
  <2>3. QED
    BY <2>1, <2>2
<1>3. ASSUME NEW k \in Nat, k \in S PROVE k + 1 \in S
  <2>1. SUFFICES ASSUME k + 1 <= Len(ms) PROVE TurnsUpTo(f[k + 1], ms, prev, k + 1)
    OBVIOUS
  <2>a. PICK x : x = Turn(ms, k + 1)
    OBVIOUS
  <2>2. f[k + 1] = IF k + 1 > prev /\ ms[k + 1].role = "user" /\ x # {k + 1} THEN Append(f[k], x) ELSE f[k]
    <3>1. k + 1 \in 0..Len(ms) /\ k + 1 # 0 /\ (k + 1) - 1 = k
      BY <2>1
    <3>2. QED
      BY <1>1, <2>a, <3>1 DEF AnsweredOn
  <2>3. TurnsUpTo(f[k], ms, prev, k)
    BY <1>3, <2>1
  <2>4. CASE k + 1 > prev /\ ms[k + 1].role = "user" /\ x # {k + 1}
    BY <2>a, <2>1, <2>2, <2>3, <2>4, TurnAdded
  <2>5. CASE ~ (k + 1 > prev /\ ms[k + 1].role = "user" /\ x # {k + 1})
    BY <2>a, <2>2, <2>3, <2>5, TurnPassed
  <2>6. QED
    BY <2>4, <2>5
<1> HIDE DEF S
<1>4. Len(ms) \in S
  BY <1>1, <1>2, <1>3, Induction
<1>5. QED
  BY <1>a, <1>1, <1>4 DEF S, NewTurns

\* Every message has its turn's user at or before it, when the first is a user's.
LEMMA AskedFirst ==
    ASSUME NEW ms \in Seq(MessageSet), ms # <<>> => ms[1].role = "user"
    PROVE  \A n \in 1..Len(ms) : \E u \in 1..n : ms[u].role = "user" /\ \A j \in (u + 1)..n : ms[j].role = "assistant"
<1> DEFINE Asked(n) == \E u \in 1..n : ms[u].role = "user" /\ \A j \in (u + 1)..n : ms[j].role = "assistant"
<1> DEFINE S == {n \in Nat : n \in 1..Len(ms) => Asked(n)}
<1>1. 0 \in S
  OBVIOUS
<1>2. ASSUME NEW n \in Nat, n \in S PROVE n + 1 \in S
  <2> SUFFICES ASSUME n + 1 \in 1..Len(ms) PROVE Asked(n + 1)
    OBVIOUS
  <2>1. CASE ms[n + 1].role = "user"
    <3>1. n + 1 \in 1..(n + 1) /\ \A j \in ((n + 1) + 1)..(n + 1) : ms[j].role = "assistant"
      OBVIOUS
    <3>2. QED
      BY <2>1, <3>1
  <2>2. CASE ms[n + 1].role # "user"
    <3>1. ms[n + 1] \in MessageSet
      OBVIOUS
    <3>2. ms[n + 1].role = "assistant"
      BY <2>2, <3>1 DEF MessageSet
    <3>3. n # 0 /\ n \in 1..Len(ms)
      BY <2>2
    <3>4. PICK u \in 1..n : ms[u].role = "user" /\ \A j \in (u + 1)..n : ms[j].role = "assistant"
      BY <1>2, <3>3
    <3>5. \A j \in (u + 1)..(n + 1) : j \in (u + 1)..n \/ j = n + 1
      OBVIOUS
    <3>6. u \in 1..(n + 1) /\ \A j \in (u + 1)..(n + 1) : ms[j].role = "assistant"
      BY <3>2, <3>4, <3>5
    <3>7. QED
      BY <3>4, <3>6
  <2>3. QED
    BY <2>1, <2>2
<1> HIDE DEF S
<1>3. Nat \subseteq S
  BY <1>1, <1>2, Induction
<1>4. QED
  BY <1>3 DEF S

\* Message n is an answer to the user's message u.
AnswerTo(ms, u, n) ==
    ms[u].role = "user" /\ ms[n].role = "assistant" /\ \A j \in (u + 1)..n : ms[j].role = "assistant"

\* What an event makes of the messages it fetched.
TurnsFetched(ts, ms, prev) ==
    /\ ts \in Seq(SUBSET Nat)
    /\ \A j \in DOMAIN ts : \A n \in ts[j] : n \in 1..Len(ms) /\ n > prev
    /\ \A i, j \in DOMAIN ts : \A n \in ts[i] : n \in ts[j] => i = j
    /\ \A n \in 1..Len(ms) : \A u \in 1..n :
         u > prev /\ AnswerTo(ms, u, n) => \E j \in DOMAIN ts : n \in ts[j]

LEMMA FetchFacts ==
    ASSUME NEW ms \in Seq(MessageSet), NEW prev \in Nat
    PROVE  TurnsFetched(NewTurns(ms, prev), ms, prev)
<1>a. PICK ts : ts = NewTurns(ms, prev)
  OBVIOUS
<1>1. TurnsUpTo(ts, ms, prev, Len(ms)) /\ Len(ms) \in Nat
  BY <1>a, NewTurnsFacts
<1>2. ts \in Seq(SUBSET Nat) /\ \A i, j \in DOMAIN ts : \A n \in ts[i] : n \in ts[j] => i = j
  BY <1>1 DEF TurnsUpTo
<1>3. ASSUME NEW j \in DOMAIN ts, NEW n \in ts[j] PROVE n \in 1..Len(ms) /\ n > prev
  <2>1. PICK u \in 1..Len(ms) : u > prev /\ ts[j] = Turn(ms, u)
    BY <1>1 DEF TurnsUpTo
  <2>2. n \in 1..Len(ms) /\ n >= u
    BY <2>1, TurnFacts
  <2>3. QED
    BY <2>1, <2>2
<1>4. ASSUME NEW n \in 1..Len(ms), NEW u \in 1..n, u > prev, AnswerTo(ms, u, n)
      PROVE  \E j \in DOMAIN ts : n \in ts[j]
  <2>1. u \in 1..Len(ms) /\ n # u
    BY <1>4 DEF AnswerTo
  <2>2. n \in (u + 1)..Len(ms)
    BY <2>1
  <2>3. n \in Turn(ms, u) /\ Turn(ms, u) # {u}
    BY <1>4, <2>1, <2>2 DEF Turn, AnswerTo
  <2>4. PICK j \in DOMAIN ts : ts[j] = Turn(ms, u)
    BY <1>1, <1>4, <2>1, <2>3 DEF TurnsUpTo, AnswerTo
  <2>5. QED
    BY <2>3, <2>4
<1>5. QED
  BY <1>a, <1>2, <1>3, <1>4 DEF TurnsFetched

-----------------------------------------------------------------------------
(* OpencodeHook: the invariant.                                            *)

EventSet == [session : ChatSessions \cup {NoChat}, fetched : Seq(MessageSet), busy : BOOLEAN, turns : Seq(SUBSET Nat)]

OpencodeTypeOK ==
    /\ messages \in [ChatSessions -> Seq(MessageSet)] /\ resting \subseteq ChatSessions
    /\ processedCounts \in [ChatSessions -> Nat] /\ event \in [Events -> EventSet] /\ troubles \in Nat
    /\ emitted \in [ChatSessions -> [1..MaxMessages -> Nat]]

\* Only the last message may be half-written.
WholeBehind(ms) == \A i \in 1..Len(ms) : i # Len(ms) => ms[i].whole
AllWhole(ms) == \A i \in 1..Len(ms) : ms[i].whole
ChatOK(s) ==
    /\ Len(messages[s]) <= MaxMessages
    /\ WholeBehind(messages[s])
    /\ s \in resting => AllWhole(messages[s])
    /\ messages[s] # <<>> => messages[s][1].role = "user"

\* No answer follows the first k messages.
Settled(s, k) ==
    \/ k < Len(messages[s]) /\ messages[s][k + 1].role = "user"
    \/ k = Len(messages[s]) /\ (k = 0 \/ s \in resting)

CutAt(s, n) == \E m \in 1..n : /\ <<s, m, "cut">> \in pardon
                               /\ \A j \in (m + 1)..n : messages[s][j].role = "assistant"
\* An answer that the plugin need not deliver any more.
Passed(s, n) == emitted[s][n] > 0 \/ CutAt(s, n) \/ <<s, n, "not taken">> \in pardon

CountOK(s) ==
    /\ processedCounts[s] <= Len(messages[s])
    /\ Settled(s, processedCounts[s]) \/ <<s, processedCounts[s], "cut">> \in pardon
    /\ \A n \in 1..processedCounts[s] : messages[s][n].role = "assistant" => Passed(s, n)

InTurns(h, n) == \E j \in DOMAIN h.turns : n \in h.turns[j]

\* What an event fetched of its session, and has yet to deliver.
FetchedOK(h) ==
    /\ h.session \in ChatSessions
    /\ Len(h.fetched) <= Len(messages[h.session])
    /\ \A i \in 1..Len(h.fetched) : h.fetched[i].role = messages[h.session][i].role
    /\ WholeBehind(h.fetched)
    /\ h.busy \/ (Settled(h.session, Len(h.fetched)) /\ AllWhole(h.fetched))
    /\ \A j \in DOMAIN h.turns : \A n \in h.turns[j] : n \in 1..Len(h.fetched)
    /\ \A i, j \in DOMAIN h.turns : \A n \in h.turns[i] : n \in h.turns[j] => i = j
    /\ \A n \in 1..Len(h.fetched) : h.fetched[n].role = "assistant" =>
         Passed(h.session, n) \/ (n = Len(h.fetched) /\ h.busy) \/ InTurns(h, n)
EventOK(h) == IF h.fetched = <<>> THEN h.turns = <<>> ELSE FetchedOK(h)

\* Event e fetched the n-th message of session s.
Has(e, s, n) == event[e].session = s /\ event[e].fetched # <<>> /\ n <= Len(event[e].fetched)
Excused(s, n) == <<s, n, "overlap">> \in pardon \/ <<s, n, "restart">> \in pardon \/ <<s, n, "answer lost">> \in pardon
InOneTurn(s, n) ==
    /\ emitted[s][n] <= 1
    /\ emitted[s][n] > 0 => n <= processedCounts[s] \/ \E e \in Events : Has(e, s, n)
    /\ \A e, f \in Events : Has(e, s, n) /\ Has(f, s, n) => e = f
    /\ \A e \in Events : Has(e, s, n) /\ InTurns(event[e], n) => emitted[s][n] = 0
EmittedOK(s) ==
    /\ \A n \in 1..MaxMessages : n > Len(messages[s]) => emitted[s][n] = 0
    /\ \A n \in 1..Len(messages[s]) : Excused(s, n) \/ InOneTurn(s, n)

OpencodeInv ==
    /\ OpencodeTypeOK
    /\ \A s \in ChatSessions : ChatOK(s) /\ CountOK(s) /\ EmittedOK(s)
    /\ \A e \in Events : EventOK(event[e])

LEMMA NoEventFacts ==
    /\ NoEvent \in EventSet /\ NoEvent.session = NoChat /\ NoEvent.fetched = <<>> /\ NoEvent.turns = <<>>
  BY DEF NoEvent, EventSet

LEMMA OpencodeBegins == OpencodeInit => OpencodeInv
<1> SUFFICES ASSUME OpencodeInit PROVE OpencodeInv
  OBVIOUS
<1>1. /\ \A s \in ChatSessions : messages[s] = <<>> /\ processedCounts[s] = 0
      /\ \A s \in ChatSessions : \A n \in 1..MaxMessages : emitted[s][n] = 0
      /\ \A e \in Events : event[e] = NoEvent
  BY DEF OpencodeInit
<1>2. MaxMessages \in Nat
  BY OpencodeAssumption
<1>3. OpencodeTypeOK
  <2>1. messages \in [ChatSessions -> Seq(MessageSet)]
    BY DEF OpencodeInit
  <2>2. event \in [Events -> EventSet]
    BY NoEventFacts DEF OpencodeInit
  <2>3. emitted \in [ChatSessions -> [1..MaxMessages -> Nat]]
    BY DEF OpencodeInit
  <2>4. resting \subseteq ChatSessions /\ processedCounts \in [ChatSessions -> Nat] /\ troubles \in Nat
    BY DEF OpencodeInit
  <2>5. QED
    BY <2>1, <2>2, <2>3, <2>4 DEF OpencodeTypeOK
<1>4. Len(<<>>) = 0 /\ 1..0 = {}
  OBVIOUS
<1>5. ASSUME NEW s \in ChatSessions PROVE ChatOK(s) /\ CountOK(s) /\ EmittedOK(s)
  <2>1. messages[s] = <<>> /\ Len(messages[s]) = 0 /\ processedCounts[s] = 0
    BY <1>1, <1>4
  <2>2. ChatOK(s)
    BY <1>2, <1>4, <2>1 DEF ChatOK, WholeBehind, AllWhole
  <2>3. CountOK(s)
    BY <1>4, <2>1 DEF CountOK, Settled
  <2>4. EmittedOK(s)
    BY <1>1, <1>4, <2>1 DEF EmittedOK
  <2>5. QED
    BY <2>2, <2>3, <2>4
<1>6. \A e \in Events : EventOK(event[e])
  BY <1>1, NoEventFacts DEF EventOK
<1>7. QED
  BY <1>3, <1>5, <1>6 DEF OpencodeInv

\* What the invariant gives about one session.
LEMMA SessionFacts ==
    ASSUME OpencodeInv, NEW s \in ChatSessions
    PROVE  /\ messages[s] \in Seq(MessageSet) /\ Len(messages[s]) \in Nat /\ MaxMessages \in Nat
           /\ Len(messages[s]) <= MaxMessages /\ processedCounts[s] \in Nat
           /\ emitted[s] \in [1..MaxMessages -> Nat] /\ \A n \in 1..MaxMessages : emitted[s][n] \in Nat
           /\ \A n \in 1..Len(messages[s]) : n \in 1..MaxMessages /\ n \in Nat
           /\ ChatOK(s) /\ CountOK(s) /\ EmittedOK(s)
<1>1. messages[s] \in Seq(MessageSet) /\ processedCounts[s] \in Nat /\ emitted[s] \in [1..MaxMessages -> Nat]
  BY DEF OpencodeInv, OpencodeTypeOK
<1>2. ChatOK(s) /\ CountOK(s) /\ EmittedOK(s)
  BY DEF OpencodeInv
<1>3. Len(messages[s]) \in Nat /\ MaxMessages \in Nat
  BY <1>1, OpencodeAssumption
<1>4. Len(messages[s]) <= MaxMessages
  BY <1>2 DEF ChatOK
<1>5. \A n \in 1..MaxMessages : emitted[s][n] \in Nat
  BY <1>1
<1>6. \A n \in 1..Len(messages[s]) : n \in 1..MaxMessages /\ n \in Nat
  BY <1>3, <1>4
<1>7. QED
  BY <1>1, <1>2, <1>3, <1>4, <1>5, <1>6

\* What the invariant gives about one event.
LEMMA EventFacts ==
    ASSUME OpencodeInv, NEW e \in Events
    PROVE  /\ event[e] \in EventSet /\ event \in [Events -> EventSet]
           /\ event[e].fetched \in Seq(MessageSet) /\ Len(event[e].fetched) \in Nat
           /\ event[e].turns \in Seq(SUBSET Nat) /\ event[e].busy \in BOOLEAN
           /\ event[e].session \in ChatSessions \cup {NoChat}
           /\ event[e].fetched # <<>> => FetchedOK(event[e])
           /\ event[e].fetched = <<>> => event[e].turns = <<>>
<1>1. event[e] \in EventSet /\ event \in [Events -> EventSet] /\ EventOK(event[e])
  BY DEF OpencodeInv, OpencodeTypeOK
<1>2. event[e].fetched \in Seq(MessageSet) /\ event[e].turns \in Seq(SUBSET Nat) /\ event[e].busy \in BOOLEAN
      /\ event[e].session \in ChatSessions \cup {NoChat}
  BY <1>1 DEF EventSet
<1>3. QED
  BY <1>1, <1>2 DEF EventOK

\* What was passed stays so while roles stay and pardons and traces are added.
LEMMA StaysPassed ==
    ASSUME NEW s, NEW n \in Nat, pardon \subseteq pardon', emitted[s][n] \in Nat, emitted'[s][n] \in Nat,
           emitted[s][n] <= emitted'[s][n], \A j \in 1..n : messages'[s][j].role = messages[s][j].role
    PROVE  Passed(s, n) => Passed(s, n)'
<1>1. emitted[s][n] > 0 => emitted'[s][n] > 0
  OBVIOUS
<1>2. ASSUME CutAt(s, n) PROVE CutAt(s, n)'
  <2>1. PICK m \in 1..n : <<s, m, "cut">> \in pardon /\ \A j \in (m + 1)..n : messages[s][j].role = "assistant"
    BY <1>2 DEF CutAt
  <2>2. \A j \in (m + 1)..n : j \in 1..n
    OBVIOUS
  <2>3. \A j \in (m + 1)..n : messages'[s][j].role = "assistant"
    BY <2>1, <2>2
  <2>4. QED
    BY <2>1, <2>3 DEF CutAt
<1>3. QED
  BY <1>1, <1>2 DEF Passed

\* Messages are added to a session, or its last one becomes whole.
LEMMA ChatGrows ==
    ASSUME OpencodeInv, NEW s \in ChatSessions, NEW t \in Seq(MessageSet), messages' = [messages EXCEPT ![s] = t],
           Len(messages[s]) <= Len(t), Len(t) <= MaxMessages,
           \A i \in 1..Len(messages[s]) : t[i].role = messages[s][i].role,
           WholeBehind(t), t # <<>> => t[1].role = "user",
           resting' \subseteq ChatSessions, \A x \in ChatSessions : x # s => (x \in resting' <=> x \in resting),
           s \in resting' => AllWhole(t),
           \A k \in 0..Len(messages[s]) : Settled(s, k) => Settled(s, k)',
           UNCHANGED <<processedCounts, event, troubles, emitted, pardon>>
    PROVE  OpencodeInv'
<1>1. messages'[s] = t /\ (\A x \in ChatSessions : x # s => messages'[x] = messages[x]) /\ messages' \in [ChatSessions -> Seq(MessageSet)]
  BY DEF OpencodeInv, OpencodeTypeOK
<1>2. OpencodeTypeOK'
  BY <1>1 DEF OpencodeInv, OpencodeTypeOK
<1>3. Len(t) \in Nat
  OBVIOUS
<1>4. \A x \in ChatSessions :
        /\ Len(messages[x]) <= Len(messages'[x])
        /\ \A i \in 1..Len(messages[x]) : messages'[x][i].role = messages[x][i].role
  <2> SUFFICES ASSUME NEW x \in ChatSessions
               PROVE  /\ Len(messages[x]) <= Len(messages'[x])
                      /\ \A i \in 1..Len(messages[x]) : messages'[x][i].role = messages[x][i].role
    OBVIOUS
  <2>1. CASE x = s
    BY <1>1, <2>1
  <2>2. CASE x # s
    <3>1. Len(messages[x]) \in Nat
      BY SessionFacts
    <3>2. QED
      BY <1>1, <2>2, <3>1
  <2>3. QED
    BY <2>1, <2>2
<1>5. ASSUME NEW x \in ChatSessions, NEW n \in 1..Len(messages[x]), Passed(x, n) PROVE Passed(x, n)'
  <2>1. \A j \in 1..n : j \in 1..Len(messages[x])
    BY SessionFacts
  <2>2. \A j \in 1..n : messages'[x][j].role = messages[x][j].role
    BY <1>4, <2>1
  <2>3. emitted[x][n] \in Nat /\ n \in Nat
    BY SessionFacts
  <2>4. QED
    BY <1>5, <2>2, <2>3, StaysPassed
<1>6. ASSUME NEW x \in ChatSessions, NEW k \in 0..Len(messages[x]), Settled(x, k) PROVE Settled(x, k)'
  <2>1. CASE x = s
    BY <1>6, <2>1
  <2>2. CASE x # s
    BY <1>1, <1>6, <2>2 DEF Settled
  <2>3. QED
    BY <2>1, <2>2
<1>7. ASSUME NEW x \in ChatSessions PROVE ChatOK(x)'
  <2>1. CASE x = s
    BY <1>1, <2>1 DEF ChatOK
  <2>2. CASE x # s
    <3>1. ChatOK(x) /\ messages'[x] = messages[x] /\ (x \in resting' <=> x \in resting)
      BY <1>1, <2>2, SessionFacts
    <3>2. QED
      BY <3>1 DEF ChatOK
  <2>3. QED
    BY <2>1, <2>2
<1>8. ASSUME NEW x \in ChatSessions PROVE CountOK(x)'
  <2>a. PICK k : k = processedCounts[x]
    OBVIOUS
  <2>1. CountOK(x) /\ k \in Nat /\ k <= Len(messages[x]) /\ Len(messages[x]) \in Nat /\ processedCounts'[x] = k
    BY <2>a, SessionFacts DEF CountOK
  <2>2. k <= Len(messages'[x])
    <3>1. Len(messages'[x]) \in Nat
      BY <1>1
    <3>2. QED
      BY <1>4, <2>1, <3>1
  <2>3. Settled(x, k)' \/ <<x, k, "cut">> \in pardon'
    <3>1. Settled(x, k) \/ <<x, k, "cut">> \in pardon
      BY <2>a, <2>1 DEF CountOK
    <3>2. k \in 0..Len(messages[x])
      BY <2>1
    <3>3. QED
      BY <1>6, <3>1, <3>2
  <2>4. ASSUME NEW n \in 1..k, messages'[x][n].role = "assistant" PROVE Passed(x, n)'
    <3>1. n \in 1..Len(messages[x])
      BY <2>1
    <3>2. messages[x][n].role = "assistant"
      BY <1>4, <2>4, <3>1
    <3>3. Passed(x, n)
      BY <2>a, <2>1, <3>2 DEF CountOK
    <3>4. QED
      BY <1>5, <3>1, <3>3
  <2>5. QED
    BY <2>1, <2>2, <2>3, <2>4 DEF CountOK
<1>9. ASSUME NEW x \in ChatSessions PROVE EmittedOK(x)'
  <2>1. EmittedOK(x) /\ Len(messages[x]) \in Nat /\ Len(messages[x]) <= Len(messages'[x]) /\ Len(messages'[x]) \in Nat
    BY <1>1, <1>4, SessionFacts
  <2>2. \A n : (Excused(x, n)' <=> Excused(x, n)) /\ (InOneTurn(x, n)' <=> InOneTurn(x, n))
    BY DEF Excused, InOneTurn, Has, InTurns
  <2>3. \A n \in 1..MaxMessages : n > Len(messages'[x]) => n > Len(messages[x]) /\ emitted'[x][n] = emitted[x][n]
    BY <2>1
  <2>4. \A n \in 1..MaxMessages : n > Len(messages'[x]) => emitted'[x][n] = 0
    BY <2>1, <2>3 DEF EmittedOK
  <2>5. ASSUME NEW n \in 1..Len(messages'[x]) PROVE Excused(x, n)' \/ InOneTurn(x, n)'
    <3>1. CASE n \in 1..Len(messages[x])
      BY <2>1, <2>2, <3>1 DEF EmittedOK
    <3>2. CASE n > Len(messages[x])
      <4>1. n \in 1..MaxMessages
        <5>1. ChatOK(x)'
          BY <1>7
        <5>2. Len(messages'[x]) <= MaxMessages /\ MaxMessages \in Nat
          BY <5>1, OpencodeAssumption DEF ChatOK
        <5>3. QED
          BY <2>1, <5>2
      <4>2. emitted[x][n] = 0
        BY <2>1, <3>2, <4>1 DEF EmittedOK
      <4>3. ASSUME NEW e \in Events, Has(e, x, n) PROVE FALSE
        <5>1. FetchedOK(event[e]) /\ event[e].session = x /\ n <= Len(event[e].fetched) /\ Len(event[e].fetched) \in Nat
          BY <4>3, EventFacts DEF Has
        <5>2. Len(event[e].fetched) <= Len(messages[x])
          BY <5>1 DEF FetchedOK
        <5>3. QED
          BY <2>1, <3>2, <5>1, <5>2
      <4>4. InOneTurn(x, n)
        BY <4>2, <4>3 DEF InOneTurn
      <4>5. QED
        BY <2>2, <4>4
    <3>3. QED
      BY <2>1, <3>1, <3>2
  <2>6. QED
    BY <2>4, <2>5 DEF EmittedOK
<1>10. ASSUME NEW e \in Events PROVE EventOK(event[e])'
  <2>a. PICK h : h = event[e]
    OBVIOUS
  <2>1. h.fetched = <<>> => EventOK(h)'
    BY <2>a, EventFacts DEF EventOK
  <2>2. ASSUME h.fetched # <<>> PROVE FetchedOK(h)'
    <3>1. FetchedOK(h) /\ h.fetched \in Seq(MessageSet) /\ Len(h.fetched) \in Nat
      BY <2>a, <2>2, EventFacts
    <3>2. PICK x \in ChatSessions : x = h.session
      BY <3>1 DEF FetchedOK
    <3>3. Len(h.fetched) <= Len(messages[x]) /\ Len(messages[x]) \in Nat /\ Len(messages'[x]) \in Nat
      BY <1>1, <3>1, <3>2, SessionFacts DEF FetchedOK
    <3>4. Len(h.fetched) <= Len(messages'[x])
      BY <1>4, <3>1, <3>3
    <3>5. \A i \in 1..Len(h.fetched) : i \in 1..Len(messages[x])
      BY <3>1, <3>3
    <3>6. \A i \in 1..Len(h.fetched) : h.fetched[i].role = messages'[x][i].role
      BY <1>4, <3>1, <3>2, <3>5 DEF FetchedOK
    <3>7. Settled(x, Len(h.fetched)) => Settled(x, Len(h.fetched))'
      <4>1. Len(h.fetched) \in 0..Len(messages[x])
        BY <3>1, <3>3
      <4>2. QED
        BY <1>6, <4>1
    <3>8. \A i \in 1..Len(h.fetched) : Passed(x, i) => Passed(x, i)'
      BY <1>5, <3>5
    <3>9. h.busy \/ (Settled(x, Len(h.fetched))' /\ AllWhole(h.fetched))
      BY <3>1, <3>2, <3>7 DEF FetchedOK
    <3>10. \A n \in 1..Len(h.fetched) : h.fetched[n].role = "assistant" =>
             Passed(x, n)' \/ (n = Len(h.fetched) /\ h.busy) \/ InTurns(h, n)
      BY <3>1, <3>2, <3>8 DEF FetchedOK
    <3>11. QED
      BY <3>1, <3>2, <3>4, <3>6, <3>9, <3>10 DEF FetchedOK
  <2>3. EventOK(h)'
    BY <2>1, <2>2 DEF EventOK
  <2>4. QED
    BY <2>a, <2>3
<1>11. QED
  BY <1>2, <1>7, <1>8, <1>9, <1>10 DEF OpencodeInv

LEMMA PromptStep ==
    ASSUME OpencodeInv, NEW s \in ChatSessions, Prompt(s)
    PROVE  OpencodeInv'
<1>a. PICK ms : ms = messages[s]
  OBVIOUS
<1>b. PICK x : x = [role |-> "user", whole |-> TRUE]
  OBVIOUS
<1>c. PICK ws : ws = [i \in DOMAIN ms |-> [ms[i] EXCEPT !.whole = TRUE]]
  OBVIOUS
<1>d. PICK t : t = Append(ws, x)
  OBVIOUS
<1>1. messages \in [ChatSessions -> Seq(MessageSet)] /\ resting \subseteq ChatSessions
  BY DEF OpencodeInv, OpencodeTypeOK
<1>2. /\ ms \in Seq(MessageSet) /\ Len(ms) \in Nat /\ DOMAIN ms = 1..Len(ms) /\ Len(ms) < MaxMessages /\ MaxMessages \in Nat
      /\ messages' = [messages EXCEPT ![s] = t]
      /\ resting' = resting \ {s} /\ UNCHANGED <<processedCounts, event, troubles, emitted, pardon>>
  BY <1>a, <1>b, <1>c, <1>d, <1>1, OpencodeAssumption DEF Prompt
<1>3. x \in MessageSet /\ x.role = "user" /\ x.whole
  BY <1>b DEF MessageSet
<1>4. \A i \in 1..Len(ms) : ws[i] \in MessageSet /\ ws[i].role = ms[i].role /\ ws[i].whole
  <2> SUFFICES ASSUME NEW i \in 1..Len(ms) PROVE ws[i] \in MessageSet /\ ws[i].role = ms[i].role /\ ws[i].whole
    OBVIOUS
  <2>1. PICK m : m = ms[i]
    OBVIOUS
  <2>2. m \in MessageSet /\ ws[i] = [m EXCEPT !.whole = TRUE]
    BY <1>c, <1>2, <2>1
  <2>3. QED
    BY <2>1, <2>2 DEF MessageSet
<1>5. ws \in Seq(MessageSet) /\ Len(ws) = Len(ms)
  <2>1. DOMAIN ws = 1..Len(ms) /\ ws = [i \in 1..Len(ms) |-> ws[i]]
    BY <1>c, <1>2
  <2>2. ws \in [1..Len(ms) -> MessageSet]
    BY <1>4, <2>1
  <2>3. QED
    BY <1>2, <2>2
<1>6. /\ t \in Seq(MessageSet) /\ Len(t) = Len(ms) + 1 /\ t[Len(ms) + 1] = x
      /\ \A i \in 1..Len(ms) : t[i] = ws[i]
  BY <1>d, <1>3, <1>5, AppendFacts
<1>7. \A i \in 1..Len(t) : i \in 1..Len(ms) \/ i = Len(ms) + 1
  BY <1>2, <1>6
<1>8. AllWhole(t)
  BY <1>3, <1>4, <1>6, <1>7 DEF AllWhole
<1>9. WholeBehind(t)
  BY <1>8 DEF AllWhole, WholeBehind
<1>10. \A i \in 1..Len(messages[s]) : t[i].role = messages[s][i].role
  BY <1>a, <1>4, <1>6
<1>11. t # <<>> => t[1].role = "user"
  <2>1. CASE ms = <<>>
    BY <1>3, <1>6, <2>1
  <2>2. CASE ms # <<>>
    <3>1. 1 \in 1..Len(ms) /\ ms[1].role = "user"
      BY <1>a, <1>2, <2>2, SessionFacts DEF ChatOK
    <3>2. QED
      BY <1>a, <1>10, <3>1
  <2>3. QED
    BY <2>1, <2>2
<1>12. Len(messages[s]) <= Len(t) /\ Len(t) <= MaxMessages
  BY <1>a, <1>2, <1>6
<1>13. messages'[s] = t
  BY <1>1, <1>2, <1>6
<1>14. ASSUME NEW k \in 0..Len(messages[s]), Settled(s, k) PROVE Settled(s, k)'
  <2>1. k < Len(t) /\ k \in Nat
    BY <1>a, <1>2, <1>6
  <2>2. CASE k = Len(ms)
    <3>1. t[k + 1].role = "user"
      BY <1>3, <1>6, <2>2
    <3>2. QED
      BY <1>13, <2>1, <3>1 DEF Settled
  <2>3. CASE k # Len(ms)
    <3>1. k + 1 \in 1..Len(ms) /\ ms[k + 1].role = "user"
      BY <1>a, <1>2, <1>14, <2>3 DEF Settled
    <3>2. t[k + 1].role = "user"
      BY <1>a, <1>10, <3>1
    <3>3. QED
      BY <1>13, <2>1, <3>2 DEF Settled
  <2>4. QED
    BY <2>2, <2>3
<1>15. resting' \subseteq ChatSessions /\ (\A y \in ChatSessions : y # s => (y \in resting' <=> y \in resting)) /\ s \notin resting'
  BY <1>1, <1>2
<1>16. QED
  BY <1>2, <1>6, <1>9, <1>10, <1>11, <1>12, <1>14, <1>15, ChatGrows

LEMMA AnswerBeginsStep ==
    ASSUME OpencodeInv, NEW s \in ChatSessions, AnswerBegins(s)
    PROVE  OpencodeInv'
<1>a. PICK ms : ms = messages[s]
  OBVIOUS
<1>b. PICK x : x = [role |-> "assistant", whole |-> FALSE]
  OBVIOUS
<1>c. PICK t : t = Append(ms, x)
  OBVIOUS
<1>1. messages \in [ChatSessions -> Seq(MessageSet)] /\ resting \subseteq ChatSessions
  BY DEF OpencodeInv, OpencodeTypeOK
<1>2. /\ ms \in Seq(MessageSet) /\ Len(ms) \in Nat /\ Len(ms) < MaxMessages /\ MaxMessages \in Nat
      /\ messages' = [messages EXCEPT ![s] = t] /\ ms # <<>> /\ s \notin resting /\ ~ Answering(s)
      /\ UNCHANGED <<resting, processedCounts, event, troubles, emitted, pardon>>
  BY <1>a, <1>b, <1>c, <1>1, OpencodeAssumption DEF AnswerBegins
<1>3. x \in MessageSet /\ x.role = "assistant"
  BY <1>b DEF MessageSet
<1>4. /\ t \in Seq(MessageSet) /\ Len(t) = Len(ms) + 1 /\ \A i \in 1..Len(ms) : t[i] = ms[i]
  BY <1>c, <1>2, <1>3, AppendFacts
<1>5. Len(ms) # 0 /\ 1 \in 1..Len(ms) /\ Len(ms) \in 1..Len(ms)
  BY <1>2
<1>6. \A i \in 1..Len(ms) : ms[i].whole
  <2>1. ms[Len(ms)].whole
    BY <1>a, <1>2, <1>5 DEF Answering, Last
  <2>2. WholeBehind(ms)
    BY <1>a, SessionFacts DEF ChatOK
  <2>3. QED
    BY <2>1, <2>2 DEF WholeBehind
<1>7. WholeBehind(t)
  <2>1. \A i \in 1..Len(t) : i # Len(t) => i \in 1..Len(ms)
    BY <1>2, <1>4
  <2>2. QED
    BY <1>4, <1>6, <2>1 DEF WholeBehind
<1>8. t[1].role = "user"
  <2>1. ms[1].role = "user"
    BY <1>a, <1>2, SessionFacts DEF ChatOK
  <2>2. QED
    BY <1>4, <1>5, <2>1
<1>9. messages'[s] = t
  BY <1>1, <1>2, <1>4
<1>10. ASSUME NEW k \in 0..Len(messages[s]), Settled(s, k) PROVE Settled(s, k)'
  <2>1. k < Len(ms) /\ ms[k + 1].role = "user"
    BY <1>a, <1>2, <1>5, <1>10 DEF Settled
  <2>2. k + 1 \in 1..Len(ms) /\ k < Len(t)
    BY <1>2, <1>4, <2>1
  <2>3. QED
    BY <1>4, <1>9, <2>1, <2>2 DEF Settled
<1>11. Len(messages[s]) <= Len(t) /\ Len(t) <= MaxMessages /\ \A i \in 1..Len(messages[s]) : t[i].role = messages[s][i].role
  BY <1>a, <1>2, <1>4
<1>12. QED
  BY <1>1, <1>2, <1>4, <1>7, <1>8, <1>10, <1>11, ChatGrows

LEMMA AnswerEndsStep ==
    ASSUME OpencodeInv, NEW s \in ChatSessions, AnswerEnds(s)
    PROVE  OpencodeInv'
<1>a. PICK ms : ms = messages[s]
  OBVIOUS
<1>b. PICK m : m = ms[Len(ms)]
  OBVIOUS
<1>c. PICK x : x = [m EXCEPT !.whole = TRUE]
  OBVIOUS
<1>d. PICK t : t = [ms EXCEPT ![Len(ms)] = x]
  OBVIOUS
<1>1. messages \in [ChatSessions -> Seq(MessageSet)] /\ resting \subseteq ChatSessions
  BY DEF OpencodeInv, OpencodeTypeOK
<1>2. /\ ms \in Seq(MessageSet) /\ Len(ms) \in Nat /\ Len(ms) <= MaxMessages /\ ms # <<>> /\ ~ m.whole
      /\ UNCHANGED <<resting, processedCounts, event, troubles, emitted, pardon>>
  BY <1>a, <1>b, SessionFacts DEF AnswerEnds, Answering, Last
<1>3. messages' = [messages EXCEPT ![s] = t]
  <2>1. messages' = [messages EXCEPT ![s][Len(messages[s])].whole = TRUE]
    BY DEF AnswerEnds
  <2>2. QED
    BY <1>a, <1>b, <1>c, <1>d, <1>1, <2>1
<1>4. Len(ms) \in 1..Len(ms) /\ Len(ms) \in DOMAIN ms /\ DOMAIN ms = 1..Len(ms) /\ 1 \in 1..Len(ms)
  BY <1>2
<1>5. m \in MessageSet /\ x \in MessageSet /\ x.role = m.role /\ x.whole
  <2>1. m \in MessageSet
    BY <1>b, <1>2, <1>4
  <2>2. QED
    BY <1>c, <2>1 DEF MessageSet
<1>6. t \in Seq(MessageSet) /\ DOMAIN t = DOMAIN ms /\ t[Len(ms)] = x /\ \A i \in DOMAIN ms : i # Len(ms) => t[i] = ms[i]
  BY <1>d, <1>2, <1>4, <1>5, ExceptFacts
<1>7. Len(t) = Len(ms)
  BY <1>2, <1>6
<1>8. \A i \in 1..Len(ms) : t[i].role = ms[i].role
  BY <1>b, <1>4, <1>5, <1>6
<1>9. WholeBehind(t) /\ AllWhole(t)
  <2>1. WholeBehind(ms)
    BY <1>a, SessionFacts DEF ChatOK
  <2>2. QED
    BY <1>4, <1>5, <1>6, <1>7, <2>1 DEF WholeBehind, AllWhole
<1>10. t[1].role = "user"
  <2>1. ms[1].role = "user"
    BY <1>a, <1>2, SessionFacts DEF ChatOK
  <2>2. QED
    BY <1>4, <1>8, <2>1
<1>11. messages'[s] = t
  BY <1>1, <1>3, <1>6
<1>12. ASSUME NEW k \in 0..Len(messages[s]), Settled(s, k) PROVE Settled(s, k)'
  <2>1. CASE k < Len(ms) /\ ms[k + 1].role = "user"
    <3>1. k + 1 \in 1..Len(ms)
      BY <1>a, <1>2, <2>1
    <3>2. QED
      BY <1>7, <1>8, <1>11, <2>1, <3>1 DEF Settled
  <2>2. CASE k = Len(ms) /\ (k = 0 \/ s \in resting)
    BY <1>2, <1>7, <1>11, <2>2 DEF Settled
  <2>3. QED
    BY <1>a, <1>12, <2>1, <2>2 DEF Settled
<1>13. Len(messages[s]) <= Len(t) /\ Len(t) <= MaxMessages /\ \A i \in 1..Len(messages[s]) : t[i].role = messages[s][i].role
  BY <1>a, <1>2, <1>7, <1>8
<1>14. QED
  BY <1>1, <1>2, <1>3, <1>6, <1>9, <1>10, <1>12, <1>13, ChatGrows

\* What is so stays so while the messages stay and traces and pardons are added.
LEMMA Keeps ==
    ASSUME OpencodeInv, messages' = messages, pardon \subseteq pardon', resting \subseteq resting',
           emitted' \in [ChatSessions -> [1..MaxMessages -> Nat]],
           \A s \in ChatSessions : \A n \in 1..MaxMessages : emitted[s][n] <= emitted'[s][n]
    PROVE  /\ \A s \in ChatSessions : \A n \in 1..Len(messages[s]) : Passed(s, n) => Passed(s, n)'
           /\ \A s \in ChatSessions : \A k : Settled(s, k) => Settled(s, k)'
           /\ \A s \in ChatSessions : processedCounts'[s] = processedCounts[s] => CountOK(s)'
           /\ \A h \in EventSet : FetchedOK(h) => FetchedOK(h)'
           /\ \A s, n : Excused(s, n) => Excused(s, n)'
<1>1. ASSUME NEW s \in ChatSessions, NEW n \in 1..Len(messages[s]), Passed(s, n) PROVE Passed(s, n)'
  <2>1. emitted[s][n] \in Nat /\ n \in Nat /\ n \in 1..MaxMessages
    BY SessionFacts
  <2>2. emitted'[s][n] \in Nat /\ emitted[s][n] <= emitted'[s][n]
    BY <2>1
  <2>3. \A j \in 1..n : messages'[s][j].role = messages[s][j].role
    OBVIOUS
  <2>4. QED
    BY <1>1, <2>1, <2>2, <2>3, StaysPassed
<1>2. \A s \in ChatSessions : \A k : Settled(s, k) => Settled(s, k)'
  BY DEF Settled
<1>3. ASSUME NEW s \in ChatSessions, processedCounts'[s] = processedCounts[s] PROVE CountOK(s)'
  <2>a. PICK k : k = processedCounts[s]
    OBVIOUS
  <2>1. CountOK(s) /\ k \in Nat /\ k <= Len(messages[s]) /\ Len(messages[s]) \in Nat
    BY <2>a, SessionFacts DEF CountOK
  <2>2. \A n \in 1..k : n \in 1..Len(messages[s])
    BY <2>1
  <2>3. \A n \in 1..k : messages'[s][n].role = "assistant" => Passed(s, n)'
    BY <1>1, <2>a, <2>1, <2>2 DEF CountOK
  <2>4. Settled(s, k)' \/ <<s, k, "cut">> \in pardon'
    BY <1>2, <2>a, <2>1 DEF CountOK
  <2>5. QED
    BY <1>3, <2>a, <2>1, <2>3, <2>4 DEF CountOK
<1>4. ASSUME NEW h \in EventSet, FetchedOK(h) PROVE FetchedOK(h)'
  <2>1. PICK s \in ChatSessions : s = h.session
    BY <1>4 DEF FetchedOK
  <2>2. h.fetched \in Seq(MessageSet) /\ Len(h.fetched) \in Nat
    BY DEF EventSet
  <2>3. Len(h.fetched) <= Len(messages[s]) /\ Len(messages[s]) \in Nat
    BY <1>4, <2>1, SessionFacts DEF FetchedOK
  <2>4. \A n \in 1..Len(h.fetched) : n \in 1..Len(messages[s])
    BY <2>2, <2>3
  <2>5. \A n \in 1..Len(h.fetched) : Passed(s, n) => Passed(s, n)'
    BY <1>1, <2>4
  <2>6. \A n \in 1..Len(h.fetched) : h.fetched[n].role = "assistant" =>
          Passed(s, n)' \/ (n = Len(h.fetched) /\ h.busy) \/ InTurns(h, n)
    BY <1>4, <2>1, <2>5 DEF FetchedOK
  <2>7. h.busy \/ (Settled(s, Len(h.fetched))' /\ AllWhole(h.fetched))
    BY <1>2, <1>4, <2>1 DEF FetchedOK
  <2>8. QED
    BY <1>4, <2>1, <2>6, <2>7 DEF FetchedOK
<1>5. \A s, n : Excused(s, n) => Excused(s, n)'
  BY DEF Excused
<1>6. QED
  BY <1>1, <1>2, <1>3, <1>4, <1>5

\* The events but for one have what they had.
LEMMA OthersHave ==
    ASSUME OpencodeInv, NEW e \in Events, NEW h \in EventSet, event' = [event EXCEPT ![e] = h]
    PROVE  /\ event'[e] = h /\ event' \in [Events -> EventSet]
           /\ \A x \in Events : x # e => /\ event'[x] = event[x]
                                         /\ \A s, n : Has(x, s, n)' <=> Has(x, s, n)
                                         /\ \A n : InTurns(event[x], n)' <=> InTurns(event[x], n)
           /\ \A s, n : Has(e, s, n)' <=> h.session = s /\ h.fetched # <<>> /\ n <= Len(h.fetched)
<1>1. event'[e] = h /\ event' \in [Events -> EventSet] /\ \A x \in Events : x # e => event'[x] = event[x]
  BY DEF OpencodeInv, OpencodeTypeOK
<1>2. QED
  BY <1>1 DEF Has, InTurns

\* An event begins or ends with nothing fetched.
LEMMA EventWaits ==
    ASSUME OpencodeInv, NEW e \in Events, NEW h \in EventSet, event' = [event EXCEPT ![e] = h],
           h.fetched = <<>>, h.turns = <<>>, event[e].fetched = <<>>,
           UNCHANGED <<messages, processedCounts, troubles, emitted, pardon>>,
           resting \subseteq resting', resting' \subseteq ChatSessions,
           \A s \in resting' : s \in resting \/ AllWhole(messages[s])
    PROVE  OpencodeInv'
<1>0. emitted' \in [ChatSessions -> [1..MaxMessages -> Nat]]
  BY DEF OpencodeInv, OpencodeTypeOK
<1>1. \A s \in ChatSessions : \A n \in 1..MaxMessages : emitted[s][n] <= emitted'[s][n]
  <2>1. \A s \in ChatSessions : \A n \in 1..MaxMessages : emitted[s][n] \in Nat
    BY SessionFacts
  <2>2. QED
    BY <2>1
<1>2. /\ \A s \in ChatSessions : CountOK(s)'
      /\ \A g \in EventSet : FetchedOK(g) => FetchedOK(g)'
      /\ \A s, n : Excused(s, n) => Excused(s, n)'
  BY <1>0, <1>1, Keeps
<1>3. OpencodeTypeOK'
  BY OthersHave DEF OpencodeInv, OpencodeTypeOK
<1>4. \A s \in ChatSessions : ChatOK(s)'
  BY SessionFacts DEF ChatOK
<1>5. \A x \in Events : EventOK(event[x])'
  <2>1. EventOK(event[e])'
    BY OthersHave DEF EventOK
  <2>2. ASSUME NEW x \in Events, x # e PROVE EventOK(event[x])'
    <3>a. PICK g : g = event[x]
      OBVIOUS
    <3>1. event'[x] = g /\ g \in EventSet /\ EventOK(g)
      BY <2>2, <3>a, OthersHave, EventFacts DEF EventOK
    <3>2. EventOK(g)'
      BY <1>2, <3>1 DEF EventOK
    <3>3. QED
      BY <3>1, <3>2
  <2>3. QED
    BY <2>1, <2>2
<1>6. ASSUME NEW s \in ChatSessions PROVE EmittedOK(s)'
  <2>1. \A x \in Events : \A n : Has(x, s, n)' <=> Has(x, s, n)
    <3>1. \A n : ~ Has(e, s, n) /\ ~ Has(e, s, n)'
      BY OthersHave DEF Has
    <3>2. \A x \in Events : x # e => \A n : Has(x, s, n)' <=> Has(x, s, n)
      BY OthersHave
    <3>3. QED
      BY <3>1, <3>2
  <2>2. \A x \in Events : \A n : Has(x, s, n) => (InTurns(event[x], n)' <=> InTurns(event[x], n))
    <3>1. \A n : ~ Has(e, s, n)
      BY DEF Has
    <3>2. QED
      BY <3>1, OthersHave
  <2>3. \A n : InOneTurn(s, n) => InOneTurn(s, n)'
    BY <2>1, <2>2 DEF InOneTurn
  <2>4. EmittedOK(s)
    BY SessionFacts
  <2>5. QED
    BY <1>2, <2>3, <2>4 DEF EmittedOK
<1>7. QED
  BY <1>2, <1>3, <1>4, <1>5, <1>6 DEF OpencodeInv

LEMMA IdleStep ==
    ASSUME OpencodeInv, NEW e \in Events, NEW s \in ChatSessions, Idle(e, s)
    PROVE  OpencodeInv'
<1>a. PICK h : h = [NoEvent EXCEPT !.session = s]
  OBVIOUS
<1>1. /\ event[e] = NoEvent /\ messages[s] # <<>> /\ ~ Answering(s) /\ resting' = resting \cup {s}
      /\ event' = [event EXCEPT ![e] = h] /\ UNCHANGED <<messages, processedCounts, troubles, emitted, pardon>>
  BY <1>a DEF Idle
<1>2. h \in EventSet /\ h.fetched = <<>> /\ h.turns = <<>>
  BY <1>a, NoEventFacts DEF EventSet, NoEvent
<1>3. AllWhole(messages[s])
  <2>1. messages[s] \in Seq(MessageSet) /\ Len(messages[s]) \in Nat /\ WholeBehind(messages[s])
    BY SessionFacts DEF ChatOK
  <2>2. messages[s][Len(messages[s])].whole
    BY <1>1 DEF Answering, Last
  <2>3. QED
    BY <2>1, <2>2 DEF WholeBehind, AllWhole
<1>4. resting \subseteq ChatSessions
  BY DEF OpencodeInv, OpencodeTypeOK
<1>5. QED
  BY <1>1, <1>2, <1>3, <1>4, NoEventFacts, EventWaits

\* The messages come.
LEMMA FetchesStep ==
    ASSUME OpencodeInv, NEW e \in Events, NEW s \in ChatSessions, NEW ms, NEW h, ms = messages[s],
           h = [session |-> s, fetched |-> ms, busy |-> s \notin resting, turns |-> NewTurns(ms, processedCounts[s])],
           event[e].fetched = <<>>, Len(ms) > processedCounts[s], event' = [event EXCEPT ![e] = h],
           pardon' = pardon \cup (IF Overlaps(e, s) THEN Pardon(s, DOMAIN ms, "overlap") ELSE {}),
           UNCHANGED <<messages, resting, processedCounts, troubles, emitted>>
    PROVE  OpencodeInv'
<1>a. PICK k : k = processedCounts[s]
  OBVIOUS
<1>b. PICK ts : ts = NewTurns(ms, k)
  OBVIOUS
<1>1. /\ ms \in Seq(MessageSet) /\ Len(ms) \in Nat /\ DOMAIN ms = 1..Len(ms) /\ k \in Nat /\ k < Len(ms)
      /\ CountOK(s) /\ ChatOK(s) /\ ms # <<>>
  BY <1>a, SessionFacts
<1>2. h.session = s /\ h.fetched = ms /\ h.busy = (s \notin resting) /\ h.turns = ts
  BY <1>a, <1>b
<1>3. /\ ts \in Seq(SUBSET Nat)
      /\ \A j \in DOMAIN ts : \A n \in ts[j] : n \in 1..Len(ms) /\ n > k
      /\ \A i, j \in DOMAIN ts : \A n \in ts[i] : n \in ts[j] => i = j
      /\ \A n \in 1..Len(ms) : \A u \in 1..n :
           u > k /\ AnswerTo(ms, u, n) => \E j \in DOMAIN ts : n \in ts[j]
  <2>1. TurnsFetched(ts, ms, k)
    BY <1>b, <1>1, FetchFacts
  <2>2. QED
    BY <2>1 DEF TurnsFetched
<1>4. h \in EventSet
  <2>1. h = [session |-> s, fetched |-> ms, busy |-> s \notin resting, turns |-> ts]
    BY <1>a, <1>b
  <2>2. (s \notin resting) \in BOOLEAN
    OBVIOUS
  <2>3. QED
    BY <1>1, <1>3, <2>1, <2>2 DEF EventSet
<1>5. emitted' \in [ChatSessions -> [1..MaxMessages -> Nat]] /\ pardon \subseteq pardon'
  BY DEF OpencodeInv, OpencodeTypeOK
<1>6. \A x \in ChatSessions : \A n \in 1..MaxMessages : emitted[x][n] <= emitted'[x][n]
  <2>1. \A x \in ChatSessions : \A n \in 1..MaxMessages : emitted[x][n] \in Nat
    BY SessionFacts
  <2>2. QED
    BY <2>1
<1>7. /\ \A x \in ChatSessions : CountOK(x)'
      /\ \A g \in EventSet : FetchedOK(g) => FetchedOK(g)'
      /\ \A x, n : Excused(x, n) => Excused(x, n)'
      /\ \A n \in 1..Len(ms) : Passed(s, n) => Passed(s, n)'
  BY <1>5, <1>6, Keeps
<1>8. OpencodeTypeOK'
  BY <1>4, OthersHave DEF OpencodeInv, OpencodeTypeOK
<1>9. \A x \in ChatSessions : ChatOK(x)'
  BY SessionFacts DEF ChatOK
<1>10. ASSUME NEW n \in 1..Len(ms), ms[n].role = "assistant", ~ Passed(s, n) PROVE InTurns(h, n)
  <2>1. PICK u \in 1..n : ms[u].role = "user" /\ \A j \in (u + 1)..n : ms[j].role = "assistant"
    BY <1>1, AskedFirst DEF ChatOK
  <2>2. n > k
    <3>1. ~ (n \in 1..k)
      BY <1>a, <1>1, <1>10 DEF CountOK
    <3>2. QED
      BY <1>1, <3>1
  <2>3. CASE u > k
    BY <1>2, <1>3, <1>10, <2>1, <2>3 DEF InTurns, AnswerTo
  <2>4. CASE u <= k
    <3>1. k + 1 \in (u + 1)..n /\ k \in 1..n /\ \A j \in (k + 1)..n : j \in (u + 1)..n
      BY <1>1, <2>2, <2>4
    <3>2. ms[k + 1].role = "assistant" /\ \A j \in (k + 1)..n : ms[j].role = "assistant"
      BY <2>1, <3>1
    <3>3. ~ Settled(s, k)
      BY <1>1, <3>2 DEF Settled
    <3>4. <<s, k, "cut">> \in pardon
      BY <1>a, <1>1, <3>3 DEF CountOK
    <3>5. CutAt(s, n)
      BY <3>1, <3>2, <3>4 DEF CutAt
    <3>6. QED
      BY <1>10, <3>5 DEF Passed
  <2>5. QED
    BY <1>1, <2>3, <2>4
<1>11. FetchedOK(h)'
  <2>1. WholeBehind(ms) /\ (s \in resting => AllWhole(ms))
    BY <1>1 DEF ChatOK
  <2>2. h.busy \/ (Settled(s, Len(ms))' /\ AllWhole(ms))
    BY <1>2, <2>1 DEF Settled
  <2>3. \A n \in 1..Len(ms) : ms[n].role = "assistant" => Passed(s, n)' \/ InTurns(h, n)
    BY <1>7, <1>10
  <2>4. \A j \in DOMAIN h.turns : \A n \in h.turns[j] : n \in 1..Len(ms)
    BY <1>2, <1>3
  <2>5. \A i, j \in DOMAIN h.turns : \A n \in h.turns[i] : n \in h.turns[j] => i = j
    BY <1>2, <1>3
  <2>6. Len(ms) <= Len(messages'[s]) /\ \A i \in 1..Len(ms) : ms[i].role = messages'[s][i].role
    BY <1>1
  <2>7. QED
    BY <1>2, <2>1, <2>2, <2>3, <2>4, <2>5, <2>6 DEF FetchedOK
<1>12. \A x \in Events : EventOK(event[x])'
  <2>1. EventOK(event[e])'
    <3>1. event'[e] = h
      BY <1>4, OthersHave
    <3>2. EventOK(h)'
      BY <1>1, <1>2, <1>11 DEF EventOK
    <3>3. QED
      BY <3>1, <3>2
  <2>2. ASSUME NEW x \in Events, x # e PROVE EventOK(event[x])'
    <3>a. PICK g : g = event[x]
      OBVIOUS
    <3>1. event'[x] = g /\ g \in EventSet /\ EventOK(g)
      BY <1>4, <2>2, <3>a, OthersHave, EventFacts DEF EventOK
    <3>2. EventOK(g)'
      BY <1>7, <3>1 DEF EventOK
    <3>3. QED
      BY <3>1, <3>2
  <2>3. QED
    BY <2>1, <2>2
<1>13. \A x \in ChatSessions : \A n : Has(e, x, n)' <=> (x = s /\ n <= Len(ms))
  <2>1. \A x, n : Has(e, x, n)' <=> (h.session = x /\ h.fetched # <<>> /\ n <= Len(h.fetched))
    BY <1>4, OthersHave
  <2>2. QED
    BY <1>1, <1>2, <2>1
<1>14. ASSUME NEW n \in 1..Len(ms), NEW x \in Events, x # e, Has(x, s, n) PROVE Excused(s, n)'
  <2>1. Overlaps(e, s)
    BY <1>14 DEF Overlaps, Has
  <2>2. <<s, n, "overlap">> \in Pardon(s, DOMAIN ms, "overlap")
    BY <1>1 DEF Pardon
  <2>3. QED
    BY <2>1, <2>2 DEF Excused
<1>15. ASSUME NEW x \in ChatSessions PROVE EmittedOK(x)'
  <2>0. EmittedOK(x)
    BY SessionFacts
  <2>1. ASSUME NEW n \in 1..Len(messages[x]), ~ Excused(x, n)' PROVE InOneTurn(x, n)'
    <3>1. InOneTurn(x, n)
      BY <1>7, <2>0, <2>1 DEF EmittedOK
    <3>2. \A y \in Events : y # e => (Has(y, x, n)' <=> Has(y, x, n)) /\ (InTurns(event[y], n)' <=> InTurns(event[y], n))
      BY <1>4, OthersHave
    <3>3. ~ Has(e, x, n)
      BY DEF Has
    <3>4. CASE x # s
      <4>1. ~ Has(e, x, n)'
        BY <1>13, <3>4
      <4>2. \A y \in Events : (Has(y, x, n)' <=> Has(y, x, n)) /\ (Has(y, x, n) => (InTurns(event[y], n)' <=> InTurns(event[y], n)))
        BY <3>2, <3>3, <4>1
      <4>3. QED
        BY <3>1, <4>2 DEF InOneTurn
    <3>5. CASE x = s
      <4>1. n \in 1..Len(ms) /\ \A y \in Events : ~ Has(y, s, n)
        BY <1>14, <2>1, <3>3, <3>5
      <4>2. \A y \in Events : Has(y, s, n)' => y = e
        BY <3>2, <3>5, <4>1
      <4>3. Has(e, s, n)'
        BY <1>1, <1>13, <4>1
      <4>4. emitted[s][n] > 0 => n <= k
        BY <1>a, <3>1, <3>5, <4>1 DEF InOneTurn
      <4>5. ASSUME InTurns(event[e], n)' PROVE emitted'[s][n] = 0
        <5>1. InTurns(h, n)
          BY <1>4, <4>5, OthersHave DEF InTurns
        <5>2. n > k
          BY <1>2, <1>3, <5>1 DEF InTurns
        <5>3. ~ (emitted[s][n] > 0)
          BY <1>1, <4>1, <4>4, <5>2
        <5>4. emitted[s][n] \in Nat
          BY <4>1, SessionFacts
        <5>5. QED
          BY <5>3, <5>4
      <4>6. emitted'[s][n] <= 1
        BY <3>1, <3>5 DEF InOneTurn
      <4>7. QED
        BY <3>5, <4>2, <4>3, <4>5, <4>6 DEF InOneTurn
    <3>6. QED
      BY <3>4, <3>5
  <2>2. QED
    BY <2>0, <2>1 DEF EmittedOK
<1>16. QED
  BY <1>7, <1>8, <1>9, <1>12, <1>15 DEF OpencodeInv

LEMMA FetchStep ==
    ASSUME OpencodeInv, NEW e \in Events, Fetch(e)
    PROVE  OpencodeInv'
<1>a. PICK s : s = event[e].session
  OBVIOUS
<1>1. s \in ChatSessions /\ event[e].fetched = <<>> /\ UNCHANGED <<messages, resting, processedCounts, troubles, emitted>>
  BY <1>a, EventFacts DEF Fetch
<1>2. CASE event' = [event EXCEPT ![e] = NoEvent] /\ UNCHANGED pardon
  <2>1. resting \subseteq ChatSessions
    BY DEF OpencodeInv, OpencodeTypeOK
  <2>2. QED
    BY <1>1, <1>2, <2>1, NoEventFacts, EventWaits
<1>3. CASE /\ Len(messages[s]) > processedCounts[s]
           /\ event' = [event EXCEPT ![e] = [session |-> s, fetched |-> messages[s], busy |-> s \notin resting,
                                             turns |-> NewTurns(messages[s], processedCounts[s])]]
           /\ pardon' = pardon \cup (IF Overlaps(e, s) THEN Pardon(s, DOMAIN messages[s], "overlap") ELSE {})
  BY <1>1, <1>3, FetchesStep
<1>4. QED
  BY <1>a, <1>2, <1>3 DEF Fetch

LEMMA PardonFacts == \A s, S, what, n : n \in S => <<s, n, what>> \in Pardon(s, S, what)
  BY DEF Pardon

LEMMA TailFacts ==
    ASSUME NEW S, NEW ts \in Seq(S), ts # <<>>
    PROVE  /\ 1 \in DOMAIN ts /\ Head(ts) = ts[1] /\ Tail(ts) \in Seq(S)
           /\ \A j \in DOMAIN Tail(ts) : j + 1 \in DOMAIN ts /\ Tail(ts)[j] = ts[j + 1] /\ j \in Nat /\ j >= 1
           /\ \A j \in DOMAIN ts : j # 1 => j - 1 \in DOMAIN Tail(ts) /\ Tail(ts)[j - 1] = ts[j]
<1>1. Len(ts) \in Nat /\ Len(ts) >= 1 /\ DOMAIN ts = 1..Len(ts) /\ Head(ts) = ts[1] /\ Tail(ts) \in Seq(S)
  OBVIOUS
<1>2. DOMAIN Tail(ts) = 1..(Len(ts) - 1) /\ \A j \in 1..(Len(ts) - 1) : Tail(ts)[j] = ts[j + 1]
  OBVIOUS
<1>3. QED
  BY <1>1, <1>2

LEMMA EmitStep ==
    ASSUME OpencodeInv, NEW e \in Events, EmitTurn(e)
    PROVE  OpencodeInv'
<1>a. PICK g : g = event[e]
  OBVIOUS
<1>b. PICK s : s = g.session
  OBVIOUS
<1>c. PICK ts : ts = g.turns
  OBVIOUS
<1>d. PICK turn : turn = Head(ts)
  OBVIOUS
<1>e. PICK whole : whole = {n \in turn : g.fetched[n].whole}
  OBVIOUS
<1>1. /\ g \in EventSet /\ ts # <<>> /\ g.fetched # <<>> /\ FetchedOK(g) /\ s \in ChatSessions
      /\ g.fetched \in Seq(MessageSet) /\ Len(g.fetched) \in Nat /\ ts \in Seq(SUBSET Nat)
  <2>1. ts # <<>>
    BY <1>a, <1>c DEF EmitTurn
  <2>2. QED
    BY <1>a, <1>b, <1>c, <2>1, EventFacts DEF FetchedOK
<1>2. PICK times \in 0..2 :
        /\ troubles' = troubles \/ troubles' = troubles + 1
        /\ emitted' = [emitted EXCEPT ![s] = [n \in DOMAIN @ |-> IF n \in whole THEN @[n] + times ELSE @[n]]]
        /\ pardon \subseteq pardon'
        /\ times = 0 => Pardon(s, turn, "not taken") \subseteq pardon'
        /\ times = 2 => Pardon(s, turn, "answer lost") \subseteq pardon'
  <2>1. PICK times \in 0..2 :
          /\ IF times = 1 THEN UNCHANGED troubles ELSE Trouble
          /\ emitted' = [emitted EXCEPT ![s] = [n \in DOMAIN @ |-> IF n \in whole THEN @[n] + times ELSE @[n]]]
          /\ pardon' = pardon \cup (CASE times = 0 -> Pardon(s, turn, "not taken")
                                      [] times = 1 -> {}
                                      [] times = 2 -> Pardon(s, turn, "answer lost"))
    BY <1>a, <1>b, <1>c, <1>d, <1>e DEF EmitTurn
  <2>2. troubles' = troubles \/ troubles' = troubles + 1
    BY <2>1 DEF Trouble
  <2>3. pardon \subseteq pardon'
    BY <2>1
  <2>a. PICK lost : lost = Pardon(s, turn, "not taken")
    OBVIOUS
  <2>b. PICK twice : twice = Pardon(s, turn, "answer lost")
    OBVIOUS
  <2>c. pardon' = pardon \cup (CASE times = 0 -> lost [] times = 1 -> {} [] times = 2 -> twice)
    BY <2>1, <2>a, <2>b
  <2>d. times = 0 => pardon' = pardon \cup lost
    BY <2>c
  <2>e. times = 2 => pardon' = pardon \cup twice
    BY <2>c
  <2>4. (times = 0 => Pardon(s, turn, "not taken") \subseteq pardon')
        /\ (times = 2 => Pardon(s, turn, "answer lost") \subseteq pardon')
    BY <2>a, <2>b, <2>d, <2>e
  <2>5. QED
    BY <2>1, <2>2, <2>3, <2>4
<1>3. PICK h \in EventSet : /\ h.session = s /\ h.fetched = g.fetched /\ h.busy = g.busy /\ h.turns = Tail(ts)
                            /\ event' = [event EXCEPT ![e] = h]
  <2>1. PICK h : h = [g EXCEPT !.turns = Tail(ts)]
    OBVIOUS
  <2>2. Tail(ts) \in Seq(SUBSET Nat)
    BY <1>1, TailFacts
  <2>3. h \in EventSet /\ h.session = s /\ h.fetched = g.fetched /\ h.busy = g.busy /\ h.turns = Tail(ts)
    BY <1>b, <1>1, <2>1, <2>2 DEF EventSet
  <2>4. event' = [event EXCEPT ![e] = h]
    <3>1. event' = [event EXCEPT ![e].turns = Tail(@)]
      BY DEF EmitTurn
    <3>2. event \in [Events -> EventSet]
      BY EventFacts
    <3>3. QED
      BY <1>a, <1>c, <2>1, <3>1, <3>2
  <2>5. QED
    BY <2>3, <2>4
<1>4. UNCHANGED <<messages, resting, processedCounts>>
  BY DEF EmitTurn
<1>5. /\ 1 \in DOMAIN ts /\ turn = ts[1]
      /\ \A j \in DOMAIN Tail(ts) : j + 1 \in DOMAIN ts /\ Tail(ts)[j] = ts[j + 1] /\ j \in Nat /\ j >= 1
      /\ \A j \in DOMAIN ts : j # 1 => j - 1 \in DOMAIN Tail(ts) /\ Tail(ts)[j - 1] = ts[j]
  BY <1>d, <1>1, TailFacts
<1>6. /\ \A n \in turn : n \in 1..Len(g.fetched) /\ InTurns(g, n)
      /\ \A n : InTurns(h, n) => InTurns(g, n) /\ n \notin turn
      /\ \A n : InTurns(g, n) => InTurns(h, n) \/ n \in turn
  <2>1. \A n \in turn : n \in 1..Len(g.fetched) /\ InTurns(g, n)
    BY <1>c, <1>1, <1>5 DEF FetchedOK, InTurns
  <2>2. ASSUME NEW n, InTurns(h, n) PROVE InTurns(g, n) /\ n \notin turn
    <3>1. PICK j \in DOMAIN Tail(ts) : n \in Tail(ts)[j]
      BY <1>3, <2>2 DEF InTurns
    <3>2. j + 1 \in DOMAIN ts /\ n \in ts[j + 1] /\ j + 1 # 1
      BY <1>5, <3>1
    <3>3. n \notin ts[1]
      BY <1>c, <1>1, <1>5, <3>2 DEF FetchedOK
    <3>4. QED
      BY <1>c, <1>5, <3>2, <3>3 DEF InTurns
  <2>3. ASSUME NEW n, InTurns(g, n) PROVE InTurns(h, n) \/ n \in turn
    <3>1. PICK j \in DOMAIN ts : n \in ts[j]
      BY <1>c, <2>3 DEF InTurns
    <3>2. CASE j = 1
      BY <1>5, <3>1, <3>2
    <3>3. CASE j # 1
      <4>1. j - 1 \in DOMAIN Tail(ts) /\ n \in Tail(ts)[j - 1]
        BY <1>5, <3>1, <3>3
      <4>2. QED
        BY <1>3, <4>1 DEF InTurns
    <3>4. QED
      BY <3>2, <3>3
  <2>4. QED
    BY <2>1, <2>2, <2>3
<1>7. /\ \A x \in ChatSessions : x # s => emitted'[x] = emitted[x]
      /\ \A n \in 1..MaxMessages : emitted[s][n] \in Nat /\ emitted'[s][n] = IF n \in whole THEN emitted[s][n] + times ELSE emitted[s][n]
      /\ emitted' \in [ChatSessions -> [1..MaxMessages -> Nat]]
  <2>a. PICK f : f = [n \in 1..MaxMessages |-> IF n \in whole THEN emitted[s][n] + times ELSE emitted[s][n]]
    OBVIOUS
  <2>1. emitted \in [ChatSessions -> [1..MaxMessages -> Nat]] /\ DOMAIN emitted[s] = 1..MaxMessages
    BY <1>1 DEF OpencodeInv, OpencodeTypeOK
  <2>2. \A n \in 1..MaxMessages : emitted[s][n] \in Nat /\ emitted[s][n] + times \in Nat
    <3>1. \A n \in 1..MaxMessages : emitted[s][n] \in Nat
      BY <1>1, SessionFacts
    <3>2. QED
      BY <3>1
  <2>3. f \in [1..MaxMessages -> Nat]
    BY <2>a, <2>2
  <2>4. emitted' = [emitted EXCEPT ![s] = f]
    BY <1>1, <1>2, <2>a, <2>1
  <2>5. emitted'[s] = f /\ (\A x \in ChatSessions : x # s => emitted'[x] = emitted[x])
        /\ emitted' \in [ChatSessions -> [1..MaxMessages -> Nat]]
    BY <1>1, <2>1, <2>3, <2>4
  <2>6. QED
    BY <2>a, <2>2, <2>5
<1>8. \A x \in ChatSessions : \A n \in 1..MaxMessages : emitted[x][n] <= emitted'[x][n]
  <2> SUFFICES ASSUME NEW x \in ChatSessions, NEW n \in 1..MaxMessages PROVE emitted[x][n] <= emitted'[x][n]
    OBVIOUS
  <2>1. emitted[x][n] \in Nat
    BY SessionFacts
  <2>2. QED
    BY <1>7, <2>1
<1>9. /\ \A x \in ChatSessions : CountOK(x)'
      /\ \A i \in EventSet : FetchedOK(i) => FetchedOK(i)'
      /\ \A x, n : Excused(x, n) => Excused(x, n)'
  BY <1>2, <1>4, <1>7, <1>8, Keeps
<1>10. OpencodeTypeOK'
  <2>0. troubles \in Nat
    BY DEF OpencodeInv, OpencodeTypeOK
  <2>a. troubles' = troubles \/ troubles' = troubles + 1
    BY <1>2, Zenon
  <2>1. troubles' \in Nat
    BY <2>a, <2>0
  <2>2. event' \in [Events -> EventSet]
    BY <1>3, OthersHave
  <2>3. QED
    BY <1>4, <1>7, <2>1, <2>2 DEF OpencodeInv, OpencodeTypeOK
<1>11. \A x \in ChatSessions : ChatOK(x)'
  BY <1>4, SessionFacts DEF ChatOK
<1>12. Len(g.fetched) <= Len(messages[s]) /\ \A n \in 1..Len(g.fetched) : n \in 1..Len(messages[s]) /\ n \in 1..MaxMessages
  <2>1. Len(g.fetched) <= Len(messages[s])
    BY <1>b, <1>1 DEF FetchedOK
  <2>2. QED
    BY <1>1, <2>1, SessionFacts
<1>13. \A n \in turn : Passed(s, n)' \/ (n = Len(g.fetched) /\ g.busy)
  <2> SUFFICES ASSUME NEW n \in turn PROVE Passed(s, n)' \/ (n = Len(g.fetched) /\ g.busy)
    OBVIOUS
  <2>1. n \in 1..Len(g.fetched) /\ n \in 1..MaxMessages
    BY <1>6, <1>12
  <2>2. CASE n \notin whole
    <3>1. ~ g.fetched[n].whole
      BY <1>e, <2>2
    <3>2. QED
      BY <1>1, <2>1, <3>1 DEF FetchedOK, WholeBehind, AllWhole
  <2>3. CASE n \in whole /\ times = 0
    BY <1>2, <2>3, PardonFacts DEF Passed
  <2>4. CASE n \in whole /\ times # 0
    <3>1. emitted'[s][n] > 0
      BY <1>7, <2>1, <2>4
    <3>2. QED
      BY <3>1 DEF Passed
  <2>5. QED
    BY <2>2, <2>3, <2>4
<1>14. FetchedOK(h)'
  <2>1. FetchedOK(g)'
    BY <1>1, <1>9
  <2>2. \A n \in 1..Len(h.fetched) : h.fetched[n].role = "assistant" =>
          Passed(s, n)' \/ (n = Len(h.fetched) /\ h.busy) \/ InTurns(h, n)
    BY <1>b, <1>3, <1>6, <1>13, <2>1 DEF FetchedOK
  <2>3. \A j \in DOMAIN h.turns : \A n \in h.turns[j] : n \in 1..Len(h.fetched)
    <3>1. \A j \in DOMAIN h.turns : \A n \in h.turns[j] : InTurns(g, n)
      BY <1>6 DEF InTurns
    <3>2. \A n : InTurns(g, n) => n \in 1..Len(g.fetched)
      BY <1>1 DEF FetchedOK, InTurns
    <3>3. QED
      BY <1>3, <3>1, <3>2
  <2>4. ASSUME NEW i \in DOMAIN h.turns, NEW j \in DOMAIN h.turns, NEW n \in h.turns[i], n \in h.turns[j] PROVE i = j
    <3>1. i + 1 \in DOMAIN ts /\ n \in ts[i + 1] /\ j + 1 \in DOMAIN ts /\ n \in ts[j + 1] /\ i \in Nat /\ j \in Nat
      BY <1>3, <1>5, <2>4
    <3>2. i + 1 = j + 1
      BY <1>c, <1>1, <3>1 DEF FetchedOK
    <3>3. QED
      BY <3>1, <3>2
  <2>5. QED
    BY <1>b, <1>3, <2>1, <2>2, <2>3, <2>4 DEF FetchedOK
<1>15. \A x \in Events : EventOK(event[x])'
  <2>1. EventOK(event[e])'
    <3>1. event'[e] = h
      BY <1>3, OthersHave
    <3>2. EventOK(h)'
      BY <1>1, <1>3, <1>14 DEF EventOK
    <3>3. QED
      BY <3>1, <3>2
  <2>2. ASSUME NEW x \in Events, x # e PROVE EventOK(event[x])'
    <3>a. PICK i : i = event[x]
      OBVIOUS
    <3>1. event'[x] = i /\ i \in EventSet /\ EventOK(i)
      BY <1>3, <2>2, <3>a, OthersHave, EventFacts DEF EventOK
    <3>2. EventOK(i)'
      BY <1>9, <3>1 DEF EventOK
    <3>3. QED
      BY <3>1, <3>2
  <2>3. QED
    BY <2>1, <2>2
<1>16. \A y \in Events : \A x, n : /\ Has(y, x, n)' <=> Has(y, x, n)
                                   /\ InTurns(event[y], n)' => InTurns(event[y], n)
                                   /\ y = e /\ n \in turn => ~ InTurns(event[y], n)'
  <2>1. \A y \in Events : y # e => \A x, n : (Has(y, x, n)' <=> Has(y, x, n)) /\ (InTurns(event[y], n)' <=> InTurns(event[y], n))
    BY <1>3, OthersHave
  <2>2. \A x, n : Has(e, x, n)' <=> Has(e, x, n)
    <3>1. \A x, n : Has(e, x, n)' <=> (h.session = x /\ h.fetched # <<>> /\ n <= Len(h.fetched))
      BY <1>3, OthersHave
    <3>2. QED
      BY <1>a, <1>b, <1>3, <3>1 DEF Has
  <2>3. \A n : InTurns(event[e], n)' <=> InTurns(h, n)
    <3>1. event'[e] = h
      BY <1>3, OthersHave
    <3>2. QED
      BY <3>1 DEF InTurns
  <2>4. \A n : InTurns(event[e], n) <=> InTurns(g, n)
    BY <1>a DEF InTurns
  <2>5. QED
    BY <1>6, <2>1, <2>2, <2>3, <2>4
<1>17. ASSUME NEW x \in ChatSessions PROVE EmittedOK(x)'
  <2>0. EmittedOK(x)
    BY SessionFacts
  <2>1. ASSUME NEW n \in 1..MaxMessages, n > Len(messages[x]) PROVE emitted'[x][n] = 0
    <3>1. emitted[x][n] = 0
      BY <2>0, <2>1 DEF EmittedOK
    <3>2. x = s => n \notin whole
      <4>1. ASSUME x = s, n \in whole PROVE FALSE
        <5>1. n \in 1..Len(messages[s]) /\ Len(messages[s]) \in Nat
          BY <1>e, <1>1, <1>6, <1>12, <4>1, SessionFacts
        <5>2. QED
          BY <2>1, <4>1, <5>1
      <4>2. QED
        BY <4>1
    <3>3. QED
      BY <1>7, <3>1, <3>2
  <2>2. ASSUME NEW n \in 1..Len(messages[x]), ~ Excused(x, n)' PROVE InOneTurn(x, n)'
    <3>1. InOneTurn(x, n) /\ n \in 1..MaxMessages
      BY <1>9, <2>0, <2>2, SessionFacts DEF EmittedOK
    <3>2. CASE x = s /\ n \in whole
      <4>1. n \in turn /\ n \in 1..Len(g.fetched)
        BY <1>e, <1>6, <3>2
      <4>2. Has(e, s, n) /\ InTurns(event[e], n)
        <5>1. InTurns(event[e], n)
          BY <1>a, <1>6, <4>1 DEF InTurns
        <5>2. n <= Len(g.fetched)
          BY <1>1, <4>1
        <5>3. QED
          BY <1>a, <1>b, <1>1, <5>1, <5>2 DEF Has
      <4>3. emitted[s][n] = 0
        BY <3>1, <3>2, <4>2 DEF InOneTurn
      <4>4. times # 2
        BY <1>2, <2>2, <3>2, <4>1, PardonFacts DEF Excused
      <4>5. emitted'[s][n] <= 1
        BY <1>7, <3>1, <3>2, <4>3, <4>4
      <4>6. \A y \in Events : Has(y, s, n)' => y = e
        BY <1>16, <3>1, <3>2, <4>2 DEF InOneTurn
      <4>7. \A y \in Events : ~ (Has(y, s, n)' /\ InTurns(event[y], n)')
        BY <1>16, <4>1, <4>6
      <4>8. Has(e, s, n)'
        BY <1>16, <4>2
      <4>9. QED
        BY <3>2, <4>5, <4>6, <4>7, <4>8 DEF InOneTurn
    <3>3. CASE ~ (x = s /\ n \in whole)
      <4>1. emitted'[x][n] = emitted[x][n]
        BY <1>7, <3>1, <3>3
      <4>2. QED
        BY <1>4, <1>16, <3>1, <4>1 DEF InOneTurn
    <3>4. QED
      BY <3>2, <3>3
  <2>3. QED
    BY <1>4, <2>1, <2>2 DEF EmittedOK
<1>18. QED
  BY <1>9, <1>10, <1>11, <1>15, <1>17 DEF OpencodeInv

LEMMA SetCountStep ==
    ASSUME OpencodeInv, NEW e \in Events, SetCount(e)
    PROVE  OpencodeInv'
<1>a. PICK g : g = event[e]
  OBVIOUS
<1>b. PICK s : s = g.session
  OBVIOUS
<1>c. PICK k : k = Len(g.fetched)
  OBVIOUS
<1>d. PICK old : old = processedCounts[s]
  OBVIOUS
<1>1. /\ s # NoChat /\ g.fetched # <<>> /\ g.turns = <<>>
      /\ processedCounts' = [processedCounts EXCEPT ![s] = k]
      /\ pardon' = pardon \cup Pardon(s, Cut(e), "cut") \cup (IF k < old THEN Pardon(s, (k + 1)..old, "overlap") ELSE {})
      /\ event' = [event EXCEPT ![e] = NoEvent]
      /\ UNCHANGED <<messages, resting, troubles, emitted>>
  BY <1>a, <1>b, <1>c, <1>d DEF SetCount, CountOfFetched
<1>2. /\ g \in EventSet /\ FetchedOK(g) /\ s \in ChatSessions /\ k \in Nat /\ g.fetched \in Seq(MessageSet) /\ old \in Nat
      /\ g.busy => Cut(e) = {k}
  <2>1. g \in EventSet /\ FetchedOK(g) /\ g.fetched \in Seq(MessageSet) /\ Len(g.fetched) \in Nat /\ s \in ChatSessions
    BY <1>a, <1>b, <1>1, EventFacts DEF FetchedOK
  <2>2. g.busy => Cut(e) = {k}
    BY <1>a, <1>c DEF Cut
  <2>3. QED
    BY <1>c, <1>d, <2>1, <2>2, SessionFacts
<1>3. pardon \subseteq pardon'
  BY <1>1
<1>4. emitted' \in [ChatSessions -> [1..MaxMessages -> Nat]]
  BY <1>1 DEF OpencodeInv, OpencodeTypeOK
<1>5. \A x \in ChatSessions : \A n \in 1..MaxMessages : emitted[x][n] <= emitted'[x][n]
  <2>1. \A x \in ChatSessions : \A n \in 1..MaxMessages : emitted[x][n] \in Nat
    BY SessionFacts
  <2>2. QED
    BY <1>1, <2>1
<1>6. /\ \A x \in ChatSessions : \A n \in 1..Len(messages[x]) : Passed(x, n) => Passed(x, n)'
      /\ \A x \in ChatSessions : \A i : Settled(x, i) => Settled(x, i)'
      /\ \A x \in ChatSessions : processedCounts'[x] = processedCounts[x] => CountOK(x)'
      /\ \A h \in EventSet : FetchedOK(h) => FetchedOK(h)'
      /\ \A x, n : Excused(x, n) => Excused(x, n)'
  BY <1>1, <1>3, <1>4, <1>5, Keeps
<1>7. /\ processedCounts'[s] = k /\ processedCounts' \in [ChatSessions -> Nat]
      /\ \A x \in ChatSessions : x # s => processedCounts'[x] = processedCounts[x]
  <2>1. processedCounts \in [ChatSessions -> Nat]
    BY DEF OpencodeInv, OpencodeTypeOK
  <2>2. QED
    BY <1>1, <1>2, <2>1
<1>8. OpencodeTypeOK'
  <2>1. event' \in [Events -> EventSet]
    BY <1>1, NoEventFacts, OthersHave
  <2>2. QED
    BY <1>1, <1>7, <2>1 DEF OpencodeInv, OpencodeTypeOK
<1>9. \A x \in ChatSessions : ChatOK(x)'
  BY <1>1, SessionFacts DEF ChatOK
<1>10. k <= Len(messages[s]) /\ Len(messages[s]) \in Nat /\ \A n \in 1..k : n \in 1..Len(messages[s])
  <2>1. k <= Len(messages[s])
    BY <1>b, <1>c, <1>2 DEF FetchedOK
  <2>2. QED
    BY <1>2, <2>1, SessionFacts
<1>11. k >= 1 /\ k \in 1..k
  <2>1. Len(g.fetched) # 0
    BY <1>1, <1>2
  <2>2. QED
    BY <1>c, <1>2, <2>1
<1>12. g.busy => <<s, k, "cut">> \in pardon'
  <2>1. ASSUME g.busy PROVE <<s, k, "cut">> \in Pardon(s, Cut(e), "cut")
    BY <1>2, <2>1, PardonFacts
  <2>2. QED
    BY <1>1, <2>1
<1>13. CountOK(s)'
  <2>1. Settled(s, k)' \/ <<s, k, "cut">> \in pardon'
    BY <1>b, <1>c, <1>2, <1>6, <1>12 DEF FetchedOK
  <2>2. ASSUME NEW n \in 1..k, messages[s][n].role = "assistant" PROVE Passed(s, n)'
    <3>1. g.fetched[n].role = "assistant"
      BY <1>b, <1>c, <1>2, <2>2 DEF FetchedOK
    <3>2. Passed(s, n) \/ (n = k /\ g.busy)
      BY <1>1, <1>b, <1>c, <1>2, <3>1 DEF FetchedOK, InTurns
    <3>3. CASE Passed(s, n)
      BY <1>2, <1>6, <1>10, <3>3
    <3>4. CASE n = k /\ g.busy
      <4>1. \A j \in (k + 1)..k : messages'[s][j].role = "assistant"
        BY <1>2
      <4>2. CutAt(s, n)'
        BY <1>11, <1>12, <3>4, <4>1 DEF CutAt
      <4>3. QED
        BY <4>2 DEF Passed
    <3>5. QED
      BY <3>2, <3>3, <3>4
  <2>3. QED
    BY <1>1, <1>7, <1>10, <2>1, <2>2 DEF CountOK
<1>14. \A x \in ChatSessions : CountOK(x)'
  BY <1>6, <1>7, <1>13
<1>15. \A x \in Events : EventOK(event[x])'
  <2>1. EventOK(event[e])'
    <3>1. event'[e] = NoEvent
      BY <1>1, NoEventFacts, OthersHave
    <3>2. QED
      BY <3>1, NoEventFacts DEF EventOK
  <2>2. ASSUME NEW x \in Events, x # e PROVE EventOK(event[x])'
    <3>a. PICK i : i = event[x]
      OBVIOUS
    <3>1. event'[x] = i /\ i \in EventSet /\ EventOK(i)
      BY <1>1, <2>2, <3>a, NoEventFacts, OthersHave, EventFacts DEF EventOK
    <3>2. EventOK(i)'
      BY <1>6, <3>1 DEF EventOK
    <3>3. QED
      BY <3>1, <3>2
  <2>3. QED
    BY <2>1, <2>2
<1>16. \A y \in Events : y # e => \A x, n : (Has(y, x, n)' <=> Has(y, x, n)) /\ (InTurns(event[y], n)' <=> InTurns(event[y], n))
  BY <1>1, NoEventFacts, OthersHave
<1>17. \A x, n : ~ Has(e, x, n)'
  BY <1>1, NoEventFacts, OthersHave
<1>18. \A x, n : Has(e, x, n) <=> (x = s /\ n <= k)
  BY <1>a, <1>b, <1>c, <1>1 DEF Has
<1>19. ASSUME NEW x \in ChatSessions PROVE EmittedOK(x)'
  <2>0. EmittedOK(x)
    BY SessionFacts
  <2>1. ASSUME NEW n \in 1..Len(messages[x]), ~ Excused(x, n)' PROVE InOneTurn(x, n)'
    <3>1. InOneTurn(x, n) /\ n \in Nat /\ n >= 1
      BY <1>6, <2>0, <2>1 DEF EmittedOK
    <3>2. \A y, z \in Events : Has(y, x, n)' /\ Has(z, x, n)' => y = z
      BY <1>16, <1>17, <3>1 DEF InOneTurn
    <3>3. \A y \in Events : Has(y, x, n)' /\ InTurns(event[y], n)' => emitted[x][n] = 0
      BY <1>16, <1>17, <3>1 DEF InOneTurn
    <3>4. ASSUME emitted[x][n] > 0 PROVE n <= processedCounts'[x] \/ \E y \in Events : Has(y, x, n)'
      <4>1. n <= processedCounts[x] \/ \E y \in Events : Has(y, x, n)
        BY <3>1, <3>4 DEF InOneTurn
      <4>2. CASE n <= processedCounts[x]
        <5>1. CASE x # s
          BY <1>7, <4>2, <5>1
        <5>2. CASE x = s /\ n <= k
          BY <1>7, <5>2
        <5>3. CASE x = s /\ ~ (n <= k)
          <6>1. n \in (k + 1)..old /\ k < old
            BY <1>d, <1>2, <3>1, <4>2, <5>3
          <6>2. <<s, n, "overlap">> \in Pardon(s, (k + 1)..old, "overlap")
            BY <6>1, PardonFacts
          <6>3. <<s, n, "overlap">> \in pardon'
            BY <1>1, <6>1, <6>2
          <6>4. QED
            BY <2>1, <5>3, <6>3 DEF Excused
        <5>4. QED
          BY <5>1, <5>2, <5>3
      <4>3. CASE \E y \in Events : Has(y, x, n)
        <5>1. PICK y \in Events : Has(y, x, n)
          BY <4>3
        <5>2. CASE y = e
          BY <1>7, <1>18, <5>1, <5>2
        <5>3. CASE y # e
          BY <1>16, <5>1, <5>3
        <5>4. QED
          BY <5>2, <5>3
      <4>4. QED
        BY <4>1, <4>2, <4>3
    <3>5. QED
      BY <1>1, <3>1, <3>2, <3>3, <3>4 DEF InOneTurn
  <2>2. QED
    BY <1>1, <2>0, <2>1 DEF EmittedOK
<1>20. QED
  BY <1>8, <1>9, <1>14, <1>15, <1>19 DEF OpencodeInv

LEMMA RestartStep ==
    ASSUME OpencodeInv, Restart
    PROVE  OpencodeInv'
<1>1. /\ \A s \in ChatSessions : processedCounts'[s] = 0
      /\ \A e \in Events : event'[e] = NoEvent
      /\ resting' = ChatSessions /\ emitted' = emitted
      /\ \A s \in ChatSessions : Pardon(s, DOMAIN messages[s], "restart") \subseteq pardon'
  BY DEF Restart
<1>2. ASSUME NEW s \in ChatSessions
      PROVE  /\ messages'[s] \in Seq(MessageSet) /\ Len(messages'[s]) = Len(messages[s])
             /\ \A i \in 1..Len(messages[s]) : messages'[s][i].role = messages[s][i].role /\ messages'[s][i].whole
  <2>a. PICK ms : ms = messages[s]
    OBVIOUS
  <2>b. PICK ws : ws = [i \in DOMAIN ms |-> [ms[i] EXCEPT !.whole = TRUE]]
    OBVIOUS
  <2>1. ms \in Seq(MessageSet) /\ Len(ms) \in Nat /\ DOMAIN ms = 1..Len(ms)
    BY <2>a, SessionFacts
  <2>2. messages'[s] = ws
    BY <2>a, <2>b DEF Restart
  <2>3. \A i \in 1..Len(ms) : ws[i] \in MessageSet /\ ws[i].role = ms[i].role /\ ws[i].whole
    <3> SUFFICES ASSUME NEW i \in 1..Len(ms) PROVE ws[i] \in MessageSet /\ ws[i].role = ms[i].role /\ ws[i].whole
      OBVIOUS
    <3>1. PICK m : m = ms[i]
      OBVIOUS
    <3>2. m \in MessageSet /\ ws[i] = [m EXCEPT !.whole = TRUE]
      BY <2>b, <2>1, <3>1
    <3>3. QED
      BY <3>1, <3>2 DEF MessageSet
  <2>4. ws \in Seq(MessageSet) /\ Len(ws) = Len(ms)
    <3>1. DOMAIN ws = 1..Len(ms) /\ ws = [i \in 1..Len(ms) |-> ws[i]]
      BY <2>b, <2>1
    <3>2. ws \in [1..Len(ms) -> MessageSet]
      BY <2>3, <3>1
    <3>3. QED
      BY <2>1, <3>2
  <2>5. QED
    BY <2>a, <2>2, <2>3, <2>4
<1>3. OpencodeTypeOK'
  <2>1. messages' \in [ChatSessions -> Seq(MessageSet)]
    <3>1. DOMAIN messages' = ChatSessions /\ messages' = [s \in ChatSessions |-> messages'[s]]
      BY DEF Restart
    <3>2. QED
      BY <1>2, <3>1
  <2>2. event' \in [Events -> EventSet] /\ processedCounts' \in [ChatSessions -> Nat]
    BY NoEventFacts DEF Restart
  <2>3. troubles' = troubles + 1 /\ troubles \in Nat
    BY DEF Restart, Trouble, OpencodeInv, OpencodeTypeOK
  <2>4. emitted' \in [ChatSessions -> [1..MaxMessages -> Nat]]
    BY <1>1 DEF OpencodeInv, OpencodeTypeOK
  <2>5. QED
    BY <1>1, <2>1, <2>2, <2>3, <2>4 DEF OpencodeTypeOK
<1>4. ASSUME NEW s \in ChatSessions PROVE ChatOK(s)' /\ CountOK(s)' /\ EmittedOK(s)'
  <2>a. PICK t : t = messages'[s]
    OBVIOUS
  <2>1. /\ t \in Seq(MessageSet) /\ Len(t) = Len(messages[s]) /\ Len(t) \in Nat
        /\ \A i \in 1..Len(t) : t[i].role = messages[s][i].role /\ t[i].whole
        /\ ChatOK(s) /\ EmittedOK(s) /\ messages[s] \in Seq(MessageSet)
    BY <1>2, <2>a, SessionFacts
  <2>2. t # <<>> => t[1].role = "user"
    <3>1. ASSUME t # <<>> PROVE t[1].role = "user"
      <4>1. 1 \in 1..Len(t) /\ messages[s] # <<>>
        BY <2>1, <3>1
      <4>2. QED
        BY <2>1, <4>1 DEF ChatOK
    <3>2. QED
      BY <3>1
  <2>3. ChatOK(s)'
    BY <2>a, <2>1, <2>2 DEF ChatOK, WholeBehind, AllWhole
  <2>4. CountOK(s)'
    <3>1. Settled(s, 0)'
      <4>1. CASE Len(t) = 0
        BY <2>a, <4>1 DEF Settled
      <4>2. CASE Len(t) # 0
        <5>1. 0 < Len(t) /\ t[0 + 1].role = "user"
          BY <2>1, <2>2, <4>2
        <5>2. QED
          BY <2>a, <5>1 DEF Settled
      <4>3. QED
        BY <4>1, <4>2
    <3>2. 0 <= Len(t) /\ 1..0 = {}
      BY <2>1
    <3>3. QED
      BY <1>1, <2>a, <3>1, <3>2 DEF CountOK
  <2>5. EmittedOK(s)'
    <3>1. ASSUME NEW n \in 1..Len(t) PROVE Excused(s, n)'
      <4>1. n \in DOMAIN messages[s]
        BY <2>1
      <4>2. <<s, n, "restart">> \in pardon'
        BY <1>1, <4>1, PardonFacts
      <4>3. QED
        BY <4>2 DEF Excused
    <3>2. \A n \in 1..MaxMessages : n > Len(t) => emitted'[s][n] = 0
      BY <1>1, <2>1 DEF EmittedOK
    <3>3. QED
      BY <2>a, <3>1, <3>2 DEF EmittedOK
  <2>6. QED
    BY <2>3, <2>4, <2>5
<1>5. \A e \in Events : EventOK(event[e])'
  BY <1>1, NoEventFacts DEF EventOK
<1>6. QED
  BY <1>3, <1>4, <1>5 DEF OpencodeInv

LEMMA OpencodeStutters ==
    ASSUME OpencodeInv, UNCHANGED opencodeVars
    PROVE  OpencodeInv'
<1>0. UNCHANGED <<messages, resting, processedCounts, event, troubles, emitted, pardon>>
  BY DEF opencodeVars
<1>1. OpencodeTypeOK'
  BY <1>0 DEF OpencodeInv, OpencodeTypeOK
<1>2. \A s, n : (Passed(s, n)' <=> Passed(s, n)) /\ (Settled(s, n)' <=> Settled(s, n))
  BY <1>0 DEF Passed, CutAt, Settled
<1>3. \A s, n : (Excused(s, n)' <=> Excused(s, n)) /\ (InOneTurn(s, n)' <=> InOneTurn(s, n))
  BY <1>0 DEF Excused, InOneTurn, Has, InTurns
<1>4. \A s : ChatOK(s)' <=> ChatOK(s)
  BY <1>0 DEF ChatOK
<1>5. \A s : CountOK(s)' <=> CountOK(s)
  BY <1>0, <1>2 DEF CountOK
<1>6. \A s : EmittedOK(s)' <=> EmittedOK(s)
  BY <1>0, <1>3 DEF EmittedOK
<1>7. \A h : FetchedOK(h)' <=> FetchedOK(h)
  BY <1>0, <1>2 DEF FetchedOK
<1>8. \A e : EventOK(event[e])' <=> EventOK(event[e])
  BY <1>0, <1>7 DEF EventOK
<1>9. QED
  BY <1>1, <1>4, <1>5, <1>6, <1>8 DEF OpencodeInv

LEMMA OpencodeStep == OpencodeInv /\ [OpencodeNext]_opencodeVars => OpencodeInv'
<1> SUFFICES ASSUME OpencodeInv, [OpencodeNext]_opencodeVars PROVE OpencodeInv'
  OBVIOUS
<1>1. ASSUME NEW s \in ChatSessions, Prompt(s) PROVE OpencodeInv'
  BY <1>1, PromptStep
<1>2. ASSUME NEW s \in ChatSessions, AnswerBegins(s) PROVE OpencodeInv'
  BY <1>2, AnswerBeginsStep
<1>3. ASSUME NEW s \in ChatSessions, AnswerEnds(s) PROVE OpencodeInv'
  BY <1>3, AnswerEndsStep
<1>4. ASSUME NEW e \in Events, NEW s \in ChatSessions, Idle(e, s) PROVE OpencodeInv'
  BY <1>4, IdleStep
<1>5. ASSUME NEW e \in Events, Fetch(e) PROVE OpencodeInv'
  BY <1>5, FetchStep
<1>6. ASSUME NEW e \in Events, EmitTurn(e) PROVE OpencodeInv'
  BY <1>6, EmitStep
<1>7. ASSUME NEW e \in Events, SetCount(e) PROVE OpencodeInv'
  BY <1>7, SetCountStep
<1>8. CASE Restart
  BY <1>8, RestartStep
<1>9. CASE UNCHANGED opencodeVars
  BY <1>9, OpencodeStutters
<1>10. QED
  BY <1>1, <1>2, <1>3, <1>4, <1>5, <1>6, <1>7, <1>8, <1>9 DEF OpencodeNext

\* The messages, the counts, the events that overlap and the traces stay in step
\* (OpencodeInv; hooks/opencode/langfuse-exporter.mjs).
THEOREM OpencodeInvariant == OpencodeSpec => []OpencodeInv
<1>1. OpencodeInit => OpencodeInv
  BY OpencodeBegins
<1>2. OpencodeInv /\ [OpencodeNext]_opencodeVars => OpencodeInv'
  BY OpencodeStep
<1>3. QED
  BY <1>1, <1>2, PTL DEF OpencodeSpec

\* An answer behind the count was delivered whole, and once, with the exceptions
\* AnswersReported names (langfuse-exporter.mjs:417, 475).
THEOREM AnswersAreReported == OpencodeSpec => []AnswersReported
<1>1. OpencodeInv => AnswersReported
  <2> SUFFICES ASSUME OpencodeInv, NEW s \in ChatSessions, NEW n \in DOMAIN messages[s]
               PROVE  LET why == {p[3] : p \in {x \in pardon : x[1] = s /\ x[2] = n}}
                          cut == \E m \in 1..n : /\ <<s, m, "cut">> \in pardon
                                                /\ \A j \in (m + 1)..n : messages[s][j].role = "assistant"
                      IN  /\ messages[s][n].role = "assistant" /\ n <= processedCounts[s] =>
                                emitted[s][n] > 0 \/ cut \/ "not taken" \in why
                          /\ emitted[s][n] > 1 => why \cap {"overlap", "restart", "answer lost"} # {}
    BY DEF AnswersReported
  <2> DEFINE why == {p[3] : p \in {x \in pardon : x[1] = s /\ x[2] = n}}
  <2> DEFINE cut == \E m \in 1..n : /\ <<s, m, "cut">> \in pardon
                                    /\ \A j \in (m + 1)..n : messages[s][j].role = "assistant"
  <2>1. \A what : <<s, n, what>> \in pardon => what \in why
    OBVIOUS
  <2>2. Passed(s, n) => emitted[s][n] > 0 \/ cut \/ "not taken" \in why
    BY <2>1 DEF Passed, CutAt
  <2>3. Excused(s, n) => "overlap" \in why \/ "restart" \in why \/ "answer lost" \in why
    BY <2>1 DEF Excused
  <2>4. /\ n \in 1..Len(messages[s]) /\ n \in Nat /\ n >= 1 /\ processedCounts[s] \in Nat
        /\ emitted[s][n] \in Nat /\ CountOK(s) /\ EmittedOK(s)
    <3>1. messages[s] \in Seq(MessageSet) /\ Len(messages[s]) \in Nat
      BY SessionFacts
    <3>2. n \in 1..Len(messages[s])
      BY <3>1
    <3>3. QED
      BY <3>2, SessionFacts
  <2> HIDE DEF why, cut
  <2>5. messages[s][n].role = "assistant" /\ n <= processedCounts[s] => Passed(s, n)
    BY <2>4 DEF CountOK
  <2>6. emitted[s][n] > 1 => Excused(s, n)
    BY <2>4 DEF EmittedOK, InOneTurn
  <2>7. QED
    BY <2>2, <2>3, <2>5, <2>6 DEF why, cut
<1>2. QED
  BY <1>1, OpencodeInvariant, PTL
=============================================================================
