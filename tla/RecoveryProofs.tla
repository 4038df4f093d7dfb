--------------------------- MODULE RecoveryProofs ----------------------------
(***************************************************************************)
(* Proofs about the recovery of failed logs: FailedLog, for any traces,    *)
(* hooks with and without the flock, days, errors and crashes; and         *)
(* SplitOtlp, which splits its long lines: _split_otlp loses no span and   *)
(* makes no chunk too long, for every body and every way of measuring it.  *)
(***************************************************************************)
EXTENDS FailedLog, SplitOtlp, SequenceTheorems, TLAPS

Files == DOMAIN content
Named(d) == name[d] # 0
WorkPoints == {"lock", "line", "rewrite", "unlink"}

Shape ==
    /\ day \in Days /\ diskErrors \in Nat /\ crashes \in Nat
    /\ content \in Seq(Seq(Traces)) /\ name \in [Days -> Nat]
    /\ hpc \in [Traces -> {"idle", "open", "done"}] /\ hfile \in [Traces -> Nat]
    /\ rpc \in {"idle", "next"} \cup WorkPoints
    /\ todo \subseteq Days /\ rday \in Days /\ rfile \in Nat
    /\ lines \in Seq(Traces) /\ kept \in Seq(Traces) /\ piece \in Nat \ {0}
    /\ saved = {t \in Traces : hpc[t] = "done"} /\ exposed \subseteq Traces

\* A name leads to a file of its own; recovery works on the file its day's name
\* leads to, and the names it still has to open are there.
NamesLead ==
    /\ \A d \in Days : Named(d) => name[d] \in Files
    /\ \A d, e \in Days : Named(d) /\ name[d] = name[e] => d = e
    /\ \A t \in Traces : hpc[t] = "open" => hfile[t] \in Files
    /\ rpc # "idle" => \A d \in todo : Named(d)
    /\ rpc \in WorkPoints => Named(rday) /\ rfile = name[rday] /\ rday \notin todo

\* Nothing is in a file, in recovery's hands or in the queue that was not saved.
OnlySaved ==
    /\ \A f \in Files : Range(content[f]) \subseteq saved
    /\ Range(lines) \subseteq saved /\ Range(kept) \subseteq saved
    /\ \A p \in queued : p[1] \in saved /\ p[2] \in Nat

\* Recovery has read the file of d: what counts is what it has in its hands.
BeingRecovered(d) == d = rday /\ rpc \in {"line", "rewrite", "unlink"}
InHand(t) == rpc = "line" /\ t \in Range(lines) \cup Range(kept)
FileKeeps(t, d) ==
    Named(d) /\ t \in Range(content[name[d]]) /\ (BeingRecovered(d) => InHand(t))

SavedIsSafe ==
    /\ \A t \in saved \ exposed :
         \/ Recovered(t)
         \/ \E d \in Days : FileKeeps(t, d)
         \/ rpc = "rewrite" /\ t \in Range(kept)
    /\ rpc = "line" /\ lines # <<>> =>
         /\ piece = 1 \/ piece <= Pieces[Head(lines)]
         /\ \A k \in 1..(piece - 1) : <<Head(lines), k>> \in queued

KeepInv == Shape /\ NamesLead /\ OnlySaved /\ SavedIsSafe

-----------------------------------------------------------------------------
NoFailure == crashes = 0 /\ diskErrors = 0 /\ saved \cap Raising = {}

Distinct(q) == \A j, k \in DOMAIN q : q[j] = q[k] => j = k

\* While nothing fails a trace is written once, a file is read once, and what was
\* queued is in no file that will be read again.
WrittenOnce ==
    \A f, g \in Files : \A j \in DOMAIN content[f], k \in DOMAIN content[g] :
        content[f][j] = content[g][k] => f = g /\ j = k
ReadOnce ==
    rpc = "line" => Distinct(lines) /\ Range(lines) \subseteq Range(content[rfile])
QueuedIsPassed ==
    \A p \in queued : \A d \in Days :
        Named(d) /\ p[1] \in Range(content[name[d]]) =>
            /\ rpc = "line" /\ d = rday
            /\ p[1] \in Range(lines) => p[1] = Head(lines) /\ p[2] < piece

OnceInv ==
    NoFailure =>
        again = {} /\ kept = <<>> /\ rpc # "rewrite" /\ WrittenOnce /\ ReadOnce /\ QueuedIsPassed

-----------------------------------------------------------------------------
(* Sequences of lines.                                                     *)

LEMMA RangeAppend ==
    ASSUME NEW S, NEW q \in Seq(S), NEW e \in S
    PROVE  /\ Append(q, e) \in Seq(S) /\ Range(Append(q, e)) = Range(q) \cup {e}
           /\ DOMAIN Append(q, e) = DOMAIN q \cup {Len(q) + 1} /\ Len(q) + 1 \notin DOMAIN q
           /\ \A k \in DOMAIN q : Append(q, e)[k] = q[k]
           /\ Append(q, e)[Len(q) + 1] = e
<1>1. /\ DOMAIN Append(q, e) = DOMAIN q \cup {Len(q) + 1} /\ Len(q) + 1 \notin DOMAIN q
      /\ \A k \in DOMAIN q : Append(q, e)[k] = q[k]
      /\ Append(q, e)[Len(q) + 1] = e /\ Append(q, e) \in Seq(S)
  OBVIOUS
<1>2. QED
  BY <1>1 DEF Range

LEMMA HeadFirst ==
    ASSUME NEW S, NEW q \in Seq(S), q # <<>>
    PROVE  /\ Head(q) \in S /\ Tail(q) \in Seq(S)
           /\ Range(q) = {Head(q)} \cup Range(Tail(q))
           /\ Distinct(q) => Distinct(Tail(q)) /\ Head(q) \notin Range(Tail(q))
<1>1. /\ Head(q) \in S /\ Head(q) = q[1] /\ Tail(q) \in Seq(S)
      /\ DOMAIN q = 1..Len(q) /\ Len(q) \in Nat \ {0} /\ DOMAIN Tail(q) = 1..(Len(q) - 1)
      /\ \A k \in 1..(Len(q) - 1) : Tail(q)[k] = q[k + 1]
  BY HeadTailProperties, LenProperties, EmptySeq
<1>2. Range(q) = {Head(q)} \cup Range(Tail(q))
  <2>1. ASSUME NEW k \in DOMAIN q PROVE q[k] \in {Head(q)} \cup Range(Tail(q))
    <3>1. CASE k = 1
      BY <1>1, <3>1
    <3>2. CASE k # 1
      <4>1. k - 1 \in DOMAIN Tail(q) /\ Tail(q)[k - 1] = q[k]
        BY <1>1, <3>2
      <4>2. QED BY <4>1 DEF Range
    <3>3. QED BY <3>1, <3>2
  <2>2. ASSUME NEW k \in DOMAIN Tail(q) PROVE Tail(q)[k] \in Range(q)
    BY <1>1 DEF Range
  <2>3. Head(q) \in Range(q)
    BY <1>1 DEF Range
  <2>4. QED BY <2>1, <2>2, <2>3 DEF Range
<1>3. ASSUME Distinct(q) PROVE Distinct(Tail(q)) /\ Head(q) \notin Range(Tail(q))
  <2>1. ASSUME NEW j \in DOMAIN Tail(q), NEW k \in DOMAIN Tail(q), Tail(q)[j] = Tail(q)[k]
        PROVE  j = k
    BY <1>1, <1>3, <2>1 DEF Distinct
  <2>2. ASSUME NEW k \in DOMAIN Tail(q) PROVE Tail(q)[k] # Head(q)
    BY <1>1, <1>3 DEF Distinct
  <2>3. QED BY <2>1, <2>2 DEF Distinct, Range
<1>4. QED BY <1>1, <1>2, <1>3

LEMMA RangeEmpty == Range(<<>>) = {}
  BY DEF Range

\* While recovery works on a file, the day's name leads to it and no other does.
LEMMA WorksOnNamedFile ==
    ASSUME Shape, NamesLead, rpc \in WorkPoints
    PROVE  /\ rday \in Days /\ Named(rday) /\ name[rday] = rfile /\ rfile \in Files
           /\ content[rfile] \in Seq(Traces)
           /\ \A d \in Days : Named(d) /\ d # rday => name[d] # rfile
  BY DEF Shape, NamesLead, Files

-----------------------------------------------------------------------------
(* Hooks.                                                                  *)

\* What a hook's open does: nothing to the lines; a file it creates is empty, the last
\* one, and named by a day that had no file.
LEMMA OpenEffect ==
    ASSUME Shape, NamesLead, NEW t \in Traces, HookOpen(t)
    PROVE  /\ hpc[t] = "idle" /\ hpc' = [hpc EXCEPT ![t] = "open"]
           /\ Shape' /\ NamesLead'
           /\ \A f \in Files : f \in Files' /\ content'[f] = content[f]
           /\ \A f \in Files' : f \in Files \/ content'[f] = <<>>
           /\ \A d \in Days : Named(d) => name'[d] = name[d]
           /\ \A d \in Days : name'[d] # 0 => name'[d] \in Files' /\ (Named(d) \/ content'[name'[d]] = <<>>)
<1> USE DEF Shape, Files, Named
<1>1. /\ hpc[t] = "idle" /\ hpc' = [hpc EXCEPT ![t] = "open"]
      /\ UNCHANGED <<day, diskErrors, crashes, rpc, todo, rday, rfile, lines, piece, kept, saved, exposed>>
  BY DEF HookOpen, recoveryVars, historyVars, worldVars
<1>2. CASE name[day] # 0
  <2>1. hfile' = [hfile EXCEPT ![t] = name[day]] /\ UNCHANGED <<name, content>>
    BY <1>2 DEF HookOpen, fileVars
  <2>2. Shape'
    BY <1>1, <2>1
  <2>3. NamesLead'
    BY <1>1, <1>2, <2>1 DEF NamesLead
  <2>4. QED BY <1>1, <2>1, <2>2, <2>3 DEF NamesLead
<1>3. CASE name[day] = 0
  <2> DEFINE f == Len(content) + 1
  <2>1. /\ hfile' = [hfile EXCEPT ![t] = f] /\ name' = [name EXCEPT ![day] = f]
        /\ content' = Append(content, <<>>)
    BY <1>3 DEF HookOpen
  <2>2. <<>> \in Seq(Traces)
    OBVIOUS
  <2>3. /\ content' \in Seq(Seq(Traces)) /\ DOMAIN content' = DOMAIN content \cup {f} /\ f \notin DOMAIN content
        /\ \A g \in DOMAIN content : content'[g] = content[g]
        /\ content'[f] = <<>> /\ f \in Nat \ {0}
    <3>1. content' \in Seq(Seq(Traces))
      BY <2>1, <2>2, RangeAppend
    <3>2. f \in Nat \ {0}
      BY LenProperties
    <3>3. QED BY <2>1, <2>2, <3>1, <3>2, RangeAppend
  <2> HIDE DEF f
  <2>4. Shape'
    BY <1>1, <2>1, <2>3
  <2>5. \A d \in Days : Named(d)' => Named(d) \/ d = day
    BY <2>1
  <2>6. NamesLead'
    BY <1>1, <1>3, <2>1, <2>3 DEF NamesLead, WorkPoints
  <2>7. QED BY <1>1, <1>3, <2>1, <2>3, <2>4, <2>6 DEF NamesLead
<1>4. QED BY <1>2, <1>3

LEMMA OpenKeeps ==
    ASSUME KeepInv, OnceInv, NEW t \in Traces, HookOpen(t)
    PROVE  KeepInv' /\ OnceInv'
<1> USE DEF KeepInv
<1>1. UNCHANGED <<diskErrors, crashes, rpc, todo, rday, rfile, lines, piece, kept, saved, queued, again, exposed>>
  BY DEF HookOpen, recoveryVars, historyVars, worldVars
<1>2. OnlySaved'
  BY <1>1, OpenEffect, RangeEmpty DEF OnlySaved
<1>3. \A u \in Traces, d \in Days : FileKeeps(u, d) => FileKeeps(u, d)'
  BY <1>1, OpenEffect DEF FileKeeps, BeingRecovered, InHand, Named, NamesLead
<1>4. SavedIsSafe'
  BY <1>1, <1>3 DEF SavedIsSafe, Recovered, Shape
<1>5. OnceInv'
  <2> SUFFICES ASSUME NoFailure PROVE WrittenOnce' /\ ReadOnce' /\ QueuedIsPassed'
    BY <1>1 DEF OnceInv, NoFailure
  <2>1. WrittenOnce'
    BY OpenEffect DEF OnceInv, WrittenOnce
  <2>2. ReadOnce'
    BY <1>1, OpenEffect, WorksOnNamedFile DEF OnceInv, ReadOnce, WorkPoints
  <2>3. QueuedIsPassed'
    BY <1>1, OpenEffect, RangeEmpty DEF OnceInv, QueuedIsPassed, Named, NamesLead
  <2>4. QED BY <2>1, <2>2, <2>3
<1>6. QED BY <1>2, <1>4, <1>5, OpenEffect

\* What a hook's append does: the trace, which no file holds yet if nothing failed, is
\* added to the file the hook has opened.
LEMMA AppendEffect ==
    ASSUME Shape, NamesLead, NEW t \in Traces, HookAppend(t)
    PROVE  /\ t \notin saved /\ saved' = saved \cup {t}
           /\ Shape' /\ NamesLead' /\ Files' = Files /\ hfile[t] \in Files
           /\ \A f \in Files : f # hfile[t] => content'[f] = content[f]
           /\ Range(content'[hfile[t]]) = Range(content[hfile[t]]) \cup {t}
           /\ \A k \in DOMAIN content'[hfile[t]] :
                \/ k \in DOMAIN content[hfile[t]] /\ content'[hfile[t]][k] = content[hfile[t]][k]
                \/ k = Len(content[hfile[t]]) + 1 /\ content'[hfile[t]][k] = t
<1> USE DEF Shape, Files
<1> DEFINE h == hfile[t]
<1>1. /\ hpc[t] = "open" /\ hpc' = [hpc EXCEPT ![t] = "done"]
      /\ content' = [content EXCEPT ![h] = Append(@, t)] /\ saved' = saved \cup {t}
      /\ exposed' \in {exposed, exposed \cup {t}}
      /\ UNCHANGED <<day, diskErrors, crashes, rpc, todo, rday, rfile, lines, piece, kept, name, hfile>>
  BY DEF HookAppend, recoveryVars, worldVars
<1>2. h \in DOMAIN content /\ content[h] \in Seq(Traces)
  BY <1>1 DEF NamesLead
<1> HIDE DEF h
<1>3. /\ DOMAIN content' = DOMAIN content /\ content'[h] = Append(content[h], t)
      /\ \A f \in DOMAIN content : f # h => content'[f] = content[f]
  BY <1>1, <1>2
<1>4. content' \in Seq(Seq(Traces))
  BY <1>1, <1>2, RangeAppend, ExceptSeq, LenProperties
<1>5. Shape' /\ t \notin saved
  BY <1>1, <1>4
<1>6. NamesLead'
  BY <1>1, <1>3 DEF NamesLead, Named
<1>7. /\ Range(content'[h]) = Range(content[h]) \cup {t}
      /\ \A k \in DOMAIN content'[h] :
           \/ k \in DOMAIN content[h] /\ content'[h][k] = content[h][k]
           \/ k = Len(content[h]) + 1 /\ content'[h][k] = t
  <2> DEFINE q == content[h]
  <2>1. q \in Seq(Traces) /\ content'[h] = Append(q, t)
    BY <1>2, <1>3
  <2> HIDE DEF q
  <2>2. /\ Range(Append(q, t)) = Range(q) \cup {t}
        /\ DOMAIN Append(q, t) = DOMAIN q \cup {Len(q) + 1} /\ Len(q) + 1 \notin DOMAIN q
        /\ \A k \in DOMAIN q : Append(q, t)[k] = q[k]
        /\ Append(q, t)[Len(q) + 1] = t
    BY <2>1, RangeAppend
  <2>3. QED
    BY <2>1, <2>2 DEF q
<1>8. QED
  BY <1>1, <1>2, <1>3, <1>5, <1>6, <1>7 DEF h

LEMMA AppendKeeps ==
    ASSUME KeepInv, OnceInv, NEW t \in Traces, HookAppend(t)
    PROVE  KeepInv' /\ OnceInv'
<1> USE DEF KeepInv
<1>1. /\ UNCHANGED <<diskErrors, crashes, rpc, todo, rday, rfile, lines, piece, kept, name, queued, again>>
      /\ exposed' = IF Doomed(hfile[t]) THEN exposed \cup {t} ELSE exposed
  BY DEF HookAppend, recoveryVars, worldVars
<1>g. \A f \in Files : Range(content[f]) \subseteq Range(content'[f])
  BY AppendEffect
<1>2. OnlySaved'
  BY <1>1, AppendEffect DEF OnlySaved
<1>3. \A u \in Traces, d \in Days : FileKeeps(u, d) => FileKeeps(u, d)'
  <2> SUFFICES ASSUME NEW u \in Traces, NEW d \in Days, FileKeeps(u, d) PROVE FileKeeps(u, d)'
    OBVIOUS
  <2>1. name[d] \in Files /\ u \in Range(content[name[d]]) /\ Named(d)'
    BY <1>1 DEF FileKeeps, Named, NamesLead
  <2>2. Range(content[name[d]]) \subseteq Range(content'[name[d]])
    BY <1>g, <2>1
  <2>3. BeingRecovered(d)' => InHand(u)'
    BY <1>1 DEF FileKeeps, BeingRecovered, InHand
  <2>4. QED
    BY <1>1, <2>1, <2>2, <2>3 DEF FileKeeps
<1>4. t \notin exposed' => \E d \in Days : FileKeeps(t, d)'
  <2> SUFFICES ASSUME ~ Doomed(hfile[t]) PROVE \E d \in Days : FileKeeps(t, d)'
    BY <1>1 DEF Shape
  <2>1. PICK d \in Days : name[d] = hfile[t]
    BY DEF Doomed
  <2>2. hfile[t] \in Files /\ Named(d) /\ t \in Range(content'[name[d]])
    <3>1. hfile[t] \in Files /\ Range(content'[hfile[t]]) = Range(content[hfile[t]]) \cup {t}
      BY AppendEffect
    <3>2. hfile[t] # 0
      BY <3>1, LenProperties DEF Shape, Files
    <3>3. QED BY <2>1, <3>1, <3>2 DEF Named
  <2>3. ~ BeingRecovered(d)
    BY <2>1, WorksOnNamedFile DEF Doomed, RecoveryHolds, BeingRecovered, WorkPoints
  <2>4. QED
    BY <1>1, <2>2, <2>3 DEF FileKeeps, BeingRecovered, Named
<1>5. SavedIsSafe'
  <2>1. exposed \subseteq exposed'
    BY <1>1
  <2>2. \A u \in Traces : Recovered(u)' <=> Recovered(u)
    BY <1>1 DEF Recovered
  <2>3. \A u \in saved' \ exposed' :
          Recovered(u)' \/ (\E d \in Days : FileKeeps(u, d)') \/ (rpc = "rewrite" /\ u \in Range(kept))
    <3> SUFFICES ASSUME NEW u \in saved', u \notin exposed'
                 PROVE  \/ Recovered(u)' \/ \E d \in Days : FileKeeps(u, d)'
                        \/ rpc = "rewrite" /\ u \in Range(kept)
      OBVIOUS
    <3>1. CASE u = t
      BY <1>4, <3>1
    <3>2. CASE u # t
      <4>1. u \in saved /\ u \notin exposed /\ u \in Traces
        BY <2>1, <3>2, AppendEffect DEF Shape
      <4>2. QED
        BY <1>3, <2>2, <4>1 DEF SavedIsSafe
    <3>3. QED BY <3>1, <3>2
  <2>4. QED
    BY <1>1, <2>3 DEF SavedIsSafe
<1>6. OnceInv'
  <2> SUFFICES ASSUME NoFailure PROVE WrittenOnce' /\ ReadOnce' /\ QueuedIsPassed'
    BY <1>1, AppendEffect DEF OnceInv, NoFailure
  <2>1. WrittenOnce'
    <3>1. \A f \in Files : \A k \in DOMAIN content[f] : content[f][k] # t
      BY AppendEffect DEF OnlySaved, Range
    <3>2. \A f \in Files : \A k \in DOMAIN content'[f] :
            \/ k \in DOMAIN content[f] /\ content'[f][k] = content[f][k]
            \/ f = hfile[t] /\ k = Len(content[f]) + 1 /\ content'[f][k] = t
      <4> SUFFICES ASSUME NEW f \in Files, NEW k \in DOMAIN content'[f]
                   PROVE  \/ k \in DOMAIN content[f] /\ content'[f][k] = content[f][k]
                          \/ f = hfile[t] /\ k = Len(content[f]) + 1 /\ content'[f][k] = t
        OBVIOUS
      <4>1. CASE f = hfile[t]
        BY <4>1, AppendEffect
      <4>2. CASE f # hfile[t]
        BY <4>2, AppendEffect
      <4>3. QED BY <4>1, <4>2
    <3>3. Files' = Files
      BY AppendEffect
    <3>4. QED
      BY <3>1, <3>2, <3>3 DEF OnceInv, WrittenOnce
  <2>2. ReadOnce'
    BY <1>1, <1>g, WorksOnNamedFile DEF OnceInv, ReadOnce, WorkPoints
  <2>3. QueuedIsPassed'
    <3>1. \A f \in Files : Range(content'[f]) \subseteq Range(content[f]) \cup {t}
      BY AppendEffect
    <3>2. t \notin saved /\ \A p \in queued : p[1] # t
      BY AppendEffect DEF OnlySaved
    <3>3. QED
      BY <1>1, <3>1, <3>2 DEF OnceInv, QueuedIsPassed, Named, NamesLead
  <2>4. QED BY <2>1, <2>2, <2>3
<1>7. QED BY <1>2, <1>5, <1>6, AppendEffect

-----------------------------------------------------------------------------
(* Recovery.                                                               *)

\* The steps that leave recovery outside a file, but the failing rewrite.  Only a death between the truncation
\* and the rewrite costs lines, and those are exposed then.
LEMMA RoundKeeps ==
    ASSUME KeepInv, OnceInv, StartRound \/ OpenFailed \/ EndRound \/ AbortRound \/ RoundError \/ Crash
    PROVE  KeepInv' /\ OnceInv'
<1> USE DEF KeepInv
<1>1. /\ UNCHANGED <<hpc, hfile, name, content, saved, day>>
      /\ rpc' \in {"idle", "next", "lock"} /\ queued \subseteq queued'
      /\ exposed' = exposed \/ exposed' = exposed \cup Range(kept)
      /\ rpc = "rewrite" => exposed' = exposed \cup Range(kept)
  BY DEF StartRound, OpenFailed, EndRound, AbortRound, RoundError, Queue, Crash, hookVars, fileVars, historyVars,
         worldVars
<1>2. Shape'
  <2>1. CASE StartRound \/ EndRound
    BY <1>1, <2>1 DEF Shape, StartRound, EndRound, historyVars, worldVars
  <2>4. CASE AbortRound \/ RoundError
    <3>1. /\ rpc' = "idle" /\ diskErrors' \in {diskErrors, diskErrors + 1}
          /\ UNCHANGED <<crashes, todo, rday, rfile, lines, piece, kept, exposed>>
      BY <2>4 DEF AbortRound, RoundError, DiskFails, historyVars
    <3>2. diskErrors' \in Nat
      BY <3>1 DEF Shape
    <3>3. QED BY <1>1, <3>1, <3>2 DEF Shape
  <2>2. CASE OpenFailed
    BY <1>1, <2>2 DEF Shape, OpenFailed, historyVars, worldVars, WorkPoints
  <2>3. CASE Crash
    <3>1. 1 \in Days /\ <<>> \in Seq(Traces)
      BY FailedLogAssumption DEF Days
    <3>2. exposed' \subseteq Traces
      BY <1>1 DEF Shape, OnlySaved
    <3>3. QED BY <1>1, <2>3, <3>1, <3>2 DEF Shape, Crash
  <2>5. QED BY <2>1, <2>2, <2>3, <2>4
<1>3. NamesLead'
  <2>1. rpc' # "idle" => \A d \in todo' : Named(d)
    BY <1>1 DEF StartRound, OpenFailed, EndRound, AbortRound, RoundError, Crash, NamesLead, Named
  <2>2. rpc' \in WorkPoints => Named(rday') /\ rfile' = name[rday'] /\ rday' \notin todo'
    BY <1>1 DEF StartRound, OpenFailed, EndRound, AbortRound, RoundError, Crash, NamesLead, WorkPoints
  <2>3. QED
    BY <1>1, <2>1, <2>2 DEF NamesLead, Named, Files
<1>4. OnlySaved'
  <2>1. Range(lines') \subseteq saved /\ Range(kept') \subseteq saved
    BY RangeEmpty DEF StartRound, OpenFailed, EndRound, AbortRound, RoundError, Crash, OnlySaved
  <2>2. \A p \in queued' : p[1] \in saved /\ p[2] \in Nat
    <3>1. CASE AbortRound
      <4>1. Head(lines) \in saved /\ piece \in Nat
        BY <3>1, HeadFirst DEF AbortRound, OnlySaved, Shape
      <4>2. QED
        BY <3>1, <4>1 DEF AbortRound, Queue, OnlySaved
    <3>2. CASE ~ AbortRound
      BY <3>2 DEF StartRound, OpenFailed, EndRound, RoundError, Crash, historyVars, OnlySaved
    <3>3. QED BY <3>1, <3>2
  <2>3. QED
    BY <1>1, <2>1, <2>2 DEF OnlySaved, Files
<1>5. SavedIsSafe'
  <2>1. \A t \in saved' \ exposed' : Recovered(t)' \/ \E d \in Days : FileKeeps(t, d)'
    <3> SUFFICES ASSUME NEW t \in saved, t \notin exposed'
                 PROVE  Recovered(t)' \/ \E d \in Days : FileKeeps(t, d)'
      BY <1>1
    <3>1. Recovered(t) => Recovered(t)'
      BY <1>1 DEF Recovered
    <3>2. \A d \in Days : FileKeeps(t, d) => FileKeeps(t, d)'
      BY <1>1 DEF FileKeeps, BeingRecovered, Named
    <3>3. QED
      BY <1>1, <3>1, <3>2 DEF SavedIsSafe
  <2>2. QED
    BY <1>1, <2>1 DEF SavedIsSafe
<1>6. OnceInv'
  <2> SUFFICES ASSUME NoFailure'
               PROVE  again' = {} /\ kept' = <<>> /\ WrittenOnce' /\ ReadOnce' /\ QueuedIsPassed'
    BY <1>1 DEF OnceInv
  <2>1. ~ Crash
    BY DEF Crash, NoFailure, Shape
  <2>2. ~ AbortRound /\ ~ RoundError
    <3>1. ~ DiskFails
      BY DEF DiskFails, NoFailure, Shape
    <3>2. ASSUME AbortRound PROVE Head(lines) \in saved \cap Raising
      BY <3>1, <3>2, HeadFirst DEF AbortRound, OnlySaved, Shape
    <3>3. QED BY <1>1, <3>1, <3>2 DEF NoFailure, RoundError
  <2>3. NoFailure /\ rpc # "line" /\ UNCHANGED <<again, kept, queued>>
    BY <1>1, <2>1, <2>2 DEF StartRound, OpenFailed, EndRound, NoFailure, historyVars, worldVars
  <2>4. QED
    BY <1>1, <2>3 DEF OnceInv, WrittenOnce, ReadOnce, QueuedIsPassed, Files, Named
<1>7. QED BY <1>2, <1>3, <1>4, <1>5, <1>6

LEMMA ReadKeeps ==
    ASSUME KeepInv, OnceInv, ReadFailed
    PROVE  KeepInv' /\ OnceInv'
<1> USE DEF KeepInv
<1>1. /\ rpc = "lock" /\ rpc' = "line" /\ lines' = content[rfile] /\ piece' = 1 /\ kept' = <<>>
      /\ UNCHANGED <<hpc, hfile, name, content, saved, queued, again, exposed, day, diskErrors, crashes,
                     todo, rday, rfile>>
  BY DEF ReadFailed, hookVars, fileVars, historyVars, worldVars
<1>2. /\ rday \in Days /\ Named(rday) /\ name[rday] = rfile /\ rfile \in Files
      /\ content[rfile] \in Seq(Traces)
  BY <1>1, WorksOnNamedFile DEF WorkPoints
<1>3. Shape' /\ NamesLead'
  BY <1>1, <1>2 DEF Shape, NamesLead, Named, Files, WorkPoints
<1>4. OnlySaved'
  BY <1>1, <1>2, RangeEmpty DEF OnlySaved, Files
<1>5. SavedIsSafe'
  <2>1. \A t \in Traces, d \in Days : FileKeeps(t, d) => FileKeeps(t, d)'
    BY <1>1, <1>2 DEF FileKeeps, BeingRecovered, InHand, Named
  <2>2. \A t \in Traces : Recovered(t) => Recovered(t)'
    BY <1>1 DEF Recovered
  <2>3. QED
    BY <1>1, <2>1, <2>2 DEF SavedIsSafe, Shape
<1>6. OnceInv'
  <2> SUFFICES ASSUME NoFailure PROVE WrittenOnce' /\ ReadOnce' /\ QueuedIsPassed'
    BY <1>1 DEF OnceInv, NoFailure
  <2>1. Distinct(lines')
    BY <1>1, <1>2 DEF OnceInv, WrittenOnce, Distinct
  <2>2. QED
    BY <1>1, <2>1 DEF OnceInv, WrittenOnce, ReadOnce, QueuedIsPassed, Files, Named
<1>7. QED BY <1>3, <1>4, <1>5, <1>6

\* A step on the line at the head: it stays, or it goes into kept, or is recovered, or
\* is given up.
LEMMA LineStepKeeps ==
    ASSUME KeepInv, rpc = "line", rpc' = "line",
           UNCHANGED <<hpc, hfile, name, content, saved, todo, rday, rfile>>,
           queued \subseteq queued', exposed \subseteq exposed', Shape', OnlySaved',
           Range(kept) \subseteq Range(kept'),
           \A t \in Range(lines) \ Range(lines') : Recovered(t)' \/ t \in Range(kept') \cup exposed',
           lines' # <<>> => piece' = 1 \/ piece' <= Pieces[Head(lines')],
           lines' # <<>> => \A k \in 1..(piece' - 1) : <<Head(lines'), k>> \in queued'
    PROVE  KeepInv'
<1> USE DEF KeepInv
<1>1. NamesLead'
  BY DEF NamesLead, Named, Files
<1>2. \A t \in Traces : Recovered(t) => Recovered(t)'
  BY DEF Recovered
<1>4. \A t \in saved' \ exposed' : Recovered(t)' \/ \E d \in Days : FileKeeps(t, d)'
  <2> SUFFICES ASSUME NEW t \in saved, t \notin exposed', ~ Recovered(t)', NEW d \in Days, FileKeeps(t, d)
               PROVE  FileKeeps(t, d)'
    BY <1>2 DEF SavedIsSafe, Shape
  <2>1. BeingRecovered(d) => t \in Range(lines') \cup Range(kept')
    BY DEF FileKeeps, InHand
  <2>2. QED
    BY <2>1 DEF FileKeeps, BeingRecovered, InHand, Named
<1>5. QED
  BY <1>1, <1>4 DEF SavedIsSafe

LEMMA DropKeeps ==
    ASSUME KeepInv, OnceInv, DropLine
    PROVE  KeepInv' /\ OnceInv'
<1> USE DEF KeepInv
<1>1. /\ rpc = "line" /\ rpc' = "line" /\ lines # <<>> /\ lines' = Tail(lines)
      /\ Pieces[Head(lines)] = 0
      /\ UNCHANGED <<hpc, hfile, name, content, saved, queued, again, exposed, day, diskErrors, crashes,
                     todo, rday, rfile, piece, kept>>
  BY DEF DropLine, hookVars, fileVars, historyVars, worldVars
<1>2. /\ Head(lines) \in Traces /\ Tail(lines) \in Seq(Traces)
      /\ Range(lines) = {Head(lines)} \cup Range(Tail(lines))
      /\ Distinct(lines) => Distinct(Tail(lines)) /\ Head(lines) \notin Range(Tail(lines))
  BY <1>1, HeadFirst DEF Shape
<1>3. \A t \in Range(lines) \ Range(lines') : Recovered(t)'
  BY <1>1, <1>2 DEF Recovered
<1>4. Shape' /\ OnlySaved'
  BY <1>1, <1>2 DEF Shape, OnlySaved, Files
<1>5. piece = 1
  BY <1>1 DEF SavedIsSafe, Shape
<1>6. KeepInv'
  BY <1>1, <1>3, <1>4, <1>5, LineStepKeeps
<1>7. OnceInv'
  BY <1>1, <1>2 DEF OnceInv, NoFailure, WrittenOnce, ReadOnce, QueuedIsPassed, Files, Named
<1>8. QED BY <1>6, <1>7

LEMMA QueueKeeps ==
    ASSUME KeepInv, OnceInv, QueuePiece
    PROVE  KeepInv' /\ OnceInv'
<1> USE DEF KeepInv
<1> DEFINE h == Head(lines)
<1>1. /\ rpc = "line" /\ rpc' = "line" /\ lines # <<>> /\ h \notin Raising
      /\ piece <= Pieces[h] /\ Queue(<<h, piece>>)
      /\ \/ piece = Pieces[h] /\ lines' = Tail(lines) /\ piece' = 1
         \/ piece # Pieces[h] /\ lines' = lines /\ piece' = piece + 1
      /\ UNCHANGED <<hpc, hfile, name, content, saved, exposed, day, diskErrors, crashes,
                     todo, rday, rfile, kept>>
  BY DEF QueuePiece, hookVars, fileVars, worldVars
<1>2. /\ h \in Traces /\ Tail(lines) \in Seq(Traces)
      /\ Range(lines) = {h} \cup Range(Tail(lines))
      /\ Distinct(lines) => Distinct(Tail(lines)) /\ h \notin Range(Tail(lines))
  BY <1>1, HeadFirst DEF Shape
<1>3. /\ piece \in Nat \ {0} /\ Pieces[h] \in Nat
      /\ \A k \in 1..(piece - 1) : <<h, k>> \in queued
  BY <1>1, <1>2, FailedLogAssumption DEF Shape, SavedIsSafe
<1> HIDE DEF h
<1>s. \/ lines' = Tail(lines) /\ piece' = 1 /\ piece = Pieces[h]
      \/ lines' = lines /\ piece' = piece + 1
  BY <1>1
<1>4. queued' = queued \cup {<<h, piece>>}
  BY <1>1 DEF Queue
<1>5. \A k \in 1..piece : <<h, k>> \in queued'
  BY <1>3, <1>4
<1>6. \A t \in Range(lines) \ Range(lines') : Recovered(t)'
  BY <1>1, <1>2, <1>5 DEF Recovered
<1>7. Shape'
  <2>1. lines \in Seq(Traces)
    BY DEF Shape
  <2>2. lines' \in Seq(Traces) /\ piece' \in Nat \ {0}
    BY <1>s, <1>2, <1>3, <2>1
  <2>3. QED
    BY <1>1, <2>2 DEF Shape
<1>8. OnlySaved'
  <2>1. h \in saved
    BY <1>2 DEF OnlySaved
  <2>2. Range(lines') \subseteq saved
    BY <1>1, <1>2 DEF OnlySaved
  <2>3. QED
    BY <1>1, <1>3, <1>4, <2>1, <2>2 DEF OnlySaved, Files
<1>9. lines' # <<>> => /\ piece' = 1 \/ piece' <= Pieces[Head(lines')]
                       /\ \A k \in 1..(piece' - 1) : <<Head(lines'), k>> \in queued'
  BY <1>1, <1>3, <1>5 DEF h
<1>10. KeepInv'
  BY <1>1, <1>4, <1>6, <1>7, <1>8, <1>9, LineStepKeeps
<1>11. OnceInv'
  <2> SUFFICES ASSUME NoFailure PROVE again' = {} /\ WrittenOnce' /\ ReadOnce' /\ QueuedIsPassed'
    BY <1>1 DEF OnceInv, NoFailure
  <2>1. /\ again = {} /\ WrittenOnce /\ Distinct(lines) /\ Range(lines) \subseteq Range(content[rfile])
        /\ QueuedIsPassed
    BY <1>1 DEF OnceInv, ReadOnce
  <2>2. rday \in Days /\ Named(rday) /\ h \in Range(content[name[rday]])
    BY <1>1, <1>2, <2>1, WorksOnNamedFile DEF WorkPoints
  <2>3. <<h, piece>> \notin queued
    <3>1. SUFFICES ASSUME <<h, piece>> \in queued PROVE FALSE
      OBVIOUS
    <3>2. <<h, piece>>[1] = h /\ <<h, piece>>[2] = piece
      OBVIOUS
    <3>3. piece < piece
      BY <1>2, <2>1, <2>2, <3>1, <3>2 DEF QueuedIsPassed
    <3>4. QED BY <1>3, <3>3
  <2>4. again' = {}
    BY <1>1, <2>1, <2>3 DEF Queue
  <2>5. WrittenOnce' /\ ReadOnce'
    <3>1. WrittenOnce'
      BY <1>1, <2>1 DEF WrittenOnce, Files
    <3>2. Distinct(lines') /\ Range(lines') \subseteq Range(lines)
      BY <1>1, <1>2, <2>1
    <3>3. QED
      BY <1>1, <2>1, <3>1, <3>2 DEF ReadOnce
  <2>6. QueuedIsPassed'
    <3> SUFFICES ASSUME NEW p \in queued', NEW d \in Days, Named(d), p[1] \in Range(content[name[d]])
                 PROVE  d = rday /\ (p[1] \in Range(lines') => p[1] = Head(lines') /\ p[2] < piece')
      BY <1>1 DEF QueuedIsPassed, Named
    <3>1. CASE p \in queued
      <4>1. d = rday /\ (p[1] \in Range(lines) => p[1] = h /\ p[2] < piece)
        BY <2>1, <3>1 DEF QueuedIsPassed, h
      <4>2. CASE lines' = Tail(lines)
        BY <1>2, <2>1, <4>1, <4>2
      <4>3. CASE lines' = lines /\ piece' = piece + 1
        BY <1>3, <3>1, <4>1, <4>3 DEF h, OnlySaved
      <4>4. QED BY <1>1, <4>2, <4>3
    <3>2. CASE p = <<h, piece>>
      <4>1. p[1] = h /\ p[2] = piece
        BY <3>2
      <4>2. d = rday
        <5>1. name[d] \in Files /\ name[rday] \in Files
          BY <2>2 DEF NamesLead
        <5>2. name[d] = name[rday]
          BY <2>1, <2>2, <4>1, <5>1 DEF WrittenOnce, Range
        <5>3. QED
          BY <2>2, <5>2 DEF NamesLead
      <4>3. CASE lines' = Tail(lines)
        BY <1>2, <2>1, <4>1, <4>2, <4>3
      <4>4. CASE lines' = lines /\ piece' = piece + 1
        BY <1>3, <4>1, <4>2, <4>4 DEF h
      <4>5. QED BY <1>s, <4>3, <4>4
    <3>3. QED BY <1>4, <3>1, <3>2
  <2>7. QED BY <2>4, <2>5, <2>6
<1>12. QED BY <1>10, <1>11

LEMMA ErrorKeeps ==
    ASSUME KeepInv, OnceInv, DiskError
    PROVE  KeepInv' /\ OnceInv'
<1> USE DEF KeepInv
<1> DEFINE h == Head(lines)
<1>1. /\ rpc = "line" /\ rpc' = "line" /\ lines # <<>> /\ lines' = Tail(lines) /\ piece' = 1
      /\ diskErrors' = diskErrors + 1
      /\ UNCHANGED <<hpc, hfile, name, content, saved, day, crashes, todo, rday, rfile>>
  BY DEF DiskError, hookVars, fileVars, worldVars
<1>2. /\ queued' = queued \/ queued' = queued \cup {<<h, piece>>}
      /\ \/ kept' = Append(kept, h) /\ exposed' = exposed
         \/ kept' = kept /\ exposed' = exposed \cup {h}
  BY DEF DiskError, Queue
<1>3. h \in Traces /\ Tail(lines) \in Seq(Traces) /\ Range(lines) = {h} \cup Range(Tail(lines))
  BY <1>1, HeadFirst DEF Shape
<1> HIDE DEF h
<1>4. /\ kept' \in Seq(Traces) /\ Range(kept) \subseteq Range(kept')
      /\ Range(kept') \subseteq Range(kept) \cup {h}
      /\ h \in Range(kept') \cup exposed'
  <2>1. kept \in Seq(Traces)
    BY DEF Shape
  <2>2. Append(kept, h) \in Seq(Traces) /\ Range(Append(kept, h)) = Range(kept) \cup {h}
    BY <1>3, <2>1, RangeAppend
  <2>3. QED BY <1>2, <2>1, <2>2
<1>5. Shape'
  <2>1. exposed' \subseteq Traces
    BY <1>2, <1>3 DEF Shape
  <2>2. QED
    BY <1>1, <1>3, <1>4, <2>1 DEF Shape
<1>6. OnlySaved'
  <2>1. h \in saved /\ Range(Tail(lines)) \subseteq saved /\ piece \in Nat
    BY <1>3 DEF OnlySaved, Shape
  <2>2. QED
    BY <1>1, <1>2, <1>4, <2>1 DEF OnlySaved, Files
<1>7. KeepInv'
  <2>1. queued \subseteq queued' /\ exposed \subseteq exposed'
    BY <1>2
  <2>2. \A t \in Range(lines) \ Range(lines') : Recovered(t)' \/ t \in Range(kept') \cup exposed'
    BY <1>1, <1>3, <1>4
  <2>3. QED
    BY <1>1, <1>4, <1>5, <1>6, <2>1, <2>2, LineStepKeeps
<1>8. OnceInv'
  <2>1. diskErrors' # 0
    BY <1>1 DEF Shape
  <2>2. QED
    BY <2>1 DEF OnceInv, NoFailure
<1>9. QED BY <1>7, <1>8

\* Lines p written over what q begins with.
LEMMA WrittenOver ==
    ASSUME NEW p \in Seq(Traces), NEW q \in Seq(Traces), NEW k \in Nat \ {0}
    PROVE  /\ p \o SubSeq(q, k, Len(q)) \in Seq(Traces)
           /\ Range(p) \subseteq Range(p \o SubSeq(q, k, Len(q)))
           /\ Range(p \o SubSeq(q, k, Len(q))) \subseteq Range(p) \cup Range(q)
<1> DEFINE r == SubSeq(q, k, Len(q))
<1>1. Len(q) \in Nat /\ DOMAIN q = 1..Len(q) /\ \A i \in k..Len(q) : q[i] \in Traces
  BY LenProperties
<1>2. /\ r \in Seq(Traces) /\ Len(r) = IF k <= Len(q) THEN Len(q) - k + 1 ELSE 0
      /\ \A i \in 1..(Len(q) - k + 1) : r[i] = q[k + i - 1]
  BY <1>1, SubSeqProperties
<1>3. DOMAIN r = 1..Len(r)
  BY <1>2, LenProperties
<1> HIDE DEF r
<1>4. Range(r) \subseteq Range(q)
  <2> SUFFICES ASSUME NEW i \in DOMAIN r PROVE r[i] \in Range(q)
    BY DEF Range
  <2>1. r[i] = q[k + i - 1] /\ k + i - 1 \in DOMAIN q
    BY <1>1, <1>2, <1>3
  <2>2. QED BY <2>1 DEF Range
<1>5. p \o r \in Seq(Traces) /\ Range(p \o r) = Range(p) \cup Range(r)
  BY <1>2, ConcatProperties, RangeConcatenation
<1>6. QED BY <1>4, <1>5 DEF r

\* Recovery empties or rewrites its file: the other files stay, and what it wrote back
\* it had kept.
LEMMA WriteBackKeeps ==
    ASSUME KeepInv, OnceInv, TruncateFailed \/ RewriteFailed
    PROVE  KeepInv' /\ OnceInv'
<1> USE DEF KeepInv
<1>1. /\ UNCHANGED <<hpc, hfile, name, saved, queued, again, exposed, day, diskErrors, crashes,
                     todo, rday, rfile, lines, piece, kept>>
      /\ rpc \in {"line", "rewrite"}
  BY DEF TruncateFailed, RewriteFailed, hookVars, historyVars, worldVars
<1>2. /\ rday \in Days /\ Named(rday) /\ name[rday] = rfile /\ rfile \in Files
      /\ content[rfile] \in Seq(Traces) /\ kept \in Seq(Traces)
      /\ \A d \in Days : Named(d) /\ d # rday => name[d] # rfile
  BY <1>1, WorksOnNamedFile DEF WorkPoints, Shape
<1>3. \A k \in 2..(Len(content[rfile]) + 2) :
        /\ kept \o SubSeq(content[rfile], k, Len(content[rfile])) \in Seq(Traces)
        /\ Range(kept) \subseteq Range(kept \o SubSeq(content[rfile], k, Len(content[rfile])))
        /\ Range(kept \o SubSeq(content[rfile], k, Len(content[rfile])))
             \subseteq Range(kept) \cup Range(content[rfile])
  <2>1. \A k \in 2..(Len(content[rfile]) + 2) : k \in Nat \ {0}
    BY <1>2, LenProperties
  <2>2. QED BY <1>2, <2>1, WrittenOver
<1>4. /\ Files' = Files /\ \A f \in Files : f # rfile => content'[f] = content[f]
      /\ content'[rfile] \in Seq(Traces)
      /\ TruncateFailed => content'[rfile] = <<>>
      /\ Range(content'[rfile]) \subseteq Range(kept) \cup Range(content[rfile])
      /\ RewriteFailed => Range(kept) \subseteq Range(content'[rfile])
  <2>1. CASE TruncateFailed
    <3>1. content' = [content EXCEPT ![rfile] = <<>>] /\ rpc = "line"
      BY <2>1 DEF TruncateFailed
    <3>2. ~ RewriteFailed
      BY <3>1 DEF RewriteFailed
    <3>3. QED BY <1>2, <3>1, <3>2, RangeEmpty DEF Files, Shape
  <2>2. CASE RewriteFailed
    <3>1. PICK k \in 2..(Len(content[rfile]) + 2) :
            content' = [content EXCEPT ![rfile] = kept \o SubSeq(@, k, Len(@))]
      BY <2>2 DEF RewriteFailed
    <3>2. content'[rfile] = kept \o SubSeq(content[rfile], k, Len(content[rfile]))
      BY <1>2, <3>1 DEF Files
    <3>3. ~ TruncateFailed
      BY <2>2 DEF RewriteFailed, TruncateFailed
    <3>4. QED BY <1>2, <1>3, <3>1, <3>2, <3>3 DEF Files, Shape
  <2>3. QED BY <2>1, <2>2
<1>5. content' \in Seq(Seq(Traces))
  <2>1. content' = [content EXCEPT ![rfile] = content'[rfile]]
    BY <1>2 DEF TruncateFailed, RewriteFailed, Files
  <2>2. PICK q \in Seq(Traces) : content' = [content EXCEPT ![rfile] = q]
    BY <1>4, <2>1
  <2>3. content \in Seq(Seq(Traces)) /\ rfile \in 1..Len(content)
    BY <1>2, LenProperties DEF Shape, Files
  <2>4. QED
    BY <2>2, <2>3, ExceptSeq
<1>6. Shape'
  <2>1. rpc' \in {"unlink", "rewrite", "next"}
    BY DEF TruncateFailed, RewriteFailed
  <2>2. QED
    BY <1>1, <1>5, <2>1 DEF Shape, WorkPoints
<1>7. NamesLead'
  BY <1>1, <1>2, <1>4 DEF NamesLead, Named, WorkPoints
<1>8. OnlySaved'
  <2>1. \A f \in Files : Range(content'[f]) \subseteq saved
    BY <1>2, <1>4 DEF OnlySaved
  <2>2. QED
    BY <1>1, <1>4, <2>1 DEF OnlySaved
<1>9. SavedIsSafe'
  <2>1. rpc' # "line"
    BY DEF TruncateFailed, RewriteFailed
  <2>2. \A t \in Traces, d \in Days : FileKeeps(t, d) /\ d # rday => FileKeeps(t, d)'
    <3> SUFFICES ASSUME NEW t \in Traces, NEW d \in Days, FileKeeps(t, d), d # rday PROVE FileKeeps(t, d)'
      OBVIOUS
    <3>1. name[d] \in Files /\ name[d] # rfile
      BY <1>2 DEF FileKeeps, NamesLead
    <3>2. QED
      BY <1>1, <1>4, <3>1 DEF FileKeeps, BeingRecovered, Named
  <2>3. \A t \in Traces, d \in Days : d = rday /\ t \in Range(kept) =>
          FileKeeps(t, d)' \/ (rpc' = "rewrite" /\ t \in Range(kept'))
    <3>1. CASE TruncateFailed
      BY <1>1, <3>1, RangeEmpty DEF TruncateFailed
    <3>2. CASE RewriteFailed
      <4>1. rpc' = "next" /\ Range(kept) \subseteq Range(content'[rfile])
        BY <1>4, <3>2 DEF RewriteFailed
      <4>2. QED
        BY <1>1, <1>2, <4>1 DEF FileKeeps, BeingRecovered, Named
    <3>3. QED BY <3>1, <3>2
  <2>4. \A t \in Traces : FileKeeps(t, rday) => t \in Range(kept)
    BY <1>1, RangeEmpty DEF FileKeeps, BeingRecovered, InHand, TruncateFailed, RewriteFailed
  <2>5. \A t \in Traces : Recovered(t) => Recovered(t)'
    BY <1>1 DEF Recovered
  <2>6. QED
    <3> SUFFICES ASSUME NEW t \in saved, t \notin exposed
                 PROVE  \/ Recovered(t)' \/ \E d \in Days : FileKeeps(t, d)'
                        \/ rpc' = "rewrite" /\ t \in Range(kept')
      BY <1>1, <2>1 DEF SavedIsSafe
    <3>1. t \in Traces
      BY DEF Shape
    <3>2. CASE Recovered(t)
      BY <2>5, <3>1, <3>2
    <3>3. CASE \E d \in Days : FileKeeps(t, d)
      BY <1>2, <2>2, <2>3, <2>4, <3>1, <3>3
    <3>4. CASE t \in Range(kept)
      BY <1>2, <2>3, <3>1, <3>4
    <3>5. QED BY <3>2, <3>3, <3>4 DEF SavedIsSafe
<1>10. OnceInv'
  <2> SUFFICES ASSUME NoFailure
               PROVE  rpc' # "rewrite" /\ WrittenOnce' /\ ReadOnce' /\ QueuedIsPassed'
    BY <1>1 DEF OnceInv, NoFailure
  <2>1. kept = <<>> /\ TruncateFailed
    BY <1>1 DEF OnceInv, RewriteFailed
  <2>2. rpc' = "unlink" /\ content'[rfile] = <<>> /\ rpc = "line" /\ lines = <<>>
    BY <1>4, <2>1 DEF TruncateFailed
  <2>3. WrittenOnce'
    BY <1>4, <2>2 DEF OnceInv, WrittenOnce
  <2>4. QueuedIsPassed'
    <3> SUFFICES ASSUME NEW p \in queued, NEW d \in Days, Named(d), p[1] \in Range(content'[name[d]])
                 PROVE  FALSE
      BY <1>1 DEF QueuedIsPassed, Named
    <3>1. CASE d = rday
      BY <1>2, <2>2, <3>1, RangeEmpty
    <3>2. CASE d # rday
      <4>1. content'[name[d]] = content[name[d]]
        BY <1>2, <1>4, <3>2 DEF NamesLead
      <4>2. QED
        BY <3>2, <4>1 DEF OnceInv, QueuedIsPassed
    <3>3. QED BY <3>1, <3>2
  <2>5. QED
    BY <2>2, <2>3, <2>4 DEF ReadOnce
<1>11. QED BY <1>6, <1>7, <1>8, <1>9, <1>10

\* The rewrite fails: what of the kept lines is not in the file is exposed.
LEMMA RewriteErrorKeeps ==
    ASSUME KeepInv, OnceInv, RewriteError
    PROVE  KeepInv' /\ OnceInv'
<1> USE DEF KeepInv
<1>1. /\ UNCHANGED <<hpc, hfile, name, saved, queued, again, day, crashes, todo, rday, rfile, lines,
                     piece, kept>>
      /\ rpc = "rewrite" /\ rpc' = "idle" /\ diskErrors' = diskErrors + 1
      /\ exposed' = exposed \cup (Range(kept) \ Range(content'[rfile]))
  BY DEF RewriteError, DiskFails, hookVars
<1>2. /\ rday \in Days /\ Named(rday) /\ name[rday] = rfile /\ rfile \in Files
      /\ content[rfile] \in Seq(Traces) /\ kept \in Seq(Traces)
      /\ \A d \in Days : Named(d) /\ d # rday => name[d] # rfile
  BY <1>1, WorksOnNamedFile DEF WorkPoints, Shape
<1>3. PICK q \in Seq(Traces) :
        content' = [content EXCEPT ![rfile] = q] /\ Range(q) \subseteq saved
  <2>1. PICK n \in 0..Len(kept), k \in 1..(Len(content[rfile]) + 2) :
          content' = [content EXCEPT ![rfile] = SubSeq(kept, 1, n) \o SubSeq(@, k, Len(@))]
    BY DEF RewriteError
  <2>2. k \in Nat \ {0} /\ n \in Nat /\ n <= Len(kept) /\ Len(kept) \in Nat
    BY <1>2, LenProperties
  <2>3. SubSeq(kept, 1, n) \in Seq(Traces) /\ Range(SubSeq(kept, 1, n)) \subseteq Range(kept)
    <3>1. DOMAIN kept = 1..Len(kept) /\ \A i \in 1..n : kept[i] \in Traces
      BY <1>2, <2>2, LenProperties
    <3>2. /\ SubSeq(kept, 1, n) \in Seq(Traces) /\ Len(SubSeq(kept, 1, n)) = n
          /\ \A i \in 1..n : SubSeq(kept, 1, n)[i] = kept[i]
      BY <2>2, <3>1, SubSeqProperties
    <3>3. DOMAIN SubSeq(kept, 1, n) = 1..n
      BY <3>2, LenProperties
    <3>4. 1..n \subseteq DOMAIN kept
      BY <2>2, <3>1
    <3>5. QED BY <3>2, <3>3, <3>4 DEF Range
  <2> DEFINE p == SubSeq(kept, 1, n)
  <2> DEFINE w == p \o SubSeq(content[rfile], k, Len(content[rfile]))
  <2>4. p \in Seq(Traces) /\ Range(p) \subseteq Range(kept)
    BY <2>3
  <2>5. content' = [content EXCEPT ![rfile] = w]
    BY <1>2, <2>1 DEF Files
  <2> HIDE DEF p
  <2>6. w \in Seq(Traces) /\ Range(w) \subseteq Range(p) \cup Range(content[rfile])
    BY <1>2, <2>2, <2>4, WrittenOver
  <2> HIDE DEF w
  <2>7. Range(kept) \subseteq saved /\ Range(content[rfile]) \subseteq saved
    BY <1>2 DEF OnlySaved
  <2>8. QED BY <2>4, <2>5, <2>6, <2>7
<1>4. /\ Files' = Files /\ \A f \in Files : f # rfile => content'[f] = content[f]
      /\ content'[rfile] = q
  BY <1>2, <1>3 DEF Files, Shape
<1>5. content' \in Seq(Seq(Traces))
  <2>1. content \in Seq(Seq(Traces)) /\ rfile \in 1..Len(content)
    BY <1>2, LenProperties DEF Shape, Files
  <2>2. QED BY <1>3, <2>1, ExceptSeq
<1>6. Shape'
  <2>1. exposed' \subseteq Traces /\ diskErrors' \in Nat
    BY <1>1 DEF Shape, OnlySaved
  <2>2. QED BY <1>1, <1>5, <2>1 DEF Shape
<1>7. NamesLead'
  BY <1>1, <1>4 DEF NamesLead, Named, WorkPoints
<1>8. OnlySaved'
  <2>1. \A f \in Files : Range(content'[f]) \subseteq saved
    BY <1>3, <1>4 DEF OnlySaved
  <2>2. QED BY <1>1, <1>4, <2>1 DEF OnlySaved
<1>9. SavedIsSafe'
  <2> SUFFICES ASSUME NEW t \in saved, t \notin exposed'
               PROVE  Recovered(t)' \/ \E d \in Days : FileKeeps(t, d)'
    BY <1>1 DEF SavedIsSafe
  <2>1. t \in Traces /\ t \notin exposed
    BY <1>1 DEF Shape
  <2>2. CASE Recovered(t)
    BY <1>1, <2>2 DEF Recovered
  <2>3. CASE \E d \in Days : FileKeeps(t, d)
    <3>1. PICK d \in Days : FileKeeps(t, d)
      BY <2>3
    <3>2. d # rday
      BY <1>1, <3>1 DEF FileKeeps, BeingRecovered, InHand
    <3>3. name[d] \in Files /\ name[d] # rfile
      BY <1>2, <3>1, <3>2 DEF FileKeeps, NamesLead
    <3>4. FileKeeps(t, d)'
      BY <1>1, <1>4, <3>1, <3>3 DEF FileKeeps, BeingRecovered, Named
    <3>5. QED BY <3>4
  <2>4. CASE t \in Range(kept)
    <3>1. t \in Range(content'[rfile])
      BY <1>1, <2>4
    <3>2. FileKeeps(t, rday)'
      BY <1>1, <1>2, <3>1 DEF FileKeeps, BeingRecovered, Named
    <3>3. QED BY <1>1, <1>2, <3>2 DEF FileKeeps, BeingRecovered, Named
  <2>5. QED BY <2>1, <2>2, <2>3, <2>4 DEF SavedIsSafe
<1>10. OnceInv'
  <2>1. diskErrors' # 0
    BY <1>1 DEF Shape
  <2>2. QED BY <2>1 DEF OnceInv, NoFailure
<1>11. QED BY <1>6, <1>7, <1>8, <1>9, <1>10

LEMMA UnlinkKeeps ==
    ASSUME KeepInv, OnceInv, UnlinkFailed
    PROVE  KeepInv' /\ OnceInv'
<1> USE DEF KeepInv
<1>1. /\ rpc = "unlink" /\ rpc' = "next" /\ name' \in {name, [name EXCEPT ![rday] = 0]}
      /\ diskErrors' \in {diskErrors, diskErrors + 1}
      /\ UNCHANGED <<hpc, hfile, content, saved, queued, again, exposed, day, crashes,
                     todo, rday, rfile, lines, piece, kept>>
  BY DEF UnlinkFailed, DiskFails, hookVars, historyVars
<1>2. /\ name \in [Days -> Nat] /\ name' \in [Days -> Nat] /\ diskErrors' \in Nat
      /\ \A d \in Days : Named(d)' => Named(d) /\ name'[d] = name[d]
      /\ \A d \in Days : d # rday => name'[d] = name[d]
  BY <1>1 DEF Shape, Named
<1>3. Shape' /\ OnlySaved'
  BY <1>1, <1>2 DEF Shape, OnlySaved, Files
<1>4. NamesLead'
  <2>1. \A d \in todo : Named(d)'
    BY <1>1, <1>2 DEF NamesLead, Named, WorkPoints, Shape
  <2>2. \A d, e \in Days : Named(d)' /\ name'[d] = name'[e] => d = e
    BY <1>2 DEF NamesLead, Named
  <2>3. \A d \in Days : Named(d)' => name'[d] \in Files
    BY <1>2 DEF NamesLead
  <2>4. QED
    BY <1>1, <2>1, <2>2, <2>3 DEF NamesLead, Files, WorkPoints
<1>5. SavedIsSafe'
  <2>1. \A t \in Traces, d \in Days : FileKeeps(t, d) => FileKeeps(t, d)'
    BY <1>1, <1>2 DEF FileKeeps, BeingRecovered, InHand, Named, NamesLead
  <2>2. \A t \in Traces : Recovered(t) => Recovered(t)'
    BY <1>1 DEF Recovered
  <2>3. QED
    BY <1>1, <2>1, <2>2 DEF SavedIsSafe, Shape
<1>6. OnceInv'
  <2>1. NoFailure' => NoFailure
    BY <1>1 DEF NoFailure, Shape
  <2>2. QED BY <1>1, <1>2, <2>1 DEF OnceInv, WrittenOnce, ReadOnce, QueuedIsPassed, Files
<1>7. QED BY <1>3, <1>4, <1>5, <1>6

\* The invariant of the failed log, through every interleaving of the hooks with the
\* recovery thread, every error and every crash.
THEOREM FailedLogInvariant == Spec => [](KeepInv /\ OnceInv)
<1>1. Init => KeepInv /\ OnceInv
  <2> SUFFICES ASSUME Init PROVE KeepInv /\ OnceInv
    OBVIOUS
  <2>1. /\ 1 \in Days /\ DOMAIN content = {} /\ content \in Seq(Seq(Traces))
        /\ lines = <<>> /\ kept = <<>> /\ <<>> \in Seq(Traces)
    BY FailedLogAssumption DEF Init, Days
  <2>2. Shape
    BY <2>1 DEF Init, Shape
  <2>3. NamesLead /\ OnlySaved
    BY <2>1, RangeEmpty DEF Init, NamesLead, Named, OnlySaved, Files, WorkPoints
  <2>4. SavedIsSafe /\ OnceInv
    BY <2>1 DEF Init, SavedIsSafe, OnceInv, WrittenOnce, ReadOnce, QueuedIsPassed, Files
  <2>5. QED BY <2>2, <2>3, <2>4 DEF KeepInv
<1>2. KeepInv /\ OnceInv /\ [Next]_vars => KeepInv' /\ OnceInv'
  <2> SUFFICES ASSUME KeepInv, OnceInv, [Next]_vars PROVE KeepInv' /\ OnceInv'
    OBVIOUS
  <2>1. CASE NewDay \/ UNCHANGED vars
    <3>1. /\ UNCHANGED <<hpc, hfile, name, content, rpc, todo, rday, rfile, lines, piece, kept,
                         saved, queued, again, exposed, diskErrors, crashes>>
          /\ day' \in Days
      BY <2>1, FailedLogAssumption
         DEF NewDay, vars, hookVars, fileVars, recoveryVars, historyVars, worldVars, KeepInv, Shape, Days
    <3>2. KeepInv'
      BY <3>1 DEF KeepInv, Shape, NamesLead, Named, OnlySaved, SavedIsSafe, Recovered, FileKeeps,
                  BeingRecovered, InHand, Files
    <3>3. OnceInv'
      BY <3>1 DEF OnceInv, NoFailure, WrittenOnce, ReadOnce, QueuedIsPassed, Files, Named
    <3>4. QED BY <3>2, <3>3
  <2>2. CASE \E t \in Traces : HookOpen(t) \/ HookAppend(t)
    BY <2>2, OpenKeeps, AppendKeeps
  <2>3. CASE Recover \/ Crash
    BY <2>3, RoundKeeps, ReadKeeps, DropKeeps, QueueKeeps, ErrorKeeps, WriteBackKeeps,
       RewriteErrorKeeps, UnlinkKeeps
       DEF Recover
  <2>4. QED BY <2>1, <2>2, <2>3 DEF Next
<1>3. QED
  BY <1>1, <1>2, PTL DEF Spec

\* A trace a hook saved in the failed log is in the queue, or in a file recovery will
\* read again, but for the places where the code gives it up (recover_failed and
\* _recover_line, ingestor.py:265, 294-296, 298, 307).
THEOREM LostOnlyExposed == Spec => []LostOnlyWhenExposed
<1>1. KeepInv => LostOnlyWhenExposed
  <2> SUFFICES ASSUME KeepInv, NEW t \in saved \ exposed, ~ Recovered(t) PROVE Kept(t)
    BY DEF LostOnlyWhenExposed
  <2>1. QED
    BY DEF KeepInv, SavedIsSafe, FileKeeps, Kept, Named
<1>2. QED
  BY <1>1, FailedLogInvariant, PTL

\* While the daemon lives, the disk works and ingest() raises on no line, recovery
\* queues every chunk once at most (recover_failed, ingestor.py).
THEOREM QueuedOnce == Spec => []QueuedTwiceOnlyAfterFailure
<1>1. KeepInv /\ OnceInv => QueuedTwiceOnlyAfterFailure
  BY DEF KeepInv, Shape, OnceInv, NoFailure, QueuedTwiceOnlyAfterFailure
<1>2. QED
  BY <1>1, FailedLogInvariant, PTL

------------------------------------------------------------------------------
(* Splitting: SplitOtlp. *)

\* The chunks tile the children as long as the loop has not dropped the line.
SplitInv ==
    /\ TypeOK /\ ChunksFit /\ DroppedOnlyIfHopeless
    /\ result # "dropped" => Tiled
    /\ result = "splitting" =>
         shaped /\ <<>> \in Fitting /\ (chunks # <<>> => start > 1)
    /\ result = "split" => start = Len(children) + 1

LEMMA InitHolds == SplitInit => SplitInv
<1> SUFFICES ASSUME SplitInit PROVE SplitInv
  OBVIOUS
<1> USE SplitAssumption DEF SplitInit
<1>1. TypeOK
  BY DEF TypeOK, Positions
<1>2. QED
  BY <1>1 DEF SplitInv, ChunksFit, BatchEmpty, DroppedOnlyIfHopeless, Tiled

\* Closing the batch keeps the tiling and the length of the chunks.
LEMMA BatchCloses ==
    ASSUME SplitInv, result = "splitting"
    PROVE  /\ WithBatch \in Seq(Positions \X (0..Len(children)))
           /\ WithBatch = <<>> <=> next = 1
           /\ WithBatch # <<>> => WithBatch[1][1] = 1 /\ WithBatch[Len(WithBatch)][2] = next - 1
           /\ \A k \in 1..(Len(WithBatch) - 1) : WithBatch[k + 1][1] = WithBatch[k][2] + 1
           /\ \A k \in DOMAIN WithBatch : Fits(WithBatch[k][1], WithBatch[k][2])
<1> USE SplitAssumption
<1>1. /\ chunks \in Seq(Positions \X (0..Len(children)))
      /\ Len(children) \in Nat /\ start \in Positions /\ next \in Positions /\ start <= next
      /\ Tiled /\ (chunks # <<>> => start > 1)
      /\ \A k \in DOMAIN chunks : Fits(chunks[k][1], chunks[k][2])
      /\ BatchEmpty \/ Fits(start, next - 1)
  BY DEF SplitInv, TypeOK, ChunksFit
<1>2. CASE BatchEmpty
  <2>1. WithBatch = chunks /\ start = next
    BY <1>2 DEF WithBatch, BatchEmpty
  <2>2. /\ WithBatch = <<>> <=> next = 1
        /\ WithBatch # <<>> => WithBatch[1][1] = 1 /\ WithBatch[Len(WithBatch)][2] = next - 1
    BY <1>1, <2>1 DEF Tiled
  <2>3. \A k \in 1..(Len(WithBatch) - 1) : WithBatch[k + 1][1] = WithBatch[k][2] + 1
    BY <1>1, <2>1 DEF Tiled
  <2>4. QED
    BY <1>1, <2>1, <2>2, <2>3
<1>3. CASE ~ BatchEmpty
  <2>1. /\ WithBatch = Append(chunks, <<start, next - 1>>)
        /\ start \in Positions /\ start \in Nat \ {0} /\ next - 1 \in 0..Len(children) /\ next # 1
    BY <1>1, <1>3 DEF WithBatch, BatchEmpty, Positions
  <2>2. /\ Len(WithBatch) = Len(chunks) + 1 /\ Len(chunks) \in Nat
        /\ \A k \in DOMAIN chunks : WithBatch[k] = chunks[k]
        /\ WithBatch[Len(chunks) + 1] = <<start, next - 1>>
        /\ WithBatch \in Seq(Positions \X (0..Len(children)))
        /\ DOMAIN chunks = 1..Len(chunks) /\ DOMAIN WithBatch = 1..(Len(chunks) + 1)
    BY <1>1, <2>1
  <2>3. ASSUME NEW k \in 1..Len(chunks)
        PROVE  WithBatch[k + 1][1] = WithBatch[k][2] + 1
    <3>1. CASE k = Len(chunks)
      <4>1. chunks[k][2] = start - 1
        BY <1>1, <3>1 DEF Tiled
      <4>2. QED
        BY <2>1, <2>2, <3>1, <4>1
    <3>2. CASE k # Len(chunks)
      <4>1. k \in 1..(Len(chunks) - 1) /\ k + 1 \in 1..Len(chunks) /\ k \in 1..Len(chunks)
        <5>1. Len(chunks) \in Nat
          BY <1>1
        <5>2. QED
          BY <3>2, <5>1
      <4>2. QED
        BY <1>1, <2>2, <4>1 DEF Tiled
    <3>3. QED
      BY <3>1, <3>2
  <2>4. \A k \in DOMAIN WithBatch : Fits(WithBatch[k][1], WithBatch[k][2])
    <3> SUFFICES ASSUME NEW k \in DOMAIN WithBatch PROVE Fits(WithBatch[k][1], WithBatch[k][2])
      OBVIOUS
    <3>1. CASE k \in DOMAIN chunks
      BY <1>1, <2>2, <3>1
    <3>2. CASE k = Len(chunks) + 1
      BY <1>1, <1>3, <2>2, <3>2
    <3>3. QED
      BY <2>2, <3>1, <3>2
  <2>5. WithBatch[1][1] = 1 /\ WithBatch # <<>> /\ WithBatch[Len(WithBatch)][2] = next - 1
    <3>1. CASE chunks = <<>>
      BY <1>1, <2>2, <3>1 DEF Tiled
    <3>2. CASE chunks # <<>>
      <4>1. 1 \in DOMAIN chunks
        BY <2>2, <1>1, <3>2
      <4>2. QED
        BY <1>1, <2>2, <3>2, <4>1 DEF Tiled
    <3>3. QED
      BY <3>1, <3>2
  <2>6. QED
    BY <2>1, <2>2, <2>3, <2>4, <2>5
<1>4. QED
  BY <1>2, <1>3

LEMMA StepKeeps == SplitInv /\ [SplitNext]_splitVars => SplitInv'
<1> SUFFICES ASSUME SplitInv, [SplitNext]_splitVars PROVE SplitInv'
  OBVIOUS
<1> USE SplitAssumption
<1>t. /\ children \in Bodies /\ Len(children) \in Nat /\ shaped \in BOOLEAN
      /\ start \in Positions /\ next \in Positions /\ start <= next
      /\ chunks \in Seq(Positions \X (0..Len(children)))
  BY DEF SplitInv, TypeOK
<1>f. UNCHANGED children =>
        /\ Positions' = Positions /\ \A a, b : Fits(a, b)' = Fits(a, b)
  BY DEF Positions, Fits
<1>1. CASE Extend
  <2>1. /\ result = "splitting" /\ next <= Len(children) /\ Fits(start, next) /\ next' = next + 1
        /\ UNCHANGED <<children, shaped, start, chunks, result>>
    BY <1>1 DEF Extend
  <2>2. TypeOK'
    BY <2>1, <1>t, <1>f DEF TypeOK, Positions
  <2>3. ChunksFit'
    <3>1. next' - 1 = next
      BY <2>1, <1>t DEF Positions
    <3>2. QED
      BY <2>1, <3>1 DEF SplitInv, ChunksFit, Fits
  <2>4. QED
    BY <2>1, <2>2, <2>3 DEF SplitInv, DroppedOnlyIfHopeless, Tiled
<1>2. CASE Close
  <2>1. /\ result = "splitting" /\ next <= Len(children) /\ Fits(next, next)
        /\ chunks' = WithBatch /\ start' = next /\ next' = next + 1
        /\ UNCHANGED <<children, shaped, result>>
    BY <1>2 DEF Close
  <2>2. TypeOK'
    BY <2>1, <1>t, <1>f, BatchCloses DEF TypeOK, Positions
  <2>3. ChunksFit'
    BY <2>1, <1>t, <1>f, BatchCloses DEF ChunksFit, Positions
  <2>4. Tiled'
    BY <2>1, BatchCloses DEF Tiled
  <2>5. start' > 1
    <3>1. start # next
      BY <1>2, <2>1 DEF Close
    <3>2. QED
      BY <2>1, <3>1, <1>t DEF Positions
  <2>6. QED
    BY <2>1, <2>2, <2>3, <2>4, <2>5 DEF SplitInv, DroppedOnlyIfHopeless
<1>3. CASE Drop
  <2>1. /\ result = "splitting" /\ next <= Len(children) /\ ~ Fits(next, next) /\ result' = "dropped"
        /\ UNCHANGED <<children, shaped, start, next, chunks>>
    BY <1>3 DEF Drop
  <2>2. TypeOK' /\ ChunksFit'
    BY <2>1, <1>t, <1>f DEF SplitInv, TypeOK, ChunksFit
  <2>3. next \in DOMAIN children
    BY <2>1, <1>t DEF Positions
  <2>4. DroppedOnlyIfHopeless'
    BY <2>1, <2>3, <1>f DEF DroppedOnlyIfHopeless
  <2>5. QED
    BY <2>1, <2>2, <2>4 DEF SplitInv
<1>4. CASE FinishSplit
  <2>1. /\ result = "splitting" /\ next = Len(children) + 1 /\ result' = "split" /\ start' = next
        /\ chunks' = IF WithBatch = <<>> THEN <<<<1, 0>>>> ELSE WithBatch
        /\ UNCHANGED <<children, shaped, next>>
    BY <1>4, <1>t DEF FinishSplit, Positions
  <2>2. CASE WithBatch = <<>>
    <3>1. next = 1 /\ Len(children) = 0 /\ chunks' = <<<<1, 0>>>> /\ Len(chunks') = 1
      BY <2>1, <2>2, <1>t, BatchCloses
    <3>2. Fits(1, 0)
      <4>1. SubSeq(children, 1, 0) = <<>>
        BY <1>t
      <4>2. QED
        BY <2>1, <4>1 DEF SplitInv, Fits
    <3>3. TypeOK'
      <4>1. <<1, 0>> \in Positions \X (0..Len(children))
        BY <3>1, <1>t DEF Positions
      <4>2. chunks' \in Seq(Positions \X (0..Len(children)))
        BY <3>1, <4>1
      <4>3. QED
        BY <2>1, <4>2, <1>t, <1>f DEF TypeOK
    <3>6. Tiled'
      <4>1. chunks' # <<>> /\ chunks'[1][1] = 1 /\ chunks'[Len(chunks')][2] = start' - 1
        BY <2>1, <3>1
      <4>2. 1..(Len(chunks') - 1) = {}
        BY <3>1
      <4>3. QED
        BY <4>1, <4>2 DEF Tiled
    <3>4. ChunksFit'
      BY <2>1, <3>1, <3>2, <1>f DEF ChunksFit
    <3>5. QED
      BY <2>1, <3>3, <3>4, <3>6 DEF SplitInv, DroppedOnlyIfHopeless
  <2>3. CASE WithBatch # <<>>
    <3>1. chunks' = WithBatch
      BY <2>1, <2>3
    <3>2. TypeOK'
      BY <2>1, <3>1, <1>t, <1>f, BatchCloses DEF TypeOK, Positions
    <3>3. Tiled'
      BY <2>1, <2>3, <3>1, BatchCloses DEF Tiled
    <3>4. ChunksFit'
      BY <2>1, <3>1, <1>f, BatchCloses DEF ChunksFit
    <3>5. QED
      BY <2>1, <3>2, <3>3, <3>4 DEF SplitInv, DroppedOnlyIfHopeless
  <2>4. QED
    BY <2>2, <2>3
<1>5. CASE UNCHANGED splitVars
  <2>1. UNCHANGED <<children, shaped, start, next, chunks, result>>
    BY <1>5 DEF splitVars
  <2>2. QED
    BY <2>1, <1>f DEF SplitInv, TypeOK, ChunksFit, DroppedOnlyIfHopeless, Tiled, BatchEmpty
<1>6. QED
  BY <1>1, <1>2, <1>3, <1>4, <1>5 DEF SplitNext

LEMMA SplitInvariant == SplitSpec => []SplitInv
  BY InitHolds, StepKeeps, PTL DEF SplitSpec

\* The chunks of a split body hold all its spans, once and in order.
THEOREM SplitIsComplete == SplitSpec => []SplitKeepsEverySpan
<1>1. SplitInv => SplitKeepsEverySpan
  BY DEF SplitInv, SplitKeepsEverySpan
<1>2. QED
  BY <1>1, SplitInvariant, PTL

\* No chunk is too long, finished or not.
THEOREM SplitFits == SplitSpec => []ChunksFit
<1>1. SplitInv => ChunksFit
  BY DEF SplitInv
<1>2. QED
  BY <1>1, SplitInvariant, PTL

\* A line is dropped only for its shape or for a span that fits nowhere.
THEOREM SplitDropsOnlyTheHopeless == SplitSpec => []DroppedOnlyIfHopeless
<1>1. SplitInv => DroppedOnlyIfHopeless
  BY DEF SplitInv
<1>2. QED
  BY <1>1, SplitInvariant, PTL
==============================================================================
