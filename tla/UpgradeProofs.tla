---------------------------- MODULE UpgradeProofs ----------------------------
(***************************************************************************)
(* Proofs about Upgrade, for any number of agents, releases, commands and  *)
(* faults, and of installers at a time.                                    *)
(***************************************************************************)
EXTENDS Upgrade, TLAPS

Busy(i) == inst[i].pc # "idle"
Placing == {inst[i].version : i \in {j \in Installers : At(j, "place")}}
Removing == {"stop", "unhook", "unload", "versions", "forget current", "forget previous",
             "forget entries", "unlink service"}
Safe == dirs \cup torn \cup Placing \cup {0}

\* The shape of the locals, and what they name.
LocalShape(l) ==
    /\ DOMAIN l = DOMAIN Idle
    /\ l.old \in 0..MaxVersion /\ l.version \in 0..MaxVersion
    /\ l.pc \in Removing \cup {"idle"} => l.old = 0
    /\ l.pc \in {"unpack", "place", "current", "previous"} =>
         l.version \in Versions /\ l.cmd \in {"install", "upgrade", "rollback"}

Shape ==
    /\ DOMAIN inst = Installers /\ \A i \in Installers : LocalShape(inst[i])
    /\ DOMAIN hook = Agents /\ had \subseteq Agents
    /\ dirs \subseteq Versions
    /\ check \in 0..MaxVersion /\ current \in 0..MaxVersion /\ previous \in 0..MaxVersion

Alone == \A i, j \in Installers : Busy(i) /\ Busy(j) => i = j

\* Whatever a pointer holds, or will be given back, is safe; a version is in
\* its place before a pointer is moved, and an uninstallation that drops the
\* second pointer has dropped the first.
PointersSafe ==
    /\ current \in Safe /\ previous \in Safe
    /\ \A i \in Installers :
         inst[i].old \in Safe /\ (inst[i].pc \in {"previous", "current"} => inst[i].version \in dirs)
         /\ (inst[i].pc = "forget previous" => current = 0)

PointerInv == overlap \/ (Alone /\ PointersSafe)

\* A lost hook is one an installer is about to install or restore.
About(i, a) == inst[i].agent = a /\ inst[i].pc \in {"install", "restore"}
HookInv == \A a \in had : hook[a] # 0 \/ \E i \in Installers : About(i, a)

IInv == Shape /\ PointerInv /\ HookInv

-----------------------------------------------------------------------------

\* Installer i goes on as l.
LEMMA ShapeStep ==
  ASSUME IInv, NEW i \in Installers, NEW l, inst' = [inst EXCEPT ![i] = l], LocalShape(l),
         DOMAIN hook' = Agents, had' \subseteq Agents, dirs' \subseteq Versions,
         check' \in 0..MaxVersion, current' \in 0..MaxVersion, previous' \in 0..MaxVersion
  PROVE  Shape'
<1>1. \A j \in Installers : LocalShape(inst'[j])
  BY DEF IInv, Shape
<1>2. DOMAIN inst' = Installers
  BY DEF IInv, Shape
<1>3. QED BY <1>1, <1>2 DEF Shape

LEMMA ShapeFacts ==
  ASSUME IInv, NEW i \in Installers
  PROVE  /\ LocalShape(inst[i]) /\ DOMAIN hook = Agents /\ had \subseteq Agents /\ dirs \subseteq Versions
         /\ check \in 0..MaxVersion /\ current \in 0..MaxVersion /\ previous \in 0..MaxVersion
  BY DEF IInv, Shape

LEMMA IdleFacts ==
    Idle.pc = "idle" /\ Idle.old = 0 /\ Idle.version = 0
  BY DEF Idle

LEMMA IdleShape == LocalShape(Idle)
  BY IdleFacts, UpgradeAssumption DEF LocalShape

\* Steps that neither touch versions, pointers and hooks nor leave the
\* stretch of code between the pointers and the end.
LEMMA LocalStep ==
  ASSUME IInv, NEW i \in Installers, NEW l, inst' = [inst EXCEPT ![i] = l],
         DOMAIN l = DOMAIN Idle, l.version = inst[i].version, l.old = inst[i].old,
         Busy(i), inst[i].pc \notin {"place", "install", "restore"},
         l.pc \in {"restart", "health", "hooks", "uninstall", "install", "write", "replace"},
         UNCHANGED <<check, dirs, current, previous, torn, overlap, hook, had>>
  PROVE  IInv'
<1>1. Shape'
  <2>1. LocalShape(l)
    BY ShapeFacts DEF LocalShape, Removing
  <2>2. QED BY <2>1, ShapeFacts, ShapeStep
<1>2. Placing' = Placing
  BY DEF IInv, Shape, Placing, At
<1>3. PointerInv'
  <2>2. QED BY <1>2 DEF IInv, Shape, PointerInv, Alone, PointersSafe, Safe, Busy
<1>4. HookInv'
  BY DEF IInv, Shape, HookInv, About
<1>5. QED BY <1>1, <1>3, <1>4 DEF IInv

\* A command starts.
LEMMA StartStep ==
  ASSUME IInv, NEW i \in Installers, NEW l, Start(i, l),
         {"pc", "cmd", "version"} \subseteq DOMAIN l, l.version \in 0..MaxVersion,
         "old" \in DOMAIN l => l.old = current /\ l.pc # "stop",
         l.pc \in {"unpack", "current", "hooks", "stop"}, l.pc = "current" => l.version \in dirs,
         l.pc \in {"unpack", "current"} =>
           l.version \in Versions /\ l.cmd \in {"install", "upgrade", "rollback"}
  PROVE  IInv'
<1> DEFINE m == Over(l)
<1>a. inst' = [inst EXCEPT ![i] = m]
  BY DEF Start, Step
<1>b. /\ DOMAIN m = DOMAIN Idle /\ m.pc = l.pc /\ m.version = l.version /\ m.cmd = l.cmd
      /\ m.old \in {0, current} /\ (m.pc = "stop" => m.old = 0)
  BY DEF Over, Idle
<1> HIDE DEF m
<1> USE <1>a, <1>b DEF Start, diskVars, hookVars
<1>1. Shape'
  <2>1. l.pc \in Removing => l.pc = "stop"
    BY DEF Removing
  <2>2. m.old \in 0..MaxVersion
    BY ShapeFacts, UpgradeAssumption
  <2>3. LocalShape(m)
    BY <2>1, <2>2 DEF LocalShape
  <2>4. QED BY <2>3, ShapeFacts, ShapeStep
<1>2. Placing' = Placing
  BY DEF IInv, Shape, Placing, At
<1>3. PointerInv'
  <2>1. PointersSafe => PointersSafe'
    <3>1. m.pc \notin {"previous", "forget previous"} /\ (m.pc = "current" => m.version \in dirs)
      OBVIOUS
    <3>2. DOMAIN inst = Installers
      BY DEF IInv, Shape
    <3>3. Safe' = Safe
      BY <1>2 DEF Safe
    <3>4. PointersSafe => m.old \in Safe
      BY DEF PointersSafe, Safe
    <3> HIDE <1>b
    <3>5. QED BY <3>1, <3>2, <3>3, <3>4 DEF PointersSafe
  <2>2. ~ overlap' => Alone'
    BY DEF IInv, Shape, Alone, Busy, At
  <2>3. QED BY <2>1, <2>2 DEF IInv, Shape, PointerInv
<1>4. HookInv'
  BY DEF IInv, Shape, HookInv, About, At
<1>5. QED BY <1>1, <1>3, <1>4 DEF IInv

\* An installer ends; versions go, but for those the pointers name.
LEMMA EndStep ==
  ASSUME IInv, NEW i \in Installers, Busy(i), inst[i].pc \notin {"place", "install", "restore"},
         inst' = [inst EXCEPT ![i] = Idle],
         dirs' \subseteq dirs, {current, previous} \cap dirs \subseteq dirs',
         UNCHANGED <<check, current, previous, torn, overlap, hook, had>>
  PROVE  IInv'
<1> USE IdleFacts, UpgradeAssumption
<1>1. Shape'
  <2>1. dirs' \subseteq Versions
    BY ShapeFacts
  <2>2. QED BY <2>1, ShapeFacts, IdleShape, ShapeStep
<1>2. Placing' = Placing
  BY DEF IInv, Shape, Placing, At
<1>3. ASSUME ~ overlap PROVE Alone' /\ PointersSafe'
  <2>1. \A j \in Installers : inst'[j].old = 0 /\ inst'[j].pc = "idle"
    BY <1>3 DEF IInv, Shape, LocalShape, PointerInv, Alone, Busy
  <2>2. QED BY <1>2, <1>3, <2>1 DEF IInv, PointerInv, PointersSafe, Safe, Alone, Busy
<1>4. PointerInv'
  BY <1>3 DEF IInv, PointerInv
<1>5. HookInv'
  BY DEF IInv, Shape, HookInv, About
<1>6. QED BY <1>1, <1>4, <1>5 DEF IInv

\* Installers die, others go on from the restart to the health check.
LEMMA DeathStep ==
  ASSUME IInv, NEW dead \in SUBSET Installers, NEW live \in SUBSET Installers,
         \A j \in live : At(j, "restart"),
         inst' = [j \in Installers |-> IF j \in dead THEN Idle
                                       ELSE IF j \in live THEN [inst[j] EXCEPT !.pc = "health"]
                                       ELSE inst[j]],
         Mourn(dead),
         UNCHANGED <<check, dirs, current, previous, hook>>
  PROVE  IInv'
<1> USE IdleFacts, UpgradeAssumption DEF Mourn
<1>1. Shape'
  <2>1. ASSUME NEW j \in live PROVE LocalShape([inst[j] EXCEPT !.pc = "health"])
    <3> DEFINE l == [inst[j] EXCEPT !.pc = "health"]
    <3>1. LocalShape(inst[j])
      BY ShapeFacts
    <3>2. DOMAIN l = DOMAIN Idle /\ l.old = inst[j].old /\ l.version = inst[j].version /\ l.pc = "health"
      BY <3>1 DEF LocalShape, Idle
    <3> HIDE DEF l
    <3>3. LocalShape(l)
      BY <3>1, <3>2 DEF LocalShape, Removing
    <3>4. QED BY <3>3 DEF l
  <2>2. \A j \in Installers : LocalShape(inst'[j])
    BY <2>1, IdleShape DEF IInv, Shape
  <2>3. QED BY <2>2 DEF IInv, Shape
<1>2. Safe \subseteq Safe'
  BY DEF IInv, Shape, Safe, Placing, At
<1>3. PointerInv'
  <2>1. PointersSafe => PointersSafe'
    <3>1. ASSUME NEW j \in Installers
          PROVE  \/ inst'[j] = Idle
                 \/ inst'[j] = inst[j]
                 \/ inst'[j].pc = "health" /\ inst'[j].old = inst[j].old
      <4>1. [inst[j] EXCEPT !.pc = "health"].pc = "health" /\ [inst[j] EXCEPT !.pc = "health"].old = inst[j].old
        BY ShapeFacts DEF LocalShape, Idle
      <4>2. QED BY <4>1
    <3>2. 0 \in Safe'
      BY DEF Safe
    <3>3. ASSUME PointersSafe, NEW j \in Installers
          PROVE  /\ inst'[j].old \in Safe' /\ (inst'[j].pc \in {"previous", "current"} => inst'[j].version \in dirs')
                 /\ (inst'[j].pc = "forget previous" => current' = 0)
      <4>1. CASE inst'[j] = Idle
        BY <3>2, <4>1
      <4>2. CASE inst'[j] = inst[j]
        <5>1. inst[j].old \in Safe /\ (inst[j].pc \in {"previous", "current"} => inst[j].version \in dirs)
              /\ (inst[j].pc = "forget previous" => current = 0)
          BY <3>3 DEF PointersSafe
        <5>2. dirs' = dirs /\ current' = current
          OBVIOUS
        <5>3. QED BY <1>2, <4>2, <5>1, <5>2, Zenon
      <4>3. CASE inst'[j].pc = "health" /\ inst'[j].old = inst[j].old
        BY <1>2, <3>3, <4>3 DEF PointersSafe
      <4>4. QED BY <3>1, <4>1, <4>2, <4>3
    <3>4. PointersSafe => current' \in Safe' /\ previous' \in Safe'
      BY <1>2 DEF PointersSafe
    <3>5. QED BY <3>3, <3>4 DEF PointersSafe
  <2>2. Alone => Alone'
    BY DEF IInv, Shape, Alone, Busy, At
  <2>3. QED BY <2>1, <2>2 DEF IInv, PointerInv
<1>4. HookInv'
  BY DEF IInv, Shape, HookInv, About, At
<1>5. QED BY <1>1, <1>3, <1>4 DEF IInv

-----------------------------------------------------------------------------
(* Every action is one of these steps, or one of the few that move versions, *)
(* pointers and hooks.                                                     *)

LEMMA Starts ==
  ASSUME IInv, NEW i \in Installers, Command(i) PROVE IInv'
<1>1. ASSUME NEW cmd \in {"install", "upgrade", "rollback"}, NEW v \in Versions,
             NEW pc \in {"unpack", "current"}, pc = "current" => v \in dirs,
             NEW l, Start(i, l), {"pc", "cmd", "version"} \subseteq DOMAIN l,
             l.pc = pc, l.cmd = cmd, l.version = v, "old" \in DOMAIN l => l.old = current
      PROVE  IInv'
  <2>1. v \in 0..MaxVersion
    BY UpgradeAssumption DEF Versions
  <2>2. QED BY <1>1, <2>1, StartStep
<1>0. CASE CmdInstall(i)
  <2>1. PICK v \in Versions : Start(i, [cmd |-> "install", pc |-> "unpack", version |-> v])
    BY <1>0 DEF CmdInstall
  <2> DEFINE l == [cmd |-> "install", pc |-> "unpack", version |-> v]
  <2>2. /\ {"pc", "cmd", "version"} \subseteq DOMAIN l /\ "old" \notin DOMAIN l
        /\ l.pc = "unpack" /\ l.cmd = "install" /\ l.version = v
    OBVIOUS
  <2>3. Start(i, l)
    BY <2>1
  <2> HIDE DEF l
  <2>4. QED BY <1>1, <2>2, <2>3
<1>2. ASSUME NEW v \in Versions, NEW web, UpgradeTo(i, v, web) PROVE IInv'
  <2> DEFINE l == [cmd |-> "upgrade", web |-> web, pc |-> "unpack", version |-> v, old |-> current]
  <2>2. /\ {"pc", "cmd", "version"} \subseteq DOMAIN l /\ l.old = current
        /\ l.pc = "unpack" /\ l.cmd = "upgrade" /\ l.version = v
    OBVIOUS
  <2>3. Start(i, l)
    BY <1>2 DEF UpgradeTo
  <2> HIDE DEF l
  <2>4. QED BY <1>1, <2>2, <2>3
<1>3. CASE CmdRollback(i)
  <2> DEFINE l == [cmd |-> "rollback", pc |-> "current", version |-> previous, old |-> current]
  <2>2. /\ {"pc", "cmd", "version"} \subseteq DOMAIN l /\ l.old = current
        /\ l.pc = "current" /\ l.cmd = "rollback" /\ l.version = previous
    OBVIOUS
  <2>3. Start(i, l) /\ previous \in dirs
    BY <1>3 DEF CmdRollback
  <2>4. previous \in Versions
    BY <2>3, ShapeFacts
  <2> HIDE DEF l
  <2>5. QED BY <1>1, <2>2, <2>3, <2>4
<1>4. ASSUME NEW web, RetryFailedHooks(i, web) PROVE IInv'
  <2>2. current \in 0..MaxVersion
    BY ShapeFacts
  <2>3. PICK cmd \in {"retry", "retry one"} : \E agents :
          Start(i, [cmd |-> cmd, web |-> web, pc |-> "hooks", version |-> current, agents |-> agents])
    BY <1>4 DEF RetryFailedHooks
  <2>4. PICK agents :
          Start(i, [cmd |-> cmd, web |-> web, pc |-> "hooks", version |-> current, agents |-> agents])
    BY <2>3
  <2> DEFINE l == [cmd |-> cmd, web |-> web, pc |-> "hooks", version |-> current, agents |-> agents]
  <2>5. /\ {"pc", "cmd", "version"} \subseteq DOMAIN l /\ "old" \notin DOMAIN l
        /\ l.pc = "hooks" /\ l.version = current
    OBVIOUS
  <2>6. Start(i, l)
    BY <2>4
  <2> HIDE DEF l
  <2>7. QED BY <2>2, <2>5, <2>6, StartStep
<1>5. CASE PostUpgrade(i)
  <2>1. check \in Versions
    BY <1>5, UpgradeAssumption DEF PostUpgrade, IInv, Shape, Versions
  <2>2. QED BY <1>2, <1>5, <2>1 DEF PostUpgrade
<1>6. CASE CmdUpgrade(i)
  BY <1>2, <1>6 DEF CmdUpgrade
<1>7. CASE CmdRetryHooks(i) \/ PostRetryHooks(i)
  BY <1>4, <1>7 DEF CmdRetryHooks, PostRetryHooks
<1>8. CASE CmdUninstall(i)
  <2>1. current \in 0..MaxVersion
    BY DEF IInv, Shape
  <2> DEFINE l == [cmd |-> "uninstall", pc |-> "stop", version |-> current]
  <2>2. /\ {"pc", "cmd", "version"} \subseteq DOMAIN l /\ "old" \notin DOMAIN l
        /\ l.pc = "stop" /\ l.version = current
    OBVIOUS
  <2>3. Start(i, l)
    BY <1>8 DEF CmdUninstall
  <2> HIDE DEF l
  <2>4. QED BY <2>1, <2>2, <2>3, StartStep
<1>9. QED
  BY <1>0, <1>3, <1>5, <1>6, <1>7, <1>8 DEF Command

\* The locals go on, on the way to the pointers.
LEMMA GoStep ==
  ASSUME IInv, NEW i \in Installers, NEW pc, Goto(i, pc),
         inst[i].pc \in {"unpack", "place", "previous", "current"},
         pc \in {"place", "previous", "current", "restart", "service"}
  PROVE  \E l : /\ inst' = [inst EXCEPT ![i] = l] /\ LocalShape(l) /\ l.pc = pc /\ l.old = inst[i].old
                /\ l.version = inst[i].version
<1> DEFINE l == [inst[i] EXCEPT !.pc = pc]
<1>1. LocalShape(inst[i])
  BY ShapeFacts
<1>2. /\ DOMAIN l = DOMAIN Idle /\ l.pc = pc /\ l.old = inst[i].old /\ l.version = inst[i].version
      /\ l.cmd = inst[i].cmd
  BY <1>1 DEF LocalShape, Idle
<1>3. inst' = [inst EXCEPT ![i] = l]
  BY DEF Goto, Step
<1> HIDE DEF l
<1>4. LocalShape(l)
  <2>1. pc \notin Removing
    BY DEF Removing
  <2>2. QED BY <1>1, <1>2, <2>1 DEF LocalShape
<1>5. QED BY <1>2, <1>3, <1>4

\* The directories and the pointers.
LEMMA VersionSteps ==
  ASSUME IInv, NEW i \in Installers,
         Unpack(i) \/ Place(i) \/ WritePrevious(i) \/ WriteCurrent(i)
  PROVE  IInv'
<1> USE DEF historyVars, hookVars
<1>1. HookInv' /\ Busy(i)
  BY DEF Step, Goto, Unpack, Place, WritePrevious, WriteCurrent, At, IInv, Shape, HookInv, About, Busy
<1>2. CASE Unpack(i)
  <2>a. /\ Goto(i, "place") /\ inst[i].pc = "unpack" /\ dirs' = dirs \ {inst[i].version}
        /\ UNCHANGED <<check, current, previous, torn, overlap, hook, had>>
    BY <1>2 DEF Unpack, At
  <2>b. PICK l : /\ inst' = [inst EXCEPT ![i] = l] /\ LocalShape(l) /\ l.pc = "place" /\ l.old = inst[i].old
                 /\ l.version = inst[i].version
    BY <2>a, GoStep
  <2>1. Shape'
    <3>1. dirs' \subseteq Versions
      BY <2>a, ShapeFacts
    <3>2. QED BY <2>a, <2>b, <3>1, ShapeFacts, ShapeStep
  <2>2. Safe \subseteq Safe'
    BY <2>a, <2>b DEF At, IInv, Shape, Safe, Placing
  <2>3. Alone /\ PointersSafe => Alone' /\ PointersSafe'
    BY <2>a, <2>b, <2>2 DEF At, IInv, Shape, Alone, PointersSafe, Busy
  <2>4. QED BY <1>1, <2>a, <2>1, <2>3 DEF IInv, PointerInv
<1>3. CASE Place(i)
  <2>p. PICK pc \in {"previous", "current"} : Goto(i, pc)
    BY <1>3 DEF Place
  <2>a. /\ inst[i].pc = "place" /\ dirs' = dirs \cup {inst[i].version} /\ torn' = torn \ {inst[i].version}
        /\ UNCHANGED <<check, current, previous, overlap, hook, had>>
    BY <1>3 DEF Place, At
  <2>b. PICK l : /\ inst' = [inst EXCEPT ![i] = l] /\ LocalShape(l) /\ l.pc = pc /\ l.old = inst[i].old
                 /\ l.version = inst[i].version
    BY <2>a, <2>p, GoStep
  <2>1. Shape'
    <3>1. inst[i].version \in Versions
      BY <2>a, ShapeFacts DEF LocalShape
    <3>2. dirs' \subseteq Versions
      BY <2>a, <3>1, ShapeFacts
    <3>3. QED BY <2>a, <2>b, <3>2, ShapeFacts, ShapeStep
  <2>2. Alone => Alone' /\ Safe \subseteq Safe'
    BY <2>a, <2>b DEF At, IInv, Shape, Alone, Safe, Placing, Busy
  <2>3. Alone /\ PointersSafe => PointersSafe'
    BY <2>a, <2>b, <2>p, <2>2 DEF At, IInv, Shape, Alone, PointersSafe, Busy
  <2>4. QED BY <1>1, <2>a, <2>1, <2>2, <2>3 DEF IInv, PointerInv
<1>4. CASE WritePrevious(i)
  <2>p. PICK pc \in {"current", "restart"} : Goto(i, pc)
    BY <1>4 DEF WritePrevious
  <2>a. /\ inst[i].pc = "previous" /\ previous' = inst[i].old
        /\ UNCHANGED <<check, dirs, torn, current, overlap, hook, had>>
    BY <1>4 DEF WritePrevious, At
  <2>b. PICK l : /\ inst' = [inst EXCEPT ![i] = l] /\ LocalShape(l) /\ l.pc = pc /\ l.old = inst[i].old
                 /\ l.version = inst[i].version
    BY <2>a, <2>p, GoStep
  <2>1. Shape'
    <3>1. inst[i].old \in 0..MaxVersion
      BY ShapeFacts DEF LocalShape
    <3>2. QED BY <2>a, <2>b, <3>1, ShapeFacts, ShapeStep
  <2>2. Safe' = Safe
    BY <2>a, <2>b, <2>p DEF At, IInv, Shape, Safe, Placing
  <2>3. Alone /\ PointersSafe => Alone' /\ PointersSafe'
    BY <2>a, <2>b, <2>p, <2>2 DEF At, IInv, Shape, Alone, PointersSafe, Busy
  <2>4. QED BY <1>1, <2>a, <2>1, <2>3 DEF IInv, PointerInv
<1>5. CASE WriteCurrent(i)
  <2>a. /\ inst[i].pc = "current" /\ current' = inst[i].version /\ Goto(i, AfterCurrent[inst[i].cmd])
        /\ UNCHANGED <<check, dirs, torn, previous, overlap, hook, had>>
    BY <1>5 DEF WriteCurrent, At
  <2>1. inst[i].cmd \in {"install", "upgrade", "rollback"} /\ inst[i].version \in Versions
    BY <2>a, ShapeFacts DEF LocalShape
  <2>p. PICK pc \in {"service", "restart", "previous"} : Goto(i, pc)
    BY <2>1, <2>a DEF AfterCurrent
  <2>b. PICK l : /\ inst' = [inst EXCEPT ![i] = l] /\ LocalShape(l) /\ l.pc = pc /\ l.old = inst[i].old
                 /\ l.version = inst[i].version
    BY <2>a, <2>p, GoStep
  <2>3. Shape'
    <3>1. inst[i].version \in 0..MaxVersion
      BY ShapeFacts DEF LocalShape
    <3>2. QED BY <2>a, <2>b, <3>1, ShapeFacts, ShapeStep
  <2>4. Safe' = Safe
    BY <2>a, <2>b, <2>p DEF At, IInv, Shape, Safe, Placing
  <2>5. Alone /\ PointersSafe => Alone' /\ PointersSafe'
    <3> SUFFICES ASSUME Alone, PointersSafe PROVE Alone' /\ PointersSafe'
      OBVIOUS
    <3>1. inst[i].version \in dirs /\ \A j \in Installers \ {i} : inst[j].pc = "idle"
      BY <2>a DEF Alone, PointersSafe, Busy
    <3>2. QED BY <2>a, <2>b, <2>p, <2>4, <3>1 DEF At, IInv, Shape, Alone, PointersSafe, Busy, Safe
  <2>6. QED BY <1>1, <2>a, <2>3, <2>5 DEF IInv, PointerInv
<1>6. QED BY <1>2, <1>3, <1>4, <1>5

\* Steps on one hook: everything but the hook, the locals and had stays.
LEMMA HookSteps ==
  ASSUME IInv, NEW i \in Installers,
         UninstallOld(i) \/ InstallNew(i) \/ InstallFails(i) \/ RestoreOld(i)
  PROVE  IInv'
<1> USE UpgradeAssumption DEF Step, Goto, historyVars, diskVars, boundVars, Scripts, Versions
<1>1. PICK l : /\ inst' = [inst EXCEPT ![i] = l] /\ DOMAIN l = DOMAIN Idle
               /\ l.version = inst[i].version /\ l.old = inst[i].old /\ l.agent = inst[i].agent
               /\ l.pc \in {"install", "write", "restore"}
  <2>1. DOMAIN inst[i] = DOMAIN Idle
    BY DEF IInv, Shape, LocalShape
  <2>2. PICK pc \in {"install", "write", "restore"} : \E entry :
          inst' = [inst EXCEPT ![i] = [inst[i] EXCEPT !.pc = pc, !.entry = entry]]
    <3>1. CASE UninstallOld(i)
      <4>1. inst' = [inst EXCEPT ![i] = [inst[i] EXCEPT !.pc = "install", !.entry = inst[i].entry]]
        BY <3>1, <2>1 DEF UninstallOld, Idle
      <4>2. QED BY <4>1
    <3>2. CASE InstallNew(i)
      BY <3>2 DEF InstallNew
    <3>3. CASE InstallFails(i)
      BY <3>3 DEF InstallFails
    <3>4. CASE RestoreOld(i)
      BY <3>4 DEF RestoreOld
    <3>5. QED BY <3>1, <3>2, <3>3, <3>4
  <2>3. PICK entry : inst' = [inst EXCEPT ![i] = [inst[i] EXCEPT !.pc = pc, !.entry = entry]]
    BY <2>2
  <2> DEFINE l == [inst[i] EXCEPT !.pc = pc, !.entry = entry]
  <2>4. /\ DOMAIN l = DOMAIN Idle /\ l.version = inst[i].version /\ l.old = inst[i].old
        /\ l.agent = inst[i].agent /\ l.pc = pc
    BY <2>1 DEF Idle
  <2> HIDE DEF l
  <2>5. inst' = [inst EXCEPT ![i] = l]
    BY <2>3 DEF l
  <2>6. QED BY <2>4, <2>5
<1>2. /\ inst[i].pc \in {"uninstall", "install", "restore"}
      /\ UNCHANGED <<check, dirs, current, previous, torn, overlap>>
  BY DEF UninstallOld, InstallNew, InstallFails, RestoreOld, At
<1>3. DOMAIN hook' = Agents /\ had' \subseteq Agents
  BY DEF UninstallOld, InstallNew, InstallFails, RestoreOld, IInv, Shape
<1>4. Shape'
  <2>1. LocalShape(l)
    BY <1>1, ShapeFacts DEF LocalShape, Removing
  <2>2. QED BY <1>1, <1>2, <1>3, <2>1, ShapeFacts, ShapeStep
<1>5. PointerInv'
  <2>1. Safe' = Safe
    BY <1>1, <1>2 DEF IInv, Shape, Safe, Placing, At
  <2>2. QED BY <1>1, <1>2, <2>1 DEF IInv, Shape, PointerInv, Alone, PointersSafe, Busy
<1>6. HookInv'
  <2>1. CASE UninstallOld(i)
    BY <2>1 DEF UninstallOld, IInv, Shape, HookInv, About, At
  <2>2. CASE InstallNew(i)
    BY <2>2 DEF InstallNew, IInv, Shape, HookInv, About, At, Busy
  <2>3. CASE InstallFails(i)
    BY <2>3 DEF InstallFails, IInv, Shape, HookInv, About, At
  <2>4. CASE RestoreOld(i)
    BY <2>4 DEF RestoreOld, IInv, Shape, HookInv, About, At
  <2>5. QED BY <2>1, <2>2, <2>3, <2>4
<1>7. QED BY <1>4, <1>5, <1>6 DEF IInv

\* The rest of an installer's steps.
LEMMA OtherSteps ==
  ASSUME IInv, NEW i \in Installers,
         \/ DownloadFails(i) \/ InstallService(i) \/ Restart(i) \/ Healthy(i) \/ Unhealthy(i)
         \/ NextHook(i) \/ ReadEntries(i) \/ WriteEntry(i) \/ HooksDone(i) \/ Die(i)
  PROVE  IInv'
<1> USE DEF Step, Goto, Exit, historyVars, hookVars, diskVars, boundVars, At
<1>1. CASE DownloadFails(i)
  BY <1>1, EndStep DEF DownloadFails, Busy
<1>2. CASE InstallService(i)
  BY <1>2, LocalStep DEF InstallService, Busy, IInv, Shape, LocalShape, Idle
<1>3. CASE Healthy(i)
  <2>1. CASE inst[i].cmd = "install"
    BY <1>3, <2>1, EndStep DEF Healthy, Busy
  <2>2. CASE inst[i].cmd # "install"
    <3> DEFINE l == [inst[i] EXCEPT !.pc = "hooks", !.agents = Agents]
    <3>1. inst' = [inst EXCEPT ![i] = l]
      BY <1>3, <2>2 DEF Healthy
    <3>2. DOMAIN l = DOMAIN Idle /\ l.version = inst[i].version /\ l.old = inst[i].old /\ l.pc = "hooks"
      BY DEF IInv, Shape, LocalShape, Idle
    <3>3. QED BY <1>3, <3>1, <3>2, LocalStep DEF Healthy, Busy
  <2>3. QED BY <2>1, <2>2
<1>4. CASE Unhealthy(i)
  <2>1. CASE inst[i].cmd = "upgrade"
    <3> DEFINE l == [inst[i] EXCEPT !.pc = "write", !.agent = UpgradeMark, !.agents = {},
                                    !.entry = Entry("error", inst[i].version)]
    <3>1. inst' = [inst EXCEPT ![i] = l]
      BY <1>4, <2>1 DEF Unhealthy
    <3>2. DOMAIN l = DOMAIN Idle /\ l.version = inst[i].version /\ l.old = inst[i].old /\ l.pc = "write"
      BY DEF IInv, Shape, LocalShape, Idle
    <3>3. At(i, "health") /\ UNCHANGED <<check, dirs, current, previous, torn, overlap, hook, had>>
      BY <1>4 DEF Unhealthy
    <3> HIDE DEF l
    <3>4. QED BY <3>1, <3>2, <3>3, LocalStep DEF Busy
  <2>2. CASE inst[i].cmd # "upgrade"
    BY <1>4, <2>2, EndStep DEF Unhealthy, Busy
  <2>3. QED BY <2>1, <2>2
<1>5. CASE NextHook(i)
  <2> DEFINE l(a) ==
        [inst[i] EXCEPT !.pc = IF inst[i].cmd = "install" THEN "install" ELSE "uninstall",
                        !.agents = inst[i].agents \ {a}, !.agent = a,
                        !.hookver = IF entries[a].version # 0 THEN entries[a].version ELSE inst[i].version]
  <2>1. PICK a \in Todo(i) : inst' = [inst EXCEPT ![i] = l(a)]
    BY <1>5 DEF NextHook
  <2>2. /\ DOMAIN l(a) = DOMAIN Idle /\ l(a).version = inst[i].version /\ l(a).old = inst[i].old
        /\ l(a).pc \in {"install", "uninstall"}
    BY DEF IInv, Shape, LocalShape, Idle
  <2>3. At(i, "hooks") /\ UNCHANGED <<check, dirs, current, previous, torn, overlap, hook, had>>
    BY <1>5 DEF NextHook
  <2> HIDE DEF l
  <2>4. QED BY <2>1, <2>2, <2>3, LocalStep DEF Busy
<1>6. CASE ReadEntries(i)
  BY <1>6, LocalStep DEF ReadEntries, Busy, IInv, Shape, LocalShape, Idle
<1>7. CASE WriteEntry(i)
  <2>1. CASE inst[i].cmd = "upgrade" /\ inst[i].agent = UpgradeMark
    BY <1>7, <2>1, EndStep DEF WriteEntry, Busy
  <2>2. CASE ~ (inst[i].cmd = "upgrade" /\ inst[i].agent = UpgradeMark)
    <3> DEFINE l == [inst[i] EXCEPT !.pc = "hooks", !.agent = NoAgent, !.seen = <<>>, !.entry = Missing,
                                    !.hookver = 0]
    <3>1. inst' = [inst EXCEPT ![i] = l]
      BY <1>7, <2>2 DEF WriteEntry
    <3>2. DOMAIN l = DOMAIN Idle /\ l.version = inst[i].version /\ l.old = inst[i].old /\ l.pc = "hooks"
      BY DEF IInv, Shape, LocalShape, Idle
    <3>3. QED BY <1>7, <3>1, <3>2, LocalStep DEF WriteEntry, Busy
  <2>3. QED BY <2>1, <2>2
<1>8. CASE HooksDone(i)
  BY <1>8, LocalStep, EndStep DEF HooksDone, KeptVersions, Busy, IInv, Shape, LocalShape, Idle
<1>9. CASE Restart(i)
  <2>1. CASE i \in Cgroup
    BY <1>9, <2>1, DeathStep DEF Restart, Cgroup, Without
  <2>2. CASE i \notin Cgroup
    <3>1. inst' = [j \in Installers |-> IF j \in Cgroup THEN Idle
                                        ELSE IF j \in {i} THEN [inst[j] EXCEPT !.pc = "health"]
                                        ELSE inst[j]]
      BY <1>9, <2>2 DEF Restart, Without
    <3>2. Cgroup \in SUBSET Installers
      BY DEF Cgroup
    <3>3. QED BY <1>9, <3>1, <3>2, DeathStep DEF Restart
  <2>3. QED BY <2>1, <2>2
<1>10. CASE Die(i)
  <2>1. inst' = [j \in Installers |-> IF j \in {i} THEN Idle
                                      ELSE IF j \in {} THEN [inst[j] EXCEPT !.pc = "health"]
                                      ELSE inst[j]]
    BY <1>10 DEF Die, Without
  <2>2. {i} \in SUBSET Installers /\ {} \in SUBSET Installers
    OBVIOUS
  <2>3. QED BY <1>10, <2>1, <2>2, DeathStep DEF Die
<1>11. QED
  BY <1>1, <1>2, <1>3, <1>4, <1>5, <1>6, <1>7, <1>8, <1>9, <1>10

\* A step of an uninstallation: installer i goes on as l, and dead stop with the service.
Removes(i, l, dead) ==
    /\ inst[i].pc \in Removing
    /\ DOMAIN inst' = Installers
    /\ \A j \in Installers : inst'[j] = IF j = i THEN l ELSE IF j \in dead THEN Idle ELSE inst[j]
    /\ \/ l = Idle
       \/ /\ DOMAIN l = DOMAIN Idle /\ l.cmd = inst[i].cmd /\ l.version = inst[i].version
          /\ l.old = inst[i].old /\ l.agent = inst[i].agent /\ l.pc \in Removing
          /\ l.agents \subseteq inst[i].agents \cup Agents

\* The installers stay where they are.
LEMMA OutsideStep ==
  ASSUME IInv, UNCHANGED <<inst, dirs, current, previous, torn, overlap>>, check' \in 0..MaxVersion,
         DOMAIN hook' = Agents, had' \subseteq had, \A a \in had' : hook'[a] = hook[a]
  PROVE  IInv'
<1>1. Shape'
  BY DEF IInv, Shape
<1>2. PointerInv'
  BY DEF IInv, PointerInv, Alone, PointersSafe, Safe, Placing, Busy, At
<1>3. HookInv'
  BY DEF IInv, HookInv, About
<1>4. QED BY <1>1, <1>2, <1>3 DEF IInv

\* The daemon, the agent.
LEMMA OutsideSteps ==
  ASSUME IInv, \/ Check \/ ServiceRestarts \/ ProbeLoad \/ ProbeSave
               \/ \E a \in Agents : AgentOverwrites(a)
  PROVE  IInv'
<1> USE UpgradeAssumption, IdleFacts DEF historyVars, hookVars, diskVars, boundVars
<1>1. CASE Check
  <2>1. check' \in 0..MaxVersion
    BY <1>1 DEF Check, CheckLatestRelease, Versions
  <2>2. QED
    BY <1>1, <2>1, OutsideStep DEF Check, IInv, Shape
<1>2. CASE ServiceRestarts
  <2>1. inst' = [j \in Installers |-> IF j \in Cgroup THEN Idle
                                      ELSE IF j \in {} THEN [inst[j] EXCEPT !.pc = "health"]
                                      ELSE inst[j]]
    BY <1>2 DEF ServiceRestarts, Without
  <2>2. Cgroup \in SUBSET Installers /\ {} \in SUBSET Installers
    BY DEF Cgroup
  <2>3. QED BY <1>2, <2>1, <2>2, DeathStep DEF ServiceRestarts
<1>3. CASE ProbeLoad \/ ProbeSave
  BY <1>3, OutsideStep DEF ProbeLoad, ProbeSave, IInv, Shape
<1>5. ASSUME NEW a \in Agents, AgentOverwrites(a) PROVE IInv'
  BY <1>5, OutsideStep DEF AgentOverwrites, IInv, Shape
<1>6. QED BY <1>1, <1>2, <1>3, <1>5

\* What such a step does to versions, pointers, hooks and entries.
Drops(i, l) ==
    /\ overlap' = overlap /\ check' \in 0..MaxVersion
    /\ dirs' \subseteq dirs /\ dirs \subseteq dirs' \cup torn'
    /\ current' \in {current, 0} /\ previous' \in {previous, 0}
    /\ torn \subseteq torn' \/ (inst[i].pc = "forget previous" /\ current' = current /\ previous' = 0)
    /\ l.pc = "forget previous" => current' = 0

Unhooks(dead) ==
    /\ DOMAIN hook' = Agents /\ had' \subseteq had
    /\ \A a \in had' : hook'[a] = hook[a] /\ \A j \in dead : inst[j].agent # a

Records(i, l) ==
    /\ entries' = entries \/ entries' = [a \in Names |-> Missing]
    /\ daemon' = daemon \/ daemon' = Down
    /\ \A a \in Agents \ drift' :
         entries'[a].status = "installed" => a \notin drift /\ entries'[a] = entries[a] /\ hook'[a] = hook[a]
    /\ \/ l.pc \in {"forget previous", "forget entries"}
       \/ entries' = [a \in Names |-> Missing]
       \/ /\ inst[i].pc \notin {"forget previous", "forget entries"} /\ UNCHANGED <<entries, current>>
          /\ (halted => halted') /\ drift \subseteq drift'

\* The locals an uninstallation goes on with.
LEMMA RemovalGoes ==
  ASSUME IInv, NEW i \in Installers, inst[i].pc \in Removing, NEW pc \in Removing,
         NEW agents, agents \subseteq inst[i].agents \cup Agents, NEW dead,
         inst' = [Without(dead) EXCEPT ![i] = [inst[i] EXCEPT !.pc = pc, !.agents = agents]]
  PROVE  \E l : Removes(i, l, dead) /\ l.pc = pc
<1> DEFINE l == [inst[i] EXCEPT !.pc = pc, !.agents = agents]
<1>1. /\ DOMAIN l = DOMAIN Idle /\ l.cmd = inst[i].cmd /\ l.version = inst[i].version
      /\ l.old = inst[i].old /\ l.agent = inst[i].agent /\ l.pc = pc /\ l.agents = agents
  BY DEF IInv, Shape, LocalShape, Idle
<1>2. /\ DOMAIN inst' = Installers
      /\ \A j \in Installers : inst'[j] = IF j = i THEN l ELSE IF j \in dead THEN Idle ELSE inst[j]
  BY DEF Without
<1> HIDE DEF l
<1>3. QED BY <1>1, <1>2 DEF Removes

LEMMA RemovalGoesAlone ==
  ASSUME IInv, NEW i \in Installers, inst[i].pc \in Removing, NEW pc \in Removing, Goto(i, pc)
  PROVE  \E l : Removes(i, l, {}) /\ l.pc = pc
<1> DEFINE l == [inst[i] EXCEPT !.pc = pc]
<1>1. /\ DOMAIN l = DOMAIN Idle /\ l.cmd = inst[i].cmd /\ l.version = inst[i].version
      /\ l.old = inst[i].old /\ l.agent = inst[i].agent /\ l.pc = pc /\ l.agents = inst[i].agents
  BY DEF IInv, Shape, LocalShape, Idle
<1>2. /\ DOMAIN inst' = Installers
      /\ \A j \in Installers : inst'[j] = IF j = i THEN l ELSE IF j \in {} THEN Idle ELSE inst[j]
  BY DEF Goto, Step, IInv, Shape
<1> HIDE DEF l
<1>3. QED BY <1>1, <1>2 DEF Removes

LEMMA MournFacts ==
  ASSUME IInv, NEW dead, Mourn(dead), UNCHANGED hook
  PROVE  /\ torn \subseteq torn' /\ overlap' = overlap /\ (halted => halted') /\ drift \subseteq drift'
         /\ Unhooks(dead)
  BY DEF Mourn, Unhooks, IInv, Shape

\* The service stops, by systemctl or by the version's own script.
LEMMA StopEffect ==
  ASSUME IInv, NEW i \in Installers, StopService(i) \/ UnloadService(i)
  PROVE  \E l, dead : Removes(i, l, dead) /\ Drops(i, l) /\ Unhooks(dead) /\ Records(i, l)
<1> USE DEF At, hookVars, diskVars, historyVars
<1>1. CASE StopService(i)
  <2>1. PICK l : Removes(i, l, Cgroup) /\ l.pc = "unhook"
    <3>1. PICK agents \in SUBSET Agents :
            inst' = [Without(Cgroup) EXCEPT ![i] = [inst[i] EXCEPT !.pc = "unhook", !.agents = agents]]
      <4>1. CASE inst[i].version \in dirs
        BY <1>1, <4>1 DEF StopService
      <4>2. CASE inst[i].version \notin dirs
        BY <1>1, <4>2 DEF StopService
      <4>3. QED BY <4>1, <4>2
    <3>2. inst[i].pc \in Removing /\ "unhook" \in Removing
      BY <1>1 DEF StopService, Removing
    <3>3. QED BY <3>1, <3>2, RemovalGoes
  <2>2. Mourn(Cgroup) /\ UNCHANGED <<hook, entries, dirs, current, previous, check>> /\ daemon' = Down
        /\ inst[i].pc = "stop"
    BY <1>1 DEF StopService
  <2>3. QED BY <2>1, <2>2, MournFacts DEF Drops, Records, IInv, Shape
<1>2. CASE UnloadService(i) /\ inst[i].version \in dirs /\ service # 0
  <2>1. PICK l : Removes(i, l, Cgroup) /\ l.pc = "versions"
    <3>1. inst' = [Without(Cgroup) EXCEPT ![i] = [inst[i] EXCEPT !.pc = "versions", !.agents = inst[i].agents]]
      <4>1. [inst[i] EXCEPT !.pc = "versions", !.agents = inst[i].agents] = [inst[i] EXCEPT !.pc = "versions"]
        BY DEF IInv, Shape, LocalShape, Idle
      <4>2. inst' = [Without(Cgroup) EXCEPT ![i] = [inst[i] EXCEPT !.pc = "versions"]]
        BY <1>2 DEF UnloadService
      <4>3. QED BY <4>1, <4>2
    <3>2. inst[i].pc \in Removing /\ "versions" \in Removing
      BY <1>2 DEF UnloadService, Removing
    <3>3. QED BY <3>1, <3>2, RemovalGoes
  <2>2. Mourn(Cgroup) /\ UNCHANGED <<hook, entries, dirs, current, previous, check>> /\ daemon' = Down
        /\ inst[i].pc = "unload"
    BY <1>2 DEF UnloadService
  <2>3. QED BY <2>1, <2>2, MournFacts DEF Drops, Records, IInv, Shape
<1>3. CASE UnloadService(i) /\ ~ (inst[i].version \in dirs /\ service # 0)
  <2>1. Goto(i, "versions") /\ inst[i].pc = "unload" /\ inst[i].pc \in Removing /\ "versions" \in Removing
    BY <1>3 DEF UnloadService, Goto, Removing
  <2>2. PICK l : Removes(i, l, {}) /\ l.pc = "versions"
    BY <2>1, RemovalGoesAlone
  <2>3. UNCHANGED <<hook, entries, dirs, current, previous, check, daemon, torn, overlap, halted, drift, had>>
    BY <1>3 DEF UnloadService
  <2>4. QED
    <3>1. Drops(i, l)
      BY <2>1, <2>2, <2>3, ShapeFacts DEF Drops
    <3>2. Unhooks({})
      BY <2>1, <2>2, <2>3, ShapeFacts DEF Unhooks
    <3>3. Records(i, l)
      BY <2>1, <2>2, <2>3 DEF Records
    <3>4. QED BY <2>1, <2>2, <2>3, <3>1, <3>2, <3>3
<1>4. QED BY <1>1, <1>2, <1>3

\* Hooks and versions go, one after the other.
LEMMA SweepEffect ==
  ASSUME IInv, NEW i \in Installers, Unhook(i) \/ Unhooked(i) \/ RemoveVersion(i) \/ VersionsRemoved(i)
  PROVE  \E l, dead : Removes(i, l, dead) /\ Drops(i, l) /\ Unhooks(dead) /\ Records(i, l)
<1> USE DEF At, hookVars, diskVars, historyVars
<1>1. CASE Unhook(i)
  <2>1. PICK a \in inst[i].agents :
          /\ Step(i, [inst[i] EXCEPT !.agents = inst[i].agents \ {a}])
          /\ \/ /\ Scripts(inst[i].version, a) /\ hook' = [hook EXCEPT ![a] = 0]
                /\ had' = had \ {a} /\ drift' = drift \cup {a}
             \/ UNCHANGED <<hook, had, drift>>
    BY <1>1 DEF Unhook
  <2>2. inst[i].pc = "unhook" /\ UNCHANGED <<entries, dirs, current, previous, check, daemon, torn, overlap, halted>>
    BY <1>1 DEF Unhook
  <2> DEFINE l == [inst[i] EXCEPT !.agents = inst[i].agents \ {a}]
  <2>3. /\ DOMAIN l = DOMAIN Idle /\ l.cmd = inst[i].cmd /\ l.version = inst[i].version
        /\ l.old = inst[i].old /\ l.agent = inst[i].agent /\ l.pc = "unhook" /\ l.agents = inst[i].agents \ {a}
    BY <2>2 DEF IInv, Shape, LocalShape, Idle
  <2>4. /\ DOMAIN inst' = Installers
        /\ \A j \in Installers : inst'[j] = IF j = i THEN l ELSE IF j \in {} THEN Idle ELSE inst[j]
    BY <2>1 DEF Step, IInv, Shape
  <2> HIDE DEF l
  <2>5. Removes(i, l, {})
    BY <2>2, <2>3, <2>4 DEF Removes, Removing
  <2>6. Unhooks({})
    BY <2>1 DEF Unhooks, IInv, Shape
  <2>7. Records(i, l)
    <3>1. \A b \in Agents \ drift' : hook'[b] = hook[b] /\ b \notin drift
      BY <2>1 DEF IInv, Shape
    <3>2. drift \subseteq drift'
      BY <2>1
    <3>3. QED BY <2>2, <3>1, <3>2 DEF Records
  <2>8. Drops(i, l)
    BY <2>2, <2>3 DEF Drops, IInv, Shape
  <2>9. QED BY <2>5, <2>6, <2>7, <2>8
<1>2. CASE RemoveVersion(i)
  <2>1. inst[i].pc = "versions" /\ UNCHANGED <<inst, entries, current, previous, check, daemon, hook, had, overlap, halted, drift>>
    BY <1>2 DEF RemoveVersion
  <2>2. dirs' \subseteq dirs /\ dirs \subseteq dirs' \cup torn' /\ torn \subseteq torn'
    BY <1>2 DEF RemoveVersion
  <2>3. PICK l : l = inst[i]
    OBVIOUS
  <2>4. /\ DOMAIN inst' = Installers
        /\ \A j \in Installers : inst'[j] = IF j = i THEN l ELSE IF j \in {} THEN Idle ELSE inst[j]
    BY <2>1, <2>3 DEF IInv, Shape
  <2>5. Removes(i, l, {})
    BY <2>1, <2>3, <2>4 DEF Removes, Removing, IInv, Shape, LocalShape
  <2>6. QED
    <3>1. Drops(i, l)
      BY <2>1, <2>2, <2>3, <2>5, ShapeFacts DEF Drops
    <3>2. Unhooks({})
      BY <2>1, <2>2, <2>3, <2>5, ShapeFacts DEF Unhooks
    <3>3. Records(i, l)
      BY <2>1, <2>2, <2>3, <2>5 DEF Records
    <3>4. QED BY <2>1, <2>2, <2>3, <2>5, <3>1, <3>2, <3>3
<1>3. CASE Unhooked(i) \/ VersionsRemoved(i)
  <2>1. PICK pc \in {"unload", "forget current"} : Goto(i, pc)
    BY <1>3 DEF Unhooked, VersionsRemoved
  <2>2. /\ inst[i].pc \in {"unhook", "versions"}
        /\ UNCHANGED <<hook, entries, dirs, current, previous, check, daemon, torn, overlap, halted, drift, had>>
    BY <1>3 DEF Unhooked, VersionsRemoved
  <2>3. PICK l : Removes(i, l, {}) /\ l.pc = pc
    <3>1. inst[i].pc \in Removing /\ pc \in Removing
      BY <2>1, <2>2 DEF Removing
    <3>2. QED BY <2>1, <3>1, RemovalGoesAlone
  <2>4. QED
    <3>1. Drops(i, l)
      BY <2>1, <2>2, <2>3, ShapeFacts DEF Drops
    <3>2. Unhooks({})
      BY <2>1, <2>2, <2>3, ShapeFacts DEF Unhooks
    <3>3. Records(i, l)
      BY <2>1, <2>2, <2>3 DEF Records
    <3>4. QED BY <2>1, <2>2, <2>3, <3>1, <3>2, <3>3
<1>4. QED BY <1>1, <1>2, <1>3

\* Pointers, entries and the service file go.
LEMMA ForgetEffect ==
  ASSUME IInv, NEW i \in Installers,
         ForgetCurrent(i) \/ ForgetPrevious(i) \/ ForgetEntries(i) \/ UnlinkService(i)
  PROVE  \E l, dead : Removes(i, l, dead) /\ Drops(i, l) /\ Unhooks(dead) /\ Records(i, l)
<1> USE UpgradeAssumption DEF At, hookVars, diskVars, historyVars
<1>1. CASE ForgetCurrent(i)
  <2>1. /\ Goto(i, "forget previous") /\ inst[i].pc = "forget current" /\ current' = 0
        /\ UNCHANGED <<hook, entries, dirs, previous, check, daemon, torn, overlap, halted, drift, had>>
    BY <1>1 DEF ForgetCurrent
  <2>2. PICK l : Removes(i, l, {}) /\ l.pc = "forget previous"
    BY <2>1, RemovalGoesAlone DEF Removing
  <2>3. QED
    <3>1. Drops(i, l)
      BY <2>1, <2>2, ShapeFacts DEF Drops
    <3>2. Unhooks({})
      BY <2>1, <2>2, ShapeFacts DEF Unhooks
    <3>3. Records(i, l)
      BY <2>1, <2>2 DEF Records
    <3>4. QED BY <2>1, <2>2, <3>1, <3>2, <3>3
<1>2. CASE ForgetPrevious(i)
  <2>1. /\ Goto(i, "forget entries") /\ inst[i].pc = "forget previous" /\ previous' = 0
        /\ UNCHANGED <<hook, entries, dirs, current, check, daemon, overlap, halted, drift, had>>
    BY <1>2 DEF ForgetPrevious
  <2>2. PICK l : Removes(i, l, {}) /\ l.pc = "forget entries"
    BY <2>1, RemovalGoesAlone DEF Removing
  <2>3. QED
    <3>1. Drops(i, l)
      BY <2>1, <2>2, ShapeFacts DEF Drops
    <3>2. Unhooks({})
      BY <2>1, <2>2, ShapeFacts DEF Unhooks
    <3>3. Records(i, l)
      BY <2>1, <2>2 DEF Records
    <3>4. QED BY <2>1, <2>2, <3>1, <3>2, <3>3
<1>3. CASE ForgetEntries(i)
  <2>1. /\ Goto(i, "unlink service") /\ inst[i].pc = "forget entries"
        /\ entries' = [a \in Names |-> Missing]
        /\ UNCHANGED <<hook, dirs, current, previous, check, daemon, torn, overlap, had>>
    BY <1>3 DEF ForgetEntries
  <2>2. PICK l : Removes(i, l, {}) /\ l.pc = "unlink service"
    BY <2>1, RemovalGoesAlone DEF Removing
  <2>3. \A a \in Agents : entries'[a].status # "installed"
    BY <2>1 DEF Missing, Entry, Names
  <2>4. QED
    <3>1. Drops(i, l)
      BY <2>1, <2>2, <2>3, ShapeFacts DEF Drops
    <3>2. Unhooks({})
      BY <2>1, <2>2, <2>3, ShapeFacts DEF Unhooks
    <3>3. Records(i, l)
      BY <2>1, <2>2, <2>3 DEF Records
    <3>4. QED BY <2>1, <2>2, <2>3, <3>1, <3>2, <3>3
<1>4. CASE UnlinkService(i)
  <2>1. /\ inst' = [inst EXCEPT ![i] = Idle] /\ inst[i].pc = "unlink service" /\ check' \in {check, 0}
        /\ UNCHANGED <<hook, entries, dirs, current, previous, daemon, torn, overlap, halted, drift, had>>
    BY <1>4 DEF UnlinkService, Exit, Step
  <2>2. /\ DOMAIN inst' = Installers
        /\ \A j \in Installers : inst'[j] = IF j = i THEN Idle ELSE IF j \in {} THEN Idle ELSE inst[j]
    BY <2>1 DEF IInv, Shape
  <2>3. Removes(i, Idle, {})
    BY <2>1, <2>2 DEF Removes, Removing
  <2>4. QED
    <3>1. Drops(i, Idle)
      <4>a. 0 \in 0..MaxVersion
        BY UpgradeAssumption
      <4>b. check \in 0..MaxVersion
        BY ShapeFacts
      <4>1. check' \in 0..MaxVersion
        BY <2>1, <4>a, <4>b
      <4>2. QED BY <2>1, <4>1, IdleFacts DEF Drops
    <3>2. Unhooks({})
      BY <2>1, <2>3, IdleFacts, ShapeFacts DEF Unhooks
    <3>3. Records(i, Idle)
      BY <2>1, <2>3, IdleFacts DEF Records
    <3>4. QED BY <2>1, <2>3, IdleFacts, <3>1, <3>2, <3>3
<1>5. QED BY <1>1, <1>2, <1>3, <1>4

LEMMA UninstallEffect ==
  ASSUME IInv, NEW i \in Installers, Uninstaller(i)
  PROVE  \E l, dead : Removes(i, l, dead) /\ Drops(i, l) /\ Unhooks(dead) /\ Records(i, l)
<1>1. CASE StopService(i) \/ UnloadService(i)
  BY <1>1, StopEffect
<1>2. CASE Unhook(i) \/ Unhooked(i) \/ RemoveVersion(i) \/ VersionsRemoved(i)
  BY <1>2, SweepEffect
<1>3. CASE ForgetCurrent(i) \/ ForgetPrevious(i) \/ ForgetEntries(i) \/ UnlinkService(i)
  BY <1>3, ForgetEffect
<1>4. QED BY <1>1, <1>2, <1>3 DEF Uninstaller

LEMMA UninstallSteps ==
  ASSUME IInv, NEW i \in Installers, Uninstaller(i) PROVE IInv'
<1>1. PICK l, dead : Removes(i, l, dead) /\ Drops(i, l) /\ Unhooks(dead)
  BY UninstallEffect
<1> USE <1>1, IdleFacts, UpgradeAssumption
<1>2. /\ DOMAIN l = DOMAIN Idle /\ l.old = 0 /\ l.version \in 0..MaxVersion
      /\ l.pc \in Removing \cup {"idle"} /\ Busy(i)
  <2>1. LocalShape(inst[i]) /\ inst[i].pc \in Removing
    BY ShapeFacts DEF Removes
  <2>2. Busy(i)
    BY <2>1 DEF Busy, Removing
  <2>3. QED BY <2>1, <2>2 DEF Removes, LocalShape
<1>3. \A j \in Installers : inst'[j] = IF j = i THEN l ELSE IF j \in dead THEN Idle ELSE inst[j]
  BY DEF Removes
<1>4. Shape'
  <2>1. DOMAIN inst' = Installers /\ DOMAIN hook' = Agents /\ had' \subseteq Agents
    BY DEF Removes, Unhooks, IInv, Shape
  <2>2. /\ dirs' \subseteq Versions
        /\ check' \in 0..MaxVersion /\ current' \in 0..MaxVersion /\ previous' \in 0..MaxVersion
    <3>1. dirs \subseteq Versions /\ current \in 0..MaxVersion /\ previous \in 0..MaxVersion
      BY ShapeFacts
    <3>2. 0 \in 0..MaxVersion
      BY UpgradeAssumption
    <3>3. dirs' \subseteq dirs /\ check' \in 0..MaxVersion
      BY DEF Drops
    <3>4. current' \in {current, 0} /\ previous' \in {previous, 0}
      BY DEF Drops
    <3>5. current' \in 0..MaxVersion /\ previous' \in 0..MaxVersion
      BY <3>1, <3>2, <3>4
    <3>6. QED BY <3>1, <3>3, <3>5
  <2>3. ASSUME NEW j \in Installers
        PROVE  LocalShape(inst'[j])
    <3>1. CASE j = i
      <4>1. l.pc \notin {"unpack", "place", "current", "previous"}
        BY <1>2 DEF Removing
      <4>2. LocalShape(l)
        BY <1>2, <4>1, UpgradeAssumption DEF LocalShape
      <4>3. QED BY <1>3, <3>1, <4>2
    <3>2. CASE j # i /\ j \in dead
      BY <1>3, <3>2, IdleShape
    <3>3. CASE j # i /\ j \notin dead
      BY <1>3, <3>3 DEF IInv, Shape
    <3>4. QED BY <3>1, <3>2, <3>3
  <2>4. QED BY <2>1, <2>2, <2>3 DEF Shape
<1>5. PointerInv'
  <2> SUFFICES ASSUME ~ overlap PROVE Alone' /\ PointersSafe'
    BY DEF PointerInv, Drops
  <2>1. Alone /\ PointersSafe
    BY DEF IInv, PointerInv
  <2>2. \A j \in Installers \ {i} : inst[j].pc = "idle"
    BY <1>2, <2>1 DEF Alone, Busy
  <2>3. \A j \in Installers \ {i} : inst'[j].pc = "idle"
    BY <1>3, <2>2
  <2>4. Alone'
    BY <2>3 DEF Alone, Busy
  <2>5. current \in dirs \cup torn \cup {0} /\ previous \in dirs \cup torn \cup {0}
    <3>1. Placing = {}
      <4>1. inst[i].pc # "place"
        BY DEF Removes, Removing
      <4>2. QED BY <2>2, <4>1 DEF Placing, At
    <3>2. QED BY <2>1, <3>1 DEF PointersSafe, Safe
  <2>6. current' \in dirs' \cup torn' \cup {0} /\ previous' \in dirs' \cup torn' \cup {0}
    <3>1. inst[i].pc = "forget previous" => current = 0
      BY <2>1 DEF PointersSafe
    <3>2. QED BY <2>5, <3>1 DEF Drops
  <2>7. \A j \in Installers : inst'[j].old = 0
    BY <1>4, <1>2, <1>3, <2>3 DEF Shape, LocalShape
  <2>8. \A j \in Installers : inst'[j].pc \notin {"previous", "current"}
    BY <1>2, <1>3, <2>3 DEF Removing
  <2>9. \A j \in Installers : inst'[j].pc = "forget previous" => current' = 0
    BY <1>3, <2>3 DEF Drops
  <2>10. QED BY <2>4, <2>6, <2>7, <2>8, <2>9 DEF PointersSafe, Safe
<1>6. HookInv'
  <2> SUFFICES ASSUME NEW a \in had', hook'[a] = 0
               PROVE  \E j \in Installers : inst'[j].agent = a /\ inst'[j].pc \in {"install", "restore"}
    BY DEF HookInv, About
  <2>1. a \in had /\ hook[a] = 0 /\ \A j \in dead : inst[j].agent # a
    BY DEF Unhooks
  <2>2. PICK j \in Installers : inst[j].agent = a /\ inst[j].pc \in {"install", "restore"}
    BY <2>1 DEF IInv, HookInv, About
  <2>3. j # i
    BY <2>2 DEF Removes, Removing
  <2>4. QED BY <1>3, <2>1, <2>2, <2>3
<1>7. QED BY <1>4, <1>5, <1>6 DEF IInv

-----------------------------------------------------------------------------

LEMMA InitInv == Init => IInv
<1> SUFFICES ASSUME Init PROVE IInv
  OBVIOUS
<1> USE UpgradeAssumption, IdleFacts DEF Init
<1>1. Shape
  BY IdleShape DEF Shape, Versions
<1>2. PointerInv
  BY DEF PointerInv, Alone, PointersSafe, Safe, Busy
<1>3. HookInv
  BY DEF HookInv
<1>4. QED BY <1>1, <1>2, <1>3 DEF IInv

LEMMA NextInv == IInv /\ [Next]_vars => IInv'
<1> SUFFICES ASSUME IInv, [Next]_vars PROVE IInv'
  OBVIOUS
<1>1. CASE UNCHANGED vars
  BY <1>1, OutsideStep DEF vars, historyVars, hookVars, diskVars, IInv, Shape
<1>2. CASE Next
  BY <1>2, Starts, VersionSteps, HookSteps, OtherSteps, OutsideSteps, UninstallSteps DEF Next, Installer
<1>3. QED BY <1>1, <1>2

LEMMA Inductive == Spec => []IInv
  BY InitInv, NextInv, PTL DEF Spec

\* For every number of agents, releases, commands and deaths: an installer
\* alone, wherever it dies, leaves no pointer to a version that is not there,
\* but for the directory it was replacing, or those an uninstallation had
\* removed when it died before it removed the pointers.
THEOREM PointersAreSafe == Spec => []PointersNameDirs
<1>1. IInv => PointersNameDirs
  BY DEF IInv, PointerInv, PointersSafe, Safe, Placing, PointersNameDirs
<1>2. QED BY <1>1, Inductive, PTL

\* However many installers run side by side and whatever fails in them, a
\* hook that worked is there again when the last of them has left it, unless
\* one of the failures that HookNotLost names took it.
THEOREM HooksAreKept == Spec => []HookNotLost
<1>1. IInv => HookNotLost
  BY DEF IInv, HookInv, About, HookNotLost, NobodyOn
<1>2. QED BY <1>1, Inductive, PTL

-----------------------------------------------------------------------------
(* The installers' locals.                                                 *)

Pointing == {"install", "upgrade", "rollback"}
OnHook == {"uninstall", "install", "restore", "write", "replace"}
Phases == {"idle", "unpack", "place", "current", "previous", "service", "restart", "health", "hooks"}

\* What an installer is about to do, and on which agent, fits its command.
LocalOK(l) ==
    /\ DOMAIN l = DOMAIN Idle
    /\ l.pc \in Phases \cup OnHook \cup Removing
    /\ l.cmd \in Pointing \cup {"", "retry", "retry one", "uninstall"}
    /\ l.cmd = "uninstall" <=> l.pc \in Removing
    /\ l.pc \notin OnHook \cup Removing \cup {"idle", "hooks"} => l.cmd \in Pointing
    /\ IF l.pc = "idle" THEN l = Idle ELSE l.cmd # ""
    /\ l.pc = "service" => l.cmd = "install"
    /\ l.pc = "previous" => l.cmd # "install"
    /\ l.pc \in {"uninstall", "restore"} => l.cmd # "install"
    /\ l.agent \in IF l.pc \in OnHook THEN Names ELSE {NoAgent}
    /\ l.agents \subseteq Names
    /\ l.cmd \in Pointing \cup {"uninstall"} => l.agents \subseteq Agents
    /\ l.cmd \in Pointing /\ l.agent = UpgradeMark =>
         l.cmd = "upgrade" /\ l.pc \in {"write", "replace"} /\ l.entry.status = "error"
    /\ l.pc = "replace" => DOMAIN l.seen = Names

LocalsInv ==
    /\ DOMAIN inst = Installers /\ \A i \in Installers : LocalOK(inst[i])
    /\ DOMAIN entries = Names
    /\ DOMAIN daemon = {"pc", "seen"} /\ (daemon.pc = "probed" => DOMAIN daemon.seen = Names)

LEMMA LocalsStep ==
  ASSUME LocalsInv, NEW i \in Installers, NEW l, inst' = [inst EXCEPT ![i] = l], LocalOK(l),
         UNCHANGED <<entries, daemon>>
  PROVE  LocalsInv'
<1>1. \A j \in Installers : LocalOK(inst'[j])
  BY DEF LocalsInv
<1>2. QED BY <1>1 DEF LocalsInv, LocalOK

\* Installer i goes on as l, with the same command.
Becomes(i, l, pc, agents, agent, entry) ==
    /\ inst' = [inst EXCEPT ![i] = l]
    /\ DOMAIN l = DOMAIN Idle /\ l.cmd = inst[i].cmd /\ l.version = inst[i].version
    /\ l.pc = pc /\ l.agents = agents /\ l.agent = agent /\ l.entry = entry

LEMMA GoEffect ==
  ASSUME LocalsInv, NEW i \in Installers, NEW pc, Goto(i, pc)
  PROVE  \E l : Becomes(i, l, pc, inst[i].agents, inst[i].agent, inst[i].entry) /\ l.seen = inst[i].seen
<1> DEFINE l == [inst[i] EXCEPT !.pc = pc]
<1>1. /\ DOMAIN l = DOMAIN Idle /\ l.cmd = inst[i].cmd /\ l.version = inst[i].version /\ l.pc = pc
      /\ l.agents = inst[i].agents /\ l.agent = inst[i].agent /\ l.entry = inst[i].entry /\ l.seen = inst[i].seen
  BY DEF LocalsInv, LocalOK, Idle
<1>2. inst' = [inst EXCEPT ![i] = l]
  BY DEF Goto, Step
<1> HIDE DEF l
<1>3. QED BY <1>1, <1>2 DEF Becomes

LEMMA HooksBegin ==
  ASSUME LocalsInv, NEW i \in Installers, Step(i, [inst[i] EXCEPT !.pc = "hooks", !.agents = Agents])
  PROVE  \E l : Becomes(i, l, "hooks", Agents, inst[i].agent, inst[i].entry)
<1> DEFINE l == [inst[i] EXCEPT !.pc = "hooks", !.agents = Agents]
<1>1. /\ DOMAIN l = DOMAIN Idle /\ l.cmd = inst[i].cmd /\ l.version = inst[i].version /\ l.pc = "hooks"
      /\ l.agents = Agents /\ l.agent = inst[i].agent /\ l.entry = inst[i].entry
  BY DEF LocalsInv, LocalOK, Idle
<1>2. inst' = [inst EXCEPT ![i] = l]
  BY DEF Step
<1> HIDE DEF l
<1>3. QED BY <1>1, <1>2 DEF Becomes

LEMMA MarkEffect ==
  ASSUME LocalsInv, NEW i \in Installers,
         Step(i, [inst[i] EXCEPT !.pc = "write", !.agent = UpgradeMark, !.agents = {},
                                 !.entry = Entry("error", inst[i].version)])
  PROVE  \E l : Becomes(i, l, "write", {}, UpgradeMark, Entry("error", inst[i].version))
<1> DEFINE l == [inst[i] EXCEPT !.pc = "write", !.agent = UpgradeMark, !.agents = {},
                                !.entry = Entry("error", inst[i].version)]
<1>1. /\ DOMAIN l = DOMAIN Idle /\ l.cmd = inst[i].cmd /\ l.version = inst[i].version /\ l.pc = "write"
      /\ l.agents = {} /\ l.agent = UpgradeMark /\ l.entry = Entry("error", inst[i].version)
  BY DEF LocalsInv, LocalOK, Idle
<1>2. inst' = [inst EXCEPT ![i] = l]
  BY DEF Step
<1> HIDE DEF l
<1>3. QED BY <1>1, <1>2 DEF Becomes

LEMMA NextHookEffect ==
  ASSUME LocalsInv, NEW i \in Installers, NextHook(i)
  PROVE  \E a \in Todo(i) : \E l :
           Becomes(i, l, IF inst[i].cmd = "install" THEN "install" ELSE "uninstall",
                   inst[i].agents \ {a}, a, inst[i].entry)
<1> DEFINE pc == IF inst[i].cmd = "install" THEN "install" ELSE "uninstall"
           hv(a) == IF entries[a].version # 0 THEN entries[a].version ELSE inst[i].version
           l(a) == [inst[i] EXCEPT !.pc = pc, !.agents = inst[i].agents \ {a}, !.agent = a, !.hookver = hv(a)]
<1>1. PICK a \in Todo(i) : inst' = [inst EXCEPT ![i] = l(a)]
  BY DEF NextHook, Step
<1> HIDE DEF pc, hv
<1>2. /\ DOMAIN l(a) = DOMAIN Idle /\ l(a).cmd = inst[i].cmd /\ l(a).version = inst[i].version /\ l(a).pc = pc
      /\ l(a).agents = inst[i].agents \ {a} /\ l(a).agent = a /\ l(a).entry = inst[i].entry
  BY DEF LocalsInv, LocalOK, Idle
<1> HIDE DEF l
<1>3. Becomes(i, l(a), pc, inst[i].agents \ {a}, a, inst[i].entry)
  BY <1>1, <1>2 DEF Becomes
<1>4. QED BY <1>3 DEF pc

LEMMA ScriptEffect ==
  ASSUME LocalsInv, NEW i \in Installers, NEW pc, NEW entry,
         Step(i, [inst[i] EXCEPT !.pc = pc, !.entry = entry])
  PROVE  \E l : Becomes(i, l, pc, inst[i].agents, inst[i].agent, entry)
<1> DEFINE l == [inst[i] EXCEPT !.pc = pc, !.entry = entry]
<1>1. /\ DOMAIN l = DOMAIN Idle /\ l.cmd = inst[i].cmd /\ l.version = inst[i].version /\ l.pc = pc
      /\ l.agents = inst[i].agents /\ l.agent = inst[i].agent /\ l.entry = entry
  BY DEF LocalsInv, LocalOK, Idle
<1>2. inst' = [inst EXCEPT ![i] = l]
  BY DEF Step
<1> HIDE DEF l
<1>3. QED BY <1>1, <1>2 DEF Becomes

LEMMA ReadEffect ==
  ASSUME LocalsInv, NEW i \in Installers, ReadEntries(i)
  PROVE  \E l : Becomes(i, l, "replace", inst[i].agents, inst[i].agent, inst[i].entry) /\ l.seen = entries
<1> DEFINE l == [inst[i] EXCEPT !.pc = "replace", !.seen = entries]
<1>1. /\ DOMAIN l = DOMAIN Idle /\ l.cmd = inst[i].cmd /\ l.version = inst[i].version /\ l.pc = "replace"
      /\ l.agents = inst[i].agents /\ l.agent = inst[i].agent /\ l.entry = inst[i].entry /\ l.seen = entries
  BY DEF LocalsInv, LocalOK, Idle
<1>2. inst' = [inst EXCEPT ![i] = l]
  BY DEF ReadEntries, Step
<1> HIDE DEF l
<1>3. QED BY <1>1, <1>2 DEF Becomes

LEMMA WriteEffect ==
  ASSUME LocalsInv, NEW i \in Installers, WriteEntry(i)
  PROVE  \/ inst[i].cmd = "upgrade" /\ inst[i].agent = UpgradeMark /\ inst' = [inst EXCEPT ![i] = Idle]
         \/ /\ ~ (inst[i].cmd = "upgrade" /\ inst[i].agent = UpgradeMark)
            /\ \E l : Becomes(i, l, "hooks", inst[i].agents, NoAgent, Missing)
<1>1. CASE inst[i].cmd = "upgrade" /\ inst[i].agent = UpgradeMark
  BY <1>1 DEF WriteEntry, Exit, Step
<1>2. CASE ~ (inst[i].cmd = "upgrade" /\ inst[i].agent = UpgradeMark)
  <2> DEFINE l == [inst[i] EXCEPT !.pc = "hooks", !.agent = NoAgent, !.seen = <<>>, !.entry = Missing,
                                  !.hookver = 0]
  <2>1. /\ DOMAIN l = DOMAIN Idle /\ l.cmd = inst[i].cmd /\ l.version = inst[i].version /\ l.pc = "hooks"
        /\ l.agents = inst[i].agents /\ l.agent = NoAgent /\ l.entry = Missing
    BY DEF LocalsInv, LocalOK, Idle
  <2>2. inst' = [inst EXCEPT ![i] = l]
    BY <1>2 DEF WriteEntry, Step
  <2> HIDE DEF l
  <2>3. QED BY <1>2, <2>1, <2>2 DEF Becomes
<1>3. QED BY <1>1, <1>2

\* The locals of a command that starts.
Starting(l) ==
    /\ DOMAIN l = DOMAIN Idle /\ l.agent = NoAgent
    /\ \/ l.cmd = "rollback" /\ l.pc = "current" /\ l.agents = {}
       \/ l.cmd \in {"install", "upgrade"} /\ l.pc = "unpack" /\ l.agents = {}
       \/ l.cmd = "uninstall" /\ l.pc = "stop" /\ l.agents = {}
       \/ /\ l.cmd \in {"retry", "retry one"} /\ l.pc = "hooks" /\ l.agents \subseteq Names
          /\ l.version = current

LEMMA StartEffect ==
  ASSUME LocalsInv, NEW i \in Installers, Command(i)
  PROVE  /\ \E l : inst' = [inst EXCEPT ![i] = l] /\ Starting(l)
         /\ overlap' = (overlap \/ \E j \in Installers : ~ At(j, "idle"))
         /\ At(i, "idle") /\ UNCHANGED <<current, entries, daemon, hook, halted, drift>>
<1> USE DEF Start, Step, hookVars, diskVars
<1>1. CASE CmdInstall(i)
  <2>1. PICK v \in Versions : Start(i, [cmd |-> "install", pc |-> "unpack", version |-> v])
    BY <1>1 DEF CmdInstall
  <2> DEFINE m == Over([cmd |-> "install", pc |-> "unpack", version |-> v])
  <2>2a. Starting(m)
    BY DEF Over, Idle, Starting
  <2>2b. inst' = [inst EXCEPT ![i] = m]
    BY <2>1
  <2> HIDE DEF m
  <2>2. QED BY <2>1, <2>2a, <2>2b
<1>2. ASSUME NEW v, NEW web, UpgradeTo(i, v, web)
      PROVE  Start(i, [cmd |-> "upgrade", web |-> web, pc |-> "unpack", version |-> v, old |-> current])
  BY <1>2 DEF UpgradeTo
<1>3. CASE CmdUpgrade(i) \/ PostUpgrade(i)
  <2>1. PICK v, web : Start(i, [cmd |-> "upgrade", web |-> web, pc |-> "unpack", version |-> v, old |-> current])
    BY <1>2, <1>3 DEF CmdUpgrade, PostUpgrade
  <2> DEFINE m == Over([cmd |-> "upgrade", web |-> web, pc |-> "unpack", version |-> v, old |-> current])
  <2>2a. Starting(m)
    BY DEF Over, Idle, Starting
  <2>2b. inst' = [inst EXCEPT ![i] = m]
    BY <2>1
  <2> HIDE DEF m
  <2>2. QED BY <2>1, <2>2a, <2>2b
<1>4. CASE CmdRollback(i)
  <2>1. Start(i, [cmd |-> "rollback", pc |-> "current", version |-> previous, old |-> current])
    BY <1>4 DEF CmdRollback
  <2> DEFINE m == Over([cmd |-> "rollback", pc |-> "current", version |-> previous, old |-> current])
  <2>2a. Starting(m)
    BY DEF Over, Idle, Starting
  <2>2b. inst' = [inst EXCEPT ![i] = m]
    BY <2>1
  <2> HIDE DEF m
  <2>2. QED BY <2>1, <2>2a, <2>2b
<1>5. CASE CmdRetryHooks(i) \/ PostRetryHooks(i)
  <2>1. PICK web : RetryFailedHooks(i, web)
    BY <1>5 DEF CmdRetryHooks, PostRetryHooks
  <2>2. PICK cmd \in {"retry", "retry one"} : \E agents \in SUBSET Names :
          Start(i, [cmd |-> cmd, web |-> web, pc |-> "hooks", version |-> current, agents |-> agents])
    <3>1. FailedHooks \in SUBSET Names /\ \A a \in FailedHooks : {a} \in SUBSET Names
      BY DEF FailedHooks
    <3>2. QED BY <2>1, <3>1 DEF RetryFailedHooks
  <2>3. PICK agents \in SUBSET Names :
          Start(i, [cmd |-> cmd, web |-> web, pc |-> "hooks", version |-> current, agents |-> agents])
    BY <2>2
  <2> DEFINE m == Over([cmd |-> cmd, web |-> web, pc |-> "hooks", version |-> current, agents |-> agents])
  <2>4a. Starting(m)
    BY DEF Over, Idle, Starting
  <2>4b. inst' = [inst EXCEPT ![i] = m]
    BY <2>3
  <2> HIDE DEF m
  <2>4. QED BY <2>3, <2>4a, <2>4b
<1>6. CASE CmdUninstall(i)
  <2>1. Start(i, [cmd |-> "uninstall", pc |-> "stop", version |-> current])
    BY <1>6 DEF CmdUninstall
  <2> DEFINE m == Over([cmd |-> "uninstall", pc |-> "stop", version |-> current])
  <2>2a. Starting(m)
    BY DEF Over, Idle, Starting
  <2>2b. inst' = [inst EXCEPT ![i] = m]
    BY <2>1
  <2> HIDE DEF m
  <2>2. QED BY <2>1, <2>2a, <2>2b
<1>7. QED BY <1>1, <1>3, <1>4, <1>5, <1>6 DEF Command

-----------------------------------------------------------------------------
(* The locals fit, step by step.                                           *)

LEMMA IdleOK == LocalOK(Idle)
  BY DEF LocalOK, Idle, Pointing, OnHook, Phases, Removing

LEMMA CommandLocals ==
  ASSUME LocalsInv, NEW i \in Installers, Command(i) PROVE LocalsInv'
<1>1. PICK l : inst' = [inst EXCEPT ![i] = l] /\ Starting(l)
  BY StartEffect
<1>2. LocalOK(l)
  BY <1>1, UpgradeAssumption DEF Starting, LocalOK, Pointing, OnHook, Phases, Removing, Names
<1>3. UNCHANGED <<entries, daemon>>
  BY StartEffect
<1>4. QED BY <1>1, <1>2, <1>3, LocalsStep

\* Installers stop, go on from the restart, or all stay; the daemon starts, or is down.
LEMMA DeathLocals ==
  ASSUME LocalsInv, NEW dead \in SUBSET Installers, NEW live \in SUBSET Installers,
         \A j \in live : At(j, "restart"),
         inst' = [j \in Installers |-> IF j \in dead THEN Idle
                                       ELSE IF j \in live THEN [inst[j] EXCEPT !.pc = "health"]
                                       ELSE inst[j]],
         UNCHANGED entries, DOMAIN daemon' = {"pc", "seen"}, daemon'.pc = "probed" => daemon' = daemon
  PROVE  LocalsInv'
<1>1. ASSUME NEW j \in live PROVE LocalOK([inst[j] EXCEPT !.pc = "health"])
  <2> DEFINE l == [inst[j] EXCEPT !.pc = "health"]
  <2>1. /\ DOMAIN l = DOMAIN Idle /\ l.cmd = inst[j].cmd /\ l.pc = "health"
        /\ l.agents = inst[j].agents /\ l.agent = inst[j].agent
    BY DEF LocalsInv, LocalOK, Idle
  <2>2. inst[j].pc = "restart" /\ LocalOK(inst[j])
    BY DEF LocalsInv, At
  <2> HIDE DEF l
  <2>3. LocalOK(l)
    BY <2>1, <2>2, UpgradeAssumption DEF LocalOK, Pointing, OnHook, Phases, Removing, Names
  <2>4. QED BY <2>3 DEF l
<1>2. \A j \in Installers : LocalOK(inst'[j])
  BY <1>1, IdleOK DEF LocalsInv
<1>3. QED BY <1>2 DEF LocalsInv

LEMMA DownDomain == DOMAIN Down = {"pc", "seen"} /\ Down.pc = "down"
                    /\ \A v : DOMAIN Started(v) = {"pc", "seen"} /\ Started(v).pc # "probed"
<1>1. DOMAIN Down = {"pc", "seen"} /\ Down.pc = "down"
  BY DEF Down
<1>2. DOMAIN [Down EXCEPT !.pc = "starting"] = {"pc", "seen"} /\ [Down EXCEPT !.pc = "starting"].pc = "starting"
  BY DEF Down
<1>3. QED BY <1>1, <1>2 DEF Started

LEMMA ExitLocals ==
  ASSUME LocalsInv, NEW i \in Installers, inst' = [inst EXCEPT ![i] = Idle],
         DOMAIN entries' = Names, UNCHANGED daemon
  PROVE  LocalsInv'
<1>1. \A j \in Installers : LocalOK(inst'[j])
  BY IdleOK DEF LocalsInv
<1>2. QED BY <1>1 DEF LocalsInv

LEMMA GoLocals ==
  ASSUME LocalsInv, NEW i \in Installers, NEW l, NEW pc, NEW agents, NEW agent, NEW entry,
         Becomes(i, l, pc, agents, agent, entry),
         DOMAIN entries' = Names, DOMAIN daemon' = {"pc", "seen"}, daemon'.pc = "probed" => daemon' = daemon,
         pc \in Phases \cup OnHook, pc # "idle", inst[i].pc \in (Phases \cup OnHook) \ {"idle"},
         pc = "service" => inst[i].cmd = "install", pc = "previous" => inst[i].cmd # "install",
         pc \notin OnHook \cup {"hooks"} => inst[i].cmd \in Pointing,
         pc \in {"uninstall", "restore"} => inst[i].cmd # "install",
         agent \in IF pc \in OnHook THEN Names ELSE {NoAgent},
         agents \subseteq Names, inst[i].cmd \in Pointing => agents \subseteq Agents,
         inst[i].cmd \in Pointing /\ agent = UpgradeMark =>
           inst[i].cmd = "upgrade" /\ pc \in {"write", "replace"} /\ entry.status = "error",
         pc = "replace" => DOMAIN l.seen = Names
  PROVE  LocalsInv'
<1>1. LocalOK(inst[i])
  BY DEF LocalsInv
<1>2. LocalOK(l)
  <2>1. inst[i].pc \notin Removing /\ pc \notin Removing
    BY DEF Removing, Phases, OnHook
  <2>2. QED BY <1>1, <2>1 DEF LocalOK, Becomes
<1>3. \A j \in Installers : LocalOK(inst'[j])
  BY <1>2 DEF LocalsInv, Becomes
<1>4. QED BY <1>3 DEF LocalsInv, Becomes

\* What LocalOK says of an installer, for the steps that read it.
LEMMA LocalFacts ==
  ASSUME LocalsInv, NEW i \in Installers
  PROVE  LocalOK(inst[i]) /\ DOMAIN entries = Names /\ DOMAIN daemon = {"pc", "seen"}
  BY DEF LocalsInv

LEMMA VersionLocals ==
  ASSUME LocalsInv, NEW i \in Installers,
         Unpack(i) \/ Place(i) \/ WritePrevious(i) \/ WriteCurrent(i)
  PROVE  LocalsInv'
<1> USE LocalFacts, UpgradeAssumption DEF hookVars
<1>1. PICK pc : /\ Goto(i, pc) /\ inst[i].pc \in {"unpack", "place", "previous", "current"}
                /\ pc \in {"place", "previous", "current", "restart", "service"}
                /\ (pc = "service" => inst[i].cmd = "install") /\ (pc = "previous" => inst[i].cmd # "install")
  <2>1. CASE Unpack(i)
    BY <2>1 DEF Unpack, At
  <2>2. CASE Place(i)
    BY <2>2 DEF Place, At
  <2>3. CASE WritePrevious(i)
    BY <2>3 DEF WritePrevious, At
  <2>4. CASE WriteCurrent(i)
    <3>1. inst[i].cmd \in {"install", "upgrade", "rollback"} /\ inst[i].pc = "current"
      BY <2>4 DEF WriteCurrent, At, LocalOK, Pointing, OnHook, Removing
    <3>2. Goto(i, AfterCurrent[inst[i].cmd])
      BY <2>4 DEF WriteCurrent
    <3>3. QED BY <3>1, <3>2 DEF AfterCurrent
  <2>5. QED BY <2>1, <2>2, <2>3, <2>4
<1>2. PICK l : Becomes(i, l, pc, inst[i].agents, inst[i].agent, inst[i].entry)
  BY <1>1, GoEffect
<1>3. UNCHANGED <<entries, daemon>>
  BY DEF Unpack, Place, WritePrevious, WriteCurrent
<1>4. inst[i].agent = NoAgent /\ inst[i].agents \subseteq Agents /\ inst[i].cmd \in Pointing
  BY <1>1 DEF LocalOK, OnHook, Removing
<1>5. QED BY <1>1, <1>2, <1>3, <1>4, GoLocals DEF LocalsInv, OnHook, Phases, Names

LEMMA ServiceLocals ==
  ASSUME LocalsInv, NEW i \in Installers,
         InstallService(i) \/ Healthy(i) \/ Unhealthy(i) \/ DownloadFails(i)
  PROVE  LocalsInv'
<1> USE LocalFacts, UpgradeAssumption DEF hookVars, At, Exit
<1>1. CASE InstallService(i)
  <2>1. PICK l : Becomes(i, l, "hooks", Agents, inst[i].agent, inst[i].entry)
    BY <1>1, HooksBegin DEF InstallService
  <2>2. /\ inst[i].pc = "service" /\ entries' = entries
        /\ DOMAIN daemon' = {"pc", "seen"} /\ (daemon'.pc = "probed" => daemon' = daemon)
    BY <1>1, DownDomain DEF InstallService
  <2>3. QED BY <2>1, <2>2, GoLocals DEF LocalOK, Pointing, OnHook, Phases, Names
<1>2. CASE Healthy(i)
  <2>1. inst[i].pc = "health" /\ UNCHANGED <<entries, daemon>>
    BY <1>2 DEF Healthy
  <2>2. CASE inst[i].cmd = "install"
    BY <1>2, <2>1, <2>2, ExitLocals DEF Healthy, Step
  <2>3. CASE inst[i].cmd # "install"
    <3>1. PICK l : Becomes(i, l, "hooks", Agents, inst[i].agent, inst[i].entry)
      BY <1>2, <2>3, HooksBegin DEF Healthy
    <3>2. QED BY <2>1, <3>1, GoLocals DEF LocalsInv, LocalOK, Pointing, OnHook, Phases, Names
  <2>4. QED BY <2>2, <2>3
<1>3. CASE Unhealthy(i)
  <2>1. inst[i].pc = "health" /\ UNCHANGED <<entries, daemon>>
    BY <1>3 DEF Unhealthy
  <2>2. CASE inst[i].cmd # "upgrade"
    BY <1>3, <2>1, <2>2, ExitLocals DEF Unhealthy, Step
  <2>3. CASE inst[i].cmd = "upgrade"
    <3>1. PICK l : Becomes(i, l, "write", {}, UpgradeMark, Entry("error", inst[i].version))
      BY <1>3, <2>3, MarkEffect DEF Unhealthy
    <3>2. Entry("error", inst[i].version).status = "error"
      BY DEF Entry
    <3>3. UpgradeMark \in Names
      BY DEF Names
    <3>4. DOMAIN entries' = Names /\ DOMAIN daemon' = {"pc", "seen"} /\ daemon' = daemon
      BY <2>1
    <3> HIDE DEF At, Exit
    <3>5. QED BY <2>1, <2>3, <3>1, <3>2, <3>3, <3>4, GoLocals DEF Pointing, OnHook, Phases
  <2>4. QED BY <2>2, <2>3
<1>4. CASE DownloadFails(i)
  BY <1>4, ExitLocals DEF DownloadFails, Step
<1>5. QED BY <1>1, <1>2, <1>3, <1>4

LEMMA HookLocals ==
  ASSUME LocalsInv, NEW i \in Installers,
         UninstallOld(i) \/ InstallNew(i) \/ InstallFails(i) \/ RestoreOld(i) \/ NextHook(i)
         \/ ReadEntries(i) \/ WriteEntry(i) \/ HooksDone(i)
  PROVE  LocalsInv'
<1> USE LocalFacts, UpgradeAssumption DEF hookVars, At
<1>1. CASE NextHook(i)
  <2>1. PICK a \in Todo(i) : \E l :
          Becomes(i, l, IF inst[i].cmd = "install" THEN "install" ELSE "uninstall",
                  inst[i].agents \ {a}, a, inst[i].entry)
    BY <1>1, NextHookEffect
  <2>2. PICK l : Becomes(i, l, IF inst[i].cmd = "install" THEN "install" ELSE "uninstall",
                         inst[i].agents \ {a}, a, inst[i].entry)
    BY <2>1
  <2>3. a \in inst[i].agents /\ a \in Names /\ (inst[i].cmd \in Pointing => a \in Agents)
    BY DEF Todo, LocalOK
  <2>4. inst[i].pc = "hooks" /\ UNCHANGED <<entries, daemon>>
    BY <1>1 DEF NextHook
  <2> DEFINE pc == IF inst[i].cmd = "install" THEN "install" ELSE "uninstall"
  <2>5. /\ pc \in {"install", "uninstall"} /\ (pc = "uninstall" => inst[i].cmd # "install")
        /\ Becomes(i, l, pc, inst[i].agents \ {a}, a, inst[i].entry)
    BY <2>2
  <2>6. /\ inst[i].agents \ {a} \subseteq Names
        /\ inst[i].cmd \in Pointing => inst[i].agents \ {a} \subseteq Agents /\ a # UpgradeMark
    BY <2>3 DEF LocalOK
  <2> HIDE DEF pc
  <2>7. QED BY <2>3, <2>4, <2>5, <2>6, GoLocals DEF LocalsInv, OnHook, Phases
<1>2. CASE UninstallOld(i)
  <2>1. PICK l : Becomes(i, l, "install", inst[i].agents, inst[i].agent, inst[i].entry)
    BY <1>2, GoEffect DEF UninstallOld
  <2>2. inst[i].pc = "uninstall" /\ UNCHANGED <<entries, daemon>>
    BY <1>2 DEF UninstallOld
  <2>3. /\ inst[i].agent \in Names /\ inst[i].agents \subseteq Names
        /\ inst[i].cmd \in Pointing => inst[i].agents \subseteq Agents /\ inst[i].agent # UpgradeMark
    BY <2>2 DEF LocalOK, OnHook
  <2>4. QED BY <2>1, <2>2, <2>3, GoLocals DEF LocalsInv, OnHook, Phases
<1>3. ASSUME NEW pc \in {"write", "restore"}, NEW entry, NEW l, inst[i].pc \in {"install", "restore"},
             Becomes(i, l, pc, inst[i].agents, inst[i].agent, entry), UNCHANGED <<entries, daemon>>,
             pc = "restore" => inst[i].cmd # "install"
      PROVE  LocalsInv'
  <2>2. inst[i].cmd \in Pointing => inst[i].agent # UpgradeMark
    BY <1>3 DEF LocalOK
  <2>3. inst[i].agent \in Names /\ inst[i].agents \subseteq Names
        /\ (inst[i].cmd \in Pointing => inst[i].agents \subseteq Agents)
    BY <1>3 DEF LocalOK, OnHook
  <2>4. QED BY <1>3, <2>2, <2>3, GoLocals DEF LocalsInv, OnHook, Phases
<1>4. CASE InstallNew(i)
  <2> DEFINE e == Entry("installed", IF inst[i].cmd = "install" THEN current ELSE inst[i].version)
  <2>1. /\ Step(i, [inst[i] EXCEPT !.pc = "write", !.entry = e])
        /\ inst[i].pc = "install" /\ UNCHANGED <<entries, daemon>>
    BY <1>4 DEF InstallNew
  <2> HIDE DEF e
  <2>2. PICK l : Becomes(i, l, "write", inst[i].agents, inst[i].agent, e)
    BY <2>1, ScriptEffect
  <2>3. QED BY <1>3, <2>1, <2>2
<1>5. CASE InstallFails(i)
  <2> DEFINE warns == inst[i].cmd = "install"
             pc == IF warns THEN "write" ELSE "restore"
             e == IF warns THEN Entry("installed", current) ELSE Missing
  <2>1. /\ Step(i, [inst[i] EXCEPT !.pc = pc, !.entry = e])
        /\ inst[i].pc = "install" /\ UNCHANGED <<entries, daemon>>
    BY <1>5 DEF InstallFails
  <2>2. pc \in {"write", "restore"} /\ (pc = "restore" => inst[i].cmd # "install")
    OBVIOUS
  <2> HIDE DEF e, pc, warns
  <2>3. PICK l : Becomes(i, l, pc, inst[i].agents, inst[i].agent, e)
    BY <2>1, ScriptEffect
  <2>4. QED BY <1>3, <2>1, <2>2, <2>3
<1>6. CASE RestoreOld(i)
  <2> DEFINE e == Entry("error", inst[i].hookver)
  <2>1. /\ Step(i, [inst[i] EXCEPT !.pc = "write", !.entry = e])
        /\ inst[i].pc = "restore" /\ UNCHANGED <<entries, daemon>>
    BY <1>6 DEF RestoreOld
  <2> HIDE DEF e
  <2>2. PICK l : Becomes(i, l, "write", inst[i].agents, inst[i].agent, e)
    BY <2>1, ScriptEffect
  <2>3. QED BY <1>3, <2>1, <2>2
<1>7. CASE ReadEntries(i)
  <2>1. PICK l : Becomes(i, l, "replace", inst[i].agents, inst[i].agent, inst[i].entry) /\ l.seen = entries
    BY <1>7, ReadEffect
  <2>2. inst[i].pc = "write" /\ UNCHANGED <<entries, daemon>>
    BY <1>7 DEF ReadEntries
  <2>3. /\ inst[i].agent \in Names /\ inst[i].agents \subseteq Names
        /\ inst[i].cmd \in Pointing => inst[i].agents \subseteq Agents
        /\ inst[i].cmd \in Pointing /\ inst[i].agent = UpgradeMark =>
             inst[i].cmd = "upgrade" /\ inst[i].entry.status = "error"
    BY <2>2 DEF LocalOK, OnHook
  <2>4. QED BY <2>1, <2>2, <2>3, GoLocals DEF LocalsInv, OnHook, Phases
<1>8. CASE WriteEntry(i)
  <2>1. inst[i].pc = "replace" /\ UNCHANGED daemon /\ DOMAIN entries' = Names
    BY <1>8 DEF WriteEntry, LocalOK
  <2>2. CASE inst' = [inst EXCEPT ![i] = Idle]
    BY <2>1, <2>2, ExitLocals
  <2>3. CASE \E l : Becomes(i, l, "hooks", inst[i].agents, NoAgent, Missing)
    <3>1. PICK l : Becomes(i, l, "hooks", inst[i].agents, NoAgent, Missing)
      BY <2>3
    <3>2. /\ inst[i].agents \subseteq Names
          /\ inst[i].cmd \in Pointing => inst[i].agents \subseteq Agents
      BY <2>1 DEF LocalOK, OnHook
    <3>3. QED BY <2>1, <3>1, <3>2, GoLocals DEF LocalsInv, OnHook, Phases
  <2>4. QED BY <1>8, <2>2, <2>3, WriteEffect
<1>9. CASE HooksDone(i)
  <2>1. inst[i].pc = "hooks" /\ UNCHANGED <<entries, daemon>>
    BY <1>9 DEF HooksDone
  <2>2. CASE inst[i].cmd # "install"
    BY <1>9, <2>1, <2>2, ExitLocals DEF HooksDone, Exit, Step
  <2>3. CASE inst[i].cmd = "install"
    <3>1. PICK l : Becomes(i, l, "restart", inst[i].agents, inst[i].agent, inst[i].entry)
      BY <1>9, <2>3, GoEffect DEF HooksDone
    <3>2. inst[i].agent = NoAgent /\ inst[i].agents \subseteq Agents
      BY <2>1, <2>3 DEF LocalOK, OnHook, Pointing
    <3>3. QED BY <2>1, <2>3, <3>1, <3>2, GoLocals DEF LocalsInv, Pointing, OnHook, Phases, Names
  <2>4. QED BY <2>2, <2>3
<1>10. QED BY <1>1, <1>2, <1>4, <1>5, <1>6, <1>7, <1>8, <1>9

LEMMA UninstallLocals ==
  ASSUME IInv, LocalsInv, NEW i \in Installers, Uninstaller(i) PROVE LocalsInv'
<1>1. PICK l, dead : Removes(i, l, dead) /\ Records(i, l)
  BY UninstallEffect
<1>2. LocalOK(l)
  <2>1. CASE l = Idle
    BY <2>1, IdleOK
  <2>2. CASE l # Idle
    <3>1. /\ DOMAIN l = DOMAIN Idle /\ l.cmd = inst[i].cmd /\ l.agent = inst[i].agent /\ l.pc \in Removing
          /\ l.agents \subseteq inst[i].agents \cup Agents /\ inst[i].pc \in Removing
      BY <1>1, <2>2 DEF Removes
    <3>2. LocalOK(inst[i])
      BY DEF LocalsInv
    <3>3. l.cmd = "uninstall" /\ inst[i].agents \subseteq Agents
      BY <3>1, <3>2 DEF LocalOK
    <3>4. l.agent = NoAgent
      BY <3>1, <3>2 DEF LocalOK, Removing, OnHook
    <3>5. QED BY <3>1, <3>3, <3>4 DEF LocalOK, Removing, OnHook, Phases, Pointing, Names
  <2>3. QED BY <2>1, <2>2
<1>3. DOMAIN inst' = Installers /\ \A j \in Installers : LocalOK(inst'[j])
  BY <1>1, <1>2, IdleOK DEF Removes, LocalsInv
<1>4. DOMAIN entries' = Names
  BY <1>1 DEF Records, LocalsInv
<1>5. DOMAIN daemon' = {"pc", "seen"} /\ (daemon'.pc = "probed" => DOMAIN daemon'.seen = Names)
  BY <1>1, DownDomain DEF Records, LocalsInv
<1>6. QED BY <1>3, <1>4, <1>5 DEF LocalsInv

LEMMA OutsideLocals ==
  ASSUME LocalsInv,
         \/ Check \/ ServiceRestarts \/ ProbeLoad \/ ProbeSave
         \/ \E a \in Agents : AgentOverwrites(a)
         \/ \E i \in Installers : Restart(i) \/ Die(i)
         \/ UNCHANGED vars
  PROVE  LocalsInv'
<1> USE DEF hookVars
<1>1. CASE Check \/ ProbeLoad \/ ProbeSave \/ (\E a \in Agents : AgentOverwrites(a)) \/ UNCHANGED vars
  BY <1>1 DEF Check, ProbeLoad, ProbeSave, AgentOverwrites, LocalsInv, vars
<1>3. CASE ServiceRestarts
  <2>1. inst' = [j \in Installers |-> IF j \in Cgroup THEN Idle
                                      ELSE IF j \in {} THEN [inst[j] EXCEPT !.pc = "health"]
                                      ELSE inst[j]]
    BY <1>3 DEF ServiceRestarts, Without
  <2>2. Cgroup \in SUBSET Installers /\ {} \in SUBSET Installers
    BY DEF Cgroup
  <2>3. UNCHANGED entries /\ DOMAIN daemon' = {"pc", "seen"} /\ daemon'.pc # "probed"
    BY <1>3, DownDomain DEF ServiceRestarts
  <2>4. QED BY <2>1, <2>2, <2>3, DeathLocals
<1>4. ASSUME NEW i \in Installers, Restart(i) PROVE LocalsInv'
  <2>1. UNCHANGED entries /\ DOMAIN daemon' = {"pc", "seen"} /\ daemon'.pc # "probed" /\ At(i, "restart")
    BY <1>4, DownDomain DEF Restart
  <2>2. PICK live \in {{}, {i}} :
          inst' = [j \in Installers |-> IF j \in Cgroup THEN Idle
                                        ELSE IF j \in live THEN [inst[j] EXCEPT !.pc = "health"]
                                        ELSE inst[j]]
    <3>1. CASE i \in Cgroup
      BY <1>4, <3>1 DEF Restart, Without
    <3>2. CASE i \notin Cgroup
      <4>1. inst' = [j \in Installers |-> IF j \in Cgroup THEN Idle
                                          ELSE IF j \in {i} THEN [inst[j] EXCEPT !.pc = "health"]
                                          ELSE inst[j]]
        BY <1>4, <3>2 DEF Restart, Without
      <4>2. QED BY <4>1
    <3>3. QED BY <3>1, <3>2
  <2>3. Cgroup \in SUBSET Installers /\ live \in SUBSET Installers /\ \A j \in live : At(j, "restart")
    BY <2>1 DEF Cgroup
  <2>4. QED BY <2>1, <2>2, <2>3, DeathLocals
<1>5. ASSUME NEW i \in Installers, Die(i) PROVE LocalsInv'
  <2>1. inst' = [j \in Installers |-> IF j \in {i} THEN Idle
                                      ELSE IF j \in {} THEN [inst[j] EXCEPT !.pc = "health"]
                                      ELSE inst[j]]
    BY <1>5 DEF Die, Without
  <2>2. {i} \in SUBSET Installers /\ {} \in SUBSET Installers
    OBVIOUS
  <2>3. UNCHANGED entries /\ DOMAIN daemon' = {"pc", "seen"} /\ daemon' = daemon
    BY <1>5 DEF Die, LocalsInv
  <2>4. QED BY <2>1, <2>2, <2>3, DeathLocals
<1>6. QED BY <1>1, <1>3, <1>4, <1>5

LEMMA NextLocals == IInv /\ LocalsInv /\ [Next]_vars => LocalsInv'
  BY CommandLocals, VersionLocals, ServiceLocals, HookLocals, UninstallLocals, OutsideLocals DEF Next, Installer

LEMMA InitLocals == Init => LocalsInv
<1> SUFFICES ASSUME Init PROVE LocalsInv
  OBVIOUS
<1>1. DOMAIN [Down EXCEPT !.pc = "up"] = {"pc", "seen"} /\ [Down EXCEPT !.pc = "up"].pc = "up"
  BY DEF Down
<1>2. QED BY <1>1, IdleOK, DownDomain DEF Init, LocalsInv

-----------------------------------------------------------------------------
(* What the entries say while one installer runs at a time.                *)

\* The current pointer names the installer's version.
Moved(l) ==
    /\ l.pc \in {"previous", "service", "restart", "health", "hooks",
                  "uninstall", "install", "restore", "write", "replace"}
    /\ ~ (l.cmd = "upgrade" /\ l.pc = "previous")

\* The hooks may still be those of another version; an install does them before
\* it restarts the daemon, an uninstallation drops the pointers before the entries.
Leading(l) ==
    \/ Moved(l) /\ l.cmd \in Pointing /\ ~ (l.cmd = "install" /\ l.pc \in {"restart", "health"})
    \/ l.pc \in {"forget previous", "forget entries"}

Writing(l) == l.pc \in {"write", "replace"} /\ l.entry.status = "installed"

\* It is among the hooks of the version it has made the current one.
Sweeping(l) == l.cmd \in Pointing /\ l.pc \in OnHook \cup {"hooks"} /\ l.agent # UpgradeMark

TruthOf(l) ==
    /\ Moved(l) => l.version = current
    /\ Writing(l) => l.entry.version = current
    /\ \A a \in Agents \ drift :
         /\ a = l.agent /\ Writing(l) => hook[a] = current
         /\ a # l.agent /\ entries[a].status = "installed" => hook[a] = entries[a].version

FollowOf(l) ==
    /\ Sweeping(l) => MismatchAgents \subseteq drift \cup l.agents \cup {l.agent}
    /\ l.cmd = "upgrade" /\ l.agent = UpgradeMark => halted
    /\ halted \/ Leading(l) \/ MismatchAgents \subseteq drift \cup {l.agent}

\* The locals of the one that runs, or of nobody.
Acting == IF \E i \in Installers : Busy(i) THEN {inst[i] : i \in {j \in Installers : Busy(j)}} ELSE {Idle}

EntryInv == overlap \/ \A l \in Acting : TruthOf(l) /\ FollowOf(l)

LEMMA OneAtATime ==
  ASSUME IInv, EntryInv, ~ overlap, NEW i \in Installers, Busy(i)
  PROVE  TruthOf(inst[i]) /\ FollowOf(inst[i]) /\ \A j \in Installers \ {i} : ~ Busy(j)
<1>1. inst[i] \in Acting
  BY DEF Acting
<1>2. Alone
  BY DEF IInv, PointerInv
<1>3. QED BY <1>1, <1>2 DEF EntryInv, Alone

\* Installer i becomes l while the others rest.
LEMMA OneStep ==
  ASSUME NEW i \in Installers, NEW l, inst' = [inst EXCEPT ![i] = l], DOMAIN inst = Installers,
         \A j \in Installers \ {i} : ~ Busy(j), l.pc = "idle" => l = Idle,
         TruthOf(l)', FollowOf(l)'
  PROVE  EntryInv'
<1>1. \A j \in Installers : inst'[j] = IF j = i THEN l ELSE inst[j]
  OBVIOUS
<1>2. \A j \in Installers \ {i} : inst'[j].pc = "idle"
  BY <1>1 DEF Busy
<1>3. Acting' = {l}
  <2>1. CASE l.pc = "idle"
    BY <1>1, <1>2, <2>1 DEF Acting, Busy
  <2>2. CASE l.pc # "idle"
    BY <1>1, <1>2, <2>2 DEF Acting, Busy
  <2>3. QED BY <2>1, <2>2
<1>4. QED BY <1>3 DEF EntryInv

LEMMA MismatchFacts ==
  /\ MismatchAgents \subseteq Agents
  /\ UNCHANGED <<entries, current>> => MismatchAgents' = MismatchAgents
  BY DEF MismatchAgents

\* Steps that neither touch a hook nor an entry.
LEMMA QuietStep ==
  ASSUME IInv, LocalsInv, EntryInv, ~ overlap, NEW i \in Installers, Busy(i),
         NEW l, NEW pc, NEW agents, NEW agent, NEW entry, Becomes(i, l, pc, agents, agent, entry),
         pc # "idle", UNCHANGED <<entries, hook, current, drift, halted>>,
         agent = inst[i].agent \/ inst[i].agent = NoAgent,
         Moved(l) => Moved(inst[i]), Leading(inst[i]) => Leading(l),
         Writing(l) => Writing(inst[i]) /\ entry = inst[i].entry /\ agent = inst[i].agent,
         Sweeping(l) => \/ Agents \subseteq agents
                        \/ Sweeping(inst[i]) /\ inst[i].agents \subseteq agents \cup {agent},
         l.cmd = "upgrade" /\ agent = UpgradeMark => agent = inst[i].agent
  PROVE  EntryInv'
<1>1. TruthOf(inst[i]) /\ FollowOf(inst[i]) /\ \A j \in Installers \ {i} : ~ Busy(j)
  BY OneAtATime
<1>2. TruthOf(l)'
  <2>1. Moved(l) => l.version = current
    BY <1>1 DEF TruthOf, Becomes
  <2>2. Writing(l) => l.entry.version = current
    BY <1>1 DEF TruthOf, Becomes
  <2>3. ASSUME NEW a \in Agents \ drift
        PROVE  /\ a = l.agent /\ Writing(l) => hook[a] = current
               /\ a # l.agent /\ entries[a].status = "installed" => hook[a] = entries[a].version
    BY <1>1, <2>3, UpgradeAssumption DEF TruthOf, Becomes
  <2>4. QED BY <2>1, <2>2, <2>3 DEF TruthOf, Moved, Writing
<1>3. FollowOf(l)'
  <2>1. MismatchAgents' = MismatchAgents /\ MismatchAgents \subseteq Agents
    BY MismatchFacts
  <2>2. Sweeping(l) => MismatchAgents \subseteq drift \cup l.agents \cup {l.agent}
    BY <1>1, <2>1, UpgradeAssumption DEF FollowOf, Becomes
  <2>3. l.cmd = "upgrade" /\ l.agent = UpgradeMark => halted
    BY <1>1 DEF FollowOf, Becomes
  <2>4. halted \/ Leading(l) \/ MismatchAgents \subseteq drift \cup {l.agent}
    BY <1>1, <2>1, UpgradeAssumption DEF FollowOf, Becomes
  <2>5. QED BY <2>1, <2>2, <2>3, <2>4 DEF FollowOf, Sweeping, Leading, Moved
<1>4. QED BY <1>1, <1>2, <1>3, OneStep DEF LocalsInv, Becomes

LEMMA QuietSteps ==
  ASSUME IInv, LocalsInv, EntryInv, ~ overlap, NEW i \in Installers,
         \/ Unpack(i) \/ Place(i) \/ WritePrevious(i) \/ InstallService(i)
         \/ Healthy(i) /\ inst[i].cmd # "install"
         \/ NextHook(i) \/ ReadEntries(i)
  PROVE  EntryInv'
<1> USE LocalFacts, UpgradeAssumption DEF At, historyVars, hookVars, diskVars
<1>1. CASE Unpack(i) \/ Place(i) \/ WritePrevious(i)
  <2>1. PICK pc : /\ Goto(i, pc)
                  /\ \/ inst[i].pc = "unpack" /\ pc = "place"
                     \/ inst[i].pc = "place" /\ inst[i].cmd = "upgrade" /\ pc = "previous"
                     \/ inst[i].pc = "place" /\ pc = "current"
                     \/ inst[i].pc = "previous" /\ inst[i].cmd = "upgrade" /\ pc = "current"
                     \/ inst[i].pc = "previous" /\ inst[i].cmd # "upgrade" /\ pc = "restart"
    BY <1>1 DEF Unpack, Place, WritePrevious
  <2>2. PICK l : Becomes(i, l, pc, inst[i].agents, inst[i].agent, inst[i].entry)
    BY <2>1, GoEffect
  <2>3. inst[i].cmd # "install" \/ inst[i].pc # "previous"
    BY DEF LocalOK
  <2>4. UNCHANGED <<entries, hook, current, drift, halted>>
    BY <1>1 DEF Unpack, Place, WritePrevious
  <2>5. l.pc = pc /\ l.cmd = inst[i].cmd
    BY <2>2 DEF Becomes
  <2>6. ~ Writing(l) /\ ~ Sweeping(l) /\ Busy(i) /\ (Moved(l) => Moved(inst[i])) /\ (Leading(inst[i]) => Leading(l))
    BY <2>1, <2>3, <2>5 DEF Writing, Sweeping, Moved, Leading, Busy, OnHook
  <2>7. QED BY <2>1, <2>2, <2>4, <2>6, QuietStep
<1>2. CASE InstallService(i) \/ (Healthy(i) /\ inst[i].cmd # "install")
  <2>1. PICK l : Becomes(i, l, "hooks", Agents, inst[i].agent, inst[i].entry)
    BY <1>2, HooksBegin DEF InstallService, Healthy
  <2>2. inst[i].pc \in {"service", "health"} /\ UNCHANGED <<entries, hook, current, drift, halted>>
    BY <1>2 DEF InstallService, Healthy
  <2>3. l.pc = "hooks" /\ l.cmd = inst[i].cmd /\ inst[i].cmd \in Pointing
    BY <2>1, <2>2 DEF Becomes, LocalOK, OnHook, Removing
  <2>4. ~ Writing(l) /\ Busy(i) /\ Moved(inst[i]) /\ (Leading(inst[i]) => Leading(l))
    BY <2>2, <2>3 DEF Writing, Moved, Leading, Busy
  <2>5. QED BY <2>1, <2>2, <2>4, QuietStep
<1>3. CASE NextHook(i)
  <2> DEFINE pc == IF inst[i].cmd = "install" THEN "install" ELSE "uninstall"
  <2>1. PICK a \in Todo(i) : \E l : Becomes(i, l, pc, inst[i].agents \ {a}, a, inst[i].entry)
    BY <1>3, NextHookEffect
  <2>2. PICK l : Becomes(i, l, pc, inst[i].agents \ {a}, a, inst[i].entry)
    BY <2>1
  <2>3. inst[i].pc = "hooks" /\ UNCHANGED <<entries, hook, current, drift, halted>>
    BY <1>3 DEF NextHook
  <2>4. pc \in {"install", "uninstall"}
    OBVIOUS
  <2>5. l.pc = pc /\ l.cmd = inst[i].cmd /\ l.agent = a
    BY <2>2 DEF Becomes
  <2>6. inst[i].agent = NoAgent /\ (inst[i].cmd \in Pointing => a \in Agents)
    BY <2>3 DEF LocalOK, OnHook, Todo
  <2> HIDE DEF pc
  <2>7. /\ ~ Writing(l) /\ Busy(i) /\ Moved(inst[i]) /\ (Leading(inst[i]) => Leading(l))
        /\ (Sweeping(l) => Sweeping(inst[i]))
    BY <2>3, <2>4, <2>5, <2>6 DEF Writing, Moved, Leading, Busy, Sweeping
  <2>8. inst[i].agents \subseteq (inst[i].agents \ {a}) \cup {a} /\ (l.cmd = "upgrade" => a # UpgradeMark)
    BY <2>5, <2>6 DEF Pointing
  <2>9. QED BY <2>2, <2>3, <2>4, <2>6, <2>7, <2>8, QuietStep
<1>4. CASE ReadEntries(i)
  <2>1. PICK l : Becomes(i, l, "replace", inst[i].agents, inst[i].agent, inst[i].entry)
    BY <1>4, ReadEffect
  <2>2. inst[i].pc = "write" /\ UNCHANGED <<entries, hook, current, drift, halted>>
    BY <1>4 DEF ReadEntries
  <2>3. l.pc = "replace" /\ l.cmd = inst[i].cmd /\ l.agent = inst[i].agent /\ l.entry = inst[i].entry
    BY <2>1 DEF Becomes
  <2>4. /\ Busy(i) /\ Moved(inst[i]) /\ (Leading(inst[i]) => Leading(l))
        /\ (Sweeping(l) => Sweeping(inst[i])) /\ (Writing(l) => Writing(inst[i]))
    BY <2>2, <2>3 DEF Writing, Moved, Leading, Busy, Sweeping, OnHook
  <2>5. inst[i].agents \subseteq inst[i].agents \cup {inst[i].agent}
    OBVIOUS
  <2>6. QED BY <2>1, <2>2, <2>4, <2>5, QuietStep
<1>5. QED BY <1>1, <1>2, <1>3, <1>4

\* Installer i, or nobody, is what runs after the step.
LEMMA OneActs ==
  ASSUME NEW i \in Installers, NEW l, inst'[i] = l, \A j \in Installers \ {i} : inst'[j].pc = "idle",
         l.pc = "idle" => l = Idle, TruthOf(l)', FollowOf(l)'
  PROVE  EntryInv'
<1>1. Acting' = {l}
  <2>1. CASE l.pc = "idle"
    BY <2>1 DEF Acting, Busy
  <2>2. CASE l.pc # "idle"
    BY <2>2 DEF Acting, Busy
  <2>3. QED BY <2>1, <2>2
<1>2. QED BY <1>1 DEF EntryInv

LEMMA IdlePhase ==
    /\ Idle.pc = "idle" /\ Idle.agent = NoAgent /\ Idle.cmd = "" /\ Idle.entry = Missing
    /\ ~ Moved(Idle) /\ ~ Writing(Idle) /\ ~ Sweeping(Idle) /\ ~ Leading(Idle)
<1>1. Idle.pc = "idle" /\ Idle.agent = NoAgent /\ Idle.cmd = "" /\ Idle.entry = Missing
  BY DEF Idle
<1>2. QED BY <1>1 DEF Moved, Writing, Sweeping, Leading, OnHook, Pointing

LEMMA Rest ==
  ASSUME EntryInv, ~ overlap, \A i \in Installers : ~ Busy(i)
  PROVE  TruthOf(Idle) /\ FollowOf(Idle)
  BY DEF EntryInv, Acting

\* All rest after the step.
LEMMA NobodyActs ==
  ASSUME \A j \in Installers : inst'[j].pc = "idle", TruthOf(Idle)', FollowOf(Idle)'
  PROVE  EntryInv'
<1>1. Acting' = {Idle}
  BY DEF Acting, Busy
<1>2. QED BY <1>1 DEF EntryInv

\* What the state must say once all rest.
LEMMA RestSays ==
  ASSUME \A a \in Agents \ drift : entries[a].status = "installed" => hook[a] = entries[a].version,
         halted \/ MismatchAgents \subseteq drift
  PROVE  TruthOf(Idle) /\ FollowOf(Idle)
<1>1. TruthOf(Idle)
  BY IdlePhase DEF TruthOf
<1>2. FollowOf(Idle)
  BY IdlePhase DEF FollowOf
<1>3. QED BY <1>1, <1>2

LEMMA StartEntries ==
  ASSUME IInv, LocalsInv, EntryInv, NEW i \in Installers, Command(i)
  PROVE  EntryInv'
<1>1. PICK l : inst' = [inst EXCEPT ![i] = l] /\ Starting(l)
  BY StartEffect
<1>2. /\ overlap' = (overlap \/ \E j \in Installers : ~ At(j, "idle"))
      /\ UNCHANGED <<current, entries, hook, halted, drift>>
  BY StartEffect
<1>3. SUFFICES ASSUME ~ overlap' PROVE EntryInv'
  BY DEF EntryInv
<1>4. TruthOf(Idle) /\ FollowOf(Idle) /\ \A j \in Installers : inst[j].pc = "idle"
  BY <1>2, <1>3, Rest DEF Busy, At
<1>5. MismatchAgents' = MismatchAgents /\ MismatchAgents \subseteq Agents
  BY <1>2, MismatchFacts
<1>6. /\ l.pc # "idle" /\ l.agent = NoAgent /\ ~ Writing(l) /\ ~ Sweeping(l)
      /\ (Moved(l) => l.version = current)
  BY <1>1 DEF Starting, Writing, Sweeping, Moved, OnHook, Pointing
<1>7. TruthOf(l)'
  <2>1. \A a \in Agents \ drift : entries[a].status = "installed" => hook[a] = entries[a].version
    BY <1>4, IdlePhase, UpgradeAssumption DEF TruthOf
  <2>2. QED BY <1>2, <1>6, <2>1 DEF TruthOf, Moved, Writing
<1>8. FollowOf(l)'
  <2>1. halted \/ MismatchAgents \subseteq drift \cup {NoAgent}
    BY <1>4, IdlePhase DEF FollowOf
  <2>2. l.agent # UpgradeMark
    BY <1>6, UpgradeAssumption
  <2>3. QED BY <1>2, <1>5, <1>6, <2>1, <2>2 DEF FollowOf, Sweeping, Leading, Moved
<1>9. inst'[i] = l /\ \A j \in Installers \ {i} : inst'[j].pc = "idle"
  BY <1>1, <1>4 DEF LocalsInv
<1>10. QED BY <1>6, <1>7, <1>8, <1>9, OneActs

LEMMA PointerEntries ==
  ASSUME IInv, LocalsInv, EntryInv, ~ overlap, NEW i \in Installers, WriteCurrent(i)
  PROVE  EntryInv'
<1>1. inst[i].pc = "current" /\ LocalOK(inst[i]) /\ Busy(i)
  BY DEF WriteCurrent, At, LocalsInv, Busy
<1>2. TruthOf(inst[i]) /\ \A j \in Installers \ {i} : ~ Busy(j)
  BY <1>1, OneAtATime
<1>3. inst[i].cmd \in Pointing /\ inst[i].agent = NoAgent
  BY <1>1 DEF LocalOK, OnHook, Removing
<1>4. /\ Goto(i, AfterCurrent[inst[i].cmd]) /\ current' = inst[i].version
      /\ UNCHANGED <<entries, hook, drift, halted>>
  BY DEF WriteCurrent, hookVars, historyVars
<1>5. /\ AfterCurrent[inst[i].cmd] \in {"service", "restart", "previous"}
      /\ inst[i].cmd = "upgrade" => AfterCurrent[inst[i].cmd] = "restart"
      /\ inst[i].cmd = "install" => AfterCurrent[inst[i].cmd] = "service"
  BY <1>3 DEF AfterCurrent, Pointing
<1>6. PICK l : Becomes(i, l, AfterCurrent[inst[i].cmd], inst[i].agents, inst[i].agent, inst[i].entry)
  BY <1>4, GoEffect
<1>7. /\ l.pc \in {"service", "restart", "previous"} /\ l.agent = NoAgent /\ l.version = current'
      /\ Leading(l) /\ ~ Writing(l) /\ ~ Sweeping(l) /\ inst' = [inst EXCEPT ![i] = l]
  BY <1>3, <1>4, <1>5, <1>6 DEF Becomes, Leading, Moved, Writing, Sweeping, OnHook
<1>8. TruthOf(l)'
  <2>1. \A a \in Agents \ drift : entries[a].status = "installed" => hook[a] = entries[a].version
    BY <1>2, <1>3, UpgradeAssumption DEF TruthOf
  <2>2. QED BY <1>4, <1>7, <2>1 DEF TruthOf, Moved, Writing
<1>9. FollowOf(l)'
  BY <1>7, UpgradeAssumption DEF FollowOf, Leading, Moved, Sweeping
<1>10. QED BY <1>2, <1>7, <1>8, <1>9, OneStep DEF LocalsInv

\* A script has run: one hook may be another one.
LEMMA ScriptStep ==
  ASSUME IInv, LocalsInv, EntryInv, ~ overlap, NEW i \in Installers,
         inst[i].pc \in {"uninstall", "install", "restore"},
         NEW l, NEW pc \in {"install", "write", "restore"}, NEW entry,
         Becomes(i, l, pc, inst[i].agents, inst[i].agent, entry),
         UNCHANGED <<entries, current, halted>>, drift \ {inst[i].agent} \subseteq drift',
         \A a \in Agents \ {inst[i].agent} : hook'[a] = hook[a],
         pc = "write" /\ entry.status = "installed" =>
           /\ entry.version = current
           /\ inst[i].agent \in Agents => inst[i].agent \in drift' \/ hook'[inst[i].agent] = current
  PROVE  EntryInv'
<1>1. Busy(i) /\ LocalOK(inst[i])
  BY DEF Busy, LocalsInv
<1>2. TruthOf(inst[i]) /\ FollowOf(inst[i]) /\ \A j \in Installers \ {i} : ~ Busy(j)
  BY <1>1, OneAtATime
<1>3. MismatchAgents' = MismatchAgents
  BY MismatchFacts
<1>4. /\ l.pc = pc /\ l.agent = inst[i].agent /\ l.agents = inst[i].agents /\ l.cmd = inst[i].cmd
      /\ l.version = inst[i].version /\ l.entry = entry /\ inst' = [inst EXCEPT ![i] = l]
  BY DEF Becomes
<1>5. /\ Moved(inst[i]) /\ (Leading(inst[i]) => Leading(l)) /\ (Sweeping(l) => Sweeping(inst[i]))
      /\ (Writing(l) => pc = "write" /\ entry.status = "installed")
  BY <1>4 DEF Moved, Leading, Sweeping, Writing, OnHook
<1>6. TruthOf(l)'
  <2>1. l.version = current
    BY <1>2, <1>4, <1>5 DEF TruthOf
  <2>2. Writing(l) => l.entry.version = current
    BY <1>4, <1>5
  <2>3. ASSUME NEW a \in Agents \ drift', a = l.agent, Writing(l) PROVE hook'[a] = current
    BY <1>4, <1>5, <2>3
  <2>4. ASSUME NEW a \in Agents \ drift', a # l.agent, entries[a].status = "installed"
        PROVE  hook'[a] = entries[a].version
    <3>1. a \in Agents \ drift /\ a # inst[i].agent
      BY <1>4, <2>4
    <3>2. QED BY <1>2, <2>4, <3>1 DEF TruthOf
  <2>5. QED BY <2>1, <2>2, <2>3, <2>4 DEF TruthOf, Writing
<1>7. FollowOf(l)'
  <2>1. drift \subseteq drift' \cup {l.agent}
    BY <1>4
  <2>2. QED BY <1>2, <1>3, <1>4, <1>5, <2>1 DEF FollowOf, Sweeping, Leading, Moved
<1>8. QED BY <1>2, <1>4, <1>6, <1>7, OneStep DEF LocalsInv

LEMMA HookEntries ==
  ASSUME IInv, LocalsInv, EntryInv, ~ overlap, NEW i \in Installers,
         UninstallOld(i) \/ InstallNew(i) \/ InstallFails(i) \/ RestoreOld(i)
  PROVE  EntryInv'
<1> USE DEF historyVars, diskVars, At
<1>1. UNCHANGED <<entries, current, halted>>
  BY DEF UninstallOld, InstallNew, InstallFails, RestoreOld
<1>2. DOMAIN hook = Agents
  BY DEF IInv, Shape
<1>3. \A a \in Agents \ {inst[i].agent} : hook'[a] = hook[a]
  BY <1>2 DEF UninstallOld, InstallNew, InstallFails, RestoreOld
<1>4. drift \ {inst[i].agent} \subseteq drift'
  BY DEF UninstallOld, InstallNew, InstallFails, RestoreOld
<1>5. CASE UninstallOld(i)
  <2>1. PICK l : Becomes(i, l, "install", inst[i].agents, inst[i].agent, inst[i].entry)
    BY <1>5, GoEffect DEF UninstallOld
  <2>2. inst[i].pc = "uninstall"
    BY <1>5 DEF UninstallOld
  <2>3. QED BY <1>1, <1>3, <1>4, <2>1, <2>2, ScriptStep
<1>6. CASE InstallNew(i)
  <2> DEFINE e == Entry("installed", IF inst[i].cmd = "install" THEN current ELSE inst[i].version)
  <2>1. Step(i, [inst[i] EXCEPT !.pc = "write", !.entry = e]) /\ inst[i].pc = "install"
    BY <1>6 DEF InstallNew
  <2>2. inst[i].version = current
    BY <2>1, OneAtATime DEF Busy, TruthOf, Moved
  <2>3. e.version = current
    BY <2>2 DEF Entry
  <2> HIDE DEF e
  <2>4. PICK l : Becomes(i, l, "write", inst[i].agents, inst[i].agent, e)
    BY <2>1, ScriptEffect
  <2>5. inst[i].agent \in Agents => hook'[inst[i].agent] = current
    BY <1>2, <1>6, <2>2 DEF InstallNew
  <2>6. QED BY <1>1, <1>3, <1>4, <2>1, <2>3, <2>4, <2>5, ScriptStep
<1>7. CASE InstallFails(i)
  <2> DEFINE warns == inst[i].cmd = "install"
             pc == IF warns THEN "write" ELSE "restore"
             e == IF warns THEN Entry("installed", current) ELSE Missing
  <2>1. Step(i, [inst[i] EXCEPT !.pc = pc, !.entry = e]) /\ inst[i].pc = "install"
    BY <1>7 DEF InstallFails
  <2>2. pc \in {"install", "write", "restore"}
    OBVIOUS
  <2>3. pc = "write" => e.version = current /\ inst[i].agent \in drift'
    BY <1>7 DEF InstallFails, Entry
  <2> HIDE DEF e, pc, warns
  <2>4. PICK l : Becomes(i, l, pc, inst[i].agents, inst[i].agent, e)
    BY <2>1, ScriptEffect
  <2>5. QED BY <1>1, <1>3, <1>4, <2>1, <2>2, <2>3, <2>4, ScriptStep
<1>8. CASE RestoreOld(i)
  <2> DEFINE e == Entry("error", inst[i].hookver)
  <2>1. Step(i, [inst[i] EXCEPT !.pc = "write", !.entry = e]) /\ inst[i].pc = "restore"
    BY <1>8 DEF RestoreOld
  <2>2. e.status # "installed"
    BY DEF Entry
  <2> HIDE DEF e
  <2>3. PICK l : Becomes(i, l, "write", inst[i].agents, inst[i].agent, e)
    BY <2>1, ScriptEffect
  <2>4. QED BY <1>1, <1>3, <1>4, <2>1, <2>2, <2>3, ScriptStep
<1>9. QED BY <1>5, <1>6, <1>7, <1>8

\* The entry is in the file; another one's newer entry may be lost by it.
LEMMA WrittenEntries ==
  ASSUME IInv, LocalsInv, EntryInv, ~ overlap, NEW i \in Installers, WriteEntry(i)
  PROVE  EntryInv'
<1>1. inst[i].pc = "replace" /\ LocalOK(inst[i]) /\ Busy(i)
  BY DEF WriteEntry, At, LocalsInv, Busy
<1>2. TruthOf(inst[i]) /\ FollowOf(inst[i]) /\ \A j \in Installers \ {i} : ~ Busy(j)
  BY <1>1, OneAtATime
<1>3. /\ entries' = [inst[i].seen EXCEPT ![inst[i].agent] = inst[i].entry]
      /\ drift' = drift \cup (Lost(inst[i].seen) \ {inst[i].agent})
      /\ UNCHANGED <<hook, current, halted>>
  BY DEF WriteEntry, diskVars
<1>4. /\ DOMAIN inst[i].seen = Names /\ inst[i].agent \in Names /\ Moved(inst[i])
      /\ (Writing(inst[i]) <=> inst[i].entry.status = "installed")
  BY <1>1 DEF LocalOK, OnHook, Moved, Writing
<1>5. ASSUME NEW a \in Agents \ drift'
      PROVE  IF a = inst[i].agent THEN entries'[a] = inst[i].entry ELSE entries'[a] = entries[a]
  BY <1>3, <1>4, <1>5 DEF Lost, Names
<1>6. \A a \in Agents \ drift' : entries'[a].status = "installed" => hook'[a] = entries'[a].version
  <2> SUFFICES ASSUME NEW a \in Agents \ drift', entries'[a].status = "installed"
               PROVE  hook[a] = entries'[a].version
    BY <1>3
  <2>1. a \in Agents \ drift
    BY <1>3
  <2>2. CASE a = inst[i].agent
    BY <1>2, <1>4, <1>5, <2>1, <2>2 DEF TruthOf
  <2>3. CASE a # inst[i].agent
    BY <1>2, <1>5, <2>1, <2>3 DEF TruthOf
  <2>4. QED BY <2>2, <2>3
<1>7. MismatchAgents' \subseteq drift' \cup (MismatchAgents \ {inst[i].agent})
  <2> SUFFICES ASSUME NEW a \in MismatchAgents', a \notin drift'
               PROVE  a \in MismatchAgents \ {inst[i].agent}
    OBVIOUS
  <2>1. /\ a \in Agents \ drift' /\ entries'[a].status = "installed"
        /\ entries'[a].version \notin {0, current}
    BY <1>3 DEF MismatchAgents
  <2>2. a # inst[i].agent
    BY <1>2, <1>4, <1>5, <2>1 DEF TruthOf
  <2>3. QED BY <1>5, <2>1, <2>2 DEF MismatchAgents
<1>8. CASE inst[i].cmd = "upgrade" /\ inst[i].agent = UpgradeMark /\ inst' = [inst EXCEPT ![i] = Idle]
  <2>1. halted
    BY <1>2, <1>8 DEF FollowOf
  <2>2. TruthOf(Idle)' /\ FollowOf(Idle)'
    <3>1. halted' /\ \A a \in Agents \ drift' : entries'[a].status = "installed" => hook'[a] = entries'[a].version
      BY <1>3, <1>6, <2>1
    <3>2. TruthOf(Idle)'
      BY <3>1, IdlePhase DEF TruthOf, Moved, Writing
    <3>3. FollowOf(Idle)'
      BY <3>1, IdlePhase DEF FollowOf, Sweeping
    <3>4. QED BY <3>2, <3>3
  <2>3. QED BY <1>2, <1>8, <2>2, OneStep DEF LocalsInv
<1>9. CASE ~ (inst[i].cmd = "upgrade" /\ inst[i].agent = UpgradeMark)
  <2>1. PICK l : Becomes(i, l, "hooks", inst[i].agents, NoAgent, Missing)
    BY <1>9, WriteEffect
  <2>2. /\ l.pc = "hooks" /\ l.agent = NoAgent /\ l.agents = inst[i].agents /\ l.cmd = inst[i].cmd
        /\ l.version = inst[i].version /\ inst' = [inst EXCEPT ![i] = l]
    BY <2>1 DEF Becomes
  <2>3. /\ ~ Writing(l) /\ (Leading(inst[i]) => Leading(l))
        /\ (Sweeping(l) => Sweeping(inst[i]))
    BY <1>1, <1>4, <1>9, <2>2 DEF Writing, Leading, Moved, Sweeping, OnHook, LocalOK
  <2>4. TruthOf(l)'
    <3>1. l.version = current
      BY <1>2, <1>4, <2>2 DEF TruthOf
    <3>2. QED BY <1>3, <1>6, <2>3, <3>1 DEF TruthOf, Moved, Writing
  <2>5. FollowOf(l)'
    <3>1. Sweeping(l) => MismatchAgents' \subseteq drift' \cup l.agents \cup {l.agent}
      BY <1>2, <1>3, <1>7, <2>2, <2>3 DEF FollowOf
    <3>2. l.agent # UpgradeMark
      BY <2>2, UpgradeAssumption
    <3>3. halted \/ Leading(l) \/ MismatchAgents' \subseteq drift' \cup {l.agent}
      BY <1>2, <1>3, <1>7, <2>3 DEF FollowOf
    <3>4. QED BY <1>3, <3>1, <3>2, <3>3 DEF FollowOf, Sweeping, Leading, Moved
  <2>6. l.pc # "idle"
    BY <2>2
  <2>7. QED BY <1>2, <2>2, <2>4, <2>5, <2>6, OneStep DEF LocalsInv
<1>10. QED BY <1>8, <1>9, WriteEffect

\* An installer ends, and no mismatch is left that nothing excuses.
LEMMA EndEntries ==
  ASSUME IInv, LocalsInv, EntryInv, ~ overlap, NEW i \in Installers, Busy(i),
         inst' = [inst EXCEPT ![i] = Idle], inst[i].pc \notin OnHook,
         UNCHANGED <<entries, hook, current, drift>>,
         halted' \/ MismatchAgents \subseteq drift \cup {NoAgent}
  PROVE  EntryInv'
<1>1. TruthOf(inst[i]) /\ \A j \in Installers \ {i} : ~ Busy(j)
  BY OneAtATime
<1>2. inst[i].agent = NoAgent
  BY DEF LocalsInv, LocalOK
<1>3. MismatchAgents' = MismatchAgents /\ MismatchAgents \subseteq Agents
  BY MismatchFacts
<1>4. TruthOf(Idle)'
  <2>1. \A a \in Agents \ drift : entries[a].status = "installed" => hook[a] = entries[a].version
    BY <1>1, <1>2, UpgradeAssumption DEF TruthOf
  <2>2. QED BY <2>1, IdlePhase DEF TruthOf, Moved, Writing
<1>5. FollowOf(Idle)'
  BY <1>3, IdlePhase DEF FollowOf, Sweeping
<1>6. QED BY <1>1, <1>4, <1>5, OneStep DEF LocalsInv

\* Once all hooks are done, every mismatch is excused.
LEMMA AllDone ==
  ASSUME IInv, LocalsInv, EntryInv, ~ overlap, NEW i \in Installers, HooksDone(i)
  PROVE  halted' \/ MismatchAgents \subseteq drift \cup {NoAgent}
<1>1. inst[i].pc = "hooks" /\ LocalOK(inst[i]) /\ Busy(i) /\ Todo(i) = {}
  BY DEF HooksDone, At, LocalsInv, Busy
<1>2. TruthOf(inst[i]) /\ FollowOf(inst[i])
  BY <1>1, OneAtATime
<1>3. inst[i].agent = NoAgent /\ inst[i].cmd \in Pointing \cup {"retry", "retry one"}
  BY <1>1 DEF LocalOK, OnHook, Removing
<1>4. CASE inst[i].cmd \in Pointing
  <2>1. MismatchAgents \subseteq drift \cup inst[i].agents \cup {NoAgent}
    BY <1>1, <1>2, <1>3, <1>4, UpgradeAssumption DEF FollowOf, Sweeping
  <2>2. inst[i].version = current
    BY <1>1, <1>2 DEF TruthOf, Moved
  <2>3. ASSUME NEW a \in inst[i].agents, a \in MismatchAgents PROVE FALSE
    <3>1. Skips(i, a)
      BY <1>1, <2>3 DEF Todo
    <3>2. QED BY <2>2, <2>3, <3>1 DEF Skips, MismatchAgents
  <2>4. QED BY <2>1, <2>3
<1>5. CASE inst[i].cmd \in {"retry", "retry one"}
  <2>1. halted => halted'
    BY <1>5 DEF HooksDone
  <2>2. ~ Leading(inst[i])
    BY <1>1, <1>5 DEF Leading, Pointing
  <2>3. QED BY <1>2, <1>3, <2>1, <2>2 DEF FollowOf
<1>6. QED BY <1>3, <1>4, <1>5

LEMMA DoneEntries ==
  ASSUME IInv, LocalsInv, EntryInv, ~ overlap, NEW i \in Installers, HooksDone(i)
  PROVE  EntryInv'
<1>1. halted' \/ MismatchAgents \subseteq drift \cup {NoAgent}
  BY AllDone
<1>2. /\ inst[i].pc = "hooks" /\ LocalOK(inst[i]) /\ Busy(i) /\ inst[i].pc \notin OnHook
      /\ UNCHANGED <<entries, hook, current, drift>>
  BY DEF HooksDone, At, LocalsInv, Busy, hookVars, OnHook
<1>3. TruthOf(inst[i]) /\ \A j \in Installers \ {i} : ~ Busy(j)
  BY <1>2, OneAtATime
<1>4. CASE inst[i].cmd # "install"
  <2>1. inst' = [inst EXCEPT ![i] = Idle]
    BY <1>4 DEF HooksDone, Exit, Step
  <2>2. QED BY <1>1, <1>2, <2>1, EndEntries
<1>5. CASE inst[i].cmd = "install"
  <2>1. PICK l : Becomes(i, l, "restart", inst[i].agents, inst[i].agent, inst[i].entry)
    BY <1>5, GoEffect DEF HooksDone
  <2>2. inst[i].agent = NoAgent
    BY <1>2 DEF LocalOK
  <2>3. /\ l.pc = "restart" /\ l.agent = NoAgent /\ l.cmd = "install" /\ l.version = inst[i].version
        /\ inst' = [inst EXCEPT ![i] = l]
    BY <1>5, <2>1, <2>2 DEF Becomes
  <2>4. ~ Writing(l) /\ ~ Sweeping(l) /\ MismatchAgents' = MismatchAgents
    BY <1>2, <2>3, MismatchFacts DEF Writing, Sweeping, OnHook
  <2>5. TruthOf(l)'
    <3>1. l.version = current
      BY <1>2, <1>3, <2>3 DEF TruthOf, Moved
    <3>2. \A a \in Agents \ drift : entries[a].status = "installed" => hook[a] = entries[a].version
      BY <1>3, <2>2, UpgradeAssumption DEF TruthOf
    <3>3. QED BY <1>2, <2>4, <3>1, <3>2 DEF TruthOf, Moved, Writing
  <2>6. FollowOf(l)'
    BY <1>1, <1>2, <2>3, <2>4 DEF FollowOf, Sweeping, Leading, Moved
  <2>7. l.pc # "idle"
    BY <2>3
  <2>8. QED BY <1>3, <2>3, <2>5, <2>6, <2>7, OneStep DEF LocalsInv
<1>6. QED BY <1>4, <1>5

\* The daemon answers, or does not; a download fails.
LEMMA HealthEntries ==
  ASSUME IInv, LocalsInv, EntryInv, ~ overlap, NEW i \in Installers,
         Unhealthy(i) \/ DownloadFails(i) \/ (Healthy(i) /\ inst[i].cmd = "install")
  PROVE  EntryInv'
<1> USE DEF hookVars, diskVars, historyVars, At
<1>1. /\ inst[i].pc \in {"unpack", "health"} /\ LocalOK(inst[i]) /\ Busy(i) /\ inst[i].pc \notin OnHook
      /\ UNCHANGED <<entries, hook, current, drift>>
  BY DEF Unhealthy, DownloadFails, Healthy, LocalsInv, Busy, OnHook
<1>2. TruthOf(inst[i]) /\ FollowOf(inst[i]) /\ \A j \in Installers \ {i} : ~ Busy(j)
  BY <1>1, OneAtATime
<1>3. inst[i].agent = NoAgent
  BY <1>1 DEF LocalOK
<1>4. CASE Unhealthy(i) /\ inst[i].cmd = "upgrade"
  <2> DEFINE e == Entry("error", inst[i].version)
  <2>1. PICK l : Becomes(i, l, "write", {}, UpgradeMark, e)
    BY <1>4, MarkEffect DEF Unhealthy
  <2>2. halted' /\ inst[i].pc = "health" /\ e.status = "error"
    BY <1>4 DEF Unhealthy, Entry
  <2> HIDE DEF e
  <2>3. /\ l.pc = "write" /\ l.agent = UpgradeMark /\ l.entry.status = "error" /\ l.version = inst[i].version
        /\ inst' = [inst EXCEPT ![i] = l]
    BY <2>1, <2>2 DEF Becomes
  <2>4. ~ Writing(l) /\ ~ Sweeping(l)
    BY <2>3 DEF Writing, Sweeping
  <2>5. TruthOf(l)'
    <3>1. l.version = current
      BY <1>2, <2>2, <2>3 DEF TruthOf, Moved
    <3>2. \A a \in Agents \ drift : entries[a].status = "installed" => hook[a] = entries[a].version
      BY <1>2, <1>3, UpgradeAssumption DEF TruthOf
    <3>3. QED BY <1>1, <2>4, <3>1, <3>2 DEF TruthOf, Moved, Writing
  <2>6. FollowOf(l)'
    BY <2>2, <2>4 DEF FollowOf, Sweeping
  <2>7. l.pc # "idle"
    BY <2>3
  <2>8. QED BY <1>2, <2>3, <2>5, <2>6, <2>7, OneStep DEF LocalsInv
<1>5. CASE ~ (Unhealthy(i) /\ inst[i].cmd = "upgrade")
  <2>1. inst' = [inst EXCEPT ![i] = Idle]
    BY <1>5 DEF Unhealthy, DownloadFails, Healthy, Exit, Step
  <2>2. halted' \/ ((halted => halted') /\ ~ Leading(inst[i]))
    BY <1>5 DEF Unhealthy, DownloadFails, Healthy, Leading, Moved
  <2>3. halted' \/ MismatchAgents \subseteq drift \cup {NoAgent}
    BY <1>2, <1>3, <2>2 DEF FollowOf
  <2>4. QED BY <1>1, <2>1, <2>3, EndEntries
<1>6. QED BY <1>4, <1>5

\* Installers die, or go on from the restart; what they leave is excused.
LEMMA DeathEntries ==
  ASSUME IInv, LocalsInv, EntryInv, ~ overlap, NEW dead \in SUBSET Installers, NEW live \in SUBSET Installers,
         \A j \in live : At(j, "restart"),
         inst' = [j \in Installers |-> IF j \in dead THEN Idle
                                       ELSE IF j \in live THEN [inst[j] EXCEPT !.pc = "health"]
                                       ELSE inst[j]],
         Mourn(dead), UNCHANGED <<entries, hook, current>>
  PROVE  EntryInv'
<1>1. MismatchAgents' = MismatchAgents /\ MismatchAgents \subseteq Agents
  BY MismatchFacts
<1>2. (halted => halted') /\ drift \subseteq drift'
  BY DEF Mourn
<1>3. CASE \A j \in Installers : ~ Busy(j)
  <2>1. TruthOf(Idle) /\ FollowOf(Idle)
    BY <1>3, Rest
  <2>2. TruthOf(Idle)'
    BY <1>2, <2>1, IdlePhase DEF TruthOf, Moved, Writing
  <2>3. FollowOf(Idle)'
    BY <1>1, <1>2, <2>1, IdlePhase DEF FollowOf, Sweeping, Leading, Moved
  <2>4. \A j \in Installers : inst'[j].pc = "idle"
    BY <1>3, IdlePhase DEF Busy, At
  <2>5. QED BY <2>2, <2>3, <2>4, NobodyActs
<1>4. ASSUME NEW i \in Installers, Busy(i) PROVE EntryInv'
  <2>1. TruthOf(inst[i]) /\ FollowOf(inst[i]) /\ \A j \in Installers \ {i} : ~ Busy(j)
    BY <1>4, OneAtATime
  <2>2. \A j \in Installers \ {i} : inst'[j].pc = "idle"
    BY <2>1, IdlePhase DEF Busy, At
  <2>3. CASE i \in dead
    <3>1. Leading(inst[i]) => halted'
      BY <2>3 DEF Mourn, BehindPointers, BehindRemoval, Leading, Moved, Pointing, At
    <3>2. inst[i].agent \in Agents => inst[i].agent \in drift'
      BY <2>3 DEF Mourn
    <3>3. TruthOf(Idle)'
      <4>1. \A a \in Agents \ drift' : entries[a].status = "installed" => hook[a] = entries[a].version
        BY <1>2, <2>1, <3>2 DEF TruthOf
      <4>2. QED BY <4>1, IdlePhase DEF TruthOf, Moved, Writing
    <3>4. FollowOf(Idle)'
      <4>1. halted' \/ MismatchAgents \subseteq drift'
        BY <1>1, <1>2, <2>1, <3>1, <3>2 DEF FollowOf
      <4>2. QED BY <1>1, <4>1, IdlePhase DEF FollowOf, Sweeping
    <3>5. inst'[i] = Idle
      BY <2>3
    <3>6. QED BY <2>2, <3>3, <3>4, <3>5, OneActs
  <2>4. CASE i \notin dead
    <3> DEFINE m == IF i \in live THEN [inst[i] EXCEPT !.pc = "health"] ELSE inst[i]
    <3>a. inst'[i] = m
      BY <2>4
    <3>b. /\ m.cmd = inst[i].cmd /\ m.version = inst[i].version /\ m.agent = inst[i].agent
          /\ m.agents = inst[i].agents /\ m.entry = inst[i].entry
          /\ m.pc = inst[i].pc \/ (m.pc = "health" /\ inst[i].pc = "restart")
      BY DEF LocalsInv, LocalOK, Idle, At
    <3> HIDE DEF m
    <3>1. PICK l : l = m
      OBVIOUS
    <3>2. /\ l.cmd = inst[i].cmd /\ l.version = inst[i].version /\ l.agent = inst[i].agent
          /\ l.agents = inst[i].agents /\ l.entry = inst[i].entry /\ inst'[i] = l
          /\ l.pc = inst[i].pc \/ (l.pc = "health" /\ inst[i].pc = "restart")
      BY <3>a, <3>b, <3>1
    <3>3. /\ Moved(l) <=> Moved(inst[i])
          /\ Leading(l) <=> Leading(inst[i])
          /\ Writing(l) <=> Writing(inst[i])
          /\ Sweeping(l) <=> Sweeping(inst[i])
      BY <3>2 DEF Moved, Leading, Writing, Sweeping, OnHook
    <3>4. TruthOf(l)'
      BY <1>2, <2>1, <3>2, <3>3 DEF TruthOf, Moved, Writing
    <3>5. FollowOf(l)'
      BY <1>1, <1>2, <2>1, <3>2, <3>3 DEF FollowOf, Sweeping, Leading, Moved
    <3>6. l.pc # "idle"
      BY <1>4, <3>2 DEF Busy
    <3>7. QED BY <2>2, <3>2, <3>4, <3>5, <3>6, OneActs
  <2>5. QED BY <2>3, <2>4
<1>5. QED BY <1>3, <1>4

\* The installers stay where they are.
LEMMA OutsideEntry ==
  ASSUME EntryInv, UNCHANGED <<inst, current, halted, overlap>>, drift \subseteq drift',
         \A a \in Agents \ drift' :
           hook'[a] = hook[a] /\ (entries'[a] = entries[a] \/ entries'[a].status # "installed")
  PROVE  EntryInv'
<1>1. Acting' = Acting
  BY DEF Acting, Busy
<1>2. SUFFICES ASSUME ~ overlap, NEW l \in Acting PROVE TruthOf(l)' /\ FollowOf(l)'
  BY <1>1 DEF EntryInv
<1>3. TruthOf(l) /\ FollowOf(l)
  BY <1>2 DEF EntryInv
<1>4. TruthOf(l)'
  BY <1>3 DEF TruthOf, Moved, Writing
<1>5. MismatchAgents' \subseteq drift' \cup MismatchAgents
  BY DEF MismatchAgents
<1>6. FollowOf(l)'
  BY <1>3, <1>5 DEF FollowOf, Sweeping, Leading, Moved
<1>7. QED BY <1>4, <1>6

LEMMA ProbeEntries ==
  ASSUME LocalsInv, EntryInv, ProbeSave PROVE EntryInv'
<1>1. UNCHANGED <<inst, current, halted, overlap, hook>> /\ drift' = drift \cup Lost(daemon.seen)
  BY DEF ProbeSave, diskVars
<1>2. ASSUME NEW a \in Agents \ drift' PROVE entries'[a] = entries[a] \/ entries'[a].status # "installed"
  <2>1. entries'[a] = Probed(daemon.seen[a], a) /\ daemon.seen[a] = entries[a]
    BY <1>1, <1>2 DEF ProbeSave, Lost, Names
  <2>2. Entry("error", entries[a].version).status = "error" /\ Entry("not_installed", 0).status = "not_installed"
    BY DEF Entry
  <2>3. CASE entries[a].status = "installed" /\ hook[a] = 0
    BY <2>1, <2>2, <2>3 DEF Probed
  <2>4. CASE ~ (entries[a].status = "installed" /\ hook[a] = 0)
    BY <2>1, <2>2, <2>4 DEF Probed
  <2>5. QED BY <2>3, <2>4
<1>3. QED BY <1>1, <1>2, OutsideEntry

\* An uninstallation: hooks, pointers and entries go in this order.
LEMMA UninstallEntries ==
  ASSUME IInv, LocalsInv, EntryInv, NEW i \in Installers, Uninstaller(i) PROVE EntryInv'
<1>1. PICK l, dead : Removes(i, l, dead) /\ Drops(i, l) /\ Records(i, l)
  BY UninstallEffect
<1>2. SUFFICES ASSUME ~ overlap PROVE EntryInv'
  BY <1>1 DEF EntryInv, Drops
<1>3. inst[i].pc \in Removing /\ Busy(i) /\ LocalOK(inst[i])
  BY <1>1 DEF Removes, Removing, Busy, LocalsInv
<1>4. TruthOf(inst[i]) /\ FollowOf(inst[i]) /\ \A j \in Installers \ {i} : ~ Busy(j)
  BY <1>2, <1>3, OneAtATime
<1>5. inst[i].agent = NoAgent
  BY <1>3 DEF LocalOK, Removing, OnHook
<1>6. /\ l.pc \in Removing \cup {"idle"} /\ l.agent = NoAgent /\ (l.pc = "idle" => l = Idle)
  BY <1>1, <1>5, IdlePhase DEF Removes, Removing
<1>7. ~ Moved(l) /\ ~ Writing(l) /\ ~ Sweeping(l)
  BY <1>6 DEF Moved, Writing, Sweeping, Removing, OnHook
<1>8. TruthOf(l)'
  <2>1. \A a \in Agents \ drift : entries[a].status = "installed" => hook[a] = entries[a].version
    BY <1>4, <1>5, UpgradeAssumption DEF TruthOf
  <2>2. \A a \in Agents \ drift' : entries'[a].status = "installed" => hook'[a] = entries'[a].version
    BY <1>1, <2>1 DEF Records
  <2>3. QED BY <1>7, <2>2 DEF TruthOf, Moved, Writing
<1>9. halted' \/ Leading(l) \/ MismatchAgents' \subseteq drift' \cup {NoAgent}
  <2>1. CASE l.pc \in {"forget previous", "forget entries"}
    BY <2>1 DEF Leading
  <2>2. CASE entries' = [a \in Names |-> Missing]
    <3>1. MismatchAgents' = {}
      BY <2>2 DEF MismatchAgents, Missing, Entry, Names
    <3>2. QED BY <3>1
  <2>3. CASE /\ inst[i].pc \notin {"forget previous", "forget entries"} /\ UNCHANGED <<entries, current>>
             /\ (halted => halted') /\ drift \subseteq drift'
    <3>1. ~ Leading(inst[i])
      BY <1>3, <2>3 DEF Leading, Moved, Removing
    <3>2. MismatchAgents' = MismatchAgents
      BY <2>3, MismatchFacts
    <3>3. QED BY <1>4, <1>5, <2>3, <3>1, <3>2 DEF FollowOf
  <2>4. QED BY <1>1, <2>1, <2>2, <2>3 DEF Records
<1>10. FollowOf(l)'
  BY <1>6, <1>7, <1>9, UpgradeAssumption DEF FollowOf, Sweeping, Leading, Moved
<1>11. inst'[i] = l /\ \A j \in Installers \ {i} : inst'[j].pc = "idle"
  BY <1>1, <1>4, IdlePhase DEF Removes, Busy
<1>12. QED BY <1>6, <1>8, <1>10, <1>11, OneActs

LEMMA OutsideEntries ==
  ASSUME IInv, LocalsInv, EntryInv,
         \/ Check \/ ServiceRestarts \/ ProbeLoad \/ ProbeSave
         \/ \E a \in Agents : AgentOverwrites(a)
         \/ \E i \in Installers : Restart(i) \/ Die(i)
         \/ UNCHANGED vars
  PROVE  EntryInv'
<1> USE DEF hookVars, diskVars, historyVars
<1>1. CASE Check \/ ProbeLoad \/ UNCHANGED vars
  BY <1>1, OutsideEntry DEF Check, ProbeLoad, vars
<1>2. CASE \E a \in Agents : AgentOverwrites(a)
  <2>1. PICK a \in Agents : AgentOverwrites(a)
    BY <1>2
  <2>2. /\ UNCHANGED <<inst, current, halted, overlap, entries>> /\ drift' = drift \cup {a}
        /\ hook' = [hook EXCEPT ![a] = 0] /\ DOMAIN hook = Agents
    BY <2>1 DEF AgentOverwrites, IInv, Shape
  <2>3. \A b \in Agents \ drift' : hook'[b] = hook[b]
    BY <2>2
  <2>4. QED BY <2>2, <2>3, OutsideEntry
<1>3. CASE ProbeSave
  BY <1>3, ProbeEntries
<1>4. CASE overlap
  <2>1. overlap'
    BY <1>4 DEF Check, ServiceRestarts, ProbeLoad, ProbeSave, AgentOverwrites, Restart, Die,
                Mourn, vars
  <2>2. QED BY <2>1 DEF EntryInv
<1>5. CASE ~ overlap /\ ServiceRestarts
  <2>1. inst' = [j \in Installers |-> IF j \in Cgroup THEN Idle
                                      ELSE IF j \in {} THEN [inst[j] EXCEPT !.pc = "health"]
                                      ELSE inst[j]]
    BY <1>5 DEF ServiceRestarts, Without
  <2>2. Cgroup \in SUBSET Installers /\ {} \in SUBSET Installers /\ \A j \in {} : At(j, "restart")
    BY DEF Cgroup
  <2>3. Mourn(Cgroup) /\ UNCHANGED <<entries, hook, current>>
    BY <1>5 DEF ServiceRestarts
  <2>4. QED BY <1>5, <2>1, <2>2, <2>3, DeathEntries
<1>6. ASSUME ~ overlap, NEW i \in Installers, Die(i) PROVE EntryInv'
  <2>1. inst' = [j \in Installers |-> IF j \in {i} THEN Idle
                                      ELSE IF j \in {} THEN [inst[j] EXCEPT !.pc = "health"]
                                      ELSE inst[j]]
    BY <1>6 DEF Die, Without
  <2>2. {i} \in SUBSET Installers /\ {} \in SUBSET Installers /\ \A j \in {} : At(j, "restart")
    OBVIOUS
  <2>3. Mourn({i}) /\ UNCHANGED <<entries, hook, current>>
    BY <1>6 DEF Die
  <2>4. QED BY <1>6, <2>1, <2>2, <2>3, DeathEntries
<1>7. ASSUME ~ overlap, NEW i \in Installers, Restart(i) PROVE EntryInv'
  <2>1. Mourn(Cgroup) /\ UNCHANGED <<entries, hook, current>> /\ At(i, "restart")
    BY <1>7 DEF Restart
  <2>2. PICK live \in {{}, {i}} :
          inst' = [j \in Installers |-> IF j \in Cgroup THEN Idle
                                        ELSE IF j \in live THEN [inst[j] EXCEPT !.pc = "health"]
                                        ELSE inst[j]]
    <3>1. CASE i \in Cgroup
      BY <1>7, <3>1 DEF Restart, Without
    <3>2. CASE i \notin Cgroup
      <4>1. inst' = [j \in Installers |-> IF j \in Cgroup THEN Idle
                                          ELSE IF j \in {i} THEN [inst[j] EXCEPT !.pc = "health"]
                                          ELSE inst[j]]
        BY <1>7, <3>2 DEF Restart, Without
      <4>2. QED BY <4>1
    <3>3. QED BY <3>1, <3>2
  <2>3. Cgroup \in SUBSET Installers /\ live \in SUBSET Installers /\ \A j \in live : At(j, "restart")
    BY <2>1 DEF Cgroup
  <2>4. QED BY <1>7, <2>1, <2>2, <2>3, DeathEntries
<1>8. QED BY <1>1, <1>2, <1>3, <1>4, <1>5, <1>6, <1>7

LEMMA NextEntries == IInv /\ LocalsInv /\ EntryInv /\ [Next]_vars => EntryInv'
<1> SUFFICES ASSUME IInv, LocalsInv, EntryInv, [Next]_vars PROVE EntryInv'
  OBVIOUS
<1>1. ASSUME NEW i \in Installers, Command(i) PROVE EntryInv'
  BY <1>1, StartEntries
<1>2. ASSUME NEW i \in Installers, Installer(i), ~ Restart(i) PROVE EntryInv'
  <2>1. overlap' = overlap
    BY <1>2 DEF Installer, Unpack, DownloadFails, Place, WritePrevious, WriteCurrent, InstallService,
                Healthy, Unhealthy, NextHook, UninstallOld, InstallNew, InstallFails, RestoreOld,
                ReadEntries, WriteEntry, HooksDone, historyVars
  <2>2. SUFFICES ASSUME ~ overlap PROVE EntryInv'
    BY <2>1 DEF EntryInv
  <2>3. CASE \/ Unpack(i) \/ Place(i) \/ WritePrevious(i) \/ InstallService(i)
             \/ (Healthy(i) /\ inst[i].cmd # "install")
             \/ NextHook(i) \/ ReadEntries(i)
    BY <2>2, <2>3, QuietSteps
  <2>4. CASE WriteCurrent(i)
    BY <2>2, <2>4, PointerEntries
  <2>5. CASE UninstallOld(i) \/ InstallNew(i) \/ InstallFails(i) \/ RestoreOld(i)
    BY <2>2, <2>5, HookEntries
  <2>6. CASE WriteEntry(i)
    BY <2>2, <2>6, WrittenEntries
  <2>7. CASE HooksDone(i)
    BY <2>2, <2>7, DoneEntries
  <2>8. CASE Unhealthy(i) \/ DownloadFails(i) \/ (Healthy(i) /\ inst[i].cmd = "install")
    BY <2>2, <2>8, HealthEntries
  <2>9. QED BY <1>2, <2>3, <2>4, <2>5, <2>6, <2>7, <2>8 DEF Installer
<1>3. QED BY <1>1, <1>2, OutsideEntries, UninstallEntries DEF Next

LEMMA InitEntries == Init => EntryInv
<1> SUFFICES ASSUME Init PROVE EntryInv
  OBVIOUS
<1>1. \A j \in Installers : inst[j].pc = "idle"
  BY IdlePhase DEF Init
<1>2. Acting = {Idle}
  BY <1>1 DEF Acting, Busy
<1>3. ASSUME NEW a \in Agents, entries[a].status = "installed"
      PROVE  hook[a] = entries[a].version /\ hook[a] = current
  <2>1. PICK v \in {0, 1} :
          /\ current = v /\ hook = [b \in Agents |-> v]
          /\ entries = [b \in Names |-> IF v = 0 \/ b = UpgradeMark THEN Missing ELSE Entry("installed", v)]
    BY DEF Init
  <2>2. entries[a] = IF v = 0 \/ a = UpgradeMark THEN Missing ELSE Entry("installed", v)
    BY <2>1 DEF Names
  <2>3. Missing.status = "" /\ Entry("installed", v).version = v
    BY DEF Missing, Entry
  <2>4. QED BY <1>3, <2>1, <2>2, <2>3
<1>4. MismatchAgents = {}
  BY <1>3 DEF MismatchAgents
<1>5. TruthOf(Idle) /\ FollowOf(Idle)
  BY <1>3, <1>4, RestSays
<1>6. QED BY <1>2, <1>5 DEF EntryInv

LEMMA EntriesInvariant == Spec => [](IInv /\ LocalsInv /\ EntryInv)
<1>1. Init => IInv /\ LocalsInv /\ EntryInv
  BY InitInv, InitLocals, InitEntries
<1>2. IInv /\ LocalsInv /\ EntryInv /\ [Next]_vars => (IInv /\ LocalsInv /\ EntryInv)'
  BY NextInv, NextLocals, NextEntries
<1>3. QED BY <1>1, <1>2, PTL DEF Spec

\* For every number of agents, releases, commands and failures: while one
\* installer runs at a time, an entry that says installed names the version
\* of the hook the agent has, whenever nobody works on that agent.
THEOREM EntriesAreTrue == Spec => []EntriesTellTruth
<1>1. IInv /\ LocalsInv /\ EntryInv => EntriesTellTruth
  <2> SUFFICES ASSUME IInv, LocalsInv, EntryInv, ~ overlap, NEW a \in Agents \ drift,
                      entries[a].status = "installed", NobodyOn(a)
               PROVE  hook[a] = entries[a].version
    BY DEF EntriesTellTruth
  <2>1. CASE \E i \in Installers : Busy(i)
    <3>1. PICK i \in Installers : Busy(i)
      BY <2>1
    <3>2. a # inst[i].agent
      BY DEF NobodyOn
    <3>3. QED BY <3>1, <3>2, OneAtATime DEF TruthOf
  <2>2. CASE \A i \in Installers : ~ Busy(i)
    BY <2>2, Rest, IdlePhase, UpgradeAssumption DEF TruthOf
  <2>3. QED BY <2>1, <2>2
<1>2. QED BY <1>1, EntriesInvariant, PTL

\* However many upgrades, rollbacks, failed hooks, retries and restarts of the
\* daemon came before: once no installer runs, no hook is left at another
\* version without an error or one of the excuses HooksFollowCurrent names.
THEOREM HooksAreFollowing == Spec => []HooksFollowCurrent
<1>1. IInv /\ LocalsInv /\ EntryInv => HooksFollowCurrent
  <2> SUFFICES ASSUME EntryInv, \A i \in Installers : At(i, "idle"), ~ overlap, ~ halted
               PROVE  MismatchAgents \subseteq drift
    BY DEF HooksFollowCurrent
  <2>1. FollowOf(Idle)
    BY Rest DEF Busy, At
  <2>2. QED BY <2>1, IdlePhase, MismatchFacts, UpgradeAssumption DEF FollowOf
<1>2. QED BY <1>1, EntriesInvariant, PTL

=============================================================================
