------------------------------- MODULE Upgrade -------------------------------
(***************************************************************************)
(* Versions side by side (deploy/installer.sh): install, upgrade, rollback *)
(* uninstall and retry-hooks, started from a shell or by the daemon's HTTP *)
(* server (updater.py), and the file that records which hook has which     *)
(* version, written by the installer and by the daemon when it starts      *)
(* (hook_state.py).  Nothing locks installers against each other or        *)
(* against the daemon; a read and the write that follows are two steps.    *)
(*                                                                         *)
(* A version is its rank, 0 stands for none.  Downloads, checksums and the *)
(* virtual environments are one step that may fail.                        *)
(***************************************************************************)
EXTENDS Integers

CONSTANTS
    Agents,         \* coding agents on the machine, all with a hook in every package
    Installers,     \* installer.sh processes at a time
    NoAgent,
    UpgradeMark,    \* the entry "__upgrade__"
    MaxVersion,     \* bound on releases
    MaxCommands,    \* bound on installer.sh commands
    MaxFaults       \* bound on deaths, failing scripts, timeouts, restarts, overwritten settings

ASSUME UpgradeAssumption ==
    MaxVersion \in Nat \ {0} /\ MaxCommands \in Nat /\ MaxFaults \in Nat
    /\ {NoAgent, UpgradeMark} \cap Agents = {} /\ NoAgent # UpgradeMark

VARIABLES
    systemd,            \* the service manager: systemd or launchd
    check,              \* .update-check: the newer version it offers, 0 if none
    dirs,               \* versions/
    current, previous,  \* the pointers
    service,            \* the version the service file starts
    daemon,             \* [pc, seen]: seen is hook-state.json as its probe read it
    entries,            \* hook-state.json
    hook,               \* by agent: the version of the hook it really has
    inst,               \* by installer: its locals
    commands, faults,
    overlap,            \* history: two installers ran at a time
    torn,               \* history: versions whose directory an installer died replacing, or
                        \* an uninstallation has removed under the pointers
    halted,             \* history: an installer stopped behind the pointers, before the hooks
    drift,              \* history: agents whose entry is known to be off
    had,                \* history: agents whose hook no failure excuses
    retried             \* history: the last command was a retry of all, and it ended

diskVars == <<dirs, current, previous, service>>
hookVars == <<entries, hook>>
boundVars == <<systemd, commands, faults>>
historyVars == <<overlap, torn, halted, drift, had, retried>>
vars == <<check, diskVars, daemon, hookVars, inst, boundVars, historyVars>>

Versions == 1..MaxVersion
Names == Agents \cup {UpgradeMark}
Entry(status, version) == [status |-> status, version |-> version]
Missing == Entry("", 0)

Idle == [pc |-> "idle", cmd |-> "", web |-> FALSE, version |-> 0, old |-> 0, agents |-> {},
         agent |-> NoAgent, hookver |-> 0, entry |-> Missing, seen |-> <<>>]

Over(l) == [f \in DOMAIN Idle |-> IF f \in DOMAIN l THEN l[f] ELSE Idle[f]]

At(i, pc) == inst[i].pc = pc
Step(i, l) == inst' = [inst EXCEPT ![i] = l]
Goto(i, pc) == Step(i, [inst[i] EXCEPT !.pc = pc])
Exit(i) == Step(i, Idle)
Fault == faults < MaxFaults /\ faults' = faults + 1 /\ UNCHANGED <<systemd, commands>>
NobodyOn(a) == \A i \in Installers : inst[i].agent # a

\* systemd stops every process of the service's control group, and an
\* installer the server has started belongs to it (start_new_session or not).
Cgroup == IF systemd THEN {i \in Installers : inst[i].web} ELSE {}
Without(dead) == [i \in Installers |-> IF i \in dead THEN Idle ELSE inst[i]]

BehindPointers(i) ==
    inst[i].pc \notin {"idle", "unpack", "place", "current"} /\ inst[i].cmd \in {"install", "upgrade", "rollback"}
    /\ ~ (inst[i].cmd = "upgrade" /\ At(i, "previous"))

\* The pointers go before the entries.
BehindRemoval(i) == inst[i].pc \in {"forget previous", "forget entries"}

Mourn(dead) ==
    /\ torn' = torn \cup {inst[i].version : i \in {j \in dead : At(j, "place")}}
    /\ halted' = (halted \/ \E i \in dead : BehindPointers(i) \/ BehindRemoval(i))
    /\ drift' = drift \cup ({inst[i].agent : i \in dead} \cap Agents)
    /\ had' = had \ {inst[i].agent : i \in dead}
    /\ UNCHANGED <<overlap, retried>>

-----------------------------------------------------------------------------
(* updater.py and the server's endpoints, the commands.                    *)

ReadLocalVersion == IF current \in dirs THEN current ELSE 0

\* The latest release is newer, or it is not, or the page does not answer.
CheckLatestRelease == {0} \cup {v \in Versions : v > ReadLocalVersion}

\* Once a day.
Check ==
    /\ daemon.pc # "down"
    /\ check' \in CheckLatestRelease
    /\ UNCHANGED <<diskVars, daemon, hookVars, inst, boundVars, historyVars>>

\* installer.sh starts, with locals l.
Start(i, l) ==
    /\ At(i, "idle") /\ commands < MaxCommands
    /\ Step(i, Over(l))
    /\ commands' = commands + 1
    /\ overlap' = (overlap \/ \E j \in Installers : ~ At(j, "idle"))
    /\ retried' = FALSE
    /\ UNCHANGED <<systemd, check, diskVars, daemon, hookVars, faults, torn, halted, drift, had>>

CmdInstall(i) ==
    \E v \in Versions : Start(i, [cmd |-> "install", pc |-> "unpack", version |-> v])

UpgradeTo(i, v, web) ==
    /\ current # 0 /\ v # current
    /\ Start(i, [cmd |-> "upgrade", web |-> web, pc |-> "unpack", version |-> v, old |-> current])

CmdUpgrade(i) == \E v \in Versions : UpgradeTo(i, v, FALSE)
PostUpgrade(i) == daemon.pc = "up" /\ current \in dirs /\ check # 0 /\ UpgradeTo(i, check, TRUE)

CmdRollback(i) ==
    /\ previous \in dirs
    /\ Start(i, [cmd |-> "rollback", pc |-> "current", version |-> previous, old |-> current])

\* Only hooks whose entry says error are tried again: all of them, or one.
FailedHooks == {a \in Names : entries[a].status = "error"}

RetryFailedHooks(i, web) ==
    /\ current # 0
    /\ \/ Start(i, [cmd |-> "retry", web |-> web, pc |-> "hooks", version |-> current, agents |-> FailedHooks])
       \/ \E a \in FailedHooks :
            Start(i, [cmd |-> "retry one", web |-> web, pc |-> "hooks", version |-> current, agents |-> {a}])

CmdRetryHooks(i) == RetryFailedHooks(i, FALSE)
PostRetryHooks(i) == daemon.pc = "up" /\ current \in dirs /\ RetryFailedHooks(i, TRUE)

CmdUninstall(i) == Start(i, [cmd |-> "uninstall", pc |-> "stop", version |-> current])

-----------------------------------------------------------------------------
(* The new version's directory, the pointers, the daemon.                  *)

\* The package is there; what was in its place goes.
Unpack(i) ==
    /\ At(i, "unpack")
    /\ dirs' = dirs \ {inst[i].version}
    /\ Goto(i, "place")
    /\ UNCHANGED <<check, current, previous, service, daemon, hookVars, boundVars, historyVars>>

DownloadFails(i) ==
    /\ At(i, "unpack") /\ Exit(i)
    /\ UNCHANGED <<check, diskVars, daemon, hookVars, boundVars, historyVars>>

Place(i) ==
    /\ At(i, "place")
    /\ dirs' = dirs \cup {inst[i].version} /\ torn' = torn \ {inst[i].version}
    /\ Goto(i, IF inst[i].cmd = "upgrade" THEN "previous" ELSE "current")
    /\ UNCHANGED <<check, current, previous, service, daemon, hookVars, boundVars,
                   overlap, halted, drift, had, retried>>

\* An upgrade writes previous, then current; a rollback the other way round.
WritePrevious(i) ==
    /\ At(i, "previous")
    /\ previous' = inst[i].old
    /\ Goto(i, IF inst[i].cmd = "upgrade" THEN "current" ELSE "restart")
    /\ UNCHANGED <<check, dirs, current, service, daemon, hookVars, boundVars, historyVars>>

AfterCurrent == [install |-> "service", upgrade |-> "restart", rollback |-> "previous"]

WriteCurrent(i) ==
    /\ At(i, "current")
    /\ current' = inst[i].version
    /\ Goto(i, AfterCurrent[inst[i].cmd])
    /\ UNCHANGED <<check, dirs, previous, service, daemon, hookVars, boundVars, historyVars>>

Down == [pc |-> "down", seen |-> <<>>]
Started(v) == IF v \in dirs THEN [Down EXCEPT !.pc = "starting"] ELSE Down

\* install-langstash.sh: launchd loads the service at once, systemd only enables it.
InstallService(i) ==
    /\ At(i, "service")
    /\ service' = inst[i].version
    /\ daemon' = IF systemd THEN daemon ELSE Started(inst[i].version)
    /\ Step(i, [inst[i] EXCEPT !.pc = "hooks", !.agents = Agents])
    /\ UNCHANGED <<check, dirs, current, previous, hookVars, boundVars, historyVars>>

\* update_service_files leaves a file alone that is not there.
ServiceOf(i) == IF service = 0 \/ inst[i].cmd = "install" THEN service ELSE inst[i].version

\* The service stops and starts.  An installer that stops itself does not start it.
Restart(i) ==
    /\ At(i, "restart")
    /\ service' = ServiceOf(i)
    /\ IF i \in Cgroup
       THEN daemon' = Down /\ inst' = Without(Cgroup)
       ELSE daemon' = Started(ServiceOf(i)) /\ inst' = [Without(Cgroup) EXCEPT ![i].pc = "health"]
    /\ Mourn(Cgroup)
    /\ UNCHANGED <<check, dirs, current, previous, hookVars, boundVars>>

Healthy(i) ==
    /\ At(i, "health") /\ daemon.pc = "up"
    /\ IF inst[i].cmd = "install" THEN Exit(i)
       ELSE Step(i, [inst[i] EXCEPT !.pc = "hooks", !.agents = Agents])
    /\ UNCHANGED <<check, diskVars, daemon, hookVars, boundVars, historyVars>>

\* No answer in time.  An upgrade leaves a mark among the entries.
Unhealthy(i) ==
    /\ At(i, "health")
    /\ \/ daemon.pc = "down" /\ UNCHANGED boundVars
       \/ Fault
    /\ IF inst[i].cmd = "upgrade"
       THEN Step(i, [inst[i] EXCEPT !.pc = "write", !.agent = UpgradeMark, !.agents = {},
                                    !.entry = Entry("error", inst[i].version)])
       ELSE Exit(i)
    /\ halted' = (halted \/ inst[i].cmd # "install")
    /\ UNCHANGED <<check, diskVars, daemon, hookVars, overlap, torn, drift, had, retried>>

-----------------------------------------------------------------------------
(* One hook after the other (upgrade_single_hook, install_detected_hooks). *)

SkipsHooksOfOld(i, a) ==                            \* mutant: compared with the version left behind
    \/ inst[i].cmd \in {"upgrade", "rollback"} /\ entries[a].version = 0
    \/ inst[i].cmd = "rollback" /\ entries[a].version = inst[i].old

\* An upgrade takes the hooks with a version, a rollback those of another one.
Skips(i, a) ==
    \/ inst[i].cmd \in {"upgrade", "rollback"} /\ entries[a].version = 0
    \/ inst[i].cmd = "rollback" /\ entries[a].version = inst[i].version

Todo(i) == {a \in inst[i].agents : ~ Skips(i, a)}

NextHook(i) ==
    /\ At(i, "hooks")
    /\ \E a \in Todo(i) :
         LET v == entries[a].version
         IN  Step(i, [inst[i] EXCEPT !.pc = IF inst[i].cmd = "install" THEN "install" ELSE "uninstall",
                                     !.agents = @ \ {a}, !.agent = a,
                                     !.hookver = IF v # 0 THEN v ELSE inst[i].version])
    /\ UNCHANGED <<check, diskVars, daemon, hookVars, boundVars, historyVars>>

Scripts(v, a) == v \in dirs /\ a \in Agents

\* The recorded version's uninstall.sh, if it is still there; it may fail.
UninstallOld(i) ==
    LET a == inst[i].agent
        there == Scripts(inst[i].hookver, a)
    IN  /\ At(i, "uninstall")
        /\ \/ there /\ hook' = [hook EXCEPT ![a] = 0] /\ UNCHANGED boundVars
           \/ there /\ Fault /\ UNCHANGED hook
           \/ ~ there /\ UNCHANGED <<hook, boundVars>>
        /\ Goto(i, "install")
        /\ UNCHANGED <<check, diskVars, daemon, entries, historyVars>>

\* install.sh; the install command records what the current pointer says.
InstallNew(i) ==
    LET a == inst[i].agent
    IN  /\ At(i, "install") /\ Scripts(inst[i].version, a)
        /\ hook' = [hook EXCEPT ![a] = inst[i].version]
        /\ had' = had \cup {a} /\ drift' = drift \ {a}
        /\ Step(i, [inst[i] EXCEPT !.pc = "write", !.entry = Entry("installed",
                        IF inst[i].cmd = "install" THEN current ELSE inst[i].version)])
        /\ UNCHANGED <<check, diskVars, daemon, entries, boundVars, overlap, torn, halted, retried>>

InstallTrusted(i) ==                                \* mutant: the script's exit status is ignored
    /\ At(i, "install") /\ Fault
    /\ hook' = [hook EXCEPT ![inst[i].agent] = 0]
    /\ Step(i, [inst[i] EXCEPT !.pc = "write", !.entry = Entry("installed", inst[i].version)])
    /\ UNCHANGED <<check, diskVars, daemon, entries, historyVars>>

\* It fails or is not there.  The install command only warns.
InstallFails(i) ==
    LET a == inst[i].agent
        there == Scripts(inst[i].version, a)
        warns == inst[i].cmd = "install"
    IN  /\ At(i, "install")
        /\ \/ there /\ Fault /\ \E v \in {0, hook[a]} : hook' = [hook EXCEPT ![a] = v]
           \/ ~ there /\ UNCHANGED <<hook, boundVars>>
        /\ had' = IF warns THEN had \ {a} ELSE had
        /\ drift' = IF warns THEN drift \cup {a} ELSE drift
        /\ Step(i, [inst[i] EXCEPT !.pc = IF warns THEN "write" ELSE "restore",
                                   !.entry = IF warns THEN Entry("installed", current) ELSE Missing])
        /\ UNCHANGED <<check, diskVars, daemon, entries, overlap, torn, halted, retried>>

RestoreGivesUp(i) ==                                \* mutant: the old hook is not installed again
    /\ At(i, "restore")
    /\ Step(i, [inst[i] EXCEPT !.pc = "write", !.entry = Entry("error", inst[i].hookver)])
    /\ UNCHANGED <<check, diskVars, daemon, hookVars, boundVars, historyVars>>

\* The recorded version's install.sh, if it is still there; it may fail too.
RestoreOld(i) ==
    LET a == inst[i].agent
        there == Scripts(inst[i].hookver, a)
    IN  /\ At(i, "restore")
        /\ \/ there /\ hook' = [hook EXCEPT ![a] = inst[i].hookver] /\ UNCHANGED <<boundVars, had>>
           \/ there /\ Fault /\ had' = had \ {a} /\ UNCHANGED hook
           \/ ~ there /\ had' = had \ {a} /\ UNCHANGED <<hook, boundVars>>
        /\ Step(i, [inst[i] EXCEPT !.pc = "write", !.entry = Entry("error", inst[i].hookver)])
        /\ UNCHANGED <<check, diskVars, daemon, entries, overlap, torn, halted, drift, retried>>

\* write_hook_state_entry: the file is read, then a new one takes its place.
ReadEntries(i) ==
    /\ At(i, "write")
    /\ Step(i, [inst[i] EXCEPT !.pc = "replace", !.seen = entries])
    /\ UNCHANGED <<check, diskVars, daemon, hookVars, boundVars, historyVars>>

Lost(seen) == {a \in Agents : entries[a] # seen[a]}

\* After a failed health check the upgrade ends here.
WriteEntry(i) ==
    /\ At(i, "replace")
    /\ entries' = [inst[i].seen EXCEPT ![inst[i].agent] = inst[i].entry]
    /\ drift' = drift \cup (Lost(inst[i].seen) \ {inst[i].agent})
    /\ IF inst[i].cmd = "upgrade" /\ inst[i].agent = UpgradeMark THEN Exit(i)
       ELSE Step(i, [inst[i] EXCEPT !.pc = "hooks", !.agent = NoAgent, !.seen = <<>>, !.entry = Missing,
                                    !.hookver = 0])
    /\ UNCHANGED <<check, diskVars, daemon, hook, boundVars, overlap, torn, halted, had, retried>>

KeepCurrent == {current}                            \* mutant: the previous version goes too

KeptVersions == {current, previous}

\* All hooks are done: an upgrade collects old versions, an install restarts the daemon.
HooksDone(i) ==
    /\ At(i, "hooks") /\ Todo(i) = {}
    /\ dirs' = IF inst[i].cmd = "upgrade" THEN dirs \cap KeptVersions ELSE dirs
    /\ IF inst[i].cmd = "install" THEN Goto(i, "restart") ELSE Exit(i)
    /\ halted' = (halted /\ inst[i].cmd \in {"retry", "retry one"})
    /\ retried' = (inst[i].cmd = "retry")
    /\ UNCHANGED <<check, current, previous, service, daemon, hookVars, boundVars,
                   overlap, torn, drift, had>>

-----------------------------------------------------------------------------
(* The uninstallation of everything (cmd_uninstall).                       *)

\* The service stops; the current version's directory is looked into for hooks.
StopService(i) ==
    /\ At(i, "stop")
    /\ daemon' = Down
    /\ inst' = [Without(Cgroup) EXCEPT ![i] =
           [inst[i] EXCEPT !.pc = "unhook", !.agents = IF inst[i].version \in dirs THEN Agents ELSE {}]]
    /\ Mourn(Cgroup)
    /\ UNCHANGED <<check, diskVars, hookVars, boundVars>>

\* The uninstall.sh of each agent's hook; a failure is only warned of.
Unhook(i) ==
    /\ At(i, "unhook")
    /\ \E a \in inst[i].agents :
         /\ Step(i, [inst[i] EXCEPT !.agents = @ \ {a}])
         /\ LET there == Scripts(inst[i].version, a)
            IN  \/ /\ there /\ hook' = [hook EXCEPT ![a] = 0]
                   /\ had' = had \ {a} /\ drift' = drift \cup {a} /\ UNCHANGED boundVars
                \/ there /\ Fault /\ UNCHANGED <<hook, had, drift>>
                \/ ~ there /\ UNCHANGED <<hook, had, drift, boundVars>>
    /\ UNCHANGED <<check, diskVars, daemon, entries, overlap, torn, halted, retried>>

Unhooked(i) ==
    /\ At(i, "unhook") /\ inst[i].agents = {}
    /\ Goto(i, "unload")
    /\ UNCHANGED <<check, diskVars, daemon, hookVars, boundVars, historyVars>>

\* uninstall-langstash.sh of that version, if both it and the service file are
\* there, stops the service and removes the file; its failure is ignored.
UnloadService(i) ==
    /\ At(i, "unload")
    /\ LET next == [inst[i] EXCEPT !.pc = "versions"]
       IN  IF inst[i].version \in dirs /\ service # 0
           THEN /\ daemon' = Down
                /\ inst' = [Without(Cgroup) EXCEPT ![i] = next] /\ Mourn(Cgroup)
                /\ \/ service' = 0 /\ UNCHANGED boundVars
                   \/ Fault /\ UNCHANGED service
           ELSE Step(i, next) /\ UNCHANGED <<service, daemon, boundVars, historyVars>>
    /\ UNCHANGED <<check, dirs, current, previous, hookVars>>

\* rm -rf versions, one after the other, while the pointers still name them.
RemoveVersion(i) ==
    /\ At(i, "versions")
    /\ \E v \in dirs : dirs' = dirs \ {v} /\ torn' = torn \cup {v}
    /\ UNCHANGED <<check, current, previous, service, daemon, hookVars, inst, boundVars,
                   overlap, halted, drift, had, retried>>

VersionsRemoved(i) ==
    /\ At(i, "versions") /\ dirs = {}
    /\ Goto(i, "forget current")
    /\ UNCHANGED <<check, diskVars, daemon, hookVars, boundVars, historyVars>>

\* rm -f current previous hook-state.json, in this order.
ForgetCurrent(i) ==
    /\ At(i, "forget current")
    /\ current' = 0
    /\ Goto(i, "forget previous")
    /\ UNCHANGED <<check, dirs, previous, service, daemon, hookVars, boundVars, historyVars>>

ForgetPrevious(i) ==
    /\ At(i, "forget previous")
    /\ previous' = 0 /\ torn' = {}
    /\ Goto(i, "forget entries")
    /\ UNCHANGED <<check, dirs, current, service, daemon, hookVars, boundVars,
                   overlap, halted, drift, had, retried>>

ForgetEntries(i) ==
    /\ At(i, "forget entries")
    /\ entries' = [a \in Names |-> Missing]
    /\ halted' = FALSE /\ drift' = {}
    /\ Goto(i, "unlink service")
    /\ UNCHANGED <<check, diskVars, daemon, hook, boundVars, overlap, torn, had, retried>>

\* A service file the script has left goes, without a stop; --purge takes .update-check too.
UnlinkService(i) ==
    /\ At(i, "unlink service")
    /\ service' = 0 /\ check' \in {check, 0}
    /\ Exit(i)
    /\ UNCHANGED <<dirs, current, previous, daemon, hookVars, boundVars, historyVars>>

-----------------------------------------------------------------------------
(* The daemon, and what else may happen.                                   *)

\* It exits (POST /restart, a crash, a new login) and the service manager starts it.
ServiceRestarts ==
    /\ service # 0 /\ Fault
    /\ daemon' = Started(service)
    /\ inst' = Without(Cgroup) /\ Mourn(Cgroup)
    /\ UNCHANGED <<check, diskVars, hookVars>>

\* probe_hook_states, at every start, before the server answers: the file is
\* read, the agents' settings are looked at, and the file is written.
ProbeLoad ==
    /\ daemon.pc = "starting"
    /\ daemon' = [pc |-> "probed", seen |-> entries]
    /\ UNCHANGED <<check, diskVars, hookVars, inst, boundVars, historyVars>>

Probed(entry, a) ==
    IF entry.status = "installed" /\ hook[a] = 0 THEN Entry("error", entry.version)
    ELSE IF entry.status = "" THEN Entry("not_installed", 0) ELSE entry

ProbeSave ==
    /\ daemon.pc = "probed"
    /\ daemon' = [pc |-> "up", seen |-> <<>>]
    /\ entries' = [a \in Names |-> IF a \in Agents THEN Probed(daemon.seen[a], a) ELSE daemon.seen[a]]
    /\ drift' = drift \cup Lost(daemon.seen)
    /\ UNCHANGED <<check, diskVars, hook, inst, boundVars, overlap, torn, halted, had, retried>>

\* The agent rewrites its settings without the hook.
AgentOverwrites(a) ==
    /\ hook[a] # 0 /\ Fault
    /\ hook' = [hook EXCEPT ![a] = 0]
    /\ had' = had \ {a} /\ drift' = drift \cup {a}
    /\ UNCHANGED <<check, diskVars, daemon, entries, inst, overlap, torn, halted, retried>>

Die(i) ==
    /\ inst[i].pc \notin {"idle", "unpack"} /\ Fault
    /\ inst' = Without({i}) /\ Mourn({i})
    /\ UNCHANGED <<check, diskVars, daemon, hookVars>>

\* A machine without langstash, or one with version 1 and every hook.
Init ==
    /\ systemd \in BOOLEAN /\ check = 0 /\ previous = 0
    /\ \E v \in {0, 1} :
         /\ current = v /\ service = v /\ dirs = {v} \ {0}
         /\ daemon = IF v = 0 THEN Down ELSE [Down EXCEPT !.pc = "up"]
         /\ hook = [a \in Agents |-> v]
         /\ entries = [a \in Names |-> IF v = 0 \/ a = UpgradeMark THEN Missing ELSE Entry("installed", v)]
         /\ had = IF v = 0 THEN {} ELSE Agents
    /\ inst = [i \in Installers |-> Idle]
    /\ commands = 0 /\ faults = 0
    /\ overlap = FALSE /\ torn = {} /\ halted = FALSE /\ drift = {} /\ retried = FALSE

Command(i) ==
    \/ CmdInstall(i) \/ CmdUpgrade(i) \/ PostUpgrade(i) \/ CmdRollback(i)
    \/ CmdRetryHooks(i) \/ PostRetryHooks(i) \/ CmdUninstall(i)

Installer(i) ==
    \/ Unpack(i) \/ DownloadFails(i) \/ Place(i) \/ WritePrevious(i) \/ WriteCurrent(i)
    \/ InstallService(i) \/ Restart(i) \/ Healthy(i) \/ Unhealthy(i)
    \/ NextHook(i) \/ UninstallOld(i) \/ InstallNew(i) \/ InstallFails(i) \/ RestoreOld(i)
    \/ ReadEntries(i) \/ WriteEntry(i) \/ HooksDone(i)

Uninstaller(i) ==
    \/ StopService(i) \/ Unhook(i) \/ Unhooked(i) \/ UnloadService(i)
    \/ RemoveVersion(i) \/ VersionsRemoved(i)
    \/ ForgetCurrent(i) \/ ForgetPrevious(i) \/ ForgetEntries(i) \/ UnlinkService(i)

Next ==
    \/ \E i \in Installers : Command(i) \/ Installer(i) \/ Uninstaller(i) \/ Die(i)
    \/ Check \/ ServiceRestarts \/ ProbeLoad \/ ProbeSave
    \/ \E a \in Agents : AgentOverwrites(a)

Spec == Init /\ [][Next]_vars

-----------------------------------------------------------------------------

\* The pointers name versions that are there: collecting old versions, a
\* death between the two pointers and a rollback leave none without its
\* directory.  Excused are a directory that is being replaced or whose
\* replacement died (the old one goes before the new one comes), the
\* directories an uninstallation has removed until it has removed the pointers
\* too (if it dies in between, they stay without them), and installers that
\* ran side by side.
PointersNameDirs ==
    overlap \/ {current, previous} \ {0} \subseteq
        dirs \cup torn \cup {inst[i].version : i \in {j \in Installers : At(j, "place")}}

\* An entry that says installed names the version of the hook the agent
\* really runs, while nobody works on it: the order of the scripts and of the
\* entry, a restored hook and the probe of a starting daemon keep them
\* together.  Excused are install's warnings, a death on the way, a hook that
\* an uninstallation has removed while the entries are still there, an
\* overwritten setting, and an entry lost between a read and a write.
EntriesTellTruth ==
    overlap \/ \A a \in Agents \ drift :
        entries[a].status = "installed" /\ NobodyOn(a) => hook[a] = entries[a].version

MismatchAgents ==
    {a \in Agents : entries[a].status = "installed" /\ entries[a].version \notin {0, current}}

\* Once no installer runs, no hook is of another version than the current
\* one without an error: upgrades and rollbacks take every hook along, also
\* those that an earlier failure left behind.  Excused are an installer that
\* stopped behind the pointers (an uninstallation: between the pointers and
\* the entries), lost entries and installers side by side.
HooksFollowCurrent ==
    (\A i \in Installers : At(i, "idle")) /\ ~ overlap /\ ~ halted => MismatchAgents \subseteq drift

\* A hook that worked is still there when nobody works on it: an upgrade, a
\* rollback or a retry that fails has installed the old one again, also
\* beside other installers.  Excused are an uninstallation, a death on the
\* way, an overwritten setting, an old version that cannot be installed or is
\* no longer there, and the failed script of an install, which only warns.
HookNotLost == \A a \in had : NobodyOn(a) => hook[a] # 0

\* The specification of the versioned upgrade says (R-5, verification) that an
\* installer killed after the pointer swap and before the hooks can be made
\* good with --retry-hooks.  A retry looks at entries that say error.
RetryRecovers == retried /\ FailedHooks = {} => MismatchAgents = {}
=============================================================================
