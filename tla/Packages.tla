-------------------------------- MODULE Packages --------------------------------
(***************************************************************************)
(* The extension packages of a user (src/package.c, src/registry.c): the   *)
(* directories of the extension home, and the commands install, rollback   *)
(* and remove, which several processes may run at once.  There is no lock: *)
(* a command is a sequence of calls of the file system, any of which may   *)
(* fail, and it may be killed between any two.                             *)
(*                                                                         *)
(* A rename of a directory fails when there is none, or when the new name  *)
(* is that of a directory that is not empty.                               *)
(***************************************************************************)
EXTENDS Integers, Sequences, FiniteSets, SequencesExt

CONSTANTS
    Processes,
    Names, Versions,    \* of packages; versions are numbered as they are released
    Text(_),            \* the place of a version among the versions as strings
    Longer(_),          \* the names that begin with this name and a hyphen
    Resolved,           \* the plans registries resolve a name to (module Registry)
    MaxCommands,        \* bound: commands
    Mishaps             \* bound: calls that fail though they could succeed, commands killed

ASSUME BoundAssumption == MaxCommands \in Nat /\ Mishaps \in Nat

(* A plan has a package at most once: resolve looks whether it is there.     *)
ASSUME PlanAssumption ==
    /\ Versions \subseteq Nat \ {0}
    /\ \A plan \in Resolved :
          /\ plan # <<>>
          /\ plan \in Seq([name : Names, version : Versions,
                           needs : Seq([name : Names, versions : SUBSET Versions])])
          /\ \A i, j \in DOMAIN plan : plan[i].name = plan[j].name => i = j

VARIABLES
    active,     \* the tree of each package in use
    history,    \* .history: trees by the name and version in their directory's name
    proc,       \* the command of each process
    hidden,     \* trees in directories commands have left behind
    commands, faults, crashes,
    trees,      \* auxiliary: how many trees were copied
    previous,   \* auxiliary: the tree the last upgrade of a package has replaced
    before,     \* auxiliary: active and history as a command found them
    alone       \* auxiliary: no other command ran at the same time

vars == <<active, history, proc, hidden, commands, faults, crashes, trees, previous, before, alone>>

NoTree == [id |-> 0, pkg |-> "", version |-> 0, state |-> "none"]

Keys == Names \X Versions

Idle ==
    [cmd |-> "none", pc |-> "idle", upgrade |-> FALSE, plan |-> <<>>, n |-> 0, undo |-> FALSE,
     name |-> "", old |-> 0, selected |-> <<>>, staged |-> NoTree, displaced |-> NoTree, ok |-> TRUE,
     failures |-> 0]

TypeOK ==
    /\ \A t \in {active[n] : n \in Names} \cup {history[k] : k \in Keys} :
          t = NoTree \/ (t.pkg \in Names /\ t.version \in Versions /\ t.state \in {"copying", "whole", "cut"})
    /\ \A p \in Processes :
          /\ proc[p].cmd \in {"none", "install", "rollback", "remove"}
          /\ proc[p].pc \in {"idle", "look", "copy", "backup", "commit", "undo", "read", "scan", "displace",
                             "restore", "keep", "open", "unlink", "ended"}
          /\ proc[p].n \in 0..Len(proc[p].plan) + 1
          /\ proc[p].pc = "ended" => proc[p].staged = NoTree
    /\ commands <= MaxCommands /\ faults + crashes <= Mishaps

Init ==
    /\ active = [n \in Names |-> NoTree] /\ history = [k \in Keys |-> NoTree]
    /\ proc = [p \in Processes |-> Idle]
    /\ hidden = {} /\ commands = 0 /\ faults = 0 /\ crashes = 0
    /\ trees = 0 /\ previous = [n \in Names |-> 0]
    /\ before = [p \in Processes |-> <<active, history>>]
    /\ alone = [p \in Processes |-> TRUE]

-----------------------------------------------------------------------------
(* Steps.                                                                    *)

At(p, pc) == proc[p].pc = pc
Put(p, r) == proc' = [proc EXCEPT ![p] = r]
KeepTrees == UNCHANGED <<active, history, hidden, previous>>
KeepCounts == UNCHANGED <<commands, crashes, before, alone, trees>>

(* A call works when it can, and may fail nevertheless.                      *)
Works(can) == can /\ UNCHANGED faults
Fails(can) ==
    \/ ~can /\ UNCHANGED faults
    \/ can /\ faults + crashes < Mishaps /\ faults' = faults + 1

Ended(r, ok) == [r EXCEPT !.pc = "ended", !.ok = ok, !.staged = NoTree]

(* A package of the plan is installed, or the installed ones are undone.     *)
Installed(r) ==
    IF r.n = Len(r.plan) THEN Ended(r, TRUE)
    ELSE [r EXCEPT !.pc = "look", !.n = @ + 1, !.staged = NoTree]

NotInstalled(r) ==
    [r EXCEPT !.pc = "undo", !.undo = TRUE, !.n = @ - 1, !.staged = NoTree, !.failures = faults']

RolledBack(r) == IF r.undo THEN [r EXCEPT !.pc = "undo"] ELSE Ended(r, TRUE)
NotRolledBack(r) == IF r.undo THEN [r EXCEPT !.pc = "open"] ELSE Ended(r, FALSE)
Removed(r, ok) == IF r.undo THEN [r EXCEPT !.pc = "undo"] ELSE Ended(r, ok)

(* A command is given: a local package, a plan of a registry with its        *)
(* payload verified, or a name.                                              *)
Plans ==
    { <<[name |-> n, version |-> v, needs |-> <<>>]>> : n \in Names, v \in Versions } \cup Resolved

Command(p) ==
    /\ At(p, "idle") /\ commands < MaxCommands
    /\ commands' = commands + 1
    /\ \/ \E plan \in Plans, upgrade \in BOOLEAN :
             Put(p, [Idle EXCEPT !.cmd = "install", !.pc = "look", !.plan = plan, !.n = 1, !.upgrade = upgrade])
       \/ \E n \in Names : Put(p, [Idle EXCEPT !.cmd = "rollback", !.pc = "read", !.name = n])
       \/ \E n \in Names : Put(p, [Idle EXCEPT !.cmd = "remove", !.pc = "open", !.name = n])
    /\ before' = [before EXCEPT ![p] = <<active, history>>]
    /\ LET others == {q \in Processes \ {p} : ~At(q, "idle")}
       IN alone' = [q \in Processes |-> IF q = p THEN others = {}
                                        ELSE IF q \in others THEN FALSE ELSE alone[q]]
    /\ KeepTrees /\ UNCHANGED <<faults, crashes, trees>>

(* The command returns; or it is killed and leaves its directories behind.   *)
Exit(p) ==
    /\ At(p, "ended") /\ Put(p, Idle)
    /\ hidden' = hidden \cup ({proc[p].displaced.id} \ {0})
    /\ UNCHANGED <<active, history, previous, faults>> /\ KeepCounts

Crash(p) ==
    /\ ~At(p, "idle") /\ ~At(p, "ended") /\ faults + crashes < Mishaps
    /\ crashes' = crashes + 1 /\ Put(p, Idle)
    /\ hidden' = hidden \cup ({proc[p].displaced.id} \ {0})
    /\ UNCHANGED <<active, history, previous, faults, commands, before, alone, trees>>

-----------------------------------------------------------------------------
(* hhy_package_install.                                                      *)

Item(r) == r.plan[r.n]
Backup(r) == <<r.name, r.old>>

(* The package is looked at, and the one it replaces; the staging directory  *)
(* of this process is created.                                               *)
Look(p) ==
    /\ At(p, "look")
    /\ LET name == Item(proc[p]).name
           r == [proc[p] EXCEPT !.name = name]
           there == active[name]
           usable == there = NoTree \/ (r.upgrade /\ there.state = "whole")
       IN \/ /\ Works(usable)
             /\ Put(p, [r EXCEPT !.pc = "copy", !.old = there.version,
                           !.staged = [id |-> trees + 1, pkg |-> name, version |-> Item(r).version,
                                       state |-> "copying"]])
             /\ trees' = trees + 1
          \/ Fails(usable) /\ Put(p, NotInstalled(r)) /\ UNCHANGED trees
    /\ KeepTrees /\ UNCHANGED <<commands, crashes, before, alone>>

(* A copy that is renamed before it is whole.                               *)
CopyMutant(p) ==
    /\ At(p, "copy")
    /\ Works(TRUE) /\ Put(p, [proc[p] EXCEPT !.pc = IF proc[p].old = 0 THEN "commit" ELSE "backup"])
    /\ KeepTrees /\ KeepCounts

(* Everything is copied and verified there, or removed again.                *)
Copy(p) ==
    /\ At(p, "copy")
    /\ \/ /\ Works(TRUE)
          /\ Put(p, [proc[p] EXCEPT !.pc = IF proc[p].old = 0 THEN "commit" ELSE "backup",
                                    !.staged.state = "whole"])
       \/ Fails(TRUE) /\ Put(p, NotInstalled(proc[p]))
    /\ KeepTrees /\ KeepCounts

(* A backup that replaces the version kept before.                          *)
BackUpMutant(p) ==
    /\ At(p, "backup")
    /\ LET r == proc[p]
       IN /\ Works(active[r.name] # NoTree)
          /\ history' = [history EXCEPT ![Backup(r)] = active[r.name]]
          /\ active' = [active EXCEPT ![r.name] = NoTree]
          /\ Put(p, [r EXCEPT !.pc = "commit"])
    /\ UNCHANGED <<hidden, previous>> /\ KeepCounts

(* The replaced package goes to the history, unless its version is there.    *)
BackUp(p) ==
    /\ At(p, "backup")
    /\ LET r == proc[p]
           can == active[r.name] # NoTree /\ history[Backup(r)] = NoTree
       IN \/ /\ Works(can)
             /\ history' = [history EXCEPT ![Backup(r)] = active[r.name]]
             /\ active' = [active EXCEPT ![r.name] = NoTree]
             /\ Put(p, [r EXCEPT !.pc = "commit"])
          \/ Fails(can) /\ Put(p, NotInstalled(r)) /\ UNCHANGED <<active, history>>
    /\ UNCHANGED <<hidden, previous>> /\ KeepCounts

(* A commit whose failure leaves the backup where it is.                    *)
CommitFailsMutant(p) ==
    /\ At(p, "commit")
    /\ Fails(active[proc[p].name] = NoTree)
    /\ Put(p, NotInstalled(proc[p])) /\ KeepTrees /\ KeepCounts

Commit(p) ==
    /\ At(p, "commit")
    /\ LET r == proc[p]
       IN /\ Works(active[r.name] = NoTree)
          /\ active' = [active EXCEPT ![r.name] = r.staged]
          /\ previous' = [previous EXCEPT ![r.name] = IF r.old = 0 THEN 0 ELSE history[Backup(r)].id]
          /\ Put(p, Installed(r))
    /\ UNCHANGED <<history, hidden>> /\ KeepCounts

(* The replaced package comes back, if that is possible.                     *)
CommitFails(p) ==
    /\ At(p, "commit")
    /\ LET r == proc[p]
           free == active[r.name] = NoTree
       IN /\ Fails(free)
          /\ IF r.old # 0 /\ free /\ history[Backup(r)] # NoTree
             THEN /\ active' = [active EXCEPT ![r.name] = history[Backup(r)]]
                  /\ history' = [history EXCEPT ![Backup(r)] = NoTree]
             ELSE UNCHANGED <<active, history>>
          /\ Put(p, NotInstalled(r))
    /\ UNCHANGED <<hidden, previous>> /\ KeepCounts

(* hhy_registry_install undoes what it has installed, the last one first.    *)
Undo(p) ==
    /\ At(p, "undo")
    /\ LET r == proc[p]
       IN Put(p, IF r.n = 0 THEN Ended(r, FALSE)
                 ELSE [r EXCEPT !.pc = IF r.upgrade THEN "read" ELSE "open",
                                !.name = Item(r).name, !.n = @ - 1])
    /\ KeepTrees /\ KeepCounts /\ UNCHANGED faults

-----------------------------------------------------------------------------
(* hhy_package_rollback.                                                     *)

Read(p) ==
    /\ At(p, "read")
    /\ LET r == proc[p]
           can == active[r.name].state = "whole"
       IN \/ Works(can) /\ Put(p, [r EXCEPT !.pc = "scan", !.old = active[r.name].version])
          \/ Fails(can) /\ Put(p, NotRolledBack(r))
    /\ KeepTrees /\ KeepCounts

(* The directories of the history whose names begin with the package's name  *)
(* and a hyphen, and of those one whose version is the last as a string.     *)
Candidates(name) ==
    {k \in Keys : history[k].state = "whole" /\ k[1] \in {name} \cup Longer(name)}

Scan(p) ==
    /\ At(p, "scan")
    /\ LET r == proc[p]
           found == Candidates(r.name)
       IN \/ \E k \in found :
                /\ \A l \in found : Text(history[l].version) <= Text(history[k].version)
                /\ Put(p, [r EXCEPT !.pc = "displace", !.selected = k])
          \/ found = {} /\ Put(p, NotRolledBack(r))
    /\ KeepTrees /\ KeepCounts /\ UNCHANGED faults

(* The directory is named after the process and the package: one that an     *)
(* earlier rollback of the same undoing could not put back stays as it is.   *)
Displace(p) ==
    /\ At(p, "displace")
    /\ LET r == proc[p]
           can == active[r.name] # NoTree
       IN \/ /\ Works(can)
             /\ Put(p, [r EXCEPT !.pc = "restore", !.displaced = active[r.name]])
             /\ active' = [active EXCEPT ![r.name] = NoTree]
             /\ hidden' = hidden \cup ({r.displaced.id} \ {0})
          \/ Fails(can) /\ Put(p, NotRolledBack(r)) /\ UNCHANGED <<active, hidden>>
    /\ UNCHANGED <<history, previous>> /\ KeepCounts

(* rename(displaced, target), wherever it is called.                         *)
PutBack(r, tree, name) ==
    IF tree[name] = NoTree
    THEN active' = [tree EXCEPT ![name] = r.displaced]
    ELSE active' = tree

Kept(r, tree) == [r EXCEPT !.displaced = IF tree[r.name] = NoTree THEN NoTree ELSE @]

Restore(p) ==
    /\ At(p, "restore")
    /\ LET r == proc[p]
           can == active[r.name] = NoTree /\ history[r.selected] # NoTree
       IN \/ /\ Works(can)
             /\ active' = [active EXCEPT ![r.name] = history[r.selected]]
             /\ history' = [history EXCEPT ![r.selected] = NoTree]
             /\ Put(p, [r EXCEPT !.pc = "keep"])
          \/ /\ Fails(can)
             /\ PutBack(r, active, r.name)
             /\ Put(p, NotRolledBack(Kept(r, active)))
             /\ UNCHANGED history
    /\ UNCHANGED <<hidden, previous>> /\ KeepCounts

Keep(p) ==
    /\ At(p, "keep")
    /\ LET r == proc[p]
       IN /\ Works(history[Backup(r)] = NoTree)
          /\ history' = [history EXCEPT ![Backup(r)] = r.displaced]
          /\ Put(p, RolledBack([r EXCEPT !.displaced = NoTree]))
          /\ previous' = [previous EXCEPT ![r.name] = 0]
    /\ UNCHANGED <<active, hidden>> /\ KeepCounts

(* There is such a version in the history: both are taken back.              *)
KeepFails(p) ==
    /\ At(p, "keep")
    /\ LET r == proc[p]
           back == active[r.name] # NoTree /\ history[r.selected] = NoTree
           left == IF back THEN [active EXCEPT ![r.name] = NoTree] ELSE active
       IN /\ Fails(history[Backup(r)] = NoTree)
          /\ history' = IF back THEN [history EXCEPT ![r.selected] = active[r.name]] ELSE history
          /\ PutBack(r, left, r.name)
          /\ Put(p, NotRolledBack(Kept(r, left)))
    /\ UNCHANGED <<hidden, previous>> /\ KeepCounts

-----------------------------------------------------------------------------
(* hhy_package_remove: it unlinks the recorded files one by one, wherever    *)
(* the name then leads, and last the directories.                            *)

Open(p) ==
    /\ At(p, "open")
    /\ LET r == proc[p]
           can == active[r.name].state = "whole" /\ active[r.name].pkg = r.name
       IN \/ /\ Works(can)
             /\ active' = [active EXCEPT ![r.name].state = "cut"]
             /\ Put(p, [r EXCEPT !.pc = "unlink"])
          \/ Fails(can) /\ Put(p, Removed(r, FALSE)) /\ UNCHANGED active
    /\ UNCHANGED <<history, hidden, previous>> /\ KeepCounts

Unlink(p) ==
    /\ At(p, "unlink")
    /\ LET r == proc[p]
           ours == active[r.name].state = "cut"
       IN \/ /\ Works(ours)
             /\ active' = [active EXCEPT ![r.name] = NoTree]
             /\ previous' = [previous EXCEPT ![r.name] = 0]
             /\ Put(p, Removed(r, TRUE))
          \/ /\ Fails(ours)
             /\ active' = IF active[r.name] = NoTree THEN active
                          ELSE [active EXCEPT ![r.name].state = "cut"]
             /\ Put(p, Removed(r, FALSE)) /\ UNCHANGED previous
    /\ UNCHANGED <<history, hidden>> /\ KeepCounts

-----------------------------------------------------------------------------
InstallSteps(p) == Look(p) \/ Copy(p) \/ BackUp(p) \/ Commit(p) \/ CommitFails(p) \/ Undo(p)
RollbackSteps(p) == Read(p) \/ Scan(p) \/ Displace(p) \/ Restore(p) \/ Keep(p) \/ KeepFails(p)
RemoveSteps(p) == Open(p) \/ Unlink(p)

Next == \E p \in Processes :
    Command(p) \/ InstallSteps(p) \/ RollbackSteps(p) \/ RemoveSteps(p) \/ Exit(p) \/ Crash(p)

Spec == Init /\ [][Next]_vars

-----------------------------------------------------------------------------
InUse == {active[n].id : n \in Names} \cup {history[k].id : k \in Keys} \cup hidden
            \cup {proc[p].displaced.id : p \in Processes}

(* An installed version is never lost: whatever commands run side by side,   *)
(* fail and are killed, its tree stays in use, in the history or in a        *)
(* directory left behind, until a remove takes it (package.c:347-357,        *)
(* 393-406).                                                                 *)
NoVersionLost ==
    [][\A id \in InUse \ {0} :
          \/ id \in InUse'
          \/ \E p \in Processes : At(p, "unlink") /\ active[proc[p].name].id = id]_vars

(* Whoever looks for a package finds it copied and verified: a tree that is  *)
(* still being copied is neither in use nor in the history (package.c:352).  *)
OnlyVerified ==
    /\ \A n \in Names : active[n].state # "copying"
    /\ \A k \in Keys : history[k].state # "copying"

(* docs/EXTENSION_REGISTRY_V1.md:29 and :70: a rollback that fails keeps the *)
(* active tree, and an installation that fails replaces nothing and removes  *)
(* what it has added.  Of a command that runs alone and in which at most one *)
(* call fails, not one of those that undo it; and not of an upgrade of       *)
(* several packages, which is undone by rollbacks.                           *)
FailureChangesNothing ==
    \A p \in Processes :
        At(p, "ended") /\ ~proc[p].ok /\ alone[p] /\ proc[p].cmd # "remove"
            /\ (proc[p].upgrade => Len(proc[p].plan) = 1)
            /\ (proc[p].undo => proc[p].failures = faults)
        => <<active, history>> = before[p] /\ proc[p].displaced = NoTree

(* The store is well typed, and whatever it holds is verified.               *)
StoreIsSound == TypeOK /\ OnlyVerified

(* docs/EXTENSION_REGISTRY_V1.md:29: rollback restores the previous version, *)
(* the one the last upgrade has replaced.                                    *)
RollbackRestoresPrevious ==
    [][\A p \in Processes :
          At(p, "keep") /\ proc'[p].pc = "ended" /\ proc'[p].ok
          => previous[proc[p].name] \in {0, active'[proc[p].name].id}]_vars
=============================================================================
