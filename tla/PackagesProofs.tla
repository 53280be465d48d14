----------------------------- MODULE PackagesProofs -----------------------------
(***************************************************************************)
(* Theorems about Packages, for every number of processes, commands,       *)
(* failures and kills: the store is well typed, whoever looks for a        *)
(* package finds a verified one, no version is lost, and a command that    *)
(* fails alone leaves everything as it was.                                *)
(***************************************************************************)
EXTENDS Packages, SequenceTheorems, TLAPS

Tree ==
    {NoTree} \cup [id : Nat \ {0}, pkg : Names, version : Versions,
                   state : {"copying", "whole", "cut"}]

Installing == {"look", "copy", "backup", "commit"}
RollingBack == {"read", "scan", "displace", "restore", "keep"}
Removing == {"open", "unlink"}
Pcs == {"idle", "undo", "ended"} \cup Installing \cup RollingBack \cup Removing

CommandType ==
    [cmd : {"none", "install", "rollback", "remove"}, pc : Pcs, upgrade : BOOLEAN,
     plan : Plans \cup {<<>>}, n : Nat, undo : BOOLEAN, name : Names \cup {""},
     old : Versions \cup {0}, selected : Keys \cup {<<>>}, staged : Tree, displaced : Tree,
     ok : BOOLEAN, failures : Nat]

StoreType ==
    /\ active \in [Names -> Tree] /\ history \in [Keys -> Tree]
    /\ proc \in [Processes -> CommandType]
    /\ commands \in 0..MaxCommands /\ faults \in Nat /\ crashes \in Nat /\ faults + crashes <= Mishaps
    /\ trees \in Nat

-----------------------------------------------------------------------------
(* What a command knows at each of its places.                               *)

OfPlan(r) == r.cmd = "install" /\ r.plan \in Plans

Knows(r) ==
    /\ r.pc = "idle" => r = Idle
    /\ r.pc \in Installing => OfPlan(r) /\ ~r.undo /\ r.n \in 1..Len(r.plan)
    /\ r.pc = "undo" => r.undo
    /\ r.undo => OfPlan(r) /\ r.n \in 0..Len(r.plan)
    /\ ~r.undo /\ r.pc \in RollingBack => r.cmd = "rollback"
    /\ ~r.undo /\ r.pc \in Removing => r.cmd = "remove"
    /\ r.pc \in RollingBack \cup Removing => r.name \in Names
    /\ r.pc \in {"copy", "backup", "commit"} => r.name = Item(r).name /\ r.staged # NoTree
    /\ r.pc \in {"backup", "commit"} => r.staged.state = "whole"
    /\ r.pc = "backup" => r.old # 0
    /\ r.pc \in {"scan", "displace", "restore", "keep"} => r.old # 0
    /\ r.pc \in {"displace", "restore", "keep"} => r.selected \in Keys
    /\ r.pc \in {"restore", "keep"} => r.displaced # NoTree
    /\ r.pc = "ended" => r.staged = NoTree
    /\ r.n <= Len(r.plan)

Verified(r) == r.displaced.state # "copying"

IInv ==
    /\ StoreType
    /\ \A p \in Processes : Knows(proc[p]) /\ Verified(proc[p])
    /\ OnlyVerified

-----------------------------------------------------------------------------
(* What a command that runs alone has done so far: it found the packages     *)
(* and the history as a, and they are b.                                     *)

(* The packages of the plan that are installed.                              *)
Done(r, n) == {r.plan[i].name : i \in 1..n}

(* They were not there, and everything else is as it was.                    *)
Added(S, a, b) ==
    /\ b[2] = a[2]
    /\ \A m \in Names \ S : b[1][m] = a[1][m]
    /\ \A m \in Names \cap S : a[1][m] = NoTree /\ b[1][m].state = "whole" /\ b[1][m].pkg = m

InstallSoFar(r, a, b) ==
    /\ r.displaced = NoTree
    /\ r.pc \in {"copy", "backup", "commit"} => r.staged.pkg = r.name
    /\ r.pc \in Installing /\ ~r.upgrade =>
          /\ Added(Done(r, r.n - 1), a, b)
          /\ r.pc # "look" => r.old = 0 /\ r.pc # "backup" /\ a[1][r.name] = NoTree
    /\ r.pc \in Installing /\ r.upgrade =>
          /\ r.pc # "commit" \/ r.old = 0 => b = a
          /\ r.pc = "commit" /\ r.old # 0 =>
                /\ a[1][r.name] # NoTree /\ a[2][Backup(r)] = NoTree
                /\ b[1] = [a[1] EXCEPT ![r.name] = NoTree]
                /\ b[2] = [a[2] EXCEPT ![Backup(r)] = a[1][r.name]]
    /\ r.pc \notin RollingBack
    /\ r.undo /\ r.upgrade => r.n = 0 /\ r.pc \in {"undo", "ended"} /\ b = a
    /\ r.pc = "undo" /\ ~r.upgrade => Added(Done(r, r.n), a, b)
    /\ r.pc \in Removing =>
          /\ r.n < Len(r.plan) /\ r.name = r.plan[r.n + 1].name
          /\ r.pc = "open" => Added(Done(r, r.n + 1), a, b)
          /\ r.pc = "unlink" =>
                /\ b[1][r.name].state = "cut"
                /\ Added(Done(r, r.n), a, <<[b[1] EXCEPT ![r.name] = NoTree], b[2]>>)
    /\ r.pc = "ended" /\ ~r.ok => b = a

RollbackSoFar(r, a, b) ==
    /\ r.pc \in {"read", "scan", "displace"} => b = a /\ r.displaced = NoTree
    /\ r.pc \in {"displace", "restore", "keep"} => a[2][r.selected] # NoTree
    /\ r.pc \in {"restore", "keep"} => r.displaced = a[1][r.name]
    /\ r.pc = "restore" => b = <<[a[1] EXCEPT ![r.name] = NoTree], a[2]>>
    /\ r.pc = "keep" =>
          b = <<[a[1] EXCEPT ![r.name] = a[2][r.selected]], [a[2] EXCEPT ![r.selected] = NoTree]>>
    /\ r.pc = "ended" /\ ~r.ok => b = a /\ r.displaced = NoTree

(* It is one of those FailureChangesNothing speaks of, at f failures.        *)
Undoes(r, f) ==
    /\ r.upgrade => Len(r.plan) = 1
    /\ r.undo => r.failures = f

AloneInv ==
    /\ before \in [Processes -> [Names -> Tree] \X [Keys -> Tree]]
    /\ alone \in [Processes -> BOOLEAN]
    /\ \A p \in Processes : proc[p].failures <= faults
    /\ \A p \in Processes : alone[p] /\ proc[p].pc # "idle" =>
          /\ \A q \in Processes \ {p} : proc[q].pc = "idle"
          /\ proc[p].cmd # "none"
          /\ proc[p].cmd = "install" /\ Undoes(proc[p], faults)
             => InstallSoFar(proc[p], before[p], <<active, history>>)
          /\ proc[p].cmd = "rollback" => RollbackSoFar(proc[p], before[p], <<active, history>>)

-----------------------------------------------------------------------------
(* Plans and commands.                                                       *)

LEMMA PlanIs ==
    ASSUME NEW plan \in Plans
    PROVE  /\ Len(plan) \in Nat \ {0} /\ DOMAIN plan = 1..Len(plan)
           /\ \A i \in 1..Len(plan) : plan[i].name \in Names /\ plan[i].version \in Versions
           /\ \A i, j \in 1..Len(plan) : plan[i].name = plan[j].name => i = j
<1>1. CASE plan \in Resolved
  <2> DEFINE P == [name : Names, version : Versions,
                   needs : Seq([name : Names, versions : SUBSET Versions])]
  <2>1. /\ plan # <<>> /\ plan \in Seq(P)
        /\ \A i, j \in DOMAIN plan : plan[i].name = plan[j].name => i = j
    BY <1>1, PlanAssumption
  <2>2. \A x \in P : x.name \in Names /\ x.version \in Versions
    OBVIOUS
  <2> HIDE DEF P
  <2>3. Len(plan) \in Nat \ {0} /\ DOMAIN plan = 1..Len(plan) /\ \A i \in 1..Len(plan) : plan[i] \in P
    BY <2>1, LenProperties, EmptySeq, ElementOfSeq
  <2> QED BY <2>1, <2>2, <2>3
<1>2. CASE plan \in { <<[name |-> n, version |-> v, needs |-> <<>>]>> : n \in Names, v \in Versions }
  <2>1. PICK n \in Names, v \in Versions : plan = <<[name |-> n, version |-> v, needs |-> <<>>]>>
    BY <1>2
  <2>2. Len(plan) = 1 /\ DOMAIN plan = 1..1 /\ plan[1].name = n /\ plan[1].version = v
    BY <2>1
  <2>3. \A i \in 1..1 : i = 1
    OBVIOUS
  <2> QED BY <2>2, <2>3
<1> QED BY <1>1, <1>2 DEF Plans

LEMMA NoTreeIs == NoTree \in Tree /\ NoTree.id = 0 /\ NoTree.version = 0 /\ NoTree.state = "none"
BY DEF NoTree, Tree

LEMMA TreeIs ==
    ASSUME NEW t \in Tree, t # NoTree
    PROVE  /\ t.id \in Nat \ {0} /\ t.pkg \in Names /\ t.version \in Versions
           /\ t.state \in {"copying", "whole", "cut"} /\ t.version # 0
BY PlanAssumption DEF Tree

LEMMA IdleIs == Idle \in CommandType /\ Idle.pc = "idle" /\ Knows(Idle) /\ Verified(Idle)
BY NoTreeIs DEF Idle, CommandType, Pcs, Knows, Verified, Installing, RollingBack, Removing

-----------------------------------------------------------------------------
(* The steps keep the store sound.                                           *)

(* What a step of process p, which makes its command s, has to show.         *)
LEMMA StoreStep ==
    ASSUME IInv, NEW p \in Processes, NEW s \in CommandType, Put(p, s), Knows(s), Verified(s),
           active' \in [Names -> Tree], history' \in [Keys -> Tree], OnlyVerified',
           commands' \in 0..MaxCommands, faults' \in Nat, crashes' \in Nat,
           faults' + crashes' <= Mishaps, trees' \in Nat
    PROVE  IInv'
<1>1. proc' \in [Processes -> CommandType] /\ proc'[p] = s
      /\ \A q \in Processes \ {p} : proc'[q] = proc[q]
  BY DEF Put, IInv, StoreType
<1>2. \A q \in Processes : Knows(proc'[q]) /\ Verified(proc'[q])
  BY <1>1 DEF IInv
<1> QED BY <1>1, <1>2 DEF IInv, StoreType

LEMMA FaultsStep ==
    ASSUME IInv, NEW can, Works(can) \/ Fails(can), UNCHANGED crashes
    PROVE  faults' \in Nat /\ crashes' \in Nat /\ faults' + crashes' <= Mishaps
           /\ faults <= faults' /\ (faults' = faults \/ faults' = faults + 1)
BY BoundAssumption DEF Works, Fails, IInv, StoreType

LEMMA KeptCounts ==
    ASSUME IInv, KeepCounts, NEW can, Works(can) \/ Fails(can)
    PROVE  /\ commands' \in 0..MaxCommands /\ faults' \in Nat /\ crashes' \in Nat
           /\ faults' + crashes' <= Mishaps /\ trees' \in Nat
BY FaultsStep DEF KeepCounts, IInv, StoreType

LEMMA KeptTrees ==
    ASSUME IInv, UNCHANGED <<active, history>>
    PROVE  active' \in [Names -> Tree] /\ history' \in [Keys -> Tree] /\ OnlyVerified'
BY DEF IInv, StoreType, OnlyVerified

LEMMA ProcIs ==
    ASSUME IInv, NEW p \in Processes
    PROVE  proc[p] \in CommandType /\ Knows(proc[p]) /\ Verified(proc[p])
BY DEF IInv, StoreType

LEMMA EndedIs ==
    ASSUME NEW r \in CommandType, NEW ok \in BOOLEAN, Verified(r), r.n <= Len(r.plan),
           r.undo => OfPlan(r) /\ r.n \in 0..Len(r.plan)
    PROVE  Ended(r, ok) \in CommandType /\ Knows(Ended(r, ok)) /\ Verified(Ended(r, ok))
<1> DEFINE s == Ended(r, ok)
<1>1. s \in CommandType
  BY NoTreeIs DEF Ended, CommandType, Pcs
<1>2. /\ s.pc = "ended" /\ s.staged = NoTree /\ s.n = r.n /\ s.plan = r.plan /\ s.undo = r.undo
      /\ s.cmd = r.cmd /\ s.displaced = r.displaced
  BY DEF Ended, CommandType
<1> HIDE DEF s
<1>3. Knows(s)
  BY <1>2 DEF Knows, OfPlan, Installing, RollingBack, Removing
<1>4. Verified(s)
  BY <1>2 DEF Verified
<1> QED BY <1>1, <1>3, <1>4 DEF s

LEMMA InstalledIs ==
    ASSUME NEW r \in CommandType, Verified(r), OfPlan(r), r.n \in 1..Len(r.plan), ~r.undo
    PROVE  Installed(r) \in CommandType /\ Knows(Installed(r)) /\ Verified(Installed(r))
<1>0. Len(r.plan) \in Nat
  BY PlanIs DEF OfPlan
<1>1. CASE r.n = Len(r.plan)
  <2>1. Ended(r, TRUE) \in CommandType /\ Knows(Ended(r, TRUE)) /\ Verified(Ended(r, TRUE))
    <3>1. r.n <= Len(r.plan) /\ (r.undo => OfPlan(r) /\ r.n \in 0..Len(r.plan)) /\ TRUE \in BOOLEAN
      BY <1>0, <1>1
    <3> QED BY <3>1, EndedIs
  <2> QED BY <1>1, <2>1 DEF Installed
<1>2. CASE r.n # Len(r.plan)
  <2> DEFINE s == [r EXCEPT !.pc = "look", !.n = @ + 1, !.staged = NoTree]
  <2>0. r.n + 1 \in Nat
    BY <1>0
  <2>1. s \in CommandType
    BY <2>0, NoTreeIs DEF CommandType, Pcs, Installing
  <2>2. /\ s.pc = "look" /\ s.n = r.n + 1 /\ s.plan = r.plan /\ s.undo = r.undo
        /\ s.cmd = r.cmd /\ s.displaced = r.displaced
    BY DEF CommandType
  <2> HIDE DEF s
  <2>3. Knows(s) /\ Verified(s)
    BY <1>0, <1>2, <2>2 DEF Knows, Verified, OfPlan, Installing, RollingBack, Removing
  <2> QED BY <1>2, <2>1, <2>3 DEF Installed, s
<1> QED BY <1>1, <1>2

LEMMA NotInstalledIs ==
    ASSUME NEW r \in CommandType, Verified(r), OfPlan(r), r.n \in 1..Len(r.plan), faults' \in Nat
    PROVE  NotInstalled(r) \in CommandType /\ Knows(NotInstalled(r)) /\ Verified(NotInstalled(r))
<1>0. Len(r.plan) \in Nat
  BY PlanIs DEF OfPlan
<1> DEFINE s == NotInstalled(r)
<1>1. s \in CommandType
  <2>1. r.n - 1 \in Nat
    BY <1>0
  <2> QED BY <2>1, NoTreeIs DEF NotInstalled, CommandType, Pcs
<1>2. /\ s.pc = "undo" /\ s.n = r.n - 1 /\ s.plan = r.plan /\ s.undo = TRUE
      /\ s.cmd = r.cmd /\ s.displaced = r.displaced
  BY DEF NotInstalled, CommandType
<1> HIDE DEF s
<1>3. Knows(s) /\ Verified(s)
  BY <1>0, <1>2 DEF Knows, Verified, OfPlan, Installing, RollingBack, Removing
<1> QED BY <1>1, <1>3 DEF s

(* What a command that leaves off has to have kept.                          *)
Leaves(r) ==
    /\ Verified(r) /\ r.n <= Len(r.plan)
    /\ r.undo => OfPlan(r) /\ r.n \in 0..Len(r.plan)

LEMMA LeavesIs ==
    ASSUME NEW r, Knows(r), Verified(r)
    PROVE  Leaves(r)
BY DEF Knows, Leaves

(* A command that goes on to a place that only an undoing has left behind.   *)
LEMMA GoesOn ==
    ASSUME NEW r \in CommandType, Leaves(r), r.undo,
           NEW pc \in {"undo", "open"}, pc = "open" => r.name \in Names
    PROVE  LET s == [r EXCEPT !.pc = pc] IN s \in CommandType /\ Knows(s) /\ Verified(s)
<1> DEFINE s == [r EXCEPT !.pc = pc]
<1>1. s \in CommandType
  BY DEF CommandType, Pcs, Removing
<1>2. /\ s.pc = pc /\ s.n = r.n /\ s.plan = r.plan /\ s.undo = r.undo
      /\ s.cmd = r.cmd /\ s.displaced = r.displaced /\ s.name = r.name
  BY DEF CommandType
<1> HIDE DEF s
<1>3. Knows(s) /\ Verified(s)
  BY <1>2 DEF Leaves, Knows, Verified, OfPlan, Installing, RollingBack, Removing
<1> QED BY <1>1, <1>3 DEF s

LEMMA NotRolledBackIs ==
    ASSUME NEW r \in CommandType, Leaves(r), r.name \in Names
    PROVE  /\ NotRolledBack(r) \in CommandType /\ Knows(NotRolledBack(r))
           /\ Verified(NotRolledBack(r))
<1>1. r.undo \in BOOLEAN /\ FALSE \in BOOLEAN
  BY DEF CommandType
<1>2. CASE r.undo
  BY <1>1, <1>2, GoesOn DEF NotRolledBack
<1>3. CASE ~r.undo
  <2>1. Ended(r, FALSE) \in CommandType /\ Knows(Ended(r, FALSE)) /\ Verified(Ended(r, FALSE))
    BY <1>1, EndedIs DEF Leaves
  <2> QED BY <1>3, <2>1 DEF NotRolledBack
<1> QED BY <1>1, <1>2, <1>3

LEMMA RolledBackIs ==
    ASSUME NEW r \in CommandType, Leaves(r)
    PROVE  RolledBack(r) \in CommandType /\ Knows(RolledBack(r)) /\ Verified(RolledBack(r))
<1>1. r.undo \in BOOLEAN /\ TRUE \in BOOLEAN
  BY DEF CommandType
<1>2. CASE r.undo
  BY <1>1, <1>2, GoesOn DEF RolledBack
<1>3. CASE ~r.undo
  <2>1. Ended(r, TRUE) \in CommandType /\ Knows(Ended(r, TRUE)) /\ Verified(Ended(r, TRUE))
    BY <1>1, EndedIs DEF Leaves
  <2> QED BY <1>3, <2>1 DEF RolledBack
<1> QED BY <1>1, <1>2, <1>3

LEMMA RemovedIs ==
    ASSUME NEW r \in CommandType, Leaves(r), NEW ok \in BOOLEAN
    PROVE  Removed(r, ok) \in CommandType /\ Knows(Removed(r, ok)) /\ Verified(Removed(r, ok))
<1>1. r.undo \in BOOLEAN
  BY DEF CommandType
<1>2. CASE r.undo
  BY <1>1, <1>2, GoesOn DEF Removed
<1>3. CASE ~r.undo
  <2>1. Ended(r, ok) \in CommandType /\ Knows(Ended(r, ok)) /\ Verified(Ended(r, ok))
    BY <1>1, EndedIs DEF Leaves
  <2> QED BY <1>3, <2>1 DEF Removed
<1> QED BY <1>1, <1>2, <1>3

LEMMA ItemIs ==
    ASSUME NEW r \in CommandType, OfPlan(r), r.n \in 1..Len(r.plan)
    PROVE  Item(r).name \in Names /\ Item(r).version \in Versions
BY PlanIs DEF OfPlan, Item

(* The first place of a command.                                             *)
Starts(s) ==
    /\ s.displaced = NoTree /\ ~s.undo /\ s.failures = 0
    /\ \/ s.cmd = "install" /\ s.pc = "look" /\ s.n = 1
       \/ s.cmd = "rollback" /\ s.pc = "read"
       \/ s.cmd = "remove" /\ s.pc = "open"

LEMMA CommandIs ==
    ASSUME NEW p \in Processes, Command(p)
    PROVE  \E s \in CommandType : Put(p, s) /\ Knows(s) /\ Verified(s) /\ Starts(s)
<1>1. ASSUME NEW plan \in Plans, NEW upgrade \in BOOLEAN, NEW s,
             s = [Idle EXCEPT !.cmd = "install", !.pc = "look", !.plan = plan, !.n = 1,
                              !.upgrade = upgrade]
      PROVE  s \in CommandType /\ Knows(s) /\ Verified(s) /\ Starts(s)
  <2>1. s \in CommandType
    BY <1>1, NoTreeIs DEF Idle, CommandType, Pcs, Installing
  <2>2. /\ s.pc = "look" /\ s.cmd = "install" /\ s.plan = plan /\ s.n = 1 /\ ~s.undo
        /\ s.displaced = NoTree /\ s.failures = 0
    BY <1>1 DEF Idle
  <2>3. Len(plan) \in Nat \ {0}
    BY PlanIs
  <2> QED BY <2>1, <2>2, <2>3, NoTreeIs
    DEF Starts, Knows, Verified, OfPlan, Installing, RollingBack, Removing
<1>2. ASSUME NEW n \in Names, NEW s,
             \/ s = [Idle EXCEPT !.cmd = "rollback", !.pc = "read", !.name = n]
             \/ s = [Idle EXCEPT !.cmd = "remove", !.pc = "open", !.name = n]
      PROVE  s \in CommandType /\ Knows(s) /\ Verified(s) /\ Starts(s)
  <2>1. s \in CommandType
    <3>1. CASE s = [Idle EXCEPT !.cmd = "rollback", !.pc = "read", !.name = n]
      BY <3>1, NoTreeIs DEF Idle, CommandType, Pcs, RollingBack
    <3>2. CASE s = [Idle EXCEPT !.cmd = "remove", !.pc = "open", !.name = n]
      BY <3>2, NoTreeIs DEF Idle, CommandType, Pcs, Removing
    <3> QED BY <1>2, <3>1, <3>2
  <2>2. /\ \/ s.pc = "read" /\ s.cmd = "rollback"
           \/ s.pc = "open" /\ s.cmd = "remove"
        /\ s.name = n /\ s.plan = <<>> /\ s.n = 0 /\ ~s.undo /\ s.displaced = NoTree
        /\ s.failures = 0
    BY <1>2 DEF Idle
  <2>3. Len(s.plan) = 0
    BY <2>2, EmptySeq
  <2> QED BY <2>1, <2>2, <2>3, NoTreeIs
    DEF Starts, Knows, Verified, OfPlan, Installing, RollingBack, Removing
<1> QED BY <1>1, <1>2 DEF Command

LEMMA CommandStep ==
    ASSUME IInv, NEW p \in Processes, Command(p)
    PROVE  IInv'
<1>1. /\ UNCHANGED <<active, history, faults, crashes, trees>> /\ commands' = commands + 1
      /\ commands < MaxCommands
  BY DEF Command, KeepTrees
<1>2. /\ active' \in [Names -> Tree] /\ history' \in [Keys -> Tree] /\ OnlyVerified'
      /\ commands' \in 0..MaxCommands /\ faults' \in Nat /\ crashes' \in Nat
      /\ faults' + crashes' <= Mishaps /\ trees' \in Nat
  <2>1. active' \in [Names -> Tree] /\ history' \in [Keys -> Tree] /\ OnlyVerified'
    BY <1>1, KeptTrees
  <2>2. commands' \in 0..MaxCommands
    BY <1>1, BoundAssumption DEF IInv, StoreType
  <2> QED BY <1>1, <2>1, <2>2 DEF IInv, StoreType
<1>3. PICK s \in CommandType : Put(p, s) /\ Knows(s) /\ Verified(s)
  BY CommandIs
<1> QED BY <1>2, <1>3, StoreStep

LEMMA LeavesStep ==
    ASSUME IInv, NEW p \in Processes, Exit(p) \/ Crash(p)
    PROVE  IInv'
<1>1. /\ Put(p, Idle) /\ UNCHANGED <<active, history, commands, faults, trees>>
      /\ crashes' \in Nat /\ faults' + crashes' <= Mishaps
  BY BoundAssumption DEF Exit, Crash, KeepCounts, IInv, StoreType
<1>2. active' \in [Names -> Tree] /\ history' \in [Keys -> Tree] /\ OnlyVerified'
  BY <1>1, KeptTrees
<1>3. commands' \in 0..MaxCommands /\ faults' \in Nat /\ trees' \in Nat
  BY <1>1 DEF IInv, StoreType
<1> QED BY <1>1, <1>2, <1>3, IdleIs, StoreStep

LEMMA LookStep ==
    ASSUME IInv, NEW p \in Processes, Look(p)
    PROVE  IInv'
<1> DEFINE q == proc[p]
           name == Item(q).name
           r == [q EXCEPT !.name = name]
           there == active[name]
           usable == there = NoTree \/ (r.upgrade /\ there.state = "whole")
           t == [id |-> trees + 1, pkg |-> name, version |-> Item(r).version, state |-> "copying"]
           s == [r EXCEPT !.pc = "copy", !.old = there.version, !.staged = t]
<1>1. /\ q \in CommandType /\ Knows(q) /\ Verified(q) /\ q.pc = "look"
      /\ OfPlan(q) /\ ~q.undo /\ q.n \in 1..Len(q.plan)
  BY ProcIs DEF Look, At, Knows, Installing
<1>2. name \in Names /\ Item(q).version \in Versions
  BY <1>1, ItemIs
<1>3. /\ r \in CommandType /\ r.n = q.n /\ r.plan = q.plan /\ r.undo = q.undo /\ r.cmd = q.cmd
      /\ r.displaced = q.displaced /\ r.name = name /\ Item(r) = Item(q) /\ r.pc = q.pc
  BY <1>1, <1>2 DEF CommandType, Item
<1>4. OfPlan(r) /\ Verified(r)
  BY <1>1, <1>3 DEF OfPlan, Verified
<1>5. there \in Tree /\ there.version \in Versions \cup {0} /\ trees + 1 \in Nat \ {0}
  BY <1>2, NoTreeIs, TreeIs DEF IInv, StoreType
<1>6. t \in Tree /\ t # NoTree
  BY <1>2, <1>3, <1>5 DEF Tree, NoTree
<1>7. /\ UNCHANGED <<active, history, commands, crashes>>
      /\ \/ Works(usable) /\ Put(p, s) /\ trees' = trees + 1
         \/ Fails(usable) /\ Put(p, NotInstalled(r)) /\ UNCHANGED trees
  BY DEF Look, KeepTrees
<1> HIDE DEF there, usable, t
<1>8. s \in CommandType /\ Knows(s) /\ Verified(s)
  <2>1. s \in CommandType
    BY <1>3, <1>5, <1>6 DEF CommandType, Pcs, Installing
  <2>2. /\ s.pc = "copy" /\ s.n = q.n /\ s.plan = q.plan /\ s.undo = q.undo /\ s.cmd = q.cmd
        /\ s.displaced = q.displaced /\ s.name = name /\ s.staged = t /\ Item(s) = Item(q)
    BY <1>3 DEF CommandType, Item
  <2> HIDE DEF s, r, name, q
  <2>3. s.name = Item(s).name
    BY <2>2 DEF name
  <2> QED BY <1>1, <1>2, <1>6, <2>1, <2>2, <2>3
    DEF Knows, Verified, OfPlan, Installing, RollingBack, Removing
<1> HIDE DEF s, r, name, q
<1>9. faults' \in Nat /\ crashes' \in Nat /\ faults' + crashes' <= Mishaps
  BY <1>7, FaultsStep
<1>10. NotInstalled(r) \in CommandType /\ Knows(NotInstalled(r)) /\ Verified(NotInstalled(r))
  BY <1>1, <1>3, <1>4, <1>9, NotInstalledIs
<1>11. active' \in [Names -> Tree] /\ history' \in [Keys -> Tree] /\ OnlyVerified'
  BY <1>7, KeptTrees
<1>12. commands' \in 0..MaxCommands /\ trees' \in Nat
  BY <1>5, <1>7 DEF IInv, StoreType
<1>13. CASE Put(p, s)
  BY <1>8, <1>9, <1>11, <1>12, <1>13, StoreStep
<1>14. CASE Put(p, NotInstalled(r))
  BY <1>9, <1>10, <1>11, <1>12, <1>14, StoreStep
<1> QED BY <1>7, <1>13, <1>14
(* A tree is put in a place, or taken from it.                               *)
LEMMA TreesStep ==
    ASSUME IInv,
           \/ active' = active
           \/ \E n \in Names, t \in Tree : t.state # "copying" /\ active' = [active EXCEPT ![n] = t],
           \/ history' = history
           \/ \E k \in Keys, t \in Tree : t.state # "copying" /\ history' = [history EXCEPT ![k] = t]
    PROVE  active' \in [Names -> Tree] /\ history' \in [Keys -> Tree] /\ OnlyVerified'
<1>1. active' \in [Names -> Tree] /\ \A n \in Names : active'[n].state # "copying"
  BY DEF IInv, StoreType, OnlyVerified
<1>2. history' \in [Keys -> Tree] /\ \A k \in Keys : history'[k].state # "copying"
  BY DEF IInv, StoreType, OnlyVerified
<1> QED BY <1>1, <1>2 DEF OnlyVerified

LEMMA ActiveIs ==
    ASSUME IInv, NEW n \in Names
    PROVE  active[n] \in Tree /\ active[n].state # "copying"
BY DEF IInv, StoreType, OnlyVerified

LEMMA HistoryIs ==
    ASSUME IInv, NEW k \in Keys
    PROVE  history[k] \in Tree /\ history[k].state # "copying"
BY DEF IInv, StoreType, OnlyVerified

LEMMA CopyStep ==
    ASSUME IInv, NEW p \in Processes, Copy(p)
    PROVE  IInv'
<1> DEFINE q == proc[p]
           t == [q.staged EXCEPT !.state = "whole"]
           s == [q EXCEPT !.pc = IF q.old = 0 THEN "commit" ELSE "backup", !.staged.state = "whole"]
<1>1. /\ q \in CommandType /\ Knows(q) /\ Verified(q) /\ q.pc = "copy"
      /\ OfPlan(q) /\ ~q.undo /\ q.n \in 1..Len(q.plan) /\ q.name = Item(q).name
      /\ q.staged # NoTree /\ q.staged \in Tree /\ q.name \in Names /\ q.n <= Len(q.plan)
  <2>1. q \in CommandType /\ Knows(q) /\ Verified(q) /\ q.pc = "copy"
    BY ProcIs DEF Copy, At
  <2>2. /\ OfPlan(q) /\ ~q.undo /\ q.n \in 1..Len(q.plan) /\ q.name = Item(q).name
        /\ q.staged # NoTree /\ q.n <= Len(q.plan)
    BY <2>1 DEF Knows, Installing
  <2>3. q.staged \in Tree /\ Item(q).name \in Names
    BY <2>1, <2>2, ItemIs DEF CommandType
  <2> QED BY <2>1, <2>2, <2>3
<1>2. /\ KeepTrees /\ KeepCounts /\ (Works(TRUE) \/ Fails(TRUE))
      /\ Put(p, s) \/ Put(p, NotInstalled(q))
  BY DEF Copy
<1>3. t \in Tree /\ t # NoTree /\ t.state = "whole"
  BY <1>1 DEF Tree, NoTree
<1>4. s \in CommandType /\ Knows(s) /\ Verified(s)
  <2>1. s \in CommandType
    <3>1. s = [q EXCEPT !.pc = IF q.old = 0 THEN "commit" ELSE "backup", !.staged = t]
      BY <1>1 DEF CommandType
    <3> HIDE DEF t, s
    <3> QED BY <1>1, <1>3, <3>1 DEF CommandType, Pcs, Installing
  <2>2. /\ s.pc = (IF q.old = 0 THEN "commit" ELSE "backup") /\ s.n = q.n /\ s.plan = q.plan
        /\ s.undo = q.undo /\ s.cmd = q.cmd /\ s.displaced = q.displaced /\ s.name = q.name
        /\ s.staged = t /\ s.old = q.old /\ Item(s) = Item(q)
    BY <1>1 DEF CommandType, Item
  <2> HIDE DEF s, q, t
  <2> QED BY <1>1, <1>3, <2>1, <2>2 DEF Knows, Verified, OfPlan, Installing, RollingBack, Removing
<1> HIDE DEF s, q
<1>5. /\ commands' \in 0..MaxCommands /\ faults' \in Nat /\ crashes' \in Nat
      /\ faults' + crashes' <= Mishaps /\ trees' \in Nat
  BY <1>2, KeptCounts
<1>6. active' \in [Names -> Tree] /\ history' \in [Keys -> Tree] /\ OnlyVerified'
  BY <1>2, KeptTrees DEF KeepTrees
<1>7. NotInstalled(q) \in CommandType /\ Knows(NotInstalled(q)) /\ Verified(NotInstalled(q))
  BY <1>1, <1>5, NotInstalledIs
<1>8. CASE Put(p, s)
  BY <1>4, <1>5, <1>6, <1>8, StoreStep
<1>9. CASE Put(p, NotInstalled(q))
  BY <1>5, <1>6, <1>7, <1>9, StoreStep
<1> QED BY <1>2, <1>8, <1>9

(* What a command knows when it moves a package it installs.                 *)
LEMMA InstallingIs ==
    ASSUME NEW q \in CommandType, Knows(q), q.pc \in {"backup", "commit"}
    PROVE  /\ OfPlan(q) /\ ~q.undo /\ q.n \in 1..Len(q.plan) /\ q.name = Item(q).name
           /\ q.name \in Names /\ q.staged \in Tree \ {NoTree} /\ q.staged.state = "whole"
           /\ (q.old # 0 => Backup(q) \in Keys) /\ (q.pc = "backup" => q.old # 0)
<1>1. /\ OfPlan(q) /\ ~q.undo /\ q.n \in 1..Len(q.plan) /\ q.name = Item(q).name
      /\ q.staged # NoTree /\ q.staged.state = "whole" /\ (q.pc = "backup" => q.old # 0)
  BY DEF Knows, Installing
<1>2. q.staged \in Tree /\ q.name \in Names /\ q.old \in Versions \cup {0}
  BY <1>1, ItemIs DEF CommandType
<1> QED BY <1>1, <1>2 DEF Backup, Keys

LEMMA BackUpStep ==
    ASSUME IInv, NEW p \in Processes, BackUp(p)
    PROVE  IInv'
<1> DEFINE q == proc[p]
           can == active[q.name] # NoTree /\ history[Backup(q)] = NoTree
           s == [q EXCEPT !.pc = "commit"]
<1>1. q \in CommandType /\ Knows(q) /\ Verified(q) /\ q.pc = "backup"
  BY ProcIs DEF BackUp, At
<1>2. /\ OfPlan(q) /\ ~q.undo /\ q.n \in 1..Len(q.plan) /\ q.name = Item(q).name
      /\ q.name \in Names /\ q.staged \in Tree \ {NoTree} /\ q.staged.state = "whole"
      /\ q.old # 0 /\ Backup(q) \in Keys
  BY <1>1, InstallingIs
<1>3. /\ KeepCounts
      /\ \/ /\ Works(can) /\ Put(p, s)
            /\ history' = [history EXCEPT ![Backup(q)] = active[q.name]]
            /\ active' = [active EXCEPT ![q.name] = NoTree]
         \/ Fails(can) /\ Put(p, NotInstalled(q)) /\ UNCHANGED <<active, history>>
  BY DEF BackUp
<1>4. s \in CommandType /\ Knows(s) /\ Verified(s)
  <2>1. s \in CommandType
    BY <1>1 DEF CommandType, Pcs, Installing
  <2>2. /\ s.pc = "commit" /\ s.n = q.n /\ s.plan = q.plan
        /\ s.undo = q.undo /\ s.cmd = q.cmd /\ s.displaced = q.displaced /\ s.name = q.name
        /\ s.staged = q.staged /\ s.old = q.old /\ Item(s) = Item(q)
    BY <1>1 DEF CommandType, Item
  <2> HIDE DEF s, q
  <2>3. q.n <= Len(q.plan)
    BY <1>1 DEF Knows
  <2> QED BY <1>1, <1>2, <2>1, <2>2, <2>3
    DEF Knows, Verified, OfPlan, Installing, RollingBack, Removing
<1> HIDE DEF s, q, can
<1>5. /\ commands' \in 0..MaxCommands /\ faults' \in Nat /\ crashes' \in Nat
      /\ faults' + crashes' <= Mishaps /\ trees' \in Nat
  BY <1>3, KeptCounts
<1>6. active' \in [Names -> Tree] /\ history' \in [Keys -> Tree] /\ OnlyVerified'
  <2>1. active[q.name] \in Tree /\ active[q.name].state # "copying"
    BY <1>2, ActiveIs
  <2> QED BY <1>2, <1>3, <2>1, NoTreeIs, TreesStep
<1>7. NotInstalled(q) \in CommandType /\ Knows(NotInstalled(q)) /\ Verified(NotInstalled(q))
  BY <1>1, <1>2, <1>5, NotInstalledIs
<1>8. CASE Put(p, s)
  BY <1>4, <1>5, <1>6, <1>8, StoreStep
<1>9. CASE Put(p, NotInstalled(q))
  BY <1>5, <1>6, <1>7, <1>9, StoreStep
<1> QED BY <1>3, <1>8, <1>9

LEMMA CommitStep ==
    ASSUME IInv, NEW p \in Processes, Commit(p)
    PROVE  IInv'
<1> DEFINE q == proc[p]
           free == active[q.name] = NoTree
<1>1. q \in CommandType /\ Knows(q) /\ Verified(q) /\ q.pc = "commit"
  BY ProcIs DEF Commit, At
<1>2. /\ OfPlan(q) /\ ~q.undo /\ q.n \in 1..Len(q.plan)
      /\ q.name \in Names /\ q.staged \in Tree /\ q.staged.state = "whole"
  BY <1>1, InstallingIs
<1>3. /\ KeepCounts /\ Works(free) /\ Put(p, Installed(q)) /\ UNCHANGED history
      /\ active' = [active EXCEPT ![q.name] = q.staged]
  BY DEF Commit
<1> HIDE DEF q, free
<1>4. Installed(q) \in CommandType /\ Knows(Installed(q)) /\ Verified(Installed(q))
  BY <1>1, <1>2, InstalledIs
<1>5. /\ commands' \in 0..MaxCommands /\ faults' \in Nat /\ crashes' \in Nat
      /\ faults' + crashes' <= Mishaps /\ trees' \in Nat
  BY <1>3, KeptCounts
<1>6. active' \in [Names -> Tree] /\ history' \in [Keys -> Tree] /\ OnlyVerified'
  BY <1>2, <1>3, TreesStep
<1> QED BY <1>3, <1>4, <1>5, <1>6, StoreStep

LEMMA CommitFailsStep ==
    ASSUME IInv, NEW p \in Processes, CommitFails(p)
    PROVE  IInv'
<1> DEFINE q == proc[p]
           free == active[q.name] = NoTree
<1>1. q \in CommandType /\ Knows(q) /\ Verified(q) /\ q.pc = "commit"
  BY ProcIs DEF CommitFails, At
<1>2. /\ OfPlan(q) /\ q.n \in 1..Len(q.plan) /\ q.name \in Names
      /\ q.old # 0 => Backup(q) \in Keys
  BY <1>1, InstallingIs
<1>3. /\ KeepCounts /\ Fails(free) /\ Put(p, NotInstalled(q))
      /\ \/ UNCHANGED <<active, history>>
         \/ /\ q.old # 0
            /\ active' = [active EXCEPT ![q.name] = history[Backup(q)]]
            /\ history' = [history EXCEPT ![Backup(q)] = NoTree]
  BY DEF CommitFails
<1> HIDE DEF q, free
<1>5. /\ commands' \in 0..MaxCommands /\ faults' \in Nat /\ crashes' \in Nat
      /\ faults' + crashes' <= Mishaps /\ trees' \in Nat
  BY <1>3, KeptCounts
<1>6. active' \in [Names -> Tree] /\ history' \in [Keys -> Tree] /\ OnlyVerified'
  <2>1. q.old # 0 => history[Backup(q)] \in Tree /\ history[Backup(q)].state # "copying"
    BY <1>2, HistoryIs
  <2> QED BY <1>2, <1>3, <2>1, NoTreeIs, TreesStep
<1>7. NotInstalled(q) \in CommandType /\ Knows(NotInstalled(q)) /\ Verified(NotInstalled(q))
  BY <1>1, <1>2, <1>5, NotInstalledIs
<1> QED BY <1>3, <1>5, <1>6, <1>7, StoreStep

LEMMA UndoStep ==
    ASSUME IInv, NEW p \in Processes, Undo(p)
    PROVE  IInv'
<1> DEFINE q == proc[p]
           s == [q EXCEPT !.pc = IF q.upgrade THEN "read" ELSE "open", !.name = Item(q).name,
                          !.n = @ - 1]
<1>1. /\ q \in CommandType /\ Knows(q) /\ Verified(q) /\ q.undo /\ OfPlan(q)
      /\ q.n \in 0..Len(q.plan) /\ q.n <= Len(q.plan)
  BY ProcIs DEF Undo, At, Knows
<1>2. Len(q.plan) \in Nat
  BY <1>1, PlanIs DEF OfPlan
<1>3. /\ KeepTrees /\ KeepCounts /\ UNCHANGED faults
      /\ \/ q.n = 0 /\ Put(p, Ended(q, FALSE))
         \/ q.n # 0 /\ Put(p, s)
  BY DEF Undo
<1>4. ASSUME q.n # 0
      PROVE  s \in CommandType /\ Knows(s) /\ Verified(s)
  <2>1. q.n \in 1..Len(q.plan) /\ q.n - 1 \in Nat /\ q.n - 1 \in 0..Len(q.plan)
        /\ q.n - 1 <= Len(q.plan)
    BY <1>1, <1>2, <1>4
  <2>2. Item(q).name \in Names
    BY <1>1, <2>1, ItemIs
  <2>3. s \in CommandType
    BY <1>1, <2>1, <2>2 DEF CommandType, Pcs, RollingBack, Removing
  <2>4. /\ s.pc \in {"read", "open"} /\ s.n = q.n - 1 /\ s.plan = q.plan
        /\ s.undo = q.undo /\ s.cmd = q.cmd /\ s.displaced = q.displaced /\ s.name = Item(q).name
    BY <1>1 DEF CommandType
  <2> HIDE DEF s, q
  <2> QED BY <1>1, <2>1, <2>2, <2>3, <2>4
    DEF Knows, Verified, OfPlan, Installing, RollingBack, Removing
<1> HIDE DEF s, q
<1>5. Ended(q, FALSE) \in CommandType /\ Knows(Ended(q, FALSE)) /\ Verified(Ended(q, FALSE))
  BY <1>1, EndedIs
<1>6. active' \in [Names -> Tree] /\ history' \in [Keys -> Tree] /\ OnlyVerified'
  BY <1>3, KeptTrees DEF KeepTrees
<1>7. /\ commands' \in 0..MaxCommands /\ faults' \in Nat /\ crashes' \in Nat
      /\ faults' + crashes' <= Mishaps /\ trees' \in Nat
  BY <1>3, KeptCounts DEF Works
<1>8. CASE q.n = 0 /\ Put(p, Ended(q, FALSE))
  BY <1>5, <1>6, <1>7, <1>8, StoreStep
<1>9. CASE q.n # 0 /\ Put(p, s)
  BY <1>4, <1>6, <1>7, <1>9, StoreStep
<1> QED BY <1>3, <1>8, <1>9
-----------------------------------------------------------------------------
(* A rollback, on its own or to undo an upgrade.                             *)

LEMMA RollingIs ==
    ASSUME NEW q \in CommandType, Knows(q), q.pc \in RollingBack
    PROVE  /\ q.name \in Names /\ q.old \in Versions \cup {0} /\ q.displaced \in Tree
           /\ q.undo \in BOOLEAN /\ q.n <= Len(q.plan)
           /\ q.pc # "read" => q.old # 0 /\ Backup(q) \in Keys
           /\ q.pc \in {"displace", "restore", "keep"} => q.selected \in Keys
           /\ q.pc \in {"restore", "keep"} => q.displaced # NoTree
<1>1. /\ q.name \in Names /\ q.n <= Len(q.plan)
      /\ q.pc # "read" => q.old # 0
      /\ q.pc \in {"displace", "restore", "keep"} => q.selected \in Keys
      /\ q.pc \in {"restore", "keep"} => q.displaced # NoTree
  BY DEF Knows, RollingBack
<1>2. q.old \in Versions \cup {0} /\ q.displaced \in Tree /\ q.undo \in BOOLEAN
  BY DEF CommandType
<1> QED BY <1>1, <1>2 DEF Backup, Keys

LEMMA RollsOn ==
    ASSUME NEW r \in CommandType, Knows(r), r.pc \in RollingBack,
           NEW s \in CommandType, s.pc \in RollingBack,
           s.n = r.n, s.plan = r.plan, s.undo = r.undo, s.cmd = r.cmd, s.name = r.name,
           s.pc # "read" => s.old # 0,
           s.pc \in {"displace", "restore", "keep"} => s.selected \in Keys,
           s.pc \in {"restore", "keep"} => s.displaced # NoTree
    PROVE  Knows(s)
BY DEF Knows, OfPlan, Installing, RollingBack, Removing

LEMMA ReadStep ==
    ASSUME IInv, NEW p \in Processes, Read(p)
    PROVE  IInv'
<1> DEFINE q == proc[p]
           can == active[q.name].state = "whole"
           s == [q EXCEPT !.pc = "scan", !.old = active[q.name].version]
<1>1. q \in CommandType /\ Knows(q) /\ Verified(q) /\ q.pc = "read" /\ q.pc \in RollingBack
  BY ProcIs DEF Read, At, RollingBack
<1>2. q.name \in Names
  BY <1>1, RollingIs
<1>3. /\ KeepTrees /\ KeepCounts
      /\ \/ Works(can) /\ Put(p, s)
         \/ Fails(can) /\ Put(p, NotRolledBack(q))
  BY DEF Read
<1>4. ASSUME can
      PROVE  s \in CommandType /\ Knows(s) /\ Verified(s)
  <2>1. active[q.name].version \in Versions /\ active[q.name].version # 0
    BY <1>2, <1>4, ActiveIs, TreeIs, NoTreeIs
  <2>2. s \in CommandType /\ s.pc \in RollingBack
    BY <1>1, <2>1 DEF CommandType, Pcs, RollingBack
  <2>3. /\ s.pc = "scan" /\ s.n = q.n /\ s.plan = q.plan /\ s.undo = q.undo /\ s.cmd = q.cmd
        /\ s.name = q.name /\ s.displaced = q.displaced /\ s.old # 0
    BY <1>1, <2>1 DEF CommandType
  <2> HIDE DEF s, q
  <2>4. Knows(s)
    BY <1>1, <2>2, <2>3, RollsOn
  <2> QED BY <1>1, <2>2, <2>3, <2>4 DEF Verified
<1> HIDE DEF s, q, can
<1>5. /\ commands' \in 0..MaxCommands /\ faults' \in Nat /\ crashes' \in Nat
      /\ faults' + crashes' <= Mishaps /\ trees' \in Nat
  BY <1>3, KeptCounts
<1>6. active' \in [Names -> Tree] /\ history' \in [Keys -> Tree] /\ OnlyVerified'
  BY <1>3, KeptTrees DEF KeepTrees
<1>7. NotRolledBack(q) \in CommandType /\ Knows(NotRolledBack(q)) /\ Verified(NotRolledBack(q))
  BY <1>1, <1>2, LeavesIs, NotRolledBackIs
<1>8. CASE Works(can) /\ Put(p, s)
  <2>1. can
    BY <1>8 DEF Works
  <2> QED BY <1>4, <1>5, <1>6, <1>8, <2>1, StoreStep
<1>9. CASE Put(p, NotRolledBack(q))
  BY <1>5, <1>6, <1>7, <1>9, StoreStep
<1> QED BY <1>3, <1>8, <1>9

LEMMA ScanStep ==
    ASSUME IInv, NEW p \in Processes, Scan(p)
    PROVE  IInv'
<1> DEFINE q == proc[p]
<1>1. q \in CommandType /\ Knows(q) /\ Verified(q) /\ q.pc = "scan" /\ q.pc \in RollingBack
  BY ProcIs DEF Scan, At, RollingBack
<1>2. KeepTrees /\ KeepCounts /\ UNCHANGED faults
  BY DEF Scan
<1>3. q.name \in Names /\ q.old # 0
  BY <1>1, RollingIs
<1>5. /\ commands' \in 0..MaxCommands /\ faults' \in Nat /\ crashes' \in Nat
      /\ faults' + crashes' <= Mishaps /\ trees' \in Nat
  BY <1>2, KeptCounts DEF Works
<1>6. active' \in [Names -> Tree] /\ history' \in [Keys -> Tree] /\ OnlyVerified'
  BY <1>2, KeptTrees DEF KeepTrees
<1>7. NotRolledBack(q) \in CommandType /\ Knows(NotRolledBack(q)) /\ Verified(NotRolledBack(q))
  BY <1>1, <1>3, LeavesIs, NotRolledBackIs
<1>8. ASSUME NEW k \in Keys, Put(p, [q EXCEPT !.pc = "displace", !.selected = k])
      PROVE  IInv'
  <2> DEFINE s == [q EXCEPT !.pc = "displace", !.selected = k]
  <2>1. s \in CommandType /\ s.pc \in RollingBack
    BY <1>1 DEF CommandType, Pcs, RollingBack
  <2>2. /\ s.pc = "displace" /\ s.n = q.n /\ s.plan = q.plan /\ s.undo = q.undo /\ s.cmd = q.cmd
        /\ s.name = q.name /\ s.displaced = q.displaced /\ s.old = q.old /\ s.selected = k
    BY <1>1 DEF CommandType
  <2>3. Put(p, s)
    BY <1>8
  <2> HIDE DEF s, q
  <2>4. Knows(s)
    BY <1>1, <1>3, <2>1, <2>2, RollsOn
  <2>5. Verified(s)
    BY <1>1, <2>2 DEF Verified
  <2> QED BY <1>5, <1>6, <2>1, <2>3, <2>4, <2>5, StoreStep
<1>9. CASE Put(p, NotRolledBack(q))
  BY <1>5, <1>6, <1>7, <1>9, StoreStep
<1> QED BY <1>8, <1>9 DEF Scan, Candidates

LEMMA DisplaceStep ==
    ASSUME IInv, NEW p \in Processes, Displace(p)
    PROVE  IInv'
<1> DEFINE q == proc[p]
           can == active[q.name] # NoTree
           s == [q EXCEPT !.pc = "restore", !.displaced = active[q.name]]
<1>1. q \in CommandType /\ Knows(q) /\ Verified(q) /\ q.pc = "displace" /\ q.pc \in RollingBack
  BY ProcIs DEF Displace, At, RollingBack
<1>2. q.name \in Names /\ q.old # 0 /\ q.selected \in Keys
  BY <1>1, RollingIs
<1>3. /\ KeepCounts /\ UNCHANGED history
      /\ \/ Works(can) /\ Put(p, s) /\ active' = [active EXCEPT ![q.name] = NoTree]
         \/ Fails(can) /\ Put(p, NotRolledBack(q)) /\ UNCHANGED active
  BY DEF Displace
<1>4. ASSUME can
      PROVE  s \in CommandType /\ Knows(s) /\ Verified(s)
  <2>1. active[q.name] \in Tree /\ active[q.name].state # "copying" /\ active[q.name] # NoTree
    BY <1>2, <1>4, ActiveIs
  <2>2. s \in CommandType /\ s.pc \in RollingBack
    BY <1>1, <2>1 DEF CommandType, Pcs, RollingBack
  <2>3. /\ s.pc = "restore" /\ s.n = q.n /\ s.plan = q.plan /\ s.undo = q.undo /\ s.cmd = q.cmd
        /\ s.name = q.name /\ s.displaced = active[q.name] /\ s.old = q.old /\ s.selected = q.selected
    BY <1>1, <2>1 DEF CommandType
  <2> HIDE DEF s, q
  <2>4. Knows(s)
    BY <1>1, <1>2, <2>1, <2>2, <2>3, RollsOn
  <2> QED BY <2>1, <2>2, <2>3, <2>4 DEF Verified
<1> HIDE DEF s, q, can
<1>5. /\ commands' \in 0..MaxCommands /\ faults' \in Nat /\ crashes' \in Nat
      /\ faults' + crashes' <= Mishaps /\ trees' \in Nat
  BY <1>3, KeptCounts
<1>6. active' \in [Names -> Tree] /\ history' \in [Keys -> Tree] /\ OnlyVerified'
  BY <1>2, <1>3, NoTreeIs, TreesStep
<1>7. NotRolledBack(q) \in CommandType /\ Knows(NotRolledBack(q)) /\ Verified(NotRolledBack(q))
  BY <1>1, <1>2, LeavesIs, NotRolledBackIs
<1>8. CASE Works(can) /\ Put(p, s)
  <2>1. can
    BY <1>8 DEF Works
  <2> QED BY <1>4, <1>5, <1>6, <1>8, <2>1, StoreStep
<1>9. CASE Put(p, NotRolledBack(q))
  BY <1>5, <1>6, <1>7, <1>9, StoreStep
<1> QED BY <1>3, <1>8, <1>9

(* What the failure of a rename leaves of the command.                       *)
LEMMA KeptIs ==
    ASSUME NEW q \in CommandType, Leaves(q), q.name \in Names, NEW tree
    PROVE  /\ NotRolledBack(Kept(q, tree)) \in CommandType /\ Knows(NotRolledBack(Kept(q, tree)))
           /\ Verified(NotRolledBack(Kept(q, tree)))
<1> DEFINE s == Kept(q, tree)
<1>1. s \in CommandType
  BY NoTreeIs DEF Kept, CommandType
<1>2. /\ s.n = q.n /\ s.plan = q.plan /\ s.undo = q.undo /\ s.cmd = q.cmd /\ s.name = q.name
      /\ s.displaced \in {q.displaced, NoTree}
  BY DEF Kept, CommandType
<1> HIDE DEF s
<1>3. Leaves(s)
  BY <1>2, NoTreeIs DEF Leaves, Verified, OfPlan
<1>4. s.name \in Names
  BY <1>2
<1>5. NotRolledBack(s) \in CommandType /\ Knows(NotRolledBack(s)) /\ Verified(NotRolledBack(s))
  BY <1>1, <1>3, <1>4, NotRolledBackIs
<1> QED BY <1>5 DEF s

LEMMA RestoreStep ==
    ASSUME IInv, NEW p \in Processes, Restore(p)
    PROVE  IInv'
<1> DEFINE q == proc[p]
           can == active[q.name] = NoTree /\ history[q.selected] # NoTree
           s == [q EXCEPT !.pc = "keep"]
           f == NotRolledBack(Kept(q, active))
<1>1. q \in CommandType /\ Knows(q) /\ Verified(q) /\ q.pc = "restore" /\ q.pc \in RollingBack
  BY ProcIs DEF Restore, At, RollingBack
<1>2. /\ q.name \in Names /\ q.old # 0 /\ q.selected \in Keys /\ q.displaced \in Tree
      /\ q.displaced # NoTree
  BY <1>1, RollingIs
<1>3. /\ KeepCounts
      /\ \/ /\ Works(can) /\ Put(p, s)
            /\ active' = [active EXCEPT ![q.name] = history[q.selected]]
            /\ history' = [history EXCEPT ![q.selected] = NoTree]
         \/ /\ Fails(can) /\ Put(p, f) /\ UNCHANGED history
            /\ active' = active \/ active' = [active EXCEPT ![q.name] = q.displaced]
  BY DEF Restore, PutBack
<1>4. s \in CommandType /\ Knows(s) /\ Verified(s)
  <2>1. s \in CommandType /\ s.pc \in RollingBack
    BY <1>1 DEF CommandType, Pcs, RollingBack
  <2>2. /\ s.pc = "keep" /\ s.n = q.n /\ s.plan = q.plan /\ s.undo = q.undo /\ s.cmd = q.cmd
        /\ s.name = q.name /\ s.displaced = q.displaced /\ s.old = q.old /\ s.selected = q.selected
    BY <1>1 DEF CommandType
  <2> HIDE DEF s, q
  <2>3. Knows(s)
    BY <1>1, <1>2, <2>1, <2>2, RollsOn
  <2> QED BY <1>1, <2>1, <2>2, <2>3 DEF Verified
<1>7. f \in CommandType /\ Knows(f) /\ Verified(f)
  <2>1. Leaves(q)
    BY <1>1, LeavesIs
  <2> QED BY <1>1, <1>2, <2>1, KeptIs
<1> HIDE DEF s, q, can, f
<1>5. /\ commands' \in 0..MaxCommands /\ faults' \in Nat /\ crashes' \in Nat
      /\ faults' + crashes' <= Mishaps /\ trees' \in Nat
  BY <1>3, KeptCounts
<1>6. active' \in [Names -> Tree] /\ history' \in [Keys -> Tree] /\ OnlyVerified'
  <2>1. history[q.selected] \in Tree /\ history[q.selected].state # "copying"
    BY <1>2, HistoryIs
  <2>2. q.displaced.state # "copying"
    BY <1>1 DEF Verified
  <2> QED BY <1>2, <1>3, <2>1, <2>2, NoTreeIs, TreesStep
<1>8. CASE Put(p, s)
  BY <1>4, <1>5, <1>6, <1>8, StoreStep
<1>9. CASE Put(p, f)
  BY <1>5, <1>6, <1>7, <1>9, StoreStep
<1> QED BY <1>3, <1>8, <1>9

LEMMA KeepStep ==
    ASSUME IInv, NEW p \in Processes, Keep(p)
    PROVE  IInv'
<1> DEFINE q == proc[p]
           r == [q EXCEPT !.displaced = NoTree]
           can == history[Backup(q)] = NoTree
           s == RolledBack(r)
<1>1. q \in CommandType /\ Knows(q) /\ Verified(q) /\ q.pc = "keep" /\ q.pc \in RollingBack
  BY ProcIs DEF Keep, At, RollingBack
<1>2. q.name \in Names /\ q.displaced \in Tree /\ Backup(q) \in Keys
  BY <1>1, RollingIs
<1>3. /\ KeepCounts /\ Works(can) /\ Put(p, s) /\ UNCHANGED active
      /\ history' = [history EXCEPT ![Backup(q)] = q.displaced]
  BY DEF Keep
<1>4. s \in CommandType /\ Knows(s) /\ Verified(s)
  <2>1. Leaves(q)
    BY <1>1, LeavesIs
  <2>2. r \in CommandType
    BY <1>1, NoTreeIs DEF CommandType
  <2>3. /\ r.n = q.n /\ r.plan = q.plan /\ r.undo = q.undo /\ r.cmd = q.cmd
        /\ r.displaced = NoTree
    BY <1>1 DEF CommandType
  <2> HIDE DEF q, r
  <2>4. Leaves(r)
    BY <2>1, <2>3, NoTreeIs DEF Leaves, Verified, OfPlan
  <2> QED BY <2>2, <2>4, RolledBackIs
<1> HIDE DEF s, q, can
<1>5. /\ commands' \in 0..MaxCommands /\ faults' \in Nat /\ crashes' \in Nat
      /\ faults' + crashes' <= Mishaps /\ trees' \in Nat
  BY <1>3, KeptCounts
<1>6. active' \in [Names -> Tree] /\ history' \in [Keys -> Tree] /\ OnlyVerified'
  <2>1. q.displaced.state # "copying"
    BY <1>1 DEF Verified
  <2> QED BY <1>2, <1>3, <2>1, TreesStep
<1> QED BY <1>3, <1>4, <1>5, <1>6, StoreStep

LEMMA KeepFailsStep ==
    ASSUME IInv, NEW p \in Processes, KeepFails(p)
    PROVE  IInv'
<1> DEFINE q == proc[p]
           can == history[Backup(q)] = NoTree
           back == active[q.name] # NoTree /\ history[q.selected] = NoTree
           left == IF back THEN [active EXCEPT ![q.name] = NoTree] ELSE active
           f == NotRolledBack(Kept(q, left))
<1>1. q \in CommandType /\ Knows(q) /\ Verified(q) /\ q.pc = "keep" /\ q.pc \in RollingBack
  BY ProcIs DEF KeepFails, At, RollingBack
<1>2. q.name \in Names /\ q.selected \in Keys /\ q.displaced \in Tree
  BY <1>1, RollingIs
<1>3. /\ KeepCounts /\ Fails(can) /\ Put(p, f)
      /\ history' = IF back THEN [history EXCEPT ![q.selected] = active[q.name]] ELSE history
      /\ \/ active' = left
         \/ active' = [left EXCEPT ![q.name] = q.displaced]
  BY DEF KeepFails, PutBack
<1>7. f \in CommandType /\ Knows(f) /\ Verified(f)
  <2>1. Leaves(q)
    BY <1>1, LeavesIs
  <2> QED BY <1>1, <1>2, <2>1, KeptIs
<1>4. active[q.name] \in Tree /\ active[q.name].state # "copying" /\ q.displaced.state # "copying"
  BY <1>1, <1>2, ActiveIs DEF Verified
<1>6. active' \in [Names -> Tree] /\ history' \in [Keys -> Tree] /\ OnlyVerified'
  <2>1. \/ active' = active
        \/ active' = [active EXCEPT ![q.name] = NoTree]
        \/ active' = [active EXCEPT ![q.name] = q.displaced]
    BY <1>2, <1>3 DEF IInv, StoreType
  <2> HIDE DEF q
  <2> QED BY <1>2, <1>3, <1>4, <2>1, NoTreeIs, TreesStep
<1> HIDE DEF q, can, back, left, f
<1>5. /\ commands' \in 0..MaxCommands /\ faults' \in Nat /\ crashes' \in Nat
      /\ faults' + crashes' <= Mishaps /\ trees' \in Nat
  BY <1>3, KeptCounts
<1> QED BY <1>3, <1>5, <1>6, <1>7, StoreStep

-----------------------------------------------------------------------------
(* A remove, on its own or to undo an installation.                          *)

LEMMA OpenStep ==
    ASSUME IInv, NEW p \in Processes, Open(p)
    PROVE  IInv'
<1> DEFINE q == proc[p]
           can == active[q.name].state = "whole" /\ active[q.name].pkg = q.name
           s == [q EXCEPT !.pc = "unlink"]
           t == [active[q.name] EXCEPT !.state = "cut"]
<1>1. q \in CommandType /\ Knows(q) /\ Verified(q) /\ q.pc = "open" /\ q.pc \in Removing
  BY ProcIs DEF Open, At, Removing
<1>2. q.name \in Names /\ q.n <= Len(q.plan)
  BY <1>1 DEF Knows
<1>3. /\ KeepCounts /\ UNCHANGED history
      /\ \/ Works(can) /\ Put(p, s) /\ active' = [active EXCEPT ![q.name].state = "cut"]
         \/ Fails(can) /\ Put(p, Removed(q, FALSE)) /\ UNCHANGED active
  BY DEF Open
<1>4. s \in CommandType /\ Knows(s) /\ Verified(s)
  <2>1. s \in CommandType
    BY <1>1 DEF CommandType, Pcs, Removing
  <2>2. /\ s.pc = "unlink" /\ s.n = q.n /\ s.plan = q.plan /\ s.undo = q.undo /\ s.cmd = q.cmd
        /\ s.name = q.name /\ s.displaced = q.displaced
    BY <1>1 DEF CommandType
  <2> HIDE DEF s, q
  <2> QED BY <1>1, <1>2, <2>1, <2>2 DEF Knows, Verified, OfPlan, Installing, RollingBack, Removing
<1>7. /\ Removed(q, FALSE) \in CommandType /\ Knows(Removed(q, FALSE))
      /\ Verified(Removed(q, FALSE))
  <2>1. Leaves(q) /\ FALSE \in BOOLEAN
    BY <1>1, LeavesIs
  <2> QED BY <1>1, <2>1, RemovedIs
<1>5. /\ commands' \in 0..MaxCommands /\ faults' \in Nat /\ crashes' \in Nat
      /\ faults' + crashes' <= Mishaps /\ trees' \in Nat
  BY <1>3, KeptCounts
<1>6. active' \in [Names -> Tree] /\ history' \in [Keys -> Tree] /\ OnlyVerified'
  <2>1. CASE Works(can) /\ active' = [active EXCEPT ![q.name].state = "cut"]
    <3>1. active[q.name].state = "whole" /\ active[q.name] \in Tree
      BY <1>2, <2>1, ActiveIs DEF Works
    <3>2. t \in Tree /\ t.state = "cut"
      BY <3>1, NoTreeIs DEF Tree
    <3>3. active' = [active EXCEPT ![q.name] = t]
      BY <2>1
    <3> HIDE DEF t, q
    <3> QED BY <1>2, <1>3, <3>2, <3>3, TreesStep
  <2>2. CASE UNCHANGED active
    BY <1>3, <2>2, KeptTrees
  <2> QED BY <1>3, <2>1, <2>2
<1> HIDE DEF s, q, can, t
<1>8. CASE Put(p, s)
  BY <1>4, <1>5, <1>6, <1>8, StoreStep
<1>9. CASE Put(p, Removed(q, FALSE))
  BY <1>5, <1>6, <1>7, <1>9, StoreStep
<1> QED BY <1>3, <1>8, <1>9

LEMMA UnlinkStep ==
    ASSUME IInv, NEW p \in Processes, Unlink(p)
    PROVE  IInv'
<1> DEFINE q == proc[p]
           ours == active[q.name].state = "cut"
           t == [active[q.name] EXCEPT !.state = "cut"]
<1>1. q \in CommandType /\ Knows(q) /\ Verified(q) /\ q.pc = "unlink" /\ q.pc \in Removing
  BY ProcIs DEF Unlink, At, Removing
<1>2. q.name \in Names
  BY <1>1 DEF Knows
<1>3. /\ KeepCounts /\ UNCHANGED history /\ (Works(ours) \/ Fails(ours))
      /\ \E ok \in BOOLEAN : Put(p, Removed(q, ok))
      /\ \/ active' = active
         \/ active' = [active EXCEPT ![q.name] = NoTree]
         \/ active[q.name] # NoTree /\ active' = [active EXCEPT ![q.name].state = "cut"]
  <2>1. CASE /\ Works(ours)
             /\ active' = [active EXCEPT ![q.name] = NoTree]
             /\ Put(p, Removed(q, TRUE))
    BY <2>1 DEF Unlink
  <2>2. CASE /\ Fails(ours)
             /\ active' = IF active[q.name] = NoTree THEN active
                          ELSE [active EXCEPT ![q.name].state = "cut"]
             /\ Put(p, Removed(q, FALSE))
    BY <2>2 DEF Unlink
  <2> QED BY <2>1, <2>2 DEF Unlink
<1>4. PICK ok \in BOOLEAN : Put(p, Removed(q, ok))
  BY <1>3
<1>5. /\ commands' \in 0..MaxCommands /\ faults' \in Nat /\ crashes' \in Nat
      /\ faults' + crashes' <= Mishaps /\ trees' \in Nat
  BY <1>3, KeptCounts
<1>6. active' \in [Names -> Tree] /\ history' \in [Keys -> Tree] /\ OnlyVerified'
  <2>1. CASE active[q.name] # NoTree /\ active' = [active EXCEPT ![q.name].state = "cut"]
    <3>1. active[q.name] \in Tree /\ active[q.name] # NoTree
      BY <1>2, <2>1, ActiveIs
    <3>2. t \in Tree /\ t.state = "cut"
      BY <3>1, NoTreeIs DEF Tree
    <3>3. active' = [active EXCEPT ![q.name] = t]
      BY <2>1
    <3> HIDE DEF t, q
    <3> QED BY <1>2, <1>3, <3>2, <3>3, TreesStep
  <2>2. CASE active' = active
    BY <1>3, <2>2, KeptTrees
  <2>3. CASE active' = [active EXCEPT ![q.name] = NoTree]
    BY <1>2, <1>3, <2>3, NoTreeIs, TreesStep
  <2> QED BY <1>3, <2>1, <2>2, <2>3
<1>7. Removed(q, ok) \in CommandType /\ Knows(Removed(q, ok)) /\ Verified(Removed(q, ok))
  <2>1. Leaves(q)
    BY <1>1, LeavesIs
  <2> QED BY <1>1, <2>1, RemovedIs
<1> QED BY <1>4, <1>5, <1>6, <1>7, StoreStep

LEMMA InvInit == Init => IInv
<1> SUFFICES ASSUME Init PROVE IInv
  OBVIOUS
<1>1. StoreType
  BY NoTreeIs, IdleIs, BoundAssumption DEF Init, StoreType
<1>2. \A p \in Processes : Knows(proc[p]) /\ Verified(proc[p])
  BY IdleIs DEF Init
<1> QED BY <1>1, <1>2, NoTreeIs DEF Init, IInv, OnlyVerified

LEMMA InvNext == IInv /\ [Next]_vars => IInv'
<1> SUFFICES ASSUME IInv, [Next]_vars PROVE IInv'
  OBVIOUS
<1>1. CASE UNCHANGED vars
  BY <1>1 DEF IInv, StoreType, OnlyVerified, vars
<1>2. ASSUME NEW p \in Processes,
             Command(p) \/ InstallSteps(p) \/ RollbackSteps(p) \/ RemoveSteps(p) \/ Exit(p) \/ Crash(p)
      PROVE  IInv'
  <2>1. CASE Command(p) \/ Exit(p) \/ Crash(p)
    BY <2>1, CommandStep, LeavesStep
  <2>2. CASE InstallSteps(p)
    BY <2>2, LookStep, CopyStep, BackUpStep, CommitStep, CommitFailsStep, UndoStep DEF InstallSteps
  <2>3. CASE RollbackSteps(p)
    BY <2>3, ReadStep, ScanStep, DisplaceStep, RestoreStep, KeepStep, KeepFailsStep
      DEF RollbackSteps
  <2>4. CASE RemoveSteps(p)
    BY <2>4, OpenStep, UnlinkStep DEF RemoveSteps
  <2> QED BY <1>2, <2>1, <2>2, <2>3, <2>4
<1> QED BY <1>1, <1>2 DEF Next

LEMMA Invariance == Spec => []IInv
<1>1. Init => IInv
  BY InvInit
<1>2. IInv /\ [Next]_vars => IInv'
  BY InvNext
<1> QED BY <1>1, <1>2, PTL DEF Spec

-----------------------------------------------------------------------------
(* Every tree of the store and every command is of its type, a plan is never *)
(* overrun, a command that has ended has no staging directory, and a tree    *)
(* that is still being copied is neither in use nor in the history, whatever *)
(* commands run at once, fail and are killed.                                *)
THEOREM StoreStaysSound == Spec => []StoreIsSound
<1>1. IInv => TypeOK
  <2> SUFFICES ASSUME IInv PROVE TypeOK
    OBVIOUS
  <2>1. ASSUME NEW t \in {active[n] : n \in Names} \cup {history[k] : k \in Keys}
        PROVE  t = NoTree \/ (t.pkg \in Names /\ t.version \in Versions
                              /\ t.state \in {"copying", "whole", "cut"})
    <3>1. t \in Tree
      BY DEF IInv, StoreType
    <3> QED BY <3>1, TreeIs
  <2>2. ASSUME NEW p \in Processes
        PROVE  /\ proc[p].cmd \in {"none", "install", "rollback", "remove"}
               /\ proc[p].pc \in {"idle", "look", "copy", "backup", "commit", "undo", "read", "scan",
                                  "displace", "restore", "keep", "open", "unlink", "ended"}
               /\ proc[p].n \in 0..Len(proc[p].plan) + 1
               /\ proc[p].pc = "ended" => proc[p].staged = NoTree
    <3> DEFINE q == proc[p]
    <3>1. q \in CommandType /\ Knows(q)
      BY ProcIs
    <3> HIDE DEF q
    <3>2. Len(q.plan) \in Nat
      <4>1. CASE q.plan = <<>>
        BY <4>1, EmptySeq
      <4>2. CASE q.plan \in Plans
        BY <4>2, PlanIs
      <4> QED BY <3>1, <4>1, <4>2 DEF CommandType
    <3>3. q.n \in 0..Len(q.plan) + 1
      <4>1. q.n \in Nat /\ q.n <= Len(q.plan)
        BY <3>1 DEF CommandType, Knows
      <4> QED BY <3>2, <4>1
    <3>4. q.cmd \in {"none", "install", "rollback", "remove"} /\ q.pc \in Pcs
      BY <3>1 DEF CommandType
    <3>5. q.pc = "ended" => q.staged = NoTree
      BY <3>1 DEF Knows
    <3> QED BY <3>3, <3>4, <3>5 DEF q, Pcs, Installing, RollingBack, Removing
  <2>3. commands <= MaxCommands /\ faults + crashes <= Mishaps
    BY BoundAssumption DEF IInv, StoreType
  <2> QED BY <2>1, <2>2, <2>3 DEF TypeOK
<1>2. IInv => StoreIsSound
  BY <1>1 DEF IInv, StoreIsSound
<1> QED BY <1>2, Invariance, PTL

-----------------------------------------------------------------------------
(* No version is lost.                                                       *)

(* A tree has a place after a step that makes the command of a process s.    *)
Found(s, id) ==
    \/ \E n \in Names : active'[n].id = id
    \/ \E k \in Keys : history'[k].id = id
    \/ id \in hidden'
    \/ s.displaced.id = id

LEMMA StaysInUse ==
    ASSUME IInv, NEW p \in Processes, NEW s, Put(p, s), NEW id \in InUse \ {0}, hidden \subseteq hidden',
           \A n \in Names : active[n].id = id => Found(s, id),
           \A k \in Keys : history[k].id = id => Found(s, id),
           proc[p].displaced.id = id => Found(s, id)
    PROVE  id \in InUse'
<1>1. proc'[p] = s /\ \A q \in Processes \ {p} : proc'[q] = proc[q]
  BY DEF Put, IInv, StoreType
<1>2. ASSUME Found(s, id)
      PROVE  id \in InUse'
  BY <1>1, <1>2 DEF Found, InUse
<1>3. CASE \E q \in Processes \ {p} : proc[q].displaced.id = id
  BY <1>1, <1>3 DEF InUse
<1>4. CASE id \in hidden
  BY <1>4 DEF InUse
<1> QED BY <1>2, <1>3, <1>4 DEF InUse

LEMMA DisplacedIs ==
    ASSUME NEW r \in CommandType, NEW ok
    PROVE  /\ Ended(r, ok).displaced = r.displaced /\ Installed(r).displaced = r.displaced
           /\ NotInstalled(r).displaced = r.displaced /\ RolledBack(r).displaced = r.displaced
           /\ NotRolledBack(r).displaced = r.displaced /\ Removed(r, ok).displaced = r.displaced
<1>1. \A b : Ended(r, b).displaced = r.displaced
  BY DEF Ended, CommandType
<1>2. NotInstalled(r).displaced = r.displaced
  BY DEF NotInstalled, CommandType
<1>3. Installed(r).displaced = r.displaced
  BY <1>1 DEF Installed, CommandType
<1>4. RolledBack(r).displaced = r.displaced
  BY <1>1 DEF RolledBack, CommandType
<1>5. NotRolledBack(r).displaced = r.displaced
  BY <1>1 DEF NotRolledBack, CommandType
<1>6. Removed(r, ok).displaced = r.displaced
  BY <1>1 DEF Removed, CommandType
<1> QED BY <1>1, <1>2, <1>3, <1>4, <1>5, <1>6

LEMMA StillDisplaced ==
    ASSUME NEW r \in CommandType, NEW tree, tree[r.name] # NoTree
    PROVE  NotRolledBack(Kept(r, tree)).displaced = r.displaced
<1> DEFINE s == Kept(r, tree)
<1>1. s \in CommandType /\ s.displaced = r.displaced
  BY DEF Kept, CommandType
<1> HIDE DEF s
<1>2. NotRolledBack(s).displaced = s.displaced
  BY <1>1, DisplacedIs
<1> QED BY <1>1, <1>2 DEF s

LEMMA LeftAlone ==
    ASSUME IInv, NEW p \in Processes, NEW s, Put(p, s), s.displaced = proc[p].displaced,
           UNCHANGED <<active, history, hidden>>, NEW id \in InUse \ {0}
    PROVE  id \in InUse'
<1>1. /\ \A n \in Names : active[n].id = id => Found(s, id)
      /\ \A k \in Keys : history[k].id = id => Found(s, id)
      /\ proc[p].displaced.id = id => Found(s, id)
  BY DEF Found
<1> QED BY <1>1, StaysInUse

(* A tree goes from one place to another that is empty.                      *)
LEMMA Moved ==
    ASSUME IInv, NEW p \in Processes, NEW s, Put(p, s), NEW id \in InUse \ {0}, UNCHANGED hidden,
           NEW n \in Names, NEW k \in Keys, s.displaced = proc[p].displaced,
           \/ /\ history[k] = NoTree
              /\ active' = [active EXCEPT ![n] = NoTree]
              /\ history' = [history EXCEPT ![k] = active[n]]
           \/ /\ active[n] = NoTree
              /\ active' = [active EXCEPT ![n] = history[k]]
              /\ history' = [history EXCEPT ![k] = NoTree]
    PROVE  id \in InUse'
<1>1. active \in [Names -> Tree] /\ history \in [Keys -> Tree]
  BY DEF IInv, StoreType
<1>2. ASSUME NEW m \in Names, active[m].id = id
      PROVE  Found(s, id)
  <2>1. CASE m = n
    BY <1>1, <1>2, <2>1, NoTreeIs DEF Found
  <2>2. CASE m # n
    BY <1>1, <1>2, <2>2 DEF Found
  <2> QED BY <2>1, <2>2
<1>3. ASSUME NEW l \in Keys, history[l].id = id
      PROVE  Found(s, id)
  <2>1. CASE l = k
    BY <1>1, <1>3, <2>1, NoTreeIs DEF Found
  <2>2. CASE l # k
    BY <1>1, <1>3, <2>2 DEF Found
  <2> QED BY <2>1, <2>2
<1>4. proc[p].displaced.id = id => Found(s, id)
  BY DEF Found
<1> QED BY <1>2, <1>3, <1>4, StaysInUse

(* The displaced tree goes back to an empty place, or stays where it is.     *)
LEMMA PutBackKeeps ==
    ASSUME IInv, NEW p \in Processes, NEW s, Put(p, s), NEW id \in InUse \ {0}, UNCHANGED hidden,
           NEW n \in Names, UNCHANGED history,
           \/ s.displaced = proc[p].displaced /\ active' = active
           \/ active[n] = NoTree /\ active' = [active EXCEPT ![n] = proc[p].displaced]
    PROVE  id \in InUse'
<1>1. active \in [Names -> Tree] /\ history \in [Keys -> Tree]
  BY DEF IInv, StoreType
<1>2. ASSUME NEW m \in Names, active[m].id = id
      PROVE  Found(s, id)
  BY <1>1, <1>2, NoTreeIs DEF Found
<1>3. ASSUME NEW l \in Keys, history[l].id = id
      PROVE  Found(s, id)
  BY <1>3 DEF Found
<1>4. proc[p].displaced.id = id => Found(s, id)
  BY <1>1 DEF Found
<1> QED BY <1>2, <1>3, <1>4, StaysInUse

LEMMA CutKeeps ==
    ASSUME IInv, NEW p \in Processes, NEW s, Put(p, s), NEW id \in InUse \ {0}, UNCHANGED hidden,
           NEW n \in Names, UNCHANGED history, s.displaced = proc[p].displaced,
           active' = [active EXCEPT ![n].state = "cut"]
    PROVE  id \in InUse'
<1>1. active \in [Names -> Tree]
  BY DEF IInv, StoreType
<1>2. ASSUME NEW m \in Names, active[m].id = id
      PROVE  Found(s, id)
  <2>1. active'[m].id = id
    <3>1. active[n] \in Tree
      BY <1>1
    <3>2. [active[n] EXCEPT !.state = "cut"].id = active[n].id
      BY <3>1 DEF Tree, NoTree
    <3> QED BY <1>1, <1>2, <3>2
  <2> QED BY <2>1 DEF Found
<1>3. ASSUME NEW l \in Keys, history[l].id = id
      PROVE  Found(s, id)
  BY <1>3 DEF Found
<1>4. proc[p].displaced.id = id => Found(s, id)
  BY DEF Found
<1> QED BY <1>2, <1>3, <1>4, StaysInUse
LEMMA InstallKeepsVersions ==
    ASSUME IInv, NEW p \in Processes, InstallSteps(p), NEW id \in InUse \ {0}
    PROVE  id \in InUse'
<1> DEFINE q == proc[p]
<1>1. q \in CommandType /\ Knows(q)
  BY ProcIs
<1>2. CASE Look(p)
  <2> DEFINE r == [q EXCEPT !.name = Item(q).name]
             c == [r EXCEPT !.pc = "copy", !.old = active[Item(q).name].version,
                            !.staged = [id |-> trees + 1, pkg |-> Item(q).name,
                                        version |-> Item(r).version, state |-> "copying"]]
  <2>1. UNCHANGED <<active, history, hidden>> /\ (Put(p, c) \/ Put(p, NotInstalled(r)))
    BY <1>2 DEF Look, KeepTrees
  <2>2. c.displaced = q.displaced /\ NotInstalled(r).displaced = q.displaced
    BY <1>1 DEF CommandType, NotInstalled
  <2> HIDE DEF q, r, c
  <2> QED BY <2>1, <2>2, LeftAlone DEF q
<1>3. CASE Copy(p)
  <2> DEFINE c == [q EXCEPT !.pc = IF q.old = 0 THEN "commit" ELSE "backup",
                            !.staged.state = "whole"]
  <2>1. UNCHANGED <<active, history, hidden>> /\ (Put(p, c) \/ Put(p, NotInstalled(q)))
    BY <1>3 DEF Copy, KeepTrees
  <2>2. c.displaced = q.displaced /\ NotInstalled(q).displaced = q.displaced
    BY <1>1 DEF CommandType, NotInstalled
  <2> HIDE DEF q, c
  <2> QED BY <2>1, <2>2, LeftAlone DEF q
<1>4. CASE BackUp(p)
  <2> DEFINE c == [q EXCEPT !.pc = "commit"]
  <2>1. q.pc = "backup"
    BY <1>4 DEF BackUp, At
  <2>2. q.name \in Names /\ Backup(q) \in Keys
    BY <1>1, <2>1, InstallingIs
  <2>3. /\ UNCHANGED hidden
        /\ \/ /\ Put(p, c) /\ history[Backup(q)] = NoTree
              /\ history' = [history EXCEPT ![Backup(q)] = active[q.name]]
              /\ active' = [active EXCEPT ![q.name] = NoTree]
           \/ Put(p, NotInstalled(q)) /\ UNCHANGED <<active, history>>
    BY <1>4 DEF BackUp, Works
  <2>4. c.displaced = q.displaced /\ NotInstalled(q).displaced = q.displaced
    BY <1>1 DEF CommandType, NotInstalled
  <2> HIDE DEF q, c
  <2>5. CASE Put(p, NotInstalled(q)) /\ UNCHANGED <<active, history>>
    BY <2>3, <2>4, <2>5, LeftAlone DEF q
  <2>6. CASE /\ Put(p, c) /\ history[Backup(q)] = NoTree
             /\ history' = [history EXCEPT ![Backup(q)] = active[q.name]]
             /\ active' = [active EXCEPT ![q.name] = NoTree]
    BY <2>2, <2>3, <2>4, <2>6, Moved DEF q
  <2> QED BY <2>3, <2>5, <2>6
<1>5. CASE Commit(p)
  <2>1. q.pc = "commit"
    BY <1>5 DEF Commit, At
  <2>2. q.name \in Names
    BY <1>1, <2>1, InstallingIs
  <2>3. /\ UNCHANGED <<hidden, history>> /\ Put(p, Installed(q)) /\ active[q.name] = NoTree
        /\ active' = [active EXCEPT ![q.name] = q.staged]
    BY <1>5 DEF Commit, Works
  <2>4. Installed(q).displaced = q.displaced
    BY <1>1, DisplacedIs
  <2> HIDE DEF q
  <2>5. ASSUME NEW m \in Names, active[m].id = id
        PROVE  Found(Installed(q), id)
    <3>1. active'[m].id = id
      BY <2>3, <2>5, NoTreeIs DEF IInv, StoreType
    <3> QED BY <3>1 DEF Found
  <2>6. /\ \A k \in Keys : history[k].id = id => Found(Installed(q), id)
        /\ proc[p].displaced.id = id => Found(Installed(q), id)
    BY <2>3, <2>4 DEF Found, q
  <2> QED BY <2>3, <2>5, <2>6, StaysInUse
<1>6. CASE CommitFails(p)
  <2>1. q.pc = "commit"
    BY <1>6 DEF CommitFails, At
  <2>2. q.name \in Names /\ (q.old # 0 => Backup(q) \in Keys)
    BY <1>1, <2>1, InstallingIs
  <2>3. /\ UNCHANGED hidden /\ Put(p, NotInstalled(q))
        /\ \/ UNCHANGED <<active, history>>
           \/ /\ active[q.name] = NoTree /\ q.old # 0
              /\ active' = [active EXCEPT ![q.name] = history[Backup(q)]]
              /\ history' = [history EXCEPT ![Backup(q)] = NoTree]
    BY <1>6 DEF CommitFails
  <2>4. NotInstalled(q).displaced = q.displaced
    BY <1>1, DisplacedIs
  <2> HIDE DEF q
  <2>5. CASE UNCHANGED <<active, history>>
    BY <2>3, <2>4, <2>5, LeftAlone DEF q
  <2>6. CASE /\ active[q.name] = NoTree /\ q.old # 0
             /\ active' = [active EXCEPT ![q.name] = history[Backup(q)]]
             /\ history' = [history EXCEPT ![Backup(q)] = NoTree]
    BY <2>2, <2>3, <2>4, <2>6, Moved DEF q
  <2> QED BY <2>3, <2>5, <2>6
<1>7. CASE Undo(p)
  <2> DEFINE c == [q EXCEPT !.pc = IF q.upgrade THEN "read" ELSE "open", !.name = Item(q).name,
                            !.n = @ - 1]
  <2>1. UNCHANGED <<active, history, hidden>> /\ (Put(p, c) \/ Put(p, Ended(q, FALSE)))
    BY <1>7 DEF Undo, KeepTrees
  <2>2. c.displaced = q.displaced /\ Ended(q, FALSE).displaced = q.displaced
    BY <1>1 DEF CommandType, Ended
  <2> HIDE DEF q, c
  <2> QED BY <2>1, <2>2, LeftAlone DEF q
<1> QED BY <1>2, <1>3, <1>4, <1>5, <1>6, <1>7 DEF InstallSteps

LEMMA RollbackKeepsVersions ==
    ASSUME IInv, NEW p \in Processes, RollbackSteps(p), NEW id \in InUse \ {0}
    PROVE  id \in InUse'
<1> DEFINE q == proc[p]
<1>1. q \in CommandType /\ Knows(q)
  BY ProcIs
<1>2. NotRolledBack(q).displaced = q.displaced
  BY <1>1, DisplacedIs
<1>3. q.pc \in RollingBack
      => /\ q.name \in Names /\ q.displaced \in Tree
         /\ q.pc # "read" => Backup(q) \in Keys
         /\ q.pc \in {"displace", "restore", "keep"} => q.selected \in Keys
  BY <1>1, RollingIs
<1>4. CASE Read(p)
  <2> DEFINE c == [q EXCEPT !.pc = "scan", !.old = active[q.name].version]
  <2>1. UNCHANGED <<active, history, hidden>> /\ (Put(p, c) \/ Put(p, NotRolledBack(q)))
    BY <1>4 DEF Read, KeepTrees
  <2>2. c.displaced = q.displaced
    BY <1>1 DEF CommandType
  <2> HIDE DEF q, c
  <2> QED BY <1>2, <2>1, <2>2, LeftAlone DEF q
<1>5. CASE Scan(p)
  <2>1. /\ UNCHANGED <<active, history, hidden>>
        /\ \/ \E k \in Keys : Put(p, [q EXCEPT !.pc = "displace", !.selected = k])
           \/ Put(p, NotRolledBack(q))
    BY <1>5 DEF Scan, KeepTrees, Candidates
  <2>2. \A k \in Keys : [q EXCEPT !.pc = "displace", !.selected = k].displaced = q.displaced
    BY <1>1 DEF CommandType
  <2> HIDE DEF q
  <2> QED BY <1>2, <2>1, <2>2, LeftAlone DEF q
<1>6. CASE Displace(p)
  <2> DEFINE c == [q EXCEPT !.pc = "restore", !.displaced = active[q.name]]
  <2>1. q.name \in Names
    BY <1>3, <1>6 DEF Displace, At, RollingBack
  <2>2. /\ UNCHANGED history
        /\ \/ /\ Put(p, c) /\ active' = [active EXCEPT ![q.name] = NoTree]
              /\ hidden' = hidden \cup ({q.displaced.id} \ {0})
           \/ Put(p, NotRolledBack(q)) /\ UNCHANGED <<active, hidden>>
    BY <1>6 DEF Displace
  <2>3. c.displaced = active[q.name]
    BY <1>1 DEF CommandType
  <2> HIDE DEF c
  <2>4. CASE Put(p, NotRolledBack(q)) /\ UNCHANGED <<active, hidden>>
    BY <1>2, <2>2, <2>4, LeftAlone
  <2>5. CASE /\ Put(p, c) /\ active' = [active EXCEPT ![q.name] = NoTree]
             /\ hidden' = hidden \cup ({q.displaced.id} \ {0})
    <3>1. ASSUME NEW m \in Names, active[m].id = id
          PROVE  Found(c, id)
      <4>1. CASE m = q.name
        BY <2>3, <3>1, <4>1 DEF Found
      <4>2. CASE m # q.name
        BY <2>5, <3>1, <4>2 DEF Found, IInv, StoreType
      <4> QED BY <4>1, <4>2
    <3>2. \A k \in Keys : history[k].id = id => Found(c, id)
      BY <2>2 DEF Found
    <3>3. proc[p].displaced.id = id => Found(c, id)
      BY <2>5 DEF Found
    <3> QED BY <2>5, <3>1, <3>2, <3>3, StaysInUse
  <2> QED BY <2>2, <2>4, <2>5
<1>7. CASE Restore(p)
  <2> DEFINE c == [q EXCEPT !.pc = "keep"]
             f == NotRolledBack(Kept(q, active))
  <2>1. q.name \in Names /\ q.selected \in Keys
    BY <1>3, <1>7 DEF Restore, At, RollingBack
  <2>2. /\ UNCHANGED hidden
        /\ \/ /\ Put(p, c) /\ active[q.name] = NoTree
              /\ active' = [active EXCEPT ![q.name] = history[q.selected]]
              /\ history' = [history EXCEPT ![q.selected] = NoTree]
           \/ /\ Put(p, f) /\ UNCHANGED history
              /\ \/ active[q.name] # NoTree /\ active' = active
                 \/ active[q.name] = NoTree /\ active' = [active EXCEPT ![q.name] = q.displaced]
    BY <1>7 DEF Restore, Works, PutBack
  <2>3. c.displaced = q.displaced
    BY <1>1 DEF CommandType
  <2>4. active[q.name] # NoTree => f.displaced = q.displaced
    BY <1>1, StillDisplaced
  <2> HIDE DEF q, c, f
  <2>5. CASE /\ Put(p, c) /\ active[q.name] = NoTree
             /\ active' = [active EXCEPT ![q.name] = history[q.selected]]
             /\ history' = [history EXCEPT ![q.selected] = NoTree]
    BY <2>1, <2>2, <2>3, <2>5, Moved DEF q
  <2>6. CASE /\ Put(p, f) /\ UNCHANGED history
             /\ \/ active[q.name] # NoTree /\ active' = active
                \/ active[q.name] = NoTree /\ active' = [active EXCEPT ![q.name] = q.displaced]
    BY <2>1, <2>2, <2>4, <2>6, PutBackKeeps DEF q
  <2> QED BY <2>2, <2>5, <2>6
<1>8. CASE Keep(p)
  <2> DEFINE r == [q EXCEPT !.displaced = NoTree]
             c == RolledBack(r)
  <2>1. Backup(q) \in Keys
    BY <1>3, <1>8 DEF Keep, At, RollingBack
  <2>2. /\ UNCHANGED <<active, hidden>> /\ Put(p, c) /\ history[Backup(q)] = NoTree
        /\ history' = [history EXCEPT ![Backup(q)] = q.displaced]
    BY <1>8 DEF Keep, Works
  <2> HIDE DEF c
  <2>3. \A m \in Names : active[m].id = id => Found(c, id)
    BY <2>2 DEF Found
  <2>4. ASSUME NEW k \in Keys, history[k].id = id
        PROVE  Found(c, id)
    <3>1. history'[k].id = id
      BY <2>2, <2>4, NoTreeIs DEF IInv, StoreType
    <3> QED BY <3>1 DEF Found
  <2>5. proc[p].displaced.id = id => Found(c, id)
    BY <2>1, <2>2 DEF Found, IInv, StoreType
  <2> QED BY <2>2, <2>3, <2>4, <2>5, StaysInUse
<1>9. CASE KeepFails(p)
  <2> DEFINE back == active[q.name] # NoTree /\ history[q.selected] = NoTree
             left == IF back THEN [active EXCEPT ![q.name] = NoTree] ELSE active
             f == NotRolledBack(Kept(q, left))
  <2>1. q.name \in Names /\ q.selected \in Keys
    BY <1>3, <1>9 DEF KeepFails, At, RollingBack
  <2>2. /\ UNCHANGED hidden /\ Put(p, f)
        /\ history' = IF back THEN [history EXCEPT ![q.selected] = active[q.name]] ELSE history
        /\ IF left[q.name] = NoTree THEN active' = [left EXCEPT ![q.name] = q.displaced]
           ELSE active' = left
    BY <1>9 DEF KeepFails, PutBack
  <2>3. left[q.name] # NoTree => f.displaced = q.displaced
    BY <1>1, StillDisplaced
  <2>4. active \in [Names -> Tree] /\ history \in [Keys -> Tree]
    BY DEF IInv, StoreType
  <2> HIDE DEF f, q
  <2>5. CASE ~back
    <3>1. left = active
      BY <2>5
    <3>2. history' = history
      BY <2>2, <2>5
    <3>3. \/ f.displaced = q.displaced /\ active' = active
          \/ active[q.name] = NoTree /\ active' = [active EXCEPT ![q.name] = q.displaced]
      BY <2>2, <2>3, <3>1
    <3> QED BY <2>1, <2>2, <3>2, <3>3, PutBackKeeps DEF q
  <2>6. CASE back
    <3>1. /\ history[q.selected] = NoTree
          /\ history' = [history EXCEPT ![q.selected] = active[q.name]]
          /\ active' = [active EXCEPT ![q.name] = q.displaced]
      BY <2>1, <2>2, <2>4, <2>6
    <3>2. ASSUME NEW m \in Names, active[m].id = id
          PROVE  Found(f, id)
      <4>1. CASE m = q.name
        BY <2>1, <2>4, <3>1, <3>2, <4>1 DEF Found
      <4>2. CASE m # q.name
        BY <2>4, <3>1, <3>2, <4>2 DEF Found
      <4> QED BY <4>1, <4>2
    <3>3. ASSUME NEW k \in Keys, history[k].id = id
          PROVE  Found(f, id)
      <4>1. history'[k].id = id
        BY <2>4, <3>1, <3>3, NoTreeIs
      <4> QED BY <4>1 DEF Found
    <3>4. proc[p].displaced.id = id => Found(f, id)
      BY <2>1, <2>4, <3>1 DEF Found, q
    <3> QED BY <2>2, <3>2, <3>3, <3>4, StaysInUse
  <2> QED BY <2>5, <2>6
<1> QED BY <1>4, <1>5, <1>6, <1>7, <1>8, <1>9 DEF RollbackSteps

(* Only a remove takes a version, the one it is at.                          *)
LEMMA RemoveKeepsVersions ==
    ASSUME IInv, NEW p \in Processes, RemoveSteps(p), NEW id \in InUse \ {0}
    PROVE  id \in InUse' \/ (At(p, "unlink") /\ active[proc[p].name].id = id)
<1> DEFINE q == proc[p]
<1>1. q \in CommandType /\ Knows(q) /\ q.pc \in Removing
  BY ProcIs DEF RemoveSteps, Open, Unlink, At, Removing
<1>2. \A ok \in BOOLEAN : Removed(q, ok).displaced = q.displaced
  BY <1>1, DisplacedIs
<1>3. q.name \in Names
  BY <1>1 DEF Knows
<1>4. CASE Open(p)
  <2> DEFINE c == [q EXCEPT !.pc = "unlink"]
  <2>1. /\ UNCHANGED <<history, hidden>>
        /\ \/ Put(p, c) /\ active' = [active EXCEPT ![q.name].state = "cut"]
           \/ Put(p, Removed(q, FALSE)) /\ UNCHANGED active
    BY <1>4 DEF Open
  <2>2. c.displaced = q.displaced
    BY <1>1 DEF CommandType
  <2> HIDE DEF q, c
  <2>3. CASE Put(p, c) /\ active' = [active EXCEPT ![q.name].state = "cut"]
    BY <1>3, <2>1, <2>2, <2>3, CutKeeps DEF q
  <2>4. CASE Put(p, Removed(q, FALSE)) /\ UNCHANGED active
    BY <1>2, <2>1, <2>4, LeftAlone DEF q
  <2> QED BY <2>1, <2>3, <2>4
<1>5. CASE Unlink(p)
  <2>1. /\ UNCHANGED <<history, hidden>> /\ q.pc = "unlink"
        /\ \/ Put(p, Removed(q, TRUE)) /\ active' = [active EXCEPT ![q.name] = NoTree]
           \/ /\ Put(p, Removed(q, FALSE))
              /\ active' = active \/ active' = [active EXCEPT ![q.name].state = "cut"]
    BY <1>5 DEF Unlink, At
  <2> HIDE DEF q
  <2>2. CASE Put(p, Removed(q, TRUE)) /\ active' = [active EXCEPT ![q.name] = NoTree]
    <3>1. CASE active[q.name].id = id
      BY <2>1, <3>1 DEF At, q
    <3>2. CASE active[q.name].id # id
      <4>1. ASSUME NEW m \in Names, active[m].id = id
            PROVE  Found(Removed(q, TRUE), id)
        <5>1. active'[m].id = id
          BY <2>2, <3>2, <4>1 DEF IInv, StoreType
        <5> QED BY <5>1 DEF Found
      <4>2. /\ \A k \in Keys : history[k].id = id => Found(Removed(q, TRUE), id)
            /\ proc[p].displaced.id = id => Found(Removed(q, TRUE), id)
        BY <1>2, <2>1 DEF Found, q
      <4> QED BY <2>1, <2>2, <4>1, <4>2, StaysInUse
    <3> QED BY <3>1, <3>2
  <2>3. CASE Put(p, Removed(q, FALSE)) /\ active' = active
    BY <1>2, <2>1, <2>3, LeftAlone DEF q
  <2>4. CASE Put(p, Removed(q, FALSE)) /\ active' = [active EXCEPT ![q.name].state = "cut"]
    BY <1>2, <1>3, <2>1, <2>4, CutKeeps DEF q
  <2> QED BY <2>1, <2>2, <2>3, <2>4
<1> QED BY <1>4, <1>5 DEF RemoveSteps

LEMMA OthersKeepVersions ==
    ASSUME IInv, NEW p \in Processes, Command(p) \/ Exit(p) \/ Crash(p), NEW id \in InUse \ {0}
    PROVE  id \in InUse'
<1> DEFINE q == proc[p]
<1>1. CASE Command(p)
  <2>1. q = Idle
    BY <1>1, ProcIs DEF Command, At, Knows
  <2>2. PICK s : Put(p, s) /\ s.displaced = NoTree
    BY <1>1, CommandIs DEF Starts
  <2>3. Idle.displaced = NoTree
    BY DEF Idle
  <2>4. UNCHANGED <<active, history, hidden>>
    BY <1>1 DEF Command, KeepTrees
  <2> QED BY <2>1, <2>2, <2>3, <2>4, LeftAlone
<1>2. CASE Exit(p) \/ Crash(p)
  <2>1. /\ Put(p, Idle) /\ UNCHANGED <<active, history>>
        /\ hidden' = hidden \cup ({q.displaced.id} \ {0})
    BY <1>2 DEF Exit, Crash
  <2>2. /\ \A n \in Names : active[n].id = id => Found(Idle, id)
        /\ \A k \in Keys : history[k].id = id => Found(Idle, id)
        /\ proc[p].displaced.id = id => Found(Idle, id)
    BY <2>1 DEF Found
  <2> QED BY <2>1, <2>2, StaysInUse
<1> QED BY <1>1, <1>2

KeepsVersions ==
    \A id \in InUse \ {0} :
       \/ id \in InUse'
       \/ \E p \in Processes : At(p, "unlink") /\ active[proc[p].name].id = id

(* Whatever commands run side by side, fail and are killed, the tree of an   *)
(* installed version stays in use, in the history or in a directory that was *)
(* left behind, until a remove takes it.                                     *)
THEOREM VersionsAreKept == Spec => NoVersionLost
<1>1. IInv /\ [Next]_vars => [KeepsVersions]_vars
  <2> SUFFICES ASSUME IInv, Next PROVE KeepsVersions
    BY DEF vars
  <2>1. PICK p \in Processes :
           Command(p) \/ InstallSteps(p) \/ RollbackSteps(p) \/ RemoveSteps(p) \/ Exit(p) \/ Crash(p)
    BY DEF Next
  <2> QED BY <2>1, InstallKeepsVersions, RollbackKeepsVersions, RemoveKeepsVersions,
             OthersKeepVersions DEF KeepsVersions
<1>2. Spec => [][KeepsVersions]_vars
  BY <1>1, Invariance, PTL DEF Spec
<1>3. [][KeepsVersions]_vars => NoVersionLost
  BY PTL DEF KeepsVersions, NoVersionLost
<1> QED BY <1>2, <1>3, PTL
-----------------------------------------------------------------------------
(* A command that fails alone leaves everything as it was.                   *)

(* What a step of a command never changes in it.                             *)
Carries(q, s) ==
    /\ s.cmd = q.cmd /\ s.plan = q.plan /\ s.upgrade = q.upgrade
    /\ q.undo => s.undo /\ s.failures = q.failures
    /\ s.failures \in {q.failures, faults'}

(* A step of process p makes its command s, as far as AloneInv goes.         *)
Goes(p, s) ==
    /\ Carries(proc[p], s)
    /\ alone[p] =>
          /\ s.cmd = "install" /\ Undoes(s, faults')
             => InstallSoFar(s, before[p], <<active', history'>>)
          /\ s.cmd = "rollback" => RollbackSoFar(s, before[p], <<active', history'>>)

Same(r, s) ==
    /\ s.cmd = r.cmd /\ s.plan = r.plan /\ s.upgrade = r.upgrade /\ s.undo = r.undo
    /\ s.failures = r.failures /\ s.name = r.name /\ s.displaced = r.displaced

LEMMA EndedSame ==
    ASSUME NEW r \in CommandType, NEW ok \in BOOLEAN
    PROVE  LET s == Ended(r, ok)
           IN Same(r, s) /\ s.n = r.n /\ s.pc = "ended" /\ s.ok = ok
BY DEF Ended, CommandType, Same

LEMMA InstalledSame ==
    ASSUME NEW r \in CommandType
    PROVE  LET s == Installed(r)
           IN /\ Same(r, s)
              /\ IF r.n = Len(r.plan) THEN s.pc = "ended" /\ s.ok
                 ELSE s.pc = "look" /\ s.n = r.n + 1
BY DEF Ended, Installed, CommandType, Same

LEMMA NotInstalledSame ==
    ASSUME NEW r \in CommandType
    PROVE  LET s == NotInstalled(r)
           IN /\ s.cmd = r.cmd /\ s.plan = r.plan /\ s.upgrade = r.upgrade /\ s.undo
              /\ s.failures = faults' /\ s.displaced = r.displaced /\ s.pc = "undo" /\ s.n = r.n - 1
BY DEF NotInstalled, CommandType

LEMMA RolledBackSame ==
    ASSUME NEW r \in CommandType
    PROVE  LET s == RolledBack(r)
           IN Same(r, s) /\ IF r.undo THEN s.pc = "undo" /\ s.n = r.n ELSE s.pc = "ended" /\ s.ok
BY DEF Ended, RolledBack, CommandType, Same

LEMMA NotRolledBackSame ==
    ASSUME NEW r \in CommandType
    PROVE  LET s == NotRolledBack(r)
           IN Same(r, s) /\ IF r.undo THEN s.pc = "open" /\ s.n = r.n ELSE s.pc = "ended"
BY DEF Ended, NotRolledBack, CommandType, Same

LEMMA RemovedSame ==
    ASSUME NEW r \in CommandType, NEW ok \in BOOLEAN
    PROVE  LET s == Removed(r, ok)
           IN Same(r, s) /\ IF r.undo THEN s.pc = "undo" /\ s.n = r.n ELSE s.pc = "ended"
BY DEF Ended, Removed, CommandType, Same

LEMMA SameCarries ==
    ASSUME NEW q, NEW s, Same(q, s)
    PROVE  Carries(q, s)
BY DEF Same, Carries

LEMMA PutIs ==
    ASSUME IInv, NEW p \in Processes, NEW s, Put(p, s)
    PROVE  proc'[p] = s
BY DEF IInv, StoreType, Put

(* What is known of a command that is alone, before its step.                *)
LEMMA AloneBefore ==
    ASSUME IInv, AloneInv, NEW p \in Processes, alone[p], proc[p].pc # "idle", NEW s,
           Carries(proc[p], s), faults' = faults \/ faults' = faults + 1
    PROVE  /\ s.cmd = "install" /\ Undoes(s, faults')
              => /\ Undoes(proc[p], faults) /\ InstallSoFar(proc[p], before[p], <<active, history>>)
                 /\ proc[p].undo => faults' = faults
           /\ s.cmd = "rollback" => RollbackSoFar(proc[p], before[p], <<active, history>>)
<1> DEFINE q == proc[p]
<1>1. faults \in Nat /\ faults' \in Nat /\ faults <= faults' /\ q.failures \in Nat /\ q.failures <= faults
  <2>1. q \in CommandType /\ q.failures <= faults
    BY ProcIs DEF AloneInv
  <2>2. q.failures \in Nat
    BY <2>1 DEF CommandType
  <2>3. faults \in Nat
    BY DEF IInv, StoreType
  <2>4. faults' \in Nat /\ faults <= faults'
    BY <2>3
  <2> QED BY <2>1, <2>2, <2>3, <2>4
<1>2. ASSUME Undoes(s, faults')
      PROVE  Undoes(q, faults) /\ (q.undo => faults' = faults)
  <2> HIDE DEF q
  <2>1. q.undo => s.undo /\ s.failures = q.failures /\ s.failures = faults'
    BY <1>2 DEF Carries, Undoes, q
  <2>2. q.undo => q.failures = faults /\ faults' = faults
    BY <1>1, <2>1
  <2>3. q.upgrade => Len(q.plan) = 1
    BY <1>2 DEF Carries, Undoes, q
  <2> QED BY <2>2, <2>3 DEF Undoes
<1>3. s.cmd = q.cmd
  BY DEF Carries
<1> QED BY <1>2, <1>3 DEF AloneInv

(* An installation that fails: what is installed is undone next.             *)
LEMMA FailsSoFar ==
    ASSUME NEW q \in CommandType, OfPlan(q), q.n \in 1..Len(q.plan), NEW a, NEW b, NEW s,
           s.pc = "undo", s.undo, s.n = q.n - 1, s.plan = q.plan, s.upgrade = q.upgrade,
           s.displaced = NoTree, q.upgrade => Len(q.plan) = 1,
           ~q.upgrade => Added(Done(q, q.n - 1), a, b), q.upgrade => b = a
    PROVE  InstallSoFar(s, a, b)
<1>1. Done(s, s.n) = Done(q, q.n - 1)
  BY DEF Done
<1>2. q.upgrade => q.n = 1 /\ s.n = 0
  <2>1. Len(q.plan) \in Nat
    BY PlanIs DEF OfPlan
  <2>2. ASSUME q.upgrade
        PROVE  q.n = 1
    <3>1. Len(q.plan) = 1
      BY <2>2
    <3> QED BY <3>1
  <2> QED BY <2>2
<1> QED BY <1>1, <1>2 DEF InstallSoFar, Installing, RollingBack, Removing

LEMMA LookAlone ==
    ASSUME IInv, AloneInv, NEW p \in Processes, Look(p)
    PROVE  Goes(p, proc'[p])
<1> DEFINE q == proc[p]
           name == Item(q).name
           r == [q EXCEPT !.name = name]
           there == active[name]
           usable == there = NoTree \/ (r.upgrade /\ there.state = "whole")
           t == [id |-> trees + 1, pkg |-> name, version |-> Item(r).version, state |-> "copying"]
           c == [r EXCEPT !.pc = "copy", !.old = there.version, !.staged = t]
           f == NotInstalled(r)
           a == before[p]
           b == <<active, history>>
           s == proc'[p]
<1>1. /\ q \in CommandType /\ q.pc = "look" /\ OfPlan(q) /\ ~q.undo /\ q.n \in 1..Len(q.plan)
      /\ q.upgrade \in BOOLEAN
  BY ProcIs DEF Look, At, Knows, Installing, CommandType
<1>2. name \in Names
  BY <1>1, ItemIs
<1>4. /\ r.n = q.n /\ r.plan = q.plan /\ r.undo = q.undo /\ r.cmd = q.cmd /\ r.upgrade = q.upgrade
      /\ r.displaced = q.displaced /\ r.name = name /\ r.failures = q.failures /\ r \in CommandType
  BY <1>1, <1>2 DEF CommandType
<1>5. /\ UNCHANGED <<active, history>>
      /\ \/ Works(usable) /\ s = c
         \/ Fails(usable) /\ s = f
  BY PutIs DEF Look, KeepTrees
<1>6. /\ c.pc = "copy" /\ c.n = q.n /\ c.plan = q.plan /\ c.undo = q.undo /\ c.cmd = q.cmd
      /\ c.upgrade = q.upgrade /\ c.displaced = q.displaced /\ c.name = name
      /\ c.failures = q.failures /\ c.old = there.version /\ c.staged = t /\ t.pkg = name
  BY <1>4 DEF CommandType
<1>7. /\ f.cmd = q.cmd /\ f.plan = q.plan /\ f.upgrade = q.upgrade /\ f.undo
      /\ f.failures = faults' /\ f.displaced = q.displaced /\ f.pc = "undo" /\ f.n = q.n - 1
  BY <1>4, NotInstalledSame
<1> HIDE DEF c, f, t, r
<1>8. Carries(q, s)
  BY <1>1, <1>5, <1>6, <1>7 DEF Carries
<1>9. ASSUME alone[p]
      PROVE  /\ s.cmd = "install" /\ Undoes(s, faults') => InstallSoFar(s, a, b)
             /\ s.cmd # "rollback"
  <2>1. s.cmd = "install" /\ q.cmd = "install"
    BY <1>1, <1>8 DEF OfPlan, Carries
  <2> SUFFICES ASSUME Undoes(s, faults') PROVE InstallSoFar(s, a, b)
    BY <2>1
  <2>2. InstallSoFar(q, a, b) /\ Undoes(q, faults)
    BY <1>1, <1>5, <1>8, <1>9, <2>1, AloneBefore DEF Works, Fails
  <2> HIDE DEF q, name, s, a, b, there
  <2>3. /\ q.displaced = NoTree /\ (q.upgrade => b = a) /\ (q.upgrade => Len(q.plan) = 1)
        /\ ~q.upgrade => Added(Done(q, q.n - 1), a, b)
    BY <1>1, <2>2 DEF InstallSoFar, Undoes, Installing
  <2>4. CASE s = f
    BY <1>1, <1>7, <2>3, <2>4, FailsSoFar
  <2>5. CASE Works(usable) /\ s = c
    <3>1. ASSUME ~q.upgrade
          PROVE  there = NoTree /\ a[1][name] = NoTree
      <4>1. there = NoTree
        BY <1>4, <2>5, <3>1 DEF Works
      <4>2. name \notin Done(q, q.n - 1)
        <5>1. /\ Len(q.plan) \in Nat
              /\ \A i, j \in 1..Len(q.plan) : q.plan[i].name = q.plan[j].name => i = j
          BY <1>1, PlanIs DEF OfPlan
        <5>2. \A i \in 1..q.n - 1 : i \in 1..Len(q.plan) /\ i # q.n
          BY <1>1, <5>1
        <5> QED BY <1>1, <5>1, <5>2 DEF Done, name, Item
      <4>3. b[1][name] = a[1][name]
        BY <1>2, <2>3, <3>1, <4>2 DEF Added
      <4> QED BY <4>1, <4>3 DEF b, there
    <3>2. Done(c, c.n - 1) = Done(q, q.n - 1)
      BY <1>6 DEF Done
    <3>3. there.version = b[1][name].version
      BY DEF there, b
    <3>4. ~q.upgrade => c.old = 0
      BY <1>6, <3>1, NoTreeIs
    <3> QED BY <1>1, <1>6, <2>3, <2>5, <3>1, <3>2, <3>3, <3>4
         DEF InstallSoFar, Installing, RollingBack, Removing
  <2> QED BY <1>5, <2>4, <2>5
<1> QED BY <1>5, <1>8, <1>9 DEF Goes
LEMMA CopyAlone ==
    ASSUME IInv, AloneInv, NEW p \in Processes, Copy(p)
    PROVE  Goes(p, proc'[p])
<1> DEFINE q == proc[p]
           c == [q EXCEPT !.pc = IF q.old = 0 THEN "commit" ELSE "backup", !.staged.state = "whole"]
           f == NotInstalled(q)
           a == before[p]
           b == <<active, history>>
           s == proc'[p]
<1>1. /\ q \in CommandType /\ q.pc = "copy" /\ OfPlan(q) /\ ~q.undo /\ q.n \in 1..Len(q.plan)
      /\ q.upgrade \in BOOLEAN /\ q.staged \in Tree /\ q.staged # NoTree
  BY ProcIs DEF Copy, At, Knows, Installing, CommandType
<1>5. /\ UNCHANGED <<active, history>> /\ (faults' = faults \/ faults' = faults + 1)
      /\ s = c \/ s = f
  BY PutIs DEF Copy, KeepTrees, Works, Fails
<1>6. /\ c.pc = (IF q.old = 0 THEN "commit" ELSE "backup") /\ c.n = q.n /\ c.plan = q.plan
      /\ c.undo = q.undo /\ c.cmd = q.cmd /\ c.upgrade = q.upgrade /\ c.displaced = q.displaced
      /\ c.name = q.name /\ c.failures = q.failures /\ c.old = q.old /\ c.staged.pkg = q.staged.pkg
  BY <1>1 DEF CommandType, Tree
<1>7. /\ f.cmd = q.cmd /\ f.plan = q.plan /\ f.upgrade = q.upgrade /\ f.undo
      /\ f.failures = faults' /\ f.displaced = q.displaced /\ f.pc = "undo" /\ f.n = q.n - 1
  BY <1>1, NotInstalledSame
<1> HIDE DEF c, f
<1>8. Carries(q, s)
  BY <1>1, <1>5, <1>6, <1>7 DEF Carries
<1>9. ASSUME alone[p]
      PROVE  /\ s.cmd = "install" /\ Undoes(s, faults') => InstallSoFar(s, a, b)
             /\ s.cmd # "rollback"
  <2>1. s.cmd = "install" /\ q.cmd = "install"
    BY <1>1, <1>8 DEF OfPlan, Carries
  <2> SUFFICES ASSUME Undoes(s, faults') PROVE InstallSoFar(s, a, b)
    BY <2>1
  <2>2. InstallSoFar(q, a, b) /\ Undoes(q, faults)
    BY <1>1, <1>5, <1>8, <1>9, <2>1, AloneBefore
  <2> HIDE DEF q, s, a, b
  <2>3. /\ q.displaced = NoTree /\ (q.upgrade => b = a) /\ (q.upgrade => Len(q.plan) = 1)
        /\ ~q.upgrade => Added(Done(q, q.n - 1), a, b) /\ q.old = 0 /\ a[1][q.name] = NoTree
        /\ q.staged.pkg = q.name
    BY <1>1, <2>2 DEF InstallSoFar, Undoes, Installing
  <2>4. CASE s = f
    BY <1>1, <1>7, <2>3, <2>4, FailsSoFar
  <2>5. CASE s = c
    <3>1. Done(c, c.n - 1) = Done(q, q.n - 1)
      BY <1>6 DEF Done
    <3> QED BY <1>1, <1>6, <2>3, <2>5, <3>1 DEF InstallSoFar, Installing, RollingBack, Removing
  <2> QED BY <1>5, <2>4, <2>5
<1> QED BY <1>5, <1>8, <1>9 DEF Goes

LEMMA BackUpAlone ==
    ASSUME IInv, AloneInv, NEW p \in Processes, BackUp(p)
    PROVE  Goes(p, proc'[p])
<1> DEFINE q == proc[p]
           can == active[q.name] # NoTree /\ history[Backup(q)] = NoTree
           c == [q EXCEPT !.pc = "commit"]
           f == NotInstalled(q)
           a == before[p]
           b == <<active, history>>
           b1 == <<active', history'>>
           s == proc'[p]
<1>1. /\ q \in CommandType /\ q.pc = "backup" /\ OfPlan(q) /\ ~q.undo /\ q.n \in 1..Len(q.plan)
      /\ q.upgrade \in BOOLEAN /\ q.old # 0
  BY ProcIs DEF BackUp, At, Knows, Installing, CommandType
<1>5. /\ faults' = faults \/ faults' = faults + 1
      /\ \/ /\ s = c /\ active[q.name] # NoTree /\ history[Backup(q)] = NoTree
            /\ history' = [history EXCEPT ![Backup(q)] = active[q.name]]
            /\ active' = [active EXCEPT ![q.name] = NoTree]
         \/ s = f /\ UNCHANGED <<active, history>>
  BY PutIs DEF BackUp, Works, Fails
<1>6. /\ c.pc = "commit" /\ c.n = q.n /\ c.plan = q.plan
      /\ c.undo = q.undo /\ c.cmd = q.cmd /\ c.upgrade = q.upgrade /\ c.displaced = q.displaced
      /\ c.name = q.name /\ c.failures = q.failures /\ c.old = q.old /\ c.staged = q.staged
  BY <1>1 DEF CommandType
<1>7. /\ f.cmd = q.cmd /\ f.plan = q.plan /\ f.upgrade = q.upgrade /\ f.undo
      /\ f.failures = faults' /\ f.displaced = q.displaced /\ f.pc = "undo" /\ f.n = q.n - 1
  BY <1>1, NotInstalledSame
<1> HIDE DEF c, f
<1>8. Carries(q, s)
  BY <1>1, <1>5, <1>6, <1>7 DEF Carries
<1>9. ASSUME alone[p]
      PROVE  /\ s.cmd = "install" /\ Undoes(s, faults') => InstallSoFar(s, a, b1)
             /\ s.cmd # "rollback"
  <2>1. s.cmd = "install" /\ q.cmd = "install"
    BY <1>1, <1>8 DEF OfPlan, Carries
  <2> SUFFICES ASSUME Undoes(s, faults') PROVE InstallSoFar(s, a, b1)
    BY <2>1
  <2>2. InstallSoFar(q, a, b) /\ Undoes(q, faults)
    BY <1>1, <1>5, <1>8, <1>9, <2>1, AloneBefore
  <2> HIDE DEF q, s, a, b
  <2>3. /\ q.displaced = NoTree /\ q.upgrade /\ b = a /\ Len(q.plan) = 1
        /\ q.staged.pkg = q.name
    <3>1. q.upgrade
      BY <1>1, <2>2 DEF InstallSoFar, Installing
    <3>2. q.displaced = NoTree /\ q.staged.pkg = q.name
      BY <1>1, <2>2 DEF InstallSoFar
    <3>3. b = a
      BY <1>1, <2>2, <3>1 DEF InstallSoFar, Installing
    <3> QED BY <2>2, <3>1, <3>2, <3>3 DEF Undoes
  <2>4. CASE s = f /\ UNCHANGED <<active, history>>
    BY <1>1, <1>7, <2>3, <2>4, FailsSoFar DEF b
  <2>5. CASE /\ s = c /\ active[q.name] # NoTree /\ history[Backup(q)] = NoTree
             /\ history' = [history EXCEPT ![Backup(q)] = active[q.name]]
             /\ active' = [active EXCEPT ![q.name] = NoTree]
    <3>1. a[1] = active /\ a[2] = history /\ b1[1] = active' /\ b1[2] = history'
      BY <2>3 DEF b
    <3>2. Backup(c) = Backup(q)
      BY <1>6 DEF Backup
    <3> HIDE DEF b1
    <3> QED BY <1>1, <1>6, <2>3, <2>5, <3>1, <3>2 DEF InstallSoFar, Installing, RollingBack, Removing
  <2> QED BY <1>5, <2>4, <2>5
<1> QED BY <1>8, <1>9 DEF Goes

LEMMA CommitAlone ==
    ASSUME IInv, AloneInv, NEW p \in Processes, Commit(p)
    PROVE  Goes(p, proc'[p])
<1> DEFINE q == proc[p]
           a == before[p]
           b == <<active, history>>
           b1 == <<active', history'>>
           s == proc'[p]
<1>1. /\ q \in CommandType /\ q.pc = "commit" /\ OfPlan(q) /\ ~q.undo /\ q.n \in 1..Len(q.plan)
      /\ q.upgrade \in BOOLEAN /\ q.staged.state = "whole" /\ q.name \in Names
      /\ q.name = q.plan[q.n].name
  <2>1. q \in CommandType /\ q.pc = "commit" /\ Knows(q)
    BY ProcIs DEF Commit, At
  <2> QED BY <2>1, InstallingIs DEF CommandType, Item
<1>5. /\ faults' = faults /\ s = Installed(q) /\ UNCHANGED history
      /\ active' = [active EXCEPT ![q.name] = q.staged]
  BY PutIs DEF Commit, Works
<1>6. /\ Same(q, s)
      /\ IF q.n = Len(q.plan) THEN s.pc = "ended" /\ s.ok ELSE s.pc = "look" /\ s.n = q.n + 1
  BY <1>1, <1>5, InstalledSame
<1>8. Carries(q, s)
  BY <1>6, SameCarries
<1>9. ASSUME alone[p]
      PROVE  /\ s.cmd = "install" /\ Undoes(s, faults') => InstallSoFar(s, a, b1)
             /\ s.cmd # "rollback"
  <2>1. s.cmd = "install" /\ q.cmd = "install"
    BY <1>1, <1>8 DEF OfPlan, Carries
  <2> SUFFICES ASSUME Undoes(s, faults') PROVE InstallSoFar(s, a, b1)
    BY <2>1
  <2>2. InstallSoFar(q, a, b) /\ Undoes(q, faults)
    BY <1>1, <1>5, <1>8, <1>9, <2>1, AloneBefore
  <2>3. active \in [Names -> Tree]
    BY DEF IInv, StoreType
  <2>4. b[1] = active /\ b[2] = history /\ b1[1] = active' /\ b1[2] = history
    BY <1>5
  <2> HIDE DEF q, s, a, b, b1
  <2>5. /\ q.displaced = NoTree /\ (q.upgrade => Len(q.plan) = 1)
        /\ ~q.upgrade => Added(Done(q, q.n - 1), a, b) /\ a[1][q.name] = NoTree
        /\ q.staged.pkg = q.name
    <3>1. ~q.upgrade => Added(Done(q, q.n - 1), a, b) /\ a[1][q.name] = NoTree
      BY <1>1, <2>2 DEF InstallSoFar, Installing
    <3>2. q.displaced = NoTree /\ q.staged.pkg = q.name
      BY <1>1, <2>2 DEF InstallSoFar
    <3> QED BY <2>2, <3>1, <3>2 DEF Undoes
  <2>6. /\ s.upgrade = q.upgrade /\ s.undo = q.undo /\ s.displaced = q.displaced /\ s.plan = q.plan
    BY <1>6 DEF Same
  <2>7. CASE q.n = Len(q.plan)
    BY <1>1, <1>6, <2>5, <2>6, <2>7 DEF InstallSoFar, Installing, RollingBack, Removing
  <2>8. CASE q.n # Len(q.plan)
    <3>1. Len(q.plan) \in Nat
      BY <1>1, PlanIs DEF OfPlan
    <3>2. ~q.upgrade
      <4>1. ASSUME NEW l \in Nat, NEW n \in 1..l, n # l
            PROVE  l # 1
        BY <4>1
      <4>2. Len(q.plan) # 1
        BY <1>1, <2>8, <3>1, <4>1
      <4> QED BY <2>5, <4>2
    <3>3. s.pc = "look" /\ s.n = q.n + 1
      BY <1>6, <2>8
    <3>4. Done(s, s.n - 1) = Done(q, q.n - 1) \cup {q.name}
      <4>1. s.n - 1 = q.n
        BY <1>1, <3>1, <3>3
      <4>2. \A i : i \in 1..q.n <=> i \in 1..q.n - 1 \/ i = q.n
        BY <1>1, <3>1
      <4> QED BY <1>1, <2>6, <4>1, <4>2 DEF Done
    <3>5. Added(Done(s, s.n - 1), a, b1)
      BY <1>1, <1>5, <2>3, <2>4, <2>5, <3>2, <3>4 DEF Added
    <3> QED BY <1>1, <2>5, <2>6, <3>2, <3>3, <3>5
         DEF InstallSoFar, Installing, RollingBack, Removing
  <2> QED BY <2>7, <2>8
<1> QED BY <1>8, <1>9 DEF Goes

LEMMA CommitFailsAlone ==
    ASSUME IInv, AloneInv, NEW p \in Processes, CommitFails(p)
    PROVE  Goes(p, proc'[p])
<1> DEFINE q == proc[p]
           f == NotInstalled(q)
           a == before[p]
           b == <<active, history>>
           b1 == <<active', history'>>
           s == proc'[p]
           back == q.old # 0 /\ active[q.name] = NoTree /\ history[Backup(q)] # NoTree
<1>1. /\ q \in CommandType /\ q.pc = "commit" /\ OfPlan(q) /\ ~q.undo /\ q.n \in 1..Len(q.plan)
      /\ q.upgrade \in BOOLEAN /\ q.name \in Names /\ (q.old # 0 => Backup(q) \in Keys)
  <2>1. q \in CommandType /\ q.pc = "commit" /\ Knows(q)
    BY ProcIs DEF CommitFails, At
  <2> QED BY <2>1, InstallingIs DEF CommandType
<1>5. /\ faults' = faults \/ faults' = faults + 1
      /\ s = f
      /\ IF back
         THEN /\ active' = [active EXCEPT ![q.name] = history[Backup(q)]]
              /\ history' = [history EXCEPT ![Backup(q)] = NoTree]
         ELSE UNCHANGED <<active, history>>
  BY PutIs DEF CommitFails, Fails
<1>7. /\ f.cmd = q.cmd /\ f.plan = q.plan /\ f.upgrade = q.upgrade /\ f.undo
      /\ f.failures = faults' /\ f.displaced = q.displaced /\ f.pc = "undo" /\ f.n = q.n - 1
  BY <1>1, NotInstalledSame
<1> HIDE DEF f
<1>8. Carries(q, s)
  BY <1>1, <1>5, <1>7 DEF Carries
<1>9. ASSUME alone[p]
      PROVE  /\ s.cmd = "install" /\ Undoes(s, faults') => InstallSoFar(s, a, b1)
             /\ s.cmd # "rollback"
  <2>1. s.cmd = "install" /\ q.cmd = "install"
    BY <1>1, <1>8 DEF OfPlan, Carries
  <2> SUFFICES ASSUME Undoes(s, faults') PROVE InstallSoFar(s, a, b1)
    BY <2>1
  <2>2. InstallSoFar(q, a, b) /\ Undoes(q, faults)
    BY <1>1, <1>5, <1>8, <1>9, <2>1, AloneBefore
  <2>3. a \in [Names -> Tree] \X [Keys -> Tree]
    BY DEF AloneInv
  <2>4. b[1] = active /\ b[2] = history
    OBVIOUS
  <2> HIDE DEF q, s, a, b
  <2>5. /\ q.displaced = NoTree /\ (q.upgrade => Len(q.plan) = 1)
        /\ ~q.upgrade => Added(Done(q, q.n - 1), a, b) /\ q.old = 0
        /\ q.upgrade /\ q.old = 0 => b = a
        /\ q.upgrade /\ q.old # 0 =>
              /\ a[1][q.name] # NoTree /\ a[2][Backup(q)] = NoTree
              /\ b[1] = [a[1] EXCEPT ![q.name] = NoTree]
              /\ b[2] = [a[2] EXCEPT ![Backup(q)] = a[1][q.name]]
    BY <1>1, <2>2 DEF InstallSoFar, Undoes, Installing
  <2>6. CASE q.old = 0
    <3>1. b1 = b
      BY <1>5, <2>6 DEF b
    <3> QED BY <1>1, <1>5, <1>7, <2>5, <2>6, <3>1, FailsSoFar
  <2>7. CASE q.old # 0
    <3>1. back
      BY <1>1, <2>3, <2>4, <2>5, <2>7
    <3>2. active' = a[1]
      BY <1>1, <1>5, <2>3, <2>4, <2>5, <2>7, <3>1
    <3>3. history' = a[2]
      BY <1>1, <1>5, <2>3, <2>4, <2>5, <2>7, <3>1
    <3>4. b1 = a
      BY <2>3, <3>2, <3>3
    <3>5. q.upgrade
      BY <1>1, <2>5, <2>7
    <3> HIDE DEF b1
    <3> QED BY <1>1, <1>5, <1>7, <2>5, <3>4, <3>5, FailsSoFar
  <2> QED BY <2>6, <2>7
<1> QED BY <1>8, <1>9 DEF Goes
LEMMA UndoAlone ==
    ASSUME IInv, AloneInv, NEW p \in Processes, Undo(p)
    PROVE  Goes(p, proc'[p])
<1> DEFINE q == proc[p]
           c == [q EXCEPT !.pc = IF q.upgrade THEN "read" ELSE "open", !.name = Item(q).name,
                          !.n = @ - 1]
           e == Ended(q, FALSE)
           a == before[p]
           b == <<active, history>>
           s == proc'[p]
<1>1. /\ q \in CommandType /\ q.pc = "undo" /\ OfPlan(q) /\ q.undo /\ q.n \in 0..Len(q.plan)
      /\ q.upgrade \in BOOLEAN
  BY ProcIs DEF Undo, At, Knows, CommandType
<1>2. Len(q.plan) \in Nat
  BY <1>1, PlanIs DEF OfPlan
<1>5. /\ UNCHANGED <<active, history, faults>>
      /\ \/ q.n = 0 /\ s = e
         \/ q.n # 0 /\ s = c
  BY PutIs DEF Undo, KeepTrees
<1>6. /\ c.pc = (IF q.upgrade THEN "read" ELSE "open") /\ c.n = q.n - 1 /\ c.plan = q.plan
      /\ c.undo = q.undo /\ c.cmd = q.cmd /\ c.upgrade = q.upgrade /\ c.displaced = q.displaced
      /\ c.name = Item(q).name /\ c.failures = q.failures
  BY <1>1 DEF CommandType
<1>7. Same(q, e) /\ e.n = q.n /\ e.pc = "ended" /\ e.ok = FALSE
  BY <1>1, EndedSame
<1> HIDE DEF c, e
<1>8. Carries(q, s)
  BY <1>5, <1>6, <1>7 DEF Carries, Same
<1>9. ASSUME alone[p]
      PROVE  /\ s.cmd = "install" /\ Undoes(s, faults') => InstallSoFar(s, a, b)
             /\ s.cmd # "rollback"
  <2>1. s.cmd = "install" /\ q.cmd = "install"
    BY <1>1, <1>8 DEF OfPlan, Carries
  <2> SUFFICES ASSUME Undoes(s, faults') PROVE InstallSoFar(s, a, b)
    BY <2>1
  <2>2. InstallSoFar(q, a, b) /\ Undoes(q, faults)
    BY <1>1, <1>5, <1>8, <1>9, <2>1, AloneBefore
  <2>3. a \in [Names -> Tree] \X [Keys -> Tree] /\ b \in [Names -> Tree] \X [Keys -> Tree]
    BY DEF AloneInv, IInv, StoreType
  <2> HIDE DEF q, s, a, b
  <2>4. /\ q.displaced = NoTree
        /\ ~q.upgrade => Added(Done(q, q.n), a, b)
        /\ q.upgrade => q.n = 0 /\ b = a
    BY <1>1, <2>2 DEF InstallSoFar
  <2>5. CASE q.n = 0 /\ s = e
    <3>1. b = a
      <4>1. CASE q.upgrade
        BY <2>4, <4>1
      <4>2. CASE ~q.upgrade
        <5>1. Done(q, 0) = {}
          BY DEF Done
        <5>2. b[2] = a[2] /\ \A m \in Names : b[1][m] = a[1][m]
          BY <2>4, <2>5, <4>2, <5>1 DEF Added
        <5>3. b[1] = a[1]
          BY <2>3, <5>2
        <5> QED BY <2>3, <5>2, <5>3
      <4> QED BY <1>1, <4>1, <4>2
    <3>2. s.pc = "ended" /\ s.n = 0 /\ s.upgrade = q.upgrade /\ s.displaced = NoTree
      BY <1>7, <2>4, <2>5 DEF Same
    <3> QED BY <3>1, <3>2 DEF InstallSoFar, Installing, RollingBack, Removing
  <2>6. CASE q.n # 0 /\ s = c
    <3>1. ~q.upgrade /\ s.pc = "open" /\ s.n = q.n - 1 /\ s.plan = q.plan /\ s.name = q.plan[q.n].name
      BY <1>6, <2>4, <2>6 DEF Item
    <3>2. s.n + 1 = q.n /\ s.n < Len(s.plan)
      BY <1>1, <1>2, <2>6, <3>1
    <3>3. Done(s, s.n + 1) = Done(q, q.n)
      BY <3>1, <3>2 DEF Done
    <3>4. s.upgrade = q.upgrade /\ s.displaced = NoTree
      BY <1>6, <2>4, <2>6
    <3> QED BY <2>4, <3>1, <3>2, <3>3, <3>4 DEF InstallSoFar, Installing, RollingBack, Removing
  <2> QED BY <1>5, <2>5, <2>6
<1> QED BY <1>5, <1>8, <1>9 DEF Goes

LEMMA OpenAlone ==
    ASSUME IInv, AloneInv, NEW p \in Processes, Open(p)
    PROVE  Goes(p, proc'[p])
<1> DEFINE q == proc[p]
           can == active[q.name].state = "whole" /\ active[q.name].pkg = q.name
           c == [q EXCEPT !.pc = "unlink"]
           f == Removed(q, FALSE)
           a == before[p]
           b == <<active, history>>
           b1 == <<active', history'>>
           s == proc'[p]
<1>1. q \in CommandType /\ q.pc = "open" /\ q.name \in Names /\ Knows(q)
      /\ q.upgrade \in BOOLEAN /\ q.undo \in BOOLEAN
  BY ProcIs DEF Open, At, Knows, CommandType, Removing
<1>2. q.undo => OfPlan(q) /\ q.n \in 0..Len(q.plan)
  BY <1>1 DEF Knows
<1>3. ~q.undo => q.cmd = "remove"
  BY <1>1 DEF Knows, Removing
<1>5. /\ UNCHANGED history
      /\ \/ faults' = faults /\ s = c /\ active' = [active EXCEPT ![q.name].state = "cut"]
         \/ Fails(can) /\ s = f
  BY PutIs DEF Open, Works
<1>6. Same(q, c) /\ c.pc = "unlink" /\ c.n = q.n
  BY <1>1 DEF CommandType, Same
<1>7. Same(q, f)
  BY <1>1, RemovedSame
<1> HIDE DEF c, f
<1>8. Carries(q, s)
  BY <1>5, <1>6, <1>7, SameCarries
<1>9. ASSUME alone[p]
      PROVE  /\ s.cmd = "install" /\ Undoes(s, faults') => InstallSoFar(s, a, b1)
             /\ s.cmd # "rollback"
  <2>1. s.cmd = q.cmd /\ (q.undo => q.cmd = "install")
    BY <1>2, <1>8 DEF OfPlan, Carries
  <2>2. s.cmd # "rollback"
    BY <1>1, <1>3, <2>1
  <2> SUFFICES ASSUME s.cmd = "install", Undoes(s, faults') PROVE InstallSoFar(s, a, b1)
    BY <2>2
  <2>3. InstallSoFar(q, a, b) /\ (q.undo => faults' = faults)
    BY <1>1, <1>5, <1>8, <1>9, AloneBefore DEF Fails
  <2>4. q.undo /\ OfPlan(q) /\ q.n \in 0..Len(q.plan)
    BY <1>1, <1>2, <1>3, <2>1
  <2>5. active \in [Names -> Tree] /\ b[1] = active /\ b[2] = history
        /\ b1[1] = active' /\ b1[2] = history
    BY <1>5 DEF IInv, StoreType
  <2>13. faults' = faults /\ faults \in Nat
    BY <2>3, <2>4 DEF IInv, StoreType
  <2>14. Fails(can) => ~can
    BY <2>13 DEF Fails
  <2> HIDE DEF q, s, a, b
  <2>6. /\ q.displaced = NoTree /\ ~q.upgrade
        /\ q.n < Len(q.plan) /\ q.name = q.plan[q.n + 1].name
        /\ Added(Done(q, q.n + 1), a, b)
    <3>1. q.pc \in Removing /\ q.pc \notin {"undo", "ended"}
      BY <1>1 DEF Removing
    <3>2. ~q.upgrade
      BY <2>3, <2>4, <3>1 DEF InstallSoFar
    <3> QED BY <1>1, <2>3, <3>1, <3>2 DEF InstallSoFar
  <2>7. Len(q.plan) \in Nat /\ \A i, j \in 1..Len(q.plan) : q.plan[i].name = q.plan[j].name => i = j
    BY <2>4, PlanIs DEF OfPlan
  <2>8. q.n + 1 \in 1..Len(q.plan) /\ q.n \in Nat
    BY <2>4, <2>6, <2>7
  <2>9. Done(q, q.n + 1) = Done(q, q.n) \cup {q.name} /\ q.name \notin Done(q, q.n)
    <3>1. \A i : i \in 1..q.n + 1 <=> i \in 1..q.n \/ i = q.n + 1
      BY <2>8
    <3>2. \A i \in 1..q.n : i \in 1..Len(q.plan) /\ i # q.n + 1
      BY <2>7, <2>8
    <3> QED BY <2>6, <2>7, <2>8, <3>1, <3>2 DEF Done
  <2>10. can /\ a[1][q.name] = NoTree
    BY <1>1, <2>5, <2>6, <2>9 DEF Added
  <2>11. s = c /\ active' = [active EXCEPT ![q.name].state = "cut"]
    BY <1>5, <2>10, <2>14
  <2> HIDE DEF b1
  <2>12. InstallSoFar(c, a, b1)
    <3>1. /\ c.upgrade = q.upgrade /\ c.displaced = NoTree /\ c.plan = q.plan /\ c.name = q.name
          /\ c.pc = "unlink" /\ c.n = q.n
      BY <1>6, <2>6 DEF Same
    <3>2. Done(c, c.n) = Done(q, q.n)
      BY <3>1 DEF Done
    <3>3. b1[1][c.name].state = "cut"
      <4>1. active[q.name] \in Tree /\ active[q.name] # NoTree
        BY <1>1, <2>5, <2>10, NoTreeIs
      <4>2. [active[q.name] EXCEPT !.state = "cut"].state = "cut"
        BY <4>1 DEF Tree
      <4> QED BY <1>1, <2>5, <2>11, <3>1, <4>2
    <3> DEFINE d == <<[b1[1] EXCEPT ![c.name] = NoTree], b1[2]>>
    <3>4. /\ d[2] = b[2] /\ \A m \in Names \ {q.name} : d[1][m] = b[1][m]
          /\ d[1][q.name] = NoTree
      BY <1>1, <2>5, <2>11, <3>1
    <3> HIDE DEF d
    <3>5. Added(Done(c, c.n), a, d)
      BY <1>1, <2>6, <2>9, <2>10, <3>2, <3>4 DEF Added
    <3> QED BY <2>6, <3>1, <3>3, <3>5 DEF d, InstallSoFar, Installing, RollingBack, Removing
  <2> QED BY <2>11, <2>12
<1> QED BY <1>8, <1>9 DEF Goes

LEMMA UnlinkAlone ==
    ASSUME IInv, AloneInv, NEW p \in Processes, Unlink(p)
    PROVE  Goes(p, proc'[p])
<1> DEFINE q == proc[p]
           ours == active[q.name].state = "cut"
           c == Removed(q, TRUE)
           f == Removed(q, FALSE)
           a == before[p]
           b == <<active, history>>
           b1 == <<active', history'>>
           s == proc'[p]
<1>1. q \in CommandType /\ q.pc = "unlink" /\ q.name \in Names /\ Knows(q)
      /\ q.upgrade \in BOOLEAN /\ q.undo \in BOOLEAN
  BY ProcIs DEF Unlink, At, Knows, CommandType, Removing
<1>2. q.undo => OfPlan(q) /\ q.n \in 0..Len(q.plan)
  BY <1>1 DEF Knows
<1>3. ~q.undo => q.cmd = "remove"
  BY <1>1 DEF Knows, Removing
<1>5. /\ UNCHANGED history
      /\ \/ faults' = faults /\ s = c /\ active' = [active EXCEPT ![q.name] = NoTree]
         \/ Fails(ours) /\ s = f
  BY PutIs DEF Unlink, Works
<1>6. Same(q, c) /\ (q.undo => c.pc = "undo" /\ c.n = q.n)
  BY <1>1, RemovedSame
<1>7. Same(q, f)
  BY <1>1, RemovedSame
<1> HIDE DEF c, f
<1>8. Carries(q, s)
  BY <1>5, <1>6, <1>7, SameCarries
<1>9. ASSUME alone[p]
      PROVE  /\ s.cmd = "install" /\ Undoes(s, faults') => InstallSoFar(s, a, b1)
             /\ s.cmd # "rollback"
  <2>1. s.cmd = q.cmd /\ (q.undo => q.cmd = "install")
    BY <1>2, <1>8 DEF OfPlan, Carries
  <2>2. s.cmd # "rollback"
    BY <1>1, <1>3, <2>1
  <2> SUFFICES ASSUME s.cmd = "install", Undoes(s, faults') PROVE InstallSoFar(s, a, b1)
    BY <2>2
  <2>3. InstallSoFar(q, a, b) /\ (q.undo => faults' = faults)
    BY <1>1, <1>5, <1>8, <1>9, AloneBefore DEF Fails
  <2>4. q.undo
    BY <1>1, <1>3, <2>1
  <2>5. b[1] = active /\ b1 = <<active', history'>> /\ b = <<active, history>>
    OBVIOUS
  <2>13. faults' = faults /\ faults \in Nat
    BY <2>3, <2>4 DEF IInv, StoreType
  <2>14. Fails(ours) => ~ours
    BY <2>13 DEF Fails
  <2> HIDE DEF q, s, a, b
  <2>6. /\ q.displaced = NoTree /\ ~q.upgrade
        /\ b[1][q.name].state = "cut"
        /\ Added(Done(q, q.n), a, <<[b[1] EXCEPT ![q.name] = NoTree], b[2]>>)
    <3>1. q.pc \in Removing /\ q.pc \notin {"undo", "ended"}
      BY <1>1 DEF Removing
    <3>2. ~q.upgrade
      BY <2>3, <2>4, <3>1 DEF InstallSoFar
    <3> QED BY <1>1, <2>3, <3>1, <3>2 DEF InstallSoFar
  <2>7. s = c /\ active' = [active EXCEPT ![q.name] = NoTree]
    BY <1>5, <2>5, <2>6, <2>14
  <2>8. b1 = <<[b[1] EXCEPT ![q.name] = NoTree], b[2]>>
    BY <1>5, <2>5, <2>7
  <2> HIDE DEF b1
  <2>9. /\ c.upgrade = q.upgrade /\ c.displaced = NoTree /\ c.plan = q.plan
        /\ c.pc = "undo" /\ c.n = q.n
    BY <1>6, <2>4, <2>6 DEF Same
  <2>10. Done(c, c.n) = Done(q, q.n)
    BY <2>9 DEF Done
  <2>11. Added(Done(c, c.n), a, b1)
    BY <2>6, <2>8, <2>10
  <2>12. InstallSoFar(c, a, b1)
    BY <2>6, <2>9, <2>11 DEF InstallSoFar, Installing, RollingBack, Removing
  <2> QED BY <2>7, <2>12
<1> QED BY <1>8, <1>9 DEF Goes
(* An upgrade of one package is never undone by a rollback.                  *)
LEMMA RollsAlone ==
    ASSUME IInv, AloneInv, NEW p \in Processes, proc[p].pc \in RollingBack, NEW s,
           Carries(proc[p], s), faults' = faults \/ faults' = faults + 1,
           alone[p] /\ RollbackSoFar(proc[p], before[p], <<active, history>>) /\ ~proc[p].undo
           => RollbackSoFar(s, before[p], <<active', history'>>)
    PROVE  Goes(p, s)
<1> DEFINE q == proc[p]
<1>1. q.pc # "idle"
  BY DEF RollingBack
<1>2. ASSUME alone[p], s.cmd = "install", Undoes(s, faults')
      PROVE  FALSE
  <2>1. InstallSoFar(q, before[p], <<active, history>>)
    BY <1>1, <1>2, AloneBefore
  <2> HIDE DEF q
  <2>2. q.pc \notin RollingBack
    BY <2>1 DEF InstallSoFar
  <2> QED BY <2>2 DEF q
<1>3. ASSUME alone[p], s.cmd = "rollback"
      PROVE  RollbackSoFar(s, before[p], <<active', history'>>)
  <2>1. RollbackSoFar(q, before[p], <<active, history>>)
    BY <1>1, <1>3, AloneBefore
  <2>2. q.cmd = "rollback"
    BY <1>3 DEF Carries
  <2>3. ~q.undo
    BY <2>2, ProcIs DEF Knows, OfPlan
  <2> QED BY <1>3, <2>1, <2>3
<1> QED BY <1>2, <1>3 DEF Goes

LEMMA ReadAlone ==
    ASSUME IInv, AloneInv, NEW p \in Processes, Read(p)
    PROVE  Goes(p, proc'[p])
<1> DEFINE q == proc[p]
           c == [q EXCEPT !.pc = "scan", !.old = active[q.name].version]
           f == NotRolledBack(q)
           b == <<active, history>>
           s == proc'[p]
<1>1. q \in CommandType /\ q.pc = "read" /\ q.pc \in RollingBack
  BY ProcIs DEF Read, At, RollingBack
<1>2. /\ UNCHANGED <<active, history>> /\ (faults' = faults \/ faults' = faults + 1)
      /\ s = c \/ s = f
  BY PutIs DEF Read, KeepTrees, Works, Fails
<1>3. Same(q, c) /\ c.pc = "scan"
  BY <1>1 DEF CommandType, Same
<1>4. Same(q, f) /\ (~q.undo => f.pc = "ended")
  BY <1>1, NotRolledBackSame
<1> HIDE DEF c, f
<1>5. Carries(q, s)
  BY <1>2, <1>3, <1>4, SameCarries
<1>6. ASSUME RollbackSoFar(q, before[p], b), ~q.undo
      PROVE  RollbackSoFar(s, before[p], b)
  <2> HIDE DEF q, b, s
  <2> QED BY <1>1, <1>2, <1>3, <1>4, <1>6 DEF RollbackSoFar, Same
<1> QED BY <1>1, <1>2, <1>5, <1>6, RollsAlone

LEMMA ScanAlone ==
    ASSUME IInv, AloneInv, NEW p \in Processes, Scan(p)
    PROVE  Goes(p, proc'[p])
<1> DEFINE q == proc[p]
           c(k) == [q EXCEPT !.pc = "displace", !.selected = k]
           f == NotRolledBack(q)
           b == <<active, history>>
           s == proc'[p]
<1>1. q \in CommandType /\ q.pc = "scan" /\ q.pc \in RollingBack
  BY ProcIs DEF Scan, At, RollingBack
<1>2. /\ UNCHANGED <<active, history, faults>>
      /\ (\E k \in Keys : history[k].state = "whole" /\ s = c(k)) \/ s = f
  BY PutIs DEF Scan, KeepTrees, Candidates
<1>3. \A k \in Keys : Same(q, c(k)) /\ c(k).pc = "displace" /\ c(k).selected = k
  BY <1>1 DEF CommandType, Same
<1>4. Same(q, f) /\ (~q.undo => f.pc = "ended")
  BY <1>1, NotRolledBackSame
<1> HIDE DEF c, f
<1>5. Carries(q, s)
  BY <1>2, <1>3, <1>4, SameCarries
<1>6. ASSUME RollbackSoFar(q, before[p], b), ~q.undo
      PROVE  RollbackSoFar(s, before[p], b)
  <2>1. CASE s = f
    <3> HIDE DEF q, b, s
    <3> QED BY <1>1, <1>4, <1>6, <2>1 DEF RollbackSoFar, Same
  <2>2. ASSUME NEW k \in Keys, history[k].state = "whole", s = c(k)
        PROVE  RollbackSoFar(s, before[p], b)
    <3>1. history[k] # NoTree /\ b[2] = history
      BY <2>2, NoTreeIs
    <3> HIDE DEF q, b, s
    <3> QED BY <1>1, <1>3, <1>6, <2>2, <3>1 DEF RollbackSoFar, Same
  <2> QED BY <1>2, <2>1, <2>2
<1> QED BY <1>1, <1>2, <1>5, <1>6, RollsAlone

LEMMA DisplaceAlone ==
    ASSUME IInv, AloneInv, NEW p \in Processes, Displace(p)
    PROVE  Goes(p, proc'[p])
<1> DEFINE q == proc[p]
           c == [q EXCEPT !.pc = "restore", !.displaced = active[q.name]]
           f == NotRolledBack(q)
           b == <<active, history>>
           b1 == <<active', history'>>
           s == proc'[p]
<1>1. q \in CommandType /\ q.pc = "displace" /\ q.pc \in RollingBack
  BY ProcIs DEF Displace, At, RollingBack
<1>2. /\ UNCHANGED history /\ (faults' = faults \/ faults' = faults + 1)
      /\ \/ s = c /\ active' = [active EXCEPT ![q.name] = NoTree]
         \/ s = f /\ UNCHANGED active
  BY PutIs DEF Displace, Works, Fails
<1>3. /\ c.pc = "restore" /\ c.displaced = active[q.name] /\ c.name = q.name
      /\ c.selected = q.selected /\ c.cmd = q.cmd /\ c.plan = q.plan /\ c.upgrade = q.upgrade
      /\ c.undo = q.undo /\ c.failures = q.failures
  BY <1>1 DEF CommandType
<1>4. Same(q, f) /\ (~q.undo => f.pc = "ended")
  BY <1>1, NotRolledBackSame
<1> HIDE DEF c, f
<1>5. Carries(q, s)
  BY <1>2, <1>3, <1>4 DEF Carries, Same
<1>6. ASSUME RollbackSoFar(q, before[p], b), ~q.undo
      PROVE  RollbackSoFar(s, before[p], b1)
  <2>1. before[p] = b /\ b[1] = active /\ b[2] = history
    BY <1>1, <1>6 DEF RollbackSoFar
  <2>2. CASE s = f /\ UNCHANGED active
    <3>1. b1 = b
      BY <1>2, <2>2
    <3> HIDE DEF q, b, b1, s
    <3> QED BY <1>1, <1>4, <1>6, <2>2, <3>1 DEF RollbackSoFar, Same
  <2>3. CASE s = c /\ active' = [active EXCEPT ![q.name] = NoTree]
    <3>1. b1 = <<[b[1] EXCEPT ![q.name] = NoTree], b[2]>>
      BY <1>2, <2>3
    <3> HIDE DEF q, b, b1, s
    <3> QED BY <1>1, <1>3, <1>6, <2>1, <2>3, <3>1 DEF RollbackSoFar
  <2> QED BY <1>2, <2>2, <2>3
<1> QED BY <1>1, <1>2, <1>5, <1>6, RollsAlone

(* The displaced tree comes back, and what is left of the command.           *)
LEMMA KeptSame ==
    ASSUME NEW q \in CommandType, NEW tree
    PROVE  LET s == NotRolledBack(Kept(q, tree))
           IN /\ s.cmd = q.cmd /\ s.plan = q.plan /\ s.upgrade = q.upgrade /\ s.undo = q.undo
              /\ s.failures = q.failures /\ (~q.undo => s.pc = "ended")
              /\ tree[q.name] = NoTree => s.displaced = NoTree
<1> DEFINE r == Kept(q, tree)
<1>1. /\ r \in CommandType /\ r.cmd = q.cmd /\ r.plan = q.plan /\ r.upgrade = q.upgrade
      /\ r.undo = q.undo /\ r.failures = q.failures
      /\ tree[q.name] = NoTree => r.displaced = NoTree
  BY NoTreeIs DEF Kept, CommandType
<1> HIDE DEF r
<1>2. Same(r, NotRolledBack(r)) /\ (~r.undo => NotRolledBack(r).pc = "ended")
  BY <1>1, NotRolledBackSame
<1> QED BY <1>1, <1>2 DEF Same, r

LEMMA RestoreAlone ==
    ASSUME IInv, AloneInv, NEW p \in Processes, Restore(p)
    PROVE  Goes(p, proc'[p])
<1> DEFINE q == proc[p]
           c == [q EXCEPT !.pc = "keep"]
           f == NotRolledBack(Kept(q, active))
           a == before[p]
           b == <<active, history>>
           b1 == <<active', history'>>
           s == proc'[p]
<1>1. q \in CommandType /\ q.pc = "restore" /\ q.pc \in RollingBack /\ Knows(q)
  BY ProcIs DEF Restore, At, RollingBack
<1>2. q.name \in Names /\ q.selected \in Keys
  BY <1>1, RollingIs
<1>3. /\ faults' = faults \/ faults' = faults + 1
      /\ \/ /\ s = c /\ active' = [active EXCEPT ![q.name] = history[q.selected]]
            /\ history' = [history EXCEPT ![q.selected] = NoTree]
         \/ /\ s = f /\ UNCHANGED history
            /\ active[q.name] = NoTree => active' = [active EXCEPT ![q.name] = q.displaced]
  BY PutIs DEF Restore, Works, Fails, PutBack
<1>4. Same(q, c) /\ c.pc = "keep" /\ c.selected = q.selected
  BY <1>1 DEF CommandType, Same
<1>5. /\ f.cmd = q.cmd /\ f.plan = q.plan /\ f.upgrade = q.upgrade /\ f.undo = q.undo
      /\ f.failures = q.failures /\ (~q.undo => f.pc = "ended")
      /\ active[q.name] = NoTree => f.displaced = NoTree
  BY <1>1, KeptSame
<1> HIDE DEF c, f
<1>6. Carries(q, s)
  BY <1>3, <1>4, <1>5 DEF Carries, Same
<1>7. ASSUME RollbackSoFar(q, a, b), ~q.undo
      PROVE  RollbackSoFar(s, a, b1)
  <2>1. a \in [Names -> Tree] \X [Keys -> Tree]
    BY DEF AloneInv
  <2> HIDE DEF q, s, a
  <2>2. /\ active = [a[1] EXCEPT ![q.name] = NoTree] /\ history = a[2]
        /\ q.displaced = a[1][q.name] /\ a[2][q.selected] # NoTree
    <3>1. b = <<[a[1] EXCEPT ![q.name] = NoTree], a[2]>>
      BY <1>1, <1>7 DEF RollbackSoFar
    <3>2. q.displaced = a[1][q.name] /\ a[2][q.selected] # NoTree
      BY <1>1, <1>7 DEF RollbackSoFar
    <3> QED BY <3>1, <3>2
  <2>3. active[q.name] = NoTree
    BY <1>2, <2>1, <2>2
  <2>4. CASE s = f /\ UNCHANGED history
             /\ (active[q.name] = NoTree => active' = [active EXCEPT ![q.name] = q.displaced])
    <3>1. active' = a[1]
      BY <1>2, <2>1, <2>2, <2>3, <2>4
    <3>2. b1 = a
      BY <2>1, <2>2, <2>4, <3>1
    <3> HIDE DEF b1
    <3> QED BY <1>5, <1>7, <2>3, <2>4, <3>2 DEF RollbackSoFar
  <2>5. CASE /\ s = c /\ active' = [active EXCEPT ![q.name] = history[q.selected]]
             /\ history' = [history EXCEPT ![q.selected] = NoTree]
    <3>1. active' = [a[1] EXCEPT ![q.name] = a[2][q.selected]]
      BY <1>2, <2>1, <2>2, <2>5
    <3>2. b1 = <<[a[1] EXCEPT ![q.name] = a[2][q.selected]], [a[2] EXCEPT ![q.selected] = NoTree]>>
      BY <2>2, <2>5, <3>1
    <3> HIDE DEF b1
    <3> QED BY <1>4, <2>2, <2>5, <3>2 DEF RollbackSoFar, Same
  <2> QED BY <1>3, <2>4, <2>5
<1> QED BY <1>1, <1>3, <1>6, <1>7, RollsAlone

LEMMA KeepAlone ==
    ASSUME IInv, AloneInv, NEW p \in Processes, Keep(p)
    PROVE  Goes(p, proc'[p])
<1> DEFINE q == proc[p]
           r == [q EXCEPT !.displaced = NoTree]
           s == proc'[p]
<1>1. q \in CommandType /\ q.pc = "keep" /\ q.pc \in RollingBack
  BY ProcIs DEF Keep, At, RollingBack
<1>2. faults' = faults /\ s = RolledBack(r)
  BY PutIs DEF Keep, Works
<1>3. /\ r \in CommandType /\ r.cmd = q.cmd /\ r.plan = q.plan /\ r.upgrade = q.upgrade
      /\ r.undo = q.undo /\ r.failures = q.failures
  BY <1>1, NoTreeIs DEF CommandType
<1> HIDE DEF r
<1>4. Same(r, s) /\ (~r.undo => s.pc = "ended" /\ s.ok)
  BY <1>2, <1>3, RolledBackSame
<1>5. Carries(q, s)
  BY <1>3, <1>4 DEF Carries, Same
<1>6. ~q.undo => RollbackSoFar(s, before[p], <<active', history'>>)
  <2> HIDE DEF s
  <2> QED BY <1>3, <1>4 DEF RollbackSoFar
<1> QED BY <1>1, <1>2, <1>5, <1>6, RollsAlone

LEMMA KeepFailsAlone ==
    ASSUME IInv, AloneInv, NEW p \in Processes, KeepFails(p)
    PROVE  Goes(p, proc'[p])
<1> DEFINE q == proc[p]
           back == active[q.name] # NoTree /\ history[q.selected] = NoTree
           left == IF back THEN [active EXCEPT ![q.name] = NoTree] ELSE active
           f == NotRolledBack(Kept(q, left))
           a == before[p]
           b == <<active, history>>
           b1 == <<active', history'>>
           s == proc'[p]
<1>1. q \in CommandType /\ q.pc = "keep" /\ q.pc \in RollingBack /\ Knows(q)
  BY ProcIs DEF KeepFails, At, RollingBack
<1>2. q.name \in Names /\ q.selected \in Keys
  BY <1>1, RollingIs
<1>3. /\ faults' = faults \/ faults' = faults + 1
      /\ s = f
      /\ history' = IF back THEN [history EXCEPT ![q.selected] = active[q.name]] ELSE history
      /\ left[q.name] = NoTree => active' = [left EXCEPT ![q.name] = q.displaced]
  BY PutIs DEF KeepFails, Fails, PutBack
<1>5. /\ f.cmd = q.cmd /\ f.plan = q.plan /\ f.upgrade = q.upgrade /\ f.undo = q.undo
      /\ f.failures = q.failures /\ (~q.undo => f.pc = "ended")
      /\ left[q.name] = NoTree => f.displaced = NoTree
  BY <1>1, KeptSame
<1> HIDE DEF f
<1>6. Carries(q, s)
  BY <1>3, <1>5 DEF Carries
<1>7. ASSUME RollbackSoFar(q, a, b), ~q.undo
      PROVE  RollbackSoFar(s, a, b1)
  <2>1. a \in [Names -> Tree] \X [Keys -> Tree] /\ active \in [Names -> Tree]
    BY DEF AloneInv, IInv, StoreType
  <2> HIDE DEF q, s, a
  <2>2. /\ active = [a[1] EXCEPT ![q.name] = a[2][q.selected]]
        /\ history = [a[2] EXCEPT ![q.selected] = NoTree]
        /\ q.displaced = a[1][q.name] /\ a[2][q.selected] # NoTree
    <3>1. b = <<[a[1] EXCEPT ![q.name] = a[2][q.selected]], [a[2] EXCEPT ![q.selected] = NoTree]>>
      BY <1>1, <1>7 DEF RollbackSoFar
    <3>2. q.displaced = a[1][q.name] /\ a[2][q.selected] # NoTree
      BY <1>1, <1>7 DEF RollbackSoFar
    <3> QED BY <3>1, <3>2
  <2>3. back
    BY <1>2, <2>1, <2>2
  <2>4. left = [active EXCEPT ![q.name] = NoTree] /\ left[q.name] = NoTree
    BY <1>2, <2>1, <2>3
  <2>5. active' = a[1]
    BY <1>2, <1>3, <2>1, <2>2, <2>4
  <2>6. history' = a[2]
    BY <1>2, <1>3, <2>1, <2>2, <2>3
  <2>7. b1 = a
    BY <2>1, <2>5, <2>6
  <2> HIDE DEF b1, left
  <2> QED BY <1>3, <1>5, <1>7, <2>4, <2>7 DEF RollbackSoFar
<1> QED BY <1>1, <1>3, <1>6, <1>7, RollsAlone

(* A step of a command leaves what is known of the others as it is: when one *)
(* of them is alone, there is no such step.                                  *)
LEMMA StepAlone ==
    ASSUME IInv, IInv', AloneInv, NEW p \in Processes, Goes(p, proc'[p]), proc[p].pc # "idle",
           NEW s, Put(p, s), UNCHANGED <<before, alone>>, faults' = faults \/ faults' = faults + 1
    PROVE  AloneInv'
<1>1. \A q \in Processes \ {p} : proc'[q] = proc[q]
  BY DEF Put, IInv, StoreType
<1>2. faults \in Nat /\ faults' \in Nat /\ faults <= faults'
  BY DEF IInv, StoreType
<1>3. \A q \in Processes : proc'[q].failures <= faults'
  <2>1. \A q \in Processes : proc[q].failures \in Nat /\ proc[q].failures <= faults
    BY ProcIs DEF AloneInv, CommandType
  <2>2. proc'[p].failures \in {proc[p].failures, faults'}
    BY DEF Goes, Carries
  <2> QED BY <1>1, <1>2, <2>1, <2>2
<1>4. ASSUME NEW q \in Processes, alone'[q], proc'[q].pc # "idle"
      PROVE  /\ \A o \in Processes \ {q} : proc'[o].pc = "idle"
             /\ proc'[q].cmd # "none"
             /\ proc'[q].cmd = "install" /\ Undoes(proc'[q], faults')
                => InstallSoFar(proc'[q], before'[q], <<active', history'>>)
             /\ proc'[q].cmd = "rollback"
                => RollbackSoFar(proc'[q], before'[q], <<active', history'>>)
  <2>1. CASE q # p
    <3>1. alone[q] /\ proc[q].pc # "idle"
      BY <1>1, <1>4, <2>1
    <3>2. proc[p].pc = "idle"
      BY <2>1, <3>1 DEF AloneInv
    <3> QED BY <3>2
  <2>2. CASE q = p
    <3>1. \A o \in Processes \ {p} : proc'[o].pc = "idle"
      BY <1>1, <1>4, <2>2 DEF AloneInv
    <3>2. proc'[p].cmd = proc[p].cmd /\ proc[p].cmd # "none"
      BY <1>4, <2>2 DEF Goes, Carries, AloneInv
    <3> QED BY <1>4, <2>2, <3>1, <3>2 DEF Goes
  <2> QED BY <2>1, <2>2
<1>5. /\ before' \in [Processes -> [Names -> Tree] \X [Keys -> Tree]]
      /\ alone' \in [Processes -> BOOLEAN]
  BY DEF AloneInv
<1> QED BY <1>3, <1>4, <1>5 DEF AloneInv
LEMMA CommandAlone ==
    ASSUME IInv, AloneInv, NEW p \in Processes, Command(p)
    PROVE  AloneInv'
<1> DEFINE a == <<active, history>>
           others == {q \in Processes \ {p} : ~At(q, "idle")}
<1>1. PICK s \in CommandType : Put(p, s) /\ Starts(s)
  BY CommandIs
<1>2. /\ proc[p].pc = "idle" /\ UNCHANGED <<active, history, faults>>
      /\ before' = [before EXCEPT ![p] = a]
      /\ alone' = [q \in Processes |-> IF q = p THEN others = {}
                                       ELSE IF q \in others THEN FALSE ELSE alone[q]]
  BY DEF Command, At, KeepTrees
<1>3. proc'[p] = s /\ \A q \in Processes \ {p} : proc'[q] = proc[q]
  BY <1>1 DEF Put, IInv, StoreType
<1>4. before' \in [Processes -> [Names -> Tree] \X [Keys -> Tree]] /\ before'[p] = a
  <2>1. a \in [Names -> Tree] \X [Keys -> Tree]
    BY DEF IInv, StoreType
  <2> HIDE DEF a
  <2> QED BY <1>2, <2>1 DEF AloneInv
<1>5. alone' \in [Processes -> BOOLEAN]
  BY <1>2, Zenon DEF AloneInv
<1>6. \A q \in Processes : proc'[q].failures <= faults'
  <2>1. s.failures = 0 /\ faults' = faults /\ faults \in Nat
    BY <1>1, <1>2 DEF Starts, IInv, StoreType
  <2> QED BY <1>3, <2>1 DEF AloneInv
<1>7. ASSUME NEW q \in Processes, alone'[q], proc'[q].pc # "idle"
      PROVE  /\ \A o \in Processes \ {q} : proc'[o].pc = "idle"
             /\ proc'[q].cmd # "none"
             /\ proc'[q].cmd = "install" /\ Undoes(proc'[q], faults')
                => InstallSoFar(proc'[q], before'[q], <<active', history'>>)
             /\ proc'[q].cmd = "rollback"
                => RollbackSoFar(proc'[q], before'[q], <<active', history'>>)
  <2>1. q = p
    <3>1. CASE q # p
      <4>1. q \in others
        BY <1>3, <1>7, <3>1 DEF At
      <4>2. alone'[q] = FALSE
        BY <1>2, <3>1, <4>1
      <4> QED BY <1>7, <4>2
    <3> QED BY <3>1
  <2>2. others = {}
    BY <1>2, <1>7, <2>1, Zenon
  <2>3. \A o \in Processes \ {p} : proc'[o].pc = "idle"
    BY <1>3, <2>2 DEF At
  <2>4. s.cmd # "none"
    BY <1>1 DEF Starts
  <2>5. <<active', history'>> = a
    BY <1>2
  <2> HIDE DEF a
  <2>6. s.cmd = "install" => InstallSoFar(s, a, a)
    <3> SUFFICES ASSUME s.cmd = "install" PROVE InstallSoFar(s, a, a)
      OBVIOUS
    <3>1. s.pc = "look" /\ s.n = 1 /\ s.displaced = NoTree /\ ~s.undo
      BY <1>1 DEF Starts
    <3>2. Done(s, s.n - 1) = {}
      BY <3>1 DEF Done
    <3>3. Added(Done(s, s.n - 1), a, a)
      BY <3>2 DEF Added
    <3> QED BY <3>1, <3>3 DEF InstallSoFar, Installing, RollingBack, Removing
  <2>7. s.cmd = "rollback" => RollbackSoFar(s, a, a)
    BY <1>1 DEF Starts, RollbackSoFar
  <2> QED BY <1>3, <1>4, <2>1, <2>3, <2>4, <2>5, <2>6, <2>7
<1> QED BY <1>4, <1>5, <1>6, <1>7 DEF AloneInv

LEMMA LeavesAlone ==
    ASSUME IInv, AloneInv, NEW p \in Processes, Exit(p) \/ Crash(p)
    PROVE  AloneInv'
<1>1. Put(p, Idle) /\ UNCHANGED <<faults, before, alone>> /\ proc[p].pc # "idle"
  BY DEF Exit, Crash, KeepCounts, At
<1>2. proc'[p] = Idle /\ \A q \in Processes \ {p} : proc'[q] = proc[q]
  BY <1>1 DEF Put, IInv, StoreType
<1>3. \A q \in Processes : proc'[q].failures <= faults'
  <2>1. Idle.failures = 0 /\ faults' = faults /\ faults \in Nat
    BY <1>1 DEF Idle, IInv, StoreType
  <2> QED BY <1>2, <2>1 DEF AloneInv
<1>4. \A q \in Processes : ~(alone'[q] /\ proc'[q].pc # "idle")
  <2>1. ASSUME NEW q \in Processes \ {p}, alone[q], proc[q].pc # "idle"
        PROVE  FALSE
    BY <1>1, <2>1 DEF AloneInv
  <2> QED BY <1>1, <1>2, <2>1, IdleIs
<1>5. /\ before' \in [Processes -> [Names -> Tree] \X [Keys -> Tree]]
      /\ alone' \in [Processes -> BOOLEAN]
  BY <1>1 DEF AloneInv
<1> QED BY <1>3, <1>4, <1>5 DEF AloneInv

LEMMA AloneInit == Init => AloneInv
<1> SUFFICES ASSUME Init PROVE AloneInv
  OBVIOUS
<1>1. /\ before \in [Processes -> [Names -> Tree] \X [Keys -> Tree]]
      /\ alone \in [Processes -> BOOLEAN]
  <2>1. <<active, history>> \in [Names -> Tree] \X [Keys -> Tree]
    BY NoTreeIs DEF Init
  <2> QED BY <2>1 DEF Init
<1>2. \A p \in Processes : proc[p].pc = "idle" /\ proc[p].failures = 0 /\ faults = 0
  BY DEF Init, Idle
<1> QED BY <1>1, <1>2 DEF AloneInv

LEMMA AloneNext == IInv /\ AloneInv /\ [Next]_vars => AloneInv'
<1> SUFFICES ASSUME IInv, AloneInv, [Next]_vars PROVE AloneInv'
  OBVIOUS
<1>1. IInv'
  BY InvNext
<1>2. CASE UNCHANGED vars
  BY <1>2 DEF AloneInv, vars
<1>3. ASSUME NEW p \in Processes, InstallSteps(p) \/ RollbackSteps(p) \/ RemoveSteps(p)
      PROVE  AloneInv'
  <2>1. Goes(p, proc'[p])
    <3>1. CASE InstallSteps(p)
      BY <3>1, LookAlone, CopyAlone, BackUpAlone, CommitAlone, CommitFailsAlone, UndoAlone
        DEF InstallSteps
    <3>2. CASE RollbackSteps(p)
      BY <3>2, ReadAlone, ScanAlone, DisplaceAlone, RestoreAlone, KeepAlone, KeepFailsAlone
        DEF RollbackSteps
    <3>3. CASE RemoveSteps(p)
      BY <3>3, OpenAlone, UnlinkAlone DEF RemoveSteps
    <3> QED BY <1>3, <3>1, <3>2, <3>3
  <2>2. /\ proc[p].pc # "idle" /\ UNCHANGED <<before, alone>> /\ \E s : Put(p, s)
        /\ faults' = faults \/ faults' = faults + 1
    <3>1. CASE InstallSteps(p)
      BY <3>1 DEF InstallSteps, Look, Copy, BackUp, Commit, CommitFails, Undo, At, KeepCounts,
                  Works, Fails
    <3>2. CASE RollbackSteps(p)
      BY <3>2 DEF RollbackSteps, Read, Scan, Displace, Restore, Keep, KeepFails, At, KeepCounts,
                  Works, Fails
    <3>3. CASE RemoveSteps(p)
      BY <3>3 DEF RemoveSteps, Open, Unlink, At, KeepCounts, Works, Fails
    <3> QED BY <1>3, <3>1, <3>2, <3>3
  <2> QED BY <1>1, <2>1, <2>2, StepAlone
<1> QED BY <1>2, <1>3, CommandAlone, LeavesAlone DEF Next

(* A rollback that fails keeps the active tree, and an installation that     *)
(* fails replaces nothing and removes what it has added: of a command that   *)
(* runs alone, whose undoing succeeds, and that is not the upgrade of        *)
(* several packages.                                                         *)
THEOREM FailureIsUndone == Spec => []FailureChangesNothing
<1>1. IInv /\ AloneInv => FailureChangesNothing
  <2> SUFFICES ASSUME IInv, AloneInv, NEW p \in Processes,
                      At(p, "ended"), ~proc[p].ok, alone[p], proc[p].cmd # "remove",
                      proc[p].upgrade => Len(proc[p].plan) = 1,
                      proc[p].undo => proc[p].failures = faults
               PROVE  <<active, history>> = before[p] /\ proc[p].displaced = NoTree
    BY DEF FailureChangesNothing
  <2> DEFINE q == proc[p]
             a == before[p]
             b == <<active, history>>
  <2>1. q.pc = "ended" /\ Undoes(q, faults)
    BY DEF At, Undoes
  <2>2. q.cmd \in {"install", "rollback"}
    <3>1. q.cmd \in {"none", "install", "rollback", "remove"}
      BY ProcIs DEF CommandType
    <3> QED BY <2>1, <3>1 DEF AloneInv
  <2>3. \/ InstallSoFar(q, a, b)
        \/ RollbackSoFar(q, a, b)
    BY <2>1, <2>2 DEF AloneInv
  <2> HIDE DEF q, a, b
  <2>4. ~q.ok
    BY DEF q
  <2>5. b = a /\ q.displaced = NoTree
    BY <2>1, <2>3, <2>4 DEF InstallSoFar, RollbackSoFar
  <2> QED BY <2>5 DEF q, a, b
<1>2. Init => AloneInv
  BY AloneInit
<1>3. IInv /\ AloneInv /\ [Next]_vars => AloneInv'
  BY AloneNext
<1>4. Spec => []AloneInv
  BY <1>2, <1>3, Invariance, PTL DEF Spec
<1> QED BY <1>1, <1>4, Invariance, PTL
=============================================================================
