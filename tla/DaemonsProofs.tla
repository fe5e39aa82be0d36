---------------------------- MODULE DaemonsProofs ---------------------------
(***************************************************************************)
(* Proofs about Daemons, for any numbers of daemons, shells, tabs and pids *)
(* and with no bound on events: every step is a step of Recovery or leaves *)
(* the file alone, so what Recovery promises of one file holds through     *)
(* upgrades; and whom a hang-up reaches, from who is in charge, who is     *)
(* whose parent, and what the kernel cannot yet have reused.               *)
(***************************************************************************)
EXTENDS Daemons, TLAPS, SequenceTheorems

-----------------------------------------------------------------------------
(* The file. *)

(* What stays true of the file, whoever opens, saves, ends or loses power. *)
FileStage == {"none", "created", "written", "synced", "renamed"}

PendingOK ==
    /\ pending \in [Daemon -> [stage : FileStage, list : Encodable \cup {<<>>}]]
    /\ \A p \in Daemon : pending[p].stage # "none" => pending[p].list \in Encodable

(* A daemon that finds the file damaged never comes to write it. *)
Untouched ==
    live = Damaged =>
        /\ disk = {Damaged}
        /\ \A p \in Daemon : pending[p].stage = "none" /\ cache[p] \in {Disabled, Unopened}

FileInv ==
    /\ PendingOK
    /\ DOMAIN cache = Daemon
    /\ live \in disk
    /\ FileIsWhole
    /\ Untouched

LEMMA FileConstants ==
    {Absent, Damaged, Fresh, Disabled, Unopened} \cap Encodable = {} /\ Absent # Damaged
  BY DaemonsAssumption DEF DaemonsAssumption, File!RecoveryAssumption

(* The invariant holds of the file as a first daemon finds it. *)
LEMMA FileInvInit == File!RecoveryInit => FileInv
<1> SUFFICES ASSUME File!RecoveryInit PROVE FileInv
  OBVIOUS
<1> USE FileConstants DEF File!RecoveryInit, File!NoFile, FileStage
<1>1. PendingOK
  BY DEF PendingOK
<1>2. DOMAIN cache = Daemon /\ live \in disk /\ FileIsWhole /\ Untouched
  BY DEF FileIsWhole, Untouched
<1> QED
  BY <1>1, <1>2 DEF FileInv

(* No call of a daemon, no end of one and no loss of power disturbs it. *)
LEMMA FileInvStep ==
    FileInv /\ [File!RecoveryNext]_fileVars => FileInv'
<1> SUFFICES ASSUME FileInv, [File!RecoveryNext]_fileVars PROVE FileInv'
  OBVIOUS
<1> USE FileConstants DEF FileInv, FileIsWhole, Untouched, File!NoFile, FileStage
<1>1. CASE UNCHANGED fileVars
  BY <1>1 DEF fileVars, PendingOK
<1>2. CASE File!PowerFails
  BY <1>2 DEF File!PowerFails, PendingOK
<1>3. ASSUME NEW p \in Daemon, NEW ok \in BOOLEAN, File!Open(p, ok) PROVE FileInv'
  BY <1>3 DEF File!Open, File!Opened, PendingOK
<1>4. ASSUME NEW p \in Daemon, NEW list \in Encodable, File!Create(p, list) PROVE FileInv'
  <2>1. PendingOK'
    BY <1>4 DEF File!Create, PendingOK
  <2>2. live # Damaged
    BY <1>4 DEF File!Create, File!Skips
  <2> QED
    BY <1>4, <2>1, <2>2 DEF File!Create
<1>5. ASSUME NEW p \in Daemon, File!Write(p) \/ File!Sync(p) PROVE FileInv'
  BY <1>5 DEF File!Write, File!Sync, File!Advance, PendingOK
<1>6. ASSUME NEW p \in Daemon, File!Rename(p) PROVE FileInv'
  <2>1. PendingOK'
    BY <1>6 DEF File!Rename, PendingOK
  <2>2. live' = pending[p].list /\ live' # Damaged /\ live # Damaged
    BY <1>6 DEF File!Rename, File!Contents, PendingOK
  <2>3. disk' = disk \cup {live'}
    BY <1>6, <2>2 DEF File!Rename, File!Remains
  <2> QED
    BY <1>6, <2>1, <2>2, <2>3 DEF File!Rename
<1>7. ASSUME NEW p \in Daemon, File!Finish(p) \/ File!Fail(p) \/ File!Leave(p) PROVE FileInv'
  <2>1. PendingOK'
    BY <1>7 DEF File!Finish, File!Fail, File!Leave, PendingOK
  <2>2. DOMAIN cache' = Daemon
    BY <1>7 DEF File!Finish, File!Fail, File!Leave
  <2>3. CASE File!Finish(p)
    <3>1. live # Damaged
      BY <2>3 DEF File!Finish
    <3> QED
      BY <2>1, <2>2, <2>3, <3>1 DEF File!Finish
  <2>4. CASE File!Fail(p) \/ File!Leave(p)
    <3>1. live' \in disk' /\ (Damaged \in disk' => live' = Damaged)
      BY <2>4 DEF File!Fail, File!Leave
    <3>2. Untouched'
      BY <2>4 DEF File!Fail, File!Leave, PendingOK
    <3> QED
      BY <2>1, <2>2, <3>1, <3>2
  <2> QED
    BY <1>7, <2>3, <2>4
<1> QED
  BY <1>1, <1>2, <1>3, <1>4, <1>5, <1>6, <1>7 DEF File!RecoveryNext

(* A damaged file stays as it is and no other becomes one. *)
LEMMA DamageStep ==
    FileInv /\ [File!RecoveryNext]_fileVars
        => (live = Damaged <=> live' = Damaged)
<1> SUFFICES ASSUME FileInv, [File!RecoveryNext]_fileVars
             PROVE  live = Damaged <=> live' = Damaged
  OBVIOUS
<1> USE FileConstants DEF FileInv, FileIsWhole, Untouched, FileStage
<1>1. CASE UNCHANGED fileVars
  BY <1>1 DEF fileVars
<1>2. CASE File!PowerFails
  BY <1>2 DEF File!PowerFails
<1>3. ASSUME NEW p \in Daemon, File!Rename(p) PROVE live # Damaged /\ live' # Damaged
  BY <1>3 DEF File!Rename, File!Contents, PendingOK
<1>4. CASE UNCHANGED live
  BY <1>4
<1>5. ASSUME NEW p \in Daemon,
             \/ \E ok \in BOOLEAN : File!Open(p, ok)
             \/ \E list \in Encodable : File!Create(p, list)
             \/ File!Write(p) \/ File!Sync(p) \/ File!Finish(p) \/ File!Fail(p) \/ File!Leave(p)
      PROVE  UNCHANGED live
  BY <1>5 DEF File!Open, File!Create, File!Write, File!Sync, File!Advance, File!Finish, File!Fail, File!Leave
<1> QED
  BY <1>1, <1>2, <1>3, <1>4, <1>5 DEF File!RecoveryNext

(* Each action of a daemon makes at most one call of its Recovery. *)
LEMMA StepOfFile == [Next]_vars => [File!RecoveryNext]_fileVars
<1> SUFFICES ASSUME [Next]_vars PROVE File!RecoveryNext \/ UNCHANGED fileVars
  OBVIOUS
<1>1. CASE UNCHANGED vars
  BY <1>1 DEF vars
<1>2. ASSUME NEW d \in Daemon, NEW ok \in BOOLEAN, Start(d, ok) \/ ReceiverOpens(d, ok)
      PROVE  File!RecoveryNext
  <2>1. File!Open(d, ok)
    BY <1>2 DEF Start, ReceiverOpens
  <2> QED
    BY <2>1 DEF File!RecoveryNext
<1>3. ASSUME NEW d \in Daemon,
             NoUpgrade(d) \/ Upgrade(d) \/ Seal(d) \/ ReceiverLost(d) \/ Maintain(d)
               \/ MaintainDue(d) \/ SaveSkipped(d)
      PROVE  UNCHANGED fileVars
  BY <1>3 DEF NoUpgrade, Upgrade, Seal, ReceiverLost, Maintain, MaintainDue, SaveSkipped, fileVars
<1>4. ASSUME NEW d \in Daemon, NEW r \in Daemon, Pin(d, r) \/ Commit(d, r)
      PROVE  UNCHANGED fileVars
  BY <1>4 DEF Pin, Commit, fileVars
<1>5. ASSUME NEW d \in Daemon, NEW r \in Daemon, Reject(d, r) \/ GivesUp(r)
      PROVE  File!RecoveryNext
  <2>1. File!Leave(r)
    BY <1>5 DEF Reject, GivesUp, Rejected
  <2> QED
    BY <2>1 DEF File!RecoveryNext
<1>6. ASSUME NEW d \in Daemon, SaveStep(d) PROVE File!RecoveryNext
  <2>1. CASE File!Create(d, Recipes(d))
    <3>1. Recipes(d) \in Encodable
      BY <2>1 DEF File!Create
    <3> QED
      BY <2>1, <3>1 DEF File!RecoveryNext
  <2>2. CASE File!Write(d) \/ File!Sync(d) \/ File!Rename(d)
    BY <2>2 DEF File!RecoveryNext
  <2> QED
    BY <1>6, <2>1, <2>2 DEF SaveStep
<1>7. ASSUME NEW d \in Daemon, SaveDone(d) PROVE File!RecoveryNext
  <2>1. File!Finish(d)
    BY <1>7 DEF SaveDone
  <2> QED
    BY <2>1 DEF File!RecoveryNext
<1>8. ASSUME NEW d \in Daemon, SaveFails(d) PROVE File!RecoveryNext \/ UNCHANGED fileVars
  <2>1. File!Fail(d) \/ UNCHANGED fileVars
    BY <1>8 DEF SaveFails
  <2> QED
    BY <2>1 DEF File!RecoveryNext
<1>9. ASSUME NEW d \in Daemon,
             OpenTab(d) \/ Navigate(d) \/ CloseTab(d) \/ Output(d) \/ Attach(d) \/ Replace(d)
               \/ Convert(d) \/ ChildSignal(d) \/ TurnEnds(d) \/ StopAsked(d)
      PROVE  UNCHANGED fileVars
  BY <1>9 DEF OpenTab, Navigate, CloseTab, Output, Attach, Replace, Convert, ChildSignal, TurnEnds,
              StopAsked, Handling, fileVars
<1>10. ASSUME NEW d \in Daemon, Retires(d) \/ Crash(d) PROVE File!RecoveryNext
  <2>1. File!Leave(d)
    BY <1>10 DEF Retires, Crash, Ends
  <2> QED
    BY <2>1 DEF File!RecoveryNext
<1>11. CASE PowerLoss
  <2>1. File!PowerFails
    BY <1>11 DEF PowerLoss
  <2> QED
    BY <2>1 DEF File!RecoveryNext
<1>12. ASSUME NEW s \in Shell, ShellEnds(s) PROVE UNCHANGED fileVars
  BY <1>12 DEF ShellEnds, fileVars
<1>13. CASE PidTaken \/ Install \/ Uninstall
  BY <1>13 DEF PidTaken, Install, Uninstall, fileVars
<1>14. CASE Begins
  BY <1>14, <1>2 DEF Begins
<1>15. CASE Happens \/ Consequence
  BY <1>15, <1>5, <1>8, <1>9, <1>10, <1>11, <1>12, <1>13 DEF Happens, Consequence, World, Event
<1>16. CASE Progress
  <2>1. PICK d \in Daemon : Turn(d) \/ MaintainDue(d)
    BY <1>16 DEF Progress
  <2> QED
    BY <2>1, <1>2, <1>3, <1>4, <1>6, <1>7, <1>9, <1>10 DEF Turn
<1> QED
  BY <1>1, <1>14, <1>15, <1>16 DEF Next

LEMMA InitFile == Init => FileInv
  BY FileInvInit DEF Init

LEMMA NextFile == FileInv /\ [Next]_vars => FileInv'
  BY StepOfFile, FileInvStep

(* Through any succession of daemons the path never names a part of a list. *)
THEOREM DaemonsKeepFileWhole == Spec => []FileIsWhole
<1>1. FileInv => FileIsWhole
  BY DEF FileInv
<1> QED
  BY <1>1, InitFile, NextFile, PTL DEF Spec

(* No daemon of them writes over a file that its predecessor, or it, could  *)
(* not decode.                                                              *)
THEOREM DaemonsKeepDamage == Spec => DamageIsKept
<1>1. FileInv /\ [Next]_vars => [live = Damaged <=> live' = Damaged]_vars
  BY StepOfFile, DamageStep
<1> QED
  BY <1>1, InitFile, NextFile, PTL DEF Spec, DamageIsKept

(* The daemons implement Recovery: its specification, with no bound.        *)
THEOREM DaemonsImplementRecovery == Spec => File!RecoverySpec
<1>1. Init => File!RecoveryInit
  BY DEF Init
<1>2. [Next]_vars => [File!RecoveryNext]_File!recoveryVars
  BY StepOfFile DEF fileVars, File!recoveryVars
<1> QED
  BY <1>1, <1>2, PTL DEF Spec, File!RecoverySpec

(* And Recovery keeps every file whole (recovery.rs), whatever process uses  *)
(* it when.                                                                  *)
THEOREM RecoveryIsWhole == File!RecoverySpec => []File!FileIsWhole
<1>1. FileInv => File!FileIsWhole
  BY DEF FileInv, FileIsWhole, File!FileIsWhole
<1>2. FileInv /\ [File!RecoveryNext]_File!recoveryVars => FileInv'
  BY FileInvStep DEF fileVars, File!recoveryVars
<1> QED
  BY <1>1, <1>2, FileInvInit, PTL DEF File!RecoverySpec

(* recovery.rs: what cannot be decoded is kept.                             *)
THEOREM RecoveryKeepsDamage == File!RecoverySpec => File!DamageIsKept
<1>1. FileInv /\ [File!RecoveryNext]_File!recoveryVars
          => [live = Damaged <=> live' = Damaged]_File!recoveryVars
  BY DamageStep DEF fileVars, File!recoveryVars
<1>2. FileInv /\ [File!RecoveryNext]_File!recoveryVars => FileInv'
  BY FileInvStep DEF fileVars, File!recoveryVars
<1> QED
  BY <1>1, <1>2, FileInvInit, PTL DEF File!RecoverySpec, File!DamageIsKept

-----------------------------------------------------------------------------
(* Who is in charge. *)

PcState == {"absent", "gone", "top", "maintain", "saving", "handle", "leaving", "stopped",
            "spawned", "sealed", "receiving", "opened", "staged", "retired"}

(* One daemon serves; one receiver waits, and only while its donor does.    *)
Control ==
    /\ pc \in [Daemon -> PcState]
    /\ \A d, e \in Daemon : Serving(d) /\ Serving(e) => d = e
    /\ \A d, e \in Daemon : pc[d] \in Receiving /\ pc[e] \in Receiving => d = e
    /\ \A d, e \in Daemon : Serving(d) /\ pc[e] \in Receiving => pc[d] \in Donating

LEMMA ControlInit == Init => Control
  BY DEF Init, Control, Serving, Receiving, Donating, PcState

(* To publish is to save, or not. *)
LEMMA PublishGoes ==
    ASSUME NEW d \in Daemon, NEW es, NEW ts, Publish(d, es, ts) \/ PublishIfDue(d, es, ts)
    PROVE  Goes(d, "handle") \/ Goes(d, "saving")
<1>1. CASE Publish(d, es, ts)
  BY <1>1 DEF Publish
<1>2. CASE PublishIfDue(d, es, ts)
  BY <1>1, <1>2 DEF PublishIfDue
<1> QED
  BY <1>1, <1>2

LEMMA MaintenanceGoes ==
    ASSUME NEW d \in Daemon,
           Maintain(d) \/ MaintainDue(d) \/ OpenTab(d) \/ Navigate(d)
    PROVE  Goes(d, "handle") \/ Goes(d, "saving")
<1>1. CASE Maintain(d)
  BY <1>1, PublishGoes DEF Maintain
<1>2. CASE MaintainDue(d)
  <2>1. PICK f : PublishIfDue(d, Marked(entries[d], tabs[d], Seen(d, f)), Seen(d, f))
    BY <1>2 DEF MaintainDue
  <2> QED
    BY <2>1, PublishGoes
<1>3. CASE OpenTab(d)
  <2>1. \E es, ts : Publish(d, es, ts)
    BY <1>3 DEF OpenTab
  <2> QED
    BY <2>1, PublishGoes
<1>4. CASE Navigate(d)
  <2>1. \E es, ts : Publish(d, es, ts)
    BY <1>4 DEF Navigate
  <2> QED
    BY <2>1, PublishGoes
<1> QED
  BY <1>1, <1>2, <1>3, <1>4

LEMMA ControlStep == Control /\ [Next]_vars => Control'
<1> SUFFICES ASSUME Control, [Next]_vars PROVE Control'
  OBVIOUS
<1> USE DEF Control, Serving, Receiving, Donating, PcState
<1>1. CASE UNCHANGED vars
  BY <1>1 DEF vars
<1>2. ASSUME NEW d \in Daemon, NEW ok \in BOOLEAN, Start(d, ok) PROVE Control'
  BY <1>2 DEF Start, Goes, Living, Absentee
<1>3. ASSUME NEW d \in Daemon, NEW ok \in BOOLEAN, ReceiverOpens(d, ok) PROVE Control'
  BY <1>3 DEF ReceiverOpens, Goes
<1>4. ASSUME NEW d \in Daemon, NEW to \in {"top", "maintain", "saving", "handle", "leaving", "stopped"},
             Serving(d), pc[d] \notin Donating, Goes(d, to)
      PROVE  Control'
  BY <1>4 DEF Goes
<1>5. ASSUME NEW d \in Daemon, Upgrade(d) PROVE Control'
  <2>1. CASE Goes(d, "maintain")
    BY <1>5, <2>1, <1>4 DEF Upgrade
  <2>2. ASSUME NEW r \in NextDaemon,
               pc' = [pc EXCEPT ![d] = "spawned", ![r] = "receiving"]
        PROVE  Control'
    <3>1. r \in Daemon /\ pc[r] = "absent" /\ pc[d] = "top"
      BY <1>5, <2>2 DEF Upgrade, NextDaemon
    <3>2. \A e \in Daemon : pc[e] \notin Receiving
      BY <3>1
    <3> QED
      BY <2>2, <3>1, <3>2
  <2> QED
    BY <1>5, <2>1, <2>2 DEF Upgrade
<1>6. ASSUME NEW d \in Daemon, Seal(d) \/ ReceiverLost(d) PROVE Control'
  BY <1>6 DEF Seal, ReceiverLost, Goes
<1>7. ASSUME NEW d \in Daemon, NEW r \in Daemon, Pin(d, r) \/ Commit(d, r) \/ Reject(d, r) \/ GivesUp(r)
      PROVE  Control'
  BY <1>7 DEF Pin, Commit, HandedOver, Reject, GivesUp, Goes
<1>8. ASSUME NEW d \in Daemon,
             NoUpgrade(d) \/ Maintain(d) \/ MaintainDue(d) \/ OpenTab(d) \/ Navigate(d)
               \/ SaveSkipped(d) \/ SaveDone(d) \/ SaveFails(d) \/ TurnEnds(d) \/ StopAsked(d)
      PROVE  Control'
  <2>1. PICK to \in {"top", "maintain", "saving", "handle", "leaving", "stopped"} : Goes(d, to)
    BY <1>8, MaintenanceGoes DEF NoUpgrade, SaveSkipped, SaveDone, SaveFails, Saved, TurnEnds, StopAsked
  <2>2. Serving(d) /\ pc[d] \notin Donating
    BY <1>8 DEF NoUpgrade, Maintain, MaintainDue, OpenTab, Navigate, SaveSkipped, SaveDone, SaveFails,
                TurnEnds, StopAsked, Handling
  <2> QED
    BY <2>1, <2>2, <1>4
<1>9. ASSUME NEW d \in Daemon, Retires(d) \/ Crash(d) PROVE Control'
  BY <1>9 DEF Retires, Crash, Ends, Goes
<1>10. CASE PowerLoss
  BY <1>10 DEF PowerLoss
<1>11. CASE UNCHANGED pc
  BY <1>11
<1>12. ASSUME NEW d \in Daemon,
              SaveStep(d) \/ CloseTab(d) \/ Output(d) \/ Attach(d) \/ Replace(d) \/ Convert(d)
                \/ ChildSignal(d)
       PROVE  UNCHANGED pc
  BY <1>12 DEF SaveStep, CloseTab, Output, Attach, Replace, Convert, ChildSignal
<1>13. ASSUME PidTaken \/ Install \/ Uninstall \/ \E s \in Shell : ShellEnds(s)
       PROVE  UNCHANGED pc
  BY <1>13 DEF PidTaken, Install, Uninstall, ShellEnds
<1>14. CASE Begins
  BY <1>14, <1>2 DEF Begins
<1>15. CASE Happens \/ Consequence
  BY <1>15, <1>7, <1>8, <1>9, <1>10, <1>11, <1>12, <1>13 DEF Happens, Consequence, World, Event
<1>16. CASE Progress
  <2>1. PICK d \in Daemon : Turn(d) \/ MaintainDue(d)
    BY <1>16 DEF Progress
  <2> QED
    BY <2>1, <1>3, <1>5, <1>6, <1>7, <1>8, <1>9, <1>11, <1>12 DEF Turn
<1> QED
  BY <1>1, <1>14, <1>15, <1>16 DEF Next

-----------------------------------------------------------------------------
(* Processes and their pids. *)

ProcState == {"unborn", "running", "zombie", "gone"}

ShellTypes ==
    /\ shells \in [Shell -> [state : ProcState, pid : {0} \cup Pid, parent : {0} \cup Daemon]]
    /\ \A s \in Shell : shells[s].state = "unborn" => shells[s].parent = 0
    /\ stranger \in {0} \cup Pid

(* The kernel gives no pid to two processes, a zombie being one. *)
PidsDiffer ==
    /\ \A s \in Shell : Exists(s) => shells[s].pid \in Pid /\ shells[s].pid # stranger
    /\ \A s, t \in Shell : Exists(s) /\ Exists(t) /\ shells[s].pid = shells[t].pid => s = t

Kernel == ShellTypes /\ PidsDiffer

(* What every step but a start of shells does to them. *)
Ages ==
    /\ shells' \in [Shell -> [state : ProcState, pid : {0} \cup Pid, parent : {0} \cup Daemon]]
    /\ \A s \in Shell :
         /\ shells'[s].pid = shells[s].pid /\ shells'[s].parent = shells[s].parent
         /\ shells'[s].state = "unborn" => shells[s].state = "unborn"
         /\ shells'[s].state \in {"running", "zombie"} => Exists(s)

(* A pid names the one shell that has it. *)
LEMMA NamedIsOne ==
    ASSUME Kernel, NEW s \in Shell, Exists(s)
    PROVE  Named(shells[s].pid) = {s}
  BY DEF Kernel, PidsDiffer, Named

LEMMA NobodyIsNamed == ASSUME Kernel PROVE Named(0) = {}
  BY DEF Kernel, PidsDiffer, Named, Pid

LEMMA KernelInit == Init => Kernel
  BY DEF Init, ProcessInit, Unborn, Kernel, ShellTypes, PidsDiffer, ProcState, Exists, Shell

LEMMA GoneAges ==
    ASSUME Kernel, NEW S, shells' = Gone(shells, S), \A s \in S \cap Shell : Exists(s)
    PROVE  Ages
  BY DEF Kernel, ShellTypes, ProcState, Gone, Ages, Exists

LEMMA WaitedAges ==
    ASSUME Kernel, NEW S, shells' = Waited(S), S \subseteq Shell
    PROVE  Ages
  BY GoneAges DEF Waited, Exists

LEMMA OrphanedAges ==
    ASSUME Kernel, NEW d, shells' = Orphaned(d)
    PROVE  Ages
  BY GoneAges DEF Orphaned, Exists

LEMMA ExitAges ==
    ASSUME Kernel, NEW s \in Shell, NEW alive, ShellExits(s, alive)
    PROVE  Ages
  BY DEF Kernel, ShellTypes, ProcState, ShellExits, Ages, Exists

LEMMA AgesKeepsKernel ==
    ASSUME Kernel, Ages, stranger' \in {stranger, 0}
    PROVE  Kernel'
<1>1. ShellTypes'
  BY DEF Kernel, ShellTypes, Ages
<1>2. PidsDiffer'
  BY DEF Kernel, ShellTypes, PidsDiffer, Ages, Exists, Pid
<1> QED
  BY <1>1, <1>2 DEF Kernel

LEMMA SpawnKeepsKernel ==
    ASSUME Kernel, NEW d \in Daemon, NEW D,
           NEW procs \in [D -> {0} \cup Shell], NEW pids \in [D -> {0} \cup Pid],
           MaySpawn(procs, pids), shells' = Spawned(d, procs, pids), UNCHANGED stranger
    PROVE  /\ Kernel'
           /\ \A i \in D : procs[i] # 0 => shells'[procs[i]].parent = d
           /\ \A s \in Shell : shells[s].state # "unborn" => shells'[s] = shells[s]
<1> DEFINE New == {procs[i] : i \in D} \cap Shell
<1>1. \A s \in New :
        /\ shells'[s] \in [state : ProcState, pid : {0} \cup Pid, parent : {0} \cup Daemon]
        /\ shells'[s].state = "running" /\ shells'[s].parent = d
        /\ \E i \in D : /\ procs[i] = s /\ shells'[s].pid = pids[i]
                        /\ pids[i] \in Pid /\ pids[i] \notin UsedPids
  <2> SUFFICES ASSUME NEW s \in New
               PROVE  /\ shells'[s] \in [state : ProcState, pid : {0} \cup Pid, parent : {0} \cup Daemon]
                      /\ shells'[s].state = "running" /\ shells'[s].parent = d
                      /\ \E i \in D : /\ procs[i] = s /\ shells'[s].pid = pids[i]
                                      /\ pids[i] \in Pid /\ pids[i] \notin UsedPids
    OBVIOUS
  <2> DEFINE i == CHOOSE j \in DOMAIN procs : procs[j] = s
  <2>1. i \in D /\ procs[i] = s
    OBVIOUS
  <2>2. shells'[s] = [state |-> "running", parent |-> d, pid |-> pids[i]]
    BY DEF Spawned
  <2> HIDE DEF i
  <2>3. pids[i] \in Pid /\ pids[i] \notin UsedPids
    BY <2>1 DEF MaySpawn, Shell
  <2>4. shells'[s] \in [state : ProcState, pid : {0} \cup Pid, parent : {0} \cup Daemon]
    BY <2>2, <2>3 DEF ProcState
  <2> QED
    BY <2>1, <2>2, <2>3, <2>4
<1>2. \A s \in Shell : s \notin New => shells'[s] = shells[s]
  BY DEF Spawned
<1>3. \A s \in Shell : s \in New => shells[s].state = "unborn"
  BY DEF MaySpawn, Shell
<1> HIDE DEF New
<1>5. ShellTypes'
  <2>1. \A s \in Shell : shells'[s] \in [state : ProcState, pid : {0} \cup Pid, parent : {0} \cup Daemon]
    BY <1>1, <1>2 DEF Kernel, ShellTypes
  <2>2. shells' \in [Shell -> [state : ProcState, pid : {0} \cup Pid, parent : {0} \cup Daemon]]
    BY <2>1 DEF Spawned
  <2>3. \A s \in Shell : shells'[s].state = "unborn" => shells'[s].parent = 0
    BY <1>1, <1>2 DEF Kernel, ShellTypes
  <2> QED
    BY <2>2, <2>3 DEF ShellTypes, Kernel
<1>6. \A s \in Shell : Exists(s)' /\ s \notin New => Exists(s) /\ shells'[s].pid \in UsedPids
  BY <1>2 DEF Exists, UsedPids
<1>7. stranger \in UsedPids
  BY DEF UsedPids
<1>8. PidsDiffer'
  <2>1. \A s \in Shell : Exists(s)' => shells'[s].pid \in Pid /\ shells'[s].pid # stranger'
    BY <1>1, <1>2, <1>6, <1>7 DEF Kernel, PidsDiffer
  <2>2. ASSUME NEW s \in Shell, NEW t \in Shell, Exists(s)', Exists(t)',
               shells'[s].pid = shells'[t].pid
        PROVE  s = t
    <3>1. CASE s \in New /\ t \in New
      <4>1. PICK i \in D : procs[i] = s /\ shells'[s].pid = pids[i]
        BY <1>1, <3>1
      <4>2. PICK j \in D : procs[j] = t /\ shells'[t].pid = pids[j]
        BY <1>1, <3>1
      <4> QED
        BY <2>2, <4>1, <4>2 DEF MaySpawn, Shell
    <3>2. CASE s \in New /\ t \notin New
      BY <1>1, <1>6, <2>2, <3>2
    <3>3. CASE s \notin New /\ t \in New
      BY <1>1, <1>6, <2>2, <3>3
    <3>4. CASE s \notin New /\ t \notin New
      BY <1>2, <1>6, <2>2, <3>4 DEF Kernel, PidsDiffer
    <3> QED
      BY <3>1, <3>2, <3>3, <3>4
  <2> QED
    BY <2>1, <2>2 DEF PidsDiffer
<1> QED
  <2>1. \A i \in D : procs[i] # 0 => shells'[procs[i]].parent = d
    <3> SUFFICES ASSUME NEW i \in D, procs[i] # 0 PROVE shells'[procs[i]].parent = d
      OBVIOUS
    <3>1. procs[i] \in Shell /\ procs[i] \in New
      BY DEF New
    <3> QED
      BY <1>1, <3>1
  <2> QED
    BY <1>2, <1>3, <1>5, <1>8, <2>1 DEF Kernel

-----------------------------------------------------------------------------
(* What the daemons hold. *)

Tab == [shell : {0} \cup Shell, dir : Dir, moves : Nat, pin : SUBSET (Shell \cup {Stranger})]

(* A tab of d: a shell it may signal by number is its child; a pidfd opened *)
(* in the first transfer is that of the shell.                              *)
Owns(d, tab) ==
    /\ tab \in Tab
    /\ Local(tab) => shells[tab.shell].parent = d
    /\ tab.moves = 0 => tab.pin = {}
    /\ tab.moves = 1 => tab.pin \subseteq {tab.shell}

TabsOwned ==
    /\ tabs \in [Daemon -> Seq(Tab)]
    /\ \A d \in Daemon : \A i \in DOMAIN tabs[d] : Owns(d, tabs[d][i])

Retained ==
    /\ reaper \in [Daemon -> SUBSET Shell]
    /\ \A d \in Daemon : \A s \in reaper[d] : shells[s].parent = d

(* Until the receiver has opened it, a pid in the first snapshot of a tab   *)
(* is still that of its shell: only its parent could wait for it, and that  *)
(* is the donor, which waits for the receiver.                              *)
SnapshotHolds ==
    \A d \in Daemon : pc[d] = "sealed" =>
        /\ DOMAIN snap = DOMAIN tabs[d]
        /\ \A i \in DOMAIN tabs[d] : tabs[d][i].moves = 0 =>
             \/ snap[i] = 0
             \/ /\ Local(tabs[d][i]) /\ Exists(tabs[d][i].shell)
                /\ snap[i] = shells[tabs[d][i].shell].pid

Holdings == Kernel /\ TabsOwned /\ Retained

LEMMA PolledOwn ==
    ASSUME Holdings, NEW d \in Daemon
    PROVE  \A s \in Polled(tabs[d]) : s \in Shell /\ shells[s].parent = d
  BY DEF Holdings, TabsOwned, Owns, Polled, Local, Tab

LEMMA AgesKeepsOwns ==
    ASSUME Kernel, Ages, NEW d \in Daemon, NEW tab, Owns(d, tab)
    PROVE  Owns(d, tab)'
  BY DEF Owns, Ages, Local, Tab

LEMMA AgesKeepsTabs ==
    ASSUME Holdings, Ages, tabs' \in [Daemon -> Seq(Tab)],
           \A d \in Daemon : tabs'[d] \in {tabs[d], <<>>}
    PROVE  TabsOwned'
<1> SUFFICES ASSUME NEW d \in Daemon, NEW i \in DOMAIN tabs'[d] PROVE Owns(d, tabs[d][i])'
  BY DEF TabsOwned
<1>1. tabs'[d] = tabs[d]
  OBVIOUS
<1>2. Owns(d, tabs[d][i])
  BY <1>1 DEF Holdings, TabsOwned
<1>3. \A tab : Owns(d, tab) => Owns(d, tab)'
  BY AgesKeepsOwns DEF Holdings
<1> QED
  BY <1>1, <1>2, <1>3 DEF Owns

LEMMA AgesKeepsRetained ==
    ASSUME Holdings, Ages, reaper' \in [Daemon -> SUBSET Shell],
           \A d \in Daemon : \A s \in reaper'[d] : shells[s].parent = d
    PROVE  Retained'
  BY DEF Holdings, Retained, Ages

LEMMA ReapKeeps ==
    ASSUME Holdings, NEW d \in Daemon, NEW S \in SUBSET Shell,
           \A s \in S : shells[s].parent = d, Reap(d, S), UNCHANGED stranger
    PROVE  Ages /\ Kernel' /\ Retained'
<1>1. Ages
  BY WaitedAges DEF Reap, Holdings, Retained
<1>2. reaper' \in [Daemon -> SUBSET Shell] /\ \A e \in Daemon : \A s \in reaper'[e] : shells[s].parent = e
  BY DEF Reap, Holdings, Retained
<1> QED
  BY <1>1, <1>2, AgesKeepsKernel, AgesKeepsRetained DEF Holdings

LEMMA HoldingsInit == Init => Holdings /\ SnapshotHolds
<1> SUFFICES ASSUME Init PROVE Holdings /\ SnapshotHolds
  OBVIOUS
<1>1. tabs = [d \in Daemon |-> <<>>] /\ reaper = [d \in Daemon |-> {}] /\ pc = [d \in Daemon |-> "absent"]
  BY DEF Init, ProcessInit
<1>2. TabsOwned /\ Retained /\ SnapshotHolds
  BY <1>1 DEF TabsOwned, Retained, SnapshotHolds
<1> QED
  BY <1>2, KernelInit DEF Holdings

-----------------------------------------------------------------------------
(* The steps, by what they disturb. *)

LEMMA NoneSealed ==
    ASSUME Control, NEW d \in Daemon, Serving(d), pc[d] # "sealed", NEW e \in Daemon
    PROVE  pc[e] # "sealed"
  BY DEF Control, Serving, Donating

(* Steps that change no tab, shell or child. *)
LEMMA IdleKeeps ==
    ASSUME Holdings, UNCHANGED <<processVars, tabs>>
    PROVE  Holdings'
<1> USE DEF Holdings, Kernel, ShellTypes, PidsDiffer, Exists, TabsOwned, Owns, Local, Retained, processVars
<1>1. Kernel'
  OBVIOUS
<1>2. TabsOwned'
  OBVIOUS
<1>3. Retained'
  OBVIOUS
<1> QED
  BY <1>1, <1>2, <1>3

(* Steps of a loop that is not in a transfer leave no snapshot to hold. *)
LEMMA LoopKeepsSnapshot ==
    ASSUME Control, NEW d \in Daemon, Serving(d), pc[d] # "sealed",
           NEW to, to # "sealed", pc' \in {pc, [pc EXCEPT ![d] = to]}
    PROVE  SnapshotHolds'
<1>1. \A e \in Daemon : pc[e] # "sealed"
  BY NoneSealed
<1>2. \A e \in Daemon : pc'[e] # "sealed"
  BY <1>1 DEF Control
<1> QED
  BY <1>2 DEF SnapshotHolds

LEMMA UpgradeKeeps ==
    ASSUME Control, Holdings, SnapshotHolds, NEW d \in Daemon, Upgrade(d)
    PROVE  Holdings' /\ SnapshotHolds'
<1>1. Holdings'
  BY IdleKeeps DEF Upgrade
<1>2. \A e \in Daemon : pc[e] # "sealed"
  BY NoneSealed DEF Upgrade, Serving
<1>3. \A e \in Daemon : pc'[e] # "sealed"
  BY <1>2 DEF Upgrade, Goes, Control
<1> QED
  BY <1>1, <1>3 DEF SnapshotHolds

LEMMA ReceiverStepKeeps ==
    ASSUME Control, Holdings, SnapshotHolds, NEW r \in Daemon, NEW ok, ReceiverOpens(r, ok)
    PROVE  Holdings' /\ SnapshotHolds'
<1>1. Holdings'
  BY IdleKeeps DEF ReceiverOpens
<1>2. SnapshotHolds'
  BY DEF ReceiverOpens, Goes, Control, SnapshotHolds, processVars, Local, Exists
<1> QED
  BY <1>1, <1>2

LEMMA SealKeeps ==
    ASSUME Control, Holdings, NEW d \in Daemon, Seal(d)
    PROVE  Holdings' /\ SnapshotHolds'
<1> DEFINE S == Polled(tabs[d])
<1>1. S \subseteq Shell
  BY PolledOwn
<1>2. Ages
  BY <1>1, WaitedAges DEF Seal, Holdings
<1>3. Kernel' /\ TabsOwned' /\ Retained'
  BY <1>2, AgesKeepsKernel, AgesKeepsTabs, AgesKeepsRetained DEF Seal, Holdings, TabsOwned, Retained
<1>4. \A e \in Daemon : pc'[e] = "sealed" => e = d
  BY NoneSealed DEF Seal, Goes, Control, Serving, Donating
<1>5. DOMAIN snap' = DOMAIN tabs'[d]
  BY DEF Seal
<1>6. ASSUME NEW i \in DOMAIN tabs[d], tabs[d][i].moves = 0
      PROVE  \/ snap'[i] = 0
             \/ /\ Local(tabs[d][i]) /\ Exists(tabs[d][i].shell)'
                /\ snap'[i] = shells'[tabs[d][i].shell].pid
  <2>1. snap'[i] = LivePid(tabs[d][i])
    BY DEF Seal
  <2>2. Owns(d, tabs[d][i])
    BY DEF Holdings, TabsOwned
  <2>3. CASE ~Local(tabs[d][i])
    BY <1>6, <2>1, <2>2, <2>3 DEF LivePid, Owns
  <2>4. CASE Local(tabs[d][i]) /\ shells[tabs[d][i].shell].state = "running"
    <3>1. tabs[d][i].shell \in Shell
      BY <2>2, <2>4 DEF Owns, Tab, Local
    <3>2. shells'[tabs[d][i].shell] = shells[tabs[d][i].shell]
      BY <2>4, <3>1 DEF Seal, Waited, Gone
    <3>3. Exists(tabs[d][i].shell)' /\ LivePid(tabs[d][i]) = shells'[tabs[d][i].shell].pid
      BY <2>4, <3>2 DEF LivePid, Exists, Seal
    <3> QED
      BY <2>1, <2>4, <3>3
  <2>5. CASE Local(tabs[d][i]) /\ shells[tabs[d][i].shell].state # "running"
    BY <2>1, <2>5 DEF LivePid
  <2> QED
    BY <2>3, <2>4, <2>5
<1>7. SnapshotHolds'
  BY <1>4, <1>5, <1>6 DEF SnapshotHolds, Seal, Local
<1> QED
  BY <1>3, <1>7 DEF Holdings

LEMMA AdoptedOwns ==
    ASSUME Kernel, NEW d \in Daemon, NEW r \in Daemon, NEW tab, Owns(d, tab), NEW pid,
           tab.moves = 0 =>
             pid = 0 \/ (Local(tab) /\ Exists(tab.shell) /\ pid = shells[tab.shell].pid)
    PROVE  Owns(r, Adopted(tab, pid))
<1> DEFINE new == Adopted(tab, pid)
<1>1. /\ new.shell = tab.shell /\ new.moves = tab.moves + 1 /\ new.pin = Named(pid)
      /\ tab.moves \in Nat
  BY DEF Adopted, Owns, Tab
<1>2. Named(pid) \subseteq Shell \cup {Stranger}
  BY DEF Named
<1>3. new \in Tab
  <2>1. tab \in Tab /\ tab.moves + 1 \in Nat
    BY DEF Owns, Tab
  <2> DEFINE moved == [tab EXCEPT !.moves = @ + 1]
  <2>3. moved = [shell |-> tab.shell, dir |-> tab.dir, moves |-> tab.moves + 1, pin |-> tab.pin]
    BY <2>1 DEF Tab
  <2>4. new = [moved EXCEPT !.pin = Named(pid)]
    BY DEF Adopted
  <2> HIDE DEF moved, new
  <2>2. new = [shell |-> tab.shell, dir |-> tab.dir, moves |-> tab.moves + 1, pin |-> Named(pid)]
    BY <2>3, <2>4
  <2> QED
    BY <1>2, <2>1, <2>2 DEF Tab
<1>4. tab.moves = 0 => Named(pid) \subseteq {tab.shell}
  BY NamedIsOne, NobodyIsNamed DEF Owns, Tab, Local
<1>5. new.moves # 0 /\ (new.moves = 1 => tab.moves = 0)
  BY <1>1
<1> HIDE DEF new
<1> QED
  BY <1>1, <1>3, <1>4, <1>5 DEF Owns, Local, new

LEMMA PinKeeps ==
    ASSUME Control, Holdings, SnapshotHolds, NEW d \in Daemon, NEW r \in Daemon, Pin(d, r)
    PROVE  Holdings' /\ SnapshotHolds'
<1>1. d # r
  BY DEF Pin
<1>2. \A i \in DOMAIN tabs[d] : Owns(r, Adopted(tabs[d][i], snap[i]))
  BY AdoptedOwns DEF Pin, SnapshotHolds, Holdings, TabsOwned
<1>3. Kernel' /\ Retained'
  BY IdleKeeps DEF Pin, Holdings, Kernel, ShellTypes, PidsDiffer, Exists, Retained, processVars
<1>4. tabs'[r] = Stage(d, r) /\ \A e \in Daemon \ {r} : tabs'[e] = tabs[e]
  BY DEF Pin, Holdings, TabsOwned
<1>5. Stage(d, r) \in Seq(Tab)
  BY <1>2 DEF Stage, Owns, Holdings, TabsOwned
<1>6. tabs' \in [Daemon -> Seq(Tab)]
  BY <1>5 DEF Pin, Holdings, TabsOwned
<1>7. \A e \in Daemon : \A i \in DOMAIN tabs'[e] : Owns(e, tabs'[e][i])
  BY <1>2, <1>4 DEF Stage, Holdings, TabsOwned
<1>8. TabsOwned'
  BY <1>6, <1>7 DEF TabsOwned, Owns, Pin, processVars
<1>9. \A e \in Daemon : pc'[e] = "sealed" => pc[e] = "sealed" /\ e # r
  BY <1>1 DEF Pin, Goes, Control
<1>10. SnapshotHolds'
  BY <1>4, <1>9 DEF SnapshotHolds, Pin, processVars, Exists, Local
<1> QED
  BY <1>3, <1>8, <1>10 DEF Holdings

(* A step that leaves the tabs of the daemon in a transfer, and its         *)
(* children, which may turn from running to zombies.                        *)
LEMMA AgesKeepsSnapshot ==
    ASSUME Holdings, SnapshotHolds, Ages,
           \A e \in Daemon : pc'[e] = "sealed" =>
              /\ pc[e] = "sealed" /\ tabs'[e] = tabs[e] /\ snap' = snap
              /\ \A s \in Shell : shells[s].parent = e /\ Exists(s) => Exists(s)'
    PROVE  SnapshotHolds'
<1> SUFFICES ASSUME NEW e \in Daemon, pc'[e] = "sealed",
                    NEW i \in DOMAIN tabs[e], tabs[e][i].moves = 0, snap[i] # 0
             PROVE  /\ Local(tabs[e][i]) /\ Exists(tabs[e][i].shell)'
                    /\ snap[i] = shells'[tabs[e][i].shell].pid
  BY DEF SnapshotHolds, Local
<1>1. /\ Local(tabs[e][i]) /\ Exists(tabs[e][i].shell)
      /\ snap[i] = shells[tabs[e][i].shell].pid
  BY DEF SnapshotHolds
<1>2. Owns(e, tabs[e][i])
  BY DEF Holdings, TabsOwned
<1>3. tabs[e][i].shell \in Shell /\ shells[tabs[e][i].shell].parent = e
  BY <1>1, <1>2 DEF Owns, Tab, Local
<1> QED
  BY <1>1, <1>3 DEF Ages

LEMMA CommitKeeps ==
    ASSUME Control, Holdings, NEW d \in Daemon, NEW r \in Daemon, Commit(d, r)
    PROVE  Holdings' /\ SnapshotHolds'
<1>1. Ages /\ Kernel' /\ Retained'
  BY PolledOwn, ReapKeeps DEF Commit, Stop
<1>2. TabsOwned'
  BY <1>1, AgesKeepsTabs DEF Commit, Holdings, TabsOwned
<1>3. \A e \in Daemon : pc[e] = "sealed" => e = d
  BY DEF Commit, Control, Serving, Donating
<1>4. \A e \in Daemon : pc'[e] # "sealed"
  BY <1>3 DEF Commit, HandedOver, Control
<1> QED
  BY <1>1, <1>2, <1>4 DEF Holdings, SnapshotHolds

(* The receiver ends and nobody else changes. *)
LEMMA AgesIdle ==
    ASSUME Holdings, UNCHANGED processVars
    PROVE  Ages
  BY DEF Holdings, Kernel, ShellTypes, Ages, Exists, processVars, ProcState

LEMMA ReceiverEndsKeeps ==
    ASSUME Control, Holdings, SnapshotHolds, NEW r \in Daemon, pc[r] \in Receiving,
           (\E d \in Daemon : Reject(d, r)) \/ GivesUp(r)
    PROVE  Holdings' /\ SnapshotHolds'
<1>1. UNCHANGED processVars /\ tabs' = [e \in Daemon |-> IF e \in {r} THEN <<>> ELSE tabs[e]]
  BY DEF Reject, GivesUp, Rejected, Forgets
<1>2. Ages
  BY <1>1, AgesIdle
<1>3. Kernel' /\ Retained'
  BY <1>1, <1>2, AgesKeepsKernel, AgesKeepsRetained DEF Holdings, Retained, processVars
<1>4. TabsOwned'
  BY <1>1, <1>2, AgesKeepsTabs DEF Holdings, TabsOwned
<1>5. \A e \in Daemon : pc'[e] = "sealed" => pc[e] = "sealed" /\ e # r /\ snap' = snap
  BY DEF Reject, GivesUp, Goes, Control, Serving, Donating, Receiving
<1>6. \A e \in Daemon : pc'[e] = "sealed" =>
        /\ pc[e] = "sealed" /\ tabs'[e] = tabs[e] /\ snap' = snap
        /\ \A s \in Shell : shells[s].parent = e /\ Exists(s) => Exists(s)'
  BY <1>1, <1>5 DEF Exists, processVars
<1> QED
  BY <1>2, <1>3, <1>4, <1>6, AgesKeepsSnapshot DEF Holdings

LEMMA EndsKeeps ==
    ASSUME Control, Holdings, SnapshotHolds, NEW d \in Daemon, Retires(d) \/ Crash(d)
    PROVE  Holdings' /\ SnapshotHolds'
<1> USE DEF Retires, Crash, Ends
<1>1. Ages
  BY OrphanedAges DEF Holdings
<1>2. Kernel'
  BY <1>1, AgesKeepsKernel DEF Holdings
<1>3. Retained'
  BY <1>1, AgesKeepsRetained DEF Holdings, Retained
<1>4. tabs' = [e \in Daemon |-> IF e \in {d} THEN <<>> ELSE tabs[e]]
  BY DEF Forgets
<1>5. TabsOwned'
  BY <1>1, <1>4, AgesKeepsTabs DEF Holdings, TabsOwned
<1>6. ASSUME NEW e \in Daemon, pc'[e] = "sealed"
      PROVE  e # d /\ pc[e] = "sealed" /\ snap' = snap
  BY <1>6 DEF Goes, Control, Serving, Donating
<1>7. \A e \in Daemon, s \in Shell : e # d /\ shells[s].parent = e /\ Exists(s) => Exists(s)'
  BY DEF Orphaned, Gone, Exists
<1> QED
  BY <1>1, <1>2, <1>3, <1>4, <1>5, <1>6, <1>7, AgesKeepsSnapshot DEF Holdings

LEMMA PowerLossKeeps ==
    ASSUME Control, Holdings, PowerLoss
    PROVE  Holdings' /\ SnapshotHolds'
<1>1. Ages
  BY GoneAges DEF PowerLoss, Holdings
<1>2. Kernel'
  BY <1>1, AgesKeepsKernel DEF PowerLoss, Holdings
<1>3. Retained'
  BY <1>1, AgesKeepsRetained DEF PowerLoss
<1>4. TabsOwned'
  BY <1>1, AgesKeepsTabs DEF PowerLoss, Forgets, Holdings, TabsOwned
<1>5. SnapshotHolds'
  BY DEF PowerLoss, SnapshotHolds
<1> QED
  BY <1>2, <1>3, <1>4, <1>5 DEF Holdings

(* Maintenance and output change no more of a tab than its directory.       *)
LEMMA DirKeepsOwns ==
    ASSUME NEW d \in Daemon, NEW tab, Owns(d, tab), NEW dir \in Dir
    PROVE  Owns(d, [tab EXCEPT !.dir = dir])
<1> DEFINE new == [tab EXCEPT !.dir = dir]
<1>1. new = [shell |-> tab.shell, dir |-> dir, moves |-> tab.moves, pin |-> tab.pin]
  BY DEF Owns, Tab
<1> HIDE DEF new
<1>2. new \in Tab /\ new.shell = tab.shell /\ new.moves = tab.moves /\ new.pin = tab.pin
  BY <1>1 DEF Owns, Tab
<1>3. Owns(d, new)
  BY <1>2 DEF Owns, Local
<1> QED
  BY <1>3 DEF new

(* The tabs of one daemon are exchanged for others that it may hold. *)
LEMMA TabsExchanged ==
    ASSUME Holdings, Ages, NEW d \in Daemon, NEW list \in Seq(Tab),
           tabs' = [tabs EXCEPT ![d] = list],
           \A i \in DOMAIN list : Owns(d, list[i])
    PROVE  TabsOwned'
<1>1. tabs' \in [Daemon -> Seq(Tab)]
  BY DEF Holdings, TabsOwned
<1>2. \A e \in Daemon : \A i \in DOMAIN tabs'[e] : Owns(e, tabs'[e][i])
  BY DEF Holdings, TabsOwned
<1>3. \A e \in Daemon : \A tab : Owns(e, tab) => Owns(e, tab)'
  BY AgesKeepsOwns DEF Holdings
<1> QED
  BY <1>1, <1>2, <1>3 DEF TabsOwned, Owns

LEMMA MaintainKeeps ==
    ASSUME Control, Holdings, NEW d \in Daemon, Maintain(d) \/ MaintainDue(d)
    PROVE  Holdings' /\ SnapshotHolds'
<1>1. SnapshotHolds'
  <2>1. Serving(d) /\ pc[d] # "sealed"
    BY DEF Maintain, MaintainDue, Serving
  <2>2. pc' = [pc EXCEPT ![d] = "handle"] \/ pc' = [pc EXCEPT ![d] = "saving"]
    BY MaintenanceGoes DEF Goes
  <2> QED
    BY <2>1, <2>2, LoopKeepsSnapshot
<1>2. CASE Maintain(d)
  <2>1. Ages /\ Kernel' /\ Retained'
    BY <1>2, ReapKeeps DEF Maintain
  <2>2. TabsOwned'
    BY <1>2, <2>1, AgesKeepsTabs DEF Maintain, Holdings, TabsOwned
  <2> QED
    BY <1>1, <2>1, <2>2 DEF Holdings
<1>3. CASE MaintainDue(d)
  <2>1. reaper[d] \cup Polled(tabs[d]) \subseteq Shell
    BY PolledOwn DEF Holdings, Retained
  <2>2. Ages
    BY <1>3, <2>1, WaitedAges DEF MaintainDue, Holdings
  <2>3. Kernel' /\ Retained'
    BY <1>3, <2>2, AgesKeepsKernel, AgesKeepsRetained DEF MaintainDue, Holdings, Retained
  <2>4. PICK f \in [DOMAIN tabs[d] -> Dir] : tabs' = [tabs EXCEPT ![d] = Seen(d, f)]
    BY <1>3 DEF MaintainDue
  <2>5. \A i \in DOMAIN tabs[d] : Owns(d, [tabs[d][i] EXCEPT !.dir = f[i]])
    BY DirKeepsOwns DEF Holdings, TabsOwned
  <2>6. Seen(d, f) \in Seq(Tab)
    BY <2>5 DEF Seen, Owns, Holdings, TabsOwned
  <2>7. \A i \in DOMAIN Seen(d, f) : Owns(d, Seen(d, f)[i])
    BY <2>5 DEF Seen
  <2>8. TabsOwned'
    BY <2>2, <2>4, <2>6, <2>7, TabsExchanged
  <2> QED
    BY <1>1, <2>3, <2>8 DEF Holdings
<1> QED
  BY <1>2, <1>3

LEMMA HandlingKeepsSnapshot ==
    ASSUME Control, NEW d \in Daemon, pc[d] = "handle",
           UNCHANGED pc \/ Goes(d, "handle") \/ Goes(d, "saving")
    PROVE  SnapshotHolds'
  BY LoopKeepsSnapshot DEF Serving, Goes

LEMMA OutputKeeps ==
    ASSUME Control, Holdings, NEW d \in Daemon, Output(d)
    PROVE  Holdings' /\ SnapshotHolds'
<1>1. SnapshotHolds'
  BY HandlingKeepsSnapshot DEF Output, Handling
<1>a. PICK i \in DOMAIN tabs[d] :
        /\ \E dir \in Looks(tabs[d][i]) : tabs' = [tabs EXCEPT ![d][i].dir = dir]
        /\ shells' = Waited(Polled(<<tabs[d][i]>>))
  BY DEF Output
<1>2. PICK dir \in Looks(tabs[d][i]) : tabs' = [tabs EXCEPT ![d][i].dir = dir]
  BY <1>a
<1>3. tabs[d] \in Seq(Tab) /\ Owns(d, tabs[d][i])
  BY DEF Holdings, TabsOwned
<1>4. Polled(<<tabs[d][i]>>) \subseteq Shell
  BY <1>3 DEF Polled, Owns, Tab, Local
<1>5. Ages
  BY <1>a, <1>4, WaitedAges DEF Holdings
<1>6. Kernel' /\ Retained'
  BY <1>5, AgesKeepsKernel, AgesKeepsRetained DEF Output, Holdings, Retained
<1>7. dir \in Dir
  BY <1>3, ProcessesAssumption DEF Looks, Owns, Tab, ProcessesAssumption
<1> DEFINE new == [tabs[d][i] EXCEPT !.dir = dir]
           list == [tabs[d] EXCEPT ![i] = new]
<1>8. Owns(d, new)
  BY <1>3, <1>7, DirKeepsOwns
<1>9. tabs' = [tabs EXCEPT ![d] = list]
  BY <1>2
<1> HIDE DEF new
<1>10. list \in Seq(Tab) /\ \A j \in DOMAIN list : Owns(d, list[j])
  BY <1>3, <1>8 DEF Owns, Holdings, TabsOwned
<1>11. TabsOwned'
  BY <1>5, <1>9, <1>10, TabsExchanged
<1> QED
  BY <1>1, <1>6, <1>11 DEF Holdings

LEMMA NavigateKeeps ==
    ASSUME Control, Holdings, NEW d \in Daemon, Navigate(d)
    PROVE  Holdings' /\ SnapshotHolds'
<1>1. SnapshotHolds'
  BY MaintenanceGoes, HandlingKeepsSnapshot DEF Navigate, Handling
<1>2. UNCHANGED processVars
  BY DEF Navigate
<1>3. CASE UNCHANGED tabs
  BY <1>1, <1>2, <1>3, IdleKeeps
<1>4. ASSUME NEW i \in DOMAIN tabs[d], NEW dir \in Address,
             tabs' = [tabs EXCEPT ![d] = Navigated(@, i, dir)]
      PROVE  Holdings'
  <2>1. Ages
    BY <1>2, AgesIdle
  <2>2. Kernel' /\ Retained'
    BY <1>2, <2>1, AgesKeepsKernel, AgesKeepsRetained DEF Holdings, Retained, processVars
  <2>3. tabs[d] \in Seq(Tab) /\ Owns(d, tabs[d][i])
    BY DEF Holdings, TabsOwned
  <2> DEFINE new == [tabs[d][i] EXCEPT !.dir = dir]
             list == [tabs[d] EXCEPT ![i] = new]
  <2>4. Owns(d, new)
    BY <2>3, DirKeepsOwns, DaemonsAssumption DEF DaemonsAssumption
  <2>5. tabs' = [tabs EXCEPT ![d] = list]
    BY <1>4 DEF Navigated
  <2> HIDE DEF new
  <2>6. list \in Seq(Tab) /\ \A j \in DOMAIN list : Owns(d, list[j])
    BY <2>3, <2>4 DEF Owns, Holdings, TabsOwned
  <2>7. TabsOwned'
    BY <2>1, <2>5, <2>6, TabsExchanged
  <2> QED
    BY <2>2, <2>7 DEF Holdings
<1> QED
  BY <1>1, <1>3, <1>4 DEF Navigate

LEMMA WithoutKeeps ==
    ASSUME NEW S, NEW list \in Seq(S), NEW i \in DOMAIN list
    PROVE  Without(list, i) \in Seq(S)
<1>1. SubSeq(list, 1, i - 1) \in Seq(S)
  BY SubSeqProperties
<1>2. SubSeq(list, i + 1, Len(list)) \in Seq(S)
  BY SubSeqProperties
<1> QED
  BY <1>1, <1>2, ConcatProperties DEF Without

LEMMA CloseTabKeeps ==
    ASSUME Control, Holdings, NEW d \in Daemon, CloseTab(d)
    PROVE  Holdings' /\ SnapshotHolds'
<1>1. SnapshotHolds'
  BY HandlingKeepsSnapshot DEF CloseTab, Handling
<1>2. PICK i \in DOMAIN tabs[d] :
        Reap(d, Polled(<<tabs[d][i]>>)) /\ tabs' = [tabs EXCEPT ![d] = Without(@, i)]
  BY DEF CloseTab, Stop
<1>3. tabs[d] \in Seq(Tab) /\ Owns(d, tabs[d][i])
  BY DEF Holdings, TabsOwned
<1>4. \A s \in Polled(<<tabs[d][i]>>) : s \in Shell /\ shells[s].parent = d
  BY <1>3 DEF Polled, Owns, Tab, Local
<1>5. Ages /\ Kernel' /\ Retained'
  BY <1>2, <1>4, ReapKeeps DEF CloseTab
<1> DEFINE list == Without(tabs[d], i)
<1>6. tabs[d] \in Seq({tab \in Tab : Owns(d, tab)})
  BY <1>3 DEF Holdings, TabsOwned
<1>7. list \in Seq({tab \in Tab : Owns(d, tab)})
  BY <1>6, WithoutKeeps
<1>9. tabs' = [tabs EXCEPT ![d] = list]
  BY <1>2 DEF Holdings, TabsOwned
<1> HIDE DEF list
<1>8. list \in Seq(Tab) /\ \A j \in DOMAIN list : Owns(d, list[j])
  BY <1>7
<1>10. TabsOwned'
  BY <1>5, <1>8, <1>9, TabsExchanged
<1> QED
  BY <1>1, <1>5, <1>10 DEF Holdings

(* A converted tab has no shell any more; the one it had is retained. *)
LEMMA ConvertKeeps ==
    ASSUME Control, Holdings, NEW d \in Daemon, Convert(d)
    PROVE  Holdings' /\ SnapshotHolds'
<1>1. SnapshotHolds'
  BY HandlingKeepsSnapshot DEF Convert, Handling
<1>2. PICK i \in DOMAIN tabs[d], dir \in Address :
        Reap(d, Polled(<<tabs[d][i]>>)) /\ tabs' = [tabs EXCEPT ![d][i] = Owned(0, dir)]
  BY DEF Convert, Stop
<1>3. tabs[d] \in Seq(Tab) /\ Owns(d, tabs[d][i])
  BY DEF Holdings, TabsOwned
<1>4. \A s \in Polled(<<tabs[d][i]>>) : s \in Shell /\ shells[s].parent = d
  BY <1>3 DEF Polled, Owns, Tab, Local
<1>5. Ages /\ Kernel' /\ Retained'
  BY <1>2, <1>4, ReapKeeps DEF Convert
<1> DEFINE new == Owned(0, dir)
           list == [tabs[d] EXCEPT ![i] = new]
<1>6. Owns(d, new)
  BY DaemonsAssumption DEF DaemonsAssumption, Owned, Owns, Tab, Local
<1>7. tabs' = [tabs EXCEPT ![d] = list]
  BY <1>2
<1> HIDE DEF new
<1>8. list \in Seq(Tab) /\ \A j \in DOMAIN list : Owns(d, list[j])
  BY <1>3, <1>6 DEF Owns, Holdings, TabsOwned
<1>9. TabsOwned'
  BY <1>5, <1>7, <1>8, TabsExchanged
<1> QED
  BY <1>1, <1>5, <1>9 DEF Holdings

(* What Owns will say of a tab after this step. *)
OwnsNext(d, tab) ==
    /\ tab \in Tab
    /\ Local(tab) => shells'[tab.shell].parent = d
    /\ tab.moves = 0 => tab.pin = {}
    /\ tab.moves = 1 => tab.pin \subseteq {tab.shell}

(* New tabs: they have the shells that were started, or none. *)
LEMMA StartedOwns ==
    ASSUME NEW d \in Daemon, NEW s \in {0} \cup Shell, NEW dir \in Dir,
           s # 0 => shells'[s].parent = d
    PROVE  Owned(s, dir) \in Tab /\ OwnsNext(d, Owned(s, dir))
  BY DEF Owned, OwnsNext, Tab, Local

LEMMA OwnsSurvives ==
    ASSUME Kernel, NEW e \in Daemon, NEW tab, Owns(e, tab),
           \A s \in Shell : shells[s].state # "unborn" => shells'[s] = shells[s]
    PROVE  OwnsNext(e, tab)
<1> SUFFICES ASSUME tab.moves = 0, tab.shell # 0
             PROVE  shells'[tab.shell].parent = e
  BY DEF Owns, OwnsNext, Local
<1>1. tab.shell \in Shell /\ shells[tab.shell].parent = e
  BY DEF Owns, Tab, Local
<1>2. shells[tab.shell].state # "unborn"
  BY <1>1, ProcessesAssumption DEF Kernel, ShellTypes, ProcessesAssumption
<1> QED
  BY <1>1, <1>2

LEMMA SpawnKeepsTabs ==
    ASSUME Holdings, NEW d \in Daemon, NEW list \in Seq(Tab),
           \A s \in Shell : shells[s].state # "unborn" => shells'[s] = shells[s],
           tabs' = [tabs EXCEPT ![d] = list],
           \A i \in DOMAIN list : OwnsNext(d, list[i])
    PROVE  TabsOwned'
<1>1. tabs' \in [Daemon -> Seq(Tab)]
  BY DEF Holdings, TabsOwned
<1>2. \A e \in Daemon : \A tab : Owns(e, tab) => OwnsNext(e, tab)
  BY OwnsSurvives DEF Holdings
<1> QED
  BY <1>1, <1>2 DEF Holdings, TabsOwned, Owns, OwnsNext, Local

LEMMA SpawnKeepsRetained ==
    ASSUME Holdings, UNCHANGED reaper,
           \A s \in Shell : shells[s].state # "unborn" => shells'[s] = shells[s]
    PROVE  Retained'
<1> SUFFICES ASSUME NEW e \in Daemon, NEW s \in reaper[e] PROVE shells'[s].parent = e
  BY DEF Holdings, Retained
<1>1. s \in Shell /\ shells[s].parent = e
  BY DEF Holdings, Retained
<1>2. shells[s].state # "unborn"
  BY <1>1, ProcessesAssumption DEF Holdings, Kernel, ShellTypes, ProcessesAssumption
<1> QED
  BY <1>1, <1>2

LEMMA OpenTabKeeps ==
    ASSUME Control, Holdings, NEW d \in Daemon, OpenTab(d)
    PROVE  Holdings' /\ SnapshotHolds'
<1>1. SnapshotHolds'
  BY MaintenanceGoes, HandlingKeepsSnapshot DEF OpenTab, Handling
<1>2. PICK s \in {0} \cup Shell : \E pid \in {0} \cup Pid, dir \in Dir :
        /\ MaySpawn(<<s>>, <<pid>>)
        /\ shells' = Spawned(d, <<s>>, <<pid>>)
        /\ tabs' = [tabs EXCEPT ![d] = Append(@, Owned(s, dir))]
  BY DEF OpenTab
<1>3. PICK pid \in {0} \cup Pid : \E dir \in Dir :
        /\ MaySpawn(<<s>>, <<pid>>)
        /\ shells' = Spawned(d, <<s>>, <<pid>>)
        /\ tabs' = [tabs EXCEPT ![d] = Append(@, Owned(s, dir))]
  BY <1>2
<1>4. PICK dir \in Dir : tabs' = [tabs EXCEPT ![d] = Append(@, Owned(s, dir))]
  BY <1>3
<1>5. <<s>> \in [{1} -> {0} \cup Shell] /\ <<pid>> \in [{1} -> {0} \cup Pid]
  OBVIOUS
<1>6. /\ Kernel'
      /\ \A i \in {1} : <<s>>[i] # 0 => shells'[<<s>>[i]].parent = d
      /\ \A t \in Shell : shells[t].state # "unborn" => shells'[t] = shells[t]
  <2>1. UNCHANGED stranger
    BY DEF OpenTab
  <2> QED
    BY <1>3, <1>5, <2>1, SpawnKeepsKernel DEF Holdings
<1>7. Owned(s, dir) \in Tab /\ OwnsNext(d, Owned(s, dir))
  BY <1>6, StartedOwns
<1>8. \A i \in DOMAIN tabs[d] : OwnsNext(d, tabs[d][i])
  BY <1>6, OwnsSurvives DEF Holdings, TabsOwned
<1> DEFINE new == Owned(s, dir)
           list == Append(tabs[d], new)
<1> HIDE DEF new
<1>9. list \in Seq(Tab) /\ \A i \in DOMAIN list : list[i] = new \/ \E j \in DOMAIN tabs[d] : list[i] = tabs[d][j]
  BY <1>7 DEF Holdings, TabsOwned, new
<1>10. tabs' = [tabs EXCEPT ![d] = list]
  BY <1>4 DEF new
<1>11. TabsOwned'
  BY <1>6, <1>7, <1>8, <1>9, <1>10, SpawnKeepsTabs DEF new
<1>12. Retained'
  BY <1>6, SpawnKeepsRetained DEF OpenTab
<1> QED
  BY <1>1, <1>6, <1>11, <1>12 DEF Holdings

LEMMA StartKeeps ==
    ASSUME Control, Holdings, NEW d \in Daemon, NEW ok \in BOOLEAN, Start(d, ok)
    PROVE  Holdings' /\ SnapshotHolds'
<1> DEFINE list == IF File!Opened(ok) \in Encodable THEN live ELSE <<>>
<1>1. PICK procs \in [DOMAIN list -> {0} \cup Shell] : \E pids \in [DOMAIN list -> {0} \cup Pid] :
        /\ MaySpawn(procs, pids)
        /\ shells' = Spawned(d, procs, pids)
        /\ tabs' = [tabs EXCEPT ![d] = [i \in DOMAIN list |-> Owned(procs[i], list[i])]]
  BY DEF Start
<1>2. PICK pids \in [DOMAIN list -> {0} \cup Pid] :
        /\ MaySpawn(procs, pids)
        /\ shells' = Spawned(d, procs, pids)
        /\ tabs' = [tabs EXCEPT ![d] = [i \in DOMAIN list |-> Owned(procs[i], list[i])]]
  BY <1>1
<1>3. list \in Seq(Dir)
  BY DaemonsAssumption DEF DaemonsAssumption, File!Opened, File!RecoveryAssumption
<1> HIDE DEF list
<1>4. /\ Kernel'
      /\ \A i \in DOMAIN list : procs[i] # 0 => shells'[procs[i]].parent = d
      /\ \A t \in Shell : shells[t].state # "unborn" => shells'[t] = shells[t]
  <2>1. UNCHANGED stranger
    BY DEF Start
  <2> QED
    BY <1>2, <2>1, SpawnKeepsKernel DEF Holdings
<1>5. \A i \in DOMAIN list :
        Owned(procs[i], list[i]) \in Tab /\ OwnsNext(d, Owned(procs[i], list[i]))
  <2> SUFFICES ASSUME NEW i \in DOMAIN list
               PROVE  Owned(procs[i], list[i]) \in Tab /\ OwnsNext(d, Owned(procs[i], list[i]))
    OBVIOUS
  <2>1. list[i] \in Dir
    BY <1>3
  <2>2. procs[i] \in {0} \cup Shell
    OBVIOUS
  <2>3. procs[i] # 0 => shells'[procs[i]].parent = d
    BY <1>4
  <2> QED
    BY <2>1, <2>2, <2>3, StartedOwns
<1> DEFINE new == [i \in DOMAIN list |-> Owned(procs[i], list[i])]
<1>6. new \in Seq(Tab) /\ \A i \in DOMAIN new : OwnsNext(d, new[i])
  BY <1>3, <1>5
<1>7. tabs' = [tabs EXCEPT ![d] = new]
  BY <1>2
<1> HIDE DEF new
<1>8. TabsOwned'
  BY <1>4, <1>6, <1>7, SpawnKeepsTabs
<1>9. Retained'
  BY <1>4, SpawnKeepsRetained DEF Start
<1>10. SnapshotHolds'
  BY DEF Start, Goes, Living, Absentee, Control, SnapshotHolds
<1> QED
  BY <1>4, <1>8, <1>9, <1>10 DEF Holdings

(* While the donor lives its shells that exit stay zombies. *)
LEMMA ShellEndsKeeps ==
    ASSUME Control, Holdings, SnapshotHolds, NEW s \in Shell, ShellEnds(s)
    PROVE  Holdings' /\ SnapshotHolds'
<1> USE DEF ShellEnds
<1>1. Ages
  BY ExitAges DEF Holdings
<1>2. Kernel'
  BY <1>1, AgesKeepsKernel DEF ShellExits, Holdings
<1>3. Retained'
  BY <1>1, AgesKeepsRetained DEF ShellExits, Holdings, Retained
<1>4. TabsOwned'
  BY <1>1, AgesKeepsTabs DEF Holdings, TabsOwned
<1>5. \A e \in Daemon : pc[e] = "sealed" => e \in Living
  BY DEF Living, Absentee
<1>6. \A e \in Daemon, t \in Shell :
        e \in Living /\ shells[t].parent = e /\ Exists(t) => Exists(t)'
  BY DEF ShellExits, Exists, Holdings, Kernel, ShellTypes
<1>7. SnapshotHolds'
  BY <1>1, <1>5, <1>6, AgesKeepsSnapshot
<1> QED
  BY <1>2, <1>3, <1>4, <1>7 DEF Holdings

LEMMA PidTakenKeeps ==
    ASSUME Control, Holdings, SnapshotHolds, PidTaken
    PROVE  Holdings' /\ SnapshotHolds'
<1> USE DEF PidTaken, PidReused
<1>1. stranger' \in Pid /\ stranger' \notin UsedPids
  BY DEF Holdings, Kernel, ShellTypes, UsedPids
<1>2. Kernel'
  BY <1>1 DEF Holdings, Kernel, ShellTypes, PidsDiffer, UsedPids, Exists
<1>3. TabsOwned' /\ Retained'
  BY DEF Holdings, TabsOwned, Owns, Local, Retained
<1>4. SnapshotHolds'
  BY DEF SnapshotHolds, Local, Exists
<1> QED
  BY <1>2, <1>3, <1>4 DEF Holdings

(* The steps of a loop that touch no tab, shell or child. *)
LEMMA LoopKeeps ==
    ASSUME Control, Holdings, NEW d \in Daemon,
           NoUpgrade(d) \/ SaveStep(d) \/ SaveSkipped(d) \/ SaveDone(d) \/ SaveFails(d)
             \/ Attach(d) \/ Replace(d) \/ TurnEnds(d) \/ StopAsked(d)
    PROVE  Holdings' /\ SnapshotHolds'
<1> USE DEF NoUpgrade, SaveStep, SaveSkipped, SaveDone, SaveFails, Saved, Attach, Replace, TurnEnds,
            StopAsked, Handling
<1>1. UNCHANGED <<processVars, tabs>>
  OBVIOUS
<1>2. Serving(d) /\ pc[d] # "sealed"
  BY DEF Serving
<1>3. PICK to \in PcState : to # "sealed" /\ pc' \in {pc, [pc EXCEPT ![d] = to]}
  BY DEF Goes, PcState
<1> QED
  BY <1>1, <1>2, <1>3, IdleKeeps, LoopKeepsSnapshot

LEMMA ChildSignalKeeps ==
    ASSUME Control, Holdings, NEW d \in Daemon, ChildSignal(d)
    PROVE  Holdings' /\ SnapshotHolds'
<1>1. Ages /\ Kernel' /\ Retained'
  BY ReapKeeps DEF ChildSignal
<1>2. TabsOwned'
  BY <1>1, AgesKeepsTabs DEF ChildSignal, Holdings, TabsOwned
<1>3. SnapshotHolds'
  BY HandlingKeepsSnapshot DEF ChildSignal, Handling
<1> QED
  BY <1>1, <1>2, <1>3 DEF Holdings

LEMMA ReceiverLostKeeps ==
    ASSUME Control, Holdings, NEW d \in Daemon, ReceiverLost(d)
    PROVE  Holdings' /\ SnapshotHolds'
<1>1. \A e \in Daemon : pc'[e] # "sealed"
  BY DEF ReceiverLost, Goes, Control, Serving, Donating
<1> QED
  BY <1>1, IdleKeeps DEF ReceiverLost, SnapshotHolds

LEMMA ProgramKeeps ==
    ASSUME Holdings, SnapshotHolds, Install \/ Uninstall \/ UNCHANGED vars
    PROVE  Holdings' /\ SnapshotHolds'
<1>1. UNCHANGED <<processVars, tabs, pc, snap>>
  BY DEF Install, Uninstall, vars
<1>2. SnapshotHolds'
  BY <1>1 DEF SnapshotHolds, Local, Exists, processVars
<1> QED
  BY <1>1, <1>2, IdleKeeps

HoldingsInv == Control /\ Holdings /\ SnapshotHolds

LEMMA HoldingsStep == HoldingsInv /\ [Next]_vars => HoldingsInv'
<1> SUFFICES ASSUME HoldingsInv, [Next]_vars PROVE Holdings' /\ SnapshotHolds'
  BY ControlStep DEF HoldingsInv
<1> USE DEF HoldingsInv
<1>1. CASE UNCHANGED vars
  BY <1>1, ProgramKeeps
<1>2. CASE Begins
  BY <1>2, StartKeeps DEF Begins
<1>3. CASE Progress
  <2>1. PICK d \in Daemon : Turn(d) \/ MaintainDue(d)
    BY <1>3 DEF Progress
  <2>2. CASE NoUpgrade(d) \/ TurnEnds(d) \/ SaveStep(d) \/ SaveSkipped(d) \/ SaveDone(d)
    BY <2>2, LoopKeeps
  <2>3. CASE Upgrade(d) \/ Maintain(d) \/ MaintainDue(d)
    BY <2>3, UpgradeKeeps, MaintainKeeps
  <2>4. CASE Seal(d) \/ ReceiverLost(d) \/ Retires(d)
    BY <2>4, SealKeeps, ReceiverLostKeeps, EndsKeeps
  <2>5. CASE \E ok \in BOOLEAN : ReceiverOpens(d, ok)
    BY <2>5, ReceiverStepKeeps
  <2>6. CASE \E r \in Daemon : Pin(d, r) \/ Commit(d, r)
    BY <2>6, PinKeeps, CommitKeeps
  <2> QED
    BY <2>1, <2>2, <2>3, <2>4, <2>5, <2>6 DEF Turn
<1>4. CASE World
  <2>1. CASE PowerLoss \/ Install \/ Uninstall
    BY <2>1, PowerLossKeeps, ProgramKeeps
  <2>2. CASE \E s \in Shell : ShellEnds(s)
    BY <2>2, ShellEndsKeeps
  <2>3. CASE \E d \in Daemon : Crash(d)
    BY <2>3, EndsKeeps
  <2>4. ASSUME NEW d \in Daemon, GivesUp(d) PROVE Holdings' /\ SnapshotHolds'
    BY <2>4, ReceiverEndsKeeps DEF GivesUp
  <2> QED
    BY <1>4, <2>1, <2>2, <2>3, <2>4 DEF World
<1>5. ASSUME NEW d \in Daemon, Event(d) PROVE Holdings' /\ SnapshotHolds'
  <2>1. CASE OpenTab(d) \/ Navigate(d) \/ CloseTab(d) \/ Output(d) \/ ChildSignal(d)
    BY <2>1, OpenTabKeeps, NavigateKeeps, CloseTabKeeps, OutputKeeps, ChildSignalKeeps
  <2>2. CASE Attach(d) \/ Replace(d) \/ StopAsked(d) \/ SaveFails(d)
    BY <2>2, LoopKeeps
  <2>3. ASSUME NEW r \in Daemon, Reject(d, r) PROVE Holdings' /\ SnapshotHolds'
    BY <2>3, ReceiverEndsKeeps DEF Reject
  <2> QED
    BY <1>5, <2>1, <2>2, <2>3 DEF Event
<1>6. CASE Consequence
  BY <1>6, PidTakenKeeps, ConvertKeeps DEF Consequence
<1> QED
  BY <1>1, <1>2, <1>3, <1>4, <1>5, <1>6 DEF Next, Happens

(* Whoever closes a tab signals its shell, or nobody: a child by a pid that *)
(* it has not waited for, and any other by the pidfd that its first         *)
(* receiver opened while the donor, its parent, waited for no child.        *)
THEOREM HangUpsAreAimed == Spec => []HangUpsReachTheShell
<1>1. Init => HoldingsInv
  BY ControlInit, HoldingsInit DEF HoldingsInv
<1>2. HoldingsInv => HangUpsReachTheShell
  <2> SUFFICES ASSUME HoldingsInv, NEW d \in Daemon, NEW i \in DOMAIN tabs[d], tabs[d][i].moves < 2
               PROVE  Heard(tabs[d][i]) \subseteq {tabs[d][i].shell}
    BY DEF HangUpsReachTheShell
  <2>1. Owns(d, tabs[d][i])
    BY DEF HoldingsInv, Holdings, TabsOwned
  <2>2. CASE Local(tabs[d][i]) /\ shells[tabs[d][i].shell].state = "running"
    <3>1. tabs[d][i].shell \in Shell /\ Exists(tabs[d][i].shell)
      BY <2>1, <2>2 DEF Owns, Tab, Local, Exists
    <3>2. Named(shells[tabs[d][i].shell].pid) = {tabs[d][i].shell}
      BY <3>1, NamedIsOne DEF HoldingsInv, Holdings
    <3> QED
      BY <2>2, <3>2 DEF Heard
  <2>3. CASE Local(tabs[d][i]) /\ shells[tabs[d][i].shell].state # "running"
    BY <2>3 DEF Heard
  <2>4. CASE ~Local(tabs[d][i])
    <3>1. tabs[d][i].moves \in {0, 1}
      BY <2>1 DEF Owns, Tab
    <3>2. tabs[d][i].pin \subseteq {tabs[d][i].shell}
      BY <2>1, <3>1 DEF Owns
    <3> QED
      BY <2>4, <3>2 DEF Heard
  <2> QED
    BY <2>2, <2>3, <2>4
<1> QED
  BY <1>1, <1>2, HoldingsStep, PTL DEF Spec

-----------------------------------------------------------------------------
(* What the catalog shows. *)

Entry == [text : SUBSET (Dir \X Title), dirty : BOOLEAN]

(* An entry that is not marked shows the directory its tab has. *)
Faithful(es, ts) ==
    /\ es \in [DOMAIN ts -> Entry]
    /\ \A i \in DOMAIN ts : es[i].dirty \/ Current(es[i], ts[i])

LEMMA MetadataIsEntry ==
    ASSUME NEW entry \in Entry, NEW tab \in Tab, entry.dirty \/ Current(entry, tab),
           NEW new \in Metadata(entry, tab)
    PROVE  new \in Entry /\ (new.dirty \/ Current(new, tab))
<1>1. CASE new = entry
  BY <1>1
<1>2. ASSUME NEW title \in Title, new = [text |-> Shows(tab, title), dirty |-> FALSE]
      PROVE  new \in Entry /\ Current(new, tab)
  <2>1. Shows(tab, title) \in SUBSET (Dir \X Title)
    BY DEF Shows, Tab
  <2>2. new.text = Shows(tab, title)
    BY <1>2
  <2> QED
    BY <1>2, <2>1, <2>2 DEF Entry, Current
<1> QED
  BY <1>1, <1>2 DEF Metadata

LEMMA RefreshedIsFaithful ==
    ASSUME NEW es, NEW ts \in Seq(Tab), Faithful(es, ts), NEW now \in Refreshed(es, ts)
    PROVE  Faithful(now, ts)
<1>1. DOMAIN now = DOMAIN ts /\ now = [i \in DOMAIN ts |-> now[i]]
  BY DEF Refreshed
<1>2. \A i \in DOMAIN ts : now[i] \in Entry /\ (now[i].dirty \/ Current(now[i], ts[i]))
  <2> SUFFICES ASSUME NEW i \in DOMAIN ts
               PROVE  now[i] \in Entry /\ (now[i].dirty \/ Current(now[i], ts[i]))
    OBVIOUS
  <2>1. now[i] \in Metadata(es[i], ts[i])
    BY DEF Refreshed
  <2>2. ts[i] \in Tab /\ es[i] \in Entry /\ (es[i].dirty \/ Current(es[i], ts[i]))
    BY DEF Faithful
  <2> QED
    BY <2>1, <2>2, MetadataIsEntry
<1> QED
  BY <1>1, <1>2 DEF Faithful

LEMMA MarkedIsFaithful ==
    ASSUME NEW es, NEW ts, NEW now, Faithful(es, ts), DOMAIN now = DOMAIN ts
    PROVE  Faithful(Marked(es, ts, now), now)
<1> DEFINE new == Marked(es, ts, now)
<1>1. ASSUME NEW i \in DOMAIN ts
      PROVE  new[i] \in Entry /\ (new[i].dirty \/ Current(new[i], now[i]))
  <2>1. new[i] = [es[i] EXCEPT !.dirty = @ \/ now[i].dir # ts[i].dir]
    BY DEF Marked
  <2>2. es[i] \in Entry /\ (es[i].dirty \/ Current(es[i], ts[i]))
    BY DEF Faithful
  <2>3. /\ new[i] \in Entry /\ new[i].text = es[i].text
        /\ new[i].dirty = (es[i].dirty \/ now[i].dir # ts[i].dir)
    BY <2>1, <2>2 DEF Entry
  <2> QED
    BY <2>2, <2>3 DEF Current, Shows
<1>2. new = [i \in DOMAIN now |-> new[i]]
  BY DEF Marked
<1> QED
  BY <1>1, <1>2 DEF Faithful

(* One tab becomes another, or changes, and is marked if it moved. *)
LEMMA ChangedIsFaithful ==
    ASSUME NEW es, NEW ts, Faithful(es, ts), NEW i \in DOMAIN ts, NEW tab, NEW dirty \in BOOLEAN,
           dirty \/ (tab.dir = ts[i].dir /\ ~es[i].dirty)
    PROVE  Faithful([es EXCEPT ![i].dirty = dirty], [ts EXCEPT ![i] = tab])
<1> DEFINE new == [es EXCEPT ![i].dirty = dirty]
           list == [ts EXCEPT ![i] = tab]
<1>1. DOMAIN list = DOMAIN ts /\ list[i] = tab /\ \A j \in DOMAIN ts \ {i} : list[j] = ts[j]
  OBVIOUS
<1>2. es \in [DOMAIN ts -> Entry]
  BY DEF Faithful
<1>3. /\ new \in [DOMAIN ts -> Entry]
      /\ new[i].dirty = dirty /\ new[i].text = es[i].text
      /\ \A j \in DOMAIN ts \ {i} : new[j] = es[j]
  BY <1>2 DEF Entry
<1> HIDE DEF new, list
<1>4. new[i].dirty \/ Current(new[i], list[i])
  BY <1>1, <1>3 DEF Faithful, Current, Shows
<1>5. \A j \in DOMAIN ts \ {i} : new[j].dirty \/ Current(new[j], list[j])
  BY <1>1, <1>3 DEF Faithful
<1>6. Faithful(new, list)
  BY <1>1, <1>3, <1>4, <1>5 DEF Faithful
<1> QED
  BY <1>6 DEF new, list

LEMMA AppendedIsFaithful ==
    ASSUME NEW es, NEW ts \in Seq(Tab), NEW tab \in Tab, Faithful(es, ts)
    PROVE  Faithful(Append(es, NoEntry), Append(ts, tab))
<1>1. es \in Seq(Entry) /\ Len(es) = Len(ts)
  BY DEF Faithful
<1>2. NoEntry \in Entry /\ NoEntry.dirty
  BY DEF NoEntry, Entry
<1> DEFINE new == Append(es, NoEntry)
           list == Append(ts, tab)
<1>3. DOMAIN list = 1..(Len(ts) + 1) /\ new \in [1..(Len(ts) + 1) -> Entry]
  <2>1. new \in Seq(Entry) /\ Len(new) = Len(ts) + 1
    BY <1>1, <1>2, AppendProperties
  <2>2. list \in Seq(Tab) /\ Len(list) = Len(ts) + 1
    BY AppendProperties
  <2> HIDE DEF new, list
  <2> QED
    BY <2>1, <2>2
<1>4. \A i \in DOMAIN ts : new[i] = es[i] /\ list[i] = ts[i]
  BY <1>1
<1>5. new[Len(ts) + 1] = NoEntry
  BY <1>1
<1>6. \A i \in 1..(Len(ts) + 1) : i \in DOMAIN ts \/ i = Len(ts) + 1
  OBVIOUS
<1> HIDE DEF new, list
<1>7. Faithful(new, list)
  BY <1>2, <1>3, <1>4, <1>5, <1>6 DEF Faithful
<1> QED
  BY <1>7 DEF new, list

LEMMA WithoutIndex ==
    ASSUME NEW S, NEW list \in Seq(S), NEW i \in DOMAIN list
    PROVE  /\ Without(list, i) \in Seq(S) /\ Len(Without(list, i)) = Len(list) - 1
           /\ \A j \in 1..(Len(list) - 1) :
                Without(list, i)[j] = IF j < i THEN list[j] ELSE list[j + 1]
<1> DEFINE a == SubSeq(list, 1, i - 1)
           b == SubSeq(list, i + 1, Len(list))
<1>1. a \in Seq(S) /\ Len(a) = i - 1 /\ \A j \in 1..(i - 1) : a[j] = list[j]
  BY SubSeqProperties
<1>2. b \in Seq(S) /\ Len(b) = Len(list) - i /\ \A j \in 1..(Len(list) - i) : b[j] = list[i + j]
  BY SubSeqProperties
<1> HIDE DEF a, b
<1>3. /\ a \o b \in Seq(S) /\ Len(a \o b) = Len(a) + Len(b)
      /\ \A j \in 1..(Len(a) + Len(b)) : (a \o b)[j] = IF j <= Len(a) THEN a[j] ELSE b[j - Len(a)]
  BY <1>1, <1>2, ConcatProperties
<1>4. Without(list, i) = a \o b
  BY DEF Without, a, b
<1>5. \A j \in 1..(Len(list) - 1) : (a \o b)[j] = IF j < i THEN list[j] ELSE list[j + 1]
  <2> SUFFICES ASSUME NEW j \in 1..(Len(list) - 1)
               PROVE  (a \o b)[j] = IF j < i THEN list[j] ELSE list[j + 1]
    OBVIOUS
  <2>1. j \in 1..(Len(a) + Len(b))
    BY <1>1, <1>2
  <2>2. CASE j < i
    BY <1>1, <1>3, <2>1, <2>2
  <2>3. CASE ~(j < i)
    <3>1. j - Len(a) \in 1..(Len(list) - i) /\ i + (j - Len(a)) = j + 1 /\ ~(j <= Len(a))
      BY <1>1, <2>3
    <3> QED
      BY <1>2, <1>3, <2>1, <2>3, <3>1
  <2> QED
    BY <2>2, <2>3
<1> QED
  BY <1>1, <1>2, <1>3, <1>4, <1>5

LEMMA WithoutIsFaithful ==
    ASSUME NEW es, NEW ts \in Seq(Tab), Faithful(es, ts), NEW i \in DOMAIN ts
    PROVE  Faithful(Without(es, i), Without(ts, i))
<1> DEFINE new == Without(es, i)
           list == Without(ts, i)
           n == Len(ts) - 1
<1>1. es \in Seq(Entry) /\ Len(es) = Len(ts) /\ i \in DOMAIN es
  BY DEF Faithful
<1>2. /\ new \in Seq(Entry) /\ Len(new) = n
      /\ \A j \in 1..n : new[j] = IF j < i THEN es[j] ELSE es[j + 1]
  BY <1>1, WithoutIndex
<1>3. /\ list \in Seq(Tab) /\ Len(list) = n
      /\ \A j \in 1..n : list[j] = IF j < i THEN ts[j] ELSE ts[j + 1]
  BY WithoutIndex
<1>4. \A j \in 1..n : j \in DOMAIN ts /\ j + 1 \in DOMAIN ts
  OBVIOUS
<1> HIDE DEF new, list
<1>5. \A j \in 1..n : new[j].dirty \/ Current(new[j], list[j])
  BY <1>2, <1>3, <1>4 DEF Faithful
<1>6. DOMAIN list = 1..n /\ new \in [1..n -> Entry]
  BY <1>2, <1>3
<1>7. Faithful(new, list)
  BY <1>5, <1>6 DEF Faithful
<1> QED
  BY <1>7 DEF new, list

(* To publish refreshes the entries, and saves unless nothing is new. *)
LEMMA PublishOutcome ==
    ASSUME NEW d \in Daemon, NEW es, NEW ts \in Seq(Tab), Faithful(es, ts),
           Publish(d, es, ts) \/ PublishIfDue(d, es, ts)
    PROVE  \E now :
             /\ Faithful(now, ts) /\ entries' = [entries EXCEPT ![d] = now]
             /\ \/ Goes(d, "handle") /\ UNCHANGED published
                \/ Goes(d, "saving") /\ published' = [published EXCEPT ![d] = {Catalog(now)}]
<1>1. CASE Publish(d, es, ts)
  <2>1. PICK now \in Refreshed(es, ts) :
          /\ entries' = [entries EXCEPT ![d] = now]
          /\ IF ~closed[d] /\ published[d] = {Catalog(now)}
             THEN Goes(d, "handle") /\ UNCHANGED <<closed, published>>
             ELSE /\ Goes(d, "saving")
                  /\ closed' = [closed EXCEPT ![d] = FALSE]
                  /\ published' = [published EXCEPT ![d] = {Catalog(now)}]
    BY <1>1 DEF Publish
  <2>2. Faithful(now, ts)
    BY <2>1, RefreshedIsFaithful
  <2> QED
    BY <2>1, <2>2
<1>2. CASE PublishIfDue(d, es, ts)
  BY <1>1, <1>2 DEF PublishIfDue
<1> QED
  BY <1>1, <1>2

-----------------------------------------------------------------------------
(* What the file holds. *)

CatalogDomains == DOMAIN entries = Daemon /\ DOMAIN published = Daemon /\ DOMAIN missed = Daemon

EntriesAreTrue == \A d \in Daemon : Faithful(entries[d], tabs[d])

(* A daemon writes only in a save, and its tabs do not change meanwhile. *)
PendingIsCurrent ==
    \A d \in Daemon : pending[d].stage # "none" =>
        pc[d] \in {"saving", "leaving"} /\ pending[d].list = Recipes(d)

(* What a daemon that serves, or is about to, takes for the contents of the *)
(* file is what the path names: a receiver opens the file while its donor,  *)
(* the only other one, waits for it.                                        *)
Follows(d) ==
    \/ cache[d] = Disabled
    \/ cache[d] = Fresh /\ live = Absent
    \/ cache[d] = live /\ live \in Encodable
CacheIsCurrent ==
    \A d \in Daemon : Serving(d) \/ pc[d] \in {"opened", "staged"} =>
        IF pending[d].stage = "renamed" THEN live = pending[d].list ELSE Follows(d)

(* The file holds the directories that a catalog shows. *)
Depicts(c, list) ==
    /\ DOMAIN c = DOMAIN list
    /\ \A i \in DOMAIN list : \E title \in Title : c[i] = {<<list[i], title>>}
FileShows(c) ==
    \/ live \in Encodable /\ Depicts(c, live)
    \/ live = Absent /\ DOMAIN c = {}

Unpublished ==
    \A d \in Daemon : pc[d] \in Absentee \cup Receiving => published[d] = {}

(* Every catalog that a daemon published, it saved: a save of the same tabs *)
(* follows, and until it publishes another the file is that of this one,    *)
(* unless the save failed or took a directory the catalog does not show.    *)
PublishedIsSaved ==
    \A d \in Daemon : Serving(d) =>
        /\ pc[d] = "saving" => published[d] = {Catalog(entries[d])}
        /\ pc[d] \notin {"saving", "leaving", "stopped"} /\ missed[d] = "no" /\ cache[d] # Disabled
             => \A c \in published[d] : FileShows(c)
        /\ pc[d] = "stopped" /\ missed[d] # "failed" /\ cache[d] # Disabled => Restores(d)

SaveInv ==
    /\ CatalogDomains /\ EntriesAreTrue
    /\ PendingIsCurrent /\ CacheIsCurrent
    /\ Unpublished /\ PublishedIsSaved

(* The path never comes to name anything else. *)
DiskType == disk \subseteq {Absent, Damaged} \cup Encodable

LEMMA DiskTypeStep == FileInv /\ DiskType /\ [Next]_vars => DiskType'
<1> SUFFICES ASSUME FileInv, DiskType, File!RecoveryNext PROVE DiskType'
  BY StepOfFile DEF DiskType, fileVars
<1> USE DEF DiskType, FileInv, PendingOK
<1>1. CASE File!PowerFails
  BY <1>1 DEF File!PowerFails
<1>2. ASSUME NEW p \in Daemon, File!Rename(p) PROVE DiskType'
  BY <1>2 DEF File!Rename, File!Remains, File!Contents
<1>3. ASSUME NEW p \in Daemon, File!Finish(p) PROVE DiskType'
  BY <1>3 DEF File!Finish
<1>4. ASSUME NEW p \in Daemon,
             \/ \E ok \in BOOLEAN : File!Open(p, ok)
             \/ \E list \in Encodable : File!Create(p, list)
             \/ File!Write(p) \/ File!Sync(p) \/ File!Fail(p) \/ File!Leave(p)
      PROVE  DiskType'
  BY <1>4 DEF File!Open, File!Create, File!Write, File!Sync, File!Advance, File!Fail, File!Leave
<1> QED
  BY <1>1, <1>2, <1>3, <1>4 DEF File!RecoveryNext

LEMMA SaveInit == Init => SaveInv
<1> SUFFICES ASSUME Init PROVE SaveInv
  OBVIOUS
<1>1. CatalogDomains /\ EntriesAreTrue
  BY DEF Init, CatalogDomains, EntriesAreTrue, Faithful
<1>2. PendingIsCurrent /\ CacheIsCurrent /\ Unpublished /\ PublishedIsSaved
  BY DEF Init, PendingIsCurrent, CacheIsCurrent, Unpublished, PublishedIsSaved, Serving,
         Donating, File!RecoveryInit, File!NoFile
<1> QED
  BY <1>1, <1>2 DEF SaveInv

(* What the lemmas below assume of the state before a step. *)
SaveContext == HoldingsInv /\ FileInv /\ DiskType /\ SaveInv

LEMMA ContextTypes ==
    SaveContext =>
      /\ pc \in [Daemon -> PcState] /\ tabs \in [Daemon -> Seq(Tab)]
      /\ pending \in [Daemon -> [stage : FileStage, list : Encodable \cup {<<>>}]]
      /\ DOMAIN cache = Daemon /\ CatalogDomains
  BY DEF SaveContext, HoldingsInv, Control, Holdings, TabsOwned, FileInv, PendingOK, SaveInv

LEMMA RecipesAreDirs ==
    ASSUME TabsOwned, NEW d \in Daemon
    PROVE  /\ Recipes(d) \in Seq(Dir) /\ DOMAIN Recipes(d) = DOMAIN tabs[d]
           /\ \A i \in DOMAIN tabs[d] : Recipes(d)[i] = tabs[d][i].dir
<1>0. tabs[d] \in Seq(Tab)
  BY DEF TabsOwned
<1>1. \A i \in 1..Len(tabs[d]) : tabs[d][i] \in Tab
  BY <1>0, ElementOfSeq
<1>2. Recipes(d) \in [1..Len(tabs[d]) -> Dir] /\ Len(tabs[d]) \in Nat
  BY <1>0, <1>1 DEF Recipes, Tab
<1> QED
  BY <1>0, <1>2, SeqDef DEF Recipes

(* A daemon whose catalog is the one it published, and saved, restores it.  *)
LEMMA SaveInvFollows == SaveContext => FileFollowsTabs
<1> SUFFICES ASSUME SaveContext, NEW d \in Daemon, Serving(d), cache[d] # Disabled,
                    \/ Announced(d) /\ missed[d] = "no"
                    \/ pc[d] = "stopped" /\ missed[d] # "failed"
             PROVE  Restores(d)
  BY DEF FileFollowsTabs
<1>1. CASE pc[d] = "stopped" /\ missed[d] # "failed"
  BY <1>1 DEF SaveContext, SaveInv, PublishedIsSaved
<1>2. CASE pc[d] # "stopped" /\ Announced(d) /\ missed[d] = "no"
  <2> DEFINE c == Catalog(entries[d])
  <2>1. FileShows(c)
    BY <1>2 DEF Announced, SaveContext, SaveInv, PublishedIsSaved
  <2>2. /\ DOMAIN entries[d] = DOMAIN tabs[d]
        /\ \A i \in DOMAIN tabs[d] : Current(entries[d][i], tabs[d][i])
    BY <1>2 DEF Announced, SaveContext, SaveInv, EntriesAreTrue, Faithful
  <2>3. /\ DOMAIN c = DOMAIN tabs[d]
        /\ \A i \in DOMAIN tabs[d] : \E title \in Title : c[i] = {<<tabs[d][i].dir, title>>}
    BY <2>2 DEF Catalog, Current, Shows
  <2> HIDE DEF c
  <2>4. /\ Recipes(d) \in Seq(Dir) /\ DOMAIN Recipes(d) = DOMAIN tabs[d]
        /\ \A i \in DOMAIN tabs[d] : Recipes(d)[i] = tabs[d][i].dir
    BY RecipesAreDirs DEF SaveContext, HoldingsInv, Holdings
  <2>5. CASE live \in Encodable /\ Depicts(c, live)
    <3>1. live \in Seq(Dir) /\ DOMAIN live = DOMAIN tabs[d]
      BY <2>3, <2>5, DaemonsAssumption DEF DaemonsAssumption, Depicts
    <3>2. ASSUME NEW i \in DOMAIN tabs[d] PROVE live[i] = tabs[d][i].dir
      <4>1. PICK t \in Title : c[i] = {<<live[i], t>>}
        BY <2>5, <3>1 DEF Depicts
      <4>2. PICK u \in Title : c[i] = {<<tabs[d][i].dir, u>>}
        BY <2>3
      <4>3. <<live[i], t>> = <<tabs[d][i].dir, u>>
        BY <4>1, <4>2
      <4> QED
        BY <4>3
    <3>3. live = Recipes(d)
      <4>1. Len(live) = Len(Recipes(d))
        BY <2>4, <3>1
      <4>2. \A i \in 1..Len(live) : live[i] = Recipes(d)[i]
        BY <2>4, <3>1, <3>2
      <4> QED
        BY <2>4, <3>1, <4>1, <4>2, SeqEqual
    <3> QED
      BY <3>3 DEF Restores
  <2>6. CASE live = Absent /\ DOMAIN c = {}
    <3>1. tabs[d] \in Seq(Tab) /\ DOMAIN tabs[d] = {}
      BY <2>3, <2>6, ContextTypes
    <3>2. tabs[d] = <<>>
      BY <3>1
    <3> QED
      BY <2>6, <3>2 DEF Restores
  <2> QED
    BY <2>1, <2>5, <2>6 DEF FileShows
<1> QED
  BY <1>1, <1>2

(* Daemons move on between the points where they do not save. *)
Moves ==
    \A d \in Daemon :
        \/ pc'[d] = pc[d]
        \/ /\ Serving(d) /\ pc[d] \notin {"saving", "leaving", "stopped"}
           /\ pc'[d] \in {"top", "maintain", "handle", "leaving"} \cup Donating
        \/ pc[d] = "absent" /\ pc'[d] = "receiving"

LEMMA MovesKeepSave ==
    ASSUME SaveContext, Moves, UNCHANGED <<fileVars, tabs, entries, published, missed>>
    PROVE  SaveInv'
<1> USE DEF SaveContext, SaveInv, Moves, fileVars
<1>1. CatalogDomains'
  BY DEF CatalogDomains
<1>2. EntriesAreTrue'
  BY DEF EntriesAreTrue
<1>3. PendingIsCurrent'
  BY DEF PendingIsCurrent, Recipes
<1>4. CacheIsCurrent'
  BY DEF CacheIsCurrent, Follows, Serving, Donating, PendingIsCurrent
<1>5. Unpublished'
  BY DEF Unpublished, Absentee, Receiving, Donating
<1>6. PublishedIsSaved'
  BY DEF PublishedIsSaved, Serving, Donating, FileShows, Restores, Recipes
<1> QED
  BY <1>1, <1>2, <1>3, <1>4, <1>5, <1>6

(* A daemon that does not save may change its tabs, if it marks the change, *)
(* and may publish, if it saves.                                            *)
LEMMA ChangesKeepSave ==
    ASSUME SaveContext, NEW d \in Daemon, pc[d] \in {"maintain", "handle"},
           NEW list, NEW es, Faithful(es, list), UNCHANGED <<fileVars, missed>>,
           tabs' = [tabs EXCEPT ![d] = list], entries' = [entries EXCEPT ![d] = es],
           \/ (UNCHANGED pc \/ Goes(d, "handle")) /\ UNCHANGED published
           \/ Goes(d, "saving") /\ published' = [published EXCEPT ![d] = {Catalog(es)}]
    PROVE  SaveInv'
<1> USE DEF SaveContext, SaveInv, fileVars
<1>0. /\ pc \in [Daemon -> PcState] /\ tabs \in [Daemon -> Seq(Tab)] /\ CatalogDomains
  BY ContextTypes
<1>1. /\ entries'[d] = es /\ tabs'[d] = list
      /\ \A e \in Daemon \ {d} : /\ tabs'[e] = tabs[e] /\ entries'[e] = entries[e]
                                 /\ pc'[e] = pc[e] /\ published'[e] = published[e]
  BY <1>0 DEF CatalogDomains, Goes
<1>2. \/ pc'[d] \in {"maintain", "handle"} /\ published'[d] = published[d]
      \/ pc'[d] = "saving" /\ published'[d] = {Catalog(es)}
  BY <1>0 DEF CatalogDomains, Goes
<1>3. pending[d].stage = "none" /\ Serving(d)
  BY DEF PendingIsCurrent, Serving
<1>4. CatalogDomains'
  BY <1>0 DEF CatalogDomains
<1>5. EntriesAreTrue'
  BY <1>1 DEF EntriesAreTrue
<1>6. PendingIsCurrent'
  BY <1>1, <1>3 DEF PendingIsCurrent, Recipes
<1>7. CacheIsCurrent'
  BY <1>1, <1>2, <1>3 DEF CacheIsCurrent, Follows, Serving, Donating
<1>8. Unpublished'
  BY <1>1, <1>2 DEF Unpublished, Absentee, Receiving
<1>9. \A e \in Daemon \ {d} : ~Serving(e) /\ ~Serving(e)'
  BY <1>1, <1>3 DEF HoldingsInv, Control, Serving, Donating
<1>10. PublishedIsSaved'
  BY <1>1, <1>2, <1>3, <1>9 DEF PublishedIsSaved, FileShows
<1> QED
  BY <1>4, <1>5, <1>6, <1>7, <1>8, <1>10

(* The steps of a loop that leave the file and the tabs alone. *)
LEMMA LoopKeepsSave ==
    ASSUME SaveContext, NEW d \in Daemon,
           NoUpgrade(d) \/ Upgrade(d) \/ Seal(d) \/ ReceiverLost(d) \/ TurnEnds(d) \/ StopAsked(d)
             \/ Replace(d) \/ ChildSignal(d)
    PROVE  SaveInv'
<1>0. pc \in [Daemon -> PcState]
  BY ContextTypes
<1>1. UNCHANGED <<fileVars, tabs, entries, published, missed>>
  BY DEF NoUpgrade, Upgrade, Seal, ReceiverLost, TurnEnds, StopAsked, Replace, ChildSignal, Handling,
         catalogVars
<1>2. CASE NoUpgrade(d) \/ Seal(d) \/ ReceiverLost(d) \/ TurnEnds(d) \/ StopAsked(d)
  <2>1. Moves
    BY <1>0, <1>2 DEF NoUpgrade, Seal, ReceiverLost, TurnEnds, StopAsked, Handling, Goes, Moves,
                      Serving, Donating
  <2> QED
    BY <1>1, <2>1, MovesKeepSave
<1>3. CASE Upgrade(d)
  <2>1. ASSUME NEW r \in NextDaemon, pc' = [pc EXCEPT ![d] = "spawned", ![r] = "receiving"]
        PROVE  Moves
    BY <1>0, <1>3, <2>1 DEF Upgrade, NextDaemon, Moves, Serving, Donating
  <2>2. ASSUME Goes(d, "maintain") PROVE Moves
    BY <1>0, <1>3, <2>2 DEF Upgrade, Goes, Moves, Serving
  <2>3. Moves
    BY <1>3, <2>1, <2>2 DEF Upgrade
  <2> QED
    BY <1>1, <2>3, MovesKeepSave
<1>4. CASE Replace(d) \/ ChildSignal(d)
  <2>1. Moves
    BY <1>4 DEF Replace, ChildSignal, Moves
  <2> QED
    BY <1>1, <2>1, MovesKeepSave
<1> QED
  BY <1>2, <1>3, <1>4

(* Tabs change, and what they changed into is published, or is due. *)
LEMMA PublishKeepsSave ==
    ASSUME SaveContext, TabsOwned', NEW d \in Daemon, pc[d] \in {"maintain", "handle"},
           NEW list, NEW es, Faithful(es, list), UNCHANGED <<fileVars, missed>>,
           tabs' = [tabs EXCEPT ![d] = list], Publish(d, es, list) \/ PublishIfDue(d, es, list)
    PROVE  SaveInv'
<1>1. list \in Seq(Tab)
  BY ContextTypes DEF TabsOwned
<1>2. PICK now :
        /\ Faithful(now, list) /\ entries' = [entries EXCEPT ![d] = now]
        /\ \/ Goes(d, "handle") /\ UNCHANGED published
           \/ Goes(d, "saving") /\ published' = [published EXCEPT ![d] = {Catalog(now)}]
  BY <1>1, PublishOutcome
<1> QED
  BY <1>2, ChangesKeepSave

LEMMA MaintenanceKeepsSave ==
    ASSUME SaveContext, TabsOwned', NEW d \in Daemon,
           Maintain(d) \/ MaintainDue(d) \/ OpenTab(d) \/ Navigate(d)
    PROVE  SaveInv'
<1>0. /\ tabs \in [Daemon -> Seq(Tab)] /\ Faithful(entries[d], tabs[d])
      /\ tabs = [tabs EXCEPT ![d] = tabs[d]]
  BY ContextTypes DEF SaveContext, SaveInv, EntriesAreTrue
<1>1. UNCHANGED <<fileVars, missed>> /\ pc[d] \in {"maintain", "handle"}
  BY DEF Maintain, MaintainDue, OpenTab, Navigate, Handling
<1>2. CASE Maintain(d)
  <2>1. PublishIfDue(d, entries[d], tabs[d]) /\ tabs' = tabs
    BY <1>2 DEF Maintain
  <2>2. tabs' = [tabs EXCEPT ![d] = tabs[d]]
    BY <1>0, <2>1
  <2> QED
    BY <1>0, <1>1, <2>1, <2>2, PublishKeepsSave
<1>3. CASE MaintainDue(d)
  <2>1. PICK f : /\ tabs' = [tabs EXCEPT ![d] = Seen(d, f)]
                 /\ PublishIfDue(d, Marked(entries[d], tabs[d], Seen(d, f)), Seen(d, f))
    BY <1>3 DEF MaintainDue
  <2>2. DOMAIN Seen(d, f) = DOMAIN tabs[d]
    BY DEF Seen
  <2>3. Faithful(Marked(entries[d], tabs[d], Seen(d, f)), Seen(d, f))
    BY <1>0, <2>2, MarkedIsFaithful
  <2> QED
    BY <1>1, <2>1, <2>3, PublishKeepsSave
<1>4. CASE OpenTab(d)
  <2>1. PICK s \in {0} \cup Shell, dir \in Dir :
          /\ tabs' = [tabs EXCEPT ![d] = Append(@, Owned(s, dir))]
          /\ Publish(d, Append(entries[d], NoEntry), Append(tabs[d], Owned(s, dir)))
    BY <1>4 DEF OpenTab
  <2> DEFINE tab == Owned(s, dir)
  <2>2. tab \in Tab
    BY DEF Owned, Tab
  <2> HIDE DEF tab
  <2>3. Faithful(Append(entries[d], NoEntry), Append(tabs[d], tab))
    BY <1>0, <2>2, AppendedIsFaithful
  <2>4. tabs' = [tabs EXCEPT ![d] = Append(tabs[d], tab)]
    BY <2>1 DEF tab
  <2>5. Publish(d, Append(entries[d], NoEntry), Append(tabs[d], tab))
    BY <2>1 DEF tab
  <2> QED
    BY <1>1, <2>3, <2>4, <2>5, PublishKeepsSave
<1>5. CASE Navigate(d)
  <2>1. CASE UNCHANGED tabs /\ Publish(d, entries[d], tabs[d])
    <3>1. tabs' = [tabs EXCEPT ![d] = tabs[d]]
      BY <1>0, <2>1
    <3> QED
      BY <1>0, <1>1, <2>1, <3>1, PublishKeepsSave
  <2>2. ASSUME NEW i \in DOMAIN tabs[d], NEW dir \in Address,
               tabs' = [tabs EXCEPT ![d] = Navigated(@, i, dir)],
               Publish(d, [entries[d] EXCEPT ![i].dirty = TRUE], Navigated(tabs[d], i, dir))
        PROVE  SaveInv'
    <3> DEFINE tab == [tabs[d][i] EXCEPT !.dir = dir]
               es == [entries[d] EXCEPT ![i].dirty = TRUE]
    <3>1. Navigated(tabs[d], i, dir) = [tabs[d] EXCEPT ![i] = tab]
      BY DEF Navigated
    <3>2. tabs' = [tabs EXCEPT ![d] = Navigated(tabs[d], i, dir)]
      BY <2>2
    <3> HIDE DEF tab
    <3>3. Faithful(es, [tabs[d] EXCEPT ![i] = tab])
      BY <1>0, ChangedIsFaithful
    <3>4. Publish(d, es, Navigated(tabs[d], i, dir))
      BY <2>2
    <3> HIDE DEF es
    <3> QED
      BY <1>1, <3>1, <3>2, <3>3, <3>4, PublishKeepsSave
  <2> QED
    BY <1>5, <2>1, <2>2 DEF Navigate
<1> QED
  BY <1>2, <1>3, <1>4, <1>5

(* The events that leave it to the next turn to publish. *)
LEMMA TabEventsKeepSave ==
    ASSUME SaveContext, NEW d \in Daemon, CloseTab(d) \/ Output(d) \/ Attach(d) \/ Convert(d)
    PROVE  SaveInv'
<1>0. /\ tabs \in [Daemon -> Seq(Tab)] /\ CatalogDomains /\ Faithful(entries[d], tabs[d])
      /\ tabs[d] \in Seq(Tab)
  BY ContextTypes DEF SaveContext, SaveInv, EntriesAreTrue
<1>1. UNCHANGED <<fileVars, missed, pc, published>> /\ pc[d] \in {"maintain", "handle"}
  BY DEF CloseTab, Output, Attach, Convert, Handling
<1>2. CASE CloseTab(d)
  <2>1. PICK i \in DOMAIN tabs[d] :
          /\ tabs' = [tabs EXCEPT ![d] = Without(tabs[d], i)]
          /\ entries' = [entries EXCEPT ![d] = Without(entries[d], i)]
    BY <1>2 DEF CloseTab
  <2>2. Faithful(Without(entries[d], i), Without(tabs[d], i))
    BY <1>0, WithoutIsFaithful
  <2> QED
    BY <1>1, <2>1, <2>2, ChangesKeepSave
<1>3. CASE Output(d)
  <2>1. PICK i \in DOMAIN tabs[d] : \E dir \in Looks(tabs[d][i]) :
          /\ tabs' = [tabs EXCEPT ![d][i].dir = dir]
          /\ \E dirty \in {TRUE, entries[d][i].dirty \/ dir # tabs[d][i].dir} :
               entries' = [entries EXCEPT ![d][i].dirty = dirty]
    BY <1>3 DEF Output
  <2>2. PICK dir : /\ tabs' = [tabs EXCEPT ![d][i].dir = dir]
                   /\ \E dirty \in {TRUE, entries[d][i].dirty \/ dir # tabs[d][i].dir} :
                        entries' = [entries EXCEPT ![d][i].dirty = dirty]
    BY <2>1
  <2>3. PICK dirty \in {TRUE, entries[d][i].dirty \/ dir # tabs[d][i].dir} :
          entries' = [entries EXCEPT ![d][i].dirty = dirty]
    BY <2>2
  <2>4. entries[d][i].dirty \in BOOLEAN /\ tabs[d][i] \in Tab
    BY <1>0 DEF Faithful, Entry
  <2> DEFINE tab == [tabs[d][i] EXCEPT !.dir = dir]
             es == [entries[d] EXCEPT ![i].dirty = dirty]
  <2>5. tab.dir = dir
    BY <2>4 DEF Tab
  <2>6. dirty \in BOOLEAN /\ (dirty \/ (dir = tabs[d][i].dir /\ ~entries[d][i].dirty))
    BY <2>4
  <2>7. tabs' = [tabs EXCEPT ![d] = [tabs[d] EXCEPT ![i] = tab]]
    BY <2>2
  <2>8. entries' = [entries EXCEPT ![d] = es]
    BY <2>3
  <2> HIDE DEF tab
  <2>9. Faithful(es, [tabs[d] EXCEPT ![i] = tab])
    BY <1>0, <2>5, <2>6, ChangedIsFaithful
  <2> HIDE DEF es
  <2> QED
    BY <1>1, <2>7, <2>8, <2>9, ChangesKeepSave
<1>4. CASE Attach(d)
  <2>1. PICK now \in Refreshed(entries[d], tabs[d]) : entries' = [entries EXCEPT ![d] = now]
    BY <1>4 DEF Attach
  <2>2. Faithful(now, tabs[d])
    BY <1>0, RefreshedIsFaithful
  <2>3. tabs' = [tabs EXCEPT ![d] = tabs[d]]
    BY <1>0, <1>4 DEF Attach
  <2> QED
    BY <1>1, <2>1, <2>2, <2>3, ChangesKeepSave
<1>5. CASE Convert(d)
  <2>1. PICK i \in DOMAIN tabs[d], dir \in Address :
          /\ tabs' = [tabs EXCEPT ![d][i] = Owned(0, dir)]
          /\ entries' = [entries EXCEPT ![d][i].dirty = TRUE]
    BY <1>5 DEF Convert
  <2> DEFINE tab == Owned(0, dir)
             es == [entries[d] EXCEPT ![i].dirty = TRUE]
  <2>2. tabs' = [tabs EXCEPT ![d] = [tabs[d] EXCEPT ![i] = tab]]
    BY <2>1
  <2>3. entries' = [entries EXCEPT ![d] = es]
    BY <2>1
  <2> HIDE DEF tab
  <2>4. Faithful(es, [tabs[d] EXCEPT ![i] = tab])
    BY <1>0, ChangedIsFaithful
  <2> HIDE DEF es
  <2> QED
    BY <1>1, <2>2, <2>3, <2>4, ChangesKeepSave
<1> QED
  BY <1>2, <1>3, <1>4, <1>5

(* A save that took the directories of the catalog leaves what that shows,  *)
(* and any other the directories of the tabs.                               *)
LEMMA SavedShows ==
    ASSUME SaveContext, NEW d \in Daemon, pc[d] \in {"saving", "leaving"}, UNCHANGED tabs,
           NEW well \in BOOLEAN, Saved(d, well),
           well => \/ cache'[d] = Disabled
                   \/ live' \in Encodable /\ live' = Recipes(d)
                   \/ live' = Absent /\ tabs[d] = <<>>
    PROVE  PublishedIsSaved'
<1>0. /\ pc \in [Daemon -> PcState] /\ tabs \in [Daemon -> Seq(Tab)] /\ CatalogDomains
  BY ContextTypes
<1>1. /\ pc' = [pc EXCEPT ![d] = IF pc[d] = "saving" THEN "handle" ELSE "stopped"]
      /\ UNCHANGED <<tabs, entries, published>>
      /\ missed'[d] = IF ~well THEN "failed" ELSE IF Ahead(d) THEN "ahead" ELSE "no"
  BY <1>0 DEF Saved, Goes, CatalogDomains
<1>2. \A e \in Daemon \ {d} : ~Serving(e)'
  BY <1>0, <1>1 DEF SaveContext, HoldingsInv, Control, Serving, Donating
<1>3. CASE pc[d] = "saving"
  <2>1. published'[d] = {Catalog(entries[d])} /\ pc'[d] = "handle"
    BY <1>0, <1>1, <1>3 DEF SaveContext, SaveInv, PublishedIsSaved, Serving
  <2>2. ASSUME missed'[d] = "no", cache'[d] # Disabled
        PROVE  FileShows(Catalog(entries[d]))'
    <3> DEFINE c == Catalog(entries[d])
    <3>1. well /\ ~Ahead(d)
      BY <1>1, <2>2
    <3>2. DOMAIN c = DOMAIN tabs[d]
      BY DEF SaveContext, SaveInv, EntriesAreTrue, Faithful, Catalog
    <3>3. \A i \in DOMAIN tabs[d] : \E title \in Title : c[i] = {<<tabs[d][i].dir, title>>}
      BY <3>1, <3>2 DEF Ahead, Current, Shows, Catalog
    <3> HIDE DEF c
    <3>4. CASE live' \in Encodable /\ live' = Recipes(d)
      <4>1. /\ DOMAIN Recipes(d) = DOMAIN tabs[d]
            /\ \A i \in DOMAIN tabs[d] : Recipes(d)[i] = tabs[d][i].dir
        BY DEF Recipes
      <4>2. Depicts(c, Recipes(d))
        BY <3>2, <3>3, <4>1 DEF Depicts
      <4>3. live' \in Encodable /\ Depicts(c, live')
        BY <3>4, <4>2
      <4> QED
        BY <1>1, <4>3 DEF FileShows, c
    <3>5. CASE live' = Absent /\ tabs[d] = <<>>
      <4>1. live' = Absent /\ DOMAIN c = {}
        BY <3>2, <3>5
      <4> QED
        BY <1>1, <4>1 DEF FileShows, c
    <3> QED
      BY <2>2, <3>1, <3>4, <3>5
  <2>3. entries' = entries
    BY <1>1
  <2> QED
    BY <1>2, <2>1, <2>2, <2>3 DEF PublishedIsSaved
<1>4. CASE pc[d] = "leaving"
  <2>1. pc'[d] = "stopped"
    BY <1>0, <1>1, <1>4
  <2>2. ASSUME missed'[d] # "failed", cache'[d] # Disabled PROVE Restores(d)'
    <3>1. live' = Recipes(d) \/ (live' = Absent /\ tabs[d] = <<>>)
      BY <1>1, <2>2
    <3> QED
      BY <1>1, <3>1 DEF Restores, Recipes
  <2> QED
    BY <1>2, <2>1, <2>2 DEF PublishedIsSaved
<1> QED
  BY <1>3, <1>4

(* A save, one call at a time: at the rename the path comes to name the     *)
(* recipes of the daemon's tabs, and at the end its cache does.             *)
LEMMA SavesKeepSave ==
    ASSUME SaveContext, NEW d \in Daemon,
           SaveStep(d) \/ SaveSkipped(d) \/ SaveDone(d) \/ SaveFails(d)
    PROVE  SaveInv'
<1> USE DEF SaveContext, SaveInv
<1>0. /\ pc \in [Daemon -> PcState] /\ tabs \in [Daemon -> Seq(Tab)]
      /\ pending \in [Daemon -> [stage : FileStage, list : Encodable \cup {<<>>}]]
      /\ DOMAIN cache = Daemon
  BY ContextTypes
<1>1. /\ pc[d] \in {"saving", "leaving"} /\ Serving(d)
      /\ UNCHANGED <<tabs, entries, published>>
  BY DEF SaveStep, SaveSkipped, SaveDone, SaveFails, Saved, Serving, catalogVars
<1>2. \A e \in Daemon : Serving(e) \/ pc[e] \in {"opened", "staged"} => e = d
  BY <1>1 DEF HoldingsInv, Control, Receiving, Donating
<1>3. \A e \in Daemon : Recipes(e)' = Recipes(e)
  BY <1>1 DEF Recipes
<1>9. EntriesAreTrue'
  BY <1>1 DEF EntriesAreTrue
<1>4. CASE SaveStep(d)
  <2>1. UNCHANGED <<pc, missed, cache>>
    BY <1>4 DEF SaveStep, catalogVars, File!Create, File!Write, File!Sync, File!Advance, File!Rename
  <2>2. CatalogDomains' /\ Unpublished' /\ PublishedIsSaved'
    BY <1>1, <1>2, <2>1 DEF CatalogDomains, Unpublished, PublishedIsSaved, Serving
  <2>3. CASE File!Create(d, Recipes(d))
    <3> USE <2>3 DEF File!Create
    <3>1. pending'[d] = [stage |-> "created", list |-> Recipes(d)]
          /\ \A e \in Daemon \ {d} : pending'[e] = pending[e]
      BY <1>0
    <3>2. PendingIsCurrent'
      BY <1>1, <1>3, <2>1, <3>1 DEF PendingIsCurrent
    <3>3. CacheIsCurrent'
      BY <1>2, <2>1, <3>1 DEF CacheIsCurrent, Follows, Serving
    <3> QED
      BY <1>9, <2>2, <3>2, <3>3
  <2>4. CASE File!Write(d) \/ File!Sync(d)
    <3> USE <2>4 DEF File!Write, File!Sync, File!Advance
    <3>1. /\ pending[d].stage \in {"created", "written"} /\ pending'[d].list = pending[d].list
          /\ pending'[d].stage # "renamed"
          /\ \A e \in Daemon \ {d} : pending'[e] = pending[e]
      BY <1>0
    <3>2. PendingIsCurrent'
      BY <1>1, <1>3, <2>1, <3>1 DEF PendingIsCurrent
    <3>3. CacheIsCurrent'
      BY <1>2, <2>1, <3>1 DEF CacheIsCurrent, Follows, Serving
    <3> QED
      BY <1>9, <2>2, <3>2, <3>3
  <2>5. CASE File!Rename(d)
    <3> USE <2>5 DEF File!Rename
    <3>1. /\ pending[d].stage = "synced" /\ pending'[d].list = pending[d].list
          /\ pending'[d].stage = "renamed" /\ live' = pending[d].list
          /\ \A e \in Daemon \ {d} : pending'[e] = pending[e]
      BY <1>0 DEF File!Contents
    <3>2. PendingIsCurrent'
      BY <1>1, <1>3, <2>1, <3>1 DEF PendingIsCurrent
    <3>3. CacheIsCurrent'
      BY <1>2, <2>1, <3>1 DEF CacheIsCurrent, Serving
    <3> QED
      BY <1>9, <2>2, <3>2, <3>3
  <2> QED
    BY <1>4, <2>3, <2>4, <2>5 DEF SaveStep
<1>5. ASSUME NEW well \in BOOLEAN, Saved(d, well)
      PROVE  /\ CatalogDomains' /\ Unpublished'
             /\ pc'[d] \in {"handle", "stopped"}
             /\ \A e \in Daemon \ {d} : pc'[e] = pc[e] /\ ~Serving(e)'
  <2>1. /\ pc' = [pc EXCEPT ![d] = IF pc[d] = "saving" THEN "handle" ELSE "stopped"]
        /\ DOMAIN missed' = DOMAIN missed
    BY <1>5 DEF Saved, Goes
  <2>2. pc'[d] \in {"handle", "stopped"} /\ \A e \in Daemon \ {d} : pc'[e] = pc[e] /\ ~Serving(e)'
    BY <1>0, <1>2, <2>1 DEF Serving
  <2> QED
    BY <1>1, <2>1, <2>2 DEF CatalogDomains, Unpublished, Absentee, Receiving
<1>6. CASE SaveSkipped(d)
  <2>1. Saved(d, TRUE) /\ UNCHANGED fileVars /\ pending[d].stage = "none" /\ File!Skips(d, Recipes(d))
    BY <1>6 DEF SaveSkipped
  <2>2. PendingIsCurrent'
    BY <1>3, <1>5, <2>1 DEF PendingIsCurrent, fileVars
  <2>3. CacheIsCurrent'
    BY <1>2, <1>5, <2>1, <1>1 DEF CacheIsCurrent, Follows, fileVars
  <2>4. Recipes(d) \in Seq(Dir)
    BY RecipesAreDirs DEF HoldingsInv, Holdings
  <2>5. Follows(d)
    BY <1>1, <2>1 DEF CacheIsCurrent
  <2>6. \/ cache[d] = Disabled
        \/ live \in Encodable /\ live = Recipes(d)
        \/ live = Absent /\ Recipes(d) = <<>>
    BY <2>1, <2>4, <2>5, DaemonsAssumption DEF DaemonsAssumption, Follows, File!Skips
  <2>7. Recipes(d) = <<>> => tabs[d] = <<>>
    BY <1>0 DEF Recipes
  <2>8. PublishedIsSaved'
    BY <1>1, <2>1, <2>6, <2>7, SavedShows DEF fileVars
  <2> QED
    BY <1>5, <1>9, <2>1, <2>2, <2>3, <2>8
<1>7. CASE SaveDone(d)
  <2>1. Saved(d, TRUE) /\ File!Finish(d)
    BY <1>7 DEF SaveDone
  <2>2. /\ pending[d].stage = "renamed" /\ pending'[d].stage = "none" /\ cache'[d] = pending[d].list
        /\ live' = live
        /\ \A e \in Daemon \ {d} : pending'[e] = pending[e] /\ cache'[e] = cache[e]
    BY <1>0, <2>1 DEF File!Finish, File!NoFile
  <2>3. pending[d].list \in Encodable
    BY <2>2 DEF FileInv, PendingOK
  <2>4. live = pending[d].list /\ live = Recipes(d)
    BY <1>1, <2>2 DEF CacheIsCurrent, PendingIsCurrent
  <2>5. PendingIsCurrent'
    BY <1>3, <1>5, <2>1, <2>2 DEF PendingIsCurrent
  <2>6. CacheIsCurrent'
    BY <1>2, <1>5, <2>1, <2>2, <2>3, <2>4 DEF CacheIsCurrent, Follows
  <2>7. PublishedIsSaved'
    BY <1>1, <2>1, <2>2, <2>3, <2>4, SavedShows
  <2> QED
    BY <1>5, <1>9, <2>1, <2>5, <2>6, <2>7
<1>8. CASE SaveFails(d)
  <2>1. Saved(d, FALSE)
    BY <1>8 DEF SaveFails
  <2>2. /\ pending[d].stage # "renamed" /\ pending'[d].stage = "none" /\ live' = live /\ cache' = cache
        /\ \A e \in Daemon \ {d} : pending'[e] = pending[e]
    <3>1. CASE pending[d].stage = "none" /\ UNCHANGED fileVars
      BY <3>1 DEF fileVars
    <3>2. CASE File!Fail(d)
      BY <1>0, <3>2 DEF File!Fail, File!NoFile
    <3> QED
      BY <1>8, <3>1, <3>2 DEF SaveFails
  <2>3. PendingIsCurrent'
    BY <1>3, <1>5, <2>1, <2>2 DEF PendingIsCurrent
  <2>4. CacheIsCurrent'
    BY <1>1, <1>2, <1>5, <2>1, <2>2 DEF CacheIsCurrent, Follows
  <2>5. PublishedIsSaved'
    BY <1>1, <2>1, SavedShows
  <2> QED
    BY <1>5, <1>9, <2>1, <2>3, <2>4, <2>5
<1> QED
  BY <1>4, <1>6, <1>7, <1>8

(* A daemon that starts alone, or a receiver, takes the file as it is.      *)
LEMMA OpensKeepSave ==
    ASSUME SaveContext, NEW d \in Daemon, NEW ok \in BOOLEAN, Start(d, ok) \/ ReceiverOpens(d, ok)
    PROVE  SaveInv'
<1> USE DEF SaveContext, SaveInv
<1>0. /\ pc \in [Daemon -> PcState] /\ tabs \in [Daemon -> Seq(Tab)]
      /\ DOMAIN cache = Daemon /\ CatalogDomains
  BY ContextTypes
<1>1. PICK to \in {"top", "opened"} : pc' = [pc EXCEPT ![d] = to]
  BY DEF Start, ReceiverOpens, Goes
<1>2. /\ UNCHANGED <<live, disk, pending>> /\ cache' = [cache EXCEPT ![d] = File!Opened(ok)]
      /\ UNCHANGED <<missed, published>>
  BY DEF Start, ReceiverOpens, File!Open, catalogVars
<1>3. pc[d] \in {"absent", "receiving"}
  BY DEF Start, ReceiverOpens, NextDaemon
<1>4. pending[d].stage = "none"
  BY <1>3 DEF PendingIsCurrent
<1>5. /\ DOMAIN entries' = Daemon /\ Faithful(entries'[d], tabs'[d])
      /\ \A e \in Daemon \ {d} : tabs'[e] = tabs[e] /\ entries'[e] = entries[e]
  <2>1. CASE Start(d, ok)
    <3> DEFINE list == IF File!Opened(ok) \in Encodable THEN live ELSE <<>>
    <3>1. PICK procs :
            /\ tabs' = [tabs EXCEPT ![d] = [i \in DOMAIN list |-> Owned(procs[i], list[i])]]
            /\ entries' = [entries EXCEPT ![d] = [i \in DOMAIN list |-> NoEntry]]
      BY <2>1 DEF Start
    <3>2. NoEntry \in Entry /\ NoEntry.dirty
      BY DEF NoEntry, Entry
    <3> HIDE DEF list
    <3>3. Faithful([i \in DOMAIN list |-> NoEntry], [i \in DOMAIN list |-> Owned(procs[i], list[i])])
      BY <3>2 DEF Faithful
    <3>4. /\ DOMAIN entries' = Daemon
          /\ entries'[d] = [i \in DOMAIN list |-> NoEntry]
          /\ tabs'[d] = [i \in DOMAIN list |-> Owned(procs[i], list[i])]
          /\ \A e \in Daemon \ {d} : tabs'[e] = tabs[e] /\ entries'[e] = entries[e]
      BY <1>0, <3>1 DEF CatalogDomains
    <3> QED
      BY <3>3, <3>4
  <2>2. CASE ReceiverOpens(d, ok)
    <3>1. UNCHANGED <<tabs, entries>>
      BY <2>2 DEF ReceiverOpens, catalogVars
    <3> QED
      BY <1>0, <3>1 DEF CatalogDomains, EntriesAreTrue
  <2> QED
    BY <2>1, <2>2
<1>6. \A e \in Daemon \ {d} : pc'[e] = pc[e] /\ cache'[e] = cache[e]
  BY <1>0, <1>1, <1>2
<1>7. CatalogDomains' /\ EntriesAreTrue'
  BY <1>0, <1>2, <1>5 DEF CatalogDomains, EntriesAreTrue
<1>8. PendingIsCurrent'
  BY <1>2, <1>4, <1>5, <1>6 DEF PendingIsCurrent, Recipes
<1>9. CacheIsCurrent'
  <2>1. live \in {Absent, Damaged} \/ live \in Encodable
    BY DEF FileInv, DiskType
  <2>2. Follows(d)'
    BY <1>0, <1>2, <2>1 DEF Follows, File!Opened
  <2> QED
    BY <1>2, <1>4, <1>5, <1>6, <2>2 DEF CacheIsCurrent, Follows, Serving, Donating
<1>10. published[d] = {}
  BY <1>3 DEF Unpublished, Absentee, Receiving
<1>11. Unpublished'
  BY <1>2, <1>6, <1>10 DEF Unpublished
<1>12. PublishedIsSaved'
  <2>1. pc'[d] \in {"top", "opened"}
    BY <1>0, <1>1
  <2> QED
    BY <1>2, <1>5, <1>6, <1>10, <2>1 DEF PublishedIsSaved, Serving, Donating, FileShows, Restores, Recipes
<1> QED
  BY <1>7, <1>8, <1>9, <1>11, <1>12

(* A transfer changes no file; its donor has saved, or not, before it.      *)
LEMMA TransfersKeepSave ==
    ASSUME SaveContext, NEW d \in Daemon, NEW r \in Daemon, Pin(d, r) \/ Commit(d, r)
    PROVE  SaveInv'
<1> USE DEF SaveContext, SaveInv
<1>0. /\ pc \in [Daemon -> PcState] /\ tabs \in [Daemon -> Seq(Tab)] /\ CatalogDomains
  BY ContextTypes
<1>1. UNCHANGED fileVars /\ UNCHANGED <<missed, published>>
  BY DEF Pin, Commit, catalogVars
<1>2. CASE Pin(d, r)
  <2>1. /\ pc' = [pc EXCEPT ![r] = "staged"] /\ pc[r] = "opened"
        /\ DOMAIN entries' = Daemon
        /\ tabs'[r] = Stage(d, r) /\ entries'[r] = [i \in DOMAIN tabs[d] |-> NoEntry]
        /\ \A e \in Daemon \ {r} : tabs'[e] = tabs[e] /\ entries'[e] = entries[e]
    BY <1>0, <1>2 DEF Pin, Goes, CatalogDomains
  <2>2. pending[r].stage = "none" /\ published[r] = {}
    BY <2>1 DEF PendingIsCurrent, Unpublished, Receiving
  <2>3. Faithful(entries'[r], tabs'[r])
    <3>1. NoEntry \in Entry /\ NoEntry.dirty
      BY DEF NoEntry, Entry
    <3> QED
      BY <2>1, <3>1 DEF Faithful, Stage
  <2>4. CatalogDomains' /\ EntriesAreTrue'
    BY <1>0, <1>1, <2>1, <2>3 DEF CatalogDomains, EntriesAreTrue
  <2>5. PendingIsCurrent'
    BY <1>0, <1>1, <2>1, <2>2 DEF PendingIsCurrent, Recipes, fileVars
  <2>6. CacheIsCurrent'
    BY <1>0, <1>1, <2>1 DEF CacheIsCurrent, Follows, Serving, Donating, fileVars
  <2>7. Unpublished'
    BY <1>0, <1>1, <2>1, <2>2 DEF Unpublished, Absentee, Receiving
  <2>8. PublishedIsSaved'
    BY <1>0, <1>1, <2>1 DEF PublishedIsSaved, FileShows, Restores, Recipes, Serving, Donating, fileVars
  <2> QED
    BY <2>4, <2>5, <2>6, <2>7, <2>8
<1>3. CASE Commit(d, r)
  <2>1. /\ pc' = [pc EXCEPT ![d] = "retired", ![r] = "top"] /\ pc[d] = "sealed" /\ pc[r] = "staged"
        /\ DOMAIN entries' = Daemon /\ tabs'[d] = <<>> /\ entries'[d] = <<>>
        /\ \A e \in Daemon \ {d} : tabs'[e] = tabs[e] /\ entries'[e] = entries[e]
    BY <1>0, <1>3 DEF Commit, HandedOver, CatalogDomains
  <2>2. pending[r].stage = "none" /\ pending[d].stage = "none" /\ d # r /\ published[r] = {}
    BY <2>1 DEF PendingIsCurrent, Unpublished, Receiving
  <2>3. Faithful(<<>>, <<>>)
    BY DEF Faithful
  <2>4. CatalogDomains' /\ EntriesAreTrue'
    BY <1>0, <1>1, <2>1, <2>3 DEF CatalogDomains, EntriesAreTrue
  <2>5. PendingIsCurrent'
    BY <1>0, <1>1, <2>1, <2>2 DEF PendingIsCurrent, Recipes, fileVars
  <2>6. CacheIsCurrent'
    BY <1>0, <1>1, <2>1, <2>2 DEF CacheIsCurrent, Follows, Serving, Donating, fileVars
  <2>7. Unpublished'
    BY <1>0, <1>1, <2>1, <2>2 DEF Unpublished, Absentee, Receiving
  <2>8. \A e \in Daemon \ {r} : ~Serving(e)'
    BY <1>0, <2>1 DEF HoldingsInv, Control, Serving, Donating
  <2>9. PublishedIsSaved'
    BY <1>0, <1>1, <2>1, <2>2, <2>8 DEF PublishedIsSaved
  <2> QED
    BY <2>4, <2>5, <2>6, <2>7, <2>9
<1> QED
  BY <1>2, <1>3

(* The daemons of D end, the file stays; the others go on where they are,   *)
(* but for a donor whose receiver is among them.                            *)
LEMMA EndingsKeepSave ==
    ASSUME SaveContext, NEW D \in SUBSET Daemon, Forgets(D), UNCHANGED live,
           \A d \in Daemon \ D : pending'[d] = pending[d] /\ cache'[d] = cache[d],
           \A d \in D : pending'[d].stage = "none" /\ pc'[d] \in {"absent", "gone"},
           \A d \in Daemon \ D : \/ pc'[d] = pc[d]
                                 \/ pc[d] \in Donating /\ pc'[d] = "maintain"
    PROVE  SaveInv'
<1> USE DEF SaveContext, SaveInv
<1>1. \A e \in Daemon \ D : /\ tabs'[e] = tabs[e] /\ entries'[e] = entries[e]
                            /\ published'[e] = published[e] /\ missed'[e] = missed[e]
  BY DEF Forgets
<1>2. \A e \in D : tabs'[e] = <<>> /\ entries'[e] = <<>> /\ published'[e] = {}
  BY DEF Forgets
<1>3. CatalogDomains'
  BY DEF CatalogDomains, Forgets
<1>4. EntriesAreTrue'
  <2>1. Faithful(<<>>, <<>>)
    BY DEF Faithful
  <2> QED
    BY <1>1, <1>2, <2>1 DEF EntriesAreTrue
<1>5. PendingIsCurrent'
  BY <1>1 DEF PendingIsCurrent, Recipes, Donating
<1>6. CacheIsCurrent'
  BY <1>1 DEF CacheIsCurrent, Follows, Serving, Donating
<1>7. Unpublished'
  BY <1>1, <1>2 DEF Unpublished, Absentee, Receiving, Donating
<1>8. PublishedIsSaved'
  BY <1>1 DEF PublishedIsSaved, FileShows, Restores, Recipes, Serving, Donating
<1> QED
  BY <1>3, <1>4, <1>5, <1>6, <1>7, <1>8

LEMMA EndStepsKeepSave ==
    ASSUME SaveContext,
           \/ PowerLoss
           \/ \E d \in Daemon : Retires(d) \/ Crash(d) \/ GivesUp(d) \/ \E r \in Daemon : Reject(d, r)
    PROVE  SaveInv'
<1>0. /\ pc \in [Daemon -> PcState] /\ DOMAIN cache = Daemon
      /\ pending \in [Daemon -> [stage : FileStage, list : Encodable \cup {<<>>}]]
  BY ContextTypes
<1>1. CASE PowerLoss
  <2>1. \A d \in Daemon : pc'[d] \in {"absent", "gone"} /\ pending'[d].stage = "none"
    BY <1>1 DEF PowerLoss, File!PowerFails, File!NoFile
  <2>2. \A d \in Daemon : tabs'[d] = <<>> /\ entries'[d] = <<>> /\ published'[d] = {}
    BY <1>1 DEF PowerLoss, Forgets
  <2>3. CatalogDomains' /\ EntriesAreTrue'
    <3>1. Faithful(<<>>, <<>>)
      BY DEF Faithful
    <3> QED
      BY <1>1, <2>2, <3>1 DEF PowerLoss, Forgets, CatalogDomains, EntriesAreTrue
  <2>4. PendingIsCurrent' /\ CacheIsCurrent' /\ Unpublished' /\ PublishedIsSaved'
    BY <2>1, <2>2 DEF PendingIsCurrent, CacheIsCurrent, Unpublished, PublishedIsSaved, Serving, Donating
  <2> QED
    BY <2>3, <2>4 DEF SaveInv
<1>2. ASSUME NEW d \in Daemon, Retires(d) \/ Crash(d) \/ GivesUp(d) PROVE SaveInv'
  <2>1. Goes(d, "gone") /\ Forgets({d}) /\ File!Leave(d)
    BY <1>2 DEF Retires, Crash, Ends, GivesUp, Rejected
  <2> QED
    BY <1>0, <2>1, EndingsKeepSave DEF File!Leave, File!NoFile, Goes
<1>3. ASSUME NEW d \in Daemon, NEW r \in Daemon, Reject(d, r) PROVE SaveInv'
  <2>1. /\ pc[d] \in Donating /\ pc[r] \in Receiving
        /\ pc' = [pc EXCEPT ![d] = "maintain", ![r] = "gone"] /\ Forgets({r}) /\ File!Leave(r)
    BY <1>3 DEF Reject, Rejected
  <2> QED
    BY <1>0, <2>1, EndingsKeepSave DEF File!Leave, File!NoFile
<1> QED
  BY <1>1, <1>2, <1>3

(* What the machine and its users do elsewhere. *)
LEMMA OutsideKeepsSave ==
    ASSUME SaveContext,
           PidTaken \/ Install \/ Uninstall \/ UNCHANGED vars \/ \E s \in Shell : ShellEnds(s)
    PROVE  SaveInv'
<1>1. UNCHANGED <<fileVars, tabs, entries, published, missed, pc>>
  BY DEF PidTaken, Install, Uninstall, vars, ShellEnds, catalogVars
<1> QED
  BY <1>1, MovesKeepSave DEF Moves

LEMMA SaveStepInv == SaveContext /\ [Next]_vars => SaveContext'
<1> SUFFICES ASSUME SaveContext, [Next]_vars PROVE SaveInv'
  BY HoldingsStep, NextFile, DiskTypeStep DEF SaveContext
<1>0. TabsOwned'
  BY HoldingsStep DEF SaveContext, HoldingsInv, Holdings
<1>1. CASE UNCHANGED vars
  BY <1>1, OutsideKeepsSave
<1>2. CASE Begins
  BY <1>2, OpensKeepSave DEF Begins
<1>3. CASE Progress
  <2>1. PICK d \in Daemon : Turn(d) \/ MaintainDue(d)
    BY <1>3 DEF Progress
  <2>2. CASE NoUpgrade(d) \/ Upgrade(d) \/ TurnEnds(d) \/ Seal(d) \/ ReceiverLost(d)
    BY <2>2, LoopKeepsSave
  <2>3. CASE Maintain(d) \/ MaintainDue(d)
    BY <1>0, <2>3, MaintenanceKeepsSave
  <2>4. CASE SaveStep(d) \/ SaveSkipped(d) \/ SaveDone(d)
    BY <2>4, SavesKeepSave
  <2>5. CASE Retires(d)
    BY <2>5, EndStepsKeepSave
  <2>6. CASE \E ok \in BOOLEAN : ReceiverOpens(d, ok)
    BY <2>6, OpensKeepSave
  <2>7. CASE \E r \in Daemon : Pin(d, r) \/ Commit(d, r)
    BY <2>7, TransfersKeepSave
  <2> QED
    BY <2>1, <2>2, <2>3, <2>4, <2>5, <2>6, <2>7 DEF Turn
<1>4. CASE World
  BY <1>4, EndStepsKeepSave, OutsideKeepsSave DEF World
<1>5. ASSUME NEW d \in Daemon, Event(d) PROVE SaveInv'
  <2>1. CASE OpenTab(d) \/ Navigate(d)
    BY <1>0, <2>1, MaintenanceKeepsSave
  <2>2. CASE CloseTab(d) \/ Output(d) \/ Attach(d)
    BY <2>2, TabEventsKeepSave
  <2>3. CASE Replace(d) \/ ChildSignal(d) \/ StopAsked(d)
    BY <2>3, LoopKeepsSave
  <2>4. CASE SaveFails(d)
    BY <2>4, SavesKeepSave
  <2>5. CASE \E r \in Daemon : Reject(d, r)
    BY <2>5, EndStepsKeepSave
  <2> QED
    BY <1>5, <2>1, <2>2, <2>3, <2>4, <2>5 DEF Event
<1>6. CASE Consequence
  BY <1>6, OutsideKeepsSave, TabEventsKeepSave DEF Consequence
<1> QED
  BY <1>1, <1>2, <1>3, <1>4, <1>5, <1>6 DEF Next, Happens

(* Through upgrades, failed saves, losses of power and terminals that hold  *)
(* their screens back: a daemon that serves with its catalog published, no  *)
(* entry marked, and its last save neither failed nor ahead of the catalog, *)
(* finds its tabs in the file when it is restarted (publish, save).         *)
THEOREM FileRestoresTabs == Spec => []FileFollowsTabs
<1>1. Init => SaveContext
  <2>1. Init => DiskType
    BY DEF Init, File!RecoveryInit, DiskType
  <2> QED
    BY <2>1, ControlInit, HoldingsInit, InitFile, SaveInit DEF SaveContext, HoldingsInv
<1> QED
  BY <1>1, SaveInvFollows, SaveStepInv, PTL DEF Spec
=============================================================================
