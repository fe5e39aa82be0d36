------------------------------ MODULE Recovery ------------------------------
(***************************************************************************)
(* The recovery file of a workspace (workspace/recovery.rs) and the disk   *)
(* below it.  A daemon opens the file once; it saves the recipes of its    *)
(* tabs through a temporary file that is written, synced, renamed over the *)
(* path, and whose directory is then synced if that can be done.  Daemons  *)
(* may die, and power may fail, between any two of these calls.            *)
(*                                                                         *)
(* Abstracted: a list of recipes stands for its encoding; the bytes of any *)
(* other file, decoded or cut short, are Damaged.  A pending file is named *)
(* by its process, so it is part of that process's state.                  *)
(***************************************************************************)
CONSTANTS
    Process,    \* the daemons that may ever run
    Encodable,  \* the lists within RESTORE_TABS and RESTORE_LIMIT
    Nothing,    \* the list without recipes
    Absent, Damaged,            \* what the path holds if not an encoding
    Fresh, Disabled, Unopened   \* Cache::Fresh, Cache::Disabled, no Recovery

(* What a module that instantiates this one assumes of the constants. *)
RecoveryAssumption ==
    /\ {Absent, Damaged, Fresh, Disabled, Unopened} \cap Encodable = {}
    /\ Absent # Damaged

VARIABLES
    live,       \* what the path names
    disk,       \* what it may name after a loss of power
    pending,    \* per process, its temporary file: stage and list
    cache       \* per process, Recovery::cache

recoveryVars == <<live, disk, pending, cache>>

NoFile == [stage |-> "none", list |-> Nothing]

RecoveryInit ==
    /\ live \in {Absent, Damaged} \cup Encodable
    /\ disk = {live}
    /\ pending = [p \in Process |-> NoFile]
    /\ cache = [p \in Process |-> Unopened]

-----------------------------------------------------------------------------
(* The kernel's side: what a file holds, and what a loss of power leaves.   *)

Contents(file) == IF file.stage \in {"written", "synced"} THEN file.list ELSE Damaged
Remains(file) ==
    IF file.stage = "synced" THEN {file.list} ELSE {Contents(file), Damaged}

-----------------------------------------------------------------------------
(* Recovery::open; ok is whether the file could be opened and read.         *)
OpenedForgivingly(ok) ==
    IF ~ok THEN Disabled ELSE IF live \in {Absent, Damaged} THEN Fresh ELSE live
Opened(ok) ==
    IF ~ok \/ live = Damaged THEN Disabled ELSE IF live = Absent THEN Fresh ELSE live

Open(p, ok) ==
    /\ cache' = [cache EXCEPT ![p] = Opened(ok)]
    /\ UNCHANGED <<live, disk, pending>>

(* The early returns of save: nothing to write. *)
Skips(p, list) ==
    \/ cache[p] = Disabled
    \/ cache[p] = Fresh /\ list = Nothing
    \/ cache[p] = list

Advance(p, from, to) ==
    /\ pending[p].stage = from
    /\ pending' = [pending EXCEPT ![p].stage = to]
    /\ UNCHANGED <<live, disk, cache>>

(* save, one system call at a time. *)
Create(p, list) ==
    /\ cache[p] # Unopened /\ pending[p].stage = "none"
    /\ ~Skips(p, list) /\ list \in Encodable
    /\ pending' = [pending EXCEPT ![p] = [stage |-> "created", list |-> list]]
    /\ UNCHANGED <<live, disk, cache>>

Write(p) == Advance(p, "created", "written")

Sync(p) == Advance(p, "written", "synced")

RenameEarly(p) ==
    /\ pending[p].stage \in {"written", "synced"}
    /\ live' = Contents(pending[p])
    /\ disk' = disk \cup Remains(pending[p])
    /\ pending' = [pending EXCEPT ![p].stage = "renamed"]
    /\ UNCHANGED <<cache>>

Rename(p) ==
    /\ pending[p].stage = "synced"
    /\ live' = Contents(pending[p])
    /\ disk' = disk \cup Remains(pending[p])
    /\ pending' = [pending EXCEPT ![p].stage = "renamed"]
    /\ UNCHANGED <<cache>>

(* The directory is synced, or not, without an error. *)
Finish(p) ==
    /\ pending[p].stage = "renamed"
    /\ disk' \in {disk, {live}}
    /\ cache' = [cache EXCEPT ![p] = pending[p].list]
    /\ pending' = [pending EXCEPT ![p] = NoFile]
    /\ UNCHANGED live

(* A call of save fails, and PendingFile is dropped. *)
Fail(p) ==
    /\ pending[p].stage \in {"created", "written", "synced"}
    /\ pending' = [pending EXCEPT ![p] = NoFile]
    /\ UNCHANGED <<live, disk, cache>>

(* The process ends; a file it was writing stays, and nothing names it. *)
Leave(p) ==
    /\ pending' = [pending EXCEPT ![p] = NoFile]
    /\ cache' = [cache EXCEPT ![p] = Unopened]
    /\ UNCHANGED <<live, disk>>

PowerFails ==
    /\ live' \in disk /\ disk' = {live'}
    /\ pending' = [p \in Process |-> NoFile]
    /\ cache' = [p \in Process |-> Unopened]

RecoveryNext ==
    \/ PowerFails
    \/ \E p \in Process :
        \/ \E ok \in BOOLEAN : Open(p, ok)
        \/ \E list \in Encodable : Create(p, list)
        \/ Write(p) \/ Sync(p) \/ Rename(p) \/ Finish(p) \/ Fail(p) \/ Leave(p)

RecoverySpec == RecoveryInit /\ [][RecoveryNext]_recoveryVars

-----------------------------------------------------------------------------
(* Whoever dies when, and whether or not power fails: what the path names,  *)
(* or may come to name, is never a part of a list.                          *)
FileIsWhole == Damaged \in disk => live = Damaged

(* And what cannot be decoded stays as it is: recovery.rs "A caller cannot  *)
(* accidentally replace damaged or unrecognized recipes with the empty      *)
(* workspace used after recovery fails".                                    *)
DamageIsKept == [][live = Damaged <=> live' = Damaged]_recoveryVars
=============================================================================
