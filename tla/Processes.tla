----------------------------- MODULE Processes ------------------------------
(***************************************************************************)
(* The shells of a workspace as processes: numeric pids that the kernel    *)
(* hands out again, children that must be waited for, and the authority to *)
(* signal a shell, which a daemon holds as an unreaped child or as a pidfd *)
(* (Identity, PinnedProcess and ChildReaper of daemon/process.rs).         *)
(*                                                                         *)
(* A tab is [shell, dir, moves, pin]: its shell process or 0, the directory*)
(* it was last seen in, how often it was transferred, and the processes    *)
(* its pidfd refers to (at most one).  moves = 0 is Identity::Local.       *)
(***************************************************************************)
EXTENDS Integers, Sequences, FiniteSets

CONSTANTS
    Daemon,     \* the daemons that may ever run, in the order of their start
    ShellLimit, \* bound: shells started in a behaviour
    PidLimit,   \* numeric pids
    Dir,        \* directories of shells
    Home        \* the recipe of a tab whose directory is not known

ASSUME ProcessesAssumption ==
    /\ Daemon \subseteq Nat \ {0} /\ ShellLimit \in Nat /\ PidLimit \in Nat
    /\ Home \in Dir

Shell == 1..ShellLimit
Pid == 1..PidLimit
Stranger == -1      \* any process that is not a shell of this workspace

VARIABLES
    shells,     \* shell -> [state, pid, parent]
    stranger,   \* the pid of a stranger that took a freed pid, 0 before
    reaper      \* per daemon, ChildReaper

processVars == <<shells, stranger, reaper>>

Unborn == [state |-> "unborn", pid |-> 0, parent |-> 0]

ProcessInit ==
    /\ shells = [s \in Shell |-> Unborn]
    /\ stranger = 0
    /\ reaper = [d \in Daemon |-> {}]

-----------------------------------------------------------------------------
(* The kernel. *)

Exists(s) == shells[s].state \in {"running", "zombie"}
Running(x) == x = Stranger \/ shells[x].state = "running"
UsedPids == {shells[s].pid : s \in {t \in Shell : Exists(t)}} \cup {stranger}

(* The process that a numeric pid names at this moment. *)
Named(pid) ==
    {s \in Shell : Exists(s) /\ shells[s].pid = pid}
    \cup (IF stranger = pid /\ pid # 0 THEN {Stranger} ELSE {})

Gone(table, S) == [s \in Shell |-> IF s \in S THEN [table[s] EXCEPT !.state = "gone"] ELSE table[s]]

(* waitpid(WNOHANG) by their parent on each of S. *)
Waited(S) == Gone(shells, {s \in S : shells[s].state = "zombie"})

(* A shell exits.  If the daemon that started it lives it waits to be       *)
(* reaped; if not, init reaps it.                                           *)
ShellExits(s, alive) ==
    /\ shells[s].state = "running"
    /\ shells' = [shells EXCEPT ![s].state =
                    IF shells[s].parent \in alive THEN "zombie" ELSE "gone"]
    /\ UNCHANGED <<stranger, reaper>>

(* Some other process gets a pid that a shell had. *)
PidReused ==
    /\ stranger = 0
    /\ stranger' \in {shells[s].pid : s \in Shell} \ (UsedPids \cup {0})
    /\ UNCHANGED <<shells, reaper>>

(* What is left when daemon d ends: init reaps its zombies. *)
Orphaned(d) ==
    Gone(shells, {s \in Shell : shells[s].state = "zombie" /\ shells[s].parent = d})

-----------------------------------------------------------------------------
(* Pty and ChildReaper. *)

Owned(shell, dir) == [shell |-> shell, dir |-> dir, moves |-> 0, pin |-> {}]
Local(tab) == tab.moves = 0 /\ tab.shell # 0

(* Pty::spawn for new tabs: tab i has the shell procs[i] with pid pids[i].   *)
(* A serial line, a failed exec and a browser have no process, which is 0.  *)
(* Shells are numbered in the order of their start.                         *)
MaySpawn(procs, pids) ==
    LET started == {procs[i] : i \in DOMAIN procs} \ {0}
    IN /\ \A i \in DOMAIN procs :
            /\ procs[i] = 0 <=> pids[i] = 0
            /\ procs[i] # 0 => /\ shells[procs[i]].state = "unborn"
                              /\ pids[i] \notin UsedPids
       /\ \A i, j \in DOMAIN procs :
            procs[i] # 0 /\ i # j => procs[i] # procs[j] /\ pids[i] # pids[j]
       /\ \A s \in started, t \in Shell :
            t < s => shells[t].state # "unborn" \/ t \in started

Spawned(d, procs, pids) ==
    [s \in Shell |->
        IF \E i \in DOMAIN procs : procs[i] = s
        THEN [state |-> "running", parent |-> d,
              pid |-> pids[CHOOSE i \in DOMAIN procs : procs[i] = s]]
        ELSE shells[s]]

(* Pty::live_pid. *)
LivePid(tab) ==
    IF Local(tab) THEN IF shells[tab.shell].state = "running" THEN shells[tab.shell].pid ELSE 0
    ELSE LET alive == {x \in tab.pin : Running(x)}
         IN IF alive = {} THEN 0
            ELSE IF Stranger \in alive THEN stranger ELSE shells[CHOOSE x \in alive : TRUE].pid

(* The children that it waits for on the way. *)
Polled(tabs) == {tabs[i].shell : i \in {j \in DOMAIN tabs : Local(tabs[j])}}

(* PinnedProcess::prepare and PreparedPty::commit. *)
Adopted(tab, pid) == [tab EXCEPT !.moves = @ + 1, !.pin = Named(pid)]

(* The processes that Pty::stop would send SIGHUP to, now. *)
HeardWithoutWait(tab) ==
    IF Local(tab) THEN Named(shells[tab.shell].pid) ELSE {x \in tab.pin : Running(x)}
Heard(tab) ==
    IF Local(tab)
    THEN IF shells[tab.shell].state = "running" THEN Named(shells[tab.shell].pid) ELSE {}
    ELSE {x \in tab.pin : Running(x)}

(* ChildReaper::retain of S and reap: the children still running stay. *)
Reap(d, S) ==
    /\ shells' = Waited(reaper[d] \cup S)
    /\ reaper' = [reaper EXCEPT ![d] = {s \in @ \cup S : shells[s].state = "running"}]

(* Pty::stop of these tabs, and Pty::disown. *)
Stop(d, tabs) == Reap(d, Polled(tabs))
=============================================================================
