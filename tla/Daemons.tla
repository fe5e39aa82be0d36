------------------------------ MODULE Daemons -------------------------------
(***************************************************************************)
(* The lives of the daemons of one workspace: a daemon starts from the     *)
(* recovery file (serve), turns its loop (run), replaces itself by a newly *)
(* installed program (Watch, try_upgrade, receive_upgrade) and stops or    *)
(* dies.  It composes Processes, its shells, with Recovery, its file.      *)
(*                                                                         *)
(* The markers of a transfer are those of Handoff: here a transfer is      *)
(* committed or rejected in one step, which may come at any time.  Windows *)
(* are those of Service: here is what decides whether a change of the tabs *)
(* is saved, which is the catalog that was published last.                 *)
(***************************************************************************)
EXTENDS Processes

CONSTANTS
    Encodable, Absent, Damaged, Fresh, Disabled, Unopened,  \* as in Recovery
    Address,    \* the recipes of browser tabs, among Dir
    Title,      \* what else of a tab its catalog entry shows
    TabLimit,   \* bound: tabs of a daemon
    Inode,      \* identities a program may have
    Work        \* bound: events from outside in a behaviour

VARIABLES
    live, disk, pending, cache,  \* as in Recovery
    pc,         \* per daemon, where it is
    tabs,       \* Service::tabs
    entries,    \* per tab, Tab::catalog and whether it is dirty or pending
    closed,     \* a close is not announced
    published,  \* Service::published; {} before the first
    missed,     \* history: the last save "failed", or was "ahead" of the catalog
    converting, \* pending_replace is not empty
    exe,        \* the program at the daemons' path: inode, there
    loaded, attempted,  \* Watch::loaded, Watch::attempted; 0 for None
    news,       \* Watch::refresh_needed, or events not read
    snap,       \* the pids in the snapshot of the transfer under way
    work        \* events still to come

File == INSTANCE Recovery WITH Process <- Daemon, Nothing <- <<>>

ASSUME DaemonsAssumption ==
    /\ TabLimit \in Nat /\ Work \in Nat
    /\ Inode \subseteq Nat \ {0}
    /\ Address \subseteq Dir /\ Home \notin Address
    /\ Encodable \subseteq Seq(Dir)
    /\ \A v \in {Absent, Damaged, Fresh, Disabled, Unopened} : v \notin Seq(Dir)
    /\ File!RecoveryAssumption

fileVars == <<live, disk, pending, cache>>
catalogVars == <<entries, closed, published, missed, converting>>
watchVars == <<loaded, attempted, news>>
vars == <<processVars, fileVars, pc, tabs, catalogVars, exe, watchVars, snap, work>>

Absentee == {"absent", "gone"}
Receiving == {"receiving", "opened", "staged"}
Donating == {"spawned", "sealed"}
Living == {d \in Daemon : pc[d] \notin Absentee}
Serving(d) == pc[d] \in {"top", "maintain", "saving", "handle", "leaving", "stopped"} \cup Donating
Recipes(d) == [i \in DOMAIN tabs[d] |-> tabs[d][i].dir]

(* The next daemon to be started, if the bound leaves one. *)
NextDaemon == {d \in Daemon : pc[d] = "absent" /\ \A e \in Daemon : e < d => pc[e] # "absent"}

Init ==
    /\ ProcessInit /\ File!RecoveryInit
    /\ pc = [d \in Daemon |-> "absent"]
    /\ tabs = [d \in Daemon |-> <<>>]
    /\ entries = [d \in Daemon |-> <<>>]
    /\ closed = [d \in Daemon |-> FALSE]
    /\ published = [d \in Daemon |-> {}]
    /\ missed = [d \in Daemon |-> "no"]
    /\ converting = [d \in Daemon |-> FALSE]
    /\ exe = [inode |-> CHOOSE i \in Inode : TRUE, there |-> TRUE]
    /\ loaded = [d \in Daemon |-> 0]
    /\ attempted = [d \in Daemon |-> 0]
    /\ news = [d \in Daemon |-> FALSE]
    /\ snap = <<>>
    /\ work = Work

Goes(d, to) == pc' = [pc EXCEPT ![d] = to]

(* Nothing is left of the memory of daemons D. *)
Forgets(D) ==
    LET cleared(f, v) == [d \in Daemon |-> IF d \in D THEN v ELSE f[d]]
    IN /\ tabs' = cleared(tabs, <<>>) /\ entries' = cleared(entries, <<>>)
       /\ closed' = cleared(closed, FALSE) /\ published' = cleared(published, {})
       /\ missed' = cleared(missed, "no") /\ converting' = cleared(converting, FALSE)
       /\ loaded' = cleared(loaded, 0) /\ attempted' = cleared(attempted, 0)
       /\ news' = cleared(news, FALSE)

(* Watch::new, at the start of run. *)
Runs(d, inode) ==
    /\ loaded' = [loaded EXCEPT ![d] = inode]
    /\ news' = [news EXCEPT ![d] = TRUE]

-----------------------------------------------------------------------------
(* The catalog. *)

(* Tab::record *)
NoEntry == [text |-> {}, dirty |-> TRUE]
Shows(tab, title) == {<<tab.dir, title>>}
Current(entry, tab) == \E title \in Title : entry.text = Shows(tab, title)

(* Mutant: a terminal that holds its screen loses its mark. *)
MetadataClearing(entry, tab) ==
    IF ~entry.dirty THEN {entry}
    ELSE {[text |-> Shows(tab, title), dirty |-> FALSE] : title \in Title}
         \cup (IF entry.text = {} THEN {} ELSE {[entry EXCEPT !.dirty = FALSE]})

(* Tab::metadata leaves the entry if nothing marked it, and may leave a      *)
(* marked one whose terminal holds its screen back, which it can at any time.*)
Metadata(entry, tab) ==
    IF ~entry.dirty THEN {entry}
    ELSE {[text |-> Shows(tab, title), dirty |-> FALSE] : title \in Title}
         \cup (IF entry.text = {} \/ tab.dir \in Address THEN {} ELSE {entry})
Refreshed(es, ts) ==
    {now \in [DOMAIN ts -> UNION {Metadata(es[i], ts[i]) : i \in DOMAIN ts}] :
        \A i \in DOMAIN ts : now[i] \in Metadata(es[i], ts[i])}
Catalog(es) == [i \in DOMAIN es |-> es[i].text]

(* publish saves only if the catalog is not the one published before; es     *)
(* are the entries of the tabs ts.                                           *)
Publish(d, es, ts) ==
    \E now \in Refreshed(es, ts) :
        /\ entries' = [entries EXCEPT ![d] = now]
        /\ IF ~closed[d] /\ published[d] = {Catalog(now)}
           THEN Goes(d, "handle") /\ UNCHANGED <<closed, published>>
           ELSE /\ Goes(d, "saving")
                /\ closed' = [closed EXCEPT ![d] = FALSE]
                /\ published' = [published EXCEPT ![d] = {Catalog(now)}]

(* The entries of tabs whose directory is looked at: those that moved are    *)
(* marked.                                                                   *)
Marked(es, ts, now) ==
    [i \in DOMAIN ts |-> [es[i] EXCEPT !.dirty = @ \/ now[i].dir # ts[i].dir]]

-----------------------------------------------------------------------------
(* serve: a daemon that finds the socket free restores every recipe, each   *)
(* as a shell or as a tab without a process.                                *)
Start(d, ok) ==
    /\ Living = {} /\ d \in NextDaemon /\ exe.there
    /\ File!Open(d, ok)
    /\ LET list == IF File!Opened(ok) \in Encodable THEN live ELSE <<>>
       IN \E procs \in [DOMAIN list -> {0} \cup Shell], pids \in [DOMAIN list -> {0} \cup Pid] :
            /\ MaySpawn(procs, pids) /\ \A i \in DOMAIN list : list[i] \in Address => procs[i] = 0
            /\ shells' = Spawned(d, procs, pids)
            /\ tabs' = [tabs EXCEPT ![d] = [i \in DOMAIN list |-> Owned(procs[i], list[i])]]
            /\ entries' = [entries EXCEPT ![d] = [i \in DOMAIN list |-> NoEntry]]
    /\ Goes(d, "top") /\ Runs(d, exe.inode)
    /\ UNCHANGED <<stranger, reaper, closed, published, missed, converting, attempted, exe, snap>>

-----------------------------------------------------------------------------
(* try_upgrade and Watch::replacement. *)

NewsForgotten(d) == news' = [news EXCEPT ![d] = FALSE]
NewsRead(d) == news' = [news EXCEPT ![d] = converting[d] /\ @]

Due(d) ==
    /\ news[d] /\ ~converting[d]
    /\ exe.there /\ exe.inode \notin {loaded[d], attempted[d]}

NoUpgrade(d) ==
    /\ pc[d] = "top" /\ ~Due(d)
    /\ NewsRead(d) /\ Goes(d, "maintain")
    /\ UNCHANGED <<processVars, fileVars, tabs, catalogVars, exe, loaded, attempted, snap>>

(* ReceiverChild::spawn, which may fail. *)
Upgrade(d) ==
    /\ pc[d] = "top" /\ Due(d)
    /\ NewsRead(d)
    /\ attempted' = [attempted EXCEPT ![d] = exe.inode]
    /\ \/ \E r \in NextDaemon :
            /\ pc' = [pc EXCEPT ![d] = "spawned", ![r] = "receiving"]
            /\ loaded' = [loaded EXCEPT ![r] = exe.inode]
       \/ Goes(d, "maintain") /\ UNCHANGED loaded
    /\ UNCHANGED <<processVars, fileVars, tabs, catalogVars, exe, snap>>

(* receive_upgrade opens the file, whose recipes it ignores. *)
ReceiverOpens(r, ok) ==
    /\ pc[r] = "receiving" /\ Goes(r, "opened")
    /\ File!Open(r, ok)
    /\ UNCHANGED <<processVars, tabs, catalogVars, exe, watchVars, snap>>

(* encode_tab samples the pid of each shell, which waits for those that     *)
(* have exited.                                                             *)
Seal(d) ==
    /\ pc[d] = "spawned" /\ Goes(d, "sealed")
    /\ snap' = [i \in DOMAIN tabs[d] |-> LivePid(tabs[d][i])]
    /\ shells' = Waited(Polled(tabs[d]))
    /\ UNCHANGED <<stranger, reaper, fileVars, tabs, catalogVars, exe, watchVars>>

(* The receiver stages the tabs: prepare opens each pid it was sent. *)
Stage(d, r) == [i \in DOMAIN tabs[d] |-> Adopted(tabs[d][i], snap[i])]

Pin(d, r) ==
    /\ pc[d] = "sealed" /\ pc[r] = "opened" /\ Goes(r, "staged")
    /\ tabs' = [tabs EXCEPT ![r] = Stage(d, r)]
    /\ entries' = [entries EXCEPT ![r] = [i \in DOMAIN tabs[d] |-> NoEntry]]
    /\ UNCHANGED <<processVars, fileVars, closed, published, missed, converting, exe, watchVars,
                   snap>>

(* The donor disowns and returns from run; the receiver runs. *)
HandedOverSaving(d, r) == pc' = [pc EXCEPT ![d] = "leaving", ![r] = "top"]
HandedOver(d, r) == pc' = [pc EXCEPT ![d] = "retired", ![r] = "top"]

Commit(d, r) ==
    /\ pc[d] = "sealed" /\ pc[r] = "staged"
    /\ Stop(d, tabs[d])
    /\ tabs' = [tabs EXCEPT ![d] = <<>>]
    /\ entries' = [entries EXCEPT ![d] = <<>>]
    /\ HandedOver(d, r)
    /\ Runs(r, loaded[r])
    /\ snap' = <<>>
    /\ UNCHANGED <<stranger, fileVars, closed, published, missed, converting, exe, attempted>>

(* send fails for any reason: the receiver is killed and waited for. *)
Rejected(r) == Forgets({r}) /\ File!Leave(r)

Reject(d, r) ==
    /\ pc[d] \in Donating /\ pc[r] \in Receiving
    /\ pc' = [pc EXCEPT ![d] = "maintain", ![r] = "gone"] /\ snap' = <<>>
    /\ Rejected(r)
    /\ UNCHANGED <<processVars, exe>>

(* The same after the receiver has ended by itself. *)
ReceiverLost(d) ==
    /\ pc[d] \in Donating /\ \A r \in Daemon : pc[r] \notin Receiving
    /\ Goes(d, "maintain") /\ snap' = <<>>
    /\ UNCHANGED <<processVars, fileVars, tabs, catalogVars, exe, watchVars>>

(* A receiver whose donor died, or that lost its patience. *)
GivesUp(r) ==
    /\ pc[r] \in Receiving /\ Goes(r, "gone") /\ Rejected(r)
    /\ UNCHANGED <<processVars, exe, snap>>

-----------------------------------------------------------------------------
(* maintain: reap; look at the directories when they are due; publish if a  *)
(* close is to be announced, an entry is marked or nothing was published.   *)

(* refresh_directory: the cwd of a shell that lives, Home of another        *)
(* terminal, and nothing new of a browser.                                  *)
Looks(tab) ==
    IF tab.dir \in Address THEN {tab.dir}
    ELSE IF LivePid(tab) # 0 THEN Dir \ Address ELSE {Home}
Seen(d, f) == [i \in DOMAIN tabs[d] |-> [tabs[d][i] EXCEPT !.dir = f[i]]]

(* es, ts: the tabs after the look. *)
PublishIfDue(d, es, ts) ==
    IF closed[d] \/ (\E i \in DOMAIN es : es[i].dirty) \/ published[d] = {}
    THEN Publish(d, es, ts)
    ELSE entries' = [entries EXCEPT ![d] = es] /\ Goes(d, "handle") /\ UNCHANGED <<closed, published>>

Maintain(d) ==
    /\ pc[d] = "maintain"
    /\ Reap(d, {})
    /\ PublishIfDue(d, entries[d], tabs[d])
    /\ UNCHANGED <<stranger, fileVars, tabs, missed, converting, exe, watchVars, snap>>

MaintainDue(d) ==
    /\ pc[d] = "maintain"
    /\ shells' = Waited(reaper[d] \cup Polled(tabs[d]))
    /\ reaper' = [reaper EXCEPT ![d] = {s \in @ : shells[s].state = "running"}]
    /\ \E f \in {g \in [DOMAIN tabs[d] -> Dir] : \A i \in DOMAIN g : g[i] \in Looks(tabs[d][i])} :
         /\ tabs' = [tabs EXCEPT ![d] = Seen(d, f)]
         /\ PublishIfDue(d, Marked(entries[d], tabs[d], Seen(d, f)), Seen(d, f))
    /\ UNCHANGED <<stranger, fileVars, missed, converting, exe, watchVars, snap>>

-----------------------------------------------------------------------------
(* save, from publish and at the end of run. *)

(* It takes the directory of every tab, also of one whose entry is older.   *)
Ahead(d) == \E i \in DOMAIN tabs[d] : ~Current(entries[d][i], tabs[d][i])

Saved(d, well) ==
    /\ missed' = [missed EXCEPT ![d] =
                    IF ~well THEN "failed" ELSE IF Ahead(d) THEN "ahead" ELSE "no"]
    /\ Goes(d, IF pc[d] = "saving" THEN "handle" ELSE "stopped")
    /\ UNCHANGED <<processVars, tabs, entries, closed, published, converting, exe, watchVars, snap>>

SaveStep(d) ==
    /\ pc[d] \in {"saving", "leaving"}
    /\ File!Create(d, Recipes(d)) \/ File!Write(d) \/ File!Sync(d) \/ File!Rename(d)
    /\ UNCHANGED <<processVars, pc, tabs, catalogVars, exe, watchVars, snap>>

SaveSkipped(d) ==
    /\ pc[d] \in {"saving", "leaving"} /\ pending[d].stage = "none"
    /\ File!Skips(d, Recipes(d))
    /\ Saved(d, TRUE)
    /\ UNCHANGED fileVars

SaveDone(d) ==
    /\ pc[d] \in {"saving", "leaving"} /\ File!Finish(d)
    /\ Saved(d, TRUE)

(* An error, before there is a temporary file or after; it is only logged. *)
SaveFails(d) ==
    /\ pc[d] \in {"saving", "leaving"}
    /\ \/ /\ pending[d].stage = "none" /\ ~File!Skips(d, Recipes(d))
          /\ UNCHANGED fileVars
       \/ File!Fail(d)
    /\ Saved(d, FALSE)

-----------------------------------------------------------------------------
(* The events of a turn. *)

Handling(d) == pc[d] = "handle" /\ UNCHANGED <<fileVars, exe, watchVars, snap>>

(* NEW and BROWSER, which publish at once. *)
OpenTab(d) ==
    /\ Handling(d) /\ Len(tabs[d]) < TabLimit
    /\ \E s \in {0} \cup Shell, pid \in {0} \cup Pid, dir \in Dir :
         /\ MaySpawn(<<s>>, <<pid>>) /\ (dir \in Address => s = 0)
         /\ shells' = Spawned(d, <<s>>, <<pid>>)
         /\ tabs' = [tabs EXCEPT ![d] = Append(@, Owned(s, dir))]
         /\ Publish(d, Append(entries[d], NoEntry), Append(tabs[d], Owned(s, dir)))
    /\ UNCHANGED <<stranger, reaper, missed, converting>>

(* HELLO that takes over a restored tab publishes too (the send_catalog that *)
(* follows is Attach), and NAVIGATE.                                        *)
Navigated(ts, i, dir) == [ts EXCEPT ![i].dir = dir]
Navigate(d) ==
    /\ Handling(d)
    /\ \/ UNCHANGED tabs /\ Publish(d, entries[d], tabs[d])
       \/ \E i \in DOMAIN tabs[d], dir \in Address :
            /\ tabs[d][i].dir \in Address
            /\ tabs' = [tabs EXCEPT ![d] = Navigated(@, i, dir)]
            /\ Publish(d, [entries[d] EXCEPT ![i].dirty = TRUE], Navigated(tabs[d], i, dir))
    /\ UNCHANGED <<processVars, missed, converting>>

(* A tab is closed, by a window or because its terminal ended, and with it  *)
(* its conversion. *)
Without(seq, i) == SubSeq(seq, 1, i - 1) \o SubSeq(seq, i + 1, Len(seq))

CloseTab(d) ==
    /\ Handling(d)
    /\ \E i \in DOMAIN tabs[d] :
         /\ Stop(d, <<tabs[d][i]>>)
         /\ tabs' = [tabs EXCEPT ![d] = Without(@, i)]
         /\ entries' = [entries EXCEPT ![d] = Without(@, i)]
    /\ closed' = [closed EXCEPT ![d] = TRUE]
    /\ \E still \in {FALSE, converting[d] /\ Len(tabs[d]) > 1} :
         converting' = [converting EXCEPT ![d] = still]
    /\ UNCHANGED <<stranger, pc, published, missed>>

(* Output of one terminal, which may change its title and move its directory. *)
Output(d) ==
    /\ Handling(d)
    /\ \E i \in DOMAIN tabs[d] : \E dir \in Looks(tabs[d][i]) :
         /\ tabs' = [tabs EXCEPT ![d][i].dir = dir]
         /\ \E dirty \in {TRUE, entries[d][i].dirty \/ dir # tabs[d][i].dir} :
              entries' = [entries EXCEPT ![d][i].dirty = dirty]
         /\ shells' = Waited(Polled(<<tabs[d][i]>>))
    /\ UNCHANGED <<stranger, reaper, pc, closed, published, missed, converting>>

(* send_catalog refreshes the entries and tells nobody else: see            *)
(* Service!RecoveryFollowsTabs.                                             *)
Attach(d) ==
    /\ Handling(d)
    /\ \E now \in Refreshed(entries[d], tabs[d]) : entries' = [entries EXCEPT ![d] = now]
    /\ UNCHANGED <<processVars, pc, tabs, closed, published, missed, converting>>

(* The command in a shell asks for a conversion, or ends before it is        *)
(* acknowledged.                                                            *)
Replace(d) ==
    /\ Handling(d) /\ \E i \in DOMAIN tabs[d] : tabs[d][i].dir \notin Address
    /\ converting' = [converting EXCEPT ![d] = ~@]
    /\ UNCHANGED <<processVars, pc, tabs, entries, closed, published, missed>>

(* finish_replacement, after the acknowledgement; others may be waiting.     *)
Convert(d) ==
    /\ Handling(d) /\ converting[d]
    /\ \E i \in DOMAIN tabs[d], dir \in Address :
         /\ tabs[d][i].dir \notin Address
         /\ Stop(d, <<tabs[d][i]>>)
         /\ tabs' = [tabs EXCEPT ![d][i] = Owned(0, dir)]
         /\ entries' = [entries EXCEPT ![d][i].dirty = TRUE]
    /\ \E still \in {FALSE, Len(tabs[d]) > 1} : converting' = [converting EXCEPT ![d] = still]
    /\ UNCHANGED <<stranger, pc, closed, published, missed>>

(* SIGCHLD. *)
ChildSignal(d) ==
    /\ Handling(d) /\ Reap(d, {})
    /\ UNCHANGED <<stranger, pc, tabs, catalogVars>>

TurnEnds(d) ==
    /\ Handling(d) /\ Goes(d, "top")
    /\ UNCHANGED <<processVars, tabs, catalogVars>>

(* A stop request or signal: the loop is left, and run saves. *)
StopAsked(d) ==
    /\ Handling(d) /\ Goes(d, "leaving")
    /\ UNCHANGED <<processVars, tabs, catalogVars>>

-----------------------------------------------------------------------------
(* run is left: after a transfer, or after the last save. *)
Ends(d) ==
    /\ shells' = Orphaned(d)
    /\ reaper' = [reaper EXCEPT ![d] = {}]
    /\ Goes(d, "gone") /\ Forgets({d}) /\ File!Leave(d)
    /\ snap' = IF pc[d] = "sealed" THEN <<>> ELSE snap
    /\ UNCHANGED <<stranger, exe>>

Retires(d) == pc[d] \in {"retired", "stopped"} /\ Ends(d)

(* A daemon dies at any point, or leaves run with an error. *)
Crash(d) == Serving(d) /\ Ends(d)

PowerLoss ==
    /\ Living # {}
    /\ File!PowerFails
    /\ pc' = [d \in Daemon |-> IF pc[d] = "absent" THEN "absent" ELSE "gone"]
    /\ Forgets(Daemon) /\ snap' = <<>>
    /\ shells' = Gone(shells, {s \in Shell : Exists(s)})
    /\ reaper' = [d \in Daemon |-> {}]
    /\ stranger' = 0
    /\ UNCHANGED exe

ShellEnds(s) ==
    /\ ShellExits(s, Living)
    /\ UNCHANGED <<fileVars, pc, tabs, catalogVars, exe, watchVars, snap>>

PidTaken ==
    /\ PidReused
    /\ UNCHANGED <<fileVars, pc, tabs, catalogVars, exe, watchVars, snap>>

(* A program is put in place, by a rename or in a place left empty.  The    *)
(* inode is one that no program in use has.                                 *)
Install ==
    /\ \E i \in Inode \ ({loaded[d] : d \in Living} \cup (IF exe.there THEN {exe.inode} ELSE {})) :
         exe' = [inode |-> i, there |-> TRUE]
    /\ news' = [d \in Daemon |-> news[d] \/ d \in Living]
    /\ UNCHANGED <<processVars, fileVars, pc, tabs, catalogVars, loaded, attempted, snap>>

(* Its removal is not an event of the watch. *)
Uninstall ==
    /\ exe.there /\ exe' = [exe EXCEPT !.there = FALSE]
    /\ UNCHANGED <<processVars, fileVars, pc, tabs, catalogVars, watchVars, snap>>

-----------------------------------------------------------------------------
Turn(d) ==
    \/ NoUpgrade(d) \/ Upgrade(d) \/ Maintain(d) \/ TurnEnds(d)
    \/ SaveStep(d) \/ SaveSkipped(d) \/ SaveDone(d)
    \/ Seal(d) \/ ReceiverLost(d) \/ Retires(d)
    \/ \E ok \in BOOLEAN : ReceiverOpens(d, ok)
    \/ \E r \in Daemon : Pin(d, r) \/ Commit(d, r)

Event(d) ==
    \/ OpenTab(d) \/ Navigate(d) \/ CloseTab(d) \/ Output(d) \/ Attach(d) \/ Replace(d)
    \/ ChildSignal(d) \/ StopAsked(d) \/ SaveFails(d)
    \/ \E r \in Daemon : Reject(d, r)

World ==
    \/ PowerLoss \/ Install \/ Uninstall
    \/ \E s \in Shell : ShellEnds(s)
    \/ \E d \in Daemon : Crash(d) \/ GivesUp(d)

Happens ==
    /\ work > 0 /\ work' = work - 1
    /\ World \/ \E d \in Daemon : Event(d)

Begins == UNCHANGED work /\ \E d \in Daemon, ok \in BOOLEAN : Start(d, ok)

Progress == UNCHANGED work /\ \E d \in Daemon : Turn(d) \/ MaintainDue(d)

(* What may follow an event at any time, or never: the kernel hands out a    *)
(* freed pid, and the requester of a conversion takes its acknowledgement.  *)
Consequence == UNCHANGED work /\ (PidTaken \/ \E d \in Daemon : Convert(d))

Next == Begins \/ Happens \/ Consequence \/ Progress

Spec == Init /\ [][Next]_vars

(* The loop of a daemon turns: poll has a deadline, and each wait of a      *)
(* transfer a timeout.                                                      *)
FairSpec == Spec /\ WF_vars(Progress)

-----------------------------------------------------------------------------
(* A save leaves a file that is whole, across crashes and losses of power   *)
(* at any call and through changes of daemon.                               *)
FileIsWhole == Damaged \in disk => live = Damaged

(* A file that cannot be decoded stays as it is, and no other comes to be   *)
(* such: recovery.rs "A caller cannot accidentally replace damaged or       *)
(* unrecognized recipes with the empty workspace".                          *)
DamageIsKept == [][live = Damaged <=> live' = Damaged]_vars

(* While a daemon serves with nothing to publish, its catalog being the one *)
(* it published, and once it has stopped, the file restores its tabs: what   *)
(* its cache says was saved is what the path names, though two daemons hold  *)
(* a Recovery during an upgrade, and though publish decides by the catalog   *)
(* and save writes directories.  Excepted: a daemon whose read failed, one   *)
(* whose last save failed, and one whose last save was ahead of the catalog. *)
Announced(d) ==
    /\ pc[d] \notin {"saving", "leaving"}
    /\ ~closed[d] /\ \A i \in DOMAIN entries[d] : ~entries[d][i].dirty
    /\ published[d] = {Catalog(entries[d])}
Restores(d) == live = Recipes(d) \/ (live = Absent /\ tabs[d] = <<>>)
FileFollowsTabs ==
    \A d \in Daemon :
        (/\ Serving(d) /\ cache[d] # Disabled
         /\ \/ Announced(d) /\ missed[d] = "no"
            \/ pc[d] = "stopped" /\ missed[d] # "failed")
        => Restores(d)

(* process.rs "A transferred process is not a child. Never signal its       *)
(* numeric PID after identity reuse": a hang-up reaches the shell of its    *)
(* tab or nobody, though waits, exits and transfers race the reuse of pids. *)
(* Excepted: a tab transferred again, whose donor was not the parent either *)
(* and could not keep the pid from being reused before it was pinned.       *)
HangUpsReachTheShell ==
    \A d \in Daemon : Serving(d) =>
        \A i \in DOMAIN tabs[d] :
            tabs[d][i].moves < 2 => Heard(tabs[d][i]) \subseteq {tabs[d][i].shell}

(* A program that stays in place is tried by a daemon that does not run it, *)
(* even if it came while conversions were pending.                          *)
Outdated(d) == Serving(d) /\ exe.there /\ exe.inode \notin {loaded[d], attempted[d]}
ReplacementIsTried ==
    (\E d \in Daemon : Outdated(d)) ~> (\A d \in Daemon : Outdated(d) => converting[d])
=============================================================================
