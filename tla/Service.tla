------------------------------- MODULE Service -------------------------------
(***************************************************************************)
(* The workspace service of worminald: the single-threaded loop of         *)
(* service.rs that owns the connected windows (clients) and the ordered    *)
(* tabs, with the message handlers of commands.rs, the readiness handlers  *)
(* of service_io.rs and the tab catalog of state.rs.                       *)
(*                                                                         *)
(* One turn of the loop is Maintain (reap, refresh, close ended tabs,      *)
(* publish, then poll) followed by the ready sources in the order in which *)
(* wait() listed them: the listener, the handoff listener, the clients by  *)
(* id, the terminals by tab.  "polled" holds the sources of this turn that *)
(* may still be dispatched.                                                *)
(*                                                                         *)
(* Abstracted: a client's output queue is empty or not, and an append to   *)
(* it may overflow (the byte level is module ByteQueue); directory, title, *)
(* modes, cursor and palette of a tab are one "label"; a frame is a packet *)
(* that send_frame may queue for the tab's controller; the transaction     *)
(* inside a handoff or an upgrade is module Handoff.                       *)
(***************************************************************************)
EXTENDS Integers, Sequences, FiniteSets, SequencesExt

CONSTANTS
    ClientLimit,    \* client ids of one daemon process are 1..ClientLimit
    TabLimit,       \* tab ids are 1..TabLimit
    Url,            \* browser addresses
    Label,          \* values of a terminal's catalogued metadata
    Blank,          \* no URL; the cleared metadata of a browser tab
    SyncUpdates,    \* do programs hold redrawing (synchronized updates)?
    DiskFaults      \* may saving the recovery file fail?

ASSUME ServiceAssumption ==
    /\ ClientLimit \in Nat \ {0}
    /\ TabLimit \in Nat \ {0}
    /\ Blank \notin Url
    /\ Blank \notin Label
    /\ SyncUpdates \in BOOLEAN
    /\ DiskFaults \in BOOLEAN

VARIABLES
    status,      \* "up", or how the process ended
    peers,       \* Service.clients: id -> [ready, queued]
    nextClient,  \* Service.next_client
    tabs,        \* Service.tabs, in catalog order
    nextId,      \* Service.next_id
    replacing,   \* Service.pending_replace: client -> [tab, url]
    closed,      \* Service.closed, 0 when no close is unannounced
    fallback,    \* Service.fallback
    restored,    \* Service.restored_launch
    handin,      \* Service.handin.is_some()
    published,   \* Service.published: {} or the one catalog last broadcast
    saved,       \* the recipes in the recovery file
    polled       \* sources of this turn not yet passed over

vars == <<status, peers, nextClient, tabs, nextId, replacing, closed, fallback,
          restored, handin, published, saved, polled>>

ClientId == 1..ClientLimit
TabId == 1..TabLimit
NoClient == 0
NoTab == 0

Peer == [ready : BOOLEAN, queued : BOOLEAN]     \* queued: output not empty
Replacement == [tab : TabId, url : Url]
Entry == [id : TabId, url : Url \cup {Blank}, label : Label \cup {Blank}]

(* A cached value is the empty set or the set of that one value. *)
Cached(S) == {{}} \cup {{x} : x \in S}

Tab == [id : TabId, url : Url \cup {Blank}, label : Label \cup {Blank},
        pty : {"none", "open", "stopped"},      \* "none": a browser tab
        controller : ClientId \cup {NoClient},
        printer : ClientId \cup {NoClient},     \* print_client
        held : BOOLEAN,                         \* redraw_deadline # 0
        dirty : BOOLEAN,                        \* catalog_dirty
        gated : BOOLEAN,                        \* catalog_pending
        entry : Cached(Entry)]                  \* the cached catalog bytes

Recipe == [url : Url \cup {Blank}, label : Label \cup {Blank}]

Record(id, url, label, pty, client) ==
    [id |-> id, url |-> url, label |-> label, pty |-> pty,
     controller |-> client, printer |-> NoClient, held |-> FALSE,
     dirty |-> TRUE, gated |-> FALSE, entry |-> {}]

Shell(id, label, client) == Record(id, Blank, label, "open", client)
Browser(id, url) == Record(id, url, Blank, "none", NoClient)

IsTerminal(t) == t.pty # "none"
Ids(ts) == {ts[i].id : i \in DOMAIN ts}
Controllers(ts) == {ts[i].controller : i \in DOMAIN ts} \ {NoClient}
Ready(ps) == {c \in DOMAIN ps : ps[c].ready}
Recipes(ts) == [i \in DOMAIN ts |-> [url |-> ts[i].url, label |-> ts[i].label]]

Without(f, S) == [x \in DOMAIN f \ S |-> f[x]]

-----------------------------------------------------------------------------
(* Sources in the order wait() lists them. *)
Listener == 0
HandinSource == 1
WriteSource(c) == 2 * c
ReadSource(c) == 2 * c + 1
TerminalSource(id) == 2 * ClientLimit + 1 + id

Sources(ps, ts, h) ==
    {Listener}
    \cup (IF h THEN {HandinSource} ELSE {})
    \cup {ReadSource(c) : c \in DOMAIN ps}
    \cup {WriteSource(c) : c \in {d \in DOMAIN ps : ps[d].queued}}
    \cup {TerminalSource(ts[i].id) : i \in {j \in DOMAIN ts : ts[j].pty = "open"}}

(* Readiness of source s is handled; the sources before s were not ready.  *)
(* One readiness may carry several packets, or several connections.        *)
Dispatch(s) ==
    /\ status = "up"
    /\ s \in polled
    /\ polled' = {q \in polled : q >= s}

DispatchOnce(s) ==
    /\ status = "up"
    /\ s \in polled
    /\ polled' = {q \in polled : q > s}

-----------------------------------------------------------------------------
(* Steps the handlers share. *)

(* drop_client, seen from one tab: release and forget the printer.          *)
Forget(t, gone) ==
    [t EXCEPT !.controller = IF @ \in gone THEN NoClient ELSE @,
              !.printer = IF @ \in gone THEN NoClient ELSE @]

(* A handler ends with tabs ts, clients ps and replacements rp after        *)
(* queueing a packet for every client of must and perhaps one for clients   *)
(* of may; the clients whose queue overflowed (full) are dropped.           *)
Deliver(ts, ps, rp, must, may) ==
    \E told \in {must \cup some : some \in SUBSET may} :
        \E full \in SUBSET told :
            /\ peers' = [c \in DOMAIN ps \ full |->
                            [ps[c] EXCEPT !.queued = @ \/ c \in told]]
            /\ tabs' = [i \in DOMAIN ts |-> Forget(ts[i], full)]
            /\ replacing' = Without(rp, full)

DropKeepingControl(c) ==
    /\ peers' = Without(peers, {c})
    /\ UNCHANGED tabs
    /\ replacing' = Without(replacing, {c})

DropClient(c) ==
    /\ peers' = Without(peers, {c})
    /\ tabs' = [i \in DOMAIN tabs |-> Forget(tabs[i], {c})]
    /\ replacing' = Without(replacing, {c})

(* take_control: the previous controller is told to release. *)
TakeControl(ts, i, c) == [ts EXCEPT ![i].controller = c]
Ousted(ts, i, c) == {ts[i].controller} \ {c, NoClient}

EntryOf(t) == [id |-> t.id, url |-> t.url, label |-> t.label]

(* Tab::metadata: rebuild the cached entry unless it is current or gated by *)
(* a held frame.                                                            *)
Metadata(t) ==
    IF ~t.dirty /\ ~t.gated /\ t.entry # {} THEN t
    ELSE IF t.held /\ t.entry # {} THEN [t EXCEPT !.gated = TRUE]
    ELSE [t EXCEPT !.entry = {EntryOf(t)}, !.gated = FALSE, !.dirty = FALSE]

Catalogued(ts) == [i \in DOMAIN ts |-> Metadata(ts[i])]
Catalog(ts) == [i \in DOMAIN ts |-> ts[i].entry]

(* Service::save; a failed write leaves the previous file. *)
Save(ts) == saved' \in {Recipes(ts)} \cup (IF DiskFaults THEN {saved} ELSE {})

(* Service::publish on tabs ts with an unannounced close cl, fb. *)
Publish(ts, ps, rp, cl, fb, must) ==
    LET now == Catalogued(ts) IN
    IF cl = NoTab /\ published = {Catalog(now)}
    THEN /\ Deliver(now, ps, rp, must, Controllers(now))
         /\ closed' = cl /\ fallback' = fb
         /\ UNCHANGED <<published, saved>>
    ELSE /\ Deliver(now, ps, rp, must \cup Ready(ps), Controllers(now))
         /\ published' = {Catalog(now)}
         /\ closed' = NoTab /\ fallback' = NoTab
         /\ Save(now)

(* Service::close at index i: closed, fallback and the remaining tabs. *)
Neighbour(ts, i) ==
    IF i < Len(ts) THEN ts[i + 1].id
    ELSE IF i > 1 THEN ts[i - 1].id ELSE NoTab

ReplacingOutside(rp, gone) == Without(rp, {c \in DOMAIN rp : rp[c].tab \in gone})

ConvertQuietly(ts, r) ==
    [i \in DOMAIN ts |->
        IF ts[i].id # r.tab THEN ts[i]
        ELSE [ts[i] EXCEPT !.controller = NoClient, !.printer = NoClient,
                           !.pty = "none", !.held = FALSE, !.url = r.url,
                           !.label = Blank]]

(* finish_replacement: the shell's tab becomes a browser tab. *)
Convert(ts, r) ==
    [i \in DOMAIN ts |->
        IF ts[i].id # r.tab THEN ts[i]
        ELSE [ts[i] EXCEPT !.controller = NoClient, !.printer = NoClient,
                           !.pty = "none", !.held = FALSE, !.url = r.url,
                           !.label = Blank, !.dirty = TRUE]]

ConvertUnflushed(c, ps, rp) ==
    \/ /\ peers' = [ps EXCEPT ![c].queued = TRUE]
       /\ tabs' = IF c \in DOMAIN rp THEN Convert(tabs, rp[c]) ELSE tabs
       /\ replacing' = Without(rp, {c})
    \/ DropClient(c)

(* client_flush followed by finish_replacement: everything is written and a *)
(* pending replacement happens; some bytes stay; or the socket is broken.   *)
ClientFlush(c, ps, rp) ==
    \/ /\ peers' = [ps EXCEPT ![c].queued = FALSE]
       /\ tabs' = IF c \in DOMAIN rp THEN Convert(tabs, rp[c]) ELSE tabs
       /\ replacing' = Without(rp, {c})
    \/ /\ peers' = [ps EXCEPT ![c].queued = TRUE]
       /\ UNCHANGED tabs
       /\ replacing' = rp
    \/ DropClient(c)

-----------------------------------------------------------------------------
(* Starting and ending. *)

Down ==
    /\ peers' = <<>>
    /\ tabs' = <<>>
    /\ replacing' = <<>>
    /\ closed' = NoTab /\ fallback' = NoTab
    /\ restored' = FALSE /\ handin' = FALSE
    /\ published' = {} /\ polled' = {}
    /\ nextClient' = 1 /\ nextId' = 1

(* The tabs that serve() makes from the recipes of the recovery file. *)
Restored(rs) ==
    [i \in DOMAIN rs |-> IF rs[i].url = Blank THEN Shell(i, rs[i].label, NoClient)
                         ELSE Browser(i, rs[i].url)]

(* The recovery file before the first start: no file, or one that an        *)
(* earlier daemon saved for one tab.                                        *)
InitialRecipes ==
    LET one == {[url |-> Blank, label |-> l] : l \in Label}
               \cup {[url |-> u, label |-> Blank] : u \in Url}
    IN {<<>>} \cup {<<r>> : r \in one}

Init ==
    /\ saved \in InitialRecipes
    /\ status = "up"
    /\ peers = <<>> /\ nextClient = 1
    /\ tabs = Restored(saved) /\ nextId = Len(saved) + 1
    /\ replacing = <<>>
    /\ closed = NoTab /\ fallback = NoTab
    /\ restored = (saved # <<>>)
    /\ handin = FALSE
    /\ published = {} /\ polled = {}

(* serve() in a new process after the previous one ended. *)
Restart ==
    /\ status # "up"
    /\ Len(saved) <= TabLimit
    /\ status' = "up"
    /\ tabs' = Restored(saved) /\ nextId' = Len(saved) + 1
    /\ restored' = (saved # <<>>)
    /\ UNCHANGED <<peers, nextClient, replacing, closed, fallback, handin,
                   published, saved, polled>>

(* SIGTERM is noticed after any dispatch; run() then saves and returns. *)
StopSignal ==
    /\ status = "up"
    /\ status' = "stopped"
    /\ Save(tabs)
    /\ Down

(* The process is killed, or the machine stops. *)
Crash ==
    /\ status = "up"
    /\ status' = "crashed"
    /\ UNCHANGED saved
    /\ Down

UpgradeCountingTabs ==
    /\ status = "up"
    /\ DOMAIN replacing = {}
    /\ \A i \in DOMAIN tabs : tabs[i].pty # "stopped"
    /\ tabs' = [i \in DOMAIN tabs |->
                   [tabs[i] EXCEPT !.controller = NoClient, !.printer = NoClient,
                                   !.entry = {}, !.dirty = TRUE, !.gated = FALSE,
                                   !.held = FALSE]]
    /\ peers' = <<>> /\ nextClient' = 1 /\ nextId' = Len(tabs) + 1
    /\ closed' = NoTab /\ fallback' = NoTab
    /\ restored' = FALSE /\ handin' = FALSE
    /\ published' = {} /\ polled' = {}
    /\ UNCHANGED <<status, replacing, saved>>

(* try_upgrade at the head of the loop: the replacement daemon adopts every *)
(* tab under its old id; no window stays connected and nothing is saved.    *)
Upgrade ==
    /\ status = "up"
    /\ DOMAIN replacing = {}
    /\ \A i \in DOMAIN tabs : tabs[i].pty # "stopped"
    /\ tabs' = [i \in DOMAIN tabs |->
                   [tabs[i] EXCEPT !.controller = NoClient, !.printer = NoClient,
                                   !.entry = {}, !.dirty = TRUE, !.gated = FALSE,
                                   !.held = FALSE]]
    /\ peers' = <<>> /\ nextClient' = 1
    /\ closed' = NoTab /\ fallback' = NoTab
    /\ restored' = FALSE /\ handin' = FALSE
    /\ published' = {} /\ polled' = {}
    /\ UNCHANGED <<status, nextId, replacing, saved>>

-----------------------------------------------------------------------------
(* The turn of the loop. *)

(* refresh_directory: a running shell may have changed directory. *)
Relabelled(ts, moved) ==
    [i \in DOMAIN ts |->
        IF ts[i].id \in DOMAIN moved /\ moved[ts[i].id] # ts[i].label
        THEN [ts[i] EXCEPT !.label = moved[ts[i].id], !.dirty = TRUE]
        ELSE ts[i]]

OpenIds(ts) == {ts[i].id : i \in {j \in DOMAIN ts : ts[j].pty = "open"}}

(* The loop in maintain() that closes every tab whose PTY has stopped: the  *)
(* other tabs stay in their order (keep is their increasing enumeration),   *)
(* and the last tab closed is announced with the neighbour it had by then.  *)
Ended(ts) == {i \in DOMAIN ts : ts[i].pty = "stopped"}
Staying(ts) == DOMAIN ts \ Ended(ts)
Keeps(ts) ==
    {keep \in [1..Cardinality(Staying(ts)) -> Staying(ts)] :
        /\ \A j, k \in DOMAIN keep : j < k => keep[j] < keep[k]
        /\ \A i \in Staying(ts) : \E k \in DOMAIN keep : keep[k] = i}
Survivors(ts, keep) == [k \in DOMAIN keep |-> ts[keep[k]]]

LastEnded(ts) == CHOOSE i \in Ended(ts) : \A j \in Ended(ts) : j <= i
FallbackAmong(ts, rest) ==
    IF LastEnded(ts) < Len(ts) THEN ts[LastEnded(ts) + 1].id
    ELSE IF rest # <<>> THEN rest[Len(rest)].id ELSE NoTab

DueIgnoringClose(ts, cl) ==
    \/ \E i \in DOMAIN ts : ts[i].dirty \/ ts[i].gated
    \/ published = {}

PublicationDue(ts, cl) ==
    \/ cl # NoTab
    \/ \E i \in DOMAIN ts : ts[i].dirty \/ ts[i].gated
    \/ published = {}

Maintain ==
    /\ status = "up"
    /\ \E moved \in [OpenIds(tabs) -> Label], keep \in Keeps(tabs) :
         LET rest == Survivors(Relabelled(tabs, moved), keep)
             rp == ReplacingOutside(replacing, Ids(tabs) \ Ids(rest))
             ended == Ended(tabs) # {}
             cl == IF ended THEN tabs[LastEnded(tabs)].id ELSE closed
             fb == IF ended THEN FallbackAmong(tabs, rest) ELSE fallback
         IN IF PublicationDue(rest, cl)
            THEN Publish(rest, peers, rp, cl, fb, {})
            ELSE /\ Deliver(rest, peers, rp, {}, Controllers(rest))
                 /\ closed' = cl /\ fallback' = fb
                 /\ UNCHANGED <<published, saved>>
    /\ polled' = Sources(peers', tabs', handin)
    /\ UNCHANGED <<status, nextClient, nextId, restored, handin>>

(* The deadline of a synchronized update passes (te_renderdelay). *)
RedrawDue(id) ==
    /\ status = "up"
    /\ \E i \in DOMAIN tabs :
         /\ tabs[i].id = id /\ tabs[i].held
         /\ tabs' = [tabs EXCEPT ![i].held = FALSE]
    /\ UNCHANGED <<status, peers, nextClient, nextId, replacing, closed, fallback,
                   restored, handin, published, saved, polled>>

Accept ==
    /\ Dispatch(Listener)
    /\ nextClient \in ClientId
    /\ peers' = [c \in DOMAIN peers \cup {nextClient} |->
                    IF c = nextClient
                    THEN [ready |-> FALSE, queued |-> FALSE]
                    ELSE peers[c]]
    /\ nextClient' = nextClient + 1
    /\ UNCHANGED <<status, tabs, nextId, replacing, closed, fallback, restored,
                   handin, published, saved>>

ReceiveKeepingNextId ==
    /\ DispatchOnce(HandinSource)
    /\ nextId \in TabId
    /\ \E l \in Label : tabs' = Append(tabs, Shell(nextId, l, NoClient))
    /\ handin' = FALSE
    /\ UNCHANGED <<status, peers, nextClient, nextId, replacing, closed, fallback,
                   restored, published, saved>>

(* receive_handoff: the tabs of another daemon are appended under new ids. *)
ReceiveHandoff ==
    /\ DispatchOnce(HandinSource)
    /\ nextId \in TabId
    /\ \E t \in {Shell(nextId, l, NoClient) : l \in Label}
                \cup {Browser(nextId, u) : u \in Url} :
         tabs' = Append(tabs, t)
    /\ nextId' = nextId + 1
    /\ handin' = FALSE
    /\ UNCHANGED <<status, peers, nextClient, replacing, closed, fallback, restored,
                   published, saved>>

(* Tab::feed and effects: what parsed output does to a tab, overflowing its *)
(* own input queue with replies included.                                   *)
Parsed(t, l, h, p) ==
    [t EXCEPT !.label = l, !.held = h, !.pty = p, !.dirty = @ \/ l # t.label]

(* terminal_ready: output is parsed, or the PTY is stopped by end of file,  *)
(* an error or an overflowing input queue.                                  *)
TerminalReady(id) ==
    /\ DispatchOnce(TerminalSource(id))
    /\ \E i \in DOMAIN tabs, l \in Label, h \in {FALSE, SyncUpdates}, p \in {"open", "stopped"} :
         /\ tabs[i].id = id /\ tabs[i].pty = "open"
         /\ Deliver([tabs EXCEPT ![i] = Parsed(@, l, h, p)], peers, replacing, {},
                    {tabs[i].controller, tabs[i].printer} \ {NoClient})
    /\ UNCHANGED <<status, nextClient, nextId, closed, fallback, restored, handin,
                   published, saved>>

ClientWritable(c) ==
    /\ DispatchOnce(WriteSource(c))
    /\ c \in DOMAIN peers
    /\ ClientFlush(c, peers, replacing)
    /\ UNCHANGED <<status, nextClient, nextId, closed, fallback, restored, handin,
                   published, saved>>

(* End of file, a read error, or a packet that does not decode. *)
Disconnect(c) ==
    /\ Dispatch(ReadSource(c))
    /\ c \in DOMAIN peers
    /\ DropClient(c)
    /\ UNCHANGED <<status, nextClient, nextId, closed, fallback, restored, handin,
                   published, saved>>

-----------------------------------------------------------------------------
(* Messages that need no tab (commands.rs). *)

Packet(c) == Dispatch(ReadSource(c)) /\ c \in DOMAIN peers

(* SERVICE_INFO, CAPABILITIES, SELECT_ALL and refused requests: an answer. *)
Query(c) ==
    /\ Packet(c)
    /\ Deliver(tabs, peers, replacing, {c}, {})
    /\ UNCHANGED <<status, nextClient, nextId, closed, fallback, restored, handin,
                   published, saved>>

Stop(c) ==
    /\ status = "up" /\ ReadSource(c) \in polled /\ c \in DOMAIN peers
    /\ status' = "stopped"
    /\ Save(tabs)
    /\ Down

Handin(c) ==
    /\ Packet(c)
    /\ DOMAIN replacing = {} /\ ~handin
    /\ handin' = TRUE
    /\ Deliver(tabs, peers, replacing, {c}, {})
    /\ UNCHANGED <<status, nextClient, nextId, closed, fallback, restored, published,
                   saved>>

HandoffDespiteReplacement(c) ==
    /\ Packet(c)
    /\ tabs # <<>>
    /\ \A i \in DOMAIN tabs : tabs[i].pty # "stopped"
    /\ Deliver(<<>>, peers, replacing, {c}, {})
    /\ closed' = tabs[Len(tabs)].id /\ fallback' = NoTab
    /\ UNCHANGED <<status, nextClient, nextId, restored, handin, published, saved>>

HandoffKeepingFallback(c) ==
    /\ Packet(c)
    /\ DOMAIN replacing = {} /\ tabs # <<>>
    /\ \A i \in DOMAIN tabs : tabs[i].pty # "stopped"
    /\ Deliver(<<>>, peers, replacing, {c}, {})
    /\ closed' = tabs[Len(tabs)].id
    /\ UNCHANGED <<status, nextClient, nextId, fallback, restored, handin, published,
                   saved>>

(* handoff_command: every tab is given away, and the last one is announced. *)
Handoff(c) ==
    /\ Packet(c)
    /\ DOMAIN replacing = {} /\ tabs # <<>>
    /\ \A i \in DOMAIN tabs : tabs[i].pty # "stopped"
    /\ Deliver(<<>>, peers, replacing, {c}, {})
    /\ closed' = tabs[Len(tabs)].id /\ fallback' = NoTab
    /\ UNCHANGED <<status, nextClient, nextId, restored, handin, published, saved>>

(* A process of tab i's shell asks for its tab to become a browser; the     *)
(* acknowledgement overflows the queue, or is queued and flushed.           *)
BrowserReplace(c) ==
    /\ Packet(c)
    /\ c \notin DOMAIN replacing
    /\ \E i \in DOMAIN tabs, u \in Url :
         /\ tabs[i].pty = "open"
         /\ ClientFlush(c, peers,
                [d \in DOMAIN replacing \cup {c} |->
                    IF d = c THEN [tab |-> tabs[i].id, url |-> u] ELSE replacing[d]])
    /\ UNCHANGED <<status, nextClient, nextId, closed, fallback, restored, handin,
                   published, saved>>

AttachKeepingRestored(c) ==
    /\ Packet(c)
    /\ Deliver(Catalogued(tabs), [peers EXCEPT ![c].ready = TRUE], replacing, {c},
               Controllers(tabs))
    /\ UNCHANGED <<status, nextClient, nextId, closed, fallback, restored, handin,
                   published, saved>>

Attach(c) ==
    /\ Packet(c)
    /\ Deliver(Catalogued(tabs), [peers EXCEPT ![c].ready = TRUE], replacing, {c},
               Controllers(tabs))
    /\ restored' = FALSE
    /\ UNCHANGED <<status, nextClient, nextId, closed, fallback, handin, published,
                   saved>>

NewBrowser(c) ==
    /\ Packet(c)
    /\ nextId \in TabId
    /\ \E u \in Url :
         Publish(Append(tabs, Browser(nextId, u)), [peers EXCEPT ![c].ready = TRUE],
                 replacing, closed, fallback, {c})
    /\ nextId' = nextId + 1
    /\ restored' = FALSE
    /\ UNCHANGED <<status, nextClient, handin>>

(* HELLO or NEW with a launch of its own: a shell controlled by the client, *)
(* which also receives its prints when the launch asked for them.           *)
NewShell(c) ==
    /\ Packet(c)
    /\ nextId \in TabId
    /\ \E l \in Label, p \in {c, NoClient} :
         Publish(Append(tabs, [Shell(nextId, l, c) EXCEPT !.printer = p]),
                 [peers EXCEPT ![c].ready = TRUE], replacing, closed, fallback, {c})
    /\ nextId' = nextId + 1
    /\ restored' = FALSE
    /\ UNCHANGED <<status, nextClient, handin>>

HelloControllingAny(c) ==
    /\ Packet(c)
    /\ restored /\ tabs # <<>>
    /\ Publish(TakeControl(tabs, 1, c), [peers EXCEPT ![c].ready = TRUE], replacing,
               closed, fallback, {c} \cup Ousted(tabs, 1, c))
    /\ restored' = FALSE
    /\ UNCHANGED <<status, nextClient, nextId, handin>>

(* The first bare HELLO after a restore shows the first restored tab. *)
HelloReused(c) ==
    /\ Packet(c)
    /\ restored /\ tabs # <<>>
    /\ Publish(IF IsTerminal(tabs[1]) THEN TakeControl(tabs, 1, c) ELSE tabs,
               [peers EXCEPT ![c].ready = TRUE], replacing, closed, fallback,
               {c} \cup (IF IsTerminal(tabs[1]) THEN Ousted(tabs, 1, c) ELSE {}))
    /\ restored' = FALSE
    /\ UNCHANGED <<status, nextClient, nextId, handin>>

(* HELLO or NEW whose shell cannot be started (a serial line that does not  *)
(* open, no PTY left): the error leaves run(), so the process ends and      *)
(* dropping its tabs hangs up every shell.                                  *)
LaunchFails(c) ==
    /\ status = "up" /\ ReadSource(c) \in polled /\ c \in DOMAIN peers
    /\ status' = "failed"
    /\ UNCHANGED saved
    /\ Down

-----------------------------------------------------------------------------
(* Messages of a ready client about tab i (commands.rs). *)

TabPacket(c, i) == Packet(c) /\ peers[c].ready /\ i \in DOMAIN tabs
TerminalPacket(c, i) == TabPacket(c, i) /\ IsTerminal(tabs[i])

Navigate(c, i) ==
    /\ TabPacket(c, i)
    /\ ~IsTerminal(tabs[i])
    /\ \E u \in Url :
         Publish([tabs EXCEPT ![i].url = u, ![i].dirty = TRUE], peers, replacing,
                 closed, fallback, {})
    /\ UNCHANGED <<status, nextClient, nextId, restored, handin>>

(* CONTROL: the client also becomes the receiver of prints. *)
Control(c, i) ==
    /\ TerminalPacket(c, i)
    /\ Deliver([TakeControl(tabs, i, c) EXCEPT ![i].printer = c], peers, replacing,
               Ousted(tabs, i, c), {c})
    /\ UNCHANGED <<status, nextClient, nextId, closed, fallback, restored, handin,
                   published, saved>>

(* FOCUS, INPUT and SCROLL claim the tab; input that overflows the PTY's    *)
(* queue stops it.                                                          *)
Claim(c, i) ==
    /\ TerminalPacket(c, i)
    /\ \E p \in {tabs[i].pty, "stopped"} :
         Deliver([TakeControl(tabs, i, c) EXCEPT ![i].pty = p], peers, replacing,
                 Ousted(tabs, i, c), {c})
    /\ UNCHANGED <<status, nextClient, nextId, closed, fallback, restored, handin,
                   published, saved>>

(* RESIZE and FOCUS_STATE only serve the controller; a focus report is      *)
(* input and may overflow.                                                  *)
Attend(c, i) ==
    /\ TerminalPacket(c, i)
    /\ tabs[i].controller = c
    /\ \E p \in {tabs[i].pty, "stopped"} :
         Deliver([tabs EXCEPT ![i].pty = p], peers, replacing, {}, {c})
    /\ UNCHANGED <<status, nextClient, nextId, closed, fallback, restored, handin,
                   published, saved>>

Release(c, i) ==
    /\ TerminalPacket(c, i)
    /\ tabs[i].controller = c
    /\ tabs' = [tabs EXCEPT ![i].controller = NoClient]
    /\ UNCHANGED <<status, peers, nextClient, nextId, replacing, closed, fallback,
                   restored, handin, published, saved>>

Close(c, i) ==
    /\ TabPacket(c, i)
    /\ closed' = tabs[i].id
    /\ fallback' = Neighbour(tabs, i)
    /\ replacing' = ReplacingOutside(replacing, {tabs[i].id})
    /\ tabs' = RemoveAt(tabs, i)
    /\ UNCHANGED <<status, peers, nextClient, nextId, restored, handin, published,
                   saved>>

-----------------------------------------------------------------------------
Next ==
    \/ Restart \/ StopSignal \/ Crash \/ Upgrade
    \/ Maintain \/ Accept \/ ReceiveHandoff
    \/ \E id \in TabId : RedrawDue(id) \/ TerminalReady(id)
    \/ \E c \in ClientId :
         \/ ClientWritable(c) \/ Disconnect(c)
         \/ Query(c) \/ Stop(c) \/ Handin(c) \/ Handoff(c) \/ BrowserReplace(c)
         \/ Attach(c) \/ NewBrowser(c) \/ NewShell(c) \/ HelloReused(c)
         \/ LaunchFails(c)
         \/ \E i \in 1..TabLimit :
              \/ Navigate(c, i) \/ Control(c, i) \/ Claim(c, i) \/ Attend(c, i)
              \/ Release(c, i) \/ Close(c, i)

Spec == Init /\ [][Next]_vars

(* The loop always comes round: one read of at most 4 KiB per client and    *)
(* one per terminal bound the work between two Maintain steps.              *)
FairSpec == Spec /\ WF_vars(Maintain)

-----------------------------------------------------------------------------
(* Types of the service's state. *)
ServiceTypeOK ==
    /\ status \in {"up", "stopped", "crashed", "failed"}
    /\ DOMAIN peers \subseteq ClientId
    /\ peers \in [DOMAIN peers -> Peer]
    /\ nextClient \in 1..(ClientLimit + 1)
    /\ tabs \in Seq(Tab)
    /\ nextId \in 1..(TabLimit + 1)
    /\ DOMAIN replacing \subseteq ClientId
    /\ replacing \in [DOMAIN replacing -> Replacement]
    /\ closed \in TabId \cup {NoTab}
    /\ fallback \in TabId \cup {NoTab}
    /\ restored \in BOOLEAN
    /\ handin \in BOOLEAN
    /\ saved \in Seq(Recipe)
    /\ polled \subseteq 0..(2 * ClientLimit + 1 + TabLimit)

(* A tab's controller and print receiver are connected windows that have    *)
(* attached: whatever order windows overflow, disconnect, take control from *)
(* each other and convert tabs in, no tab is left waiting for a window that *)
(* is gone (drop_client, take_control, finish_replacement).                 *)
OwnersAreConnected ==
    \A i \in DOMAIN tabs :
        /\ tabs[i].controller \in Ready(peers) \cup {NoClient}
        /\ tabs[i].printer \in Ready(peers) \cup {NoClient}

(* Only a terminal has a controller or a print receiver: after a shell's    *)
(* tab became a browser, and after a restored browser was shown by the      *)
(* first HELLO, no window holds the tab, so no frame is owed to one.        *)
BrowsersAreUncontrolled ==
    \A i \in DOMAIN tabs :
        /\ IsTerminal(tabs[i]) <=> tabs[i].url = Blank
        /\ ~IsTerminal(tabs[i]) => /\ tabs[i].controller = NoClient
                                   /\ tabs[i].printer = NoClient

(* Every pending replacement belongs to a connected client and names a tab  *)
(* that still exists: closing, ending, handing off or upgrading a tab never *)
(* leaves an acknowledgement whose flush would convert a tab it was not     *)
(* asked about (close, drop_client, the refusal in handoff_command).        *)
ReplacementsAreLive ==
    \A c \in DOMAIN replacing :
        /\ c \in DOMAIN peers
        /\ replacing[c].tab \in Ids(tabs)

(* Tabs are in strictly increasing id order below next_id, through closing, *)
(* importing, upgrading and restarting; an id therefore names one tab.      *)
TabsAscend ==
    /\ \A i, j \in DOMAIN tabs : i < j => tabs[i].id < tabs[j].id
    /\ \A i \in DOMAIN tabs : tabs[i].id < nextId

(* An unannounced close names a tab that was there and is gone, and the tab *)
(* that windows are told to show instead exists, whatever closes, imports   *)
(* and handoffs follow in the same turn.                                    *)
FallbackExists ==
    /\ closed \notin Ids(tabs) /\ closed < nextId
    /\ fallback \in Ids(tabs) \cup {NoTab}
    /\ closed = NoTab => fallback = NoTab

(* The cached catalog entry of a tab that is neither dirty nor gated is     *)
(* what metadata() would compute now: every change to catalogued state      *)
(* marks the tab.                                                           *)
CacheIsCoherent ==
    \A i \in DOMAIN tabs :
        ~tabs[i].dirty /\ ~tabs[i].gated => tabs[i].entry = {EntryOf(tabs[i])}

(* The restored workspace is offered to a bare HELLO only until a window    *)
(* has attached, so no two windows take over the first restored tab.        *)
RestoredOnlyBeforeWindows == restored => Ready(peers) = {}

(* A shell becomes a browser tab only in a step that finds the requester    *)
(* (the client whose replacement of that tab is pending, or whose packet is *)
(* being handled) still connected and its acknowledgement completely        *)
(* written; a requester that disconnects first leaves its shell alive       *)
(* (commands.rs, the comment of finish_replacement).                        *)
ConversionIsAcknowledged ==
    [][\A i \in DOMAIN tabs, j \in DOMAIN tabs' :
          (/\ status = "up" /\ tabs[i].id = tabs'[j].id
           /\ IsTerminal(tabs[i]) /\ ~IsTerminal(tabs'[j]))
          => \E c \in DOMAIN peers \cap DOMAIN peers' :
                /\ ~peers'[c].queued
                /\ \/ c \in DOMAIN replacing /\ replacing[c].tab = tabs[i].id
                   \/ /\ ReadSource(c) \in polled'
                      /\ \A q \in polled' : q >= ReadSource(c)]_vars

(* While the service lives, also across an upgrade, a tab that appears has  *)
(* an id no earlier tab had, and next_id never goes back.                   *)
IdsAreFresh ==
    [][(status = "up" /\ status' = "up") =>
          /\ nextId' >= nextId
          /\ \A id \in Ids(tabs') \ Ids(tabs) : id >= nextId]_vars

(* Terminals whose PTY has stopped leave the catalog, all of them at once,  *)
(* and nothing closed stays unannounced, even while clients keep sending    *)
(* packets that stop further terminals.                                     *)
EndedTabsLeave ==
    (\E i \in DOMAIN tabs : tabs[i].pty = "stopped")
        ~> (closed = NoTab /\ \A i \in DOMAIN tabs : tabs[i].pty # "stopped")

(* Claim of docs/man/worminal.1: the recovery file is replaced after state  *)
(* changes.  When the loop has maintained and polls, and no tab is gated by *)
(* a synchronized update, the file describes the tabs it has.               *)
RecoveryFollowsTabs ==
    (/\ status = "up" /\ Listener \in polled
     /\ \A i \in DOMAIN tabs : ~tabs[i].gated)
    => saved = Recipes(tabs)
=============================================================================
