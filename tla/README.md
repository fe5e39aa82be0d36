# Verification of worminal

TLA+ models of the worminal workspace daemon and its windows, checked with TLC on small
instances and, where the argument is inductive, proved with TLAPS for every
value of the constants.  `PROJECT.json` maps every definition to the lines of
source it models and lists runs, mutants, hazards, findings and theorems.

## The system

`worminald` is a headless daemon that owns PTYs and an ordered list of tabs;
windows (the GTK frontend, or an SSH bridge) connect over a Unix socket.

| component | state | operations | interacts with |
|---|---|---|---|
| `daemon/queue.rs` | byte buffer, mark of the written prefix | append, append_owned, flush | every client socket and PTY input |
| `daemon/service.rs`, `commands.rs`, `service_io.rs` | clients by id, ordered tabs, next ids, pending conversions, unannounced close, published catalog | one turn: maintain, poll, dispatch; one handler per packet kind | clients (packets), terminals (PTYs), recovery file |
| `daemon/state.rs` | per tab: engine, PTY, metadata, cached catalog entry with two flags, controller, print receiver | feed, effects, metadata, release | C engine |
| `daemon/frames.rs` | per tab baseline of the controller's screen | prepare, commit, replicate | client queues |
| `daemon/handoff*.rs`, `service_handoff.rs`, `service_upgrade.rs`, `upgrade_io.rs` | channel, sealed snapshot, staged tabs, receiver child | send, receive, spawn, reject | another daemon process |
| `daemon/process.rs` | child or pinned pid, master descriptor, reaper | spawn, stop, disown, adopt | kernel |
| `daemon/reactor.rs` | interests, signal descriptor | ppoll, shutdown_requested | service loop |
| `workspace/recovery.rs` | cached bytes of the recovery file | open, save | file system |
| `workspace/broker.rs`, `socket.rs`, `launch.rs`, `rights.rs`, `ssh.rs`, `spawn.rs` | sockets, descriptor passing, launch encoding | connect, listen, encode | daemon, frontend |
| `protocol` | incremental packet decoder | push, append_packet | every socket |
| `frontend` | pages, active tab, viewport replica, reconnect state | catalog, frames, shortcuts | daemon, GTK |
| `browser` | web views of browser tabs | navigate, local policy | frontend |
| `terminal` (C), `engine` | parser, grid, selection, redraw gate | feed, input, frame, export | `state.rs` |

What is hard here: clients disappear in the middle of any handler (a queue
overflows while another client's packet is handled); a conversion of a tab
waits for bytes to drain while everything about the tab may change; metadata
is cached behind flags that several paths set and clear; two processes exchange
authority over live shells with timeouts, crashes and signals in between; frames
are deltas against a baseline that is only right if every message since was
queued, while congestion, held updates, resizes and changes of control all
suppress or restart them.  The recovery file is written by daemons that may die
at any call and overlap during an upgrade; shells are signalled by pids that the
kernel hands out again; and a window runs callbacks that may lose its connection
half-way while it buffers keys for a tab that another program must make.

## Modules

| module | models | role |
|---|---|---|
| `BoundedFifo` | what a queue promises | abstract specification |
| `ByteQueue` | `queue.rs` | refines `BoundedFifo` |
| `Handoff` | `handoff.rs`, `handoff_io.rs`, `service_handoff.rs`, `service_upgrade.rs`, `ReceiverChild` | the transfer transaction |
| `HandoffProofs` | | theorems about `Handoff` |
| `Service` | `service.rs`, `commands.rs`, `service_io.rs`, the catalog side of `state.rs` | the daemon's loop |
| `ServiceProofs` | | theorems about `Service` |
| `FrameRows` | row encoding of `frames.rs` and its import in the window's `viewport.rs` | operators shared by the next two |
| `FrameDelta` | row deltas, the engine's dirty marks and its scrolled view | one screen, one window, no queue |
| `FrameRowsProofs` | | lemmas about plans of row operations, used by the next two |
| `FrameDeltaProofs` | | theorems about `FrameDelta` |
| `Frames` | `send_frame`, `take_control`, `resync`, the redraw gate, the frame side of each handler | queues, congestion, control |
| `FramesProofs` | | theorems about `Frames` |
| `Wire` | `protocol/lib.rs`, `Connection` of `app.rs`, the bridge of `cli.rs`; extends `ByteQueue` | one direction of a connection, byte by byte |
| `WireProofs` | | theorems about `ByteQueue` and `Wire` |
| `Windows` | `app.rs`, `app_browser.rs`, `app_shortcuts.rs`, parts of `terminal.rs` and `app_chrome.rs` | the windows of a process with the service they talk to |
| `WindowsProofs` | | theorems about `Windows` |
| `Recovery` | `recovery.rs` | the file, its writers and the disk; abstract specification for `Daemons` |
| `Processes` | `process.rs` | shells, pids, children; operators and actions used by `Daemons` |
| `Daemons` | `run`, `serve`, `receive_upgrade`, `save`, `try_upgrade`, `Watch` | composes `Processes` and `Recovery`: successive daemons |
| `DaemonsProofs` | | theorems about `Recovery` and `Daemons`, and that the second refines the first |
| `MCWire`, `MCHandoff`, `MCService`, `MCFrameDelta`, `MCFrames`, `MCWindows`, `MCDaemons` | | instances for TLC |

Definitions whose comment starts with "Mutant" and the variants listed under
`mutants` in `PROJECT.json` are not part of a specification: each is a
plausible bug, used to confirm that a property can fail.

### ByteQueue

`bytes` and `sent` are the fields of `Queue`; `took` and `wrote` record what
the last operation accepted and wrote, which is what `BoundedFifo` constrains.
`Extend` is the body of `append` with its two reasons for dropping the written
prefix; `FlushOk` and `FlushErr` are the two ways `flush` returns, for every
number of bytes the transport may have taken.

### Handoff

The donor's program counter follows `send` (connect, H, wait R, C, disown, wait
A), the receiver's follows `receive` (accept, stage, check for a stop, R, wait
C, adopt, A).  A channel is two sets of markers and two ends, so that a marker
may arrive after a timeout and before the close.  `parsed` counts stand for the
terminal state, which is how a stale snapshot shows.  `kind` says how the
transfer is made: to a listening daemon (manual), to the receiver child of an
automatic upgrade, or by a daemon to itself (loopback).  `Crashes` lets either
process be killed anywhere.

### Service

One action per packet kind and readiness handler.  `polled` is the list of
sources `wait()` built: handlers run in its order (listener, handoff listener,
clients by id, terminals by tab) and `Maintain` ends the turn.  Every handler
ends in `Deliver`, which queues its packets and drops the clients whose queue
overflowed.  Dropping at the end of the handler is the same as dropping at the
overflow: `drop_client` only clears references to that client and no later
statement of a handler sets one.  The queue's length is abstracted to empty or
not, the overflow to a choice (a catalog has no size limit, so even an empty
queue may refuse it).  A tab's directory, title, modes, cursor and colours are
one `label`; `held` is the engine's synchronized-update gate.  Restarts read
the recovery file that the previous process left; `Upgrade` is the committed
outcome of `Handoff`, seen from the replacement daemon.

### FrameRows and FrameDelta

`Plan` is `prepare`: the best move of a block of rows (found by hash, authorized
by comparing the bytes), then each marked row that still differs, whole or as
the span of its changed cells.  `Commit` applies a plan to the daemon's baseline
and `Finish` to the window's cells; they are different code in two processes and
must agree.  `FrameDelta` adds the engine: `live`, `hist` and `scr` are the
screen, the history and the scroll position, `dirty` the marked rows.  Programs
mark rows of the live screen, while `worminal_engine_row` is asked about rows of
the view.  The hash is a constant function, so collisions are part of the model.

### Frames

One tab and its windows.  `tab` holds the engine's view, the baseline
(`base`, `baseHead`), the redraw gate and the flags `frame_pending` and
`frame_reply`; `peers` the output queue and `resync` flag of each window;
`views` what each has imported.  A queue entry is a whole frame message (the
code appends a message at once or drops the client) or a `Note`, any other
packet; lengths count entries, and since entries differ in size any append may
overflow.  Cursor, scroll position and alternate flag are one `head`.  Whether
output follows recent input (`input_frame`) is a choice, as it only hastens a
frame.  A scrolled view may mark any rows (its damage is `FrameDelta`'s matter),
so the properties about rows speak of views at the bottom.  `SendFrame` returns
the set of possible outcomes and is used by every handler that sends a frame.
`Work` bounds the requests and outputs of a behaviour; the daemon's own steps
(`Maintain`, `Expire`) and the window's `Import` are not bounded.

### Wire

A behaviour is one direction of one connection, `route`: from the service or
from a window, through the bridge of `--master` or not, and with the version the
receiver expects or another.  The service sends through `ByteQueue`, a window
through `conn`, which keeps whole packets, an offset into the first and a count
of bytes.  `near`, `mid` and `far` are the first socket, the bridge's queue and
the pipe behind it; each takes and gives any number of bytes.  `Push` is
`Decoder::push`: it gathers a header, refuses a wrong version or an excessive
length as soon as the byte that shows it is there (`Bad`), and gives a packet up
when its last byte is.  `WindowReads` and `ServiceReads` differ in what they do
with the packets before a bad one: `Connection::read` returns an error and they
are lost, `client_ready` has already handled them.  Headers are two bytes.  A
bridge ends when what it reads does, having passed everything on, or fails: the
window hangs up, it is killed, or `bridge` returns an error of a read or a write
of either direction, also of `incoming.flush` to a service that has hung up while
it still holds bytes for a live window (`BridgeEnds`).  The packets of a route
have one version and legal lengths; an excessive length is refused as a wrong
version is and not sent by either side.

### Windows

One GTK process with several windows, and the service.  `win[w]` has the fields
of `App` that decide what is shown and sent; `link[w]` is its socket in both
directions.  GTK runs one callback at a time, so an action is a whole callback.
Since a callback may send several messages and lose the connection at any of
them, callbacks are operators on `ui = [win, link]` chained in the order of the
code; `Send` fails as `Connection::queue` does, and `Lost` does what `lost` does.
`Receive(w, n)` applies the packets of one read: those behind a loss are still
applied, as in `establish`.  The service is what its messages show: tabs with an
owner, the unannounced close, a catalog that is due.  A recreated service
numbers its tabs anew (restart) or keeps the ids (upgrade).  A window connects
anew only after the service has read its old connection to the end: the loop
serves older clients first and the timer takes 250 ms, but a turn reads 4 KiB of
a client, so a long backlog could outlast the timer.  `missed` records
that a window waits for a tab that will never come: it lost the connection with
a tab asked for, or the catalog dropped it.

### Recovery, Processes and Daemons

`Recovery` splits `save` at its system calls.  `live` is what the path names,
`disk` the set of what it may name after a loss of power: a rename adds the new
contents and only a sync of the directory, which may fail without an error,
takes the old ones away.  A file that was not synced before its rename could
come back damaged (`Remains`).  `cache` is `Recovery::cache`.  A temporary file
that a dead process leaves is not tracked further: the next writer's name
differs and nothing reads it.

`Processes` separates a shell from its number.  `Named` is what the kernel would
take a pid for; `stranger` is a process outside the workspace that has got a
number a shell had.  A tab holds its child (`moves = 0`) or a pidfd (`pin`).
`Waited` is `waitpid`, which makes a zombie's number free; every call that polls
a child is part of the action of the function that makes it, the refresh of a
directory included.

`Daemons` gives each daemon a program counter through `serve`, the turns of
`run` (upgrade, maintain, save, events) and its end, and joins donor and receiver
of an upgrade at the points where they touch pids, the file or the shells:
spawn, `receive_upgrade` opening the file, sealing, pinning, commit or rejection.
The markers of the transfer are in `Handoff`; manual transfers to another
workspace are there only.  `exe`, `loaded`, `attempted` and `news` are the watch;
a watch that could not be made, which never upgrades, and a path that is not a
regular file are left out.  A daemon that fails to restore a tab at its start
ends, which is `Crash` right after `Start`.

What is saved, and when, is decided by two functions that look at different
things.  `publish` compares the catalog with the one it published last and saves
only if they differ; `save` takes the present directory of every tab.  So
`Daemons` keeps for each tab its catalog entry (`entries`: the directory and
title it shows, and whether it is dirty or pending), for each daemon the catalog
`published` last and whether a close is unannounced (`closed`).  `Metadata`
refreshes a marked entry or leaves it, because a terminal may hold its screen
back at any time; `Publish` is `publish` up to the save, whose system calls
follow.  A browser tab is one whose recipe is an address; it has no shell, is
opened, navigated (`Navigate`) or converted from a shell (`Convert`), and is never
held back.  Whether a conversion is pending is `converting`, its life is that of
`Service`.  `missed` remembers how the last save went: well, "failed", or "ahead"
of the catalog, with a directory that the entry of its tab does not show.

## Runs

All bounds are constants of the `.cfg` files.

| run | instance | shows |
|---|---|---|
| `wire` | 3 byte values, queue limit 6, flush budget 3, sockets of 2 bytes, bodies up to 1, 3 packets | storage bound and refinement of the FIFO for the service's queue; packets come whole, in order and, if no part ends, all; a part that fails, the bridge by its own error included, loses an end of the stream only, and a bridge that ends with its stream has passed everything on. A packet is longer than a socket and than what is left of the queue after one, so headers are cut, chunks refused, and the prefix compacted |
| `handoff` | 2 sessions, 3 attempts, 1 read each, all three kinds, crashes, fairness | exclusive authority, nothing lost before the commit, current state adopted, no signal to given shells, no adoption by a stopping receiver, one marker at a time, one server of an upgrade; no transfer blocks a daemon for ever. A second attempt lets a late answer and a stale snapshot of the first meet it, a third those of a retry; a read between them makes snapshots differ |
| `service_clients` | 2 clients, 1 tab, 2 URLs, 2 labels, holds, failing saves | references to clients and tabs, conversions, restored launch, the cached entry is coherent. Two clients contend for one tab and convert it against each other |
| `service_tabs` | 1 client, 2 tabs, fairness | order and freshness of ids, the announced fallback, ended tabs leave and are announced |
| `frame_delta` | 4 rows of 1 cell out of 3, history of 1 | the window shows the baseline; skipped rows are current, through scrolling. A move needs 3 rows, and a fourth makes source and destination overlap; two of the three cells have the same hash; a history of 1 overflows, and a scrolled view is partly history. A span of a row of one cell is the row: spans are in `frames_control` and in the proof |
| `frames_control` | 2 windows, 1 row of 2 cells, 3 heads, 5 requests | the baseline is where the controller's queue leads, spans included; no handler leaves a window out of date with nothing owed |
| `frames_window` | 1 window, 1 or 2 rows, 4 requests, fairness | damage survives congestion, holds and resizes; the window catches up; scroll requests are answered. Attach, focus and draw fill the queue (2 entries), and a fourth request meets the congestion; draining is not bounded |
| `windows` | 2 windows of a process, keys buffered up to 3, connections of 5 packets, 3 events of users, programs and faults, fairness | one window holds a browser tab's view; a terminal taken for live is controlled; keys reach programs in order; windows come to rest: while the service serves, connected, with no key held back and on a tab; while it does not, waiting on their timer. Three events suffice to open a second window, type before its tab is there and lose the connection; handling an event is not bounded |
| `daemons` | 3 successive daemons, 2 shells and 1 pid, 2 tabs, 2 directories and an address, 2 programs, 2 events, fairness | the file is whole and follows the tabs, damage is kept, hang-ups reach only the shell of the tab, an installed program is tried. Three daemons give two upgrades in a row, or an upgrade and a restart; with one pid every exit invites its reuse, by a second shell or a stranger, which may come at any time and is not bounded; with two tabs, restored or opened, a save for one takes the directory of another that holds its screen. Turns, moves of directories, refreshes, saves and the end of a conversion are not bounded |
| `service_catalog_claim`, `frame_scroll_claim`, `windows_claim` | smallest instance that shows it | a statement of the repository that the code does not keep (below) |

The runs of `Handoff`, `Wire`, `Windows` and `Daemons` do not check for
deadlock: processes and streams end, and events are bounded.  The other runs do:
the loop, or a restart, is always possible.  The runs of `Frames` have too few
rows to move any; moves are covered by `frame_delta` and by its proof, for rows
of any width.

### Fairness

`Wire`: weak fairness of flushing, of the bridge's reads and writes and of
reading, since every loop polls for what is ready.  A part may still end at any
time, which `PacketsArrive` excludes by its premise.

`Handoff`: weak fairness of the donor's and the receiver's protocol steps once
a transfer has begun.  Every wait on the channel has the socket timeout set in
`handoff_io.rs`, and nothing between two waits blocks.  Starting a transfer is
not assumed.

`Service`: weak fairness of `Maintain` only.  `client_ready` and
`terminal_ready` do one bounded read each, so the loop comes round whatever
clients send.

`Frames`: weak fairness of `Maintain` with a due frame (`wait()` takes the
earliest frame deadline for its timeout), of `Expire` (the redraw deadline is
part of the same timeout) and of `Import` (a window reads its socket; one that
never does is congested until its queue overflows).  `WindowCatchesUp` is
conditional on a frame being owed, and `FrameIsOwed` shows that only two handlers
can break that: CONTROL, which takes control without a frame, and FOCUS_STATE,
which leaves scrollback without one.

`Windows`: weak fairness of `Progress`, that some callback, handler or turn that
is due happens; a lost window's timer is one of them.  That a service starts is
assumed of nobody (`Begins` is outside `Progress`): the timer only connects, and
`ensure` is called when a window is opened.  If the service stays away, a window
at rest is one that waits on its timer.  Nothing users or programs do is
assumed.  Weak fairness of the disjunction is enough because events are bounded
and every step of `Progress` uses something up.

`Daemons`: weak fairness of `Progress`, the turns of living daemons; `poll` has a
deadline in `run`, and a transfer's waits have timeouts.  A daemon that has died
need not be started again.

## Findings

1. `service_catalog_claim`: `send_catalog` for one attaching window clears the
   dirty marks of all tabs.  A conversion, or the end of a hold, earlier in the
   same turn is then neither published to the other windows nor saved.
   `FileFollowsTabs` therefore speaks of daemons whose catalog is the one they
   published and whose entries are unmarked (`Announced`).
2. `frame_scroll_claim`: `worminal_engine_row` reads a row of the scrolled view
   but reports the dirty mark of the live row with that number.  Output drawn
   under a scrolled view without scrolling it marks the wrong row: the changed
   one is skipped, and `clean()` then forgets the damage.
3. `windows_claim`: an empty window says "Ctrl+Shift+T opens a terminal", but a
   tab that was asked for between the loss of a connection and the next one is
   counted and never sent, so the window then buffers every key, that one too.

Seen while modelling, and not the subject of a run: a bridge to a live window
loses what it holds for it when the service has hung up and input of the window
is still queued, because the failing flush ends both directions (`cli.rs:103`);
a receiver that gives up
waiting for C logs "donor retains ownership" (`service_handoff.rs:78`), although
C may have reached its socket, in which case the donor has committed and nobody
owns the sessions; an error of `Pty::spawn` other than a failed exec leaves
`run()` and ends every session (`service_io.rs:72`); and a tab transferred twice
is pinned by a pid that its donor, not being the shell's parent, cannot keep from
being reused between the snapshot and `pidfd_open` (`process.rs:282`), which
`HangUpsReachTheShell` excepts.

The recovery file can also stay behind the tabs although everything was
announced.  `publish` returns before `save` when the catalog is the one published
before (`service.rs:236`), but a save made because another tab changed has
written the present directory of a tab whose terminal holds its screen back,
which its entry does not show (`state.rs:252`).  If that tab moves back before the
hold ends, the refreshed catalog is the old one, the mark is cleared and nothing
is saved: the file keeps a directory that the tab has left, until some other
change, though the manual says the file is replaced "after state changes"
(`docs/man/worminal.1:81`).  `FileFollowsTabs` is true of every other case, and
excepts a last save that was ahead of the catalog; without that exception TLC
finds it violated, first by an attach that refreshes the entry (finding 1) and
such a save after it.

Seen while proving: a window may take the terminal it shows for its own although
another controls it.  A send loses the connection in the middle of a read, and the
packets behind it are applied all the same (`app.rs:351`): a frame makes the
shown terminal live again, and a CREATED asks for a tab that ends before the
window is connected again.  The first catalog of the new connection then claims
nothing, because the tab asked for is not in it (`app.rs:780`), and the shown
terminal stays live.  It takes more events than the run has, so the run did not
show it; `LiveIsControlled` and `KeysStayInOrder` except a window that waited for
a tab that did not come (`missed`).

## Proofs

Every theorem below holds for all values of the constants that satisfy the
module's assumption.

`WireProofs`, the queue: `QueueTypeCorrect`, `QueueStorageBounded` and
`QueueRefinesFifo`, for every limit, chunk bound and budget (`QueueAssumption`).
The storage bound is inductive together with the type: `append` extends without
compaction only if the chunk fits behind the written prefix.  The refinement
shows that compaction, takeover and clearing leave `Pending` alone.

`WireProofs`, the connection: packets stay whole and in order
(`PacketsStayInOrder`), what a receiver has taken and may still read is always a
beginning of what was sent, and all of it is somewhere on the line while the
bridge has not failed (`StreamStaysConserved`), and the queue keeps its bound and its
refinement inside the connection (`WireStorageBounded`, `WireQueueIsFifo`), for
every alphabet of bytes, size of queue, socket and body, and every route
(`WireAssumption`; the lengths and header values have to be bytes, as `u8` and
the framing of `protocol/lib.rs` have it).  The argument looks at a connection
as one line of bytes (`Line`): the packets handed over, then what the decoder
holds, the pipe behind the bridge, its queue, the first socket and the sender's
queue.  While every part is up, or ended at the end of its stream, the line is
the concatenation of the packets that were sent (`Conserved`); a part that is
killed takes away only an end of the line, so what is left on the receiver's
side can be completed to that concatenation (`Delivered`, `Passed`).  `Passed`
is needed on its own because a bridge may die and the near side go on sending,
which breaks the line but not what has passed.  The other half is that the
decoder is in step with the packets: what it holds is part of one packet
(`Part`), so each packet it gives up is the next one sent.  That is proved of
one round of `Push` (`RoundKeeps`) and carried through a read by least
counterexample (`PushKeeps`), since the library's induction theorems cannot be
used.  `WireInv` was checked with TLC on all states of a `wire` instance before
it was proved.

`HandoffProofs`: for every set of sessions and any number of attempts
(`HandoffAssumption`), the type invariant, exclusive authority, retention until
the commit, currency of the adopted state, safety of given shells, the early
stop, one marker in flight (`MarkersComeOneByOne`) and one server after an
automatic upgrade (`UpgradeHasOneServer`).  None is inductive by itself;
`HandoffInv` adds that the donor is frozen while a transfer runs
(`DonorFrozen`), that a committed attempt is the latest and ends the donor's
ownership (`CommitIsFinal`, `DonorHoldsAll`), that a C in flight or consumed
belongs to a committed attempt whose snapshot is what has been read
(`CommitInFlight`), and where each signal came from (`SignalsExplained`,
`EarlyStop`).  `MarkerInv` relates each end's place in the protocol to the
markers on the channel: H, R, C and A each wait for the one before.

`ServiceProofs`: for any number of clients and tabs and any labels and
addresses (`ServiceAssumption`), every safety invariant of `Service`, owners of
tabs and holders of browsers included (`OwnersStayConnected`,
`BrowsersStayUncontrolled`), and two action properties: ids are never reused
(`IdsStayFresh`), and a shell becomes a browser tab only while its
requester is connected and has its acknowledgement (`ConversionStaysAcknowledged`).  The
inductive invariant `ServiceInv` carries four parts through the handlers
(`Sound`: well-formed tabs, typed clients, owners that are ready clients,
replacements of tabs that exist) together with the announcement (`Closing`).
Each shared step has one lemma that says it preserves them (`DeliverOK`,
`PublishOK`, `DropClientOK`, `ClientFlushOK`, `RemoveOK`, `EndedOK`, `AppendOK`,
`ChangeOK`), so an action's proof only says which steps it is made of.  Three
facts had to be added to make the invariant inductive: client ids are not
reused (`NextClientIsFresh`, or an accepted connection would inherit tabs), an
announced id is below `next_id` (or a new tab could be the one announced as
closed), and a process that ended leaves nothing behind (`DownIsEmpty`).

`FrameRowsProofs` has what both sides of the replication rest on, for rows of
every width, every cell alphabet and every hash function.  The core is
`PlanIsExact`: for one plan, `Commit` and `Finish` give the same screen, and
that screen agrees with the view on every marked row and keeps the others.  It
needs no property of the hash, because `find_move` compares the bytes of every
row it moves (`MoveIsExact`), and holds for overlapping moves because both sides
copy from the old screen.

`FrameDeltaProofs`: for screens and histories of every size (`DeltaAssumption`),
the type invariant, that the window shows the baseline, and that skipped rows
are current.  The three facts are inductive together (`DeltaInv`): a skipped row
is current in the window only because the window shows the baseline.

`FramesProofs`: for any number of windows, heights and queue limits
(`FramesAssumption`), that the controller's queue leads to the baseline
(`BaselineStaysQueued`), that damage is kept until a frame has taken it
(`DamageStaysRetained`), and that no handler but CONTROL and FOCUS_STATE leaves a
window out of date with nothing owed (`FrameStaysOwed`, an action property).  A
handler is the set of its outcomes, and two lemmas go through each: every outcome
is sound (`Sound`: typed tab and windows, the baseline where the queue leads) and
still owes what was owed (`Owed`).  `FramesInv` says more than the properties in
two places: without a controller there is no baseline, or the next one would
inherit a stale one; and undrawn rows are damaged unless the view is scrolled.
That imports agree with commits, deltas cut by congestion included, comes from
`PlanIsExact` once per queue entry.

`WindowsProofs`: for any number of windows, connections of any bound and any
number of events (`WindowsAssumption`), one window holds a browser tab's view
(`BrowserHasOneView`), a terminal that a window types into without a claim is its
own (`LiveTerminalIsControlled`), and keys reach programs in the order typed
(`KeysArriveInOrder`).  What makes these hard is that a callback is a chain of
sends, packets and keys, any of which may lose the connection, and goes on after
it did.  So the invariant has to hold of a window at every point of a callback.
`Good(v, p, l, x)` says it of window v with App p and socket l, where the context
x says how far the callback has come: how many packets of the read it has
applied, which keys it still has to press again, and whether it is between
showing a tab and claiming it.  A window at rest has the context `Rest`, and each
operator of a callback is shown to take good windows to good ones; the chains
(the packets of a read, the keys of a buffer, the views of a closing window) are
carried by least counterexample.  The parts of `Good` are there for these
reasons.  `Placed`, with `Disjoint`, is `OneView` plus the fact that a window that
is gone holds no view.  `Keyed` is `KeysStayInOrder` with the keys that a callback
has taken out of the buffer; it needs that keys are buffered only while no tab is
shown (`Quiet`), and that in turn that a window with pages shows one (`Shown`).
`Claimed` is `LiveIsControlled`; it needs that every terminal a window has a page
for is the service's or a correction is on its way (`Follows`), which needs the
same of every frame and catalog on the wire (`Arriving`): what a notice says was
true when it was sent, and what ceased to be true is corrected behind it.  The
invariant was evaluated on the states of the run before it was proved.

`DaemonsProofs`, the file: for every set of processes and encodable lists, the
programs that open and save it keep it whole and keep damage (`RecoveryIsWhole`,
`RecoveryKeepsDamage`).  `FileIsWhole` is inductive only with what a synced
temporary file holds and with the fact that whoever has an open, enabled cache
has seen a file that was not damaged (`FileInv`).

`DaemonsProofs`, the daemons: for any number of daemons, shells, pids,
directories and programs (`DaemonsAssumption`).  `DaemonsImplementRecovery` shows
that every step of `Daemons` is a step of `Recovery` or leaves its variables
alone, so the two theorems about the file hold through upgrades and restarts
(`DaemonsKeepFileWhole`, `DaemonsKeepDamage`).  `HangUpsAreAimed` needs to know what makes
a number safe: `HoldingsInv` says which daemons can be where (`Control`: at most
one serves, at most one receives, and a daemon that serves beside it is its
donor), that an existing shell's number
is its own (`Kernel`), that a tab with a child is held by the shell's parent and
that a transferred tab's pidfd refers to its shell or to nothing (`TabsOwned`),
that children are retained only by their parent (`Retained`), and that until the
donor commits, the number in the snapshot of a tab with a child is that of its
shell, which still exists because its parent has not waited for it since
(`SnapshotHolds`).  `FileRestoresTabs` (`FileFollowsTabs`) adds `SaveInv`, for any
number of tabs and titles.  An entry without a mark shows its tab
(`EntriesAreTrue`); a daemon that does not yet serve has published nothing
(`Unpublished`); and the file holds the directories of the catalog published
last, unless the save failed or was ahead of it (`PublishedIsSaved`).  With the
catalog published and no entry marked, the two give the tabs.  Below that, what a
daemon's cache says is what the file holds (`CacheIsCurrent`): only one daemon
may save at a time, and a receiver opens the file while its donor waits; and what
is being written are the tabs of the writer (`PendingIsCurrent`).
`DaemonsAssumption` asks that encodable lists are lists of directories and that
the marks for an absent or damaged file and for the states of a cache are not, as
their types are in `recovery.rs`; that addresses are among the recipes; and that
the home directory is not one.

The type invariants of `ByteQueue`, `Handoff`, `Service` and `FrameDelta` are
proved and no longer part of a run.

Only model-checked: liveness under fairness, which is outside this prover
(`PacketsArrive`, the end of every transfer, ended tabs leaving, windows catching
up and settling, upgrades being tried), and the counterexamples of the three
claims.

## Not modelled

- `workspace/broker.rs`, `socket.rs`, `rights.rs`, `launch.rs`, `spawn.rs`,
  `ssh.rs`, `app_broker.rs`: one request and its answer on one socket, handled
  sequentially, and the passing of descriptors, which is the kernel's.  What the
  windows see of them, a connection or none, is in `Windows`.
- `browser`, `paint.rs`, `input.rs`, `keymap.rs`, `tabs.rs`, fonts, window state
  and configuration: drawing and tables without concurrency.  Which window holds
  a view is in `Windows`.
- The C parser, attributes, reflow and selection, the bytes of snapshots and
  frames: data that no property here tells apart.  Rows, damage, history, view
  and the redraw gate are modelled.
- Select-all, paste and printer payloads of the service; terminal sizes and
  process groups of `process.rs`; argument parsing of `cli.rs`.
- Failing to save is modelled, but nothing is claimed of it: the code retries
  only when the catalog changes again.

## What remains worth doing

1. A window with the real catalog of `Service` instead of the one of `Windows`.
2. The selection of the engine under scrolling, and changes of the number of
   columns in `FrameDelta`.
3. The handing of listening sockets from broker to daemon.
