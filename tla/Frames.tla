------------------------------- MODULE Frames -------------------------------
(***************************************************************************)
(* Replication of a terminal's screen to the window that controls it:      *)
(* send_frame and take_control of service.rs, replicate_encoded of         *)
(* frames.rs, resync of service_io.rs, the redraw gate of engine_sync.c    *)
(* and the import of frames in the window's viewport.rs.                   *)
(*                                                                         *)
(* One terminal tab.  A queue entry is a whole frame message, appended at  *)
(* once, or another packet, a Note.  Lengths count entries; an append may  *)
(* overflow because entries differ in size.  A flush and the import of the *)
(* entry are one step, since nothing flows back from the viewport.         *)
(* Cursor, scroll position and alternate flag of a frame are one "head".   *)
(* input_frame only hastens a frame: whether it is set is a choice.        *)
(***************************************************************************)
EXTENDS FrameRows

CONSTANTS
    Client,         \* windows
    None,           \* no controller
    Heights,        \* numbers of rows a window may ask for
    Blank,          \* the row of a cleared screen
    FrameHead,      \* frame headers
    Scrolled,       \* those of views that are scrolled back
    Negotiated,     \* features the windows negotiated
    FrameBacklog,   \* WORKSPACE_FRAME_BACKLOG_BYTES, in entries
    ResyncBacklog,  \* WORKSPACE_RESYNC_BACKLOG_BYTES, in entries
    QueueBound,     \* WORKSPACE_CLIENT_QUEUE_BYTES, in entries
    Work            \* bound: requests and outputs in a behaviour

ASSUME FramesAssumption ==
    /\ None \notin Client
    /\ Heights \subseteq Nat \ {0} /\ Heights # {}
    /\ Blank \in Row
    /\ Scrolled \subseteq FrameHead /\ FrameHead \ Scrolled # {}
    /\ Negotiated \subseteq Features
    /\ 0 < ResyncBacklog /\ ResyncBacklog <= FrameBacklog /\ FrameBacklog < QueueBound
    /\ Work \in Nat

VARIABLES
    tab,        \* the terminal tab: engine, baseline and flags
    peers,      \* connected windows: client -> [resync, queue]
    views,      \* what each window has imported: client -> [cells, head]
    work        \* requests and outputs still to come

vars == <<tab, peers, views, work>>

Screens == UNION {[1..h -> Row] : h \in Heights}
Fresh == [cells |-> <<>>, head |-> CHOOSE h \in FrameHead \ Scrolled : TRUE]

-----------------------------------------------------------------------------
(* Steps the handlers share.  An outcome is a tab with the windows.         *)

(* A queue entry holds a frame, or none. *)
Note == {}

Outcome(t, ps) == [tab |-> t, peers |-> ps]

(* Tab::release *)
Release(t) == [t EXCEPT !.controller = None, !.reply = FALSE, !.base = <<>>,
                        !.baseHead = Fresh.head]

(* drop_client *)
Drop(t, ps, c) ==
    Outcome(IF t.controller = c THEN Release(t) ELSE t,
            [d \in DOMAIN ps \ {c} |-> ps[d]])

(* Service::queue: a packet other than a frame, or an overflow. *)
Queue(t, ps, c) ==
    {Drop(t, ps, c)}
    \cup (IF Len(ps[c].queue) < QueueBound
          THEN {Outcome(t, [ps EXCEPT ![c].queue = Append(@, Note)])} ELSE {})

(* The same packet to every window; the queues in lost overflow. *)
QueueAll(t, ps) ==
    {Outcome(IF t.controller \in lost THEN Release(t) ELSE t,
             [c \in DOMAIN ps \ lost |-> [ps[c] EXCEPT !.queue = Append(@, Note)]]) :
        lost \in {l \in SUBSET DOMAIN ps :
                    \A c \in DOMAIN ps : Len(ps[c].queue) >= QueueBound => c \in l}}

TakeControlKeepingBaseline(t, ps, c) ==
    IF t.controller \in {c, None} THEN {Outcome([t EXCEPT !.controller = c], ps)}
    ELSE Queue([t EXCEPT !.controller = c], ps, t.controller)

(* take_control: the previous controller is told. *)
TakeControl(t, ps, c) ==
    IF t.controller = c THEN {Outcome(t, ps)}
    ELSE LET taken == [Release(t) EXCEPT !.controller = c] IN
         IF t.controller = None THEN {Outcome(taken, ps)}
         ELSE Queue(taken, ps, t.controller)

Cleared(t, full) == IF full THEN [t EXCEPT !.base = <<>>] ELSE t

CongestedCleaning(t, ps, full) ==
    Outcome([Cleared(t, full) EXCEPT !.pending = FALSE, !.dirty = {}],
            [ps EXCEPT ![t.controller].resync = TRUE])

(* send_frame at the congestion gate: damage stays for one later delta. *)
Congested(t, ps, full) ==
    Outcome([Cleared(t, full) EXCEPT !.pending = FALSE],
            [ps EXCEPT ![t.controller].resync = TRUE])

HeldForgetting(t, full) == Cleared(t, full)

(* A synchronized update holds the frame. *)
Held(t, full) == [Cleared(t, full) EXCEPT !.pending = TRUE]

UnchangedIgnoringReply(t, plan) == Empty(plan) /\ t.head = t.baseHead

(* Nothing to send, and no scroll request waits for an answer. *)
Unchanged(t, plan) == Empty(plan) /\ t.head = t.baseHead /\ ~t.reply

(* Screen::commit after the whole message fitted into the queue. *)
Sent(t, ps, plan) ==
    Outcome([t EXCEPT !.base = Commit(t.base, t.screen, plan), !.baseHead = t.head,
                      !.dirty = {}, !.pending = FALSE, !.reply = FALSE],
            [ps EXCEPT ![t.controller].queue =
                Append(@, {[plan |-> plan, head |-> t.head]})])

(* Service::send_frame *)
SendFrame(t, ps, full) ==
    IF t.controller = None
    THEN {Outcome(IF t.gate = "held" THEN t
                  ELSE [t EXCEPT !.dirty = {}, !.pending = FALSE], ps)}
    ELSE IF ps[t.controller].resync \/ Len(ps[t.controller].queue) >= FrameBacklog
    THEN {Congested(t, ps, full)}
    ELSE IF t.gate = "held" THEN {Outcome(Held(t, full), ps)}
    ELSE LET plan == Plan(t.base, t.screen, t.dirty, full, Negotiated) IN
         IF Unchanged(t, plan)
         THEN {Outcome([t EXCEPT !.dirty = {}, !.pending = FALSE], ps)}
         ELSE {Sent(t, ps, plan), Drop(t, ps, t.controller)}

ResyncCongested(t, ps) ==
    LET drained == {c \in DOMAIN ps : ps[c].resync /\ Len(ps[c].queue) > ResyncBacklog}
        qs == [c \in DOMAIN ps |-> [ps[c] EXCEPT !.resync = @ /\ c \notin drained]]
    IN IF t.controller \in drained THEN SendFrame(t, qs, FALSE) ELSE {Outcome(t, qs)}

(* Service::resync: windows that drained resume from their baseline. *)
Resync(t, ps) ==
    LET drained == {c \in DOMAIN ps : ps[c].resync /\ Len(ps[c].queue) < ResyncBacklog}
        qs == [c \in DOMAIN ps |-> [ps[c] EXCEPT !.resync = @ /\ c \notin drained]]
    IN IF t.controller \in drained THEN SendFrame(t, qs, FALSE) ELSE {Outcome(t, qs)}

(* send_frame for a pending tab, as maintain, publish and send_catalog do. *)
SendPending(t, ps) == IF t.pending THEN SendFrame(t, ps, FALSE) ELSE {Outcome(t, ps)}

(* What parsed output may do to the view: change rows, marking them if the  *)
(* view is not scrolled (see FrameDelta), move the cursor, leave scrollback. *)
Drawn(t) ==
    {[t EXCEPT !.screen = d.rows, !.head = d.head, !.dirty = @ \cup d.marks] :
        d \in {e \in [rows : [DOMAIN t.screen -> Row], head : FrameHead,
                      marks : SUBSET DOMAIN t.screen] :
                 IF t.head \notin Scrolled
                 THEN e.head \notin Scrolled /\ Changed(t.screen, e.rows) \subseteq e.marks
                 ELSE e.head \notin Scrolled => e.marks = DOMAIN t.screen}}

(* A view at another place shows other rows, all of them marked. *)
Turned(t, heads) ==
    {[t EXCEPT !.screen = v.rows, !.head = v.head, !.dirty = DOMAIN t.screen] :
        v \in [rows : [DOMAIN t.screen -> Row], head : heads]}

(* engine.input leaves scrollback. *)
Unscrolled(t) ==
    IF t.head \in Scrolled THEN Turned(t, FrameHead \ Scrolled) ELSE {t}

(* te_setsync while output is parsed: a begin opens the gate only once; an  *)
(* expired one stays open until the program ends the update.                *)
Gates(gate) == IF gate = "expired" THEN {"expired", "open", "held"} ELSE {"open", "held"}

Reaching(outcomes) ==
    \E o \in outcomes :
        /\ tab' = o.tab
        /\ peers' = o.peers
        /\ views' = [c \in DOMAIN o.peers |-> views[c]]

Finishing(outcomes) == Reaching(outcomes) /\ work' = work - 1

-----------------------------------------------------------------------------
Init ==
    /\ \E h \in Heights :
         tab = [screen |-> [r \in 1..h |-> Blank], head |-> Fresh.head, dirty |-> 1..h,
                gate |-> "open", base |-> <<>>, baseHead |-> Fresh.head,
                controller |-> None, pending |-> FALSE, reply |-> FALSE]
    /\ peers = <<>> /\ views = <<>>
    /\ work = Work

Connect(c) ==
    /\ work > 0 /\ c \notin DOMAIN peers
    /\ peers' = [d \in DOMAIN peers \cup {c} |->
                    IF d = c THEN [resync |-> FALSE, queue |-> <<>>] ELSE peers[d]]
    /\ views' = [d \in DOMAIN peers \cup {c} |-> IF d = c THEN Fresh ELSE views[d]]
    /\ work' = work - 1
    /\ UNCHANGED tab

Disconnect(c) == work > 0 /\ c \in DOMAIN peers /\ Finishing({Drop(tab, peers, c)})

(* An answer, a notice, a bell: other packets share the queue. *)
Answer(c) == work > 0 /\ c \in DOMAIN peers /\ Finishing(Queue(tab, peers, c))

(* send_catalog: the pending frame precedes the catalog. *)
SendCatalog(c) ==
    /\ work > 0 /\ c \in DOMAIN peers
    /\ Finishing(UNION {IF c \in DOMAIN o.peers THEN Queue(o.tab, o.peers, c) ELSE {o} :
                           o \in SendPending(tab, peers)})

(* terminal_ready: output is parsed; a frame follows at once after input,   *)
(* or when the controller has none yet.                                     *)
TerminalReady ==
    /\ work > 0
    /\ \E t \in Drawn(tab), g \in Gates(tab.gate), input \in BOOLEAN :
         LET fed == [t EXCEPT !.gate = g, !.pending = TRUE] IN
         Finishing(IF input \/ (fed.controller # None /\ fed.base = <<>>)
                   THEN SendFrame(fed, peers, FALSE) ELSE {Outcome(fed, peers)})

(* te_renderdelay: the deadline of the synchronized update has passed. *)
Expire ==
    /\ tab.gate = "held"
    /\ tab' = [tab EXCEPT !.gate = "expired"]
    /\ UNCHANGED <<peers, views, work>>

(* maintain(): the pending frame if the frame interval is over, then resync. *)
Maintain(due) ==
    /\ Reaching(UNION {Resync(o.tab, o.peers) :
                          o \in IF due THEN SendPending(tab, peers) ELSE {Outcome(tab, peers)}})
    /\ UNCHANGED work

(* maintain() with a changed catalog: publish sends the pending frame, due  *)
(* or not, before the catalog.                                              *)
Publish ==
    /\ work > 0
    /\ Finishing(UNION {Resync(o.tab, o.peers) :
                           o \in UNION {QueueAll(s.tab, s.peers) : s \in SendPending(tab, peers)}})

(* engine.resize: the screen is laid out anew and wholly marked. *)
Laid(t, h) ==
    IF Len(t.screen) = h THEN {t}
    ELSE {[t EXCEPT !.screen = v.rows, !.head = v.head, !.dirty = 1..h] :
            v \in [rows : [1..h -> Row],
                    head : IF t.head \in Scrolled THEN FrameHead ELSE FrameHead \ Scrolled]}

(* FOCUS by any window, RESIZE by the controller. *)
Focus(c, h) ==
    /\ work > 0 /\ c \in DOMAIN peers
    /\ \E o \in TakeControl(tab, peers, c) : \E t \in Laid(o.tab, h) :
         Finishing(IF tab.controller # c \/ Len(tab.screen) # h
                   THEN SendFrame(t, o.peers, TRUE) ELSE {Outcome(t, o.peers)})

(* INPUT leaves scrollback and may be echoed locally. *)
Input(c) ==
    /\ work > 0 /\ c \in DOMAIN peers
    /\ \E o \in TakeControl(tab, peers, c) : \E u \in Unscrolled(o.tab) :
         \E t \in Drawn(u) : Finishing(SendFrame(t, o.peers, FALSE))

(* FOCUS_STATE is input as well, but no frame follows. *)
FocusState(c) ==
    /\ work > 0 /\ tab.controller = c /\ c \in DOMAIN peers
    /\ Finishing({Outcome(t, peers) : t \in Unscrolled(tab)})

(* SCROLL moves the view, or not at the ends, and asks for an answer. *)
Scroll(c) ==
    /\ work > 0 /\ c \in DOMAIN peers
    /\ \E o \in TakeControl(tab, peers, c) :
         \E t \in {o.tab} \cup Turned(o.tab, Scrolled)
                  \cup (IF tab.head \in Scrolled THEN Turned(o.tab, FrameHead) ELSE {}) :
             Finishing(SendFrame([t EXCEPT !.reply = TRUE], o.peers, FALSE))

(* CONTROL takes control without sending a frame. *)
Control(c) == work > 0 /\ c \in DOMAIN peers /\ Finishing(TakeControl(tab, peers, c))

ReleaseTab(c) ==
    /\ work > 0 /\ tab.controller = c /\ c \in DOMAIN peers
    /\ Finishing({Outcome(Release(tab), peers)})

(* The window reads an entry; a frame is imported at FRAME_FINISH. *)
Imported(view, entry) ==
    IF entry = Note THEN view
    ELSE LET frame == CHOOSE f \in entry : TRUE IN
         [cells |-> Finish(view.cells, frame.plan, Blank), head |-> frame.head]

Import(c) ==
    /\ c \in DOMAIN peers /\ peers[c].queue # <<>>
    /\ views' = [views EXCEPT ![c] = Imported(@, Head(peers[c].queue))]
    /\ peers' = [peers EXCEPT ![c].queue = Tail(@)]
    /\ UNCHANGED <<tab, work>>

Next ==
    \/ TerminalReady \/ Expire \/ Publish
    \/ \E due \in BOOLEAN : Maintain(due)
    \/ \E c \in Client :
         \/ Connect(c) \/ Disconnect(c) \/ Answer(c) \/ SendCatalog(c) \/ Import(c)
         \/ Input(c) \/ FocusState(c) \/ Scroll(c) \/ Control(c) \/ ReleaseTab(c)
         \/ \E h \in Heights : Focus(c, h)

Spec == Init /\ [][Next]_vars

(* The loop wakes for due frames (wait() computes that deadline) and for an *)
(* expired update, and a window reads its socket.                           *)
FairSpec == /\ Spec
            /\ WF_vars(Maintain(TRUE))
            /\ WF_vars(Expire)
            /\ \A c \in Client : WF_vars(Import(c))

-----------------------------------------------------------------------------
(* What a window shows once it has read its queue. *)
Reading(view, queue) ==
    LET shown[n \in 0..Len(queue)] ==
            IF n = 0 THEN view ELSE Imported(shown[n - 1], queue[n])
    IN shown[Len(queue)]

(* The baseline describes queued bytes: what the controlling window will    *)
(* show once it has read its queue is exactly the baseline from which the   *)
(* next delta is computed, through congestion, holds, full-frame requests   *)
(* and changes of control (frames.rs, first line).                          *)
BaselineIsQueued ==
    (tab.controller # None /\ tab.base # <<>>) =>
        Reading(views[tab.controller], peers[tab.controller].queue)
            = [cells |-> tab.base, head |-> tab.baseHead]

(* Damage is never lost at the congestion gate or under a hold: a row that  *)
(* differs from the baseline is still marked in the engine, unless output   *)
(* was drawn under a scrolled view.                                         *)
DamageIsRetained ==
    (/\ tab.base # <<>> /\ Len(tab.base) = Len(tab.screen)
     /\ tab.head \notin Scrolled)
        => Changed(tab.base, tab.screen) \subseteq tab.dirty

(* A frame is owed to the controlling window: its baseline is the screen,   *)
(* or the tab is pending, or the window waits for resync.                   *)
Owed ==
    \/ tab.controller = None
    \/ tab.base = tab.screen /\ tab.baseHead = tab.head
    \/ tab.head \in Scrolled /\ tab.baseHead = tab.head
    \/ tab.pending
    \/ peers[tab.controller].resync

(* No handler leaves a window out of date with nothing owed, for nothing    *)
(* would bring it up to date while the program stays silent.  Only two may: *)
(* CONTROL takes control over and FOCUS_STATE leaves scrollback, both       *)
(* without sending a frame.                                                 *)
FrameIsOwed ==
    [][Owed => (Owed' \/ \E c \in Client : Control(c) \/ FocusState(c))]_vars

Shown ==
    (tab.controller # None /\ tab.head \notin Scrolled) =>
        views[tab.controller] = [cells |-> tab.screen, head |-> tab.head]

(* Once requests and output cease, the window that is owed a frame comes to *)
(* show the screen, whatever was held or congested before.                  *)
WindowCatchesUp == <>[]Owed => <>[]Shown

(* A scroll request is answered by a frame even if nothing changed, unless  *)
(* its window loses control (frame_reply).                                  *)
ScrollIsAnswered == tab.reply ~> ~tab.reply
=============================================================================
