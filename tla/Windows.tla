------------------------------- MODULE Windows -------------------------------
(***************************************************************************)
(* The windows of one GTK process (app.rs, app_browser.rs, app_shortcuts.rs *)
(* of the frontend) and the workspace service they are connected to, seen   *)
(* from its messages (service.rs and commands.rs of the daemon).            *)
(*                                                                         *)
(* GTK runs one callback at a time, and a callback may send on several      *)
(* connections and lose one half-way: the operators below map a frontend    *)
(* "ui" = [win, link] to the one the callback leaves.  A read callback      *)
(* applies every packet that one read returned, also those that follow the  *)
(* loss of the connection.                                                  *)
(*                                                                         *)
(* Abstracted: a tab is its id and kind; fonts, titles, colours, geometry   *)
(* and addresses are left out; a frame is one packet; a new connection is   *)
(* made only once the service has read the previous one to its end (the     *)
(* loop serves older clients first, and the timer takes 250 ms).            *)
(***************************************************************************)
EXTENDS Integers, Sequences, FiniteSets, SequencesExt

CONSTANTS
    Window,     \* windows a process may open
    None,       \* no controller
    FirstLaunch,\* launches that may start the process
    KeyLimit,   \* early keys a window keeps (256)
    OutBound,   \* WORKSPACE_CLIENT_QUEUE_BYTES of a connection, in packets
    Work        \* bound: things that users, programs and faults do

ASSUME WindowsAssumption ==
    /\ None \notin Window
    /\ FirstLaunch \subseteq {"hello", "attach", "browser"}
    /\ KeyLimit \in Nat \ {0} /\ OutBound \in Nat \ {0} /\ Work \in Nat

VARIABLES
    svc,        \* the service: running, its tabs, an unannounced close
    link,       \* window -> the socket of its last connection
    win,        \* window -> App
    typed,      \* keys typed so far
    heard,      \* window -> the last key of it that reached a program
    work

vars == <<svc, link, win, typed, heard, work>>

NoTab == 0
Page(id, browser) == [id |-> id, browser |-> browser]
Ids(ts) == {ts[i].id : i \in DOMAIN ts}
HasTerminal(ts, id) == \E i \in DOMAIN ts : ts[i].id = id /\ ~ts[i].browser
HasBrowser(ts, id) == \E i \in DOMAIN ts : ts[i].id = id /\ ts[i].browser

(* Connection::new after establish(): a fresh App and its socket. *)
FreshLink(first) == [up |-> TRUE, ready |-> FALSE, in |-> <<>>, out |-> <<first>>]
NoLink == [up |-> FALSE, ready |-> FALSE, in |-> <<>>, out |-> <<>>]
App(life) ==
    [life |-> life,             \* none, open, closing (asked to), gone
     conn |-> life = "open",    \* connection.is_some()
     timer |-> FALSE,           \* reconnect.is_some()
     pages |-> <<>>, active |-> NoTab, requested |-> NoTab,
     initial |-> TRUE,          \* initial_claim
     pending |-> 0,             \* pending_tabs
     early |-> <<>>,            \* early_keys
     live |-> {},               \* terminals whose viewport is live
     views |-> {},              \* pages that hold the browser view
     missed |-> FALSE]          \* history: a tab it waits for never comes

Alive(p) == p.life \in {"open", "closing"}
Message(kind, id, key) == [kind |-> kind, tab |-> id, key |-> key]
Focus(id) == Message("focus", id, 0)

-----------------------------------------------------------------------------
(* Callbacks of the frontend. *)

(* Op(x), with x evaluated once. *)
Apply(Op(_), x) == CHOOSE y \in {Op(v) : v \in {x}} : TRUE

(* The frontend with another App for a window. *)
With(ui, w, p) == [win |-> [ui.win EXCEPT ![w] = p], link |-> ui.link]

(* App::lost *)
Lost(ui, w) ==
    [win |-> [ui.win EXCEPT ![w] = [@ EXCEPT !.conn = FALSE, !.pending = 0, !.live = {},
                                            !.timer = TRUE]],
     link |-> [ui.link EXCEPT ![w] = [@ EXCEPT !.in = <<>>]]]

(* App::send: Connection::queue fails if the queue is full or the peer gone. *)
Send(ui, w, m) ==
    IF ~ui.win[w].conn THEN ui
    ELSE IF ui.link[w].up /\ Len(ui.link[w].out) < OutBound
    THEN [win |-> ui.win, link |-> [ui.link EXCEPT ![w] = [ui.link[w] EXCEPT !.out = Append(@, m)]]]
    ELSE Lost(ui, w)

Others(w) == Window \ {w}
Holders(ui, w, id) ==
    {v \in Others(w) : /\ Alive(ui.win[v]) /\ id \in ui.win[v].views
                       /\ HasBrowser(ui.win[v].pages, id)}

ClaimAnew(ui, w, id) ==
    IF ~HasBrowser(ui.win[w].pages, id) THEN ui
    ELSE Send(With(ui, w, [ui.win[w] EXCEPT !.views = @ \cup {id}]), w, Focus(id))

(* App::claim_browser: the view moves here from the window that holds it, or *)
(* a new one is made.                                                        *)
ClaimBrowser(ui, w, id) ==
    IF ~HasBrowser(ui.win[w].pages, id) THEN ui
    ELSE LET from == IF id \in ui.win[w].views \/ Holders(ui, w, id) = {} THEN {}
                     ELSE {CHOOSE v \in Holders(ui, w, id) : TRUE}
             moved == [v \in Window |->
                 IF v = w THEN [ui.win[v] EXCEPT !.views = @ \cup {id}]
                 ELSE IF v \in from THEN [ui.win[v] EXCEPT !.views = @ \ {id}]
                 ELSE ui.win[v]]
         IN Apply(LAMBDA u : Send(u, w, Focus(id)), [win |-> moved, link |-> ui.link])

(* App::activate *)
Activate(ui, w, id) ==
    LET shown == With(ui, w, [ui.win[w] EXCEPT !.active = id]) IN
    IF HasTerminal(ui.win[w].pages, id)
    THEN Apply(LAMBDA u : Send(u, w, Focus(id)), shown)
    ELSE Apply(LAMBDA u : ClaimBrowser(u, w, id), shown)

(* App::new_tab counts the tab before it is sent, or not sent: there may be   *)
(* no connection.                                                            *)
NewTab(ui, w) ==
    LET p == ui.win[w] IN
    Send(With(ui, w, [p EXCEPT !.pending = @ + 1, !.missed = @ \/ ~p.conn]),
         w, Message("new", NoTab, 0))

(* A key press: shortcut(), then the terminal that has the focus, whose      *)
(* input() claims the tab first if it is not live.                           *)
Buffering(p) == p.active = NoTab /\ (p.initial \/ p.pending # 0 \/ p.requested # NoTab)

Key(ui, w, k) ==
    LET p == ui.win[w] IN
    IF Buffering(p)
    THEN With(ui, w, [p EXCEPT !.early = IF Len(@) < KeyLimit THEN Append(@, k) ELSE @])
    ELSE CASE k.what = "new" ->
                IF HasBrowser(p.pages, p.active) THEN Send(ui, w, Message("browser", NoTab, 0))
                ELSE NewTab(ui, w)
           [] k.what = "close" -> Send(ui, w, Message("close", p.active, 0))
           [] k.what = "text" ->
                IF ~HasTerminal(p.pages, p.active) THEN ui
                ELSE Send(IF p.active \in p.live THEN ui ELSE Activate(ui, w, p.active),
                          w, Message("input", p.active, k.n))

Keys(ui, w, ks) ==
    LET after[i \in 0..Len(ks)] ==
            IF i = 0 THEN ui ELSE Apply(LAMBDA u : Key(u, w, ks[i]), after[i - 1])
    IN after[Len(ks)]

Emptied(ui, w) == With(ui, w, [ui.win[w] EXCEPT !.early = <<>>])
DrainBackwards(ui, w) == Keys(Emptied(ui, w), w, Reverse(ui.win[w].early))

(* The end of App::catalog: the buffered keys are pressed again. *)
Drain(ui, w) ==
    IF ui.win[w].early = <<>> THEN ui
    ELSE Keys(Emptied(ui, w), w, ui.win[w].early)

ChosenIgnoringFallback(p, m) == IF p.requested # NoTab THEN p.requested ELSE p.active

(* The tab that App::catalog shows. *)
Chosen(p, m) ==
    IF p.requested # NoTab THEN p.requested
    ELSE IF p.active \in Ids(m.tabs) THEN p.active
    ELSE IF m.fallback \in Ids(m.tabs) THEN m.fallback
    ELSE IF m.tabs # <<>> THEN m.tabs[1].id ELSE NoTab

(* App::catalog: what it leaves of the window before it shows a tab, and       *)
(* whether it shows one anew.                                                *)
Found(p, m) == Chosen(p, m) \in Ids(m.tabs)
Kept(p, m) == {t.id : t \in ToSet(p.pages) \cap ToSet(m.tabs)}
Updated(p, m) ==
    [p EXCEPT !.pages = m.tabs, !.live = @ \cap Kept(p, m), !.views = @ \cap Kept(p, m),
              !.requested = NoTab, !.initial = FALSE,
              !.missed = @ \/ (p.requested # NoTab /\ ~Found(p, m)),
              !.life = IF ~Found(p, m) /\ m.closed # NoTab THEN "closing" ELSE @]
Switches(p, m) ==
    \/ p.active # Chosen(p, m) \/ p.requested # NoTab
    \/ p.active \in Ids(p.pages) \ Kept(p, m)
    \/ p.initial /\ (HasTerminal(m.tabs, Chosen(p, m)) \/ Chosen(p, m) \in p.views \cap Kept(p, m))

Catalog(ui, w, m) ==
    LET p == ui.win[w]
        next == With(ui, w, Updated(p, m))
    IN Apply(LAMBDA v : Drain(v, w),
             IF Found(p, m) /\ Switches(p, m)
             THEN Apply(LAMBDA u : Activate(u, w, Chosen(p, m)), next) ELSE next)

(* App::packet *)
Packet(ui, w, m) ==
    LET p == ui.win[w] IN
    CASE m.kind = "catalog" -> Catalog(ui, w, m)
      [] m.kind = "created" ->
            With(ui, w, [p EXCEPT !.requested = m.tab,
                                  !.pending = IF @ > 0 THEN @ - 1 ELSE 0])
      [] m.kind = "release" -> With(ui, w, [p EXCEPT !.live = @ \ {m.tab}])
      [] m.kind = "frame" ->
            IF HasTerminal(p.pages, m.tab)
            THEN With(ui, w, [p EXCEPT !.live = @ \cup {m.tab}]) ELSE ui

(* App::release_browsers: the views of a closing window move to windows      *)
(* that have the page.                                                       *)
Rehome(ui, w, id) ==
    LET peers == {v \in Others(w) : Alive(ui.win[v]) /\ HasBrowser(ui.win[v].pages, id)}
    IN IF peers = {} THEN ui ELSE ClaimBrowser(ui, CHOOSE v \in peers : TRUE, id)
ReleaseBrowsers(ui, w) ==
    LET ids == SetToSeq(ui.win[w].views)
        after[i \in 0..Len(ids)] ==
            IF i = 0 THEN ui ELSE Apply(LAMBDA u : Rehome(u, w, ids[i]), after[i - 1])
    IN after[Len(ids)]

-----------------------------------------------------------------------------
Ui == [win |-> win, link |-> link]
Becomes(ui) == \E u \in {ui} : win' = u.win /\ link' = u.link

(* The service runs, and a process has opened its first window. *)
Init ==
    /\ svc = [up |-> TRUE, tabs |-> <<>>, next |-> 1, closed |-> NoTab,
              fallback |-> NoTab, due |-> FALSE]
    /\ LET w1 == CHOOSE w \in Window : TRUE IN
       /\ win = [w \in Window |-> App(IF w = w1 THEN "open" ELSE "none")]
       /\ \E first \in FirstLaunch :
            link = [w \in Window |-> IF w = w1 THEN FreshLink(Message(first, NoTab, 0))
                                     ELSE NoLink]
    /\ typed = 0 /\ heard = [w \in Window |-> 0]
    /\ work = Work

Busy == work > 0 /\ work' = work - 1

(* App::open, for a launch forwarded to the process or its shortcut: a       *)
(* shell, a browser tab, or what the workspace already has.  Its ensure() has *)
(* started the service if there was none (Begins).                           *)
Open(w, first) ==
    /\ Busy /\ svc.up /\ win[w].life = "none"
    /\ win' = [win EXCEPT ![w] = App("open")]
    /\ link' = [link EXCEPT ![w] = FreshLink(Message(first, NoTab, 0))]
    /\ UNCHANGED <<svc, typed, heard>>

(* Connection::read *)
Took(w, n) ==
    [win |-> win, link |-> [link EXCEPT ![w] = [link[w] EXCEPT !.in = SubSeq(@, n + 1, Len(@))]]]

(* The reader callback: the packets of one read, in order. *)
Applied(w, n) ==
    LET after[i \in 0..n] ==
            IF i = 0 THEN Took(w, n)
            ELSE Apply(LAMBDA u : Packet(u, w, link[w].in[i]), after[i - 1])
    IN after[n]
Receive(w, n) ==
    /\ win[w].conn /\ Alive(win[w])
    /\ Becomes(Applied(w, n))
    /\ UNCHANGED <<svc, typed, heard, work>>

(* The reader callback finds the end of the stream. *)
ReadEnd(w) ==
    /\ win[w].conn /\ Alive(win[w]) /\ ~link[w].up /\ link[w].in = <<>>
    /\ Becomes(Lost(Ui, w))
    /\ UNCHANGED <<svc, typed, heard, work>>

(* The reconnect timer: establish(false). *)
Reconnect(w) ==
    /\ Alive(win[w]) /\ win[w].timer /\ svc.up /\ ~link[w].up
    /\ win' = [win EXCEPT ![w].conn = TRUE, ![w].initial = TRUE, ![w].timer = FALSE]
    /\ link' = [link EXCEPT ![w] = FreshLink(Message("attach", NoTab, 0))]
    /\ UNCHANGED <<svc, typed, heard, work>>

(* The service ends between the connect and the first packet. *)
ReconnectBreaks(w) ==
    /\ Alive(win[w]) /\ win[w].timer /\ ~link[w].up /\ ~win[w].initial
    /\ win' = [win EXCEPT ![w].initial = TRUE]
    /\ UNCHANGED <<svc, link, typed, heard, work>>

Press(w, what) ==
    /\ Busy /\ Alive(win[w])
    /\ typed' = typed + 1
    /\ Becomes(Key(Ui, w, [n |-> typed + 1, what |-> what]))
    /\ UNCHANGED <<svc, heard>>

(* A click in the tab strip, or a shortcut that cycles or selects tabs. *)
Select(w, id) ==
    /\ Busy /\ Alive(win[w]) /\ id \in Ids(win[w].pages)
    /\ Becomes(Activate(Ui, w, id))
    /\ UNCHANGED <<svc, typed, heard>>

(* The window gets the focus, or its button "Show browser here" is clicked. *)
ShowBrowser(w) ==
    /\ Busy /\ Alive(win[w])
    /\ Becomes(ClaimBrowser(Ui, w, win[w].active))
    /\ UNCHANGED <<svc, typed, heard>>

(* delete-event and destroy, asked for by the user or by a catalog. *)
Destroyed(ui, w) ==
    [win |-> [ui.win EXCEPT ![w] = [App("gone") EXCEPT !.missed = ui.win[w].missed]],
     link |-> [ui.link EXCEPT ![w] = [@ EXCEPT !.in = <<>>]]]

Close(w) ==
    /\ win[w].life = "open" /\ Busy
    /\ Becomes(Destroyed(ReleaseBrowsers(Ui, w), w))
    /\ UNCHANGED <<svc, typed, heard>>

CloseAsked(w) ==
    /\ win[w].life = "closing"
    /\ UNCHANGED <<svc, typed, heard, work>>
    /\ Becomes(Destroyed(ReleaseBrowsers(Ui, w), w))

-----------------------------------------------------------------------------
(* The workspace service. *)

(* Service::queue *)
Told(lk, w, m) == IF lk[w].up /\ win[w].conn THEN [lk EXCEPT ![w].in = Append(@, m)] ELSE lk

Notice(kind, id) == [kind |-> kind, tab |-> id]
CatalogOf(sv) ==
    [kind |-> "catalog", closed |-> sv.closed, fallback |-> sv.fallback,
     tabs |-> [i \in DOMAIN sv.tabs |-> Page(sv.tabs[i].id, sv.tabs[i].browser)]]

(* Service::publish *)
Broadcast(sv, lk) ==
    /\ svc' = [sv EXCEPT !.closed = NoTab, !.fallback = NoTab, !.due = FALSE]
    /\ link' = [w \in Window |->
                   IF lk[w].ready THEN Told(lk, w, CatalogOf(sv))[w] ELSE lk[w]]

Created(sv, browser, owner) ==
    [sv EXCEPT !.tabs = Append(@, [id |-> sv.next, browser |-> browser, owner |-> owner]),
               !.next = @ + 1]

(* HELLO, NEW: a shell, which the client controls; the catalog; its screen.  *)
NewShell(w, lk) ==
    LET made == Told([lk EXCEPT ![w].ready = TRUE], w, Notice("created", svc.next))
        sv == Created(svc, FALSE, w)
    IN /\ svc' = [sv EXCEPT !.closed = NoTab, !.fallback = NoTab, !.due = FALSE]
       /\ link' = Told([v \in Window |-> IF made[v].ready THEN Told(made, v, CatalogOf(sv))[v]
                                         ELSE made[v]],
                       w, Notice("frame", svc.next))

(* BROWSER *)
NewBrowser(w, lk) ==
    Broadcast(Created(svc, TRUE, None),
              Told([lk EXCEPT ![w].ready = TRUE], w, Notice("created", svc.next)))

(* ATTACH *)
Attach(w, lk) ==
    /\ link' = Told([lk EXCEPT ![w].ready = TRUE], w, CatalogOf(svc))
    /\ UNCHANGED svc

(* take_control: the previous controller is told. *)
Controlled(sv, i, w) == [sv EXCEPT !.tabs[i].owner = w]
OustedSilently(lk, i, w) == lk
Ousted(lk, i, w) ==
    IF svc.tabs[i].owner \in {w, None} THEN lk
    ELSE Told(lk, svc.tabs[i].owner, Notice("release", svc.tabs[i].id))

(* FOCUS and INPUT; a claim is answered with a full frame. *)
TakeControl(i, w, lk, frame) ==
    /\ svc' = Controlled(svc, i, w)
    /\ link' = IF frame /\ svc.tabs[i].owner # w
               THEN Told(Ousted(lk, i, w), w, Notice("frame", svc.tabs[i].id))
               ELSE Ousted(lk, i, w)

(* Service::close *)
Closed(sv, i) ==
    [sv EXCEPT !.tabs = SubSeq(@, 1, i - 1) \o SubSeq(@, i + 1, Len(@)),
               !.closed = sv.tabs[i].id,
               !.fallback = IF i < Len(sv.tabs) THEN sv.tabs[i + 1].id
                            ELSE IF i > 1 THEN sv.tabs[i - 1].id ELSE NoTab]

(* Service::message: the next packet of a client. *)
Serve(w) ==
    /\ svc.up /\ link[w].up /\ link[w].out # <<>>
    /\ UNCHANGED <<win, typed, work>>
    /\ LET m == Head(link[w].out)
           lk == [link EXCEPT ![w].out = Tail(@)]
           at == {i \in DOMAIN svc.tabs : svc.tabs[i].id = m.tab /\ link[w].ready}
       IN /\ heard' = IF m.kind = "input" THEN [heard EXCEPT ![w] = m.key] ELSE heard
          /\ \/ m.kind \in {"hello", "new"} /\ NewShell(w, lk)
             \/ m.kind = "browser" /\ NewBrowser(w, lk)
             \/ m.kind = "attach" /\ Attach(w, lk)
             \/ \E i \in at : m.kind = "close" /\ svc' = Closed(svc, i) /\ link' = lk
             \/ \E i \in at : /\ m.kind \in {"focus", "input"} /\ ~svc.tabs[i].browser
                              /\ TakeControl(i, w, lk, m.kind = "focus")
             \/ /\ m.kind \in {"close", "focus", "input"}
                /\ \A i \in at : m.kind # "close" /\ svc.tabs[i].browser
                /\ link' = lk /\ UNCHANGED svc

Forgotten(sv, w) ==
    [sv EXCEPT !.tabs = [i \in DOMAIN sv.tabs |->
        [sv.tabs[i] EXCEPT !.owner = IF @ = w THEN None ELSE @]]]

(* drop_client: the window has closed its end, or its queue overflowed. *)
Dropped(w) ==
    /\ svc.up /\ link[w].up
    /\ svc' = Forgotten(svc, w)
    /\ link' = [link EXCEPT ![w].up = FALSE, ![w].ready = FALSE, ![w].out = <<>>]
    /\ UNCHANGED <<win, typed, heard>>

DropClosed(w) == ~win[w].conn /\ link[w].out = <<>> /\ Dropped(w) /\ UNCHANGED work
DropClient(w) == Busy /\ Dropped(w)

(* maintain() publishes closed or changed tabs. *)
Publish ==
    /\ svc.up /\ (svc.closed # NoTab \/ svc.due)
    /\ Broadcast(svc, link)
    /\ UNCHANGED <<win, typed, heard, work>>

(* A shell ends; maintain() closes its tab and publishes. *)
ShellEnds(i) ==
    /\ Busy /\ svc.up /\ ~svc.tabs[i].browser
    /\ Broadcast(Closed(svc, i), link)
    /\ UNCHANGED <<win, typed, heard>>

(* finish_replacement: the command in the shell turned its tab into a        *)
(* browser tab.                                                              *)
Convert(i) ==
    /\ Busy /\ svc.up /\ ~svc.tabs[i].browser
    /\ svc' = [svc EXCEPT !.tabs[i].browser = TRUE, !.tabs[i].owner = None, !.due = TRUE]
    /\ UNCHANGED <<link, win, typed, heard>>

(* The service ends: stopped, killed or replaced. *)
Down ==
    /\ Busy /\ svc.up
    /\ svc' = [svc EXCEPT !.up = FALSE]
    /\ link' = [w \in Window |-> [link[w] EXCEPT !.up = FALSE, !.ready = FALSE, !.out = <<>>]]
    /\ UNCHANGED <<win, typed, heard>>

(* A successor serves: an upgrade keeps ids, a restart numbers recovered     *)
(* tabs anew.                                                                *)
Start(kept) ==
    /\ ~svc.up
    /\ svc' = [up |-> TRUE, closed |-> NoTab, fallback |-> NoTab, due |-> FALSE,
               tabs |-> [i \in DOMAIN svc.tabs |->
                   [svc.tabs[i] EXCEPT !.owner = None, !.id = IF kept THEN @ ELSE i]],
               next |-> IF kept THEN svc.next ELSE Len(svc.tabs) + 1]
    /\ UNCHANGED <<link, win, typed, heard, work>>

(* Nothing restarts a service that ended: it starts when another window is    *)
(* opened (ensure() in App::open) or as the successor of an upgrade.         *)
Begins == \E kept \in BOOLEAN : Start(kept)

(* What the programs do by themselves. *)
Progress ==
    \/ \E w \in Window :
         \/ \E n \in 1..Len(link[w].in) : Receive(w, n)
         \/ ReadEnd(w) \/ Reconnect(w) \/ CloseAsked(w) \/ Serve(w) \/ DropClosed(w)
    \/ Publish

(* What users, shells and faults do. *)
Environment ==
    \/ \E w \in Window :
         \/ \E first \in {"hello", "attach", "browser"} : Open(w, first)
         \/ \E what \in {"text", "new", "close"} : Press(w, what)
         \/ \E id \in Ids(win[w].pages) : Select(w, id)
         \/ ShowBrowser(w) \/ Close(w) \/ DropClient(w) \/ ReconnectBreaks(w)
    \/ Down \/ \E i \in DOMAIN svc.tabs : ShellEnds(i) \/ Convert(i)

Next == Progress \/ Environment \/ Begins

Spec == Init /\ [][Next]_vars

(* Both loops dispatch what is ready and the reconnect timer fires; that a   *)
(* service starts is assumed of nobody.                                      *)
FairSpec == Spec /\ WF_vars(Progress)

-----------------------------------------------------------------------------
(* At most one window holds the live view of a browser tab, and only one     *)
(* that has a page for it, however tabs convert, windows close and           *)
(* connections break while views move (app_browser.rs, first line).          *)
OneView ==
    \A v, w \in Window :
        /\ \A id \in win[w].views : HasBrowser(win[w].pages, id)
        /\ v # w => win[v].views \cap win[w].views = {}

(* A window that takes the terminal it shows for live, and types into it     *)
(* without a claim, controls it, or has claimed it, or is being told that     *)
(* another window took it or that it is gone (terminal.rs, live); except      *)
(* after a tab it waited for did not come, when App::catalog claims nothing.  *)
Terminals(ts) == {ts[i].id : i \in {j \in DOMAIN ts : ~ts[j].browser}}
Dispossesses(m, id) ==
    \/ m.kind = "release" /\ m.tab = id
    \/ m.kind = "catalog" /\ id \notin Terminals(m.tabs)
Controls(sv, w, id) == \E i \in DOMAIN sv.tabs : sv.tabs[i].id = id /\ sv.tabs[i].owner = w
GoneUntold(sv, id) == Dispossesses(CatalogOf(sv), id) /\ (sv.due \/ sv.closed # NoTab)
LiveIsControlled ==
    \A w \in Window :
        LET p == win[w] IN
        p.conn /\ link[w].up /\ ~p.initial /\ ~p.missed /\ p.active \in p.live =>
            \/ Controls(svc, w, p.active)
            \/ Focus(p.active) \in ToSet(link[w].out)
            \/ \E m \in ToSet(link[w].in) : Dispossesses(m, p.active)
            \/ GoneUntold(svc, p.active)

(* Keys reach programs in the order typed: those that arrived, those sent    *)
(* and those buffered ascend (app_shortcuts.rs, shortcut).                   *)
Inputs(out) == {i \in DOMAIN out : out[i].kind = "input"}
InOrder(last, out, early) ==
    /\ \A i \in Inputs(out) :
         last < out[i].key /\ \A j \in Inputs(out) : i < j => out[i].key < out[j].key
    /\ \A i \in DOMAIN early :
         /\ last < early[i].n
         /\ \A j \in Inputs(out) : out[j].key < early[i].n
         /\ \A j \in DOMAIN early : i < j => early[i].n < early[j].n
KeysStayInOrder ==
    \A w \in Window : ~win[w].missed => InOrder(heard[w], link[w].out, win[w].early)

(* When nothing happens any more and the service serves, every window has    *)
(* closed or is connected, has no key left in its buffer, and shows a tab if  *)
(* there are any, except that a tab it waits for never comes; if the service  *)
(* stays away, every window has noticed and waits on its timer for another    *)
(* (App::lost, App::catalog).                                                *)
Settled(w) ==
    Alive(win[w]) =>
        IF svc.up
        THEN /\ win[w].conn
             /\ \/ win[w].missed
                \/ win[w].early = <<>> /\ (win[w].active \in Ids(svc.tabs) \/ svc.tabs = <<>>)
        ELSE win[w].timer /\ ~win[w].conn
WindowsSettle == <>[](\A w \in Window : Settled(w))

(* What app.rs tells the user of an empty window, "No tabs. Ctrl+Shift+T     *)
(* opens a terminal.": once nothing is under way, the key is not buffered.   *)
NoTabsKeyWorks ==
    \A w \in Window :
        /\ win[w].life = "open" /\ win[w].conn /\ link[w].up /\ ~win[w].initial
        /\ win[w].pages = <<>> /\ link[w].in = <<>> /\ link[w].out = <<>>
        => ~Buffering(win[w])
=============================================================================
